---------------------------- MODULE ConnectorPoll ---------------------------
(***************************************************************************)
(* The poll cycle of one connector with its outage marker and the backfill *)
(* that follows an outage (ConnectorScheduler._poll_one and the row writes *)
(* of services/connectors/app/db/connector_repo.py).                       *)
(*                                                                         *)
(* Time is counted in slots; a poll asks the source for the last lookback  *)
(* slots.  Time starts with a successful poll.  The poll job is taken      *)
(* as its docstring describes it, due every Interval slots; ConnectorJobs  *)
(* says how it is registered.  A poll occupies its job until its backfill  *)
(* is over, and runs that fall due meanwhile are dropped (max_instances=1).*)
(***************************************************************************)
EXTENDS Integers

CONSTANTS
  Interval,  \* poll_interval_seconds, also the lookback of a poll
  Threshold, \* _BACKFILL_OUTAGE_THRESHOLD_S
  Flap,      \* _BACKFILL_FLAP_WINDOW_S
  MaxLookback, \* _MAX_BACKFILL_LOOKBACK_S
  Buffer,    \* _BACKFILL_LOOKBACK_BUFFER_S
  Slack,     \* how long a poll and its backfill may take together
  Faults,    \* the faults of a run: "read", "write", "backfill", "stop"
  MaxFaults, \* bound on faults
  MaxTime    \* bound on time

ASSUME TimeAssumption ==
  /\ {Interval, Threshold, Flap, MaxLookback} \subseteq Nat \ {0}
  /\ {Buffer, Slack, MaxFaults, MaxTime} \subseteq Nat
ASSUME FaultAssumption == Faults \subseteq {"read", "write", "backfill", "stop"}


Never == -1

VARIABLES
  now,
  due,      \* when the job fires next
  phase,    \* where the poll is; a backfill refetches and rerecords
  spent,    \* time since the poll started
  asked,    \* when the source was asked
  lookback, \* since_seconds of that question
  snap,     \* the row as the poll read it
  outage,   \* last_outage_at
  backfill, \* last_backfill_at
  reached,  \* when the last successful poll had asked
  got,      \* slots delivered to ingest
  excused,  \* slots of outages too short, or too old, to be backfilled
  faults,
  clean     \* no fault has happened

row == <<outage, backfill>>
history == <<reached, got, excused>>
vars == <<now, due, phase, spent, asked, lookback, snap, row, history,
          faults, clean>>

Time == 0 .. MaxTime
Stamp == Time \cup {Never}
Polling == phase \notin {"idle", "down"}

TypeOK ==
  /\ now \in Time
  /\ due \in Nat
  /\ phase \in {"idle", "fetch", "record", "stamp", "refetch", "rerecord", "down"}
  /\ spent \in 0 .. Slack
  /\ asked \in Time
  /\ lookback \in 1 .. MaxLookback \cup {Interval}
  /\ snap \in [outage : Stamp, backfill : Stamp]
  /\ outage \in Stamp /\ backfill \in Stamp
  /\ reached \in Time
  /\ got \subseteq Time /\ excused \subseteq Time
  /\ faults \in 0 .. MaxFaults
  /\ clean \in BOOLEAN

Init ==
  /\ now = 0 /\ due = Interval
  /\ phase = "idle" /\ spent = 0
  /\ asked = 0 /\ lookback = Interval
  /\ snap = [outage |-> Never, backfill |-> Never]
  /\ outage = Never /\ backfill = Never
  /\ reached = 0 /\ got = {} /\ excused = {}
  /\ faults = 0 /\ clean = TRUE

Fault(kind) ==
  /\ kind \in Faults
  /\ faults < MaxFaults
  /\ faults' = faults + 1
  /\ clean' = FALSE
NoFault == UNCHANGED <<faults, clean>>

-----------------------------------------------------------------------------
\* The clock.  A job that is due fires before time passes; a run that falls
\* due during a poll is dropped.
Tick ==
  /\ now < MaxTime
  /\ ~(phase = "idle" /\ now = due)
  /\ Polling => spent < Slack
  /\ now' = now + 1
  /\ spent' = IF Polling THEN spent + 1 ELSE spent
  /\ due' = IF Polling /\ now = due THEN due + Interval ELSE due
  /\ NoFault
  /\ UNCHANGED <<phase, asked, lookback, snap, row, history>>

Fires ==
  /\ phase = "idle" /\ now = due
  /\ due' = due + Interval
  /\ spent' = 0
  /\ UNCHANGED <<now, row, history>>

\* The job fires, reads its row and asks the source.
Poll ==
  /\ Fires
  /\ snap' = [outage |-> outage, backfill |-> backfill]
  /\ asked' = now
  /\ lookback' = Interval
  /\ phase' = "fetch"
  /\ NoFault

\* The row cannot be read, or the connector is disabled: nothing is recorded.
PollSkipped ==
  /\ Fires
  /\ Fault("read")
  /\ UNCHANGED <<phase, asked, lookback, snap>>

\* The events were fetched and ingest took them.
Deliver ==
  /\ phase \in {"fetch", "refetch"}
  /\ got' = got \cup {s \in Time : asked - lookback <= s /\ s < asked}
  /\ phase' = IF phase = "fetch" THEN "record" ELSE "rerecord"
  /\ NoFault
  /\ UNCHANGED <<now, due, spent, asked, lookback, snap, row, reached, excused>>

\* Mutant: every failure moves the marker.
LatestOutage == now

\* record_poll_failure keeps the first failure since the last success.
OutageAfterFailure == IF outage = Never THEN now ELSE outage

\* Building the connector, fetching or pushing fails.
PollFails ==
  /\ phase \in {"fetch", "refetch"}
  /\ phase' = "idle"
  /\ \/ phase = "fetch" /\ NoFault /\ outage' = OutageAfterFailure
     \/ phase = "refetch" /\ Fault("backfill") /\ outage' = OutageAfterFailure
     \/ Fault("write") /\ outage' = outage
  /\ UNCHANGED <<now, due, spent, asked, lookback, snap, backfill, history>>

LongOutage == snap.outage # Never /\ now - snap.outage >= Threshold

\* Mutant: no flap suppression.
NeverFlaps == FALSE

Flapping == snap.backfill # Never /\ now - snap.backfill < Flap

BackfillLookback ==
  IF now - snap.outage + Buffer < MaxLookback
  THEN now - snap.outage + Buffer
  ELSE MaxLookback

\* Bookkeeping: the longest gap an outage under the threshold can leave, the
\* interval before its first failure included.
ShortGap == now - reached < Threshold + Interval + Slack

\* A poll succeeded: the decision on a backfill is taken from the row as it
\* was read, then record_poll_success clears the marker.  A write that fails
\* is only logged.
RecordSuccess ==
  /\ phase = "record"
  /\ \/ NoFault /\ outage' = Never
     \/ Fault("write") /\ outage' = outage
  /\ IF LongOutage /\ ~Flapping
     THEN phase' = "stamp" /\ lookback' = BackfillLookback
     ELSE phase' = "idle" /\ lookback' = lookback
  /\ reached' = asked
  /\ excused' = IF snap.outage # Never /\ ~LongOutage /\ ShortGap
                THEN excused \cup {s \in Time : reached <= s /\ s < asked}
                ELSE excused
  /\ UNCHANGED <<now, due, spent, asked, snap, backfill, got>>

\* last_backfill_at is written (or lost), then the nested poll starts.
Backfill ==
  /\ phase = "stamp"
  /\ \/ NoFault /\ backfill' = now
     \/ Fault("write") /\ backfill' = backfill
  /\ phase' = "refetch"
  /\ asked' = now
  /\ excused' = IF lookback = MaxLookback
                THEN excused \cup {s \in Time : s < now - MaxLookback}
                ELSE excused
  /\ UNCHANGED <<now, due, spent, lookback, snap, outage, reached, got>>

\* The nested poll cannot read its row.
BackfillSkipped ==
  /\ phase = "stamp"
  /\ Fault("read")
  /\ backfill' = now
  /\ phase' = "idle"
  /\ UNCHANGED <<now, due, spent, asked, lookback, snap, outage, history>>

RecordBackfill ==
  /\ phase = "rerecord"
  /\ \/ NoFault /\ outage' = Never
     \/ Fault("write") /\ outage' = outage
  /\ phase' = "idle"
  /\ UNCHANGED <<now, due, spent, asked, lookback, snap, backfill, history>>

\* shutdown(wait=False), or the process ends, at any point of a poll.
Stop ==
  /\ phase # "down"
  /\ Fault("stop")
  /\ phase' = "down"
  /\ UNCHANGED <<now, due, spent, asked, lookback, snap, row, history>>

\* The job is added again: an interval trigger first fires after Interval.
Restart ==
  /\ phase = "down"
  /\ phase' = "idle"
  /\ due' = now + Interval
  /\ NoFault
  /\ UNCHANGED <<now, spent, asked, lookback, snap, row, history>>

Next ==
  \/ Tick \/ Poll \/ PollSkipped \/ Deliver \/ PollFails \/ RecordSuccess
  \/ Backfill \/ BackfillSkipped \/ RecordBackfill \/ Stop \/ Restart

Spec == Init /\ [][Next]_vars

-----------------------------------------------------------------------------
\* Between polls, every slot before the last successful one was delivered or
\* is excused.
NoHole == phase = "idle" => {s \in Time : s < reached} \subseteq got \cup excused

\* The flap window is within the threshold, as in the code, and a poll ends
\* before the next is due.
Cadenced == Flap <= Threshold /\ Slack < Interval

\* What a backfill can miss: the interval before the first failure, the time
\* until that is recorded and the time from the recovery to the backfill,
\* less the buffer.
Gap == IF Interval + 2 * Slack > Buffer THEN Interval + 2 * Slack - Buffer ELSE 0

\* Of any Gap + 1 slots in a row before the last successful poll, one was
\* delivered or is excused.
HolesWithinGap ==
  phase = "idle" =>
    \A s \in Time : s + Gap < reached => \E i \in 0 .. Gap : s + i \in got \cup excused

\* In a history without faults the polls and backfills leave no hole wider
\* than Gap, however long the source was out and however the failed polls
\* fell (recovery branch and backfill of _poll_one).
FaultFreeHolesWithinGap == Cadenced /\ clean => HolesWithinGap

\* A buffer that covers all of it leaves no gap.
Margins == Cadenced /\ Interval + 2 * Slack <= Buffer

\* A backfill never starts within the flap window of the last recorded one,
\* whatever writes fail ("we won't fire another one even if last_outage_at
\* looks long").
BackfillsSpaced ==
  [][Backfill => backfill = Never \/ now - backfill >= Flap]_vars

\* "the next start picks up where we left off": stops alone open no hole.
PicksUpWhereLeftOff == Faults = {"stop"} /\ Margins => NoHole

\* "so the customer doesn't have a hole in their data for the duration of the
\* outage": once the connector is healthy again no hole is left, if reads,
\* writes and the process are sound.
OutageLeavesNoHole ==
  Faults = {"backfill"} /\ Margins /\ outage = Never => NoHole

\* "Small buffer ... to cover the gap between the last successful poll and
\* last_outage_at": with the default cadence, which equals the buffer.
BufferClosesGap == clean /\ Interval = Buffer /\ Slack < Interval => NoHole
=============================================================================
