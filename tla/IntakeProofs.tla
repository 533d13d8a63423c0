---------------------------- MODULE IntakeProofs ----------------------------
(***************************************************************************)
(* Proofs about what enters the system.                                    *)
(*                                                                         *)
(* ConnectorPoll, for every interval, threshold, window and set of faults: *)
(* its types, the distance of backfills, and that a history without faults *)
(* leaves no hole wider than what the buffer lacks.                        *)
(*                                                                         *)
(* GraphStream, for any events, clients, tenants and sizes: nothing that   *)
(* was accepted is left behind, and live updates are in order.  Its        *)
(* invariant goes along the stream, from the queue to what clients have    *)
(* received, and relates every stage to every later one.                   *)
(***************************************************************************)
EXTENDS ConnectorPoll, GraphStream, SequenceTheorems, TLAPS

-----------------------------------------------------------------------------
(***************************************************************************)
(* ConnectorPoll.                                                          *)
(***************************************************************************)

LEMMA FaultTypes ==
  ASSUME NEW kind, Fault(kind) \/ NoFault, faults \in 0 .. MaxFaults,
         clean \in BOOLEAN
  PROVE  faults' \in 0 .. MaxFaults /\ clean' \in BOOLEAN
<1>1. MaxFaults \in Nat
  BY TimeAssumption
<1>2. faults' \in 0 .. MaxFaults
  BY <1>1, SMT DEF Fault, NoFault
<1>3. clean' \in BOOLEAN
  BY Zenon DEF Fault, NoFault
<1>4. QED
  BY <1>2, <1>3

\* The type invariant: phases, times and bounds of the poll cycle.
THEOREM TypeCorrect == Spec => []TypeOK
<1> USE TimeAssumption, FaultAssumption DEF Time, Stamp, Never
<1>1. Init => TypeOK
  BY DEF Init, TypeOK
<1>2. TypeOK /\ [Next]_vars => TypeOK'
  <2> SUFFICES ASSUME TypeOK, [Next]_vars PROVE TypeOK'
    OBVIOUS
  <2> USE DEF TypeOK, row, history
  <2>0. \A k : Fault(k) \/ NoFault => faults' \in 0 .. MaxFaults /\ clean' \in BOOLEAN
    BY FaultTypes
  <2>1. CASE Tick
    BY <2>0, <2>1 DEF Tick, Polling
  <2>2. CASE Poll
    BY <2>0, <2>2 DEF Poll, Fires
  <2>3. CASE PollSkipped
    BY <2>0, <2>3 DEF PollSkipped, Fires
  <2>4. CASE Deliver
    BY <2>0, <2>4 DEF Deliver
  <2>5. CASE PollFails
    BY <2>0, <2>5 DEF PollFails, OutageAfterFailure
  <2>6. CASE RecordSuccess
    <3>1. lookback' \in 1 .. MaxLookback \cup {Interval}
      BY <2>6 DEF RecordSuccess, LongOutage, BackfillLookback
    <3>2. QED
      BY <2>0, <2>6, <3>1 DEF RecordSuccess
  <2>7. CASE Backfill
    BY <2>0, <2>7 DEF Backfill
  <2>8. CASE BackfillSkipped
    BY <2>0, <2>8 DEF BackfillSkipped
  <2>9. CASE RecordBackfill
    BY <2>0, <2>9 DEF RecordBackfill
  <2>10. CASE Stop
    BY <2>0, <2>10 DEF Stop
  <2>11. CASE Restart
    BY <2>0, <2>11 DEF Restart
  <2>12. CASE UNCHANGED vars
    BY <2>12 DEF vars
  <2>13. QED
    BY <2>1, <2>2, <2>3, <2>4, <2>5, <2>6, <2>7, <2>8, <2>9, <2>10, <2>11,
       <2>12 DEF Next
<1>3. QED
  BY <1>1, <1>2, PTL DEF Spec

-----------------------------------------------------------------------------
\* The row does not change under a poll, and a backfill about to start is
\* not within the flap window of the one on record.
SnapInv ==
  /\ backfill <= now
  /\ phase \in {"fetch", "record"} =>
       snap.outage = outage /\ snap.backfill = backfill
  /\ phase = "stamp" => backfill = Never \/ now - backfill >= Flap

LEMMA SnapInductive == Spec => []SnapInv
<1> USE TimeAssumption DEF Time, Stamp, Never
<1>1. Init => SnapInv
  BY DEF Init, SnapInv
<1>2. TypeOK /\ TypeOK' /\ SnapInv /\ [Next]_vars => SnapInv'
  <2> SUFFICES ASSUME TypeOK, TypeOK', SnapInv, [Next]_vars PROVE SnapInv'
    OBVIOUS
  <2> USE DEF TypeOK, SnapInv, row, history
  <2>1. CASE Tick
    BY <2>1 DEF Tick
  <2>2. CASE Poll
    BY <2>2 DEF Poll, Fires
  <2>3. CASE PollSkipped
    BY <2>3 DEF PollSkipped, Fires
  <2>4. CASE Deliver
    BY <2>4 DEF Deliver
  <2>5. CASE PollFails
    BY <2>5 DEF PollFails
  <2>6. CASE RecordSuccess
    BY <2>6 DEF RecordSuccess, Flapping
  <2>7. CASE Backfill
    BY <2>7 DEF Backfill
  <2>8. CASE BackfillSkipped
    BY <2>8 DEF BackfillSkipped
  <2>9. CASE RecordBackfill
    BY <2>9 DEF RecordBackfill
  <2>10. CASE Stop
    BY <2>10 DEF Stop
  <2>11. CASE Restart
    BY <2>11 DEF Restart
  <2>12. CASE UNCHANGED vars
    BY <2>12 DEF vars
  <2>13. QED
    BY <2>1, <2>2, <2>3, <2>4, <2>5, <2>6, <2>7, <2>8, <2>9, <2>10, <2>11,
       <2>12 DEF Next
<1>3. QED
  BY <1>1, <1>2, TypeCorrect, PTL DEF Spec

\* Backfills keep the flap window between them, whatever writes are lost.
THEOREM BackfillsKeepTheirDistance == Spec => BackfillsSpaced
<1>1. SnapInv /\ [Next]_vars =>
        [Backfill => backfill = Never \/ now - backfill >= Flap]_vars
  BY DEF SnapInv, Backfill
<1>2. QED
  BY <1>1, SnapInductive, PTL DEF Spec, BackfillsSpaced

-----------------------------------------------------------------------------
Settled(s) == s \in got \/ s \in excused
Missing(s) == \A i \in 0 .. Gap : ~Settled(s + i)
Narrow == \A s \in Time : s + Gap < reached => ~Missing(s)

\* A fault-free poll ends before its job falls due again.
OnTime ==
  /\ phase # "down"
  /\ phase \notin {"idle"} => now = due - Interval + spent /\ spent <= Slack

\* A healthy connector is polled one interval after its last success, and a
\* marker is at most one interval and the time of a poll away from it.
Cadence ==
  /\ phase \in {"fetch", "record"} =>
       /\ asked = due - Interval /\ lookback = Interval
       /\ outage = Never => asked = reached + Interval
  /\ phase = "idle" /\ outage = Never => due = reached + Interval
  /\ phase \in {"stamp", "refetch", "rerecord"} =>
       /\ outage = Never
       /\ reached = due - Interval
  /\ outage # Never => outage <= reached + Interval + Slack

\* What a poll and a backfill have yet to deliver.
Owed ==
  /\ reached > 0 => Settled(reached - 1)
  /\ phase \in {"idle", "fetch", "record", "rerecord"} => Narrow
  /\ phase = "record" =>
       \A s \in Time : asked - Interval <= s /\ s < asked => s \in got
  /\ phase = "stamp" =>
       lookback = MaxLookback
       \/ \A s \in Time : s + Gap < reached /\ Missing(s) =>
            due - Interval + Slack - lookback <= s + Gap
  /\ phase = "refetch" =>
       /\ reached <= asked
       /\ \A s \in Time : s + Gap < reached /\ Missing(s) => asked - lookback <= s + Gap

\* A backfill on record precedes the outage on record.
StampedBefore == outage # Never /\ backfill # Never => backfill <= outage

CleanInv == Cadenced /\ clean => OnTime /\ Cadence /\ Owed /\ StampedBefore

LEMMA GapFacts == Gap \in Nat /\ Interval + 2 * Slack - Buffer <= Gap
  BY TimeAssumption DEF Gap

\* What is settled stays settled.
LEMMA StaysSettled ==
  ASSUME got \subseteq got', excused \subseteq excused'
  PROVE  /\ \A s : Settled(s) => Settled(s)'
         /\ \A s : Missing(s)' => Missing(s)
         /\ Narrow /\ reached' = reached => Narrow'
<1>1. \A s : Settled(s) => Settled(s)'
  BY DEF Settled
<1>2. \A s : Missing(s)' => Missing(s)
  BY <1>1 DEF Missing
<1>3. Narrow /\ reached' = reached => Narrow'
  BY <1>2 DEF Narrow, Time
<1>4. QED
  BY <1>1, <1>2, <1>3

LEMMA CleanInductive == Spec => []CleanInv
<1> USE TimeAssumption DEF Time, Stamp, Never
<1>1. Init => CleanInv
  BY GapFacts DEF Init, CleanInv, Cadenced, OnTime, Cadence, Owed, StampedBefore, Narrow
<1>2. TypeOK /\ TypeOK' /\ SnapInv /\ CleanInv /\ [Next]_vars => CleanInv'
  <2> SUFFICES ASSUME TypeOK, TypeOK', SnapInv, CleanInv, [Next]_vars,
                      Cadenced, clean'
               PROVE  (OnTime /\ Cadence /\ Owed /\ StampedBefore)'
    BY DEF CleanInv, Cadenced
  <2>0. ~Fault("read") /\ ~Fault("write") /\ ~Fault("backfill") /\ ~Fault("stop")
    BY Zenon DEF Fault
  <2>a. CASE NoFault
    <3>1. OnTime /\ Cadence /\ Owed /\ StampedBefore
      <4>1. clean
        BY <2>a DEF NoFault
      <4>2. QED
        BY <4>1 DEF CleanInv
    <3> USE DEF TypeOK, SnapInv, OnTime, Cadence, Owed, StampedBefore,
                Cadenced, row, history
    <3> USE GapFacts
    <3>0. got \subseteq got' /\ excused \subseteq excused'
      BY <2>a, <3>1 DEF Next, Tick, Poll, Fires, PollSkipped, Deliver, PollFails,
         RecordSuccess, Backfill, BackfillSkipped, RecordBackfill, Stop, Restart, vars
    <3>s. /\ \A s : Settled(s) => Settled(s)'
          /\ \A s : Missing(s)' => Missing(s)
          /\ Narrow /\ reached' = reached => Narrow'
      BY <3>0, StaysSettled
    <3>t. ASSUME NEW s \in Time, NEW t \in Time, s <= t, t <= s + Gap, Settled(t)'
          PROVE  ~Missing(s)'
      <4>1. Settled(t)' => ~Missing(s)'
        <5>1. t - s \in 0 .. Gap /\ s + (t - s) = t
          BY <3>t
        <5>2. QED
          BY <5>1 DEF Missing
      <4>2. QED
        BY <3>t, <4>1
    <3>2. CASE Tick
      <4>1. Owed'
        BY <2>a, <3>1, <3>2, <3>s DEF Tick, Polling
      <4>2. (OnTime /\ Cadence /\ StampedBefore)'
        BY <2>a, <3>1, <3>2 DEF Tick, Polling
      <4>3. QED
        BY <4>1, <4>2
    <3>3. CASE Poll
      <4>1. Owed'
        BY <2>a, <3>1, <3>3, <3>s DEF Poll, Fires
      <4>2. (OnTime /\ Cadence /\ StampedBefore)'
        BY <2>a, <3>1, <3>3 DEF Poll, Fires
      <4>3. QED
        BY <4>1, <4>2
    <3>4. CASE Deliver
      <4>1. Owed'
        <5>1. CASE phase = "fetch"
          BY <2>a, <3>1, <3>4, <3>s, <5>1 DEF Deliver
        <5>2. CASE phase = "refetch"
          <6>1. ASSUME NEW s \in Time, s + Gap < reached', Missing(s)' PROVE FALSE
            <7>1. reached <= asked /\ asked - lookback <= s + Gap
              BY <3>1, <3>4, <3>s, <5>2, <6>1 DEF Deliver
            <7>2. s + Gap \in Time
              BY <3>4, <6>1 DEF Deliver
            <7>3. s + Gap \in got'
              BY <3>4, <6>1, <7>1, <7>2 DEF Deliver
            <7>4. QED
              BY <3>t, <6>1, <7>2, <7>3 DEF Settled
          <6>2. Narrow'
            BY <6>1 DEF Narrow
          <6>3. QED
            BY <2>a, <3>1, <3>4, <3>s, <5>2, <6>2 DEF Deliver
        <5>3. QED
          BY <3>4, <5>1, <5>2 DEF Deliver
      <4>2. (OnTime /\ Cadence /\ StampedBefore)'
        BY <2>a, <3>1, <3>4 DEF Deliver
      <4>3. QED
        BY <4>1, <4>2
    <3>5. CASE PollFails
      <4>1. phase = "fetch" /\ outage' = OutageAfterFailure
        BY <2>0, <3>5 DEF PollFails
      <4>2. Owed'
        BY <3>1, <3>5, <3>s, <4>1 DEF PollFails
      <4>3. (OnTime /\ Cadence /\ StampedBefore)'
        BY <3>1, <3>5, <4>1 DEF PollFails, OutageAfterFailure
      <4>4. QED
        BY <4>2, <4>3
    <3>6. CASE RecordSuccess
      <4>1. outage' = Never
        BY <2>0, <3>6 DEF RecordSuccess
      <4>2. LongOutage => ~Flapping
        BY <3>1, <3>6 DEF RecordSuccess, LongOutage, Flapping
      <4>3. (OnTime /\ Cadence /\ StampedBefore)'
        BY <3>1, <3>6, <4>1 DEF RecordSuccess
      <4>l. reached' > 0 => Settled(reached - 1)'
        <5>1. ASSUME asked > 0 PROVE asked - 1 \in got
          BY <3>1, <3>6, <5>1 DEF RecordSuccess
        <5>2. QED
          BY <3>6, <5>1 DEF RecordSuccess, Settled
      <4>m. ASSUME NEW s \in Time, s + Gap < reached', Missing(s)' PROVE reached <= s
        <5>1. CASE s + Gap < reached
          BY <3>1, <3>6, <3>s, <4>m, <5>1 DEF RecordSuccess, Narrow
        <5>2. CASE s < reached /\ reached <= s + Gap
          <6>1. PICK l \in Time : l = reached - 1
            BY <3>1, <5>2
          <6>2. Settled(l)'
            BY <3>1, <3>s, <5>2, <6>1
          <6>3. QED
            BY <3>t, <4>m, <5>2, <6>1, <6>2
        <5>3. QED
          BY <5>1, <5>2
      <4>4. CASE LongOutage
        <5>1. phase' = "stamp" /\ lookback' = BackfillLookback
          BY <3>6, <4>2, <4>4 DEF RecordSuccess
        <5>2. ASSUME NEW s \in Time, s + Gap < reached', Missing(s)',
                     lookback' # MaxLookback
              PROVE  (due - Interval + Slack - lookback)' <= s + Gap
          <6>1. lookback' = now - outage + Buffer
            BY <3>6, <4>4, <5>1, <5>2
               DEF RecordSuccess, LongOutage, BackfillLookback
          <6>2. reached <= s
            BY <4>m, <5>2
          <6>3. outage <= reached + Interval + Slack
            BY <3>1, <3>6, <4>4 DEF RecordSuccess, LongOutage
          <6>4. QED
            BY <3>1, <3>6, <6>1, <6>2, <6>3 DEF RecordSuccess
        <5>3. Owed'
          BY <4>l, <5>1, <5>2
        <5>4. QED
          BY <4>3, <5>3
      <4>5. CASE ~LongOutage
        <5>1. phase' = "idle"
          BY <3>6, <4>5 DEF RecordSuccess
        <5>2. snap.outage # Never => ShortGap
          BY <3>1, <3>6, <4>5 DEF RecordSuccess, LongOutage, ShortGap
        <5>3. ASSUME NEW s \in Time, s + Gap < reached', Missing(s)' PROVE FALSE
          <6>1. reached <= s /\ s < asked
            BY <3>6, <4>m, <5>3 DEF RecordSuccess
          <6>2. Settled(s)'
            BY <3>1, <3>6, <4>5, <5>2, <6>1 DEF RecordSuccess, Settled
          <6>3. QED
            BY <3>t, <5>3, <6>2
        <5>4. Narrow'
          BY <5>3 DEF Narrow
        <5>5. Owed'
          BY <4>l, <5>1, <5>4
        <5>6. QED
          BY <4>3, <5>5
      <4>6. QED
        BY <4>4, <4>5
    <3>7. CASE Backfill
      <4>1. Owed'
        <5>1. reached' <= asked' /\ now <= due - Interval + Slack
          BY <3>1, <3>7 DEF Backfill
        <5>2. ASSUME NEW s \in Time, s + Gap < reached', Missing(s)'
              PROVE  asked' - lookback' <= s + Gap
          <6>1. CASE lookback = MaxLookback
            <7>1. s + Gap \in Time
              BY <3>7, <5>2 DEF Backfill
            <7>2. ~Settled(s + Gap)'
              BY <3>t, <5>2, <7>1
            <7>3. ~(s + Gap < now - MaxLookback)
              BY <3>7, <6>1, <7>1, <7>2 DEF Backfill, Settled
            <7>4. QED
              BY <3>7, <6>1, <7>3 DEF Backfill
          <6>2. CASE lookback # MaxLookback
            <7>1. due - Interval + Slack - lookback <= s + Gap
              BY <3>1, <3>7, <3>s, <5>2, <6>2 DEF Backfill
            <7>2. QED
              BY <3>7, <5>1, <5>2, <7>1 DEF Backfill
          <6>3. QED
            BY <6>1, <6>2
        <5>3. QED
          BY <3>1, <3>7, <3>s, <5>1, <5>2 DEF Backfill
      <4>2. (OnTime /\ Cadence /\ StampedBefore)'
        BY <2>a, <3>1, <3>7 DEF Backfill
      <4>3. QED
        BY <4>1, <4>2
    <3>8. CASE RecordBackfill
      <4>1. outage' = Never
        BY <2>0, <3>8 DEF RecordBackfill
      <4>2. QED
        BY <3>1, <3>8, <3>s, <4>1 DEF RecordBackfill
    <3>9. CASE Restart
      BY <3>1, <3>9 DEF Restart
    <3>10. QED
      <4>1. ~PollSkipped /\ ~BackfillSkipped /\ ~Stop
        BY <2>0 DEF PollSkipped, BackfillSkipped, Stop
      <4>2. CASE UNCHANGED vars
        BY <3>1, <3>s, <4>2 DEF vars
      <4>3. QED
        BY <3>2, <3>3, <3>4, <3>5, <3>6, <3>7, <3>8, <3>9, <4>1, <4>2 DEF Next
  <2>b. CASE UNCHANGED vars
    <3>1. OnTime /\ Cadence /\ Owed /\ StampedBefore
      <4>1. clean
        BY <2>b DEF vars
      <4>2. QED
        BY <4>1 DEF CleanInv
    <3>2. QED
      BY <2>b, <3>1 DEF vars, row, history, OnTime, Cadence, Owed,
         StampedBefore, Narrow, Missing, Settled
  <2>c. QED
    BY <2>0, <2>a, <2>b DEF Next, Tick, Poll, PollSkipped, Deliver, PollFails,
       RecordSuccess, Backfill, BackfillSkipped, RecordBackfill, Stop, Restart
<1>3. QED
  BY <1>1, <1>2, TypeCorrect, SnapInductive, PTL DEF Spec

\* In a history without faults, of any Gap + 1 slots in a row before the last
\* successful poll one is delivered or excused whenever no poll runs, whatever
\* the interval, the buffer and the pattern of failed polls.
THEOREM FaultFreeGapsAreBounded == Spec => []FaultFreeHolesWithinGap
<1>1. TypeOK /\ CleanInv => FaultFreeHolesWithinGap
  BY TimeAssumption DEF TypeOK, CleanInv, Owed, Narrow, Missing, Settled,
     FaultFreeHolesWithinGap, HolesWithinGap, Time
<1>2. QED
  BY <1>1, TypeCorrect, CleanInductive, PTL

\* With a buffer of an interval and the time of two polls no slot is lost.
COROLLARY WideBufferLosesNothing == Spec => [](Margins /\ clean => NoHole)
<1>1. TypeOK /\ FaultFreeHolesWithinGap => (Margins /\ clean => NoHole)
  <2> SUFFICES ASSUME TypeOK, FaultFreeHolesWithinGap, Margins, clean, phase = "idle",
                      NEW s \in Time, s < reached
               PROVE  s \in got \cup excused
    BY DEF NoHole
  <2>1. Gap = 0
    BY TimeAssumption DEF Gap, Margins
  <2>2. \E i \in 0 .. 0 : s + i \in got \cup excused
    BY <2>1 DEF FaultFreeHolesWithinGap, HolesWithinGap, Margins, Time, TypeOK
  <2>3. s + 0 = s
    BY DEF Time
  <2> QED
    BY <2>2, <2>3
<1>2. QED
  BY <1>1, TypeCorrect, FaultFreeGapsAreBounded, PTL
-----------------------------------------------------------------------------
(***************************************************************************)
(* GraphStream.                                                            *)
(***************************************************************************)
Flushing == {"flush", "drain_flush", "last_flush"}
Publishing == {"publish", "drain_publish", "last_publish"}

\* A batch in a flush is not empty, one that fills up is flushed, and what is left
\* of one that is published has been written.
BatchInv ==
  /\ flusher \in Flushing \cup Publishing => batch # <<>>
  /\ flusher \in {"loop", "drain"} => Len(batch) < BatchSize
  /\ flusher \in Publishing => Range(batch) \subseteq written
  /\ flusher = "done" => batch = <<>>

\* Once the writer is being closed nobody writes to it, and the last flush begins
\* with an empty queue.
ClosingInv ==
  /\ main \in {"stopping", "closing", "exited"} => \A h \in Handlers : handler[h] = None
  /\ flusher \notin {"loop", "flush", "publish"} => main \in {"closing", "exited", "panic"}
  /\ flusher \in {"last_flush", "last_publish", "done"} => queue = <<>>
  /\ main = "exited" => flusher = "done"

Held == IF consumer = "dispatch" THEN {sending.env} ELSE {}
Sent(c) == Range(received[c]) \cup Range(updates[c])
Waiting == Range(batch) \cup Range(queue)
Upstream == Range(topic) \cup Waiting

AccountInv == Range(accepted) \subseteq written \cup failed \cup Waiting

\* What was published was written, and what is sent is of the client's tenant.
SentInv ==
  /\ consumer = "dispatch" => sending.env \in Events
  /\ Range(topic) \cup Held \subseteq written
  /\ consumer # "dispatch" => sending.targets = {}
  /\ \A c \in sending.targets : TenantOf[sending.env] = ClientTenant[c]
  /\ \A c \in Clients : \A e \in Sent(c) : e \in written /\ TenantOf[e] = ClientTenant[c]

\* The pairs of events that may follow each other in a stream: of one entity only
\* in the order in which they were accepted.
Orderly ==
  {p \in Events \X Events :
     EntityOf[p[1]] = EntityOf[p[2]] =>
       \E m, n \in DOMAIN accepted : m < n /\ accepted[m] = p[1] /\ accepted[n] = p[2]}

Ordered(s, R) == \A i, j \in DOMAIN s : i < j => <<s[i], s[j]>> \in R

\* Every stage of the stream is in order, and so are any two of them.
OrderInv ==
  /\ Ordered(queue, Orderly) /\ Ordered(batch, Orderly) /\ Ordered(topic, Orderly)
  /\ Range(batch) \X Range(queue) \subseteq Orderly
  /\ Range(topic) \X Waiting \subseteq Orderly
  /\ Held \X Upstream \subseteq Orderly
  /\ Held \cup Upstream \subseteq Range(accepted)
  /\ \A c \in Clients :
       /\ Ordered(updates[c], Orderly) /\ Ordered(received[c], Orderly)
       /\ Range(received[c]) \X Range(updates[c]) \subseteq Orderly
       /\ Sent(c) \X Upstream \subseteq Orderly
       /\ c \in sending.targets => Sent(c) \X Held \subseteq Orderly
       /\ Sent(c) \subseteq Range(accepted)

StreamInv ==
  StreamTypeOK /\ BatchInv /\ ClosingInv /\ AccountInv /\ SentInv /\ OrderInv

-----------------------------------------------------------------------------
LEMMA AppendFacts ==
  ASSUME NEW S, NEW s \in Seq(S), NEW x \in S, NEW R
  PROVE  /\ Append(s, x) \in Seq(S)
         /\ Len(Append(s, x)) = Len(s) + 1 /\ Append(s, x) # <<>>
         /\ Range(Append(s, x)) = Range(s) \cup {x}
         /\ Ordered(s, R) /\ Range(s) \X {x} \subseteq R => Ordered(Append(s, x), R)
<1>1. /\ Append(s, x) \in Seq(S) /\ Len(Append(s, x)) = Len(s) + 1
      /\ \A i \in 1 .. Len(s) : Append(s, x)[i] = s[i]
      /\ Append(s, x)[Len(s) + 1] = x /\ Append(s, x) # <<>>
  BY AppendProperties
<1>2. Len(s) \in Nat /\ DOMAIN s = 1 .. Len(s) /\ DOMAIN Append(s, x) = 1 .. Len(s) + 1
  BY <1>1, LenProperties
<1>3. Range(Append(s, x)) = Range(s) \cup {x}
  BY <1>1, <1>2 DEF Range
<1>4. ASSUME Ordered(s, R), Range(s) \X {x} \subseteq R PROVE Ordered(Append(s, x), R)
  <2> SUFFICES ASSUME NEW i \in 1 .. Len(s) + 1, NEW j \in 1 .. Len(s) + 1, i < j
               PROVE  <<Append(s, x)[i], Append(s, x)[j]>> \in R
    BY <1>2 DEF Ordered
  <2>1. i \in 1 .. Len(s)
    BY <1>2
  <2>2. CASE j \in 1 .. Len(s)
    BY <1>1, <1>2, <1>4, <2>1, <2>2 DEF Ordered
  <2>3. CASE j = Len(s) + 1
    <3>1. s[i] \in Range(s)
      BY <1>2, <2>1 DEF Range
    <3>2. <<s[i], x>> \in R
      BY <1>4, <3>1
    <3> QED
      BY <1>1, <2>1, <2>3, <3>2
  <2> QED
    BY <1>2, <2>2, <2>3
<1> QED
  BY <1>1, <1>3, <1>4

LEMMA TailFacts ==
  ASSUME NEW S, NEW s \in Seq(S), s # <<>>, NEW R
  PROVE  /\ Tail(s) \in Seq(S) /\ Head(s) \in S
         /\ Len(Tail(s)) = Len(s) - 1 /\ Len(s) \in Nat \ {0}
         /\ Range(s) = {Head(s)} \cup Range(Tail(s))
         /\ Ordered(s, R) => /\ Ordered(Tail(s), R)
                             /\ {Head(s)} \X Range(Tail(s)) \subseteq R
<1>1. /\ Tail(s) \in Seq(S) /\ Head(s) \in S /\ Len(Tail(s)) = Len(s) - 1
      /\ \A i \in 1 .. Len(Tail(s)) : Tail(s)[i] = s[i + 1]
      /\ Head(s) = s[1]
  BY HeadTailProperties
<1>2. /\ Len(s) \in Nat \ {0} /\ DOMAIN s = 1 .. Len(s)
      /\ DOMAIN Tail(s) = 1 .. Len(s) - 1
  BY <1>1, LenProperties, EmptySeq
<1>3. Range(s) = {Head(s)} \cup Range(Tail(s))
  <2>1. ASSUME NEW i \in 1 .. Len(s) PROVE s[i] \in {Head(s)} \cup Range(Tail(s))
    <3>1. CASE i = 1
      BY <1>1, <3>1
    <3>2. CASE i # 1
      <4>1. i - 1 \in DOMAIN Tail(s) /\ i - 1 \in 1 .. Len(Tail(s)) /\ (i - 1) + 1 = i
        BY <1>1, <1>2, <3>2
      <4>2. Tail(s)[i - 1] = s[i]
        BY <1>1, <4>1
      <4> QED
        BY <4>1, <4>2 DEF Range
    <3> QED
      BY <3>1, <3>2
  <2>2. \A i \in 1 .. Len(s) - 1 : i + 1 \in 1 .. Len(s)
    BY <1>2
  <2>3. \A i \in 1 .. Len(s) : s[i] \in {Head(s)} \cup Range(Tail(s))
    BY <2>1
  <2> QED
    BY <1>1, <1>2, <2>2, <2>3 DEF Range
<1>4. ASSUME Ordered(s, R)
      PROVE  Ordered(Tail(s), R) /\ {Head(s)} \X Range(Tail(s)) \subseteq R
  <2>1. ASSUME NEW i \in DOMAIN Tail(s), NEW j \in DOMAIN Tail(s), i < j
        PROVE  <<Tail(s)[i], Tail(s)[j]>> \in R
    <3>1. i + 1 \in DOMAIN s /\ j + 1 \in DOMAIN s /\ i + 1 < j + 1
      BY <1>2, <2>1
    <3>2. Tail(s)[i] = s[i + 1] /\ Tail(s)[j] = s[j + 1]
      BY <1>1, <1>2
    <3> QED
      BY <1>4, <3>1, <3>2 DEF Ordered
  <2>2. ASSUME NEW i \in DOMAIN Tail(s) PROVE <<Head(s), Tail(s)[i]>> \in R
    <3>1. 1 \in DOMAIN s /\ i + 1 \in DOMAIN s /\ 1 < i + 1
      BY <1>2
    <3>2. Tail(s)[i] = s[i + 1] /\ Head(s) = s[1]
      BY <1>1, <1>2
    <3> QED
      BY <1>4, <3>1, <3>2 DEF Ordered
  <2> QED
    BY <2>1, <2>2 DEF Ordered, Range
<1> QED
  BY <1>1, <1>2, <1>3, <1>4

LEMMA RemoveFacts ==
  ASSUME NEW S, NEW s \in Seq(S), NEW i \in DOMAIN s, NEW R
  PROVE  /\ RemoveAt(s, i) \in Seq(S)
         /\ \A y \in Range(RemoveAt(s, i)) : \E k \in DOMAIN s : k # i /\ y = s[k]
         /\ Ordered(s, R) => Ordered(RemoveAt(s, i), R)
<1> DEFINE t == SubSeq(s, 1, i - 1)
           u == SubSeq(s, i + 1, Len(s))
<1>1. Len(s) \in Nat /\ DOMAIN s = 1 .. Len(s) /\ i \in 1 .. Len(s)
  BY LenProperties
<1>2. /\ t \in Seq(S) /\ Len(t) = i - 1 /\ \A k \in 1 .. i - 1 : t[k] = s[k]
  BY <1>1, SubSeqProperties
<1>3. /\ u \in Seq(S) /\ Len(u) = Len(s) - i
      /\ \A k \in 1 .. Len(s) - i : u[k] = s[i + k]
  BY <1>1, SubSeqProperties
<1> HIDE DEF t, u
<1> DEFINE v == t \o u
<1>4. /\ v \in Seq(S) /\ Len(v) = Len(t) + Len(u)
      /\ \A k \in 1 .. Len(t) + Len(u) :
           v[k] = IF k <= Len(t) THEN t[k] ELSE u[k - Len(t)]
  BY <1>2, <1>3, ConcatProperties, Zenon
<1> HIDE DEF v
<1>5. /\ DOMAIN v = 1 .. Len(s) - 1
      /\ \A k \in 1 .. Len(s) - 1 : v[k] = IF k < i THEN s[k] ELSE s[k + 1]
  <2>1. Len(v) = Len(s) - 1
    BY <1>1, <1>2, <1>3, <1>4
  <2>2. DOMAIN v = 1 .. Len(s) - 1
    BY <1>4, <2>1, LenProperties
  <2>3. ASSUME NEW k \in 1 .. Len(s) - 1
        PROVE  v[k] = IF k < i THEN s[k] ELSE s[k + 1]
    <3>1. k \in 1 .. Len(t) + Len(u)
      BY <1>1, <1>2, <1>3
    <3>2. v[k] = IF k <= i - 1 THEN t[k] ELSE u[k - (i - 1)]
      BY <1>2, <1>4, <3>1
    <3>3. CASE k < i
      BY <1>1, <1>2, <3>2, <3>3
    <3>4. CASE ~(k < i)
      <4>1. k - (i - 1) \in 1 .. Len(s) - i /\ i + (k - (i - 1)) = k + 1 /\ ~(k <= i - 1)
        BY <1>1, <3>4
      <4>2. u[k - (i - 1)] = s[i + (k - (i - 1))]
        BY <1>3, <4>1
      <4> QED
        BY <3>2, <3>4, <4>1, <4>2
    <3> QED
      BY <3>3, <3>4
  <2> QED
    BY <2>2, <2>3
<1>6. RemoveAt(s, i) = v
  BY DEF RemoveAt, t, u, v
<1>7. v \in Seq(S)
  BY <1>4
<1> DEFINE From(k) == IF k < i THEN k ELSE k + 1
<1>8. \A k \in DOMAIN v : From(k) \in DOMAIN s \ {i} /\ v[k] = s[From(k)]
  BY <1>1, <1>5
<1>9. \A k, l \in DOMAIN v : k < l => From(k) < From(l)
  BY <1>1, <1>5
<1> HIDE DEF From
<1>10. \A y \in Range(v) : \E k \in DOMAIN s : k # i /\ y = s[k]
  BY <1>8 DEF Range
<1>11. Ordered(s, R) => Ordered(v, R)
  BY <1>8, <1>9 DEF Ordered
<1> QED
  BY <1>6, <1>7, <1>10, <1>11

-----------------------------------------------------------------------------
LEMMA StreamInvInit == StreamInit => StreamInv
<1> SUFFICES ASSUME StreamInit PROVE StreamInv
  OBVIOUS
<1>1. <<>> \in Seq(Events) /\ Len(<<>>) = 0 /\ Range(<<>>) = {}
  BY EmptySeq DEF Range
<1>2. cancelled \in BOOLEAN
  BY Zenon DEF StreamInit
<1>3. StreamTypeOK
  BY <1>1, <1>2, SizeAssumption DEF StreamInit, StreamTypeOK, Nothing
<1>4. BatchInv /\ ClosingInv /\ AccountInv
  BY <1>1, SizeAssumption
     DEF StreamInit, BatchInv, ClosingInv, AccountInv, Waiting, Flushing, Publishing
<1>5. SentInv
  BY <1>1 DEF StreamInit, SentInv, Held, Sent, Nothing
<1>6. \A R : Ordered(<<>>, R)
  BY DEF Ordered
<1>7. OrderInv
  BY <1>1, <1>6 DEF StreamInit, OrderInv, Held, Sent, Upstream, Waiting, Nothing
<1> QED
  BY <1>3, <1>4, <1>5, <1>7 DEF StreamInv

\* The phases of flushLoop.
LEMMA PhaseFacts ==
  ASSUME NEW p \in Phases
  PROVE  /\ Phase(p).flush \in Flushing /\ Phase(p).publish \in Publishing
         /\ Phase(p).then \in {"loop", "drain", "done"}
         /\ Phase(p).then = "done" <=> p = "last"
         /\ Phase(p).then = "loop" <=> p = "loop"
         /\ Phase(p).flush = "flush" <=> p = "loop"
         /\ Phase(p).publish = "publish" <=> p = "loop"
         /\ Phase(p).flush = "last_flush" <=> p = "last"
         /\ Phase(p).publish = "last_publish" <=> p = "last"
  BY DEF Phases, Phase, Flushing, Publishing

\* Some failures more, up to the bound, or none.
LEMMA OutageTyped ==
  ASSUME outages \in 0 .. MaxOutages, Outage \/ outages' = outages
  PROVE  outages' \in 0 .. MaxOutages
  BY SizeAssumption DEF Outage

LEMMA HandlerTyped ==
  ASSUME StreamTypeOK, NEW h \in Handlers,
         WriteEvent(h) \/ \E e \in Events : Ingest(h, e)
  PROVE  StreamTypeOK'
<1> USE DEF StreamTypeOK, writer, broker, sockets
<1>1. ASSUME NEW e \in Events, Ingest(h, e) PROVE StreamTypeOK'
  BY <1>1 DEF Ingest
<1>2. CASE WriteEvent(h)
  <2>1. handler[h] \in Events
    BY <1>2 DEF WriteEvent
  <2>2. /\ queue' \in Seq(Events) /\ Len(queue') <= QueueSize
        /\ accepted' \in Seq(Events)
    <3>1. CASE Len(queue) < QueueSize
      <4>1. /\ Append(queue, handler[h]) \in Seq(Events)
            /\ Len(Append(queue, handler[h])) = Len(queue) + 1
            /\ Append(accepted, handler[h]) \in Seq(Events)
            /\ Len(queue) \in Nat
        BY <2>1, AppendFacts, LenProperties
      <4>2. queue' = Append(queue, handler[h]) /\ accepted' = Append(accepted, handler[h])
        BY <1>2, <3>1 DEF WriteEvent
      <4>3. Len(queue) + 1 <= QueueSize
        BY <3>1, <4>1, SizeAssumption
      <4> QED
        BY <4>1, <4>2, <4>3
    <3>2. CASE ~(Len(queue) < QueueSize)
      BY <1>2, <3>2 DEF WriteEvent
    <3> QED
      BY <3>1, <3>2
  <2>3. handler' \in [Handlers -> Events \cup {None}]
    BY <1>2 DEF WriteEvent
  <2> QED
    BY <1>2, <2>2, <2>3 DEF WriteEvent
<1> QED
  BY <1>1, <1>2

\* What a step of flushLoop may do to its own variables.
LEMMA FlusherTyped ==
  ASSUME StreamInv, Flusher
  PROVE  StreamTypeOK'
<1> USE DEF StreamTypeOK, input, broker, sockets
<1>0. StreamTypeOK /\ BatchInv
  BY DEF StreamInv
<1>1. ASSUME NEW p \in {"loop", "drain"}, Take(p) PROVE StreamTypeOK'
  <2>1. /\ Tail(queue) \in Seq(Events) /\ Head(queue) \in Events
        /\ Len(Tail(queue)) = Len(queue) - 1 /\ Len(queue) \in Nat
    BY <1>0, <1>1, TailFacts DEF Take
  <2>2. /\ batch' \in Seq(Events) /\ Len(batch') = Len(batch) + 1 /\ Len(batch) \in Nat
    BY <1>0, <1>1, <2>1, AppendFacts, LenProperties DEF Take
  <2>3. Len(batch') <= BatchSize /\ Len(queue') <= QueueSize
    BY <1>0, <1>1, <2>1, <2>2, SizeAssumption DEF Take, BatchInv
  <2>4. flusher' \in {"loop", "drain"} \cup Flushing
    BY <1>1, PhaseFacts DEF Take, Phases
  <2> QED
    BY <1>0, <1>1, <2>1, <2>2, <2>3, <2>4 DEF Take, Flushing
<1>2. CASE FlushTick \/ StartDrain \/ EndDrain
  BY <1>0, <1>2 DEF FlushTick, StartDrain, EndDrain, AfterDrain
<1>3. ASSUME NEW p \in Phases, FlushBatch(p) PROVE StreamTypeOK'
  <2>1. Range(batch) \subseteq Events
    BY <1>0, RangeOfSeq DEF Range
  <2>2. written' \subseteq Events /\ failed' \subseteq Events
    BY <1>0, <1>3, <2>1 DEF FlushBatch
  <2>3. batch' \in Seq(Events) /\ Len(batch') <= BatchSize
    <3>1. batch \in Seq(Events) /\ Len(batch) <= BatchSize
      BY <1>0
    <3>2. <<>> \in Seq(Events) /\ Len(<<>>) = 0 /\ 0 <= BatchSize
      BY EmptySeq, SizeAssumption
    <3>3. batch' = batch \/ batch' = <<>>
      BY <1>3 DEF FlushBatch
    <3> QED
      BY ONLY <3>1, <3>2, <3>3, Zenon
  <2>4. flusher' \in Publishing \cup {"loop", "drain", "done"}
    BY <1>3, PhaseFacts DEF FlushBatch
  <2>5. outages' \in 0 .. MaxOutages
    BY <1>0, <1>3, OutageTyped DEF FlushBatch
  <2> QED
    BY <1>0, <1>3, <2>2, <2>3, <2>4, <2>5 DEF FlushBatch, Publishing
<1>4. ASSUME NEW p \in Phases, publishChanges(p) PROVE StreamTypeOK'
  <2>1. batch # <<>>
    BY <1>0, <1>4, PhaseFacts DEF publishChanges, BatchInv
  <2>2. /\ batch' \in Seq(Events) /\ Len(batch') = Len(batch) - 1 /\ Len(batch) \in Nat
        /\ Head(batch) \in Events
    BY <1>0, <1>4, <2>1, TailFacts DEF publishChanges
  <2>3. topic' \in Seq(Events)
    <3>1. topic' = topic \/ topic' = Append(topic, Head(batch))
      BY <1>4 DEF publishChanges
    <3>2. topic \in Seq(Events) /\ Head(batch) \in Events
      BY <1>0, <2>2
    <3>3. Append(topic, Head(batch)) \in Seq(Events)
      BY ONLY <3>2, AppendFacts, Zenon
    <3> QED
      BY <3>1, <3>2, <3>3
  <2>4. flusher' \in Publishing \cup {"loop", "drain", "done"}
    BY <1>4, PhaseFacts DEF publishChanges
  <2>5. outages' \in 0 .. MaxOutages
    BY <1>0, <1>4, OutageTyped DEF publishChanges
  <2>6. Len(batch') <= BatchSize
    BY <1>0, <2>2, SizeAssumption
  <2> QED
    BY <1>0, <1>4, <2>2, <2>3, <2>4, <2>5, <2>6 DEF publishChanges, Publishing
<1> QED
  BY <1>1, <1>2, <1>3, <1>4 DEF Flusher

LEMMA ConsumerTyped ==
  ASSUME StreamInv, Consumer
  PROVE  StreamTypeOK'
<1>0. StreamTypeOK /\ SentInv
  BY DEF StreamInv
<1> USE DEF input, writer, sockets
<1>1. ASSUME NEW i \in DOMAIN topic, ReadNext(i) PROVE StreamTypeOK'
  <2>1. topic \in Seq(Events)
    BY <1>0 DEF StreamTypeOK
  <2>2. topic[i] \in Events /\ RemoveAt(topic, i) \in Seq(Events)
    BY <2>1, ElementOfSeq, LenProperties, RemoveFacts
  <2>3. topic' \in Seq(Events)
    BY <1>1, <2>2 DEF ReadNext
  <2>4. sending' \in [env : Events \cup {None}, targets : SUBSET Clients]
    BY <1>0, <1>1, <2>2 DEF ReadNext, Targets, Nothing, StreamTypeOK
  <2>5. consumer' \in {"next", "dispatch", "done"}
    BY <1>1 DEF ReadNext, LoopOn
  <2>6. outages' \in 0 .. MaxOutages
    BY <1>0, <1>1, OutageTyped DEF ReadNext, StreamTypeOK
  <2> QED
    BY <1>0, <1>1, <2>3, <2>4, <2>5, <2>6 DEF ReadNext, StreamTypeOK
<1>2. ASSUME NEW c \in Clients, Dispatch(c) PROVE StreamTypeOK'
  <2>1. sending.env \in Events /\ updates[c] \in Seq(Events) /\ Len(updates[c]) \in Nat
    BY <1>0, <1>2, LenProperties DEF Dispatch, SentInv, StreamTypeOK
  <2>2. /\ Append(updates[c], sending.env) \in Seq(Events)
        /\ Len(Append(updates[c], sending.env)) = Len(updates[c]) + 1
    BY <2>1, AppendFacts
  <2>3. /\ updates' \in [Clients -> Seq(Events)]
        /\ \A d \in Clients : Len(updates'[d]) <= BufferSize
    <3>1. CASE UNCHANGED updates
      BY <1>0, <3>1 DEF StreamTypeOK
    <3>2. CASE /\ Len(updates[c]) < BufferSize
               /\ updates' = [updates EXCEPT ![c] = Append(@, sending.env)]
      <4>1. Len(updates[c]) + 1 <= BufferSize
        BY <2>1, <3>2, SizeAssumption
      <4>2. updates \in [Clients -> Seq(Events)]
        BY <1>0 DEF StreamTypeOK
      <4>3. \A d \in Clients : updates'[d] = IF d = c THEN Append(updates[c], sending.env)
                                             ELSE updates[d]
        BY <3>2, <4>2
      <4>4. updates' \in [Clients -> Seq(Events)]
        BY <2>2, <3>2, <4>2
      <4> QED
        BY <1>0, <2>2, <4>1, <4>3, <4>4 DEF StreamTypeOK
    <3> QED
      BY <1>2, <3>1, <3>2 DEF Dispatch
  <2>4. /\ sending' \in [env : Events \cup {None}, targets : SUBSET Clients]
        /\ consumer' \in {"next", "dispatch", "done"}
    <3>1. sending \in [env : Events \cup {None}, targets : SUBSET Clients]
      BY <1>0 DEF StreamTypeOK
    <3>2. CASE consumer' = LoopOn /\ sending' = Nothing
      BY <3>2 DEF LoopOn, Nothing
    <3>3. CASE /\ consumer' = consumer
               /\ sending' = [sending EXCEPT !.targets = sending.targets \ {c}]
      BY <1>2, <3>1, <3>3 DEF Dispatch
    <3> QED
      BY <1>2, <3>2, <3>3 DEF Dispatch
  <2>5. main' \in {"serving", "shutdown", "stopping", "closing", "exited", "fatal", "panic"}
    BY <1>0, <1>2 DEF Dispatch, StreamTypeOK
  <2> QED
    BY <1>0, <1>2, <2>3, <2>4, <2>5 DEF Dispatch, StreamTypeOK
<1>3. CASE ConsumerStops
  BY <1>0, <1>3 DEF ConsumerStops, StreamTypeOK
<1> QED
  BY <1>1, <1>2, <1>3 DEF Consumer

LEMMA MainTyped ==
  ASSUME StreamTypeOK, Main \/ Signal \/ GraceOver
  PROVE  StreamTypeOK'
<1>1. /\ main' \in {"serving", "shutdown", "stopping", "closing", "exited", "fatal", "panic"}
      /\ UNCHANGED <<input, writer, accepted, topic, broker, sockets, outages>>
  BY DEF Main, Signal, GraceOver, Shutdown, StopBroadcaster, CloseReturns, MainStep
<1>2. cancelled' \in BOOLEAN
  <2>1. cancelled' = cancelled \/ cancelled' = TRUE
    BY Zenon DEF Main, Signal, GraceOver, Shutdown, StopBroadcaster, CloseReturns
  <2>2. cancelled \in BOOLEAN
    BY Zenon DEF StreamTypeOK
  <2> QED
    BY <2>1, <2>2, Zenon
<1> QED
  BY <1>1, <1>2 DEF StreamTypeOK, input, writer, broker, sockets

LEMMA ClientTyped ==
  ASSUME StreamTypeOK, NEW c \in Clients,
         Subscribe(c) \/ Unsubscribe(c) \/ CloseUpdates(c) \/ Receive(c)
  PROVE  StreamTypeOK'
<1> USE DEF input, writer, broker
<1>1. CASE Subscribe(c) \/ Unsubscribe(c) \/ CloseUpdates(c)
  BY <1>1 DEF StreamTypeOK, Subscribe, Unsubscribe, CloseUpdates
<1>2. CASE Receive(c)
  <2>1. /\ updates \in [Clients -> Seq(Events)] /\ received \in [Clients -> Seq(Events)]
        /\ updates[c] \in Seq(Events) /\ received[c] \in Seq(Events)
    BY DEF StreamTypeOK
  <2>2. /\ Tail(updates[c]) \in Seq(Events) /\ Head(updates[c]) \in Events
        /\ Len(Tail(updates[c])) = Len(updates[c]) - 1 /\ Len(updates[c]) \in Nat
    BY <1>2, <2>1, TailFacts DEF Receive
  <2>3. Append(received[c], Head(updates[c])) \in Seq(Events)
    BY <2>1, <2>2, AppendFacts
  <2>4. updates' \in [Clients -> Seq(Events)] /\ received' \in [Clients -> Seq(Events)]
    BY <1>2, <2>1, <2>2, <2>3 DEF Receive
  <2>5. \A d \in Clients : Len(updates'[d]) <= BufferSize
    <3>1. \A d \in Clients : updates'[d] = IF d = c THEN Tail(updates[c]) ELSE updates[d]
      BY <1>2, <2>1 DEF Receive
    <3>2. Len(Tail(updates[c])) <= BufferSize
      BY <2>2, SizeAssumption DEF StreamTypeOK
    <3> QED
      BY <3>1, <3>2 DEF StreamTypeOK
  <2> QED
    BY <1>2, <2>4, <2>5 DEF Receive, StreamTypeOK
<1> QED
  BY <1>1, <1>2

LEMMA StreamTyped == StreamInv /\ [StreamNext]_streamVars => StreamTypeOK'
<1> SUFFICES ASSUME StreamInv, [StreamNext]_streamVars PROVE StreamTypeOK'
  OBVIOUS
<1>1. StreamTypeOK
  BY DEF StreamInv
<1>2. CASE UNCHANGED streamVars
  BY <1>1, <1>2 DEF StreamTypeOK, streamVars, input, writer, broker, sockets
<1>3. CASE StreamNext
  BY <1>1, <1>3, HandlerTyped, FlusherTyped, ConsumerTyped, MainTyped, ClientTyped
     DEF StreamNext
<1> QED
  BY <1>2, <1>3

\* Only flushLoop changes its batch; only it and a handler change the queue.
LEMMA OthersLeaveBatch ==
  ASSUME [StreamNext]_streamVars, ~Flusher
  PROVE  UNCHANGED <<batch, flusher, written, failed>>
<1>1. CASE UNCHANGED streamVars
  BY <1>1 DEF streamVars, writer
<1>2. CASE Consumer
  BY <1>2 DEF Consumer, ReadNext, Dispatch, ConsumerStops, writer
<1>3. CASE Main \/ Signal \/ GraceOver
  BY <1>3 DEF Main, Signal, GraceOver, Shutdown, StopBroadcaster, CloseReturns, MainStep,
              writer
<1>4. ASSUME NEW h \in Handlers, WriteEvent(h) \/ \E e \in Events : Ingest(h, e)
      PROVE  UNCHANGED <<batch, flusher, written, failed>>
  BY <1>4 DEF WriteEvent, Ingest, writer
<1>5. ASSUME NEW c \in Clients, Subscribe(c) \/ Unsubscribe(c) \/ CloseUpdates(c) \/ Receive(c)
      PROVE  UNCHANGED <<batch, flusher, written, failed>>
  BY <1>5 DEF Subscribe, Unsubscribe, CloseUpdates, Receive, writer
<1> QED
  BY <1>1, <1>2, <1>3, <1>4, <1>5 DEF StreamNext

LEMMA BatchStep == StreamInv /\ [StreamNext]_streamVars => BatchInv'
<1> SUFFICES ASSUME StreamInv, [StreamNext]_streamVars PROVE BatchInv'
  OBVIOUS
<1>0. StreamTypeOK /\ BatchInv /\ batch \in Seq(Events) /\ BatchSize \in Nat \ {0}
  BY SizeAssumption DEF StreamInv, StreamTypeOK
<1>1. CASE ~Flusher
  BY <1>0, <1>1, OthersLeaveBatch DEF BatchInv
<1>2. ASSUME NEW p \in {"loop", "drain"}, Take(p) PROVE BatchInv'
  <2>1. /\ queue \in Seq(Events) /\ queue # <<>> /\ flusher = p
        /\ batch' = Append(batch, Head(queue))
        /\ flusher' = IF IsFull(batch') THEN Phase(p).flush ELSE p
    BY <1>0, <1>2 DEF Take, StreamTypeOK
  <2>2. batch' # <<>> /\ Len(batch') \in Nat
    BY <1>0, <2>1, TailFacts, AppendFacts, LenProperties
  <2>3. Phase(p).flush \in Flushing
    BY PhaseFacts DEF Phases
  <2>4. CASE IsFull(batch')
    BY <2>1, <2>2, <2>3, <2>4 DEF BatchInv, Flushing, Publishing
  <2>5. CASE ~IsFull(batch')
    BY <1>0, <2>1, <2>2, <2>5 DEF BatchInv, Flushing, Publishing, IsFull
  <2> QED
    BY <2>4, <2>5
<1>3. CASE FlushTick \/ StartDrain \/ EndDrain
  BY <1>0, <1>3 DEF FlushTick, StartDrain, EndDrain, AfterDrain, BatchInv, Flushing, Publishing
<1>4. ASSUME NEW p \in Phases, FlushBatch(p) PROVE BatchInv'
  <2>1. batch # <<>>
    BY <1>0, <1>4, PhaseFacts DEF FlushBatch, BatchInv
  <2>2. CASE batch' = batch /\ written' = written \cup Range(batch) /\ flusher' = Phase(p).publish
    BY <2>1, <2>2, PhaseFacts DEF BatchInv, Flushing, Publishing
  <2>3. CASE batch' = <<>> /\ flusher' = Phase(p).then
    <3>1. Len(<<>>) = 0
      BY EmptySeq
    <3>2. flusher' \in {"loop", "drain", "done"}
      BY <2>3, PhaseFacts
    <3> QED
      BY <1>0, <2>3, <3>1, <3>2 DEF BatchInv, Flushing, Publishing
  <2> QED
    BY <1>4, <2>2, <2>3 DEF FlushBatch
<1>5. ASSUME NEW p \in Phases, publishChanges(p) PROVE BatchInv'
  <2>1. flusher \in Publishing /\ batch # <<>> /\ Range(batch) \subseteq written
    BY <1>0, <1>5, PhaseFacts DEF publishChanges, BatchInv
  <2>2. /\ batch' = Tail(batch) /\ written' = written
        /\ flusher' = IF Len(batch) = 1 THEN Phase(p).then ELSE flusher
    BY <1>5 DEF publishChanges
  <2>3. /\ batch' \in Seq(Events) /\ Len(batch') = Len(batch) - 1
        /\ Len(batch) \in Nat \ {0} /\ Len(batch) <= BatchSize
        /\ Range(batch') \subseteq written
    BY <1>0, <2>1, <2>2, TailFacts DEF StreamTypeOK
  <2>4. CASE Len(batch) = 1
    <3>1. Len(batch') = 0 /\ batch' = <<>>
      BY <2>3, <2>4, EmptySeq
    <3>2. flusher' \in {"loop", "drain", "done"}
      BY <2>2, <2>4, PhaseFacts
    <3> QED
      BY <1>0, <3>1, <3>2 DEF BatchInv, Flushing, Publishing
  <2>5. CASE Len(batch) # 1
    <3>1. batch' # <<>>
      <4>1. Len(batch') # 0
        BY <2>3, <2>5
      <4> QED
        BY <4>1, EmptySeq
    <3> QED
      BY <2>1, <2>2, <2>3, <2>5, <3>1 DEF BatchInv, Flushing, Publishing
  <2> QED
    BY <2>4, <2>5
<1> QED
  BY <1>1, <1>2, <1>3, <1>4, <1>5 DEF Flusher

LEMMA ClosingStep == StreamInv /\ [StreamNext]_streamVars => ClosingInv'
<1> SUFFICES ASSUME StreamInv, [StreamNext]_streamVars PROVE ClosingInv'
  OBVIOUS
<1>0. StreamTypeOK /\ ClosingInv
  BY DEF StreamInv
<1>1. CASE UNCHANGED streamVars
  BY <1>0, <1>1 DEF ClosingInv, streamVars, input, writer
<1>2. CASE Consumer
  BY <1>0, <1>2 DEF Consumer, ReadNext, Dispatch, ConsumerStops, ClosingInv, input, writer,
                    Alive
<1>3. CASE Main \/ Signal \/ GraceOver
  <2>1. /\ UNCHANGED <<handler, queue, flusher>>
        /\ \/ main = "serving" /\ main' = "shutdown"
           \/ main = "shutdown" /\ main' = "stopping" /\ \A h \in Handlers : handler[h] = None
           \/ main = "shutdown" /\ main' = "fatal"
           \/ main = "stopping" /\ main' = "closing"
           \/ main = "closing" /\ main' = "closing"
           \/ main = "closing" /\ main' = "exited" /\ flusher = "done"
    BY <1>3 DEF Main, Signal, GraceOver, Shutdown, StopBroadcaster, CloseReturns, MainStep,
                input, writer
  <2> QED
    BY <1>0, <2>1 DEF ClosingInv
<1>4. ASSUME NEW h \in Handlers, WriteEvent(h) PROVE ClosingInv'
  <2>1. main \notin {"stopping", "closing", "exited", "panic"}
    BY <1>0, <1>4 DEF WriteEvent, Alive, ClosingInv
  <2> QED
    BY <1>0, <1>4, <2>1 DEF WriteEvent, ClosingInv
<1>5. ASSUME NEW h \in Handlers, NEW e \in Events, Ingest(h, e) PROVE ClosingInv'
  BY <1>0, <1>5 DEF Ingest, ClosingInv, writer
<1>6. ASSUME NEW c \in Clients, Subscribe(c) \/ Unsubscribe(c) \/ CloseUpdates(c) \/ Receive(c)
      PROVE  ClosingInv'
  BY <1>0, <1>6 DEF Subscribe, Unsubscribe, CloseUpdates, Receive, ClosingInv, input, writer
<1>7. CASE Flusher
  <2>1. UNCHANGED <<main, handler>> /\ main # "exited"
    BY <1>7 DEF Flusher, Take, FlushTick, StartDrain, EndDrain, FlushBatch, publishChanges,
                input, Alive, SeesClosed, Closed
  <2>2. ASSUME NEW p \in {"loop", "drain"}, Take(p) PROVE ClosingInv'
    <3>1. flusher = p /\ flusher' \in {p, Phase(p).flush}
      BY <2>2 DEF Take
    <3> QED
      BY <1>0, <2>1, <3>1, PhaseFacts DEF ClosingInv, Flushing, Phases, Phase
  <2>3. CASE FlushTick \/ StartDrain \/ EndDrain
    BY <1>0, <2>1, <2>3 DEF FlushTick, StartDrain, EndDrain, AfterDrain, ClosingInv,
                            SeesClosed, Closed
  <2>4. ASSUME NEW p \in Phases, FlushBatch(p) PROVE ClosingInv'
    <3>1. /\ flusher = Phase(p).flush /\ flusher' \in {Phase(p).publish, Phase(p).then}
          /\ UNCHANGED queue
      BY <2>4 DEF FlushBatch
    <3> QED
      BY <1>0, <2>1, <3>1 DEF ClosingInv, Phases, Phase
  <2>5. ASSUME NEW p \in Phases, publishChanges(p) PROVE ClosingInv'
    <3>1. /\ flusher = Phase(p).publish /\ flusher' \in {Phase(p).publish, Phase(p).then}
          /\ UNCHANGED queue
      BY <2>5 DEF publishChanges
    <3> QED
      BY <1>0, <2>1, <3>1 DEF ClosingInv, Phases, Phase
  <2> QED
    BY <1>7, <2>2, <2>3, <2>4, <2>5 DEF Flusher
<1> QED
  BY <1>1, <1>2, <1>3, <1>4, <1>5, <1>6, <1>7 DEF StreamNext

LEMMA AccountStep == StreamInv /\ [StreamNext]_streamVars => AccountInv'
<1> SUFFICES ASSUME StreamInv, [StreamNext]_streamVars PROVE AccountInv'
  OBVIOUS
<1>0. /\ StreamTypeOK /\ BatchInv /\ AccountInv
      /\ queue \in Seq(Events) /\ batch \in Seq(Events) /\ accepted \in Seq(Events)
  BY DEF StreamInv, StreamTypeOK
<1>1. CASE UNCHANGED <<accepted, queue, batch, written, failed>>
  BY <1>0, <1>1 DEF AccountInv, Waiting
<1>2. ASSUME NEW h \in Handlers, WriteEvent(h) PROVE AccountInv'
  <2>1. UNCHANGED <<batch, written, failed>>
    BY <1>2 DEF WriteEvent
  <2>2. CASE UNCHANGED <<queue, accepted>>
    BY <1>1, <2>1, <2>2
  <2>3. CASE queue' = Append(queue, handler[h]) /\ accepted' = Append(accepted, handler[h])
    <3>1. handler[h] \in Events
      BY <1>0, <1>2 DEF WriteEvent, StreamTypeOK
    <3>2. /\ Range(queue') = Range(queue) \cup {handler[h]}
          /\ Range(accepted') = Range(accepted) \cup {handler[h]}
      BY <1>0, <2>3, <3>1, AppendFacts
    <3> QED
      BY <1>0, <2>1, <3>2 DEF AccountInv, Waiting
  <2> QED
    BY <1>2, <2>2, <2>3 DEF WriteEvent
<1>3. ASSUME NEW p \in {"loop", "drain"}, Take(p) PROVE AccountInv'
  <2>1. /\ Range(queue) = {Head(queue)} \cup Range(queue')
        /\ Range(batch') = Range(batch) \cup {Head(queue)}
    <3>1. /\ queue # <<>> /\ queue' = Tail(queue) /\ batch' = Append(batch, Head(queue))
      BY <1>3 DEF Take
    <3>2. Range(queue) = {Head(queue)} \cup Range(queue') /\ Head(queue) \in Events
      BY <1>0, <3>1, TailFacts
    <3> QED
      BY <1>0, <3>1, <3>2, AppendFacts
  <2> QED
    BY <1>0, <1>3, <2>1 DEF Take, AccountInv, Waiting
<1>4. CASE FlushTick \/ StartDrain \/ EndDrain
  BY <1>1, <1>4 DEF FlushTick, StartDrain, EndDrain
<1>5. ASSUME NEW p \in Phases, FlushBatch(p) PROVE AccountInv'
  BY <1>0, <1>5 DEF FlushBatch, AccountInv, Waiting
<1>6. ASSUME NEW p \in Phases, publishChanges(p) PROVE AccountInv'
  <2>1. batch # <<>> /\ Range(batch) \subseteq written
    BY <1>0, <1>6, PhaseFacts DEF publishChanges, BatchInv
  <2> QED
    BY <1>0, <1>6, <2>1 DEF publishChanges, AccountInv, Waiting
<1>7. CASE Flusher
  BY <1>3, <1>4, <1>5, <1>6, <1>7 DEF Flusher
<1>8. CASE Consumer
  BY <1>1, <1>8 DEF Consumer, ReadNext, Dispatch, ConsumerStops, writer
<1>9. CASE Main \/ Signal \/ GraceOver
  BY <1>1, <1>9 DEF Main, Signal, GraceOver, Shutdown, StopBroadcaster, CloseReturns,
                    MainStep, writer
<1>10. ASSUME NEW h \in Handlers, NEW e \in Events, Ingest(h, e) PROVE AccountInv'
  BY <1>1, <1>10 DEF Ingest, writer
<1>11. ASSUME NEW c \in Clients, Subscribe(c) \/ Unsubscribe(c) \/ CloseUpdates(c) \/ Receive(c)
       PROVE  AccountInv'
  BY <1>1, <1>11 DEF Subscribe, Unsubscribe, CloseUpdates, Receive, writer
<1>12. CASE UNCHANGED streamVars
  BY <1>1, <1>12 DEF streamVars, writer
<1> QED
  BY <1>2, <1>7, <1>8, <1>9, <1>10, <1>11, <1>12 DEF StreamNext

\* What leaves the history, the topic and the clients alone.
LEMMA OthersLeaveStream ==
  ASSUME [StreamNext]_streamVars, ~Flusher, ~Consumer,
         ~ \E h \in Handlers : WriteEvent(h), ~ \E c \in Clients : Receive(c)
  PROVE  UNCHANGED <<queue, batch, topic, consumer, sending, accepted, written,
                     updates, received>>
<1>1. CASE UNCHANGED streamVars
  BY <1>1 DEF streamVars, writer, broker, sockets
<1>2. CASE Main \/ Signal \/ GraceOver
  BY <1>2 DEF Main, Signal, GraceOver, Shutdown, StopBroadcaster, CloseReturns, MainStep,
              writer, broker, sockets
<1>3. ASSUME NEW h \in Handlers, NEW e \in Events, Ingest(h, e)
      PROVE  UNCHANGED <<queue, batch, topic, consumer, sending, accepted, written,
                         updates, received>>
  BY <1>3 DEF Ingest, writer, broker, sockets
<1>4. ASSUME NEW c \in Clients, Subscribe(c) \/ Unsubscribe(c) \/ CloseUpdates(c)
      PROVE  UNCHANGED <<queue, batch, topic, consumer, sending, accepted, written,
                         updates, received>>
  BY <1>4 DEF Subscribe, Unsubscribe, CloseUpdates, writer, broker
<1> QED
  BY <1>1, <1>2, <1>3, <1>4 DEF StreamNext

LEMMA SentStep == StreamInv /\ [StreamNext]_streamVars => SentInv'
<1> SUFFICES ASSUME StreamInv, [StreamNext]_streamVars PROVE SentInv'
  OBVIOUS
<1>0. /\ StreamTypeOK /\ BatchInv /\ SentInv
      /\ topic \in Seq(Events) /\ batch \in Seq(Events)
  BY DEF StreamInv, StreamTypeOK
<1>1. ASSUME UNCHANGED <<consumer, sending, updates, received>>,
             Range(topic') \subseteq written', written \subseteq written'
      PROVE  SentInv'
  BY <1>0, <1>1 DEF SentInv, Held, Sent
<1>2. CASE Flusher
  <2>1. UNCHANGED <<consumer, sending, updates, received>>
    BY <1>2 DEF Flusher, Take, FlushTick, StartDrain, EndDrain, FlushBatch, publishChanges,
                broker, sockets
  <2>2. CASE topic' = topic /\ written \subseteq written'
    BY <1>0, <1>1, <2>1, <2>2 DEF SentInv
  <2>3. ASSUME NEW p \in Phases, publishChanges(p), topic' = Append(topic, Head(batch))
        PROVE  SentInv'
    <3>1. batch # <<>> /\ Range(batch) \subseteq written /\ written' = written
      BY <1>0, <2>3, PhaseFacts DEF publishChanges, BatchInv
    <3>2. Head(batch) \in Events /\ Head(batch) \in written
      BY <1>0, <3>1, TailFacts
    <3>3. Range(topic') = Range(topic) \cup {Head(batch)}
      BY <1>0, <2>3, <3>2, AppendFacts
    <3> QED
      BY <1>0, <1>1, <2>1, <3>1, <3>2, <3>3 DEF SentInv
  <2> QED
    BY <1>2, <2>2, <2>3 DEF Flusher, Take, FlushTick, StartDrain, EndDrain, FlushBatch,
                            publishChanges
<1>3. ASSUME NEW i \in DOMAIN topic, ReadNext(i) PROVE SentInv'
  <2>1. /\ UNCHANGED <<written, updates, received>> /\ topic' = RemoveAt(topic, i)
        /\ consumer = "next"
    BY <1>3 DEF ReadNext, writer, sockets
  <2>2. /\ Range(topic') \subseteq Range(topic) /\ topic[i] \in Range(topic)
        /\ topic[i] \in Events
    <3>1. \A y \in Range(topic') : \E k \in DOMAIN topic : k # i /\ y = topic[k]
      BY <1>0, <2>1, RemoveFacts
    <3> QED
      BY <1>0, <3>1, ElementOfSeq, LenProperties DEF Range
  <2>3. CASE consumer' # "dispatch" /\ sending'.targets = {}
    BY <1>0, <2>1, <2>2, <2>3 DEF SentInv, Held, Sent
  <2>4. CASE consumer' = "dispatch" /\ sending' = [env |-> topic[i], targets |-> Targets(topic[i])]
    BY <1>0, <2>1, <2>2, <2>4 DEF SentInv, Held, Sent, Targets
  <2> QED
    BY <1>0, <1>3, <2>3, <2>4 DEF ReadNext, LoopOn, Nothing, SentInv
<1>4. ASSUME NEW c \in Clients, Dispatch(c) PROVE SentInv'
  <2>1. /\ UNCHANGED <<written, topic, received>>
        /\ c \in sending.targets /\ sending.env \in Events /\ sending.env \in written
        /\ TenantOf[sending.env] = ClientTenant[c]
    BY <1>0, <1>4 DEF Dispatch, writer, SentInv, Held
  <2>2. \A d \in Clients : Range(updates'[d]) \subseteq Range(updates[d])
                             \cup (IF d = c THEN {sending.env} ELSE {})
    <3>1. CASE UNCHANGED updates
      BY <3>1
    <3>2. CASE updates' = [updates EXCEPT ![c] = Append(@, sending.env)]
      <4>1. updates \in [Clients -> Seq(Events)]
        BY <1>0 DEF StreamTypeOK
      <4>2. updates[c] \in Seq(Events) /\ sending.env \in Events
        BY <2>1, <4>1
      <4>3. Range(Append(updates[c], sending.env)) = Range(updates[c]) \cup {sending.env}
        BY ONLY <4>2, AppendFacts, Zenon
      <4> QED
        BY <3>2, <4>1, <4>3
    <3> QED
      BY <1>4, <3>1, <3>2 DEF Dispatch
  <2>3. \A d \in Clients : \A e \in Sent(d)' : e \in written' /\ TenantOf[e] = ClientTenant[d]
    BY <1>0, <2>1, <2>2 DEF SentInv, Sent
  <2>4. \/ consumer' # "dispatch" /\ sending' = Nothing
        \/ /\ consumer' = "dispatch" /\ consumer = "dispatch"
           /\ sending'.env = sending.env /\ sending'.targets \subseteq sending.targets
    <3>1. sending \in [env : Events \cup {None}, targets : SUBSET Clients]
      BY <1>0 DEF StreamTypeOK
    <3> QED
      BY <1>4, <3>1 DEF Dispatch, LoopOn
  <2> QED
    BY <1>0, <2>1, <2>3, <2>4 DEF SentInv, Held, Nothing
<1>5. CASE ConsumerStops
  BY <1>0, <1>5 DEF ConsumerStops, SentInv, Held, Sent, writer, sockets
<1>6. ASSUME NEW c \in Clients, Receive(c) PROVE SentInv'
  <2>1. /\ updates[c] \in Seq(Events) /\ received[c] \in Seq(Events) /\ updates[c] # <<>>
        /\ updates \in [Clients -> Seq(Events)] /\ received \in [Clients -> Seq(Events)]
    BY <1>0, <1>6 DEF StreamTypeOK, Receive
  <2>2. /\ Range(updates[c]) = {Head(updates[c])} \cup Range(Tail(updates[c]))
        /\ Head(updates[c]) \in Events
    BY <2>1, TailFacts
  <2>3. Range(Append(received[c], Head(updates[c]))) = Range(received[c]) \cup {Head(updates[c])}
    BY <2>1, <2>2, AppendFacts
  <2>4. \A d \in Clients : Sent(d)' = Sent(d)
    BY <1>6, <2>1, <2>2, <2>3 DEF Receive, Sent
  <2> QED
    BY <1>0, <1>6, <2>4 DEF Receive, SentInv, Held, broker, writer
<1>7. ASSUME NEW h \in Handlers, WriteEvent(h) PROVE SentInv'
  BY <1>0, <1>7 DEF WriteEvent, SentInv, Held, Sent, broker, sockets
<1>8. CASE Consumer
  BY <1>3, <1>4, <1>5, <1>8 DEF Consumer
<1>9. CASE /\ ~Flusher /\ ~Consumer
           /\ ~ \E h \in Handlers : WriteEvent(h)
           /\ ~ \E c \in Clients : Receive(c)
  BY <1>0, <1>1, <1>9, OthersLeaveStream DEF SentInv
<1> QED
  BY <1>2, <1>6, <1>7, <1>8, <1>9

\* An event that is enqueued follows all those before it.
LEMMA EnqueueFacts ==
  ASSUME accepted \in Seq(Events), NEW e \in Events, accepted' = Append(accepted, e)
  PROVE  /\ Orderly \subseteq Orderly' /\ Range(accepted) \X {e} \subseteq Orderly'
         /\ Range(accepted') = Range(accepted) \cup {e}
<1>1. /\ Len(accepted) \in Nat /\ DOMAIN accepted = 1 .. Len(accepted)
      /\ DOMAIN accepted' = 1 .. Len(accepted) + 1
      /\ \A k \in 1 .. Len(accepted) : accepted'[k] = accepted[k]
      /\ accepted'[Len(accepted) + 1] = e
      /\ Range(accepted) \subseteq Events
  <2>1. Append(accepted, e) \in Seq(Events) /\ Len(accepted') = Len(accepted) + 1
    BY AppendProperties
  <2> QED
    BY <2>1, AppendProperties, LenProperties, ElementOfSeq DEF Range
<1>2. Orderly \subseteq Orderly'
  <2> SUFFICES ASSUME NEW p \in Orderly, EntityOf[p[1]] = EntityOf[p[2]]
               PROVE  \E m, n \in DOMAIN accepted' :
                        m < n /\ accepted'[m] = p[1] /\ accepted'[n] = p[2]
    BY DEF Orderly
  <2>1. PICK m \in DOMAIN accepted, n \in DOMAIN accepted :
          m < n /\ accepted[m] = p[1] /\ accepted[n] = p[2]
    BY DEF Orderly
  <2> QED
    BY <1>1, <2>1
<1>3. ASSUME NEW x \in Range(accepted) PROVE <<x, e>> \in Orderly'
  <2>1. PICK m \in DOMAIN accepted : x = accepted[m]
    BY DEF Range
  <2>2. /\ m \in DOMAIN accepted' /\ Len(accepted) + 1 \in DOMAIN accepted'
        /\ m < Len(accepted) + 1
        /\ accepted'[m] = x /\ accepted'[Len(accepted) + 1] = e
    BY <1>1, <2>1
  <2>3. <<x, e>> \in Events \X Events
    BY <1>1
  <2> QED
    BY <2>2, <2>3 DEF Orderly
<1>4. Range(accepted') = Range(accepted) \cup {e}
  BY AppendFacts
<1> QED
  BY <1>2, <1>3, <1>4

LEMMA OrderedMonotone ==
  ASSUME NEW s, NEW R, NEW T, R \subseteq T, Ordered(s, R) PROVE Ordered(s, T)
  BY DEF Ordered

LEMMA OrderWrite ==
  ASSUME StreamInv, NEW h \in Handlers, WriteEvent(h)
  PROVE  OrderInv'
<1>0. /\ StreamTypeOK /\ OrderInv /\ queue \in Seq(Events) /\ accepted \in Seq(Events)
  BY DEF StreamInv, StreamTypeOK
<1>1. UNCHANGED <<batch, topic, consumer, sending, updates, received>>
  BY DEF WriteEvent, broker, sockets
<1>2. CASE UNCHANGED <<queue, accepted>>
  BY <1>0, <1>1, <1>2 DEF OrderInv, Held, Sent, Upstream, Waiting, Orderly, Ordered
<1>3. CASE queue' = Append(queue, handler[h]) /\ accepted' = Append(accepted, handler[h])
  <2> DEFINE e == handler[h]
  <2>1. e \in Events
    BY <1>0 DEF WriteEvent, StreamTypeOK
  <2> HIDE DEF e
  <2>2. queue' = Append(queue, e) /\ accepted' = Append(accepted, e)
    BY <1>3 DEF e
  <2>3. /\ Orderly \subseteq Orderly' /\ Range(accepted) \X {e} \subseteq Orderly'
        /\ Range(accepted') = Range(accepted) \cup {e}
    BY ONLY <1>0, <2>1, <2>2, EnqueueFacts
  <2>4. Ordered(queue, Orderly') /\ Range(queue) \X {e} \subseteq Orderly'
    BY <1>0, <2>3, OrderedMonotone DEF OrderInv, Upstream, Waiting
  <2>5. Range(queue') = Range(queue) \cup {e} /\ Ordered(queue', Orderly')
    BY ONLY <1>0, <2>1, <2>2, <2>4, AppendFacts
  <2>6. Waiting' = Waiting \cup {e} /\ Upstream' = Upstream \cup {e} /\ Held' = Held
    BY <1>1, <2>5 DEF Waiting, Upstream, Held
  <2>7. /\ Ordered(batch', Orderly') /\ Ordered(topic', Orderly')
        /\ Range(batch') \X Range(queue') \subseteq Orderly'
        /\ Range(topic') \X Waiting' \subseteq Orderly'
        /\ Held' \X Upstream' \subseteq Orderly'
        /\ Held' \cup Upstream' \subseteq Range(accepted')
    <3>1. Ordered(batch', Orderly') /\ Ordered(topic', Orderly')
      BY <1>0, <1>1, <2>3, OrderedMonotone DEF OrderInv
    <3>2. Held \cup Upstream \subseteq Range(accepted)
      BY <1>0 DEF OrderInv
    <3>3. Range(batch) \subseteq Upstream /\ Range(topic) \subseteq Upstream
      BY DEF Upstream, Waiting
    <3> QED
      BY <1>0, <1>1, <2>3, <2>5, <2>6, <3>1, <3>2, <3>3 DEF OrderInv
  <2>8. ASSUME NEW c \in Clients
        PROVE  /\ Ordered(updates'[c], Orderly') /\ Ordered(received'[c], Orderly')
               /\ Range(received'[c]) \X Range(updates'[c]) \subseteq Orderly'
               /\ Sent(c)' \X Upstream' \subseteq Orderly'
               /\ c \in sending'.targets => Sent(c)' \X Held' \subseteq Orderly'
               /\ Sent(c)' \subseteq Range(accepted')
    <3>1. Ordered(updates'[c], Orderly') /\ Ordered(received'[c], Orderly')
      BY <1>0, <1>1, <2>3, OrderedMonotone DEF OrderInv
    <3>2. Sent(c)' = Sent(c)
      BY <1>1 DEF Sent
    <3> QED
      BY <1>0, <1>1, <2>3, <2>6, <3>1, <3>2 DEF OrderInv
  <2> QED
    BY <2>5, <2>7, <2>8 DEF OrderInv
<1> QED
  BY <1>2, <1>3 DEF WriteEvent

\* The head of the queue moves to the end of the batch.
LEMMA OrderTake ==
  ASSUME StreamInv, NEW p \in {"loop", "drain"}, Take(p)
  PROVE  OrderInv'
<1>0. OrderInv /\ queue \in Seq(Events) /\ batch \in Seq(Events)
  BY DEF StreamInv, StreamTypeOK
<1>1. /\ UNCHANGED <<topic, consumer, sending, accepted, updates, received>>
      /\ queue # <<>> /\ queue' = Tail(queue) /\ batch' = Append(batch, Head(queue))
  BY DEF Take, broker, sockets
<1>2. Orderly' = Orderly
  BY <1>1 DEF Orderly
<1>3. /\ Head(queue) \in Events /\ Range(queue) = {Head(queue)} \cup Range(queue')
      /\ Ordered(queue', Orderly) /\ {Head(queue)} \X Range(queue') \subseteq Orderly
  BY <1>0, <1>1, TailFacts DEF OrderInv
<1>4. Range(batch) \X {Head(queue)} \subseteq Orderly /\ Ordered(batch, Orderly)
  BY <1>0, <1>3 DEF OrderInv
<1>5. Range(batch') = Range(batch) \cup {Head(queue)} /\ Ordered(batch', Orderly)
  BY ONLY <1>0, <1>1, <1>3, <1>4, AppendFacts
<1>6. Range(batch') \X Range(queue') \subseteq Orderly
  BY <1>0, <1>3, <1>5 DEF OrderInv
<1>7. Waiting' = Waiting /\ Upstream' = Upstream /\ Held' = Held
  BY <1>1, <1>3, <1>5 DEF Waiting, Upstream, Held
<1>8. \A c \in Clients : Sent(c)' = Sent(c)
  BY <1>1 DEF Sent
<1> QED
  BY <1>0, <1>1, <1>2, <1>3, <1>5, <1>6, <1>7, <1>8 DEF OrderInv

\* The head of the batch moves to the end of the topic, or is lost.
LEMMA OrderPublish ==
  ASSUME StreamInv, NEW p \in Phases, publishChanges(p)
  PROVE  OrderInv'
<1>0. OrderInv /\ batch \in Seq(Events) /\ topic \in Seq(Events)
  BY DEF StreamInv, StreamTypeOK
<1>1. /\ UNCHANGED <<queue, consumer, sending, accepted, updates, received>>
      /\ batch' = Tail(batch) /\ topic' \in {topic, Append(topic, Head(batch))}
  BY DEF publishChanges, broker, sockets
<1>2. Orderly' = Orderly
  BY <1>1 DEF Orderly
<1>3. batch # <<>>
  BY PhaseFacts DEF StreamInv, BatchInv, publishChanges
<1>4. /\ Head(batch) \in Events /\ Range(batch) = {Head(batch)} \cup Range(batch')
      /\ Ordered(batch', Orderly) /\ {Head(batch)} \X Range(batch') \subseteq Orderly
  BY <1>0, <1>1, <1>3, TailFacts DEF OrderInv
<1>5. Range(topic) \X {Head(batch)} \subseteq Orderly /\ Ordered(topic, Orderly)
  BY <1>0, <1>4 DEF OrderInv, Waiting
<1>6. /\ Range(topic') \subseteq Range(topic) \cup {Head(batch)}
      /\ Ordered(topic', Orderly)
  <2>1. /\ Range(Append(topic, Head(batch))) = Range(topic) \cup {Head(batch)}
        /\ Ordered(Append(topic, Head(batch)), Orderly)
    BY ONLY <1>0, <1>4, <1>5, AppendFacts
  <2> QED
    BY <1>1, <1>5, <2>1
<1>7. /\ Waiting' \subseteq Waiting /\ Upstream' \subseteq Upstream /\ Held' = Held
      /\ Range(batch') \subseteq Range(batch) /\ Waiting' = Range(batch') \cup Range(queue)
  BY <1>1, <1>4, <1>6 DEF Waiting, Upstream, Held
<1>8. Range(topic') \X Waiting' \subseteq Orderly
  <2>1. Range(topic) \X Waiting' \subseteq Orderly
    BY <1>0, <1>7 DEF OrderInv
  <2>2. {Head(batch)} \X Range(queue) \subseteq Orderly
    BY <1>0, <1>4 DEF OrderInv
  <2> QED
    BY <1>4, <1>6, <1>7, <2>1, <2>2
<1>9. \A c \in Clients : Sent(c)' = Sent(c)
  BY <1>1 DEF Sent
<1> QED
  BY <1>0, <1>1, <1>2, <1>4, <1>6, <1>7, <1>8, <1>9 DEF OrderInv

\* A batch is dropped whole, or stays.
LEMMA OrderFlush ==
  ASSUME StreamInv,
         FlushTick \/ StartDrain \/ EndDrain \/ \E p \in Phases : FlushBatch(p)
  PROVE  OrderInv'
<1>0. OrderInv
  BY DEF StreamInv
<1>1. /\ UNCHANGED <<queue, topic, consumer, sending, accepted, updates, received>>
      /\ batch' \in {batch, <<>>}
  BY DEF FlushTick, StartDrain, EndDrain, FlushBatch, broker, sockets
<1>2. Orderly' = Orderly
  BY <1>1 DEF Orderly
<1>3. Range(<<>>) = {} /\ Ordered(<<>>, Orderly)
  BY DEF Range, Ordered
<1>4. Ordered(batch', Orderly) /\ Range(batch') \subseteq Range(batch)
  BY <1>0, <1>1, <1>3 DEF OrderInv
<1>5. Waiting' \subseteq Waiting /\ Upstream' \subseteq Upstream /\ Held' = Held
  BY <1>1, <1>4 DEF Waiting, Upstream, Held
<1>6. \A c \in Clients : Sent(c)' = Sent(c)
  BY <1>1 DEF Sent
<1> QED
  BY <1>0, <1>1, <1>2, <1>4, <1>5, <1>6 DEF OrderInv

\* The first message of a partition is taken out of the topic: those left behind
\* are later ones, or of other entities.
LEMMA OrderRead ==
  ASSUME StreamInv, NEW i \in DOMAIN topic, ReadNext(i)
  PROVE  OrderInv'
<1> DEFINE e == topic[i]
           rest == RemoveAt(topic, i)
<1>0. OrderInv /\ topic \in Seq(Events) /\ i \in Nexts
  BY DEF StreamInv, StreamTypeOK, ReadNext
<1>1. /\ UNCHANGED <<queue, batch, accepted, updates, received>>
      /\ topic' = rest /\ consumer = "next"
      /\ consumer' = "dispatch" => sending'.env = e
  BY DEF ReadNext, LoopOn, writer, sockets
<1>2. Orderly' = Orderly
  BY <1>1 DEF Orderly
<1>3. /\ \A y \in Range(rest) : \E k \in DOMAIN topic : k # i /\ y = topic[k]
      /\ Ordered(rest, Orderly)
  BY <1>0, RemoveFacts DEF OrderInv
<1> HIDE DEF rest
<1>4. Range(rest) \subseteq Range(topic) /\ e \in Range(topic)
  BY <1>3 DEF Range
<1>5. ASSUME NEW y \in Range(rest) PROVE <<e, y>> \in Orderly
  <2>1. PICK k \in DOMAIN topic : k # i /\ y = topic[k]
    BY <1>3
  <2>2. i \in 1 .. Len(topic) /\ k \in 1 .. Len(topic) /\ e \in Events /\ y \in Events
    BY <1>0, <2>1, LenProperties, ElementOfSeq
  <2>3. CASE k < i
    <3>1. EntityOf[y] # EntityOf[e]
      BY <1>0, <2>1, <2>2, <2>3 DEF Nexts
    <3> QED
      BY <2>2, <3>1 DEF Orderly
  <2>4. CASE i < k
    BY <1>0, <2>1, <2>4 DEF OrderInv, Ordered
  <2> QED
    BY <2>1, <2>2, <2>3, <2>4
<1> HIDE DEF e
<1>6. /\ Waiting' = Waiting /\ Upstream' = Range(rest) \cup Waiting
      /\ Held' \subseteq {e} /\ Upstream' \subseteq Upstream /\ e \in Upstream
  BY <1>1, <1>4 DEF Waiting, Upstream, Held
<1>7. {e} \X Upstream' \subseteq Orderly
  BY <1>0, <1>4, <1>5, <1>6 DEF OrderInv
<1>8. \A c \in Clients : Sent(c)' = Sent(c)
  BY <1>1 DEF Sent
<1>9. ASSUME NEW c \in Clients PROVE Sent(c)' \X Held' \subseteq Orderly
  BY <1>0, <1>6, <1>8 DEF OrderInv
<1> QED
  BY <1>0, <1>1, <1>2, <1>3, <1>4, <1>6, <1>7, <1>8, <1>9 DEF OrderInv

\* The envelope goes to the end of a target's buffer, and that target is done.
LEMMA OrderDispatch ==
  ASSUME StreamInv, NEW c \in Clients, Dispatch(c)
  PROVE  OrderInv'
<1> DEFINE e == sending.env
<1>0. /\ StreamTypeOK /\ OrderInv /\ updates \in [Clients -> Seq(Events)]
      /\ e \in Events /\ c \in sending.targets /\ Held = {e}
  BY DEF StreamInv, StreamTypeOK, SentInv, Dispatch, Held
<1>1. UNCHANGED <<queue, batch, topic, accepted, received>>
  BY DEF Dispatch, writer
<1>2. Orderly' = Orderly /\ Waiting' = Waiting /\ Upstream' = Upstream
  BY <1>1 DEF Orderly, Waiting, Upstream
<1>3. Held' \subseteq Held /\ sending'.targets \subseteq sending.targets \ {c}
  <2>1. sending \in [env : Events \cup {None}, targets : SUBSET Clients]
    BY <1>0 DEF StreamTypeOK
  <2>2. CASE consumer' = LoopOn /\ sending' = Nothing
    BY <2>2 DEF LoopOn, Nothing, Held
  <2>3. CASE /\ consumer' = consumer
             /\ sending' = [sending EXCEPT !.targets = sending.targets \ {c}]
    BY <2>1, <2>3 DEF Held
  <2> QED
    BY <2>2, <2>3 DEF Dispatch
<1> HIDE DEF e
<1>4. updates[c] \in Seq(Events)
  BY <1>0
<1>5. /\ Ordered(updates[c], Orderly) /\ Range(updates[c]) \X {e} \subseteq Orderly
      /\ Range(received[c]) \X {e} \subseteq Orderly
      /\ Range(received[c]) \X Range(updates[c]) \subseteq Orderly
      /\ Sent(c) \X {e} \subseteq Orderly
      /\ {e} \X Upstream \subseteq Orderly /\ e \in Range(accepted)
  BY <1>0 DEF OrderInv, Sent
<1>6. /\ Range(Append(updates[c], e)) = Range(updates[c]) \cup {e}
      /\ Ordered(Append(updates[c], e), Orderly)
  BY ONLY <1>0, <1>4, <1>5, AppendFacts
<1>7. /\ updates' = updates \/ updates' = [updates EXCEPT ![c] = Append(updates[c], e)]
      /\ \A d \in Clients : d # c => updates'[d] = updates[d]
      /\ updates'[c] \in {updates[c], Append(updates[c], e)}
  <2>1. updates' = updates \/ updates' = [updates EXCEPT ![c] = Append(updates[c], e)]
    BY DEF Dispatch, e
  <2> QED
    BY <1>0, <2>1
<1>8. ASSUME NEW d \in Clients
      PROVE  /\ Ordered(updates'[d], Orderly) /\ Ordered(received'[d], Orderly)
             /\ Range(received'[d]) \X Range(updates'[d]) \subseteq Orderly
             /\ Sent(d)' \X Upstream \subseteq Orderly
             /\ d \in sending'.targets => Sent(d)' \X Held' \subseteq Orderly
             /\ Sent(d)' \subseteq Range(accepted)
  <2>1. CASE d # c
    <3>1. Sent(d)' = Sent(d) /\ updates'[d] = updates[d]
      BY <1>1, <1>7, <2>1 DEF Sent
    <3> QED
      BY <1>0, <1>1, <1>3, <3>1 DEF OrderInv
  <2>2. CASE d = c
    <3>1. /\ Ordered(updates'[c], Orderly)
          /\ Range(updates'[c]) \subseteq Range(updates[c]) \cup {e}
      BY <1>5, <1>6, <1>7
    <3>2. Sent(c)' \subseteq Sent(c) \cup {e}
      BY <1>1, <3>1 DEF Sent
    <3>3. d \notin sending'.targets
      BY <1>3, <2>2
    <3> QED
      BY <1>0, <1>1, <1>5, <2>2, <3>1, <3>2, <3>3 DEF OrderInv
  <2> QED
    BY <2>1, <2>2
<1> QED
  BY <1>0, <1>1, <1>2, <1>3, <1>8 DEF OrderInv

\* The head of a client's buffer moves to the end of what it received.
LEMMA OrderReceive ==
  ASSUME StreamInv, NEW c \in Clients, Receive(c)
  PROVE  OrderInv'
<1>0. /\ OrderInv /\ updates \in [Clients -> Seq(Events)] /\ received \in [Clients -> Seq(Events)]
      /\ updates[c] \in Seq(Events) /\ received[c] \in Seq(Events)
  BY DEF StreamInv, StreamTypeOK
<1> DEFINE u == updates[c]
           r == received[c]
<1>1. /\ UNCHANGED <<queue, batch, topic, consumer, sending, accepted>>
      /\ u # <<>> /\ updates'[c] = Tail(u) /\ received'[c] = Append(r, Head(u))
      /\ \A d \in Clients : d # c => updates'[d] = updates[d] /\ received'[d] = received[d]
  BY <1>0 DEF Receive, writer, broker
<1>2. u \in Seq(Events) /\ r \in Seq(Events)
  BY <1>0
<1>3. Ordered(u, Orderly) /\ Ordered(r, Orderly) /\ Range(r) \X Range(u) \subseteq Orderly
  BY <1>0 DEF OrderInv
<1> HIDE DEF u, r
<1>4. /\ Head(u) \in Events /\ Range(u) = {Head(u)} \cup Range(Tail(u))
      /\ Ordered(Tail(u), Orderly) /\ {Head(u)} \X Range(Tail(u)) \subseteq Orderly
  BY ONLY <1>1, <1>2, <1>3, TailFacts
<1>5. Range(r) \X {Head(u)} \subseteq Orderly
  BY <1>3, <1>4
<1>6. Range(Append(r, Head(u))) = Range(r) \cup {Head(u)} /\ Ordered(Append(r, Head(u)), Orderly)
  BY ONLY <1>2, <1>3, <1>4, <1>5, AppendFacts
<1>7. Range(received'[c]) \X Range(updates'[c]) \subseteq Orderly
  BY <1>1, <1>3, <1>4, <1>6
<1>8. /\ Orderly' = Orderly /\ Waiting' = Waiting /\ Upstream' = Upstream /\ Held' = Held
  BY <1>1 DEF Orderly, Waiting, Upstream, Held
<1>9. \A d \in Clients : Sent(d)' = Sent(d)
  <2>1. Sent(c)' = Sent(c)
    BY <1>1, <1>4, <1>6 DEF Sent, u, r
  <2> QED
    BY <1>1, <2>1 DEF Sent
<1>10. \A d \in Clients :
         /\ Ordered(updates'[d], Orderly) /\ Ordered(received'[d], Orderly)
         /\ Range(received'[d]) \X Range(updates'[d]) \subseteq Orderly
  BY <1>0, <1>1, <1>4, <1>6, <1>7 DEF OrderInv
<1> QED
  BY <1>0, <1>1, <1>8, <1>9, <1>10 DEF OrderInv

LEMMA OrderStep == StreamInv /\ [StreamNext]_streamVars => OrderInv'
<1> SUFFICES ASSUME StreamInv, [StreamNext]_streamVars PROVE OrderInv'
  OBVIOUS
<1>1. ASSUME UNCHANGED <<queue, batch, topic, accepted, updates, received>>,
             Held' \subseteq Held, sending'.targets \subseteq sending.targets
      PROVE  OrderInv'
  BY <1>1 DEF StreamInv, OrderInv, Sent, Upstream, Waiting, Orderly, Ordered
<1>2. CASE Flusher
  BY <1>2, OrderTake, OrderFlush, OrderPublish DEF Flusher
<1>3. CASE ConsumerStops
  BY <1>1, <1>3 DEF ConsumerStops, Held, writer, sockets
<1>4. CASE Consumer
  BY <1>3, <1>4, OrderRead, OrderDispatch DEF Consumer
<1>5. CASE \E c \in Clients : Receive(c)
  BY <1>5, OrderReceive
<1>6. CASE \E h \in Handlers : WriteEvent(h)
  BY <1>6, OrderWrite
<1>7. CASE /\ ~Flusher /\ ~Consumer
           /\ ~ \E h \in Handlers : WriteEvent(h)
           /\ ~ \E c \in Clients : Receive(c)
  BY <1>1, <1>7, OthersLeaveStream DEF Held
<1> QED
  BY <1>2, <1>4, <1>5, <1>6, <1>7

LEMMA StreamInductive == StreamSpec => []StreamInv
<1>1. StreamInv /\ [StreamNext]_streamVars => StreamInv'
  BY StreamTyped, BatchStep, ClosingStep, AccountStep, SentStep, OrderStep DEF StreamInv
<1> QED
  BY <1>1, StreamInvInit, PTL DEF StreamSpec

-----------------------------------------------------------------------------
\* The graph path keeps its types for any number of events and clients: neither the
\* writer's queue, nor a batch, nor a client's buffer ever outgrows its capacity.
THEOREM StreamTypeCorrect == StreamSpec => []StreamTypeOK
<1>1. StreamInv => StreamTypeOK
  BY DEF StreamInv
<1> QED
  BY <1>1, StreamInductive, PTL

\* When Writer.Close returns to main, no accepted event is left in the queue or in
\* flushLoop's batch: each was committed, or its batch was counted as failed.
THEOREM NothingLeftBehind == StreamSpec => []AcceptedIsAccounted
<1>1. StreamInv => AcceptedIsAccounted
  <2> SUFFICES ASSUME StreamInv, main = "exited"
               PROVE  Range(accepted) \subseteq written \cup failed
    BY DEF AcceptedIsAccounted
  <2>1. batch = <<>> /\ queue = <<>>
    BY DEF StreamInv, ClosingInv, BatchInv
  <2>2. Waiting = {}
    BY <2>1 DEF Waiting, Range
  <2> QED
    BY <2>2 DEF StreamInv, AccountInv
<1> QED
  BY <1>1, StreamInductive, PTL

\* What a client is sent is in the graph and of its tenant, and the updates of one
\* entity reach it in the order of their acceptance (an event is accepted once, so
\* no update is repeated), whatever is dropped on the way.
THEOREM LiveTailInOrder == StreamSpec => []LiveTail
<1>1. StreamInv => LiveTail
  <2> SUFFICES ASSUME StreamInv, NEW c \in Clients, NEW i \in DOMAIN received[c]
               PROVE  /\ received[c][i] \in written
                      /\ TenantOf[received[c][i]] = ClientTenant[c]
                      /\ \A j \in 1 .. i - 1 :
                           EntityOf[received[c][j]] = EntityOf[received[c][i]] =>
                             \E m, n \in DOMAIN accepted :
                               m < n /\ accepted[m] = received[c][j]
                                     /\ accepted[n] = received[c][i]
    BY DEF LiveTail
  <2>1. received[c][i] \in Sent(c)
    BY DEF Sent, Range
  <2>2. received[c][i] \in written /\ TenantOf[received[c][i]] = ClientTenant[c]
    BY <2>1 DEF StreamInv, SentInv
  <2>3. ASSUME NEW j \in 1 .. i - 1
        PROVE  <<received[c][j], received[c][i]>> \in Orderly
    <3>1. received[c] \in Seq(Events)
      BY DEF StreamInv, StreamTypeOK
    <3>2. j \in DOMAIN received[c] /\ j < i
      BY <3>1, LenProperties
    <3>3. Ordered(received[c], Orderly)
      BY DEF StreamInv, OrderInv
    <3> QED
      BY <3>2, <3>3 DEF Ordered
  <2> QED
    BY <2>2, <2>3 DEF Orderly
<1> QED
  BY <1>1, StreamInductive, PTL

=============================================================================
