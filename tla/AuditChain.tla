----------------------------- MODULE AuditChain -----------------------------
(***************************************************************************)
(* The hash chain of one tenant's audit log: how AuditMiddleware appends   *)
(* the row of a request (middleware/audit_middleware.py, services/audit.py)*)
(* and what verify_chain accepts (services/audit_hash.py).                 *)
(*                                                                         *)
(* The hash of a row covers the row and the hash before it, so it is       *)
(* modelled by the row's identity.  A module that extends this one says    *)
(* when a request is answered.                                             *)
(***************************************************************************)
EXTENDS Naturals

CONSTANTS
  ApiRequests,  \* mutating requests of the tenant
  Null,
  MaxFaults     \* bound on statements and commits that fail

ASSUME NullAssumption == Null \notin ApiRequests
ASSUME FaultsAssumption == MaxFaults \in Nat

VARIABLES
  rows,       \* audit_logs
  entry,      \* the row each request is writing
  clock,      \* timestamps handed out
  faults,     \* failures so far
  badWrites   \* history: those of the audit session

auditVars == <<rows, entry, clock, faults, badWrites>>

Hash == ApiRequests \cup {Null}
Row == [id : ApiRequests, created_at : Nat, prev_hash : Hash, hashed : BOOLEAN]

NoEntry == [pc |-> "none", created_at |-> 0, prev_hash |-> Null, hashed |-> FALSE]

AuditTypeOK ==
  /\ rows \subseteq Row
  /\ entry \in [ApiRequests -> [pc : {"none", "read", "commit", "written", "lost"},
                             created_at : Nat, prev_hash : Hash, hashed : BOOLEAN]]
  /\ clock \in Nat
  /\ faults \in 0 .. MaxFaults /\ badWrites \in BOOLEAN

AuditInit ==
  /\ rows = {}
  /\ entry = [r \in ApiRequests |-> NoEntry]
  /\ clock = 0
  /\ faults = 0 /\ badWrites = FALSE

Hashed(S) == {q \in S : q.hashed}

\* The hash of the latest hashed row of S.
LatestHash(S) ==
  IF Hashed(S) = {} THEN Null
  ELSE (CHOOSE q \in Hashed(S) :
          \A p \in Hashed(S) : p.created_at <= q.created_at).id

Before(r) == {q \in rows : q.created_at < r.created_at}

-----------------------------------------------------------------------------
\* created_at is fixed before the lookup of the previous hash.
Stamp(r) ==
  /\ entry[r].pc = "none"
  /\ clock' = clock + 1
  /\ entry' = [entry EXCEPT ![r].pc = "read", ![r].created_at = clock + 1]
  /\ UNCHANGED <<rows, faults, badWrites>>

Fault == faults < MaxFaults /\ faults' = faults + 1
BadWrite == Fault /\ badWrites' = TRUE

\* Mutant: the lookup takes the oldest row.
OldestHash ==
  IF Hashed(rows) = {} THEN Null
  ELSE (CHOOSE q \in Hashed(rows) :
          \A p \in Hashed(rows) : q.created_at <= p.created_at).id

_resolve_prev_hash == LatestHash(rows)

\* A lookup that fails leaves the row without a hash.
ResolvePrevHash(r) ==
  /\ entry[r].pc = "read"
  /\ \/ /\ entry' = [entry EXCEPT ![r].pc = "commit", ![r].hashed = TRUE,
                                  ![r].prev_hash = _resolve_prev_hash]
        /\ UNCHANGED <<faults, badWrites>>
     \/ /\ entry' = [entry EXCEPT ![r].pc = "commit"]
        /\ BadWrite
  /\ UNCHANGED <<rows, clock>>

RowOf(r) == [id |-> r, created_at |-> entry[r].created_at,
             prev_hash |-> entry[r].prev_hash, hashed |-> entry[r].hashed]

\* A commit that fails is passed over in silence.
CommitRow(r) ==
  /\ entry[r].pc = "commit"
  /\ \/ /\ rows' = rows \cup {RowOf(r)}
        /\ entry' = [entry EXCEPT ![r] = [NoEntry EXCEPT !.pc = "written"]]
        /\ UNCHANGED <<faults, badWrites>>
     \/ /\ entry' = [entry EXCEPT ![r] = [NoEntry EXCEPT !.pc = "lost"]]
        /\ BadWrite
        /\ UNCHANGED rows
  /\ UNCHANGED clock

Audited(r) == entry[r].pc \in {"written", "lost"}

\* verify_chain over the rows from the oldest to the newest: each hashed row
\* follows the hashed row before it, and no row without a hash comes after one
\* that has it.
verify_chain ==
  \A r \in rows :
    IF r.hashed THEN r.prev_hash = LatestHash(Before(r)) ELSE Hashed(Before(r)) = {}
=============================================================================
