# Formal models of the SOC platform

TLA+ modules, TLC configurations and TLAPS proofs for the parts of this repository whose correctness
rests on the order in which things happen: the human gate in front of response actions and the bridge
that feeds it, the lease that elects a background worker and the hunts that worker runs, the claim of an
alert, the decision of an agent approval, the synchronisation of a case with its ITSM tickets, the
connectors' scheduler, credentials and poll cycle, the fusion of alerts and the risk of entities, the
live graph stream, the review of detection proposals with its audit chain, and the playbook engine.
`PROJECT.json` lists the components, the runs, the mutants, the lines each definition models, the
finding, the hazards and the theorems. Paths below are relative to `src/` unless they begin with a
module name.

Contents: 1 the system, 2 the modules, 3 the runs, 4 fairness, 5 where code and documentation disagree,
6 the proofs, 7 what is not modelled, 8 plan, 9 how to run.

## 1. The system

A security operations platform of Python services (FastAPI, asyncio), two Go services, one TypeScript
service and a web application, on PostgreSQL, Redis, Kafka, ClickHouse and a graph store. The flow is:
connectors poll vendors and post events to ingest; ingest and enrichment publish alerts on Kafka and
write the graph; fusion suppresses duplicates, groups alerts into incidents and keeps the risk of
entities; the api stores alerts, cases, approvals, detections and audit rows and serves the analysts;
agents investigate, run playbooks and propose actions; the actions service executes them, or holds them
for a human.

| Component | State | Operations | Interacts through | What is hard | Correct when | Module |
|---|---|---|---|---|---|---|
| actions: router, ChatOps callback | in-memory table of actions, set of answered prompts; both lost on restart | submit, approve, reject, callback | HTTP; vendors; the case timeline in the api | handlers suspend in vendor calls and later write to the record they hold; links outlive the process | nothing runs twice or after a veto, the table reports only what was begun | `ActionGate`, `ApprovalGate` |
| actions: gates | tables of blast radius and autonomy tiers | `BlastRadiusGate.evaluate`, `evaluate_gate` | called by submit; `evaluate_gate` has no caller outside its tests | two tables for one question | tables agree; a higher tier automates more | `ActionPolicy` |
| agents: bridge | none | `_map_action`, dispatch of a list under a timeout of 8 s | HTTP to actions | answers later than the timeout, restarts | the summary of a call is true | `ActionDispatch` |
| api: scheduler lock | a Redis key with a token and a TTL | acquire, renew, release | Redis; `main.py` retries every 5 s | late timers, lost answers, crashes, Redis errors | one worker under a renewed lease | `SchedulerLock` |
| api: saved-hunt scheduler | `last_run_at` of each hunt, cases | sweep | PostgreSQL, the lease | one commit for a whole sweep; workers that move between replicas | one case per interval of a hunt; due hunts run | `HuntScheduler` |
| api: OAuth refresh, consent, edits | encrypted credentials, health and failure count of a connector | sweep, exchange, save; consent, edit, revocation | identity provider, PostgreSQL | rotation of tokens, lost answers, rows read long before they are written | no grant is lost by the worker; a due connector is refreshed or turns unhealthy | `OAuthRefresh` |
| api: alert claim | `alerts.assigned_to`, row locks | `claim_alert`, assignment in `update_alert`, deletion | PostgreSQL | statements of requests interleave; the loser reads after its UPDATE | one atomic compare-and-set per claim | `AlertClaim`, `AlertOwnership` |
| api: agent approvals | one row per approval | create, decide, notify | PostgreSQL, realtime | check and commit are separate; the ORM writes changed columns only | an uncontested decision is whole, a refusal justified, decisions become final | `AgentApprovals` |
| api: cases and ITSM synchronisation | case status, links, tickets at the vendors | create and fan out, update and fan out, inbound webhook | PostgreSQL, Jira, ServiceNow | check then write, push after the commit, webhooks that answer our own pushes | a stage is skipped by a webhook or a lost race only, no ticket is ahead of its case, echoes die out | `CaseSync` |
| api: detection proposals | proposal, base rule, published rules | comment, evaluate, decide, promote | PostgreSQL | rows read without a lock | only reviewed rules are published | `DetectionProposals` |
| api: audit chain | rows linked by hash | append, `verify_chain` | middleware of every mutating request | concurrent writers read one previous hash | an honest log verifies | `AuditChain` |
| connectors: job reload | signature cache, APScheduler jobs | start, reload, stop | the connectors table, written by the api | rows change between SELECT and use; cache and scheduler can part | jobs become those of the enabled rows | `ConnectorJobs` |
| connectors: poll and backfill | row with outage and backfill marks | `_poll_one`, nested backfill, three separate writes | vendors, ingest, the row | any read, fetch or write may fail; the process may stop between two | without a fault no hole is wider than the buffer lacks; backfills keep their distance | `ConnectorPoll` |
| fusion: dedup, correlation | three families of Redis keys with TTL | `process` for the consumer and for `POST /process` | Kafka, Redis | every Redis command is its own step; errors are logged and passed over | incidents bounded; suppressions justified; exact when sequential | `FusionPipeline` |
| fusion: entity risk | a risk record per entity, the promoted ones | `observe`: load, decay, save, promote | called by `process` before it publishes | a record is loaded, changed and saved whole | a run counted at most once and for its own entities; exact for an entity nobody contended for | `EntityRisk` |
| ingest: graph writer and stream | queue, batch, topic, channels of clients | write, flush, publish, broadcast, subscribe, shut down | Neo4j, Kafka, WebSocket | goroutines, full buffers, a shutdown in stages | accepted events are accounted for; clients see their tenant's updates in order | `GraphStream` |
| agents: playbook engine | a run in memory, the store | run, poll, update, restart | actions, api | branches, retries, failure modes | every run ends; actions are not multiplied; abort is final | `PlaybookEngine` |
| osquery-tls | queue of distributed queries | enqueue, read, complete | nodes | re-delivery, late results | a result is that of its query | - |
| agents: investigator, run ledger, hunt dispatcher | ledger rows, in-memory intervals | append, schedule | api | lost writes | - | - |
| enrichment, realtime, threatintel, ueba, digital twin, web, SDKs, scripts | caches, buffers, feeds, pages | request and answer | Kafka, HTTP, WebSocket | best effort by design | - | - |

How the modules compose:

    ActionPolicy <- ActionGate <- ActionDispatch          proposals, gate, router, restart
    SchedulerLock <- HuntScheduler                        the lease and the worker under it
    ConnectorJobs <- OAuthRefresh                         one table, two writers and the reload
    FusionPipeline <- EntityRisk                          one run of process(), both halves
    AuditChain <- DetectionProposals                      requests and the rows they leave
    AlertOwnership <= AlertClaim                          refinement
    ApprovalGate   <= ActionGate                          refinement

An arrow is EXTENDS: the upper module's actions are taken unchanged as steps of the composition, and the
proofs show that the composition's steps are steps of the lower module or leave it alone
(`RouterBesideBridge`, `LockBesideHunts`), so that its theorems carry over.

## 2. The modules and the code

Each `X.tla` is a component, `MCX.tla` its instance for TLC. Theorems are in modules of their own:
`XProofs.tla` for most; `AgentProofs` for `AgentApprovals` and `PlaybookEngine`, `ApiProofs` for
`AlertClaim` and `DetectionProposals`, `IntakeProofs` for `ConnectorPoll` and `GraphStream`. Where one
module proves two specifications, those of the second carry its name: `PlaybookSpec`, `ProposalSpec`,
`StreamSpec`, and likewise `...Init`, `...Next` and `...TypeOK`. Definitions keep the names of the source
where they have one. A definition that begins with "Mutant" in its comment is a plausible bug: replacing the
definition after it by the mutant breaks the property `PROJECT.json` pairs it with.

**`ActionPolicy`** (services/actions `blast_radius.py`, `maturity.py`, `models/action.py`,
`executor_registry.py`; services/agents `actions_client.py`). Tables and three pure functions: `evaluate`,
`evaluate_gate`, `_map_action`. Action types keep their names, since the tables are about them. Target
names, confidence and messages are left out; whether a target looks like OT is a Boolean.

**`ActionGate`** (services/actions `api/router.py`, `executors/`, `chatops_token.py`, `timeline_client.py`).
The service is one uvicorn process, so one action of the model is the code between two suspension points.
`submit_action` suspends in an executor that calls a vendor; `approve_action` rebuilds the request without
its parameters, so its executor takes the simulation branch and the handler is one step. `actions` is
`_actions`, `replied` is `_chatops_replied`, `task` holds the suspended handlers, `timeline` is durable in
the api. A record remembers its submission's number, because a handler goes on writing to a record that a
resubmission has replaced. `runs` and `vetoed` are history. A record of another id shares nothing with this
one but the restart.

**`ApprovalGate`** is the promise of the same router about its submissions, without handlers, records or
ids: what the gate says needs a human is held; a held submission is started or vetoed in the one step that
ends its waiting, or it is forgotten. `ActionGate` has the refinement mapping, with the verdict of each
submission (`Verdicts`), the submissions whose record awaits approval (`Held`) and the executor starts
(`Starts`); `OneDecision` states that the router implements it.

**`ActionDispatch`** (services/agents `actions_client.py`). A call takes a list of proposals and posts them
one after the other. `post` is the request in flight: it names the handler that works on it, so that the
answer of that handler (`HandlerGoesOn`), the timeout (`TimesOut`) and the restart of the service race for
it. Other clients, approvers and ChatOps users act meanwhile (`OtherRequest`). `report` is what
`dispatch_proposed_actions` returns, with `Counted` for its summary.

**`SchedulerLock`** (services/api `core/scheduler_lock.py`, `main.py`). `owner` and `left` are the Redis key
and its TTL; `pc` is the loop of `_run_guarded_scheduler_worker`. SET NX EX, the renewal script and the
release script are one step each, as Redis executes them. A backend error may come before or after the
effect: `Orphan` is the token of an attempt nobody remembers. Time is counted in units, and a due timer
fires at most `MaxLag` late.

**`HuntScheduler`** (services/api `workers/hunt_scheduler.py`). A step of the lease is also a step of the
sweeps: a replica that no longer works loses its open transaction. A sweep reads the hunts with their time
(`StartSweep`), runs each due one (`Fire`: hits or none, or an error that leaves it due) and commits once
(`CommitSweep`, `CommitFails`). The commit stamps each fired hunt with the time of the sweep's start, over
whatever is there, as the UPDATE by id does. Intervals of a hunt are counted and not tied to the ticks of
the lease: any number of either fits between two steps.

**`AlertOwnership`** is the promise of the claim endpoint: one atomic compare-and-set of the owner, with an
answer that may be lost. **`AlertClaim`** (services/api `alert_queue.py`, `alerts.py`, `db/rls.py`) has the
statements: SELECT, guarded UPDATE that takes the row lock and re-evaluates its WHERE, the reread of a
loser, COMMIT, refresh, and the rollback of a request that ends anywhere. `AtomicClaim` is the refinement,
with `owner <- row` and `answer <- Outcome`: a request has its outcome when its transaction is over, before
it has been answered.

**`AgentApprovals`** (services/api `approvals.py`). One approval and the requests that decide it: SELECT
without a lock, an UPDATE of the attributes that differ from the loaded row, refresh, notification.

**`CaseSync`** (services/api `cases.py`, `case_fanout.py`, `inbox_itsm.py`; services/connectors
`jira_connector.py`, `servicenow.py`). One case from the commit of its row on. The fan-out of the creation
pushes ticket by ticket and commits the links at its end; an update checks the transition on the status it
read, writes by id, and pushes to the links it then finds; a webhook maps the vendor's state and overwrites.
The two status maps outwards and the one inwards are tables (`JiraState`, `SnowState`, `Mirrored`), and a
vendor fires a webhook for each change of a ticket, its own users' and ours. Webhooks are a set: delivered
in any order, and again when their answer is lost. `held` (the statuses the case has had), `edited` and
`overtaken` (the PATCHes under which the status changed after their check) are history.

**`AuditChain`** (services/api `middleware/audit_middleware.py`, `services/audit.py`, `audit_hash.py`).
After its answer a request is audited: the time is fixed, the previous hash is looked up, the row is
committed. The hash is modelled by the row it identifies. **`DetectionProposals`**
(`detection_proposals.py`) has the requests: each loads the proposal, is refused or goes on, and commits the
columns it changed. Promotion creates a rule or bumps the version of the base rule, which an UPDATE locks
until the commit. The row of a request is then appended by `AuditChain`.

**`ConnectorJobs`** (services/connectors `scheduler.py`: `start`, `stop`, `reload_jobs`). A reload is two
steps, its SELECT and all that follows without a further await. A signature stands for connector type and
interval. APScheduler is external: a job added with `next_run_time=None` is paused.

**`OAuthRefresh`** (services/api `workers/oauth_refresh.py`, endpoints `oauth.py`, `connectors.py`). A sweep
reads every due row (`copy`), then exchanges one after the other. `issued` and `live` are the provider: it
accepts live tokens, rotates them or not, and may lose its answer after a rotation. The tokens are written
into the row as the sweep read it. `spoiled` is bookkeeping: connectors whose credentials were changed while
the sweep had them in hand, revoked, or rotated by an exchange whose answer was lost. Credentials that
cannot be decrypted count as a failed exchange.

**`ConnectorPoll`** (services/connectors `scheduler.py`: `_poll_one` and its writes, `connector_repo.py`).
Time is in slots; a poll asks for the last `lookback` slots. The poll job is taken as its docstring
describes it, since `ConnectorJobs` shows how it is registered. `got` is what reached ingest; `reached` and
`excused` are bookkeeping: slots the code does not promise, of an outage under the threshold or older than
the cap. What counts as a short outage is measured from the last successful poll (`ShortGap`), so a marker
that moves is not excused. `Gap` is what the buffer lacks of an interval and the time of two polls.

**`FusionPipeline`** (services/fusion `fusion_engine.py`, `deduplicator.py`, `correlator.py`,
`consumer.py`). A run is one execution of `process()`; each Redis command is an action. The consumer commits
offsets automatically and logs errors, and `POST /process` runs beside it, so runs interleave and any may
fail. Scoring, confidence and narrative swallow their errors and touch none of the keys.

**`EntityRisk`** (`entity_risk.py`). Before a run publishes, it loads, decays, charges and saves the record
of each entity of its alert, and promotes an entity whose record crosses the threshold: a second save, then
the list. `process()` logs whatever this raises and goes on. Decay is none or a half-life. A record names
its last alerts up to a limit (`MaxContributors`), each once, and counts all (`Applied`). What a record
should hold is not kept beside it but computed from how far each run has come: `Charging(e)` are the runs
that have come past a signal for the entity, `PointsOf` has one element for each point of their alerts. The
histories are `promotions`, the runs that listed an entity, and `spoilt`, the entities that two runs had in
hand together, that a run failed on or that expired.

**`GraphStream`** (services/ingest `internal/graph/writer.go`, `internal/graph_ws/`, `main.go`). A goroutine
is interleaved wherever it blocks or holds no lock: `WriteEvent` (a full queue drops), `flushLoop` with its
three phases (loop, drain after Close, last batch), publication message by message, `consumeLoop`, the copy
of the targets under the lock and the sends after it, the pumps, `Unsubscribe` and its later close of the
channel, and `main` with its deferred calls. An event stands for the one node it upserts.

**`PlaybookEngine`** (services/agents `playbook/engine.py`, `store.py`, `api/playbooks.py`). A playbook is
any sequence of steps with distinct ids; a step has a kind (handled, unhandled, condition), a gate,
branches, a failure mode and a number of retries. What conditions evaluate to and whether handlers raise is
open. `polled` is what `GET /runs/{id}` shows.

## 3. The runs

| Run | Instance | Question and answer |
|---|---|---|
| `action_dispatch` | one id, three handlers, two submissions, one event, one restart; one call of one or two proposals, with other clients submitting under the same id | the refinement `OneDecision`, `RunsAtMostOnce`, `CompletedMeansRun` and `VetoStands` (a rejected submission stays rejected, whoever writes later) of the router; `ReportIsHonest` of the bridge: what a summary counts as executed was begun, what it counts as awaiting was not; with fairness `AutoApprovedSettles`. |
| `hunt_scheduler` | two replicas, TTL 4, retry 2, lag 1, one backend error, one stop; one hunt, two intervals, one failed hunt or commit | `OneCasePerPeriod` while the lock meets no error; `OneRenewedWorker`, `NoForeignRelease`; with fairness `DueHuntsRun`. |
| `agent_approvals` | three requests with either decision, with a comment or without | `UncontestedAgrees`, `RefusalIsJustified`, `DecisionSettles`. |
| `alert_claim` | three users, three claims, two assignments, a deletion | `OneWinner`, the refinement `AtomicClaim` and, with fairness, `EveryRequestAnswered`. |
| `oauth_refresh` | two connectors, one of them with OAuth, two signatures, three writes, two faults, alarm at two failures, three tokens | `CacheMatchesJobs` of the job reload beside consents and edits; `TokenKept`; with fairness `JobsConverge` and `DueIsSettled`. |
| `connector_poll` | interval 2, threshold 5, flap window 3, cap 10, buffer 2 (one interval, as shipped), slack 1, two faults of any kind, 17 slots | `FaultFreeHolesWithinGap`: without a fault no hole is wider than what the buffer lacks of an interval and two polls; `BackfillsSpaced`. |
| `entity_risk` | three runs of one key: two copies of an event and a second alert, which touches a second entity before theirs; limit 2, threshold 3, one contributor named, one error, one expiry | `IncidentBounded`, `SuppressionIsJustified`, `SequentialRunsAreExact` of the pipeline; `RiskIsJustified` in every interleaving, `UncontestedRiskIsExact` for an entity that no two runs contended for. |
| `case_sync` | one case, a Jira ticket and a ServiceNow ticket, two handlers, two inputs (PATCH or a move by a user of the ITSM), one fault | `SkipsNeedARace`: what skips or reverses a stage is a webhook or a PATCH whose case changed after its check; `TicketsShowHeldStatus`; with fairness `SyncSettles`. |
| `graph_stream` | three events of two tenants, two on one node, two handlers, two clients, queue and buffers of 1, batch of 2, one fault | `AcceptedIsAccounted`, `LiveTail`; with fairness `ShutdownEnds`. |
| `graph_stream_panic` | the same | violated: `NoPanic` |
| `detection_proposals` | four requests of any kind on a new rule or an edit, one failed statement | `RulesAreReviewed`, `UncontestedIsExact`, `SequentialLogVerifies`. |
| `playbook_engine` | every playbook of three steps (handled with and without gate, abort or continue, one retry; condition; unhandled) with branches back to the first and on to the last, dry and live, one update or restart | `CallsAreBounded`, `AbortIsFinal`; with fairness `EveryRunEnds`. |

Why the bounds are enough:

- `action_dispatch`: the hazards need a handler suspended in an executor, a second that replaces or settles
  the record and a third that answers a prompt; three handlers and two submissions give every such mix,
  the bridge's request is any of them, and a restart or a timeout can fall between any two steps. Records
  of other ids do not interact.
- `hunt_scheduler`: two replicas let the worker move; TTL 4 with renewal every unit
  (`max(1, ttl // 3)`) leaves room for a renewal one unit late, as the real 300, 900 and 5400 s do. Hunts
  of one sweep share only its commit, so one hunt and a commit that fails stand for several. The proofs
  have any number of replicas, hunts and errors.
- `alert_claim`: two claims of one user tell "already yours" from "just won"; a third by another user and
  two assignments make every kind of loser.
- `agent_approvals`: the third request sees the row between and after two that contend.
- `oauth_refresh`: three writes are a consent, an edit or re-consent into a sweep, and a disable; two
  faults are a lost answer and a revocation, or an aborted sweep and a failed SELECT of the reload. One
  OAuth connector suffices because connectors share nothing but the sweep, whose end is an action.
- `connector_poll`: the times keep the order of the code's constants (flap window < threshold < cap,
  buffer equal to the interval, as in the defaults of 300 s and 300 s), and 17 slots hold an outage, its
  backfill, and a second outage that falls within the flap window.
- `entity_risk`: limit 2 is reached by three alerts of one key with a duplicate registered twice; one
  error and one expiry can hit any command and any key. The second alert (2 points) and one copy (1)
  reach threshold 3 together, so with both copies past the duplicate check a third alert finds the
  entity promoted already; half of the points may decay between. A record names one alert, so that a
  second pushes out the first; the code's limit is 50. The alert with two entities tells a run that
  charges each its own from one that does not. The two copies are alike in every respect, hence the
  symmetry of their runs. An id of an incident is the run that created it, as a fresh UUID is. There is
  one correlation key: runs of different keys share no incident (`OneKeyPerIncident`, proved).
- `case_sync`: two handlers are a check and the write it rests on with another write in between; the
  third actor is the fan-out of the creation. One ticket per vendor has both maps. A chain of echoes needs
  no input, so two inputs, each with its pushes and their webhooks, are two chains that meet.
- `graph_stream`: with a queue of one and three events the queue overflows, a batch is full with an event
  behind it, and a batch is partly filled at Close; two events of one node have an order, the third is of
  the other tenant.
- `detection_proposals`: comment, evaluation, approval and promotion are the four requests of a whole
  review; every other choice of four is one that races with a part of it.
- `playbook_engine`: three steps have a branch back over one step, a branch on over one, and a loop of
  one; the engine looks at one step at a time.

`CHECK_DEADLOCK FALSE` stands where the model ends because its bounded requests, slots, submissions or
calls are used up, or the process exits; `hunt_scheduler` and `oauth_refresh` never stop and are checked
for deadlock.

## 4. Fairness

- `ActionDispatch`, WF of each handler's step: every outbound call of the executors and of the timeline
  client has a timeout, so a suspended coroutine is resumed. Nothing makes a user answer or an
  administrator approve, and nothing makes the bridge's timeout fire first or last.
- `HuntScheduler`, WF of `Tick`, of each replica's `Progress` and of its `Sweep`: time passes, a live event
  loop runs, a query ends. Errors, shutdowns, crashes and starts are never forced, so `DueHuntsRun` allows
  for every replica being down.
- `AlertClaim`, WF of each request's next statement: PostgreSQL grants a lock that is free. Only enabled
  statements are fair, so a request blocked by a lock waits; it is answered because whoever holds the
  lock commits or is rolled back.
- `OAuthRefresh`, WF of start, SELECT, reload and of the worker's steps: the supervisor restarts the
  container, the reload job has an interval trigger, `run_forever` goes on sweeping, and the HTTP client of
  the exchange has a timeout. Failures are bounded, so one attempt after the last of them succeeds or is
  counted.
- `CaseSync`, WF of `Progress`: every push has a timeout, and vendors deliver their webhooks until they are
  acknowledged. Users of either side are under no obligation.
- `GraphStream`, WF of the flusher, of the consumer and of `main`: the goroutines run. A flush ends by its
  answer or by its timeout. No client is obliged to read.
- `PlaybookEngine`, WF of the engine: a handler returns or raises, since its HTTP client has a timeout.

## 5. Where code and documentation disagree

One disagreement is a run of its own:

1. `graph_stream_panic`: `broadcaster.go` says the broadcaster is "Safe for concurrent use". `dispatch`
   copies its targets under the read lock and sends after it; `Unsubscribe` closes the channel of a client
   that leaves. A send that comes after the close panics and takes the ingest process down.

Further statements of the documentation, or of an assertion, are formalised at the end of the modules,
each under a comment that quotes it. They are kept out of the runs, which ask what the code does
guarantee. Six have a configuration of their own and TLC refutes each:

| Property | Module and configuration | What the counterexample shows |
|---|---|---|
| `OnlyOneReplica` | `SchedulerLock`, `SchedulerLock_only_one.cfg` | an error in a renewal ends the renewal task and leaves the worker; the key runs out and a second replica starts |
| `FlipIs409` | `AgentApprovals`, `AgentApprovals_flip.cfg` | two decisions in flight together both pass the check and both commit |
| `EnabledIsPolled` | `ConnectorJobs`, `ConnectorJobs_polled.cfg` | `next_run_time=None` adds the job paused and nothing resumes it |
| `OutageLeavesNoHole` | `MCConnectorPoll`, `ConnectorPoll_backfill.cfg` | the marker is cleared before the backfill runs; a backfill that fails forgets the outage |
| `DoneLeavesClosed` | `MCCaseSync`, `CaseSync_closed.cfg` | a redelivered "Done" maps to `resolved` and reopens a closed case |
| `EveryRunIsReported` | `MCPlaybookEngine`, `PlaybookEngine_put.cfg` | a PUT with steps stores plain data; the next run raises before its first step and stays "pending" until a restart |

The others are refuted when they replace the properties of the configuration named here:

| Property | Configuration | What the counterexample shows |
|---|---|---|
| `SingleUse` | `ActionDispatch.cfg` | two overlapping clicks both reach the timeline |
| `AnswerKept` | `ActionDispatch.cfg` | the submission that sent a prompt returns late and erases the answer |
| `DeliveredPromptRuns` | `ActionDispatch.cfg` | a transport error of the timeline fails a prompt that was delivered |
| `RejectsOnlyPending` | `ActionDispatch.cfg` | a completed action is rejected |
| `ApprovedRunsLive` | `ActionDispatch.cfg` | the approved run has no credentials and is simulated |
| `PicksUpWhereLeftOff` | `ConnectorPoll.cfg`, `Buffer = 4`, `Faults = {"stop"}` | events between the last poll and a restart are never asked for |
| `BufferClosesGap` | `ConnectorPoll.cfg`, `Faults = {}` | a buffer of one interval does not cover an interval and the delays of two polls |
| `DuplicatesAreSuppressed` | `EntityRisk.cfg` | two copies pass between GET and SET |
| `CorrelatedIsAdded` | `EntityRisk.cfg` | concurrent merges lose an alert that was answered as correlated |
| `SuppressedHasOriginal` | `EntityRisk.cfg` | an error after registration loses the original and suppresses its copies |
| `AlertsAreCounted` | `EntityRisk.cfg` | two runs load the record of an entity; the second save drops what the first added |
| `PromotedOnce` | `EntityRisk.cfg` | two runs load an unpromoted record, both cross the threshold and both promote |
| `PatchesFollowTransitions` | `CaseSync.cfg` | a webhook or another PATCH changes the status between the check and the UPDATE, which then skips or reverses a stage |

Met while translating, and visible in the modules without a property of their own:

- At tier L3 the maturity gate lets types run that `APPROVAL_REQUIRED_ACTIONS` lists
  (`maturity.py:143`, `action.py:98`); up to L2 the two gates agree, which is proved. The bridge drops a
  proposal's `requires_approval` (`actions_client.py:54`) and maps it to a type that may run at once.
- The callback writes "completed" into whatever record its id has. When the id of a prompt is resubmitted
  with a gated type, the answer to the prompt takes that submission out of the waiting ones, and nobody can
  approve it any more. Nothing is started, so `OneDecision` holds: this is a `Forget` of `ApprovalGate`.
  Nor does the callback spare a rejected record: an answer to an earlier prompt of the id replaces a veto
  by "completed", the one exception `VetoStands` makes.
- A dispatch summary counts an action that ended "failed", or is still "running", nowhere: `Counted`
  makes it "other".
- A re-consent does not reset `oauth_refresh_failures`; the worker writes back the health status it read,
  which its comment (`oauth_refresh.py:390`) says it leaves alone; an empty `auth_config` is skipped
  although the docstring of `_select_due_connectors` calls it due; a consent or edit that falls into a
  sweep is overwritten. This is what `spoiled` excuses.
- A PATCH to the same status overwrites `resolved_at` and may reopen a case closed meanwhile; the
  connectors compare no `external_status` although `inbox_itsm.py:477` says so; a new case becomes
  "triaged" by the webhook of its own ticket, unless the link is not committed yet.
- Scheduled hunts write to the table `cases`, the case endpoints to `aisoc_cases`, so `HuntScheduler` and
  `CaseSync` do not meet.
- Two overlapping promotions create two rules, and a late commit may leave a promoted proposal "rejected"
  or with a failed evaluation; hence `UncontestedIsExact` asks for requests that do not overlap. Two
  overlapping audit writes fork the chain and `verify_chain` then rejects an honest log.
- A run that fails between the save of a crossing record and its promotion leaves an entity over the
  threshold that is on no list until a later alert finds it there; one that fails before the list leaves
  it marked as promoted, and it is never listed while its record lives.
- Steps of type `approval` have no handler, so the engine marks them a success and goes on, although
  `models.py` describes them as requiring approval. `on_failure = "retry"` is treated as "continue".
- After a `Shutdown` that times out, `main.go` ends with `log.Fatal`, which skips the deferred `Close`: the
  writer's queue and batch are lost (`fatal` in `GraphStream`; `AcceptedIsAccounted` speaks of `exited`).
- The offline approval queue of the web application (`pwa.ts`) is replayed by nobody.

## 6. The proofs

TLC checks the instances above; TLAPS proves the following for every value of the constants that meets the
named assumptions. In each module the theorem `TypeCorrect` is the type invariant, and theorems named
`...TypeCorrect` those of a module that extends it or of the second specification of the proof module.

**`ActionGateProofs`** (`TypesAssumption`, `BoundsAssumption`, `NoRecordAssumption`, `NoChoiceAssumption`;
for the bridge also `CallsAssumption`, `OtherTypesAssumption`, `NoPostAssumption`). `AtMostOneRun`,
`HumanGate` and `VetoIsFinal` prove `RunsAtMostOnce`, `GatedOnlyByApproval` and `RejectedNeverRuns`. None is
inductive: an approval needs to know that the record it approves has not been run. `GateInv` adds that
records and histories name submissions that exist, and `AwaitingUntouched`: a record that waits is of a
gated type, was not vetoed and never ran. Late writers keep it because a writer never restores the waiting
status. `ApprovedHasHandler` and `CompletedWasBegun` prove `ApprovedIsInFlight` and `CompletedMeansRun` from
a second invariant, `TableInv`, which adds that whatever a suspended handler works on was started; a
handler's last write then moves its own record, and no other, out of `approved`. `VetoesStand`
proves `VetoStands` from both: a handler that still writes has a record of its own in hand, which is not the
vetoed one, and an approval finds no vetoed record waiting. `RouterKeepsPromise` proves the refinement
`OneDecision`, one lemma per kind of step: a submission, an approval and a rejection are those of
`ApprovalGate` (or a forgetting), and every other step is `Quiet`, that is, it submits, starts and vetoes
nothing and makes no record wait. It uses `GateInv` to know that no two records stand for one submission.
`RouterBesideBridge` shows that every behaviour of the composition is one of the router. `SummaryIsHonest`
proves `ReportIsHonest`: `SummaryInv` says that the submission in flight was started and that what a report
calls awaiting was held, and a submission that the gate held can never be started by its submission.
`GatesAgreeUpToL2`, `HigherTierKeepsAutomation` and `EveryProposalExecutes` settle the policy tables for
every input.

**`SchedulerLockProofs`** (`LeaseAssumption`, in particular `RenewEvery + MaxLag < Ttl`; `HuntBounds`).
`RenewedLeaseIsHeld`, `MutualExclusion`, `HealthyExclusion`, `ReleaseIsOwn` prove `LeaseKept`,
`OneRenewedWorker`, `ExclusiveWhenHealthy`, `NoForeignRelease`. The key is `KeyOutlivesTimer`: while a
renewal is alive, what is left of the key is `Ttl - RenewEvery` plus its timer, hence positive as long as
the timer is at most `MaxLag` late. `RenewedUnlessFaulty` says a worker without a renewal task means an
error has happened. `LockBesideHunts` carries this over to the hunts, and `AtMostOneCase` proves
`OneCasePerPeriod` from `OneByOne`: before the first error there is one worker, so what an open sweep found
due is due still, and every interval with a case was stamped in the transaction that added it.

**`ApiProofs`** (`ClaimAssumption`). `NoLeakedLock`, `NeverBothWin` and the refinement `ClaimIsAtomic`.
`ClaimInv` relates the statements to the row: who holds the lock and what it may write (`HeldRow`), what a
loser's reread may find (`LostRow`, `RereadIsClaim`). Each statement is then a step of `AlertOwnership` or a
stutter; the initial states map to its initial state. `NeverBothWin` also uses that a winner's row changes
only by an assignment.

The same module (`NullAssumption`, `FaultsAssumption`) proves the review of proposals and its log, for any
number of requests: `PublishedIsReviewed`, `AloneIsExact` and `AloneLogVerifies` prove `RulesAreReviewed`,
`UncontestedIsExact` and `SequentialLogVerifies`. The first has to reach back: the row a promotion loaded
may have been overwritten since, so `ReviewInv` says of every loaded row, and not only of the stored one,
that "approved" has an approval behind it. The second rests on `AloneInv`: while no two requests have
overlapped, what a handler has loaded is what is stored, and the base rule has been bumped exactly by the
promotions there are. For the log, `DatedInv` puts the clock ahead of every row and `ChainInv` the row in
hand ahead of the clock, hence the hash it continues is that of the last row; the lemmas about `LatestHash`
show that a row appended after it keeps the chain linear.

**`AgentProofs`** (`ApprovalAssumption`). `SingleDecisionAgrees`, `NoUnjustifiedRefusal`,
`DecisionBecomesFinal`. `Agrees` follows a lone decision through the sessions: what those who loaded before
it have seen, what the refreshed session tells, and that nothing was told before.

The same module (`PlaybooksAssumption`, `BoundsAssumption`) proves `CallsAreBounded` and `AbortIsFinal`
(`RetriesBoundCalls`, `AbortEndsRun`) for every playbook of any length, with any branches. What keeps a
branch back from multiplying calls is that the engine visits a step once: `UnvisitedUntouched` says that a
step the run has not come to has no call and no result, and `FirstTry` that the step being tried was entered
for the first time and has had one call for each earlier attempt.

**`CaseSyncProofs`** (`TicketAssumption`, `BoundsAssumption`, `NoneAssumption`). `StagesHoldWithoutRace`
and `TicketsAreTrue` prove `SkipsNeedARace` and `TicketsShowHeldStatus`. `SyncInv` needs `HandlersHold`: the
status a PATCH wants is allowed by the status the case has now unless the PATCH was overtaken, which makes
`overtaken` exactly the PATCHes whose check is stale; and a status that is being pushed is one the case had,
which is why a late push is late and not wrong.

**`IntakeProofs`** (`TimeAssumption`, `FaultAssumption`). `BackfillsKeepTheirDistance` holds under every
fault, because the row cannot change under a poll (`SnapInv`). `FaultFreeGapsAreBounded` proves that a
history without faults leaves no hole wider than `Gap`, for every interval, buffer and poll time: with a
buffer of one interval, as shipped, the time of two polls. `WideBufferLosesNothing` follows for a buffer of
an interval and two polls. Of the timing only `Cadenced` is assumed: flap window within the threshold, a
poll shorter than the interval. `CleanInv` has the argument: a poll ends before its job is due again
(`OnTime`), a marker is at most an interval and a poll away from the last success (`Cadence`), a slot
that is still owed is at most `Gap` older than the start of the lookback (`Owed`), and a backfill on
record is older than the outage on record, so it never suppresses the next.

The same module proves the graph path (`TenantAssumption`, `SizeAssumption`, `NoneAssumption`), for any
number of events, handlers and clients and any sizes of queue, batch and buffers. `NothingLeftBehind` is
`AcceptedIsAccounted`: `AccountInv` says that an accepted event is written, counted as failed, in the batch
or in the queue, and `ClosingInv` that the batch and the queue are empty when `Close` returns, because no
handler is left to write to the queue when the drain begins. `LiveTailInOrder` is `LiveTail`. Its key is
`OrderInv`: the stages queue, batch, topic, envelope in dispatch, buffer and connection are one stream, in
which an event may stand before another of its entity only if it was accepted first (`Orderly`). It has to
be said of every pair of stages, since a batch, a topic or a buffer from which events are dropped is still
in order, while a stage that overtook another would not be. Three lemmas say what Append, Tail and RemoveAt
leave of an ordered sequence.

**`ConnectorJobsProofs`** (`BoundsAssumption`, `OAuthAssumption`). `CacheIsExact` proves `CacheMatchesJobs`,
which is inductive: a reload changes the cache entry and the job of a connector together, and a stop takes
both the cache and the memory jobstore; `CacheIsExactBesideOAuth` that consents do not disturb it.
`GrantIsKept` proves `TokenKept` for any number of connectors, tokens, sweeps and faults: the invariant
behind it says of each connector in hand that the sweep's copy is still the row's token, unless it is
spoiled, so the exchange spends and replaces the token that is stored.

**`FusionPipelineProofs`** (`RunAssumption`, `BoundsAssumption`, `NoneAssumption`, `RiskAssumption`).
`IncidentsStayBounded`, `KeysStayApart`, `FoundersStay` for every interleaving, error and expiry.
`IncidentInv`: an index entry names an incident of its key, a run about to merge has loaded a copy below the
limit that holds the founder, and incidents on record have all three properties. Saves overwrite each other,
and each save is still one of these.

`SuppressedForCause` and `SequentialIsExact` prove `SuppressionIsJustified` and `SequentialRunsAreExact`.
For the first, `CauseInv` keeps a witness behind every registered fingerprint: a run that was fused, or one
that is on its way and can only be stopped by an error. The second needs to know what a lone run has in
hand. `AloneInv` says that it is the only one in progress, that the copy it merges into is what is stored,
and that every fingerprint has one run that got through; `FreshInv` that an incident is never pointed to
before its run has made it, so that a merge cannot fall behind the save that creates it.

`BoundedBesideRisk` and `ExactBesideRisk` carry both over to the composition with entity risk: a step
of the risk tracker leaves the pipeline alone, and its errors and expiries are counted like the others.
`RiskStaysJustified` proves `RiskIsJustified` for every interleaving. A load adds the run to `Charging` of
its entity, where it was not before because an alert names an entity once (`LoadCharges`), and nothing else
changes `Charging`; the new record counts one run and its points more than the record it was made of
(`AppliedFacts`, `PointsAdd`). `HeldJustified` says the same of the record a run has in hand, so that a save
which overwrites a newer record still stores a justified one: `Charging` only grows (`RecordsFrame`,
`HeldFrame`). `UncontestedRiskExact` proves `UncontestedRiskIsExact`: `Calm` says of an entity outside
`spoilt` that one run at most has it in hand, that between two runs its record counts every run charged and
its flag and the list agree, and what the run at work holds is what they will be. `PlaceInv` ties this to
the pipeline: a run is fused only after it has come to the end of its signals.

Every invariant and action property of the passing runs is the statement of a theorem; the strengthened
invariants of the playbook engine, the proposals, the graph stream and the fusion pipeline were also
checked by TLC on the instances of section 3. Only model-checked:

- liveness under fairness and ENABLED, which the prover does not reach: `AutoApprovedSettles`,
  `DueHuntsRun`, `EveryRequestAnswered`, `JobsConverge`, `DueIsSettled`, `SyncSettles`, `ShutdownEnds`,
  `EveryRunEnds`;
- the violations, which are counterexamples: `NoPanic` and the statements of section 5.

## 7. Not modelled

The map names about five thousand lines. The repository has some 139 thousand, and most of them keep no
state whose order matters:

- About a dozen scripts that seed, generate or evaluate (`seed_demo.py`, `generate_*.py`, `run_evals.py`):
  straight-line batch programs, run by hand.
- Some two hundred endpoints that read, filter, report, or write one row in one statement: PostgreSQL is
  their correctness, and a model would restate the statement.
- Vendor clients and executors: one HTTP call each. Their common shape (simulate without credentials,
  otherwise call and return or fail) is in `ActionGate` once.
- Language-model calls, prompt assembly, scoring, narrative and report text: functions without a
  specification to hold them to.
- User interface and SDKs, feeds, simulation, digital twin.

Within the modelled components:

- `evaluate_gate` is modelled but not composed with `ActionGate`: nothing calls it.
- The cryptography of signed links, webhooks and tokens: a link is valid, expired or absent; a webhook is
  that of its vendor; a hash identifies its row.
- Fields that no decision reads: of an alert other than its owner, of an incident other than its count and
  alerts, of a connector other than marks, signature and credentials, of a case other than its status, the
  breadcrumb comments of the synchronisation, the histograms of a risk record.
- The extraction of nodes and edges and the Cypher of the graph writer; an envelope without a tenant, which
  the broadcaster would pass to everyone and the writer does not produce.
- The evaluation harness behind a verdict on a detection proposal.
- The condition language and the trigger matching of playbooks.

Components with a protocol that are not modelled yet are in the plan.

## 8. Plan

Done: all modules of section 2, with the proofs above. Next, the most important first:

1. `DistributedQuery` (osquery-tls `distributed_queue.py`): a query is handed to a node until its result
   arrives; results of re-delivered and of forgotten queries.
2. The run ledger (agents `investigator/ledger.py`): order of events and status of a run when a write is
   lost; composed with `PlaybookEngine` through the status both report.
3. The agents' own hunt dispatcher (`hunt/scheduler.py`) beside `HuntScheduler`.
4. The snapshot cache of ingest (`config_snapshot/cache.go`): two tiers, expiry, concurrent misses.
5. Proofs: what remains are abstract specifications. `SchedulerLock` as an implementation of a lease
   that one worker holds, while no error occurs; `GraphStream` as one of an ordered log per entity with
   losses; `ConnectorJobs` as one of a scheduler that follows its table. Each states in one formula what
   several theorems above say apart, as `OneDecision` does for the router.

The runs of a component stay few: its guarantees in one run, composed with the component it works with,
and a violated statement only where it says something the guarantees do not.

## 9. Running

    tlc -workers 2 -config ActionDispatch.cfg MCActionDispatch
    tlapm ActionGateProofs.tla

and likewise for the other pairs in `PROJECT.json`.
