# Verification of the control core

This directory holds TLA+ models of the control core of AscendOp (the packages
under `src/packages/`), the TLC runs that check them on small instances, and
proofs for every instance that TLAPS checks. It is meant for a reader who has
the repository at hand; paths below are relative to `src/packages/` and
*repository.py* is
`ascendop_control/src/ascendop_control/storage/repository.py`.

## The system

A resident daemon turns a board of operator tasks into *Agent actions*
(author a candidate, test a candidate), publishes which action is the head of
each (operator, role) slot, and arbitrates retries. Runner processes and IDE
adapters claim actions under a lease, drive an Agent turn, and report a
completion. Standalone hosts may take a workspace over from the daemon and
drive the same loop. All of them meet in one SQLite database in WAL mode;
every repository method is one `BEGIN IMMEDIATE` transaction. Work that must
happen outside the database (publications, test requests, terminals) is
enqueued by the transaction that owes it in an *outbox* and delivered by
workers whose handlers are idempotent. A Test Gateway with a journal of its own
executes test requests.

| component | state | operations | what makes it correct | module |
|---|---|---|---|---|
| Agent action life cycle (repository.py) | action, iteration, attempts, lease, receipt, gate heads | create, synchronize heads, cancel, claim, adopt, start, heartbeat, complete, defer, retry decision, two recoveries | four copies of one state agree; one worker per slot; old tokens fenced; completions final; retry budget | `AgentActions` |
| Control outbox (outbox_repository.py, delivery.py, delivery_runtime.py) | outbox rows; claims in the memory of workers | enqueue, claim, renew, finish, defer | at least once: nothing lost, delivered rows final, stale workers fenced | `ControlOutbox` |
| Workspace owners and the file-first loop (workspace_repository.py, native_commit, formal_continuation, managed_completion_commit, external_completion_core, gp_terminal_ingest) | owner revision, journal of facts, terminal rows, published view | admit by compare-and-swap, start, terminal, completion, handover, projection | one chain of owners; a terminal is bound to its own successor; the view never goes back | `WorkspaceLoop` |
| Test Gateway (ascendop_test_gateway) | journal, operation lock | submit, status, cancel, resume, acknowledge | a lost answer is reconciled, never repeated blindly; a result is retained | `GatewayRun` |
| Test requests, dispatch and results (ascendop_daemon/storage/repositories, control_plane) | requests, preparations, attempts, outbox, returns, recoveries | prepare, claim, publish, query, collect, acknowledge, decide, recover | capacity; no stale answer; no blind repetition; nothing released before it is stored | `TestTransport` |
| Evidence operations (repository.py 2673-3076, intake, result router) | request rows, result rows, projections | register, claim, route, defer, complete, collect, ingest | sent to one place, settled once, by the return of its own test | `EvidenceOperations` |
| Process locks (ascendop_daemon/runtime/locking.py) | lock file, tickets | register, judge, open, release | one holder; nobody passes a waiter of an earlier clock reading | `ProcessLock` |
| Resident service (resident_service.py, resident_supervisor.py, DaemonLock, the stop fence) | record of the supervisor, daemon lock, stop fence, heartbeat row, active release; processes | start, stop, restart; supervise, restart and end the daemon; take the lock, tick, drain | one daemon on a root; no second supervisor but by a lost record or a denied look, no daemon without one | `ResidentService` |
| Delivery pass (delivery_runtime.reconcile_delivery) | none; topic order | ingest terminals, then claim by topic, under pause and stop | a landed terminal is seen before the next test request | partly |
| Agent registry and selection | registrations, bindings, pool cursors | register, heartbeat, quarantine, bind, select | only healthy, compatible, bound Agents are selected | no |
| Agent runner (ascendop_agent_runner) | adapter state files | adopt, claim, drive, report | no action starves behind an unresolved session | its calls only |
| Transport exchange, workflow engine, registry, observability, installers | files and tables | I/O and evaluation | see PROJECT.json | no |

The hard behaviours are: calls of several processes in any order, each with a
token or a snapshot from an earlier moment; leases that expire while their
holder still works; verdicts reached on a snapshot and applied later; clock
readings from before the wait for the write lock; crashes between a side effect
and its record. `PROJECT.json` lists each hazard at its line.

## Modules

| module | models | extends or uses |
|---|---|---|
| `SlotLease` | the promise about Agent work: a slot is held for one action, only a holder is completed, a completed action never holds again | |
| `AgentActions` | the life of Agent actions in repository.py, with the callers' memory | INSTANCE `SlotLease` |
| `AtLeastOnce` | the promise of the outbox | |
| `ControlOutbox` | the outbox and its delivery workers | INSTANCE `AtLeastOnce` |
| `RunOutcome` | the promise of a Gateway run to its caller | |
| `GatewayRun` | one run: its journal, the operation under the lock, the acknowledgement worker, the watchdog | INSTANCE `RunOutcome` |
| `TestTransport` | test requests on one endpoint: daemon tables, the two lanes of a pass, the retry controller, the endpoint | |
| `WorkspaceLoop` | the loop owner, start, terminal, completion, handover over the deliveries of the outbox | |
| `LockPromise` | the promise of a lock to those that work under it | |
| `ProcessLock` | the lock file, its tickets and its contenders | INSTANCE `LockPromise` |
| `EvidencePromise` | the promise about an evidence operation | |
| `EvidenceOperations` | evidence operations, their workers and the returns of their tests | INSTANCE `EvidencePromise` |
| `ResidentService` | start, stop and restart of the resident service, its supervisors and daemons | INSTANCE `LockPromise` |
| `MCAgentActions`, `MCControlOutbox`, `MCWorkspaceLoop`, `MCEvidenceOperations` | small instances, where a configuration file alone cannot give the constants | the module they are named after |
| `*_proofs` (eight) | theorems | the module they are named after, TLAPS |

### AgentActions

`action`, `iteration`, `attempt` (with `ordinal`, the current one), `lease` and
`receipt` are the five tables an action lives in; `heads` is the scheduler state
`agent-gate-heads-v4`; `owned` the workspaces with a standalone owner; `intents`
the `agent.completion` rows a completion enqueues. `granted` is the memory of
the callers: the token handed out with each attempt may be presented at any
later time, so every late, repeated or reordered call of a runner is a step of
the model. `decisions` holds the verdicts `RetryController` reached on its
snapshot and has not applied yet; the daemon may die between any two
(`DaemonCrash`).

Each repository method is one action, with all it writes. The two partial
unique indexes of the schema are `Commit`: a step that would break one does not
happen (the transaction rolls back). `Claim`, `AdoptUncertain` and
`ClaimNothing` begin with the expiry of all due leases
(`_expire_agent_leases`). A lease is a countdown (`ttl`); `Age` lets any active
lease age on its own, which allows every order in which leases of different
length and renewals can become due. Fencing tokens are random strings in the
code; here they count up, which is all that a comparison for equality can tell.
Failure classes are abstracted to those the repository tells apart. `reopened`
counts the attempts granted beyond the budget (by a changed runner contract or
by a receipt reconciliation); it is history, read by no guard but the bounds.

Abstracted: which Agent is selected, payloads, receipts beyond status and
class, the operator scope of heads beyond a set of slots, pinning.

### ControlOutbox

`row` is `control_outbox_v5`; `worker` is what each delivery thread holds
between two transactions: the claim, and the age of the clock reading that its
pending transaction will use. `claim`, `finish` and `defer` read the clock
before `BEGIN IMMEDIATE`, `renew` after it; the connection gives up after the
busy timeout (30 s), so a reading is at most `MaxWait` old. Times are relative
to the present (`wait` until available, `left` until the lease expires) and
floored at `-MaxWait`, below which no reading can tell them apart. `Claim` takes
the row that has been available for longest (`ORDER BY available_at`). `Fence`,
`Beat` and `LoseClaim` are `_keep_request_claim`, for the intents in `Kept`;
`Finish` and `Defer` that are refused follow the `except` path of
`deliver_claim`, with its second deferral (`GivingUp`). `effects` records which
claim performed the side effect.

What goes wrong is counted by `faults`: an exception, pause or pending answer of
a handler, a busy timeout, a crash, and a lease that lapses while its worker
still works. Everything else, the stale readings included, is not a fault.

### GatewayRun

`journal` is `JOURNAL.json` with the files that are written together with it
(receipt, cancellation intent, terminal evidence, ACK intent). `op` is the call
that holds the operation lock: submit, status, cancel and resume hold it from
first read to last write, so there is one. `acker` is the call that holds the
acknowledgement lock, `waiter` what the watchdog read without any lock. Every
write of the journal is atomic, and a process may die between any two, and
between a call of the transport and its record. `remote` is the endpoint, which
is external: it admits a request identity once, may lose an answer, may work on
after it was asked to stop. `Allowed` is `ALLOWED_TRANSITIONS` as it stands.
Left out: the import of legacy terminals, the `prior_ack` branch, the transport
in memory.

### TestTransport

One endpoint, any number of requests. `rows` are the request, its attempt and
its outbox row, written together in most transactions; `prep` and `builders`
the package preparation and who is building it; `claim` and `query` what the
running pass has reserved; `returns` and `recovery` by terminal revision. A
*pass* of the dispatcher has an ingress lane (publish), a poll lane (query) that
runs beside it, and acknowledgements and recoveries with both closed (`back`).
The retry controller, the intakes and the builders are not synchronised with the
pass. Each database call is one action; the daemon may die between any two
(`Crash`). The endpoint and the channel (`remote`) may take a message and lose
the answer, answer late, or know nothing.
Left out: `route_test_request`, which nothing calls; the legacy branch
`reconcile_uncertain_postprocess_recoveries`; legacy candidates; draining
endpoints; the branch superseded-by-acceptance; batches beyond one after the
other; the order among claims.

### WorkspaceLoop

`owner` is the row of `workspace_owners_v5`, `journal` the outbox rows that are
facts of one workspace in their order, `done` the delivered ones, `projected`
those whose projection intent is delivered, `successor` the column of
`gp_terminal_ingest`, `view` the published file. Workers deliver rows; a claim
is lost by a death or by a lapse while its worker goes on, so that two handle
one row. A terminal is handed over in two transactions, admission of the
successor (`Offer`) and its binding (`Bind`), and the handler may die between
them. Publishing the view is a read, a claim of the lock and a replacement.
External: the handler of `official.terminal` and the request start, which are
outside `src/` or abstract ports; the handler of `test.terminal` is
`src/scripts/demo_unified_core.py:119-127`. Left out: the campaign and operator
checks, the drain check (`AgentActions`), `test.ack` rows, facts that no
property reads, the limit of five facts per kind in a snapshot.

### ProcessLock

`file` is what lies at the path of the lock, `ticket` each waiter's file, `at`
where a contender is in `acquire` or `release`. A stale lock is judged by
three reads (`ReadMarker`, `ReadPid`, `ReadOwner`, then `ReadAge`) and removed
later (`Unlink`); all contenders judge all tickets (`Tidy`) and remove them
later (`doomed`, `Sweep`). A contender may die anywhere, a probe of the lock's
owner or of a waiter may be denied (`ProbeDenied`, `TidyDenied`), the first line
may fail to be written, a waiter may stall past the expiry of its ticket.
`OpenPins` is the platform: whether an open file can be removed. A contender is
one life of a process, as the start token in the file makes it; threads of one
process count as separate contenders.

A ticket is named by the monotonic clock, then by pid and object, and tickets
are sorted by name. That clock is coarse on Windows before Python 3.13 (some
16 ms), so that several tickets may bear one reading. `named` holds those that
bear the reading of now, until the clock goes on (`Tick`); a new ticket
(`Register`) sorts behind every ticket of an earlier reading, and among those of
`named` anywhere, as its pid decides (`behind`, in keeping with the order there
is, `InOrder`). A contender has one object per lock at a time, so the sequence
number (231) never decides. The reading of the clock and the creation of the
file are one step: who is delayed in between began before the tickets that it
sorts ahead of, and `later` does not count it.

### EvidenceOperations

`row` and `result` are the two tables (repository.py 2673-3076), `order` the
order of creation. A process has two threads, the *tick* (reconciliation of
projections, then the intake) and the *dispatcher* (returns); `thread` holds
what each has in memory between two transactions: the claimed operation with
the number of its claim, or the return it is ingesting. Of the test request the
model keeps its `stage` from publication to acknowledgement; the transport is
`TestTransport`'s. `ready` and `ingested` are the projection directories and
their `WORKFLOW_INGEST.json` markers. Operations differ in what tells them
apart here: a profile collection carries its claim number in its request, so
that each claim makes a request of its own; tests and replays make one; checks
and local operations run in the tick. `Lapse` lets a claim run out at any time,
also while its worker goes on. `missed` is history: returns that were ingested
while no operation was routed to them.
Left out: the state `running`, which nothing writes; the check of the origin's
identity; the order among local executors; that `max_attempts` differs between
codes; attempts that end without a return; recoveries that are accepted;
`backfill_acknowledged_unprojected`; the stop request.

### ResidentService

The files are `record` (`v4-resident-service.json`), `lock` (`daemon.lock`),
`fence` (`daemon_stop.json`), `active` (the generation of
`active-release.json`) and `service`, the heartbeat row of the daemon as long as
it counts as live. `call` is a process in `start_service`, `stop_service` or
`restart_service`, under the lifecycle lock (`holder`); `sup` a supervisor in
`run_supervisor`; `dmn` a daemon, of the same name as the supervisor that spawns
it, or one that is started by hand under `daemon_run_lock`. A supervisor and a
daemon read the fence once per round and act on what they `saw`. The daemon lock
is judged read by read, by daemons (`JudgeOwner`) and by a start (`JudgeLock`),
and removed later, whatever lies there by then. `Windows` is the platform: an
open file cannot be removed, and a forced stop ends the whole tree of processes;
elsewhere it is a signal, then the end of the supervisor alone.

Whether a recorded process lives is asked with `process_identity_matches`, which
on Windows also says no of a living process that the asker may not open (the
scheduled task runs the resident as SYSTEM). A start that is denied the look at
a living supervisor passes it over (`ProbeDenied`) and, if the daemon lock lets
it, spawns and records another one. Every other place that asks may be denied as
well: the wait of a stop ends early (`Stopped`), a forced stop leaves the
supervisor draining, as it does when `taskkill` fails (`StillDraining`), the
health wait ends with an error (`Started`), the living owner of the daemon lock
is judged dead (`OwnerSays`), after which the unlink of its open file is refused.
All these are free choices on Windows; only the denied look of a start counts as
an `Event`.

A pid is compared with its start token everywhere, so a file that names a dead
process names nobody (`WithoutOwner`, `SupervisorEnds`), and an identity may be
used again. `orphan` and `lost` are history: a daemon whose supervisor was
killed, a supervisor that no file names because its start died before it wrote
the record, or that a start passed over. Of the guards only `Healthy` reads one:
a lost supervisor lists its children in the same file, so that its daemon may
count as that of the recorded one. What comes from outside
is an `Event`, of a kind in `Events` and at most `MaxEvents` often: a death, a
write that fails, a look that is denied, a failing child, a tick that raises
(`TickFails`, after which `run` leaves through its finally clause, fenced or
not), a manager command, a new release. The lifecycle lock is a
`NamedProcessLock`, taken at its word: `LockPromise`, which the lock file keeps
where an open file cannot be removed (`PromiseCorrect`) and which is all that
this module uses of it (`LifecycleCorrect`). Elsewhere the word is an
assumption. The other children (control API, Agent runner, official evaluation)
appear as one that fails. The entry point of a release (`daemon.py`) is not in
the repository; that it runs the daemon inside `daemon_run_lock` is what the
environment of the child (resident_service.py:241) and the status of the lock
are made for. Left out: the legacy record files, a start token that is not
available in time, the watchdog and the scheduled task it keeps.

## Runs

| run | question | bounds | distinct states |
|---|---|---|---|
| `restaging` | two actions that restage one candidate of one slot, every caller in any order: agreement, reservation, fencing, sealed outcomes, budget | 2 attempts each, lease ages once, budget 1, 1 reopened | 395,871 |
| `outbox` | safety of the outbox, and delivery of every intent | 2 intents, one kept; 2 workers, one restricted to a topic; lease 2, busy timeout 1, 3 faults | 443,687 |
| `gateway` | one run over lost answers and deaths, its promise, retention and acknowledgement | 3 faults, 2 retries | 112,220 |
| `transport` | two requests compete for one place | capacity 1, append, 1 retry, 1 preparation, 1 generation, 2 faults | 411,192 |
| `transport_settles` | every request settles | 1 request, 1 retry, 2 preparations, 2 generations, 4 faults | 29,022 |
| `workspace` | the loop over two terminals and an official event | 1 first action and 2 rivals, 2 workers, 3 rows before an outside report, 1 fault | 984,995 |
| `lock` | exclusion and order of the lock; a waiter is served | 2 contenders, with and without patience, 3 mishaps; a clock that may stand still | 182,128 |
| `evidence_workers` | two processes on one operation | a profile collection, 2 claims, no fault beyond lapses | 589,396 |
| `evidence_arrives` | no return is given up unsettled; every operation leaves the queue and gets its result | a test and a local operation, 3 claims, 1 fault | 95,101 |
| `resident` | one daemon, no strays, over starts, stops and restarts | 2 supervisors, 1 daemon by hand, 1 caller, Windows, 1 restart, 1 event of any kind | 893,470 |
| `expiry_blocked`, `evidence_completed` | the findings below | | stop at the violation |

Why the bounds suffice for what is asked. The interplay of rows needs two
actions at most: the indexes and guards compare one action with one rival. Two
attempts per action give every pair of an old and a new token, the budget, its
exhaustion and one reopening. For the outbox, the second worker takes over from
the first and a second intent gives the choice of the oldest row; a lease of 2
against a wait of 1 is the smallest that can expire under a stale reading and
still be longer than the busy timeout; three faults are a crash, a lapse and a
refusal in any order. A Gateway run is one journal, and its calls are in series
under the lock: three faults lose a publication, its retry and the answer to the
query after it. On an endpoint requests meet in the capacity, in the fence of
the channel and in the lanes of a pass, each a matter of two; what happens to
one request alone is checked with more faults, generations and preparations. In
the loop a handover has two rivals, and an outside report and a replay need the
third row. A lock needs a holder and a judge, and the holder that comes again
takes the path in between; the mishaps leave a dead lock, a dead ticket and a
stalled waiter to the one that remains. An evidence operation is claimed by at
most two workers that hold each other up: the late one and the one that took
over. On a root three processes may want the daemon lock: the child of a
recorded supervisor, that of a lost one and a daemon by hand; one event, a death,
a failed write or a denied look, is what brings the second of them about.

Two deeper instances take too long to be repeated each time and belong to no run:
`AgentActionsRetry.cfg` (with `MCAgentActions`) takes one action through four
attempts with two turn identities, which gives a collision of turns, and
`ResidentServiceSettles.cfg` (with `ResidentService`) checks under fairness that
a fence that stays ends every daemon and every supervisor (`StopSettles`) and
that the supervisor of an old release ends (`OldGenerationRetires`), with a
release and the death of a supervisor. Both pass.

Deadlock is checked where the system goes on for ever: for the outbox, the
Gateway (a caller may always ask for the status) and, by the passes of the
tick, the evidence operations. Elsewhere the
bounded system stops when all is delivered, all actions are over or all
contenders have died.

Fairness. *Outbox*: weak fairness of each worker's own next step and of the
clock; the resident loop calls `reconcile_delivery` on every tick and wake-up,
handlers return or raise, and a transaction runs or times out. *Gateway*: the
client goes on asking (`Calls`), a call goes on, the acknowledgement worker and
the endpoint take their steps. *Transport*: each step of a pass, of the retry
controller and of the endpoint; strong for what needs the pass to be in a
certain phase (claims, queries, projections, acknowledgements), because passes
repeat and go over all the rows each time. *Lock*: each contender goes on, time
passes, the clock reads something else in the end, a waiter past its expiry
times out, and a release that is denied ends with the marker. *Evidence*: the
intake is served in every tick and a held operation goes on, a thread that
ingests goes on, the dispatcher serves every return again and again (strong,
since it serves one at a time), returns arrive, recoveries are decided, claims
run out. *Resident service* (in `ResidentServiceSettles.cfg`): calls,
supervisors and daemons take their steps, and a daemon that looks at its work
again and again behind a fence finds it drained at one of its looks, since it
admits nothing new. No fault, no heartbeat, no retry by an operator and no new
work is ever assumed to happen. What is claimed under fairness is claimed once
faults have stopped: the bounds on faults say exactly that.

Every property has a mutant of the code, named in `PROJECT.json`, that breaks
it: a kept token, an expiry that forgets the attempt, a
verdict applied without the recheck, an empty expiry compared as a time, a
route that is not compared, and so on. They are defined next to what they
change.

The `TypeOK` of every component is proved (`TypeCorrect`) and no run repeats it.
So are `OneWorkerPerSlot`, `DeliveredIsFinal`,
`TerminalIsFinal`, `Awaited`, `MutualExclusion` and `LifecycleUsed`, which no run
repeats: the first two and `MutualExclusion` follow from the refinements that
`restaging`, `outbox` and `lock` check.

## Findings

Two runs end in a counterexample, against what the repository states.

1. `ExpiryCanCommit`. A retry that is queued again keeps its lease active
   (repository.py:1738-1742). When the gate drops it as an obsolete restaging,
   only `retry-pending` actions get their lease released (1950-1962). A new
   action may reserve the same candidate; once the old lease is due,
   `_expire_agent_leases` moves the cancelled iteration to `uncertain`
   (2588-2592), the unique index refuses, and the claim that triggered the expiry
   fails with `IntegrityError`, as does every later one, for all operators.
   README.md:49-50 says that operator workspaces progress independently.
2. `CompletedAfterReturn`. The test request of an evidence operation is
   published before the operation is routed to it. A return that is collected in
   between finds no operation and is acknowledged; the route is accepted
   afterwards, and the operation waits for ever.

## Observations

The configurations named here belong to no run of `PROJECT.json`. Each checks
one property that a reader would expect and that the code does not have:
`tlc -config <configuration> <module>` ends in a counterexample.

| property | configuration | what happens |
|---|---|---|
| `TerminalFreesCandidate` | `AgentActionsReservation.cfg` with `MCAgentActions` | Under a lease that an obsolete cancellation left active, a late `defer_agent_action_retry` leaves the cancelled action alone but moves its attempt and its iteration to `retry-pending` (repository.py:1507-1521). The candidate is then reserved for good, against the test `test_terminal_iteration_releases_candidate_for_append_only_followup`. |
| `OwnedWorkspaceIsDrained` | `AgentActionsAdmission.cfg` with `MCAgentActions` | A retry verdict reached before a standalone owner is admitted, and applied after it, requeues formal work with an active lease in the owned workspace; workspace_repository.py:117-118 says formal work must be drained first. (The claim of that action is refused by the gate check as long as the owner stays, so no second writer starts.) |
| `CancellationSettles` | `GatewayRunCancel.cfg` with `GatewayRun` | A process that dies between the receipt and the state `accepted` leaves `publishing` with a receipt. No call reconciles that state again, and `ALLOWED_TRANSITIONS` leads from it neither to `cancelled` nor to `cancelling`: a cancellation the endpoint has carried out is refused by the journal for ever. |
| `PublicationFenced` | `TestTransportFence.cfg` with `TestTransport` | On a channel without append, the fence counts rows in `claimed`, `sending` and `uncertain`; a publication whose exchange brought back nothing waits in `decision-pending` and is not counted, so the next request overwrites the one mutable input (endpoint_dispatcher.py:202-209). |
| `NoOvertaking` | `ProcessLockOrder.cfg` with `ProcessLock` | A ticket is created and written by two calls, and one without a first line is taken for stale at once (locking.py:284-290; the grace of five seconds at 294-299 never applies): its waiter is overtaken by everybody who comes later, and polls beside a free lock until its deadline. |
| `MutualExclusion` | `ProcessLockPosix.cfg` with `ProcessLock` | Where an open file can be removed: a lock is judged by three reads and unlinked later; an orderly release in between makes a free path look stale, and the unlink removes the lock of the next holder. Where it cannot, this does not happen (run `lock`, theorems `ExclusionCorrect` and `PromiseCorrect`). |
| `JoinsBehind` | `ProcessLockTies.cfg` with `ProcessLock` | "every later contender joins behind it" (locking.py:132-134): of two tickets named at one reading of the monotonic clock the one with the smaller pid comes first (225-229, 258-260), whichever lay there before; on Windows before Python 3.13 a reading lasts some 16 ms. `QueueRespected` claims the order for tickets of different readings only. |
| `ReturnsAcknowledged` | `EvidenceAcknowledged.cfg` with `MCEvidenceOperations` | A return that is ingested a second time, after the tick's reconciliation or after a lost acknowledgement, is reported as `already-ingested`, which is part of the result; the repetition is refused as a different terminal result in every pass, and the return is never acknowledged. |
| `NoDuplicates` | `ResidentServiceDenied.cfg` with `ResidentService` | On Windows a start that is denied the handle of a living supervisor takes it for dead (process_identity.py:31-33, 131-135) and, while the daemon is down, records a second one beside it. The comment of `process_alive` warns of this: "treating it as dead lets supervisors remove live locks and start duplicates" (locking.py:518-519). Two daemons do not come of it: they meet in the daemon lock (run `resident`). |
| `OneDaemon` | `ResidentServicePosix.cfg` with `ResidentService` | Where an open file can be removed: a daemon that was started by hand ends, another takes the lock, and the verdict that a child of the supervisor reached on the first one removes the lock of the second; the child holds no lifecycle lock, although `daemon_run_lock` is to "Serialize manual starts with resident spawning" (resident_service.py:506). Where it cannot, this does not happen (run `resident`, theorem `OneDaemonHolds`). |

Noted on the way, without a configuration: a manager that pauses the flow is
offered `manager.flow-resume` (management_commands.py:88-91), which a daemon
serves in its tick; but behind the fence of the pause the daemon drains and
ends, its supervisor ends with it, and nobody is left to serve the resume until
the service is started by hand. A publication in doubt whose retry fails in its
preflight is recorded as failed and may be reopened to `prepared`
(journal.py:125). `test_requests.state` stays `uncertain` after the acceptance
is reconciled. A late release may write `released` over a successor's lock file,
so that contenders get an error instead of waiting. `WireV3Transport.publish`
takes every `OSError` for a failure before the publication
(wire_v3_transport.py:124-137), also one that is raised while the observation is
read after it (428-443): such a request is sent again by a retry decision, but
not on proof that it was not published. An exchange that ends with an error code
is taken for a refusal although its observation says otherwise (714-724): a
query may fail a known request, and an accepted recovery may be recorded as
unrecoverable. `_cleanup_stale_waiters` does not catch the `PermissionError` of
an open ticket on Windows. The claim of an evidence operation (300 s) is never
renewed although the build lock may wait 900 s; `complete_evidence_operation`
compares no token, so a late worker can fail an operation that is claimed anew
and not yet routed. A local operation whose worker dies between route and
completion stays routed. `reconcile_pending` cuts its list before it looks at
the markers, so only the oldest projection is ever considered.

## Proofs

Each `_proofs` module proves, for all values of the constants and from the
module's one assumption alone, the properties listed in `PROJECT.json`. The
argument is in each an inductive invariant, checked with TLC before it was
proved; no property is inductive by itself.

**AgentActions.** `TypeOK`, `LiveRowsAgree`, `OneWorkerPerSlot`,
`ReservationHeld`, `StaleTokensFenced`, `ReceiptSeals`,
`IntentsFollowCompletion` (together `OutcomeSealed`), `RetryBudget`,
`CompletedIsFinal`, `CancelledIsNotRequeued` (together `ClosedStaysClosed`), the
refinement of `SlotLease`. The invariant adds, per action, `Story` (receipt,
lease, action, iteration and current attempt allow only certain combinations: a
receipt closes all of them, a live action has its iteration and attempt in its
own state, what is completed has a receipt), `Ascending` (tokens grow with
attempts and the lease has the newest), `Budgeted` (what waits in the queue was
granted one attempt more), and over the pending verdicts `Spared` (none can be
applied to a cancelled action) and `Grants` (a plain retry is inside the
budget); and that the two indexes hold. Most operations write the rows of one
action: lemma `RowStep` says once what such a write has to show. Operations that
touch many actions (expiry, obsolete cancellation) are argued row by row.

**ControlOutbox**, from `OutboxAssumption` (the busy timeout is shorter than
the lease: 30 s against 60 s). `TypeOK`, `LastClaimDelivers`,
`RepeatedOnlyAfterFault`, `DeliveredIsFinal`, `NoRevival`, the refinement of
`AtLeastOnce`. `RepeatedOnlyAfterFault` needs an account of faults: a row that
anybody may claim has been claimed at most `faults` times (`Sound`), a claim
that still runs is owned by its worker or was paid for by a fault
(`ClaimsPaid`), and a worker that gives up its own claim does so after a fault
(`GivenUp`). A crash pays for the claim it orphans, the lapse of a lease for the
claim it opens. That a refusal of `HoldsClaim` always means an expired lease
(lemma `NotHeld`) is where the order of the clock readings enters, and that a
fresh claim is not expired at once is where the assumption does.

**GatewayRun.** `TypeOK`, `RepublishOnlyOnRequest`, `NoPublicationAfterCancel`,
the refinement of `RunOutcome`. Beside the types, the invariant says what the
call that holds the lock knows of the journal (`Observed`, `Uncancelled`,
`Reopenable`), what journal and endpoint owe each other once a result is
retained (`Retention`), and that in every state from which a publication may
start, all earlier ones are covered by retries (`Paid`). The refinement goes
through lemma `Effects`: the few ways in which a step can change what
`RunOutcome` sees.

**TestTransport.** `TypeOK`, `RowsAgree`, `CapacityHeld`,
`NoOpenQueryAcrossPublication`, `RepeatedOnlyByDecision`,
`ReleasedAfterProjection`, `OneRecoveryPerJob`, `TerminalIsFinal`. `Local` says
of one request how the rows that five repositories write agree (`Agree`,
`Claimed`, `Queried`, `Repeated`, `Returned`, `RecoveredOnce`, `Released`);
`LanesOK` what each lane of a running pass may rely on (`IngressOK`, `PollOK`,
`BackOK`); and busy rows never exceed the capacity. A step of one request
leaves the others alone (`RowStep`), one taken beside the pass keeps the lanes
because it moves no row that a lane has in hand (`BesideStep`). That a batch of
claims fits the capacity is `FreePlaces`.

**WorkspaceLoop.** `TypeOK`, `OwnersFormAChain`, `BoundSuccessorOwned`,
`OfficialInOneTerminal`, `ProjectedIsShown`, `ViewNeverGoesBack`,
`RefusedOnlyIfSuperseded`. `Data` relates the tables: the journal is well formed
(`Log`), the admissions are one chain that ends in the owner (`Chain`), events
and successors belong to one row (`Once`, `Bound`), the view shows no more than
what is visible (`Shown`). `Working` says what a worker may rely on in the
middle of its transactions (`WorkerOK`), and that one at most is in the file
lock. Every step appends one row that fits (`AppendKeeps`) or leaves the journal
alone; it moves forward (`Forward`), and so disturbs no other worker
(`Undisturbed`).

**ProcessLock.** `TypeOK`, `MutualExclusion` and the refinement of `LockPromise`
(where open files cannot be removed), `QueueRespected` (on either platform; of
two tickets of one clock reading it claims nothing). `Guarded`: the file at the
path is the one a contender inside has open, so no outstanding verdict reaches
it. `Behind`: who came after a waiter looks at the tickets before it does
anything else (`Looking`) and goes round behind the waiter's (`Rounds`) as long
as it lies there, or has registered at the same reading and is no longer counted
in `later`. `Places` and `Histories` say where
the waiting loop is entered and left.

**EvidenceOperations.** `TypeOK`, `Awaited`, `RightEvidence`,
`SettledBeforeAck`, the refinement of `EvidencePromise`. `Rows` ties a row to
its result: what is not routed has no place, what is not settled has no result,
what is settled was settled by a result that names its place. `Hands` says what
a thread may rely on between two transactions although others write in between;
it survives their steps because they only add (`Keeps`): a return does not go
away, a place once given does not change, what is settled or missed stays so.
`GivenUp` is `SettledBeforeAck` with the returns a thread has in hand.

**ResidentService.** `TypeOK`, `OneDaemon` (where open files cannot be removed),
`NoStrays` (on either platform), and that the lifecycle lock is used as
`LockPromise` has it. `OneDaemon` is not inductive: that the second daemon is
kept out rests on the lock of the first lying there, and that on nobody removing
it. `Owned`: while a daemon works, the file at the path names it, and is pinned;
a denied probe of its owner changes nothing, since the unlink of an open file
fails. `Serialized`: a caller works under the lifecycle lock. `Unrecorded`: from
its look at the record until it writes one, no supervisor is recorded but the
one that a start was denied a look at, and that one counts as lost when the next
is spawned. `Accounted`: what is recorded lives, and a living supervisor is
recorded, lost, or about to be recorded by the start that spawned it.
`Attended`: a daemon has its supervisor or is an orphan, and is not there before
its supervisor has started it. `NoStrays` follows from the last four and needs
nothing of the daemon lock, hence no assumption about the platform.

Only model-checked, liveness under fairness being out of the prover's reach:
`EveryIntentDelivered`, `ResultRetained`, `Acknowledged`, `EveryRequestSettles`,
`WaiterServed`, `LeavesQueue`, `EvidenceArrives`, and `StopSettles` and
`OldGenerationRetires` of the deeper configuration. The findings are
counterexamples and have no proof. Proved and not run: see the end of Runs.

## Not modelled

Most of the code is outside what a model of this kind can say something about:
transport and git exchange, installers and release bundles, job building, board
parsing, gate evaluation, diagnostics, the validation of message shapes and
registry configuration compute, parse and copy; they keep no state that several
actors change. `PROJECT.json` names each component with its reason. The HTTP
control API adds no state to the repository's methods. Two identities that hash
to the same value, and SQLite itself, are trusted.

Left to model, in this order: the order of topics, pause and stop within a
delivery pass (`delivery_runtime.reconcile_delivery`: a pause is read once, so
topics admitted before it are still delivered, and a terminal that lands during
a blocking submission is ingested before the next request; `WorkspaceLoop`
allows every order); the loop of the Agent runner, which serves its adoptable
work before new claims, so that an unresolved session may hold it up;
registration and selection of Agents; management commands; the watchdog of the
resident process. Liveness of the handover in `WorkspaceLoop` is beyond the size
of its run; `RefusedOnlyIfSuperseded` is its safety part.
