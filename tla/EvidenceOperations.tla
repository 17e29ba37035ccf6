------------------------- MODULE EvidenceOperations -------------------------
(***************************************************************************)
(* Evidence operations: an agent asks for a measurement, the intake of the *)
(* resident daemon claims it under a lease and runs it, here or as a test  *)
(* request on an endpoint, and the result router settles it when the       *)
(* return of that test is collected (repository.py 2673-3076,              *)
(* evidence_operation_intake.py, evidence_operation_result_router.py).     *)
(*                                                                         *)
(* A process has two threads: the tick, which reconciles projections and   *)
(* then serves the intake, and the dispatcher, which collects returns.     *)
(* Every step is one transaction or one change of a directory.             *)
(***************************************************************************)
EXTENDS Naturals, Sequences

CONSTANTS
  Profiles,     \* profile.collect: its test request carries the claim number
  Tests,        \* test.correctness, test.performance: one request for all claims
  Replays,      \* correctness.replay: one request too, evidence alone
  Checks,       \* environment.conformance: run here, routed to an endpoint
  Locals,       \* profile.compare, artifact.recover: run here, routed nowhere
  Processes,
  Verdicts,     \* what the endpoint may return
  Nothing,
  MaxAttempts,  \* max_attempts of the registry
  MaxClaims,    \* bound: claims of one operation
  MaxFaults     \* bound: crashes, failed calls, lost acknowledgements

Devices == Profiles \cup Tests \cup Replays
Operations == Devices \cup Checks \cup Locals
Statuses == {"completed", "failed", "cancelled"}

ASSUME EvidenceAssumption ==
  /\ Profiles \cap (Tests \cup Replays) = {} /\ Tests \cap Replays = {}
  /\ Checks \cap Locals = {}
  /\ Devices \cap (Checks \cup Locals) = {}
  /\ Nothing \notin Operations
  /\ Verdicts \subseteq Statuses
  /\ MaxAttempts \in Nat /\ MaxClaims \in Nat \ {0} /\ MaxFaults \in Nat

Requests == Devices \X (1 .. MaxClaims)
Threads == Processes \X {"tick", "dispatch"}

VARIABLES
  row,       \* evidence_operation_requests_v5
  result,    \* evidence_operation_results_v5
  order,     \* the operations by created_at
  thread,    \* what each thread holds in memory
  stage,     \* the test request, its attempt and its return
  verdict,   \* what the endpoint returned
  arrivals,  \* the returned requests by terminal_at
  ready,     \* projections that may be ingested
  ingested,  \* projections with a WORKFLOW_INGEST marker
  missed,    \* history: ingested when no operation was routed there
  faults

operations == <<row, result, order>>
returns == <<stage, verdict, arrivals>>
projections == <<ready, ingested, missed>>
vars == <<operations, thread, returns, projections, faults>>

\* A claim is known by its number: claim_token is fresh in each, and 0 is ''.
NoRow == [state |-> "absent", token |-> 0, lease |-> "none", attempts |-> 0, route |-> 0]
Unsettled == [status |-> "open", route |-> 0, told |-> "nobody"]
Idle == [pc |-> "idle", op |-> Nothing, n |-> 0, told |-> "nobody"]

Init ==
  /\ row = [o \in Operations |-> NoRow]
  /\ result = [o \in Operations |-> Unsettled]
  /\ order = <<>>
  /\ thread = [t \in Threads |-> Idle]
  /\ stage = [r \in Requests |-> "none"]
  /\ verdict = [r \in Requests |-> "open"]
  /\ arrivals = <<>>
  /\ ready = {} /\ ingested = {} /\ missed = {}
  /\ faults = 0

Ticks(t) == t[2] = "tick"
Dispatches(t) == t[2] = "dispatch"
At(t, pc) == thread[t].pc = pc
Goto(t, pc) == thread' = [thread EXCEPT ![t].pc = pc]
Rest(t) == thread' = [thread EXCEPT ![t] = Idle]
Fault == faults < MaxFaults /\ faults' = faults + 1
Calm == UNCHANGED faults

(***************************************************************************)
(* The control repository.                                                 *)
(***************************************************************************)

\* create_evidence_operation_request: a repetition finds the row.
Register(o) ==
  /\ row[o].state = "absent"
  /\ row' = [row EXCEPT ![o].state = "queued"]
  /\ order' = Append(order, o)
  /\ UNCHANGED <<result, thread, returns, projections>> /\ Calm

\* Mutant: a claim that ran out is not taken back.
KeptClaim(r) == r

\* An expired claim, or a deferral that is due, is queued again.
Requeued(r) ==
  IF r.state = "claimed" /\ r.lease = "lapsed"
  THEN [r EXCEPT !.state = "queued", !.token = 0, !.lease = "none"]
  ELSE r

Claimed(r) ==
  [r EXCEPT !.state = "claimed", !.token = r.attempts + 1, !.lease = "running",
            !.attempts = r.attempts + 1]

Oldest(o, S) ==
  \E i \in DOMAIN order : /\ order[i] = o /\ o \in S
                          /\ \A j \in DOMAIN order : order[j] \in S => i <= j

\* The device executor is asked first, then the local ones; an operation that
\* has been claimed MaxClaims times is set aside.
Claim(t) ==
  /\ Ticks(t) /\ thread[t].pc \in {"idle", "local"}
  /\ LET known == [o \in Operations |-> Requeued(row[o])]
         mine == IF At(t, "idle") THEN Devices ELSE Checks \cup Locals
         waiting == {o \in mine : known[o].state = "queued" /\ known[o].attempts < MaxClaims}
     IN  \/ /\ waiting = {}
            /\ row' = known
            /\ IF At(t, "idle") THEN Goto(t, "local") ELSE Rest(t)
         \/ \E o \in waiting :
              /\ Oldest(o, waiting)
              /\ row' = [known EXCEPT ![o] = Claimed(known[o])]
              /\ thread' = [thread EXCEPT
                   ![t] = [pc |-> "held", op |-> o, n |-> known[o].attempts + 1,
                           told |-> "nobody"]]
  /\ UNCHANGED <<result, order, returns, projections>> /\ Calm

Destination(o, n) == IF o \in Profiles THEN n ELSE IF o \in Locals THEN 0 ELSE 1
Settled == Statuses

\* route_evidence_operation; a refusal is raised to run_once, and not retried.
Route(t) ==
  /\ At(t, "done")
  /\ LET o == thread[t].op
         place == Destination(o, thread[t].n)
         go == IF o \in Devices THEN Rest(t) ELSE Goto(t, "routed")
     IN  IF row[o].state \in {"routed"} \cup Settled
         THEN /\ IF row[o].route = place THEN go ELSE Goto(t, "fail")
              /\ UNCHANGED row
         ELSE IF /\ row[o].state = "claimed" /\ row[o].token = thread[t].n
                 /\ row[o].lease = "running"
         THEN /\ row' = [row EXCEPT ![o] = [@ EXCEPT !.state = "routed", !.token = 0,
                                              !.lease = "none", !.route = place]]
              /\ go
         ELSE Goto(t, "fail") /\ UNCHANGED row
  /\ UNCHANGED <<result, order, returns, projections>> /\ Calm

\* Mutant: the route of a result is not compared.
AcceptsAnyRoute(o, res) == result[o] = Unsettled /\ row[o].state \in {"claimed", "routed"}

\* Mutant: a later result replaces the earlier one.
AcceptsAgain(o, res) ==
  row[o].route = res.route /\ row[o].state \in {"claimed", "routed"} \cup Settled

\* complete_evidence_operation asks for the route of the result, not for a token.
Accepts(o, res) ==
  /\ row[o].route = res.route
  /\ result[o] = Unsettled
  /\ row[o].state \in {"claimed", "routed"}

Complete(o, res) ==
  /\ row' = [row EXCEPT ![o] = [@ EXCEPT !.state = res.status, !.token = 0, !.lease = "none"]]
  /\ result' = [result EXCEPT ![o] = res]

(***************************************************************************)
(* The intake.                                                             *)
(***************************************************************************)

TestOf(t) == <<thread[t].op, Destination(thread[t].op, thread[t].n)>>

Publish(s) == IF s = "none" THEN "active" ELSE s

\* A device operation: the test request exists with an attempt, perhaps since
\* an earlier claim, or no endpoint takes it now, or it cannot be built.
Dispatch(t) ==
  /\ At(t, "held") /\ thread[t].op \in Devices
  /\ \/ stage' = [stage EXCEPT ![TestOf(t)] = Publish(@)] /\ Goto(t, "done")
     \/ stage[TestOf(t)] = "none" /\ UNCHANGED stage /\ Goto(t, "retry")
     \/ UNCHANGED stage /\ Goto(t, "fail")
  /\ UNCHANGED <<operations, verdict, arrivals, projections>> /\ Calm

\* A local operation is executed before it is routed.
Execute(t) ==
  /\ At(t, "held") /\ thread[t].op \notin Devices
  /\ \E pc \in {"done", "retry", "fail"} : Goto(t, pc)
  /\ UNCHANGED <<operations, returns, projections>> /\ Calm

FromWorker(status, place) == [status |-> status, route |-> place, told |-> "worker"]

Finish(t) ==
  /\ At(t, "routed")
  /\ LET o == thread[t].op
         res == FromWorker("completed", Destination(o, thread[t].n))
     IN  IF Accepts(o, res) THEN Complete(o, res) /\ Rest(t)
                            ELSE Goto(t, "fail") /\ UNCHANGED <<row, result>>
  /\ UNCHANGED <<order, returns, projections>> /\ Calm

\* _handle_failure: deferred under the token while attempts are left ...
Defer(t) ==
  /\ At(t, "retry") /\ thread[t].n < MaxAttempts
  /\ LET o == thread[t].op
     IN  row' = IF row[o].state = "claimed" /\ row[o].token = thread[t].n
                THEN [row EXCEPT ![o] = [@ EXCEPT !.token = 0, !.lease = "running"]]
                ELSE row
  /\ Rest(t)
  /\ UNCHANGED <<result, order, returns, projections>> /\ Calm

\* ... and failed otherwise, with the route the claim had; a refusal here ends the tick.
Fail(t) ==
  /\ \/ At(t, "fail")
     \/ At(t, "retry") /\ thread[t].n >= MaxAttempts
  /\ LET o == thread[t].op
         res == FromWorker("failed", 0)
     IN  IF Accepts(o, res) THEN Complete(o, res) ELSE UNCHANGED <<row, result>>
  /\ Rest(t)
  /\ UNCHANGED <<order, returns, projections>> /\ Calm

(***************************************************************************)
(* The return of a test (the transport is TestTransport's).                *)
(***************************************************************************)

\* It has arrived; "recoverable" asks for a postprocess recovery first.
Return(r) ==
  /\ stage[r] = "active"
  /\ \E s \in {"received", "recoverable"} : stage' = [stage EXCEPT ![r] = s]
  /\ \E v \in Verdicts : verdict' = [verdict EXCEPT ![r] = v]
  /\ arrivals' = Append(arrivals, r)
  /\ UNCHANGED <<operations, thread, projections>> /\ Calm

\* Projected and recorded, but held back from the workflow ...
Hold(t, r) ==
  /\ Dispatches(t) /\ At(t, "idle") /\ stage[r] = "recoverable"
  /\ stage' = [stage EXCEPT ![r] = "held"]
  /\ UNCHANGED <<operations, thread, verdict, arrivals, projections>> /\ Calm

\* ... until the endpoint says that nothing can be recovered.
Decide(r) ==
  /\ stage[r] = "held"
  /\ stage' = [stage EXCEPT ![r] = "unrecoverable"]
  /\ UNCHANGED <<operations, thread, verdict, arrivals, projections>> /\ Calm

Report(r) == IF r \in ingested THEN "again" ELSE "first"

Ingesting(t, r) ==
  thread' = [thread EXCEPT ![t] = [pc |-> "ingest", op |-> r[1], n |-> r[2], told |-> Report(r)]]

\* collect, or release_hold, by the dispatcher.
Collect(t, r) ==
  /\ Dispatches(t) /\ At(t, "idle") /\ stage[r] \in {"received", "unrecoverable"}
  /\ ready' = ready \cup {r}
  /\ Ingesting(t, r)
  /\ UNCHANGED <<operations, returns, ingested, missed>> /\ Calm

\* reconcile_pending with limit 1, by the tick: only the oldest is looked at.
Reconcile(t, r) ==
  /\ Ticks(t) /\ At(t, "idle") /\ r \in ready \ ingested
  /\ \E i \in DOMAIN arrivals :
       arrivals[i] = r /\ \A j \in DOMAIN arrivals : arrivals[j] \in ready => i <= j
  /\ Ingesting(t, r)
  /\ UNCHANGED <<operations, returns, projections>> /\ Calm

Request(t) == <<thread[t].op, thread[t].n>>

\* The adapter writes the marker; the ingest of a test reads it again under a
\* lock, that of evidence alone does not.
Ingest(t) ==
  /\ At(t, "ingest")
  /\ ingested' = ingested \cup {Request(t)}
  /\ thread' = [thread EXCEPT ![t].pc = "lookup",
                              ![t].told = IF thread[t].op \in Tests THEN Report(Request(t)) ELSE @]
  /\ UNCHANGED <<operations, returns, ready, missed>> /\ Calm

\* The dispatcher goes on to record the projection, the tick is done.
Proceed(t) == IF Dispatches(t) THEN Goto(t, "record") ELSE Rest(t)

\* evidence_operation_for_test_request
IsRouted(r) == row[r[1]].route = r[2]

\* Mutant: what has a marker already is taken for delivered.
DeliveredOnce(t) ==
  /\ At(t, "lookup")
  /\ IF thread[t].told = "again" THEN Proceed(t) /\ UNCHANGED missed
     ELSE IF IsRouted(Request(t)) THEN Goto(t, "settle") /\ UNCHANGED missed
     ELSE Proceed(t) /\ missed' = missed \cup {Request(t)}
  /\ UNCHANGED <<operations, returns, ready, ingested>> /\ Calm

Lookup(t) ==
  /\ At(t, "lookup")
  /\ IF IsRouted(Request(t))
     THEN Goto(t, "settle") /\ UNCHANGED missed
     ELSE Proceed(t) /\ missed' = missed \cup {Request(t)}
  /\ UNCHANGED <<operations, returns, ready, ingested>> /\ Calm

\* The result carries what the adapter reported, so that the same return
\* makes another result when its marker is there already.
FromReturn(t) == [status |-> verdict[Request(t)], route |-> thread[t].n, told |-> thread[t].told]

\* A refused result is raised, and the return stays as it is.
Settle(t) ==
  /\ At(t, "settle")
  /\ LET o == thread[t].op
         res == FromReturn(t)
     IN  \/ Accepts(o, res) /\ Complete(o, res) /\ Proceed(t)
         \/ ~Accepts(o, res) /\ result[o] = res /\ Proceed(t) /\ UNCHANGED <<row, result>>
         \/ ~Accepts(o, res) /\ result[o] # res /\ Rest(t) /\ UNCHANGED <<row, result>>
  /\ UNCHANGED <<order, returns, projections>> /\ Calm

\* Mutant: the projection is recorded before it is ingested.
RecordFirst(t) ==
  /\ thread[t].pc \in {"ingest", "record"} /\ Dispatches(t)
  /\ stage' = [stage EXCEPT ![Request(t)] = IF @ = "received" THEN "projected" ELSE @]
  /\ IF At(t, "record") THEN Goto(t, "ack") ELSE UNCHANGED thread
  /\ UNCHANGED <<operations, verdict, arrivals, projections>> /\ Calm

Record(t) ==
  /\ At(t, "record")
  /\ stage' = [stage EXCEPT ![Request(t)] = IF @ = "received" THEN "projected" ELSE @]
  /\ Goto(t, "ack")
  /\ UNCHANGED <<operations, verdict, arrivals, projections>> /\ Calm

\* What is recorded already is only acknowledged.
Resume(t, r) ==
  /\ Dispatches(t) /\ At(t, "idle") /\ stage[r] = "projected"
  /\ thread' = [thread EXCEPT ![t] = [pc |-> "ack", op |-> r[1], n |-> r[2], told |-> "nobody"]]
  /\ UNCHANGED <<operations, returns, projections>> /\ Calm

Acknowledge(t) ==
  /\ At(t, "ack")
  /\ stage' = [stage EXCEPT ![Request(t)] = "acknowledged"]
  /\ Rest(t)
  /\ UNCHANGED <<operations, verdict, arrivals, projections>> /\ Calm

(***************************************************************************)
(* Time and faults.                                                        *)
(***************************************************************************)

\* A claim runs out after 300 seconds, a deferral is due.
Lapse(o) ==
  /\ row[o].lease = "running"
  /\ row' = [row EXCEPT ![o].lease = "lapsed"]
  /\ UNCHANGED <<result, order, thread, returns, projections>> /\ Calm

Crash(p) ==
  /\ Fault
  /\ thread' = [t \in Threads |-> IF t[1] = p THEN Idle ELSE thread[t]]
  /\ UNCHANGED <<operations, returns, projections>>

\* An ingest, a transaction or the acknowledgement fails; the next pass tries
\* again, and a local operation that was not completed is reported as failed.
Mishap(t) ==
  /\ Fault
  /\ \/ thread[t].pc \in {"ingest", "settle", "record", "ack"} /\ Rest(t)
     \/ At(t, "routed") /\ Goto(t, "fail")
  /\ UNCHANGED <<operations, returns, projections>>

Intake(t) == Claim(t) \/ Dispatch(t) \/ Execute(t) \/ Route(t) \/ Finish(t) \/ Defer(t) \/ Fail(t)
Routing(t) == Ingest(t) \/ Lookup(t) \/ Settle(t) \/ Record(t) \/ Acknowledge(t)
Serve(r) == \E t \in Threads : Hold(t, r) \/ Collect(t, r) \/ Resume(t, r)
Sweep(t) == \E r \in Requests : Reconcile(t, r)

Next ==
  \/ \E o \in Operations : Register(o) \/ Lapse(o)
  \/ \E t \in Threads : Intake(t) \/ Routing(t) \/ Sweep(t) \/ Mishap(t)
  \/ \E r \in Requests : Serve(r) \/ Return(r) \/ Decide(r)
  \/ \E p \in Processes : Crash(p)

Spec == Init /\ [][Next]_vars

\* The resident loop serves its intake in every tick, a dispatcher goes over
\* all the returns of its endpoint in every pass, time passes, and the
\* endpoint answers.
FairSpec ==
  /\ Spec
  /\ \A t \in Threads : WF_vars(Intake(t)) /\ WF_vars(Routing(t))
  /\ \A r \in Requests : SF_vars(Serve(r)) /\ WF_vars(Return(r)) /\ WF_vars(Decide(r))
  /\ \A o \in Operations : WF_vars(Lapse(o))

(***************************************************************************)
(* Correctness.                                                            *)
(***************************************************************************)

States == {"absent", "queued", "claimed", "routed"} \cup Statuses
PCs == {"idle", "local", "held", "done", "retry", "fail", "routed",
        "ingest", "lookup", "settle", "record", "ack"}
Stages == {"none", "active", "received", "recoverable", "held", "unrecoverable",
           "projected", "acknowledged"}
Reports == {"nobody", "worker", "first", "again"}

TypeOK ==
  /\ row \in [Operations -> [state : States, token : Nat, lease : {"none", "running", "lapsed"},
                             attempts : 0 .. MaxClaims, route : 0 .. MaxClaims]]
  /\ result \in [Operations -> [status : Statuses \cup {"open"}, route : 0 .. MaxClaims,
                                told : Reports]]
  /\ order \in Seq(Operations)
  /\ thread \in [Threads -> [pc : PCs, op : Operations \cup {Nothing}, n : 0 .. MaxClaims,
                             told : Reports]]
  /\ stage \in [Requests -> Stages]
  /\ verdict \in [Requests -> Verdicts \cup {"open"}]
  /\ arrivals \in Seq(Requests)
  /\ ready \subseteq Requests /\ ingested \subseteq Requests /\ missed \subseteq Requests
  /\ faults \in 0 .. MaxFaults

\* An operation is sent to one place and settled once, by a result that names
\* that place: whatever late workers, expired claims, repeated returns and
\* crashes do to the row (route_evidence_operation, complete_evidence_operation).
Phase(s) == IF s \in Settled THEN "settled" ELSE IF s = "routed" THEN "routed" ELSE "open"
Outcomes == [status : Statuses, route : 0 .. MaxClaims, told : {"worker", "first", "again"}]
Promise ==
  INSTANCE EvidencePromise WITH
    Places <- 0 .. MaxClaims,
    Open <- Unsettled,
    phase <- [o \in Operations |-> Phase(row[o].state)],
    place <- [o \in Operations |-> row[o].route],
    outcome <- result
KeepsPromise == Promise!Spec

\* A device operation that waits for a return waits for one that can come: its
\* own test request has been published.
Awaited ==
  \A o \in Devices : row[o].state = "routed" =>
    /\ row[o].route \in 1 .. MaxClaims
    /\ stage[<<o, row[o].route>>] # "none"

\* What settles a routed device operation is the return of its own test: the
\* failure a late worker reports never takes its place.
RightEvidence ==
  \A o \in Devices : row[o].state \in Settled /\ row[o].route # 0 =>
    /\ result[o].told \in {"first", "again"}
    /\ result[o].status = verdict[<<o, row[o].route>>]

\* The return of a test is given up only when its operation has the result, or
\* was not routed to that test when the return was ingested.
SettledBeforeAck ==
  \A r \in Requests :
    stage[r] \in {"projected", "acknowledged"} /\ row[r[1]].route = r[2] =>
      r \in missed \/ row[r[1]].state \in Settled

\* Every operation leaves the queue: it is routed or settled, whoever dies with
\* its claim and however often it is deferred.
LeavesQueue ==
  \A o \in Operations :
    row[o].state \in {"queued", "claimed"} ~> row[o].state \notin {"queued", "claimed"}

\* A device operation that was routed before its return is ingested gets its
\* result, whatever dies or fails between the marker and the completion.
EvidenceArrives ==
  \A o \in Devices :
    row[o].state = "routed" /\ <<o, row[o].route>> \notin missed ~> row[o].state \in Settled

\* "Complete a routed V5 evidence operation after Wire result validation"
\* (evidence_operation_result_router.py:26). It fails: an operation routed to a
\* test whose return is collected already waits for ever.
CompletedAfterReturn ==
  \A o \in Devices : row[o].state = "routed" =>
    stage[<<o, row[o].route>>] \notin {"projected", "acknowledged"}

\* A return that is collected again is absorbed, as the adapter's branch for a
\* marker that is there already and the repeated completion of
\* test_agent_repository.py:964 say. It fails: the repetition makes another
\* result, which is refused, and the return is never acknowledged.
ReturnsAcknowledged ==
  \A r \in Requests : stage[r] = "received" ~> stage[r] = "acknowledged"
=============================================================================
