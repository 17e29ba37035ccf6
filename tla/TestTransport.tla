--------------------------- MODULE TestTransport ---------------------------
(***************************************************************************)
(* Test requests on one endpoint: the request, preparation, attempt,       *)
(* outbox, return and recovery rows of the daemon's control database       *)
(* (storage/repositories/request_preparations.py, preparation_retries.py,  *)
(* transport.py, transport_returns.py, retry_decisions.py), the endpoint   *)
(* dispatcher (control_plane/endpoint_dispatcher.py,                       *)
(* postprocess_dispatch.py), the retry controller (retry_controller.py,    *)
(* flow_v3_policy.py) and the endpoint behind the wire V3 exchange         *)
(* (exchange/wire_v3_transport.py).                                        *)
(*                                                                         *)
(* Every database call is one transaction and one action.  The dispatcher  *)
(* is one background pass: its ingress lane publishes the claims it holds, *)
(* its poll lane queries beside it, and acknowledgements and recoveries    *)
(* run with both lanes closed.  The retry controller, the intakes and the  *)
(* package builders run concurrently with the pass.                        *)
(***************************************************************************)
EXTENDS Naturals, FiniteSets

CONSTANTS
  Requests,
  NoRequest,
  Capacity,         \* the endpoint's capacity
  Append,           \* the endpoint supports gp-append-request-v1
  MaxRetries,       \* max_transport_retries
  MaxPreparations,  \* bound: package preparations of one request
  MaxGeneration,    \* bound: code generations of the daemon
  MaxFaults         \* bound: everything that goes wrong

ASSUME TransportAssumption ==
  /\ NoRequest \notin Requests
  /\ IsFiniteSet(Requests)
  /\ Capacity \in Nat \ {0} /\ MaxGeneration \in Nat \ {0}
  /\ Append \in BOOLEAN
  /\ {MaxRetries, MaxPreparations, MaxFaults} \subseteq Nat

VARIABLES
  rows,       \* test_requests, execution_attempts and transport_outbox
  prep,       \* request_preparations: the latest one
  builders,   \* the preparations somebody is building a package for
  cause,      \* why a delivery waits for a decision
  retries,    \* retry-transport decisions taken
  claim,      \* the claim on the outbox row and its lease
  query,      \* the reserved query identity and the endpoint's answer to it
  returns,    \* transport_returns, by terminal revision
  recovery,   \* postprocess_recoveries, by the revision they repair
  held,       \* claims the running pass still has to publish
  ingress, poll, back,  \* what each lane of the pass is doing
  remote,     \* the endpoint and the channel to it
  generation, \* the daemon's code generation
  faults

queue == <<rows, cause, retries, claim>>
intake == <<prep, builders>>
outcome == <<returns, recovery>>
pass == <<held, ingress, poll, back>>
vars == <<queue, intake, query, outcome, pass, remote, generation, faults>>

Revisions == {1, 2}

\* The lock of a builder does not keep a second one out everywhere (ProcessLock).
MaxBuilders == 2

Boxes == {"none", "pending", "claimed", "sending", "accepted", "uncertain", "retry",
          "decision-pending", "returning", "completed", "failed"}
Terminal == {"completed", "failed"}

Quiet == [on |-> NoRequest, pc |-> "idle", rev |-> 1, seen |-> "none"]
NoQuery == [gen |-> 0, answer |-> "none", rev |-> 0]

\* rev: the terminal revision the endpoint retains; repaired: the revisions it
\* accepted a recovery of; released: the revisions it was told are safe.
Init ==
  /\ rows = [r \in Requests |-> [request |-> "created", attempt |-> "none", box |-> "none"]]
  /\ prep = [r \in Requests |-> [n |-> 0, state |-> "none", gen |-> 0]]
  /\ builders = [r \in Requests |-> [n \in 1..MaxPreparations |-> 0]]
  /\ cause = [r \in Requests |-> "none"]
  /\ retries = [r \in Requests |-> 0]
  /\ claim = [r \in Requests |-> "none"]
  /\ query = [r \in Requests |-> NoQuery]
  /\ returns = [r \in Requests |-> [v \in Revisions |-> "none"]]
  /\ recovery = [r \in Requests |-> [v \in Revisions |-> "none"]]
  /\ held = {} /\ ingress = Quiet /\ poll = Quiet /\ back = Quiet
  /\ remote = [r \in Requests |-> [flight |-> FALSE, known |-> FALSE, rev |-> 0,
                                   repaired |-> {}, released |-> {}]]
  /\ generation = 1
  /\ faults = 0

Box(r) == rows[r].box
Write(r, request, attempt, box) ==
  rows' = [rows EXCEPT ![r] = [request |-> request, attempt |-> attempt, box |-> box]]
Move(r, attempt, box) == Write(r, rows[r].request, attempt, box)
Unclaim(r) == claim' = [claim EXCEPT ![r] = "none"]
CloseQuery(r) == query' = [query EXCEPT ![r] = NoQuery]
Fault == faults < MaxFaults /\ faults' = faults + 1
NoFault == UNCHANGED faults

-----------------------------------------------------------------------------
(* Preparation: reserve a route, build the package, publish the attempt.   *)

\* reserve_wire_v3_preparation: a request with an attempt, and one whose package
\* failed, get nothing new; a reserved preparation is built by whoever asks.
Reserve(r) ==
  /\ rows[r].request \notin Terminal /\ rows[r].attempt = "none"
  /\ \/ prep[r].state = "reserved" /\ UNCHANGED <<prep, rows>>
     \/ /\ prep[r].state \in {"none", "superseded"} /\ prep[r].n < MaxPreparations
        /\ prep' = [prep EXCEPT ![r] = [n |-> @.n + 1, state |-> "reserved", gen |-> 0]]
        /\ Write(r, "preparing", "none", "none")
  /\ builders[r][prep'[r].n] < MaxBuilders
  /\ builders' = [builders EXCEPT ![r][prep'[r].n] = @ + 1]
  /\ UNCHANGED <<cause, retries, claim, query, outcome, pass, remote, generation, faults>>

NoBackend(r) ==
  /\ rows[r].request \notin Terminal /\ rows[r].attempt = "none"
  /\ prep[r].state \in {"none", "superseded"}
  /\ Write(r, "blocked", "none", "none")
  /\ Fault
  /\ UNCHANGED <<intake, cause, retries, claim, query, outcome, pass, remote, generation>>

\* Mutant: the result of a build is taken whatever became of its preparation.
AnyBuild(r, n) == prep[r].n = n
Buildable(r, n) == prep[r].n = n /\ prep[r].state = "reserved"

\* A builder beside another one may finish last: its own preparation must still
\* be the reserved one.
Finished(r, n) == builders[r][n] > 0 /\ builders' = [builders EXCEPT ![r][n] = @ - 1]

PublishPreparation(r, n) ==
  /\ Finished(r, n)
  /\ IF Buildable(r, n) /\ rows[r].attempt = "none"
     THEN /\ prep' = [prep EXCEPT ![r].state = "published"]
          /\ Write(r, "routed", "prepared", "pending")
     ELSE UNCHANGED <<prep, rows>>
  /\ UNCHANGED <<cause, retries, claim, query, outcome, pass, remote, generation, faults>>

FailPreparation(r, n) ==
  /\ Finished(r, n)
  /\ IF Buildable(r, n)
     THEN /\ prep' = [prep EXCEPT ![r].state = "failed", ![r].gen = generation]
          /\ rows' = [rows EXCEPT ![r].request = "blocked"]
     ELSE UNCHANGED <<prep, rows>>
  /\ Fault
  /\ UNCHANGED <<cause, retries, claim, query, outcome, pass, remote, generation>>

\* Only a newer daemon may try a package that failed to build again.
RetryPreparation(r) ==
  /\ prep[r].state = "failed" /\ rows[r].request = "blocked"
  /\ prep[r].gen # generation
  /\ prep' = [prep EXCEPT ![r].state = "superseded"]
  /\ UNCHANGED <<queue, builders, query, outcome, pass, remote, generation, faults>>

-----------------------------------------------------------------------------
(* Claims.                                                                 *)

\* Mutant: a row that waits for a decision gives its place away.
WithoutDecisions == {"claimed", "sending", "accepted", "uncertain", "returning"}
ActiveBoxes ==
  {"claimed", "sending", "accepted", "uncertain", "returning", "decision-pending"}

In(boxes) == {r \in Requests : Box(r) \in boxes}
Active == Cardinality(In(ActiveBoxes))
Least(m, n) == IF m < n THEN m ELSE n

\* A channel without append has one mutable input file: nothing is claimed while
\* an earlier publication is not visible at the endpoint.
Available ==
  LET free == IF Active < Capacity THEN Capacity - Active ELSE 0
  IN  IF Append THEN free
      ELSE IF In({"claimed", "sending", "uncertain"}) # {} THEN 0
      ELSE Least(free, 1)

\* Mutant: a send that was cut off is taken for one that never began.
AlwaysResent(r) == "retry"
Recovered(r) == IF Box(r) = "sending" THEN "uncertain" ELSE "retry"

Lapsed == {r \in In({"claimed", "sending"}) : claim[r] = "lapsed"}

\* _recover_expired_transport_claims, on its way into every pass and claim.
AfterRecovery ==
  [r \in Requests |->
     IF r \notin Lapsed THEN rows[r]
     ELSE [rows[r] EXCEPT !.box = Recovered(r),
             !.attempt = IF Recovered(r) = "retry" THEN "prepared" ELSE "uncertain"]]

BackClosed == back = Quiet
LanesClosed == held = {} /\ ingress = Quiet /\ poll = Quiet

RecoverClaims ==
  /\ Lapsed # {} /\ BackClosed /\ LanesClosed
  /\ rows' = AfterRecovery
  /\ claim' = [r \in Requests |-> IF r \in Lapsed THEN "none" ELSE claim[r]]
  /\ UNCHANGED <<cause, retries, intake, query, outcome, pass, remote, generation, faults>>

\* The places are counted before the expired claims are recovered.
ClaimRows ==
  /\ BackClosed /\ LanesClosed
  /\ LET waiting == {r \in Requests : AfterRecovery[r].box \in {"pending", "retry"}}
     IN  \E batch \in SUBSET waiting :
           /\ batch # {}
           /\ Cardinality(batch) = Least(Available, Cardinality(waiting))
           /\ held' = batch
           /\ rows' = [r \in Requests |->
                IF r \in batch THEN [rows[r] EXCEPT !.attempt = "queued", !.box = "claimed"]
                ELSE AfterRecovery[r]]
           /\ claim' = [r \in Requests |->
                IF r \in batch THEN "live" ELSE IF r \in Lapsed THEN "none" ELSE claim[r]]
  /\ UNCHANGED <<cause, retries, intake, query, outcome, ingress, poll, back, remote,
                 generation, faults>>

\* The lease of a claim in hand runs out only when the pass is delayed.
Lapse(r) ==
  /\ claim[r] = "live"
  /\ claim' = [claim EXCEPT ![r] = "lapsed"]
  /\ IF r \in held THEN Fault ELSE NoFault
  /\ UNCHANGED <<rows, cause, retries, intake, query, outcome, pass, remote, generation>>

-----------------------------------------------------------------------------
(* The ingress lane publishes the claims it holds, one at a time.          *)

Drop(r) == held' = held \ {r} /\ ingress' = Quiet

\* mark_transport_sending; a claim that lapsed is refused and left to recovery.
MarkSending(r) ==
  /\ ingress = Quiet /\ r \in held
  /\ IF claim[r] = "live"
     THEN /\ Move(r, "sent", "sending")
          /\ ingress' = [Quiet EXCEPT !.on = r, !.pc = "marked"]
          /\ UNCHANGED held
     ELSE Drop(r) /\ UNCHANGED rows
  /\ UNCHANGED <<cause, retries, claim, intake, query, outcome, poll, back, remote,
                 generation, faults>>

Publish(r) ==
  /\ ingress.on = r /\ ingress.pc = "marked"
  /\ ingress' = [ingress EXCEPT !.pc = "out"]
  /\ remote' = [remote EXCEPT ![r].flight = TRUE]
  /\ UNCHANGED <<queue, intake, query, outcome, held, poll, back, generation, faults>>

\* record_transport_delivery under the claim token; a lapsed claim is refused and
\* the row stays "sending" until its claim is recovered.
Delivered(r, box, why) ==
  /\ Drop(r)
  /\ IF claim[r] # "live" THEN UNCHANGED <<queue, query>>
     ELSE /\ \/ box = "accepted" /\ Move(r, "accepted", "accepted") /\ CloseQuery(r)
             \/ box = "uncertain" /\ Move(r, "uncertain", "uncertain") /\ UNCHANGED query
             \/ /\ box = "decision-pending" /\ UNCHANGED query
                /\ Write(r, "retry-decision-pending", "retry-decision-pending", box)
          /\ cause' = [cause EXCEPT ![r] = why]
          /\ Unclaim(r)
          /\ UNCHANGED retries
  /\ UNCHANGED <<intake, outcome, poll, back, generation>>

Sending(r, pc) == ingress.on = r /\ ingress.pc = pc

\* The call ran out of time, or raised: whatever raises is taken for a failure
\* before anything has left ("unpublished"), an unusable envelope ("known") or an
\* exchange without an observation, also when it is the read of the observation
\* that fails after the publication.
SendFails(r) ==
  /\ Sending(r, "marked") \/ Sending(r, "out")
  /\ \/ Delivered(r, "uncertain", "none")
     \/ \E why \in {"unpublished", "known", "unknown"} : Delivered(r, "decision-pending", why)
  /\ Fault /\ UNCHANGED remote

SendAccepted(r) ==
  /\ Sending(r, "out") /\ remote[r].known
  /\ Delivered(r, "accepted", "none") /\ NoFault /\ UNCHANGED remote

\* An endpoint NACK proves that the request was not admitted.
SendRefused(r) ==
  /\ Sending(r, "out") /\ remote[r].flight /\ ~remote[r].known
  /\ remote' = [remote EXCEPT ![r].flight = FALSE]
  /\ Delivered(r, "decision-pending", "unpublished") /\ NoFault

-----------------------------------------------------------------------------
(* The poll lane.                                                          *)

\* Mutant: a delivery that may never have arrived is not asked about.
OnlyAccepted == {"accepted"}
Pollable == {"accepted", "uncertain"}

Reusable(r) == query[r].gen = generation

\* reserve_transport_query: one identity until it is answered, and one for each
\* code generation; the endpoint answers an identity once and for all.
Ask(r) ==
  /\ poll = Quiet /\ BackClosed
  /\ Box(r) \in Pollable
  /\ query' = IF Reusable(r) THEN query
              ELSE [query EXCEPT ![r] = [NoQuery EXCEPT !.gen = generation]]
  /\ poll' = [Quiet EXCEPT !.on = r, !.pc = "asked", !.seen = Box(r)]
  /\ UNCHANGED <<queue, intake, outcome, held, ingress, back, remote, generation, faults>>

Answer(r) ==
  /\ query[r].gen # 0 /\ query[r].answer = "none"
  /\ query' = [query EXCEPT ![r].answer =
       IF ~remote[r].known THEN "not-found"
       ELSE IF remote[r].rev = 0 THEN "accepted" ELSE "result",
       ![r].rev = remote[r].rev]
  /\ UNCHANGED <<queue, intake, outcome, pass, remote, generation, faults>>

Answered(r, answers) == poll.on = r /\ poll.pc = "asked" /\ query[r].answer \in answers
PollEnds == poll' = Quiet
PollOthers == UNCHANGED <<retries, intake, held, ingress, back, remote, generation>>

\* record_transport_query_failure: the endpoint has never seen the request, or
\* (why = "known") it refuses to speak of it, or the exchange ends with an error
\* whatever it has brought.
QueryFails(r, why) ==
  /\ poll.seen = "uncertain"
  /\ IF Box(r) = "uncertain"
     THEN /\ Write(r, "retry-decision-pending", "retry-decision-pending", "decision-pending")
          /\ cause' = [cause EXCEPT ![r] = why]
     ELSE UNCHANGED <<rows, cause>>
  /\ PollEnds /\ UNCHANGED <<claim, query, outcome>> /\ PollOthers

NotFound(r) == Answered(r, {"not-found"}) /\ QueryFails(r, "unpublished") /\ NoFault

QueryRefused(r) ==
  Answered(r, {"not-found", "accepted", "result"}) /\ QueryFails(r, "known") /\ Fault

\* record_transport_poll after an answer that moves nothing, or none at all.
QueryUnanswered(r) ==
  /\ poll.on = r /\ poll.pc = "asked" /\ PollEnds
  /\ IF Answered(r, {"not-found"}) /\ poll.seen # "uncertain" THEN NoFault ELSE Fault
  /\ UNCHANGED <<queue, intake, query, outcome, held, ingress, back, remote, generation>>

\* reconcile_transport_acceptance
Accepted(r) ==
  /\ Answered(r, {"accepted", "result"})
  /\ poll' = [poll EXCEPT !.pc = IF query[r].answer = "result" THEN "result" ELSE "done",
                          !.rev = IF query[r].answer = "result" THEN query[r].rev ELSE 1]
  /\ IF Box(r) = "uncertain"
     THEN Move(r, "accepted", "accepted") /\ CloseQuery(r)
     ELSE UNCHANGED <<rows, query>>
  /\ UNCHANGED <<cause, claim, outcome, faults>> /\ PollOthers

\* record_transport_return: a result already on file changes nothing; a new one
\* settles the recovery that was dispatched for a lower revision.
Received(r) ==
  /\ poll.on = r /\ poll.pc = "result"
  /\ poll' = [poll EXCEPT !.pc = "done"]
  /\ LET v == poll.rev
         repaired == {w \in Revisions : w < v /\ recovery[r][w] \in {"dispatched", "uncertain"}}
     IN  IF returns[r][v] # "none" THEN UNCHANGED <<rows, outcome>>
         ELSE /\ returns' = [returns EXCEPT ![r] = [w \in Revisions |->
                   IF w = v THEN "received"
                   ELSE IF w \in repaired /\ @[w] # "acknowledged" THEN "recovery-superseded"
                   ELSE @[w]]]
              /\ recovery' = [recovery EXCEPT ![r] = [w \in Revisions |->
                   IF w \in repaired THEN "result-received" ELSE @[w]]]
              /\ Move(r, "returning", "returning")
  /\ UNCHANGED <<cause, claim, query, faults>> /\ PollOthers

\* record_transport_poll: the identity is spent.
PollDone(r) ==
  /\ poll.on = r /\ poll.pc = "done"
  /\ CloseQuery(r) /\ PollEnds
  /\ UNCHANGED <<rows, cause, claim, outcome, faults>> /\ PollOthers

-----------------------------------------------------------------------------
(* Returns: project, acknowledge at the endpoint, acknowledge locally.     *)

\* Mutant: a return that is held for a recovery is acknowledged too.
HeldToo == {"received", "projected-ready", "recovery-unrecoverable",
            "recovery-decision-pending"}
Pending == {"received", "projected-ready", "recovery-unrecoverable"}

BackOpens(r, v, pc) ==
  /\ BackClosed /\ LanesClosed
  /\ back' = [Quiet EXCEPT !.on = r, !.rev = v, !.pc = pc]

\* The recovery decides about the result before the endpoint may forget it.
Project(r, v, repair) ==
  /\ returns[r][v] = "received" /\ BackClosed /\ LanesClosed
  /\ IF repair
     THEN /\ returns' = [returns EXCEPT ![r][v] = "recovery-decision-pending"]
          /\ recovery' = [recovery EXCEPT ![r][v] = "decision-pending"]
          /\ UNCHANGED back
     ELSE /\ returns' = [returns EXCEPT ![r][v] = "projected-ready"]
          /\ BackOpens(r, v, "ack")
          /\ UNCHANGED recovery
  /\ UNCHANGED <<queue, intake, query, held, ingress, poll, remote, generation, faults>>

Acknowledge(r, v) ==
  /\ returns[r][v] \in Pending \ {"received"} /\ BackOpens(r, v, "ack")
  /\ UNCHANGED <<queue, intake, query, outcome, held, ingress, poll, remote, generation, faults>>

At(r, v, pc) == back.on = r /\ back.rev = v /\ back.pc = pc

Release(r, v) ==
  /\ At(r, v, "ack")
  /\ remote' = [remote EXCEPT ![r].released = @ \cup {v}]
  /\ back' = [back EXCEPT !.pc = "released"]
  /\ UNCHANGED <<queue, intake, query, outcome, held, ingress, poll, generation, faults>>

\* No answer: the endpoint may have released the result all the same.
BackFails(r, v) ==
  /\ back.on = r /\ back.rev = v /\ back.pc # "idle" /\ back' = Quiet /\ Fault
  /\ UNCHANGED <<queue, intake, query, outcome, held, ingress, poll, remote, generation>>

\* acknowledge_transport_return
Complete(r, v, end) ==
  /\ At(r, v, "released") /\ back' = Quiet
  /\ returns' = [returns EXCEPT ![r][v] = "acknowledged"]
  /\ recovery' = [recovery EXCEPT ![r] = [w \in Revisions |->
       IF @[w] = "result-received" /\ (recovery[r][v] = "none" \/ w = v)
       THEN "completed" ELSE @[w]]]
  /\ Write(r, end, end, "completed")
  /\ UNCHANGED <<cause, retries, claim, intake, query, held, ingress, poll, remote, generation,
                 faults>>

-----------------------------------------------------------------------------
(* Recoveries of the host and export stages.                               *)

Dispatchable == {"authorized", "uncertain", "reconcile-required"}

Recover(r, v) ==
  /\ recovery[r][v] \in Dispatchable /\ BackOpens(r, v, "recover")
  /\ UNCHANGED <<queue, intake, query, outcome, held, ingress, poll, remote, generation, faults>>

\* The same recovery identity is accepted again without a second effect.
RecoveryLands(r, v) ==
  /\ At(r, v, "recover")
  /\ remote' = [remote EXCEPT ![r].repaired = @ \cup {v}]
  /\ back' = [back EXCEPT !.pc = "repaired"]
  /\ UNCHANGED <<queue, intake, query, outcome, held, ingress, poll, generation, faults>>

\* record_postprocess_recovery_observation
RecoveryAccepted(r, v) ==
  /\ At(r, v, "repaired") /\ back' = Quiet
  /\ recovery' = [recovery EXCEPT ![r][v] = "dispatched"]
  /\ returns' = [returns EXCEPT ![r][v] = "recovery-superseded"]
  /\ Write(r, "accepted", "accepted", "accepted")
  /\ UNCHANGED <<cause, retries, claim, intake, query, held, ingress, poll, remote, generation,
                 faults>>

\* No answer: one of the later dispatches spends the budget of dispatches.
RecoveryUncertain(r, v) ==
  /\ At(r, v, "recover") \/ At(r, v, "repaired")
  /\ back' = Quiet /\ Fault
  /\ \E end \in {"uncertain", "reconcile-required"} :
       /\ recovery[r][v] \in {"authorized", "reconcile-required"} =>
            end = IF recovery[r][v] = "authorized" THEN "uncertain" ELSE "reconcile-required"
       /\ recovery' = [recovery EXCEPT ![r][v] = end]
  /\ UNCHANGED <<queue, intake, query, returns, held, ingress, poll, remote, generation>>

GiveUp(r, v) ==
  /\ recovery' = [recovery EXCEPT ![r][v] = "unrecoverable"]
  /\ returns' = [returns EXCEPT ![r][v] = "recovery-unrecoverable"]

\* The endpoint refuses it, or the exchange ends with an error although it has
\* been accepted.
RecoveryRejected(r, v) ==
  /\ At(r, v, "recover") \/ At(r, v, "repaired")
  /\ back' = Quiet /\ GiveUp(r, v) /\ Fault
  /\ UNCHANGED <<queue, intake, query, held, ingress, poll, remote, generation>>

-----------------------------------------------------------------------------
(* The retry controller, beside the pass.                                  *)

\* Mutant: the budget of a stage is not looked at.
NeverSpent(r, v) == FALSE
Spent(r, v) == \E w \in Revisions \ {v} :
                 recovery[r][w] \in {"dispatched", "result-received", "completed"}

DecideRecovery(r, v) ==
  /\ recovery[r][v] = "decision-pending"
  /\ IF Spent(r, v) THEN GiveUp(r, v)
     ELSE recovery' = [recovery EXCEPT ![r][v] = "authorized"] /\ UNCHANGED returns
  /\ UNCHANGED <<queue, intake, query, pass, remote, generation, faults>>

\* The recovery contract does not prove that the device facts are complete.
RefuseRecovery(r, v) ==
  /\ recovery[r][v] = "decision-pending" /\ GiveUp(r, v) /\ Fault
  /\ UNCHANGED <<queue, intake, query, pass, remote, generation>>

\* Mutant: the query identity outlives the delivery it asked about.
KeepQuery(r) == UNCHANGED query
ForgetQuery(r) == CloseQuery(r)

\* decide_retry and apply_retry_decision: what may be out there is looked for,
\* what is classed as unpublished is sent again within the budget.
RetryDelivery(r) ==
  /\ Write(r, "routed", "prepared", "retry")
  /\ retries' = [retries EXCEPT ![r] = @ + 1]
  /\ ForgetQuery(r)

Retryable(r) == cause[r] = "unpublished" /\ retries[r] < MaxRetries

DecideRetry(r) ==
  /\ Box(r) = "decision-pending"
  /\ CASE cause[r] = "unknown" ->
            Write(r, "uncertain", "uncertain", "uncertain") /\ UNCHANGED <<retries, query>>
       [] Retryable(r) -> RetryDelivery(r)
       [] OTHER ->
            Write(r, "failed", "failed", "failed") /\ UNCHANGED <<retries, query>>
  /\ cause' = [cause EXCEPT ![r] = "none"]
  /\ UNCHANGED <<claim, intake, outcome, pass, remote, generation, faults>>

-----------------------------------------------------------------------------
(* The endpoint and the daemon process.                                    *)

\* A publication that arrives twice is one request.
Land(r) ==
  /\ remote[r].flight
  /\ remote' = [remote EXCEPT ![r].flight = FALSE, ![r].known = TRUE]
  /\ UNCHANGED <<queue, intake, query, outcome, pass, generation, faults>>

Finish(r) ==
  /\ remote[r].known
  /\ \/ remote[r].rev = 0 /\ remote' = [remote EXCEPT ![r].rev = 1]
     \/ /\ remote[r].rev \in remote[r].repaired \ {2}
        /\ remote' = [remote EXCEPT ![r].rev = 2]
  /\ UNCHANGED <<queue, intake, query, outcome, pass, generation, faults>>

Crash(next) ==
  /\ held' = {} /\ ingress' = Quiet /\ poll' = Quiet /\ back' = Quiet
  /\ generation' = next
  /\ UNCHANGED <<queue, intake, query, outcome, remote>>

Restart == Crash(generation) /\ Fault
Deploy == generation < MaxGeneration /\ Crash(generation + 1) /\ NoFault

-----------------------------------------------------------------------------
Prepare(r) ==
  \/ Reserve(r) \/ NoBackend(r) \/ RetryPreparation(r)
  \/ \E n \in 1..MaxPreparations : PublishPreparation(r, n) \/ FailPreparation(r, n)

Ingress(r) ==
  Lapse(r) \/ MarkSending(r) \/ Publish(r) \/ SendFails(r) \/ SendAccepted(r) \/ SendRefused(r)

Polling(r) ==
  \/ Ask(r) \/ NotFound(r) \/ QueryRefused(r) \/ QueryUnanswered(r)
  \/ Accepted(r) \/ Received(r) \/ PollDone(r)

Returning(r, v) ==
  \/ \E repair \in BOOLEAN : Project(r, v, repair)
  \/ Acknowledge(r, v) \/ Release(r, v) \/ BackFails(r, v)
  \/ \E end \in Terminal : Complete(r, v, end)

Recovering(r, v) ==
  \/ Recover(r, v) \/ RecoveryLands(r, v) \/ RecoveryAccepted(r, v)
  \/ RecoveryUncertain(r, v) \/ RecoveryRejected(r, v)
  \/ DecideRecovery(r, v) \/ RefuseRecovery(r, v)

Endpoint(r) == Answer(r) \/ Land(r) \/ Finish(r)

Step(r) ==
  \/ Prepare(r) \/ Ingress(r) \/ Polling(r) \/ DecideRetry(r) \/ Endpoint(r)
  \/ \E v \in Revisions : Returning(r, v) \/ Recovering(r, v)

Next == RecoverClaims \/ ClaimRows \/ (\E r \in Requests : Step(r)) \/ Restart \/ Deploy

Spec == Init /\ [][Next]_vars

\* A started step goes on; a pass comes round to every row again and again; the
\* intakes and the controller run every tick; an orphaned lease runs out; the
\* endpoint answers, accepts and finishes.  Nothing that fails is fair.
Fairness ==
  /\ SF_vars(RecoverClaims) /\ SF_vars(ClaimRows)
  /\ \A r \in Requests :
       /\ WF_vars(Reserve(r)) /\ WF_vars(RetryPreparation(r))
       /\ \A n \in 1..MaxPreparations : WF_vars(PublishPreparation(r, n))
       /\ WF_vars(r \notin held /\ Lapse(r))
       /\ WF_vars(MarkSending(r) \/ Publish(r) \/ SendAccepted(r) \/ SendRefused(r))
       /\ SF_vars(Ask(r))
       /\ WF_vars(NotFound(r) \/ Accepted(r) \/ Received(r) \/ PollDone(r))
       /\ WF_vars(DecideRetry(r))
       /\ WF_vars(Answer(r)) /\ WF_vars(Land(r)) /\ WF_vars(Finish(r))
       /\ SF_vars(\E v \in Revisions, repair \in BOOLEAN : Project(r, v, repair))
       /\ SF_vars(\E v \in Revisions : Acknowledge(r, v) \/ Recover(r, v))
       /\ WF_vars(\E v \in Revisions, end \in Terminal : Release(r, v) \/ Complete(r, v, end))
       /\ WF_vars(\E v \in Revisions : RecoveryLands(r, v) \/ RecoveryAccepted(r, v))
       /\ WF_vars(\E v \in Revisions : DecideRecovery(r, v))

FairSpec == Spec /\ Fairness

-----------------------------------------------------------------------------
(* Properties.                                                             *)

TypeOK ==
  /\ rows \in [Requests -> [request : {"created", "preparing", "blocked", "routed", "accepted",
                  "uncertain", "retry-decision-pending"} \cup Terminal,
                attempt : {"none", "prepared", "queued", "sent", "accepted", "uncertain",
                  "retry-decision-pending", "returning"} \cup Terminal,
                box : Boxes]]
  /\ prep \in [Requests -> [n : 0..MaxPreparations, gen : 0..MaxGeneration,
                state : {"none", "reserved", "failed", "superseded", "published"}]]
  /\ builders \in [Requests -> [1..MaxPreparations -> 0..MaxBuilders]]
  /\ cause \in [Requests -> {"none", "unknown", "unpublished", "known"}]
  /\ retries \in [Requests -> 0..MaxRetries]
  /\ claim \in [Requests -> {"none", "live", "lapsed"}]
  /\ query \in [Requests -> [gen : 0..MaxGeneration, rev : 0..2,
                  answer : {"none", "not-found", "accepted", "result"}]]
  /\ returns \in [Requests -> [Revisions -> {"none", "received", "projected-ready",
        "recovery-decision-pending", "recovery-superseded", "recovery-unrecoverable",
        "acknowledged"}]]
  /\ recovery \in [Requests -> [Revisions -> Dispatchable \cup {"none", "decision-pending",
        "dispatched", "result-received", "completed", "unrecoverable"}]]
  /\ held \subseteq Requests
  /\ {ingress, poll, back} \subseteq
       [on : Requests \cup {NoRequest}, rev : Revisions, seen : Pollable \cup {"none"},
        pc : {"idle", "marked", "out", "asked", "result", "done", "ack", "released", "recover",
              "repaired"}]
  /\ remote \in [Requests -> [flight : BOOLEAN, known : BOOLEAN, rev : 0..2,
                   repaired : SUBSET Revisions, released : SUBSET Revisions]]
  /\ generation \in 1..MaxGeneration /\ faults \in 0..MaxFaults

\* The three rows of a request, written by five repositories, never disagree: the
\* attempt follows the outbox row, a request that waits for a decision or is over
\* says so in all three, and there is an attempt exactly when the latest
\* preparation was published, whichever builder finished first.
RowsAgree ==
  \A r \in Requests :
    /\ rows[r].attempt = CASE Box(r) \in {"pending", "retry"} -> "prepared"
                           [] Box(r) = "claimed"              -> "queued"
                           [] Box(r) = "sending"              -> "sent"
                           [] Box(r) = "decision-pending"     -> "retry-decision-pending"
                           [] Box(r) = "completed"            -> rows[r].request
                           [] OTHER                           -> Box(r)
    /\ Box(r) = "decision-pending" <=> rows[r].request = "retry-decision-pending"
    /\ Box(r) \in Terminal <=> rows[r].request \in Terminal
    /\ Box(r) # "none" <=> prep[r].state = "published"
    /\ rows[r].request \in {"created", "preparing", "blocked"} <=> Box(r) = "none"

\* The endpoint is never given more requests than its capacity, counting those
\* whose fate nobody knows yet.
CapacityHeld ==
  Cardinality({r \in Requests : Box(r) \notin
                 {"none", "pending", "retry"} \cup Terminal}) <= Capacity

\* While a request is on its way out again, no query identity of an earlier
\* delivery is open: an answer given before the publication is never read after it.
NoOpenQueryAcrossPublication ==
  \A r \in Requests : Box(r) \in {"pending", "retry", "claimed", "sending"} => query[r].gen = 0

\* A request that may have left the host is sent again only after a retry decision,
\* hence on a failure that is classed as before the publication: never because a
\* claim ran out, a pass died or a call has no answer.
RepeatedOnlyByDecision ==
  \A r \in Requests :
    Box(r) \in {"pending", "retry", "claimed"} /\ (remote[r].flight \/ remote[r].known)
      => retries[r] > 0

\* The endpoint is told to forget a result only when the projection of that very
\* revision is stored and no recovery can still ask for it.
ReleasedAfterProjection ==
  \A r \in Requests : \A v \in remote[r].released :
    returns[r][v] \in {"projected-ready", "recovery-unrecoverable", "acknowledged"}

\* The stages of one job are recovered once, however often a recovery is
\* dispatched and whatever the repaired result asks for.
OneRecoveryPerJob == \A r \in Requests : Cardinality(remote[r].repaired) <= 1

\* Nothing moves a finished request again: no late delivery, answer, decision,
\* builder or recovery.
TerminalIsFinal ==
  [][\A r \in Requests : Box(r) \in Terminal => rows'[r] = rows[r]]_vars

\* Once everything has stopped going wrong, every request is over or waits for a
\* backend, a new daemon or a person.
EveryRequestSettles ==
  \A r \in Requests : <>[](rows[r].request \in Terminal \cup {"blocked"})

\* "The compatibility channel exposes one mutable input/job.json. Fence
\* publication until that request is endpoint-visible." (endpoint_dispatcher.py)
PublicationFenced ==
  ~Append => Cardinality({r \in Requests : remote[r].flight}) <= 1
=============================================================================
