--------------------------- MODULE ControlOutbox ---------------------------
(***************************************************************************)
(* The transactional outbox of the control database                        *)
(* (ascendop_control/storage/outbox_repository.py) and the workers that    *)
(* deliver it (ascendop_control/delivery.py and _keep_request_claim of     *)
(* ascendop_daemon/automation/delivery_runtime.py).                        *)
(*                                                                         *)
(* Every repository call is one BEGIN IMMEDIATE transaction.  Claim, finish*)
(* and defer read the clock before they wait for the write lock, renew     *)
(* after it: a worker's clock reading is up to MaxWait old (the busy       *)
(* timeout of a connection) when its transaction runs.  Times are kept     *)
(* relative to the present, so no bound on the clock is needed.            *)
(***************************************************************************)
EXTENDS Integers

CONSTANTS
  Intents,    \* outbox identities: one (origin, attempt, topic) each
  Workers,    \* delivery threads and processes
  Scope,      \* the intents whose topic and origin a worker serves
  Kept,       \* intents whose handler keeps its claim alive (test.request)
  NoIntent,
  LeaseTime,  \* lease_seconds
  MaxWait,    \* the busy timeout: how old a clock reading may get
  Delay,      \* delay_seconds of a deferral
  MaxFaults   \* bound: crashes, lock timeouts, lapsed leases, refused deliveries

ASSUME OutboxAssumption ==
  /\ NoIntent \notin Intents
  /\ Scope \in [Workers -> SUBSET Intents]
  /\ Kept \subseteq Intents
  /\ LeaseTime \in Nat /\ MaxWait \in Nat /\ Delay \in Nat /\ MaxFaults \in Nat
  /\ MaxWait < LeaseTime

VARIABLES
  row,      \* control_outbox_v5
  worker,   \* what each worker is doing, and the claim it has in memory
  effects,  \* side effects performed: <<intent, claim token>>
  faults    \* how often something went wrong

vars == <<row, worker, effects, faults>>

\* wait: available_at from now; left: lease_expires_at from now.  A token is
\* random in the code: here it is the number of the claim that drew it, 0 for ''.
NoRow == [state |-> "absent", wait |-> 0, left |-> 0, token |-> 0, claims |-> 0, result |-> 0]

\* age: how long ago the worker read the clock for its pending transaction.
Idle == [pc |-> "idle", intent |-> NoIntent, token |-> 0, age |-> 0]

Init ==
  /\ row = [i \in Intents |-> NoRow]
  /\ worker = [d \in Workers |-> Idle]
  /\ effects = {}
  /\ faults = 0

\* Beyond MaxWait the past is all alike.
Floor(t) == IF t < -MaxWait THEN -MaxWait ELSE t

Become(d, pc) == worker' = [worker EXCEPT ![d].pc = pc, ![d].age = 0]
Rest(d) == worker' = [worker EXCEPT ![d] = Idle]
Fault == faults < MaxFaults /\ faults' = faults + 1

\* Mutants of Due: a claim is compared with the new expiry; a claim is never
\* taken over.
DueByNewExpiry(i, age) ==
  \/ row[i].state = "pending" /\ row[i].wait <= -age
  \/ row[i].state = "claimed" /\ row[i].left <= LeaseTime - age
PendingOnly(i, age) == row[i].state = "pending" /\ row[i].wait <= -age

Due(i, age) ==
  \/ row[i].state = "pending" /\ row[i].wait <= -age
  \/ row[i].state = "claimed" /\ row[i].left <= -age

\* Mutants of HoldsClaim: any claim will do; an expired claim will do.
AnyClaim(d, age) ==
  row[worker[d].intent].state = "claimed" /\ row[worker[d].intent].left > -age
ExpiredClaim(d, age) ==
  /\ row[worker[d].intent].state = "claimed"
  /\ row[worker[d].intent].token = worker[d].token

\* _require_claim, at a clock reading of the given age.
HoldsClaim(d, age) ==
  LET r == row[worker[d].intent] IN
  /\ r.state = "claimed"
  /\ r.token = worker[d].token
  /\ r.left > -age

Renewed(r) == [r EXCEPT !.left = LeaseTime]

\* Mutant: the row is finished before the handler ran.
Unhandled == {"handling", "fenced", "performed"}

Handled == {"performed"}

-----------------------------------------------------------------------------
(* The transaction that owes the work.                                     *)

\* enqueue_control_intent; a repeated enqueue changes nothing.  The row is
\* available from its created_at, which is not in the future.
Enqueue(i) ==
  /\ row[i].state = "absent"
  /\ \E created \in -MaxWait..0 :
       row' = [row EXCEPT ![i] = [NoRow EXCEPT !.state = "pending", !.wait = created]]
  /\ UNCHANGED <<worker, effects, faults>>

-----------------------------------------------------------------------------
(* One worker: dispatch_topic and deliver_claim.                           *)

Look(d) ==
  /\ worker[d].pc = "idle"
  /\ Become(d, "claiming")
  /\ UNCHANGED <<row, effects, faults>>

\* claim_control_outbox: the row that has been available for longest.
Claim(d, i) ==
  LET age == worker[d].age
      claim == row[i].claims + 1
  IN
  /\ worker[d].pc = "claiming"
  /\ Due(i, age)
  /\ \A j \in Scope[d] : Due(j, age) => row[i].wait <= row[j].wait
  /\ row' = [row EXCEPT ![i] = [@ EXCEPT !.state = "claimed", !.token = claim,
                                         !.left = LeaseTime - age, !.claims = claim]]
  /\ worker' = [worker EXCEPT ![d] =
       [pc |-> "handling", intent |-> i, token |-> claim, age |-> 0]]
  /\ UNCHANGED <<effects, faults>>

FindNothing(d) ==
  /\ worker[d].pc = "claiming"
  /\ \A j \in Scope[d] : ~Due(j, worker[d].age)
  /\ Rest(d)
  /\ UNCHANGED <<row, effects, faults>>

\* _keep_request_claim renews the claim before the side effect ...
Fence(d) ==
  LET i == worker[d].intent IN
  /\ worker[d].pc = "handling" /\ i \in Kept
  /\ \/ /\ HoldsClaim(d, 0)
        /\ row' = [row EXCEPT ![i] = Renewed(@)]
        /\ Become(d, "fenced")
     \/ /\ ~HoldsClaim(d, 0)
        /\ Become(d, "deferring")
        /\ UNCHANGED row
  /\ UNCHANGED <<effects, faults>>

\* ... and a thread renews it until the handler is left.
Beat(d) ==
  /\ worker[d].pc \in {"fenced", "performed"} /\ worker[d].intent \in Kept
  /\ HoldsClaim(d, 0)
  /\ row' = [row EXCEPT ![worker[d].intent] = Renewed(@)]
  /\ UNCHANGED <<worker, effects, faults>>

Perform(d) ==
  LET i == worker[d].intent IN
  /\ worker[d].pc = IF i \in Kept THEN "fenced" ELSE "handling"
  /\ effects' = effects \cup {<<i, worker[d].token>>}
  /\ Become(d, "performed")
  /\ UNCHANGED <<row, faults>>

Return(d) ==
  /\ worker[d].pc \in Handled
  /\ Become(d, "finishing")
  /\ UNCHANGED <<row, effects, faults>>

\* The renewal thread saw the claim lost: the handler raises when it is left.
LoseClaim(d) ==
  /\ worker[d].pc = "performed" /\ worker[d].intent \in Kept
  /\ ~HoldsClaim(d, 0)
  /\ Become(d, "deferring")
  /\ UNCHANGED <<row, effects, faults>>

\* finish_control_outbox; a refusal is handled like an exception of the handler.
Finish(d) ==
  LET i == worker[d].intent IN
  /\ worker[d].pc = "finishing"
  /\ \/ /\ HoldsClaim(d, worker[d].age)
        /\ row' = [row EXCEPT ![i] = [@ EXCEPT
             !.state = "delivered", !.result = worker[d].token, !.token = 0, !.left = 0]]
        /\ Rest(d)
     \/ /\ ~HoldsClaim(d, worker[d].age)
        /\ Become(d, "deferring")
        /\ UNCHANGED row
  /\ UNCHANGED <<effects, faults>>

\* A worker puts its row back because the handler said so ("pausing") or after
\* an exception ("deferring"); a first refusal is an exception itself.
GivingUp == {"pausing", "deferring"}

\* defer_control_outbox; a worker that lost its claim leaves the row alone.
Defer(d) ==
  LET i == worker[d].intent
      age == worker[d].age
  IN
  /\ worker[d].pc \in GivingUp
  /\ \/ /\ HoldsClaim(d, age)
        /\ row' = [row EXCEPT ![i] = [@ EXCEPT
             !.state = "pending", !.wait = Floor(Delay - age), !.token = 0, !.left = 0]]
        /\ Rest(d)
     \/ /\ ~HoldsClaim(d, age)
        /\ IF worker[d].pc = "pausing" THEN Become(d, "deferring") ELSE Rest(d)
        /\ UNCHANGED row
  /\ UNCHANGED <<effects, faults>>

-----------------------------------------------------------------------------
(* What goes wrong, and time.                                              *)

\* The handler raises, or reports that scheduling is paused or the answer pending.
Refuse(d) ==
  /\ worker[d].pc \in {"handling", "fenced", "performed"}
  /\ \E pc \in GivingUp : Become(d, pc)
  /\ Fault
  /\ UNCHANGED <<row, effects>>

\* The busy timeout of the connection: the transaction never ran.
LockTimeout(d) ==
  /\ worker[d].age = MaxWait
  /\ \/ worker[d].pc \in {"claiming", "deferring"} /\ Rest(d)
     \/ worker[d].pc \in {"finishing", "pausing"} /\ Become(d, "deferring")
  /\ Fault
  /\ UNCHANGED <<row, effects>>

\* A process cut: only what is in the database remains.
Crash(d) ==
  /\ worker[d].pc # "idle"
  /\ Rest(d)
  /\ Fault
  /\ UNCHANGED <<row, effects>>

Waiting == {"claiming", "finishing"} \cup GivingUp

\* The worker still works under a claim that expires next.
Lapsing(d) ==
  /\ worker[d].intent # NoIntent
  /\ HoldsClaim(d, 0) /\ row[worker[d].intent].left = 1

Tick ==
  /\ \A d \in Workers : worker[d].pc \in Waiting => worker[d].age < MaxWait
  /\ IF \E d \in Workers : Lapsing(d) THEN Fault ELSE UNCHANGED faults
  /\ row' = [i \in Intents |-> [row[i] EXCEPT
       !.wait = IF row[i].state = "absent" THEN @ ELSE Floor(@ - 1),
       !.left = IF row[i].state = "claimed" THEN Floor(@ - 1) ELSE @]]
  /\ worker' = [d \in Workers |-> [worker[d] EXCEPT
       !.age = IF worker[d].pc \in Waiting THEN @ + 1 ELSE @]]
  /\ UNCHANGED effects

-----------------------------------------------------------------------------

Work(d) ==
  \/ Look(d) \/ FindNothing(d) \/ \E i \in Scope[d] : Claim(d, i)
  \/ Fence(d) \/ Perform(d) \/ Return(d) \/ LoseClaim(d) \/ Finish(d) \/ Defer(d)

Next ==
  \/ \E i \in Intents : Enqueue(i)
  \/ \E d \in Workers : Work(d) \/ Beat(d) \/ Refuse(d) \/ LockTimeout(d) \/ Crash(d)
  \/ Tick

Spec == Init /\ [][Next]_vars

\* The resident loop dispatches again and again, handlers return, time passes.
FairSpec == Spec /\ WF_vars(Tick) /\ \A d \in Workers : WF_vars(Work(d))

-----------------------------------------------------------------------------
(* Properties.                                                             *)

OutboxRow ==
  [state : {"absent", "pending", "claimed", "delivered"},
   wait : -MaxWait..Delay, left : -MaxWait..LeaseTime,
   token : Nat, claims : Nat, result : Nat]
WorkerState ==
  [pc : {"idle", "handling", "fenced", "performed"} \cup Waiting,
   intent : Intents \cup {NoIntent}, token : Nat, age : 0..MaxWait]

\* Rows and workers are what the schema and the delivery loop make of them.
TypeOK ==
  /\ row \in [Intents -> OutboxRow]
  /\ worker \in [Workers -> WorkerState]
  /\ effects \subseteq Intents \X Nat
  /\ faults \in 0..MaxFaults

\* The result stored with a delivered intent is that of its last claim, and the
\* worker that held this claim did perform the side effect.
LastClaimDelivers ==
  \A i \in Intents : row[i].state = "delivered" =>
    row[i].result = row[i].claims /\ <<i, row[i].result>> \in effects

\* An intent is claimed again only after something went wrong: a stale clock
\* reading alone never takes a claim away from a worker that is in time.
RepeatedOnlyAfterFault ==
  \A i \in Intents : row[i].claims <= 1 + faults

\* A delivered intent is never claimed, deferred or answered again.
DeliveredIsFinal ==
  [][\A i \in Intents : row[i].state = "delivered" =>
       /\ row'[i].state = "delivered"
       /\ row'[i].claims = row[i].claims /\ row'[i].result = row[i].result]_vars

\* A claim that has expired is never extended; it can only be finished by a call
\* that read the clock in time, deferred, or taken over under another token.
NoRevival ==
  [][\A i \in Intents :
       row[i].state = "claimed" /\ row[i].left <= 0 /\ row'[i].token = row[i].token =>
         row'[i].left <= row[i].left]_vars

-----------------------------------------------------------------------------
(* The promise of the outbox.                                              *)

Stage == [i \in Intents |->
  IF row[i].state \in {"pending", "claimed"} THEN "open" ELSE row[i].state]
Performed == {e[1] : e \in effects}
Promise == INSTANCE AtLeastOnce WITH stage <- Stage, performed <- Performed

\* The outbox implements at-least-once delivery.
KeepsPromise == Promise!Spec

\* Every intent is delivered in the end, once faults have stopped.
EveryIntentDelivered == Promise!Delivery
=============================================================================
