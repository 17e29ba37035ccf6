------------------------ MODULE ControlOutbox_proofs ------------------------
(***************************************************************************)
(* Proofs about ControlOutbox for every set of intents and workers, every  *)
(* scope of the workers, lease, delay and bound, as long as the busy       *)
(* timeout is shorter than the lease (OutboxAssumption).                   *)
(*                                                                         *)
(* A worker changes itself alone (lemma MoveStep) or itself and one row    *)
(* (lemma WriteStep); the passing of time changes everything a little and  *)
(* is argued directly.                                                     *)
(***************************************************************************)
EXTENDS ControlOutbox, TLAPS

-----------------------------------------------------------------------------
(* The inductive invariant.                                                *)

\* Row r of intent i against the effects E and the number f of faults so far:
\* a claim that nobody may repeat yet is the only one beyond the faults.
Sound(i, r, E, f) ==
  /\ r.state = "absent" => r.claims = 0
  /\ r.token = IF r.state = "claimed" THEN r.claims ELSE 0
  /\ r.state = "claimed" => r.claims # 0
  /\ r.state = "delivered" => r.result = r.claims /\ <<i, r.result>> \in E
  /\ r.claims <= 1 + f
  /\ r.state \in {"absent", "pending"} => r.claims <= f
  /\ r.state = "claimed" /\ r.left <= 0 => r.claims <= f

\* Worker value w is about a claim that was drawn from its row.
Honest(w, E) ==
  /\ w.intent = NoIntent <=> w.pc \in {"idle", "claiming"}
  /\ w.intent # NoIntent => w.token \in 1..row[w.intent].claims
  /\ w.pc \in {"performed", "finishing"} => <<w.intent, w.token>> \in E

Owns(w, i) == w.intent = i /\ row[i].state = "claimed" /\ w.token = row[i].token

RowsSound == \A i \in Intents : Sound(i, row[i], effects, faults)
WorkersHonest == \A d \in Workers : Honest(worker[d], effects)

\* A claim without its worker, or whose worker gave up, was paid for by a fault.
ClaimsPaid ==
  \A i \in Intents : row[i].state = "claimed" =>
    \/ row[i].claims <= faults
    \/ \E d \in Workers : Owns(worker[d], i)
GivenUp ==
  \A i \in Intents, d \in Workers :
    Owns(worker[d], i) /\ worker[d].pc \in GivingUp => row[i].claims <= faults

IInv == TypeOK /\ RowsSound /\ WorkersHonest /\ ClaimsPaid /\ GivenUp

-----------------------------------------------------------------------------

\* The initial state satisfies the invariant.
LEMMA InitInv == Init => IInv
  <1> SUFFICES ASSUME Init PROVE IInv
    OBVIOUS
  <1>1. NoRow \in OutboxRow /\ Idle \in WorkerState
    BY OutboxAssumption DEF NoRow, OutboxRow, Idle, WorkerState
  <1>2. TypeOK
    BY <1>1, OutboxAssumption DEF Init, TypeOK
  <1>3. RowsSound /\ ClaimsPaid /\ GivenUp
    BY DEF Init, RowsSound, ClaimsPaid, GivenUp, Sound, Owns, NoRow
  <1>4. WorkersHonest
    BY DEF Init, WorkersHonest, Honest, Idle
  <1>5. QED
    BY <1>2, <1>3, <1>4 DEF IInv

\* A step that only changes worker d, and may count a fault or an effect, keeps
\* the invariant if the new value is honest and, unless the claim was paid for,
\* d does not drop or give up a claim it owns.
LEMMA MoveStep ==
  ASSUME IInv, NEW d \in Workers, NEW w \in WorkerState,
         worker' = [worker EXCEPT ![d] = w], row' = row,
         effects \subseteq effects', effects' \subseteq Intents \X Nat,
         faults' \in 0..MaxFaults, faults <= faults',
         Honest(w, effects'),
         \A i \in Intents : Owns(worker[d], i) =>
           (w.intent = i /\ w.pc \notin GivingUp) \/ row[i].claims <= faults',
         \/ w.intent = NoIntent
         \/ w.intent = worker[d].intent /\ w.token = worker[d].token
  PROVE  IInv'
  <1>1. TypeOK
    BY DEF IInv
  <1>2. worker'[d] = w /\ \A e \in Workers : e # d => worker'[e] = worker[e]
    BY <1>1 DEF TypeOK
  <1>3. faults \in Nat /\ faults' \in Nat
    BY <1>1, OutboxAssumption DEF TypeOK
  <1>4. TypeOK'
    BY <1>1 DEF TypeOK
  <1>5. \A i \in Intents : row[i].claims \in Nat
    BY <1>1 DEF TypeOK, OutboxRow
  <1>6. RowsSound'
    BY <1>3, <1>5 DEF IInv, RowsSound, Sound
  <1>7. WorkersHonest'
    BY <1>2 DEF IInv, WorkersHonest, Honest
  <1>8. ClaimsPaid'
    <2> SUFFICES ASSUME NEW i \in Intents, row[i].state = "claimed", ~(row[i].claims <= faults')
                 PROVE  \E e \in Workers : Owns(worker[e], i)'
      BY DEF ClaimsPaid
    <2>1. PICK e \in Workers : Owns(worker[e], i)
      BY <1>3, <1>5 DEF IInv, ClaimsPaid
    <2>2. CASE e = d
      <3>1. w.intent = i /\ w.intent # NoIntent
        BY <2>1, <2>2, OutboxAssumption
      <3>2. w.token = row[i].token
        BY <2>1, <2>2, <3>1 DEF Owns
      <3>3. QED
        BY <3>1, <3>2, <1>2 DEF Owns
    <2>3. CASE e # d
      BY <2>1, <2>3, <1>2 DEF Owns
    <2>4. QED
      BY <2>2, <2>3
  <1>9. GivenUp'
    <2> SUFFICES ASSUME NEW i \in Intents, NEW e \in Workers,
                        Owns(worker'[e], i), worker'[e].pc \in GivingUp
                 PROVE  row[i].claims <= faults'
      BY DEF GivenUp, Owns
    <2>1. CASE e # d
      BY <2>1, <1>2, <1>3, <1>5 DEF IInv, GivenUp
    <2>2. CASE e = d
      <3>1. w.pc \in GivingUp /\ w.intent = i /\ row[i].state = "claimed"
            /\ w.token = row[i].token
        BY <2>2, <1>2 DEF Owns
      <3>2. Owns(worker[d], i)
        BY <3>1, OutboxAssumption DEF Owns
      <3>3. QED
        BY <3>1, <3>2
    <2>3. QED
      BY <2>1, <2>2
  <1>10. QED
    BY <1>4, <1>6, <1>7, <1>8, <1>9 DEF IInv

\* A step of worker d on row i keeps the invariant if the new row is sound, a
\* claim left in it is the worker's own or was paid for, and tokens only grow.
LEMMA WriteStep ==
  ASSUME IInv, NEW d \in Workers, NEW i \in Intents,
         NEW w \in WorkerState, NEW r \in OutboxRow,
         worker' = [worker EXCEPT ![d] = w], row' = [row EXCEPT ![i] = r],
         UNCHANGED <<effects, faults>>,
         Sound(i, r, effects, faults),
         w.intent = NoIntent <=> w.pc \in {"idle", "claiming"},
         w.intent # NoIntent => w.intent = i /\ w.token \in 1..r.claims,
         w.pc \in {"performed", "finishing"} => <<w.intent, w.token>> \in effects,
         r.state = "claimed" => w.intent = i /\ w.token = r.token /\ w.pc \notin GivingUp,
         worker[d].intent \in {i, NoIntent},
         \/ r.claims >= row[i].claims /\ r.state # "claimed"
         \/ r.claims > row[i].claims
         \/ row[i].state = "claimed" /\ r.claims = row[i].claims
  PROVE  IInv'
  <1>1. TypeOK
    BY DEF IInv
  <1>2. worker'[d] = w /\ \A e \in Workers : e # d => worker'[e] = worker[e]
    BY <1>1 DEF TypeOK
  <1>3. row'[i] = r /\ \A j \in Intents : j # i => row'[j] = row[j]
    BY <1>1 DEF TypeOK
  <1>4. TypeOK'
    BY <1>1 DEF TypeOK
  <1>5. /\ faults \in Nat /\ r.claims \in Nat
        /\ \A j \in Intents : row[j].claims \in Nat
    BY <1>1, OutboxAssumption DEF TypeOK, OutboxRow
  <1>6. row[i].claims <= r.claims
    BY <1>5
  <1>7. RowsSound'
    BY <1>3 DEF IInv, RowsSound
  <1>8. WorkersHonest'
    <2> SUFFICES ASSUME NEW e \in Workers PROVE Honest(worker[e], effects)'
      BY DEF WorkersHonest
    <2>1. CASE e = d
      BY <2>1, <1>2, <1>3 DEF Honest
    <2>2. CASE e # d
      <3>1. Honest(worker[e], effects) /\ worker[e].intent \in Intents \cup {NoIntent}
        BY <1>1 DEF IInv, WorkersHonest, TypeOK, WorkerState
      <3>2. worker[e].intent # NoIntent => worker[e].token \in 1..row'[worker[e].intent].claims
        BY <3>1, <1>3, <1>5, <1>6 DEF Honest
      <3>3. QED
        BY <2>2, <3>1, <3>2, <1>2 DEF Honest
    <2>3. QED
      BY <2>1, <2>2
  <1>9. ClaimsPaid'
    <2> SUFFICES ASSUME NEW j \in Intents, row'[j].state = "claimed"
                 PROVE  \/ row'[j].claims <= faults
                        \/ \E e \in Workers : Owns(worker[e], j)'
      BY DEF ClaimsPaid
    <2>1. CASE j = i
      BY <2>1, <1>2, <1>3 DEF Owns
    <2>2. CASE j # i
      <3>1. row'[j] = row[j]
        BY <2>2, <1>3
      <3>2. CASE row[j].claims <= faults
        BY <3>1, <3>2
      <3>3. ASSUME NEW e \in Workers, Owns(worker[e], j)
            PROVE  Owns(worker[e], j)'
        <4>1. e # d
          BY <2>2, <3>3, OutboxAssumption DEF Owns
        <4>2. QED
          BY <4>1, <3>1, <3>3, <1>2 DEF Owns
      <3>4. QED
        BY <3>1, <3>2, <3>3 DEF IInv, ClaimsPaid
    <2>3. QED
      BY <2>1, <2>2
  <1>10. GivenUp'
    <2> SUFFICES ASSUME NEW j \in Intents, NEW e \in Workers,
                        Owns(worker[e], j)', worker'[e].pc \in GivingUp
                 PROVE  row'[j].claims <= faults
      BY DEF GivenUp
    <2>1. CASE e = d
      BY <2>1, <1>2, <1>3, OutboxAssumption DEF Owns
    <2>2. CASE e # d /\ j # i
      BY <2>2, <1>2, <1>3 DEF IInv, GivenUp, Owns
    <2>3. CASE e # d /\ j = i
      <3>1. worker[e].token = r.token /\ worker[e].intent = i /\ r.state = "claimed"
        BY <2>3, <1>2, <1>3 DEF Owns
      <3>2. worker[e].token \in 1..row[i].claims
        BY <3>1, OutboxAssumption DEF IInv, WorkersHonest, Honest
      <3>3. r.token = r.claims
        BY <3>1 DEF Sound
      <3>4. row[i].state = "claimed" /\ r.claims = row[i].claims
        BY <3>1, <3>2, <3>3, <1>5
      <3>5. row[i].token = row[i].claims
        BY <3>4 DEF IInv, RowsSound, Sound
      <3>6. Owns(worker[e], i)
        BY <3>1, <3>3, <3>4, <3>5 DEF Owns
      <3>7. QED
        BY <2>3, <3>4, <3>6, <1>2, <1>3 DEF IInv, GivenUp
    <2>4. QED
      BY <2>1, <2>2, <2>3
  <1>11. QED
    BY <1>4, <1>7, <1>8, <1>9, <1>10 DEF IInv

-----------------------------------------------------------------------------
(* The steps of one worker.                                                *)

\* The counters and bounds are natural numbers.
LEMMA Numbers ==
  ASSUME TypeOK
  PROVE  /\ MaxWait \in Nat /\ LeaseTime \in Nat /\ Delay \in Nat /\ MaxFaults \in Nat
         /\ faults \in Nat /\ faults \in 0..MaxFaults
         /\ \A i \in Intents : row[i].claims \in Nat /\ row[i].token \in Nat
  BY OutboxAssumption DEF TypeOK, OutboxRow

\* Types of what a worker holds.
LEMMA WorkerTypes ==
  ASSUME TypeOK, NEW d \in Workers
  PROVE  /\ worker[d] \in WorkerState
         /\ worker[d].age \in 0..MaxWait
         /\ worker[d].token \in Nat
         /\ worker[d].intent \in Intents \cup {NoIntent}
         /\ Idle \in WorkerState
  BY OutboxAssumption DEF TypeOK, WorkerState, Idle

\* A worker that turns to something else with the claim it has.
LEMMA NewWorker ==
  ASSUME TypeOK, NEW d \in Workers,
         NEW pc \in {"claiming", "handling", "fenced", "performed", "finishing"} \cup GivingUp
  PROVE  LET w == [worker[d] EXCEPT !.pc = pc, !.age = 0] IN
         /\ w \in WorkerState
         /\ w.intent = worker[d].intent /\ w.token = worker[d].token /\ w.pc = pc
  <1>1. worker[d] \in WorkerState /\ 0 \in 0..MaxWait
    BY OutboxAssumption DEF TypeOK
  <1>2. QED
    BY <1>1 DEF WorkerState, Waiting, GivingUp

\* Become and Rest give worker d a new value.
LEMMA WorkerValue ==
  ASSUME TypeOK, NEW d \in Workers, NEW pc
  PROVE  /\ Become(d, pc) =>
              worker' = [worker EXCEPT ![d] = [worker[d] EXCEPT !.pc = pc, !.age = 0]]
         /\ Rest(d) => worker' = [worker EXCEPT ![d] = Idle]
  BY DEF TypeOK, WorkerState, Become, Rest

\* A worker that owns a claim but may not use it has let it expire.
LEMMA NotHeld ==
  ASSUME IInv, NEW d \in Workers, NEW age \in 0..MaxWait, ~HoldsClaim(d, age),
         NEW i \in Intents, Owns(worker[d], i)
  PROVE  row[i].claims <= faults
  <1>1. row[i].left <= -age /\ row[i].state = "claimed" /\ row[i] \in OutboxRow
    BY DEF HoldsClaim, Owns, IInv, TypeOK, OutboxRow
  <1>2. row[i].left <= 0
    BY <1>1, OutboxAssumption DEF OutboxRow
  <1>3. QED
    BY <1>1, <1>2 DEF IInv, RowsSound, Sound

\* A worker lets go of its claim, or goes on to put it back, after a fault or
\* after the claim was paid for.
LEMMA LetGoStep ==
  ASSUME IInv, NEW d \in Workers, UNCHANGED <<row, effects>>,
         \/ Rest(d)
         \/ \E pc \in GivingUp : Become(d, pc) /\ worker[d].intent # NoIntent,
         \/ Fault
         \/ faults' = faults /\ \A i \in Intents : Owns(worker[d], i) => row[i].claims <= faults
  PROVE  IInv'
  <1>1. TypeOK /\ faults' \in 0..MaxFaults /\ faults <= faults'
    BY Numbers DEF IInv, Fault
  <1>2. \A i \in Intents : Owns(worker[d], i) => row[i].claims <= faults'
    <2> SUFFICES ASSUME NEW i \in Intents, Owns(worker[d], i) PROVE row[i].claims <= faults'
      OBVIOUS
    <2>1. row[i].claims <= 1 + faults
      BY DEF IInv, RowsSound, Sound
    <2>2. row[i].claims \in Nat /\ faults \in Nat
      BY Numbers DEF IInv
    <2>3. QED
      BY <2>1, <2>2 DEF Fault
  <1>3. effects' \subseteq Intents \X Nat /\ Honest(worker[d], effects)
    BY <1>1 DEF TypeOK, IInv, WorkersHonest
  <1>4. CASE Rest(d)
    <2>1. Honest(Idle, effects')
      BY DEF Honest, Idle
    <2>2. QED
      BY <1>1, <1>2, <1>3, <1>4, <2>1, WorkerTypes, WorkerValue, MoveStep DEF Idle
  <1>5. ASSUME NEW pc \in GivingUp, Become(d, pc), worker[d].intent # NoIntent
        PROVE  IInv'
    <2> DEFINE w == [worker[d] EXCEPT !.pc = pc, !.age = 0]
    <2>1. w \in WorkerState /\ w.intent = worker[d].intent /\ w.token = worker[d].token
          /\ w.pc = pc /\ pc \in {"pausing", "deferring"}
      BY <1>1, NewWorker DEF GivingUp
    <2>2. worker' = [worker EXCEPT ![d] = w]
      BY <1>1, <1>5, WorkerValue
    <2> HIDE DEF w
    <2>3. Honest(w, effects')
      BY <1>3, <1>5, <2>1 DEF Honest
    <2>4. QED
      BY <1>1, <1>2, <1>3, <2>1, <2>2, <2>3, MoveStep
  <1>6. QED
    BY <1>4, <1>5

\* A worker goes on with the claim it has.
LEMMA GoOnStep ==
  ASSUME IInv, NEW d \in Workers, NEW pc \in {"claiming", "performed", "finishing"},
         Become(d, pc), UNCHANGED <<row, faults>>,
         effects \subseteq effects', effects' \subseteq Intents \X Nat,
         IF pc = "claiming" THEN worker[d].intent = NoIntent
         ELSE worker[d].intent # NoIntent /\ <<worker[d].intent, worker[d].token>> \in effects'
  PROVE  IInv'
  <1> DEFINE w == [worker[d] EXCEPT !.pc = pc, !.age = 0]
  <1>1. TypeOK /\ Honest(worker[d], effects) /\ faults' \in 0..MaxFaults /\ faults <= faults'
    BY Numbers DEF IInv, WorkersHonest
  <1>2. w \in WorkerState /\ w.intent = worker[d].intent /\ w.token = worker[d].token /\ w.pc = pc
    <2>1. pc \in {"claiming", "handling", "fenced", "performed", "finishing"} \cup GivingUp
      OBVIOUS
    <2>2. QED
      BY <1>1, <2>1, NewWorker
  <1>3. worker' = [worker EXCEPT ![d] = w]
    BY <1>1, WorkerValue
  <1> HIDE DEF w
  <1>4. Honest(w, effects')
    BY <1>1, <1>2 DEF Honest
  <1>5. \A i \in Intents : Owns(worker[d], i) => w.intent = i /\ w.pc \notin GivingUp
    BY <1>2 DEF Owns, GivingUp
  <1>6. QED
    BY <1>1, <1>2, <1>3, <1>4, <1>5, MoveStep

\* The number of an intent's claim is a natural number within its row's claims.
LEMMA Claimed ==
  ASSUME IInv, NEW d \in Workers, worker[d].pc \notin {"idle", "claiming"}
  PROVE  /\ worker[d].intent \in Intents /\ worker[d].intent # NoIntent
         /\ worker[d].token \in 1..row[worker[d].intent].claims
  BY WorkerTypes DEF IInv, WorkersHonest, Honest

\* An enqueued row is new and no worker knows of it.
LEMMA EnqueueInv ==
  ASSUME IInv, NEW i \in Intents, Enqueue(i)
  PROVE  IInv'
  <1>1. TypeOK /\ UNCHANGED <<worker, effects, faults>> /\ row[i].state = "absent"
    BY DEF Enqueue, IInv
  <1>2. PICK created \in -MaxWait..0 :
          row' = [row EXCEPT ![i] = [NoRow EXCEPT !.state = "pending", !.wait = created]]
    BY DEF Enqueue
  <1> DEFINE r == [NoRow EXCEPT !.state = "pending", !.wait = created]
  <1>3. r \in OutboxRow
    <2>1. created \in -MaxWait..Delay /\ 0 \in -MaxWait..LeaseTime /\ 0 \in Nat
      BY OutboxAssumption
    <2>2. QED
      BY <2>1 DEF NoRow, OutboxRow
  <1>4. r.state = "pending" /\ r.claims = 0 /\ r.token = 0
    BY DEF NoRow
  <1> HIDE DEF r
  <1>5. row' = [row EXCEPT ![i] = r]
    BY <1>2 DEF r
  <1>6. TypeOK'
    BY <1>1, <1>3, <1>5 DEF TypeOK
  <1>7. row'[i] = r /\ \A j \in Intents : j # i => row'[j] = row[j]
    BY <1>1, <1>5 DEF TypeOK
  <1>8. RowsSound'
    <2>1. faults \in Nat
      BY <1>1, Numbers
    <2>2. Sound(i, r, effects, faults)
      BY <1>4, <2>1 DEF Sound
    <2>3. QED
      BY <1>1, <1>7, <2>2 DEF IInv, RowsSound
  <1>9. row[i].claims = 0
    BY <1>1 DEF IInv, RowsSound, Sound
  <1>10. WorkersHonest'
    <2> SUFFICES ASSUME NEW d \in Workers PROVE Honest(worker[d], effects)'
      BY DEF WorkersHonest
    <2>1. Honest(worker[d], effects) /\ worker[d].intent \in Intents \cup {NoIntent}
      BY <1>1, WorkerTypes DEF IInv, WorkersHonest
    <2>2. worker[d].intent # i
      BY <1>9, <2>1, OutboxAssumption DEF Honest
    <2>3. QED
      BY <1>1, <1>7, <2>1, <2>2 DEF Honest
  <1>11. ClaimsPaid' /\ GivenUp'
    BY <1>1, <1>4, <1>7 DEF IInv, ClaimsPaid, GivenUp, Owns
  <1>12. QED
    BY <1>6, <1>8, <1>10, <1>11 DEF IInv

\* A claim draws a token above every earlier one, and only when no fault-free
\* worker can be left with the claim it replaces.
LEMMA ClaimInv ==
  ASSUME IInv, NEW d \in Workers, NEW i \in Intents, Claim(d, i)
  PROVE  IInv'
  <1> DEFINE age == worker[d].age
             claim == row[i].claims + 1
             r == [row[i] EXCEPT !.state = "claimed", !.token = claim,
                                 !.left = LeaseTime - age, !.claims = claim]
             w == [pc |-> "handling", intent |-> i, token |-> claim, age |-> 0]
  <1>1. TypeOK /\ row[i] \in OutboxRow /\ row[i].claims \in Nat
    BY Numbers DEF IInv, TypeOK
  <1>2. age \in 0..MaxWait /\ MaxWait \in Nat /\ LeaseTime \in Nat /\ faults \in Nat
    BY <1>1, Numbers, WorkerTypes
  <1>3. LeaseTime - age \in 1..LeaseTime
    BY <1>2, OutboxAssumption
  <1>4. claim \in Nat /\ claim > row[i].claims /\ claim \in 1..claim
    BY <1>1
  <1> HIDE DEF claim
  <1>5. r \in OutboxRow /\ r.claims = claim /\ r.token = claim /\ r.state = "claimed"
        /\ r.left = LeaseTime - age
    <2> DEFINE left == LeaseTime - age
    <2>1. left \in -MaxWait..LeaseTime
      BY <1>2, <1>3
    <2> HIDE DEF left
    <2>2. [row[i] EXCEPT !.state = "claimed", !.token = claim, !.left = left, !.claims = claim]
            \in OutboxRow
      BY <1>1, <1>4, <2>1 DEF OutboxRow
    <2>3. r \in OutboxRow
      BY <2>2 DEF left
    <2>4. QED
      BY <1>1, <2>3 DEF OutboxRow
  <1>6. w \in WorkerState
    BY <1>2, <1>4 DEF WorkerState
  <1>7. row' = [row EXCEPT ![i] = r] /\ worker' = [worker EXCEPT ![d] = w]
        /\ UNCHANGED <<effects, faults>>
    BY <1>1 DEF Claim, TypeOK, OutboxRow, claim
  <1>8. row[i].claims <= faults
    <2>1. CASE row[i].state = "pending"
      BY <2>1 DEF IInv, RowsSound, Sound
    <2>2. CASE row[i].state = "claimed" /\ row[i].left <= -age
      <3>1. row[i].left <= 0
        BY <2>2, <1>1, <1>2 DEF OutboxRow
      <3>2. QED
        BY <2>2, <3>1 DEF IInv, RowsSound, Sound
    <2>3. QED
      BY <2>1, <2>2 DEF Claim, Due
  <1>9. claim <= 1 + faults
    BY <1>1, <1>2, <1>8 DEF claim
  <1>10. worker[d].intent = NoIntent
    BY DEF Claim, IInv, WorkersHonest, Honest
  <1> HIDE DEF r
  <1>11. Sound(i, r, effects, faults)
    BY <1>2, <1>3, <1>4, <1>5, <1>9 DEF Sound
  <1>12. w.intent = i /\ w.token = claim /\ w.pc = "handling"
    OBVIOUS
  <1> HIDE DEF w
  <1>13. i # NoIntent
    BY OutboxAssumption
  <1>14. QED
    BY <1>4, <1>5, <1>6, <1>7, <1>10, <1>11, <1>12, <1>13, WriteStep DEF GivingUp

\* Ways to write a row that a worker owns: renewed, delivered or pending again.
LEMMA RowValues ==
  ASSUME TypeOK, NEW i \in Intents, NEW wait \in -MaxWait..Delay, NEW result \in Nat
  PROVE  /\ Renewed(row[i]) \in OutboxRow
         /\ [row[i] EXCEPT !.state = "delivered", !.result = result, !.token = 0, !.left = 0]
              \in OutboxRow
         /\ [row[i] EXCEPT !.state = "pending", !.wait = wait, !.token = 0, !.left = 0]
              \in OutboxRow
  <1>1. 0 \in -MaxWait..LeaseTime /\ LeaseTime \in -MaxWait..LeaseTime
    BY OutboxAssumption
  <1>2. row[i] \in OutboxRow
    BY DEF TypeOK
  <1>3. QED
    BY <1>1, <1>2 DEF OutboxRow, Renewed

\* A worker that holds its claim may renew it, whatever it does next with it.
LEMMA RenewStep ==
  ASSUME IInv, NEW d \in Workers, HoldsClaim(d, 0),
         worker[d].pc \in {"handling", "fenced", "performed"},
         NEW pc \in {"fenced", "performed"}, pc = "performed" => worker[d].pc = "performed",
         NEW w \in WorkerState, w.pc = pc,
         w.intent = worker[d].intent, w.token = worker[d].token,
         worker' = [worker EXCEPT ![d] = w],
         row' = [row EXCEPT ![worker[d].intent] = Renewed(@)],
         UNCHANGED <<effects, faults>>
  PROVE  IInv'
  <1> DEFINE i == worker[d].intent
             r == Renewed(row[i])
  <1>1. TypeOK /\ i \in Intents /\ i # NoIntent /\ w.token \in 1..row[i].claims
    BY Claimed DEF IInv
  <1>2. r \in OutboxRow
    <2>1. 0 \in -MaxWait..Delay /\ 0 \in Nat
      BY OutboxAssumption
    <2>2. QED
      BY <1>1, <2>1, RowValues
  <1>3. /\ row[i].state = "claimed" /\ row[i].token = w.token
        /\ row[i] \in OutboxRow /\ row[i].claims \in Nat
    BY <1>1 DEF HoldsClaim, TypeOK, OutboxRow
  <1>4. /\ r.state = "claimed" /\ r.token = row[i].token /\ r.claims = row[i].claims
        /\ r.left = LeaseTime
    BY <1>3 DEF Renewed, OutboxRow
  <1>5. Sound(i, row[i], effects, faults)
    BY <1>1 DEF IInv, RowsSound
  <1>6. Honest(worker[d], effects)
    BY DEF IInv, WorkersHonest
  <1>7. row' = [row EXCEPT ![i] = r]
    BY <1>1 DEF TypeOK
  <1> HIDE DEF r, i
  <1>8. Sound(i, r, effects, faults)
    <2>1. ~(r.left <= 0)
      BY <1>4, OutboxAssumption
    <2>2. QED
      BY <1>3, <1>4, <1>5, <2>1 DEF Sound
  <1>9. w.pc = "performed" => <<w.intent, w.token>> \in effects
    BY <1>6 DEF Honest
  <1>10. QED
    BY <1>1, <1>2, <1>3, <1>4, <1>7, <1>8, <1>9, WriteStep DEF i, GivingUp

\* The fence renews a claim that is still held, or gives it up.
LEMMA FenceInv ==
  ASSUME IInv, NEW d \in Workers, Fence(d)
  PROVE  IInv'
  <1> DEFINE w == [worker[d] EXCEPT !.pc = "fenced", !.age = 0]
  <1>1. TypeOK /\ worker[d].pc = "handling" /\ worker[d].intent # NoIntent
        /\ UNCHANGED <<effects, faults>> /\ 0 \in 0..MaxWait
    BY Claimed, Numbers DEF IInv, Fence
  <1>2. CASE HoldsClaim(d, 0)
    <2>1. w \in WorkerState /\ w.intent = worker[d].intent /\ w.token = worker[d].token
          /\ w.pc = "fenced"
      BY <1>1, NewWorker
    <2>2. worker' = [worker EXCEPT ![d] = w]
      BY <1>1, <1>2, WorkerValue DEF Fence
    <2>3. row' = [row EXCEPT ![worker[d].intent] = Renewed(@)]
      BY <1>2 DEF Fence
    <2> HIDE DEF w
    <2>4. QED
      BY <1>1, <1>2, <2>1, <2>2, <2>3, RenewStep
  <1>3. CASE ~HoldsClaim(d, 0)
    <2>1. Become(d, "deferring") /\ row' = row
      BY <1>3 DEF Fence
    <2>2. QED
      BY <1>1, <1>3, <2>1, NotHeld, LetGoStep DEF GivingUp
  <1>4. QED
    BY <1>2, <1>3

\* A heartbeat renews a claim that is still held.
LEMMA BeatInv ==
  ASSUME IInv, NEW d \in Workers, Beat(d)
  PROVE  IInv'
  <1>1. TypeOK /\ worker[d] \in WorkerState
    BY WorkerTypes DEF IInv
  <1>2. worker' = [worker EXCEPT ![d] = worker[d]]
    BY <1>1 DEF Beat, TypeOK
  <1>3. worker[d].pc \in {"fenced", "performed"}
    BY DEF Beat
  <1>4. QED
    BY <1>1, <1>2, <1>3, RenewStep DEF Beat

\* Performing the side effect and returning from the handler.
LEMMA PerformInv ==
  ASSUME IInv, NEW d \in Workers, Perform(d) \/ Return(d)
  PROVE  IInv'
  <1>1. CASE Perform(d)
    <2>1. worker[d].intent \in Intents /\ worker[d].intent # NoIntent
      BY <1>1, Claimed DEF Perform
    <2>2. worker[d].token \in Nat /\ effects \subseteq Intents \X Nat
      BY WorkerTypes DEF IInv, TypeOK
    <2>3. effects' \subseteq Intents \X Nat
      BY <1>1, <2>1, <2>2 DEF Perform
    <2>4. QED
      BY <1>1, <2>1, <2>3, GoOnStep DEF Perform
  <1>2. CASE Return(d)
    <2>1. worker[d].pc = "performed"
      BY <1>2 DEF Return, Handled
    <2>2. worker[d].intent # NoIntent /\ <<worker[d].intent, worker[d].token>> \in effects
      BY <2>1, Claimed DEF IInv, WorkersHonest, Honest
    <2>3. effects' = effects /\ effects \subseteq Intents \X Nat
      BY <1>2 DEF Return, IInv, TypeOK
    <2>4. QED
      BY <1>2, <2>2, <2>3, GoOnStep DEF Return
  <1>3. QED
    BY <1>1, <1>2

\* A worker turns to the next claim, or finds nothing to claim.
LEMMA LookInv ==
  ASSUME IInv, NEW d \in Workers, Look(d) \/ FindNothing(d)
  PROVE  IInv'
  <1>1. worker[d].intent = NoIntent /\ effects \subseteq Intents \X Nat
    BY DEF Look, FindNothing, IInv, WorkersHonest, Honest, TypeOK
  <1>2. CASE Look(d)
    BY <1>1, <1>2, GoOnStep DEF Look
  <1>3. CASE FindNothing(d)
    <2>1. \A i \in Intents : ~Owns(worker[d], i)
      BY <1>1, OutboxAssumption DEF Owns
    <2>2. QED
      BY <1>3, <2>1, LetGoStep DEF FindNothing
  <1>4. QED
    BY <1>2, <1>3

\* What goes wrong: the claim is lost, the handler raises, the lock is not
\* granted, the process is cut.
LEMMA MishapInv ==
  ASSUME IInv, NEW d \in Workers,
         LoseClaim(d) \/ Refuse(d) \/ LockTimeout(d) \/ Crash(d)
  PROVE  IInv'
  <1>1. worker[d].pc \notin {"idle", "claiming"} => worker[d].intent # NoIntent
    BY Claimed
  <1>2. CASE LoseClaim(d)
    <2>1. 0 \in 0..MaxWait
      BY OutboxAssumption
    <2>2. \A i \in Intents : Owns(worker[d], i) => row[i].claims <= faults
      BY <1>2, <2>1, NotHeld DEF LoseClaim
    <2>3. QED
      BY <1>1, <1>2, <2>2, LetGoStep DEF LoseClaim, GivingUp
  <1>3. CASE Refuse(d)
    BY <1>1, <1>3, LetGoStep DEF Refuse, GivingUp
  <1>4. CASE LockTimeout(d)
    BY <1>1, <1>4, LetGoStep DEF LockTimeout, GivingUp
  <1>5. CASE Crash(d)
    BY <1>5, LetGoStep DEF Crash
  <1>6. QED
    BY <1>2, <1>3, <1>4, <1>5

\* The row a worker holds the claim of: its token is the row's last claim.
LEMMA HeldRow ==
  ASSUME IInv, NEW d \in Workers, worker[d].pc \in {"finishing"} \cup GivingUp,
         HoldsClaim(d, worker[d].age)
  PROVE  LET i == worker[d].intent IN
         /\ i \in Intents /\ row[i] \in OutboxRow /\ row[i].claims \in Nat
         /\ row[i].state = "claimed" /\ row[i].left > -worker[d].age
         /\ worker[d].token = row[i].claims /\ row[i].token = row[i].claims
         /\ Owns(worker[d], i)
  <1>1. worker[d].intent \in Intents /\ TypeOK
    BY Claimed DEF IInv, GivingUp
  <1>2. Sound(worker[d].intent, row[worker[d].intent], effects, faults)
    BY <1>1 DEF IInv, RowsSound
  <1>3. QED
    BY <1>1, <1>2 DEF HoldsClaim, Sound, Owns, TypeOK, OutboxRow

\* An answer in time delivers the row of the last claim; a late one is given up.
LEMMA FinishInv ==
  ASSUME IInv, NEW d \in Workers, Finish(d)
  PROVE  IInv'
  <1> DEFINE i == worker[d].intent
             r == [row[i] EXCEPT !.state = "delivered", !.result = worker[d].token,
                                 !.token = 0, !.left = 0]
  <1>1. /\ TypeOK /\ worker[d].pc = "finishing" /\ i \in Intents /\ i # NoIntent
        /\ worker[d].age \in 0..MaxWait /\ worker[d].token \in Nat
        /\ UNCHANGED <<effects, faults>>
    BY Claimed, WorkerTypes DEF IInv, Finish
  <1>2. CASE HoldsClaim(d, worker[d].age)
    <2>1. row[i] \in OutboxRow /\ worker[d].token = row[i].claims /\ row[i].claims \in Nat
      BY <1>1, <1>2, HeldRow
    <2>2. r \in OutboxRow
      <3>1. 0 \in -MaxWait..Delay
        BY OutboxAssumption
      <3>2. QED
        BY <1>1, <3>1, RowValues
    <2>3. r.state = "delivered" /\ r.result = worker[d].token /\ r.token = 0
          /\ r.claims = row[i].claims
      BY <2>1 DEF OutboxRow
    <2>4. row' = [row EXCEPT ![i] = r] /\ worker' = [worker EXCEPT ![d] = Idle]
      BY <1>1, <1>2, WorkerValue DEF Finish, TypeOK
    <2>5. Sound(i, row[i], effects, faults) /\ <<i, worker[d].token>> \in effects
      BY <1>1 DEF IInv, RowsSound, WorkersHonest, Honest
    <2> HIDE DEF r, i
    <2>6. Sound(i, r, effects, faults)
      BY <2>1, <2>3, <2>5 DEF Sound
    <2>7. Idle \in WorkerState /\ Idle.pc = "idle" /\ Idle.intent = NoIntent
      BY <1>1, WorkerTypes DEF Idle
    <2>8. r.claims >= row[i].claims
      BY <2>1, <2>3
    <2>9. worker[d].intent \in {i, NoIntent}
      BY DEF i
    <2>10. QED
      BY <1>1, <2>2, <2>3, <2>4, <2>6, <2>7, <2>8, <2>9, WriteStep
  <1>3. CASE ~HoldsClaim(d, worker[d].age)
    <2>1. Become(d, "deferring") /\ row' = row
      BY <1>3 DEF Finish
    <2>2. \A j \in Intents : Owns(worker[d], j) => row[j].claims <= faults
      BY <1>1, <1>3, NotHeld
    <2>3. QED
      BY <1>1, <2>1, <2>2, LetGoStep DEF GivingUp
  <1>4. QED
    BY <1>2, <1>3

\* A claim is put back only after a fault.
LEMMA DeferInv ==
  ASSUME IInv, NEW d \in Workers, Defer(d)
  PROVE  IInv'
  <1> DEFINE i == worker[d].intent
             wait == Floor(Delay - worker[d].age)
             r == [row[i] EXCEPT !.state = "pending", !.wait = wait, !.token = 0, !.left = 0]
  <1>1. /\ TypeOK /\ worker[d].pc \in GivingUp /\ i \in Intents /\ i # NoIntent
        /\ worker[d].age \in 0..MaxWait /\ UNCHANGED <<effects, faults>>
    BY Claimed, WorkerTypes DEF IInv, Defer, GivingUp
  <1>2. CASE HoldsClaim(d, worker[d].age) /\ row' = [row EXCEPT ![i] = r] /\ Rest(d)
    <2>1. row[i] \in OutboxRow /\ row[i].claims \in Nat /\ Owns(worker[d], i)
      BY <1>1, <1>2, HeldRow
    <2>2. wait \in -MaxWait..Delay
      BY <1>1, OutboxAssumption DEF Floor
    <2> HIDE DEF wait
    <2>3. r \in OutboxRow
      <3>1. 0 \in Nat
        OBVIOUS
      <3>2. QED
        BY <1>1, <2>2, <3>1, RowValues
    <2>4. r.state = "pending" /\ r.token = 0 /\ r.claims = row[i].claims
      BY <2>1 DEF OutboxRow
    <2>5. worker' = [worker EXCEPT ![d] = Idle]
      BY <1>1, <1>2, WorkerValue
    <2>6. row[i].claims <= faults /\ faults \in Nat
      BY <1>1, <2>1, Numbers DEF IInv, GivenUp
    <2>7. worker[d].intent \in {i, NoIntent} /\ row' = [row EXCEPT ![i] = r]
      BY <1>2
    <2> HIDE DEF r, i
    <2>8. Sound(i, r, effects, faults)
      BY <2>1, <2>4, <2>6 DEF Sound
    <2>9. Idle \in WorkerState /\ Idle.pc = "idle" /\ Idle.intent = NoIntent
      BY <1>1, WorkerTypes DEF Idle
    <2>10. r.claims >= row[i].claims
      BY <2>1, <2>4
    <2>11. QED
      BY <1>1, <2>3, <2>4, <2>5, <2>7, <2>8, <2>9, <2>10, WriteStep
  <1>3. CASE /\ ~HoldsClaim(d, worker[d].age) /\ row' = row
             /\ Rest(d) \/ Become(d, "deferring")
    <2>1. \A j \in Intents : Owns(worker[d], j) => row[j].claims <= faults
      BY <1>1, <1>3, NotHeld
    <2>2. QED
      BY <1>1, <1>3, <2>1, LetGoStep DEF GivingUp
  <1>4. QED
    BY <1>1, <1>2, <1>3 DEF Defer, TypeOK

\* Time takes the last moment of a live claim from its worker only with a fault.
LEMMA TickInv ==
  ASSUME IInv, Tick
  PROVE  IInv'
  <1>1. TypeOK /\ effects' = effects
    BY DEF IInv, Tick
  <1>2. /\ MaxWait \in Nat /\ LeaseTime \in Nat /\ Delay \in Nat /\ faults \in Nat
        /\ faults' \in 0..MaxFaults /\ faults <= faults'
        /\ \A i \in Intents : row[i].claims \in Nat
    <2>1. Fault \/ faults' = faults
      BY DEF Tick
    <2>2. QED
      BY <1>1, <2>1, Numbers DEF Fault
  <1>3. ASSUME NEW i \in Intents
        PROVE  /\ row'[i] \in OutboxRow
               /\ row'[i].state = row[i].state /\ row'[i].token = row[i].token
               /\ row'[i].claims = row[i].claims /\ row'[i].result = row[i].result
               /\ row[i].state = "claimed" => row'[i].left = Floor(row[i].left - 1)
               /\ row[i].left \in -MaxWait..LeaseTime
    <2> DEFINE wait == IF row[i].state = "absent" THEN row[i].wait ELSE Floor(row[i].wait - 1)
               left == IF row[i].state = "claimed" THEN Floor(row[i].left - 1) ELSE row[i].left
    <2>1. row[i] \in OutboxRow
      BY <1>1 DEF TypeOK
    <2>2. row[i].wait \in -MaxWait..Delay /\ row[i].left \in -MaxWait..LeaseTime
      BY <2>1 DEF OutboxRow
    <2>3. wait \in -MaxWait..Delay /\ left \in -MaxWait..LeaseTime
      BY <2>2, <1>2 DEF Floor
    <2>4. row'[i] = [row[i] EXCEPT !.wait = wait, !.left = left]
      BY <2>1 DEF Tick, OutboxRow
    <2>5. row[i].state = "claimed" => left = Floor(row[i].left - 1)
      OBVIOUS
    <2> HIDE DEF wait, left
    <2>6. QED
      BY <2>1, <2>2, <2>3, <2>4, <2>5 DEF OutboxRow
  <1>4. ASSUME NEW d \in Workers
        PROVE  /\ worker'[d] \in WorkerState
               /\ worker'[d].pc = worker[d].pc /\ worker'[d].intent = worker[d].intent
               /\ worker'[d].token = worker[d].token
    <2> DEFINE age == IF worker[d].pc \in Waiting THEN worker[d].age + 1 ELSE worker[d].age
    <2>1. worker[d] \in WorkerState /\ worker[d].age \in 0..MaxWait
      BY <1>1, WorkerTypes
    <2>2. age \in 0..MaxWait
      <3>1. worker[d].pc \in Waiting => worker[d].age < MaxWait
        BY DEF Tick
      <3>2. QED
        BY <2>1, <3>1, <1>2
    <2>3. worker'[d] = [worker[d] EXCEPT !.age = age]
      BY <2>1 DEF Tick, WorkerState
    <2> HIDE DEF age
    <2>4. QED
      BY <2>1, <2>2, <2>3 DEF WorkerState
  <1>5. TypeOK'
    <2>1. row' \in [Intents -> OutboxRow]
      BY <1>3 DEF Tick
    <2>2. worker' \in [Workers -> WorkerState]
      BY <1>4 DEF Tick
    <2>3. QED
      BY <1>1, <1>2, <2>1, <2>2 DEF TypeOK
  <1>6. \A i \in Intents, d \in Workers : Owns(worker[d], i)' <=> Owns(worker[d], i)
    BY <1>3, <1>4 DEF Owns
  <1>7. ASSUME NEW i \in Intents, row[i].state = "claimed", row'[i].left <= 0
        PROVE  row[i].claims <= faults'
    <2>1. Sound(i, row[i], effects, faults)
      BY DEF IInv, RowsSound
    <2>2. row[i].left <= 1
      BY <1>2, <1>3, <1>7 DEF Floor
    <2>3. CASE row[i].left <= 0 \/ row[i].claims <= faults
      BY <2>1, <2>3, <1>2, <1>7 DEF Sound
    <2>4. CASE row[i].left = 1 /\ \E d \in Workers : Owns(worker[d], i)
      <3>1. PICK d \in Workers : Owns(worker[d], i)
        BY <2>4
      <3>2. HoldsClaim(d, 0)
        BY <2>4, <3>1 DEF HoldsClaim, Owns
      <3>3. Lapsing(d)
        BY <2>4, <3>1, <3>2, OutboxAssumption DEF Lapsing, Owns
      <3>4. faults' = faults + 1
        BY <3>3 DEF Tick, Fault
      <3>5. QED
        BY <2>1, <3>4, <1>2 DEF Sound
    <2>5. QED
      BY <2>2, <2>3, <2>4, <1>2, <1>3, <1>7 DEF IInv, ClaimsPaid
  <1>8. RowsSound'
    <2> SUFFICES ASSUME NEW i \in Intents PROVE Sound(i, row'[i], effects, faults')
      BY <1>1 DEF RowsSound
    <2>1. Sound(i, row[i], effects, faults)
      BY DEF IInv, RowsSound
    <2>2. QED
      BY <2>1, <1>2, <1>3, <1>7 DEF Sound
  <1>9. WorkersHonest'
    <2> SUFFICES ASSUME NEW d \in Workers PROVE Honest(worker[d], effects)'
      BY DEF WorkersHonest
    <2>1. Honest(worker[d], effects) /\ worker[d].intent \in Intents \cup {NoIntent}
      BY <1>1, WorkerTypes DEF IInv, WorkersHonest
    <2>2. QED
      BY <2>1, <1>1, <1>3, <1>4 DEF Honest
  <1>10. ClaimsPaid' /\ GivenUp'
    BY <1>2, <1>3, <1>4, <1>6 DEF IInv, ClaimsPaid, GivenUp
  <1>11. QED
    BY <1>5, <1>8, <1>9, <1>10 DEF IInv

\* Every step keeps the invariant.
LEMMA NextInv == IInv /\ [Next]_vars => IInv'
  <1> SUFFICES ASSUME IInv, [Next]_vars PROVE IInv'
    OBVIOUS
  <1>1. CASE UNCHANGED vars
    BY <1>1 DEF vars, IInv, TypeOK, RowsSound, WorkersHonest, Honest, ClaimsPaid, GivenUp, Owns
  <1>2. CASE \E i \in Intents : Enqueue(i)
    BY <1>2, EnqueueInv
  <1>3. CASE Tick
    BY <1>3, TickInv
  <1>4. ASSUME NEW d \in Workers,
               Work(d) \/ Beat(d) \/ Refuse(d) \/ LockTimeout(d) \/ Crash(d)
        PROVE  IInv'
    <2>1. CASE \E i \in Scope[d] : Claim(d, i)
      BY <2>1, ClaimInv, OutboxAssumption
    <2>2. CASE Look(d) \/ FindNothing(d)
      BY <2>2, LookInv
    <2>3. CASE Fence(d)
      BY <2>3, FenceInv
    <2>4. CASE Beat(d)
      BY <2>4, BeatInv
    <2>5. CASE Perform(d) \/ Return(d)
      BY <2>5, PerformInv
    <2>6. CASE LoseClaim(d) \/ Refuse(d) \/ LockTimeout(d) \/ Crash(d)
      BY <2>6, MishapInv
    <2>7. CASE Finish(d)
      BY <2>7, FinishInv
    <2>8. CASE Defer(d)
      BY <2>8, DeferInv
    <2>9. QED
      BY <1>4, <2>1, <2>2, <2>3, <2>4, <2>5, <2>6, <2>7, <2>8 DEF Work
  <1>5. QED
    BY <1>1, <1>2, <1>3, <1>4 DEF Next

-----------------------------------------------------------------------------
(* The theorems.                                                           *)

\* The invariant holds in every reachable state.
THEOREM Inductive == Spec => []IInv
  BY InitInv, NextInv, PTL DEF Spec

\* Rows and workers are always what the schema and the delivery loop allow.
THEOREM TypeCorrect == Spec => []TypeOK
  <1>1. IInv => TypeOK
    BY DEF IInv
  <1>2. QED
    BY <1>1, Inductive, PTL

\* A delivered intent carries the result of its last claim, whose holder did
\* perform the side effect: no earlier worker's answer is ever stored.
THEOREM ResultOfLastClaim == Spec => []LastClaimDelivers
  <1>1. IInv => LastClaimDelivers
    BY DEF IInv, RowsSound, Sound, LastClaimDelivers
  <1>2. QED
    BY <1>1, Inductive, PTL

\* Stale clock readings alone never make an intent be claimed a second time:
\* each further claim was preceded by one more fault.
THEOREM RepetitionNeedsFaults == Spec => []RepeatedOnlyAfterFault
  <1>1. IInv => RepeatedOnlyAfterFault
    BY DEF IInv, RowsSound, Sound, RepeatedOnlyAfterFault
  <1>2. QED
    BY <1>1, Inductive, PTL

\* A delivered intent is never claimed, deferred or answered again.
THEOREM DeliveryIsFinal == Spec => DeliveredIsFinal
  <1>1. ASSUME IInv, [Next]_vars, NEW i \in Intents, row[i].state = "delivered"
        PROVE  /\ row'[i].state = "delivered"
               /\ row'[i].claims = row[i].claims /\ row'[i].result = row[i].result
    <2>1. TypeOK /\ row \in [Intents -> OutboxRow] /\ row[i] \in OutboxRow
      BY <1>1 DEF IInv, TypeOK
    <2>2. CASE UNCHANGED row
      BY <2>2, <1>1
    <2>3. CASE \E j \in Intents : Enqueue(j)
      BY <2>1, <2>3, <1>1 DEF Enqueue
    <2>4. CASE Tick
      BY <2>1, <2>4, <1>1 DEF Tick, OutboxRow
    <2>5. ASSUME NEW d \in Workers, NEW j \in Scope[d], Claim(d, j) PROVE i # j /\ row'[i] = row[i]
      BY <2>1, <2>5, <1>1 DEF Claim, Due
    <2>6. ASSUME NEW d \in Workers, Fence(d) \/ Beat(d) \/ Finish(d) \/ Defer(d)
          PROVE  row'[i] = row[i]
      BY <2>1, <2>6, <1>1 DEF Fence, Beat, Finish, Defer, HoldsClaim
    <2>7. QED
      BY <1>1, <2>2, <2>3, <2>4, <2>5, <2>6 DEF Next, Work, vars,
         Look, FindNothing, Perform, Return, LoseClaim, Refuse, LockTimeout, Crash
  <1>2. IInv /\ [Next]_vars =>
          [\A i \in Intents : row[i].state = "delivered" =>
             /\ row'[i].state = "delivered"
             /\ row'[i].claims = row[i].claims /\ row'[i].result = row[i].result]_vars
    BY <1>1
  <1>3. QED
    BY <1>2, Inductive, PTL DEF Spec, DeliveredIsFinal

\* An expired claim is never extended under its token.
THEOREM ExpiredStaysExpired == Spec => NoRevival
  <1>1. ASSUME IInv, [Next]_vars, NEW i \in Intents,
               row[i].state = "claimed", row[i].left <= 0, row'[i].token = row[i].token
        PROVE  row'[i].left <= row[i].left
    <2>1. /\ TypeOK /\ row \in [Intents -> OutboxRow] /\ row[i] \in OutboxRow
          /\ row[i].left \in Int /\ row[i].claims \in Nat /\ row[i].left >= -MaxWait
          /\ MaxWait \in Nat
      BY <1>1, OutboxAssumption DEF IInv, TypeOK, OutboxRow
    <2>2. row[i].token = row[i].claims /\ row[i].claims # 0
      BY <1>1 DEF IInv, RowsSound, Sound
    <2>3. CASE UNCHANGED row
      BY <2>1, <2>3
    <2>4. CASE \E j \in Intents : Enqueue(j)
      BY <2>1, <2>4, <1>1 DEF Enqueue
    <2>5. CASE Tick
      <3>1. row'[i].left = Floor(row[i].left - 1)
        BY <2>1, <2>5, <1>1 DEF Tick, OutboxRow
      <3>2. QED
        BY <2>1, <3>1 DEF Floor
    <2>6. ASSUME NEW d \in Workers, NEW j \in Scope[d], Claim(d, j) PROVE row'[i].left <= row[i].left
      <3>1. CASE i # j
        BY <2>1, <2>6, <3>1 DEF Claim
      <3>2. CASE i = j
        BY <2>1, <2>2, <2>6, <3>2, <1>1 DEF Claim, OutboxRow
      <3>3. QED
        BY <3>1, <3>2
    <2>7. ASSUME NEW d \in Workers, Fence(d) \/ Beat(d) PROVE row'[i].left <= row[i].left
      <3>1. CASE UNCHANGED row
        BY <2>1, <3>1
      <3>2. CASE HoldsClaim(d, 0) /\ row' = [row EXCEPT ![worker[d].intent] = Renewed(@)]
        BY <2>1, <3>2, <1>1 DEF HoldsClaim
      <3>3. QED
        BY <2>7, <3>1, <3>2 DEF Fence, Beat
    <2>8. ASSUME NEW d \in Workers, Finish(d) \/ Defer(d) PROVE row'[i].left <= row[i].left
      <3>1. CASE row'[i] = row[i]
        BY <2>1, <3>1
      <3>2. CASE row'[i] # row[i]
        <4>1. row'[i].token = 0
          BY <2>1, <2>8, <3>2 DEF Finish, Defer, OutboxRow
        <4>2. QED
          BY <4>1, <2>2, <1>1
      <3>3. QED
        BY <3>1, <3>2
    <2>9. QED
      BY <1>1, <2>3, <2>4, <2>5, <2>6, <2>7, <2>8 DEF Next, Work, vars,
         Look, FindNothing, Perform, Return, LoseClaim, Refuse, LockTimeout, Crash
  <1>2. IInv /\ [Next]_vars =>
          [\A i \in Intents :
             row[i].state = "claimed" /\ row[i].left <= 0 /\ row'[i].token = row[i].token =>
               row'[i].left <= row[i].left]_vars
    BY <1>1
  <1>3. QED
    BY <1>2, Inductive, PTL DEF Spec, NoRevival

-----------------------------------------------------------------------------
(* The refinement.                                                         *)

\* Writing a row so that its stage stays, or only the clock changes.
LEMMA StageAfter ==
  ASSUME TypeOK, NEW i \in Intents, NEW r, row' = [row EXCEPT ![i] = r]
  PROVE  Stage' = [Stage EXCEPT ![i] =
           IF r.state \in {"pending", "claimed"} THEN "open" ELSE r.state]
  BY DEF TypeOK, Stage

\* A worker's step maps to a side effect, a delivery or a stutter.
LEMMA WorkMapped ==
  ASSUME IInv, NEW d \in Workers,
         Work(d) \/ Beat(d) \/ Refuse(d) \/ LockTimeout(d) \/ Crash(d)
  PROVE  Promise!Next \/ (Stage' = Stage /\ Performed' = Performed)
  <1>1. TypeOK /\ row \in [Intents -> OutboxRow]
    BY DEF IInv, TypeOK
  <1>2. CASE UNCHANGED <<row, effects>>
    BY <1>2 DEF Stage, Performed
  <1>3. ASSUME NEW i \in Scope[d], Claim(d, i)
        PROVE  Stage' = Stage /\ Performed' = Performed
    <2>1. i \in Intents /\ row[i].state \in {"pending", "claimed"} /\ row[i] \in OutboxRow
      BY <1>1, <1>3, OutboxAssumption DEF Claim, Due
    <2> DEFINE claim == row[i].claims + 1
               r == [row[i] EXCEPT !.state = "claimed", !.token = claim,
                                   !.left = LeaseTime - worker[d].age, !.claims = claim]
    <2>2. row' = [row EXCEPT ![i] = r] /\ r.state = "claimed"
      BY <1>1, <1>3, <2>1 DEF Claim, OutboxRow
    <2> HIDE DEF r
    <2>3. QED
      BY <1>1, <1>3, <2>1, <2>2 DEF Claim, Stage, Performed
  <1>4. ASSUME HoldsClaim(d, 0), UNCHANGED effects, worker[d].intent \in Intents,
               row' = [row EXCEPT ![worker[d].intent] = Renewed(@)]
        PROVE  Stage' = Stage /\ Performed' = Performed
    <2> DEFINE i == worker[d].intent
    <2>1. row[i].state = "claimed" /\ row[i] \in OutboxRow
      BY <1>1, <1>4 DEF HoldsClaim
    <2>2. Renewed(row[i]).state = "claimed"
      BY <2>1 DEF Renewed, OutboxRow
    <2>3. QED
      BY <1>1, <1>4, <2>1, <2>2 DEF Stage, Performed
  <1>5. CASE Perform(d)
    <2> DEFINE i == worker[d].intent
    <2>1. i \in Intents /\ worker[d].token \in 1..row[i].claims
      BY <1>5, Claimed DEF Perform
    <2>2. row[i].state # "absent"
      <3>1. Sound(i, row[i], effects, faults)
        BY <2>1 DEF IInv, RowsSound
      <3>2. row[i].claims # 0
        BY <2>1
      <3>3. QED
        BY <3>1, <3>2 DEF Sound
    <2>3. Stage[i] # "absent" /\ Stage' = Stage
      BY <1>5, <2>1, <2>2 DEF Stage, Perform
    <2>4. Performed' = Performed \cup {i}
      <3>1. effects' = effects \cup {<<i, worker[d].token>>}
        BY <1>5 DEF Perform
      <3>2. <<i, worker[d].token>>[1] = i
        OBVIOUS
      <3>3. QED
        BY <3>1, <3>2 DEF Performed
    <2>5. Promise!Perform(i)
      BY <2>3, <2>4 DEF Promise!Perform
    <2>6. QED
      BY <2>1, <2>5 DEF Promise!Next
  <1>6. CASE Finish(d) /\ HoldsClaim(d, worker[d].age)
    <2> DEFINE i == worker[d].intent
               r == [row[i] EXCEPT !.state = "delivered", !.result = worker[d].token,
                                   !.token = 0, !.left = 0]
    <2>1. i \in Intents /\ row[i] \in OutboxRow /\ row[i].state = "claimed"
      BY <1>6, HeldRow DEF Finish
    <2>2. row' = [row EXCEPT ![i] = r] /\ r.state = "delivered"
      BY <1>1, <1>6, <2>1 DEF Finish, OutboxRow
    <2> HIDE DEF r
    <2>3. Stage' = [Stage EXCEPT ![i] = "delivered"] /\ Stage[i] = "open"
      <3>1. Stage' = [Stage EXCEPT ![i] =
              IF r.state \in {"pending", "claimed"} THEN "open" ELSE r.state]
        BY <1>1, <2>1, <2>2, StageAfter
      <3>2. QED
        BY <2>1, <2>2, <3>1 DEF Stage
    <2>4. <<i, worker[d].token>> \in effects
      BY <1>6 DEF Finish, IInv, WorkersHonest, Honest
    <2>5. i \in Performed
      <3>1. <<i, worker[d].token>>[1] = i
        OBVIOUS
      <3>2. QED
        BY <2>4, <3>1 DEF Performed
    <2>6. Performed' = Performed
      BY <1>6 DEF Finish, Performed
    <2>7. Promise!Deliver(i)
      BY <2>3, <2>5, <2>6 DEF Promise!Deliver
    <2>8. QED
      BY <2>1, <2>7 DEF Promise!Next
  <1>7. CASE Defer(d) /\ HoldsClaim(d, worker[d].age) /\ row' # row
    <2> DEFINE i == worker[d].intent
    <2>1. i \in Intents /\ row[i] \in OutboxRow /\ row[i].state = "claimed"
      BY <1>7, HeldRow DEF Defer
    <2> DEFINE r == [row[i] EXCEPT !.state = "pending",
                       !.wait = Floor(Delay - worker[d].age), !.token = 0, !.left = 0]
    <2>2. row' = [row EXCEPT ![i] = r] /\ r.state = "pending"
      BY <1>1, <1>7, <2>1 DEF Defer, OutboxRow
    <2> HIDE DEF r
    <2>3. QED
      BY <1>1, <1>7, <2>1, <2>2 DEF Defer, Stage, Performed
  <1>8. ASSUME Fence(d) \/ Beat(d)
        PROVE  Stage' = Stage /\ Performed' = Performed
    <2>1. worker[d].intent \in Intents
      BY <1>8, Claimed DEF Fence, Beat
    <2>2. QED
      BY <1>2, <1>4, <1>8, <2>1 DEF Fence, Beat, Stage, Performed
  <1>9. QED
    BY <1>2, <1>3, <1>5, <1>6, <1>7, <1>8 DEF Work, Look, FindNothing, Return, LoseClaim,
       Finish, Defer, Refuse, LockTimeout, Crash

\* The outbox implements at-least-once delivery.
THEOREM Implements == Spec => KeepsPromise
  <1>1. Init => Promise!Init
    <2> SUFFICES ASSUME Init PROVE Promise!Init
      OBVIOUS
    <2>1. Stage = [i \in Intents |-> "absent"]
      BY DEF Init, Stage, NoRow
    <2>2. Performed = {}
      BY DEF Init, Performed
    <2>3. QED
      BY <2>1, <2>2 DEF Promise!Init
  <1>2. IInv /\ [Next]_vars => [Promise!Next]_<<Stage, Performed>>
    <2> SUFFICES ASSUME IInv, [Next]_vars
                 PROVE  Promise!Next \/ (Stage' = Stage /\ Performed' = Performed)
      OBVIOUS
    <2>1. CASE UNCHANGED vars
      BY <2>1 DEF vars, Stage, Performed
    <2>2. CASE Tick
      <3>1. \A i \in Intents : row'[i].state = row[i].state
        BY <2>2 DEF Tick, IInv, TypeOK, OutboxRow
      <3>2. QED
        BY <2>2, <3>1 DEF Tick, Stage, Performed
    <2>3. ASSUME NEW i \in Intents, Enqueue(i) PROVE Promise!Next
      <3>1. PICK created \in -MaxWait..0 :
              row' = [row EXCEPT ![i] = [NoRow EXCEPT !.state = "pending", !.wait = created]]
        BY <2>3 DEF Enqueue
      <3> DEFINE r == [NoRow EXCEPT !.state = "pending", !.wait = created]
      <3>2. row' = [row EXCEPT ![i] = r] /\ r.state = "pending"
        BY <3>1 DEF NoRow
      <3> HIDE DEF r
      <3>3. Stage[i] = "absent" /\ Stage' = [Stage EXCEPT ![i] = "open"]
        BY <2>3, <3>2, StageAfter DEF Enqueue, IInv, Stage
      <3>4. Performed' = Performed
        BY <2>3 DEF Enqueue, Performed
      <3>5. Promise!Accept(i)
        BY <3>3, <3>4 DEF Promise!Accept
      <3>6. QED
        BY <3>5 DEF Promise!Next
    <2>4. QED
      BY <2>1, <2>2, <2>3, WorkMapped DEF Next
  <1>3. QED
    BY <1>1, <1>2, Inductive, PTL DEF Spec, KeepsPromise, Promise!Spec
=============================================================================
