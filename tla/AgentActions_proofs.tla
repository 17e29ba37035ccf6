------------------------ MODULE AgentActions_proofs ------------------------
(***************************************************************************)
(* Proofs about AgentActions for every set of actions, slots, candidates   *)
(* and workspaces, every retry budget and every bound.                     *)
(*                                                                         *)
(* Almost every operation writes the rows of one action and commits under  *)
(* the two indexes: lemma RowStep says once what such a write has to show, *)
(* and each operation shows it for the values it writes.  The operations   *)
(* that expire leases or cancel obsolete restagings touch several actions  *)
(* and are argued row by row.                                              *)
(***************************************************************************)
EXTENDS AgentActions, TLAPS

-----------------------------------------------------------------------------
(* The inductive invariant, over the values of one action's rows:          *)
(* s action, i iteration, n ordinal, row current attempt, l lease,         *)
(* r receipt, g granted tokens, m reopened.                                *)

\* The rows of one action tell one story.
Story(s, i, n, row, l, r) ==
  /\ l.state # "absent" => n # 0
  /\ s = "absent" => n = 0
  /\ r.status # "none" =>
       /\ s = r.status /\ i = r.status
       /\ n # 0 /\ row.state = r.status
       /\ l.state = "released"
  /\ s \in Live =>
       /\ n # 0 /\ i = s /\ row.state = s
       /\ s # "uncertain" => l.state = "active"
  /\ s \in Reserving => i \in Reserving
  /\ s = "completed" => r.status = "completed" /\ row.class = "other"

\* Tokens are handed out in increasing order, the lease's own to the current attempt.
Ascending(n, g, token) ==
  \A k \in 1..n : g[k] <= token /\ (k < n => g[k] < token)

\* Attempts stay within the budget, and what waits in the queue was granted one more.
Budgeted(s, n, m) ==
  /\ n <= MaxPreflight + m
  /\ s = "queued" => n < MaxPreflight + m

\* A pending verdict cannot be applied to a cancelled action.
Spared(s, n, row, l) ==
  /\ n # 0
  /\ s = "cancelled" => row.class # "retryable" /\ l.state # "active"

Stories ==
  \A a \in Actions : Story(action[a], iteration[a], ordinal[a], Current(a), lease[a], receipt[a])
Tokens == \A a \in Actions : Ascending(ordinal[a], granted[a], lease[a].token)
Budgets == \A a \in Actions : Budgeted(action[a], ordinal[a], reopened[a])
Verdicts ==
  \A d \in decisions :
    Spared(action[d.action], ordinal[d.action], Current(d.action), lease[d.action])
\* What a pending retry grants is inside the budget.
Grants ==
  \A d \in decisions : d.verdict = "retry" => d.attempt < MaxPreflight
IndexesHold == OneActiveLease(lease) /\ OneReservation(iteration)

IInv ==
  /\ TypeOK
  /\ IndexesHold
  /\ Stories
  /\ Tokens
  /\ Budgets
  /\ IntentsFollowCompletion
  /\ Verdicts
  /\ Grants

-----------------------------------------------------------------------------
(* Values.                                                                 *)

\* Every row an operation writes is a row.
LEMMA RowTypes ==
  ASSUME TypeOK, NEW a \in Actions
  PROVE  /\ ordinal[a] # 0 => ordinal[a] \in Ordinals /\ Current(a) \in Row
         /\ lease[a] \in LeaseRow
         /\ Fresh(a) \in LeaseRow /\ Fresh(a).state = "active" /\ Fresh(a).token = lease[a].token
         /\ Released(a) \in LeaseRow /\ Released(a).state = "released"
         /\ Released(a).token = lease[a].token
  <1>1. ordinal[a] # 0 => ordinal[a] \in Ordinals
    BY ConstantsAssumption DEF TypeOK, Ordinals
  <1>2. ordinal[a] # 0 => Current(a) \in Row
    BY <1>1 DEF TypeOK, Current
  <1>3. lease[a] \in LeaseRow
    BY DEF TypeOK
  <1>4. LeaseTime \in 0..LeaseTime
    BY ConstantsAssumption
  <1>5. Fresh(a) \in LeaseRow /\ Fresh(a).state = "active" /\ Fresh(a).token = lease[a].token
    BY <1>3, <1>4 DEF LeaseRow, Fresh
  <1>6. Released(a) \in LeaseRow /\ Released(a).state = "released"
        /\ Released(a).token = lease[a].token
    BY <1>3 DEF LeaseRow, Released
  <1>7. QED
    BY <1>1, <1>2, <1>3, <1>5, <1>6

\* Moving an attempt to another state leaves its other columns alone.
LEMMA RowUpdate ==
  ASSUME NEW row \in Row, NEW s \in States
  PROVE  /\ [row EXCEPT !.state = s] \in Row
         /\ [row EXCEPT !.state = s].state = s
         /\ [row EXCEPT !.state = s].turn = row.turn
         /\ [row EXCEPT !.state = s].class = row.class
         /\ [row EXCEPT !.state = s].exhausted = row.exhausted
  BY DEF Row

\* The initial rows and the empty receipt are well formed.
LEMMA EmptyRows == NoRow \in Row /\ NoReceipt \in ReceiptRow /\ NoLease \in LeaseRow
  BY ConstantsAssumption DEF NoRow, Row, NoReceipt, ReceiptRow, NoLease, LeaseRow, Classes,
     States, Terminal

\* The initial state satisfies the invariant.
LEMMA InitInv == Init => IInv
  <1> SUFFICES ASSUME Init PROVE IInv
    OBVIOUS
  <1> USE ConstantsAssumption DEF Init
  <1>1. TypeOK
    BY EmptyRows DEF TypeOK, States, Ordinals
  <1>2. IndexesHold
    BY DEF IndexesHold, OneActiveLease, OneReservation, SlotPeers, NoLease, Reserving, Live
  <1>3. Stories
    BY DEF Stories, Story, NoLease, NoReceipt, Live, Reserving
  <1>4. Tokens /\ Budgets
    BY DEF Tokens, Ascending, Budgets, Budgeted
  <1>5. QED
    BY <1>1, <1>2, <1>3, <1>4 DEF IInv, IntentsFollowCompletion, Verdicts, Grants

-----------------------------------------------------------------------------
(* Operations that write the rows of one action.                           *)

\* The rows of action a become the given values; rs are all its attempts.
Writes(a, s, i, rs, n, l, r, g, m) ==
  /\ action' = [action EXCEPT ![a] = s]
  /\ iteration' = [iteration EXCEPT ![a] = i]
  /\ attempt' = [attempt EXCEPT ![a] = rs]
  /\ ordinal' = [ordinal EXCEPT ![a] = n]
  /\ lease' = [lease EXCEPT ![a] = l]
  /\ receipt' = [receipt EXCEPT ![a] = r]
  /\ granted' = [granted EXCEPT ![a] = g]
  /\ reopened' = [reopened EXCEPT ![a] = m]

\* A write that an index accepts keeps the invariant when its own values tell a
\* story, ascend, stay in budget, do not take completion back, and leave no
\* verdict pending against a cancelled action.
LEMMA RowStep ==
  ASSUME IInv, NEW a \in Actions,
         NEW s \in States, NEW i \in States, NEW rs \in [Ordinals -> Row],
         NEW n \in 0..MaxAttempts, NEW l \in LeaseRow, NEW r \in ReceiptRow,
         NEW g \in [Ordinals -> Nat], NEW m \in Nat,
         Writes(a, s, i, rs, n, l, r, g, m), Commit,
         Story(s, i, n, rs[n], l, r), Ascending(n, g, l.token), Budgeted(s, n, m),
         action[a] = "completed" => s = "completed" /\ n = ordinal[a],
         \A x \in intents' : x \in intents \/ (x = <<a, n>> /\ n # 0 /\ s = "completed"),
         \A d \in decisions' :
           d \in decisions /\ (d.action = a => Spared(s, n, rs[n], l)),
         UNCHANGED <<heads, owned>>
  PROVE  IInv'
  <1>1. TypeOK
    BY DEF IInv
  <1>2. /\ action'[a] = s /\ iteration'[a] = i /\ attempt'[a] = rs /\ ordinal'[a] = n
        /\ lease'[a] = l /\ receipt'[a] = r /\ granted'[a] = g /\ reopened'[a] = m
    BY <1>1 DEF Writes, TypeOK
  <1>3. ASSUME NEW b \in Actions, b # a
        PROVE  /\ action'[b] = action[b] /\ iteration'[b] = iteration[b]
               /\ attempt'[b] = attempt[b] /\ ordinal'[b] = ordinal[b]
               /\ lease'[b] = lease[b] /\ receipt'[b] = receipt[b]
               /\ granted'[b] = granted[b] /\ reopened'[b] = reopened[b]
    BY <1>1, <1>3 DEF Writes, TypeOK
  <1>4. TypeOK'
    <2>1. \A x \in intents' : x \in Actions \X Ordinals
      BY <1>1, ConstantsAssumption DEF TypeOK, Ordinals
    <2>2. decisions' \subseteq Decision
      BY <1>1 DEF TypeOK
    <2>3. QED
      BY <1>1, <2>1, <2>2 DEF Writes, TypeOK
  <1>5. IndexesHold'
    BY DEF Commit, IndexesHold, OneActiveLease, OneReservation, SlotPeers
  <1>6. Stories'
    <2>1. Current(a)' = rs[n]
      BY <1>2 DEF Current
    <2>2. \A b \in Actions : b # a => Current(b)' = Current(b)
      BY <1>3 DEF Current
    <2>3. QED
      BY <1>2, <1>3, <2>1, <2>2 DEF IInv, Stories
  <1>7. Tokens' /\ Budgets'
    BY <1>2, <1>3 DEF IInv, Tokens, Budgets
  <1>8. IntentsFollowCompletion'
    <2> SUFFICES ASSUME NEW x \in intents'
                 PROVE  action'[x[1]] = "completed" /\ x[2] = ordinal'[x[1]]
      BY DEF IntentsFollowCompletion
    <2>1. CASE x \in intents
      BY <2>1, <1>1, <1>2, <1>3 DEF IInv, IntentsFollowCompletion, TypeOK
    <2>2. CASE x = <<a, n>> /\ s = "completed"
      BY <2>2, <1>2
    <2>3. QED
      BY <2>1, <2>2
  <1>9. Verdicts'
    <2> SUFFICES ASSUME NEW d \in decisions'
                 PROVE  Spared(action[d.action], ordinal[d.action], Current(d.action),
                               lease[d.action])'
      BY DEF Verdicts
    <2>1. d \in decisions /\ d.action \in Actions
      BY <1>1 DEF TypeOK, Decision
    <2>2. CASE d.action = a
      BY <2>2, <1>2 DEF Current, Spared
    <2>3. CASE d.action # a
      BY <2>1, <2>3, <1>3 DEF IInv, Verdicts, Current, Spared
    <2>4. QED
      BY <2>2, <2>3
  <1>10. Grants'
    BY DEF IInv, Grants
  <1>11. QED
    BY <1>4, <1>5, <1>6, <1>7, <1>8, <1>9, <1>10 DEF IInv

\* Facts every one of these operations uses about the rows it starts from.
LEMMA RowFacts ==
  ASSUME IInv, NEW a \in Actions
  PROVE  /\ action[a] \in States /\ iteration[a] \in States
         /\ attempt[a] \in [Ordinals -> Row] /\ attempt[a][ordinal[a]] = Current(a)
         /\ ordinal[a] \in 0..MaxAttempts
         /\ receipt[a] \in ReceiptRow /\ granted[a] \in [Ordinals -> Nat]
         /\ reopened[a] \in Nat
         /\ Story(action[a], iteration[a], ordinal[a], Current(a), lease[a], receipt[a])
         /\ Ascending(ordinal[a], granted[a], lease[a].token)
         /\ Budgeted(action[a], ordinal[a], reopened[a])
         /\ \A d \in decisions : d.action = a =>
              Spared(action[a], ordinal[a], Current(a), lease[a])
  BY DEF IInv, TypeOK, Stories, Tokens, Budgets, Verdicts, Current

\* Rewriting only the current attempt.
LEMMA CurrentUpdate ==
  ASSUME TypeOK, NEW a \in Actions, ordinal[a] # 0, NEW row \in Row
  PROVE  LET rs == [attempt[a] EXCEPT ![ordinal[a]] = row] IN
         /\ rs \in [Ordinals -> Row]
         /\ rs[ordinal[a]] = row
         /\ [attempt EXCEPT ![a][ordinal[a]] = row] = [attempt EXCEPT ![a] = rs]
  BY RowTypes DEF TypeOK

\* Creation: the queued action and its reservation.
LEMMA CreateInv ==
  ASSUME IInv, NEW a \in Actions, CreateAction(a)
  PROVE  IInv'
  <1>1. TypeOK
    BY DEF IInv
  <1>2. Writes(a, "queued", "queued", attempt[a], ordinal[a], lease[a], receipt[a],
               granted[a], reopened[a])
    BY <1>1 DEF CreateAction, Writes, TypeOK
  <1>3. Story("queued", "queued", ordinal[a], Current(a), lease[a], receipt[a])
        /\ ordinal[a] = 0
    BY <1>1, RowFacts DEF CreateAction, Story, Live, Reserving, TypeOK, ReceiptRow, Terminal
  <1>4. Budgeted("queued", ordinal[a], reopened[a])
    BY <1>3, RowFacts, ConstantsAssumption DEF Budgeted
  <1>5. Commit /\ intents' = intents /\ decisions' = {} /\ UNCHANGED <<heads, owned>>
        /\ action[a] # "completed"
    BY DEF CreateAction, TickIdle
  <1>6. "queued" \in States
    BY DEF States, Reserving
  <1>7. lease[a] \in LeaseRow
    BY <1>1, RowTypes
  <1>8. Story("queued", "queued", ordinal[a], attempt[a][ordinal[a]], lease[a], receipt[a])
    BY <1>3, RowFacts
  <1>9. /\ ordinal[a] \in 0..MaxAttempts /\ granted[a] \in [Ordinals -> Nat]
        /\ reopened[a] \in Nat /\ receipt[a] \in ReceiptRow
        /\ Ascending(ordinal[a], granted[a], lease[a].token)
        /\ Budgeted(action[a], ordinal[a], reopened[a])
        /\ action[a] \in States /\ iteration[a] \in States
        /\ attempt[a] \in [Ordinals -> Row]
    BY RowFacts
  <1>10. QED
    BY <1>2, <1>4, <1>5, <1>6, <1>7, <1>8, <1>9, RowStep

\* Operator cancellation: every open attempt of the action is closed with it.
LEMMA CancelInv ==
  ASSUME IInv, NEW a \in Actions, Cancel(a)
  PROVE  IInv'
  <1> DEFINE rs == [k \in Ordinals |->
               IF attempt[a][k].state \in Live
               THEN [attempt[a][k] EXCEPT !.state = "cancelled"] ELSE attempt[a][k]]
             l == IF lease[a].state = "active" THEN Released(a) ELSE lease[a]
  <1>1. TypeOK /\ "cancelled" \in States
    BY DEF IInv, States, Terminal
  <1>2. rs \in [Ordinals -> Row]
    BY <1>1, RowUpdate DEF TypeOK
  <1>3. l \in LeaseRow /\ l.token = lease[a].token /\ (l.state = "absent" => lease[a].state = "absent")
    BY <1>1, RowTypes
  <1>4. Writes(a, "cancelled", "cancelled", rs, ordinal[a], l, receipt[a], granted[a], reopened[a])
    BY <1>1 DEF Cancel, Writes, TypeOK
  <1>5. Story("cancelled", "cancelled", ordinal[a], rs[ordinal[a]], l, receipt[a])
    <2>1. receipt[a].status = "none"
      BY <1>1, RowFacts DEF Cancel, Story, TypeOK, ReceiptRow, Reserving, Live, Terminal
    <2>2. l.state # "absent" => ordinal[a] # 0
      BY <1>3, RowFacts DEF Story
    <2>3. QED
      BY <2>1, <2>2 DEF Story, Live, Reserving
  <1>6. Budgeted("cancelled", ordinal[a], reopened[a])
    BY RowFacts DEF Budgeted
  <1>7. Commit /\ intents' = intents /\ decisions' = {} /\ UNCHANGED <<heads, owned>>
        /\ action[a] # "completed"
    BY DEF Cancel, TickIdle, Reserving, Live
  <1> HIDE DEF rs, l
  <1>8. /\ ordinal[a] \in 0..MaxAttempts /\ granted[a] \in [Ordinals -> Nat]
        /\ reopened[a] \in Nat /\ receipt[a] \in ReceiptRow
        /\ Ascending(ordinal[a], granted[a], lease[a].token)
        /\ Budgeted(action[a], ordinal[a], reopened[a])
        /\ action[a] \in States /\ iteration[a] \in States
        /\ attempt[a] \in [Ordinals -> Row]
    BY RowFacts
  <1>9. QED
    BY <1>1, <1>2, <1>3, <1>4, <1>5, <1>6, <1>7, <1>8, RowStep

\* A heartbeat and the passing of time change only the clock of a lease.
LEMMA ClockInv ==
  ASSUME IInv, NEW a \in Actions, NEW l \in LeaseRow,
         l.state = "active", lease[a].state = "active", l.token = lease[a].token,
         lease' = [lease EXCEPT ![a] = l],
         UNCHANGED <<action, iteration, attempt, ordinal, receipt, granted, intents,
                     heads, owned, decisions, reopened>>
  PROVE  IInv'
  <1>1. TypeOK
    BY DEF IInv
  <1>2. Writes(a, action[a], iteration[a], attempt[a], ordinal[a], l, receipt[a],
               granted[a], reopened[a])
    BY <1>1 DEF Writes, TypeOK
  <1>3. Story(action[a], iteration[a], ordinal[a], Current(a), l, receipt[a])
    BY RowFacts DEF Story
  <1>4. \A d \in decisions : d.action = a => Spared(action[a], ordinal[a], Current(a), l)
    BY RowFacts DEF Spared
  <1>5. Commit
    BY <1>1 DEF Commit, IInv, IndexesHold, OneActiveLease, SlotPeers, TypeOK
  <1>6. /\ ordinal[a] \in 0..MaxAttempts /\ granted[a] \in [Ordinals -> Nat]
        /\ reopened[a] \in Nat /\ receipt[a] \in ReceiptRow
        /\ Ascending(ordinal[a], granted[a], lease[a].token)
        /\ Budgeted(action[a], ordinal[a], reopened[a])
        /\ action[a] \in States /\ iteration[a] \in States
        /\ attempt[a] \in [Ordinals -> Row] /\ attempt[a][ordinal[a]] = Current(a)
    BY RowFacts
  <1>7. QED
    BY <1>2, <1>3, <1>4, <1>5, <1>6, RowStep

\* A heartbeat only winds the clock of a lease that is still open.
LEMMA HeartbeatInv ==
  ASSUME IInv, NEW a \in Actions, NEW k \in Ordinals, Heartbeat(a, k)
  PROVE  IInv'
  BY RowTypes, ClockInv DEF IInv, Heartbeat, HoldsLease

\* Time only runs the clock of an active lease down.
LEMMA AgeInv ==
  ASSUME IInv, NEW a \in Actions, Age(a)
  PROVE  IInv'
  <1> DEFINE l == [lease[a] EXCEPT !.ttl = lease[a].ttl - 1]
  <1>1. TypeOK
    BY DEF IInv
  <1>2. l \in LeaseRow /\ l.state = "active" /\ l.token = lease[a].token
    BY <1>1, RowTypes, ConstantsAssumption DEF Age, LeaseRow
  <1>3. lease' = [lease EXCEPT ![a] = l]
    BY DEF Age
  <1> HIDE DEF l
  <1>4. QED
    BY <1>2, <1>3, ClockInv DEF Age

\* Start: a claim whose gate is gone is cancelled, any other begins to run.
LEMMA StartInv ==
  ASSUME IInv, NEW a \in Actions, NEW k \in Ordinals, NEW turn \in Turns, Start(a, k, turn)
  PROVE  IInv'
  <1>1. TypeOK /\ ordinal[a] # 0 /\ lease[a].state = "active"
    BY RowFacts DEF IInv, Start, HoldsLease, Story
  <1>2. Current(a) \in Row /\ ordinal[a] \in Ordinals
    BY <1>1, RowTypes
  <1>3. CASE action[a] = "claimed" /\ ~GateCurrent(a)
    <2> DEFINE row == [Current(a) EXCEPT !.turn = turn, !.state = "cancelled", !.class = "other"]
               rs == [attempt[a] EXCEPT ![ordinal[a]] = row]
               r == [status |-> row.state, class |-> row.class, exhausted |-> row.exhausted]
    <2>1. row \in Row /\ row.state = "cancelled" /\ row.class = "other"
      BY <1>2 DEF Row, States, Terminal, Classes
    <2>2. rs \in [Ordinals -> Row] /\ rs[ordinal[a]] = row
      BY <1>1, <2>1, CurrentUpdate
    <2>3. r \in ReceiptRow /\ r.status = "cancelled"
      BY <2>1 DEF ReceiptRow, Row, Terminal
    <2>4. Writes(a, "cancelled", "cancelled", rs, ordinal[a], Released(a), r, granted[a], reopened[a])
      BY <1>1, <1>3 DEF Start, MoveTo, Seal, Writes, TypeOK
    <2> HIDE DEF row, rs, r
    <2>5. Story("cancelled", "cancelled", ordinal[a], rs[ordinal[a]], Released(a), r)
      BY <1>1, <2>1, <2>2, <2>3, RowTypes DEF Story, Live, Reserving
    <2>6. Spared("cancelled", ordinal[a], rs[ordinal[a]], Released(a))
      BY <1>1, <2>1, <2>2, RowTypes DEF Spared
    <2>7. Budgeted("cancelled", ordinal[a], reopened[a])
      BY RowFacts DEF Budgeted
    <2>8. Commit /\ UNCHANGED <<intents, decisions, heads, owned>>
      BY DEF Start
    <2>9. "cancelled" \in States /\ Released(a) \in LeaseRow /\ Released(a).token = lease[a].token
      BY <1>1, RowTypes DEF States, Terminal
    <2>10. /\ ordinal[a] \in 0..MaxAttempts /\ granted[a] \in [Ordinals -> Nat]
           /\ reopened[a] \in Nat /\ receipt[a] \in ReceiptRow
           /\ Ascending(ordinal[a], granted[a], lease[a].token)
           /\ Budgeted(action[a], ordinal[a], reopened[a])
           /\ action[a] \in States /\ iteration[a] \in States
           /\ attempt[a] \in [Ordinals -> Row]
      BY RowFacts
    <2>11. QED
      BY <1>3, <2>2, <2>3, <2>4, <2>5, <2>6, <2>7, <2>8, <2>9, <2>10, RowStep
  <1>4. CASE action[a] = "uncertain" \/ (action[a] = "claimed" /\ GateCurrent(a))
    <2> DEFINE row == [Current(a) EXCEPT !.turn = turn, !.state = "running"]
               rs == [attempt[a] EXCEPT ![ordinal[a]] = row]
    <2>1. row \in Row /\ row.state = "running" /\ row.class = Current(a).class
      BY <1>2 DEF Row, States, Reserving, Live
    <2>2. rs \in [Ordinals -> Row] /\ rs[ordinal[a]] = row
      BY <1>1, <2>1, CurrentUpdate
    <2>3. Current(a).state \in {"claimed", "uncertain"} /\ receipt[a].status = "none"
      BY <1>1, <1>4, RowFacts DEF Story, Live
    <2>4. Writes(a, "running", "running", rs, ordinal[a], Fresh(a), receipt[a], granted[a], reopened[a])
      BY <1>1, <1>2, <1>4, <2>3 DEF Start, Writes, TypeOK, Row
    <2> HIDE DEF row, rs
    <2>5. Story("running", "running", ordinal[a], rs[ordinal[a]], Fresh(a), receipt[a])
      BY <1>1, <2>1, <2>2, <2>3, RowTypes DEF Story, Live, Reserving
    <2>6. Spared("running", ordinal[a], rs[ordinal[a]], Fresh(a))
      BY <1>1 DEF Spared
    <2>7. Budgeted("running", ordinal[a], reopened[a])
      BY RowFacts DEF Budgeted
    <2>8. Commit /\ UNCHANGED <<intents, decisions, heads, owned>>
      BY DEF Start
    <2>9. "running" \in States /\ Fresh(a) \in LeaseRow /\ Fresh(a).token = lease[a].token
      BY <1>1, RowTypes DEF States, Reserving, Live
    <2>10. /\ ordinal[a] \in 0..MaxAttempts /\ granted[a] \in [Ordinals -> Nat]
           /\ reopened[a] \in Nat /\ receipt[a] \in ReceiptRow
           /\ Ascending(ordinal[a], granted[a], lease[a].token)
           /\ Budgeted(action[a], ordinal[a], reopened[a])
           /\ action[a] \in States /\ iteration[a] \in States
           /\ attempt[a] \in [Ordinals -> Row]
      BY RowFacts
    <2>11. QED
      BY <1>4, <2>2, <2>4, <2>5, <2>6, <2>7, <2>8, <2>9, <2>10, RowStep
  <1>5. CASE action[a] = "running"
    BY <1>1, <1>5, RowTypes, ClockInv DEF Start
  <1>6. QED
    BY <1>3, <1>4, <1>5 DEF Start

\* Completion: the outcome seals the action, or leaves it uncertain under its lease.
LEMMA CompleteInv ==
  ASSUME IInv, NEW a \in Actions, NEW k \in Ordinals, NEW outcome \in Outcomes,
         NEW turn \in Turns \cup {NoTurn}, NEW continued \in BOOLEAN,
         Complete(a, k, outcome, turn, continued)
  PROVE  IInv'
  <1> DEFINE obsolete == outcome.state = "completed" /\ ~GateCurrent(a)
             row == [state |-> IF obsolete THEN "cancelled" ELSE outcome.state,
                     turn |-> IF turn = NoTurn THEN Current(a).turn ELSE turn,
                     class |-> outcome.class, exhausted |-> FALSE]
             rs == [attempt[a] EXCEPT ![ordinal[a]] = row]
             sealing == row.state # "uncertain"
             l == IF sealing THEN Released(a) ELSE lease[a]
             r == IF sealing
                  THEN [status |-> row.state, class |-> row.class, exhausted |-> row.exhausted]
                  ELSE receipt[a]
  <1>1. TypeOK /\ ordinal[a] # 0 /\ lease[a].state = "active" /\ receipt[a] = NoReceipt
    BY RowFacts DEF IInv, Complete, HoldsLease, Story
  <1>2. Current(a) \in Row /\ ordinal[a] \in Ordinals /\ receipt[a].status = "none"
    BY <1>1, RowTypes DEF NoReceipt
  <1>3. /\ row \in Row
        /\ row.state \in {"completed", "uncertain", "failed", "cancelled"}
        /\ row.state \in {"completed", "uncertain"} => row.class = "other"
        /\ row.state = "cancelled" => row.class # "retryable"
    BY <1>2 DEF Outcomes, Row, States, Reserving, Live, Terminal, Classes
  <1>4. rs \in [Ordinals -> Row] /\ rs[ordinal[a]] = row
    BY <1>1, <1>3, CurrentUpdate
  <1>5. r \in ReceiptRow /\ (sealing => r.status = row.state)
    BY <1>1, <1>3, RowFacts DEF ReceiptRow, Row, Terminal
  <1>6. l \in LeaseRow /\ l.token = lease[a].token
        /\ l.state = (IF sealing THEN "released" ELSE "active")
    BY <1>1, RowTypes
  <1>7. Writes(a, row.state, row.state, rs, ordinal[a], l, r, granted[a], reopened[a])
    BY <1>1 DEF Complete, MoveTo, Seal, Writes, TypeOK
  <1>8. \A x \in intents' : x \in intents \/ (x = <<a, ordinal[a]>> /\ row.state = "completed")
    BY DEF Complete
  <1>9. Commit /\ UNCHANGED <<decisions, heads, owned>>
    BY DEF Complete
  <1>10. action[a] # "completed"
    BY <1>2, RowFacts DEF Story
  <1>11. row.state \in States
    BY <1>3 DEF Row
  <1> HIDE DEF row, rs, l, r
  <1>12. Story(row.state, row.state, ordinal[a], rs[ordinal[a]], l, r)
    BY <1>1, <1>2, <1>3, <1>4, <1>5, <1>6 DEF Story, Live, Reserving, r
  <1>13. Spared(row.state, ordinal[a], rs[ordinal[a]], l)
    BY <1>1, <1>3, <1>4, <1>6 DEF Spared
  <1>14. Budgeted(row.state, ordinal[a], reopened[a])
    BY <1>3, RowFacts DEF Budgeted
  <1>15. /\ ordinal[a] \in 0..MaxAttempts /\ granted[a] \in [Ordinals -> Nat]
         /\ reopened[a] \in Nat /\ receipt[a] \in ReceiptRow
         /\ Ascending(ordinal[a], granted[a], lease[a].token)
         /\ Budgeted(action[a], ordinal[a], reopened[a])
         /\ action[a] \in States /\ iteration[a] \in States
         /\ attempt[a] \in [Ordinals -> Row]
    BY RowFacts
  <1>16. QED
    BY <1>1, <1>4, <1>5, <1>6, <1>7, <1>8, <1>9, <1>10, <1>11, <1>12, <1>13, <1>14, <1>15, RowStep

\* Deferral moves the attempt and the iteration even when the action stays put.
LEMMA DeferInv ==
  ASSUME IInv, NEW a \in Actions, NEW k \in Ordinals, DeferRetry(a, k)
  PROVE  IInv'
  <1> DEFINE s == IF action[a] \in Live THEN "retry-pending" ELSE action[a]
             row == [Current(a) EXCEPT !.state = "retry-pending", !.class = "retryable",
                                       !.exhausted = FALSE]
             rs == [attempt[a] EXCEPT ![ordinal[a]] = row]
  <1>1. TypeOK /\ ordinal[a] # 0 /\ lease[a].state = "active"
    BY RowFacts DEF IInv, DeferRetry, HoldsLease, Story
  <1>2. Current(a) \in Row /\ ordinal[a] \in Ordinals /\ receipt[a].status = "none"
    BY <1>1, RowTypes, RowFacts DEF Story
  <1>3. row \in Row /\ row.state = "retry-pending"
    BY <1>2 DEF Row, States, Reserving, Classes
  <1>4. rs \in [Ordinals -> Row] /\ rs[ordinal[a]] = row
    BY <1>1, <1>3, CurrentUpdate
  <1>5. Writes(a, s, "retry-pending", rs, ordinal[a], Fresh(a), receipt[a], granted[a], reopened[a])
    BY <1>1, <1>2 DEF DeferRetry, Writes, TypeOK, Current
  <1>6. s \in States /\ "retry-pending" \in States /\ action[a] # "completed"
        /\ (s = "cancelled" => action[a] = "cancelled") /\ (s = "queued" => action[a] = "queued")
        /\ s \notin Live \cup {"completed"} /\ (s = "absent" => action[a] = "absent")
    BY <1>2, RowFacts DEF Story, States, Reserving, Live
  <1> HIDE DEF s, row, rs
  <1>7. Story(s, "retry-pending", ordinal[a], rs[ordinal[a]], Fresh(a), receipt[a])
    BY <1>1, <1>2, <1>6, RowFacts, RowTypes DEF Story, Reserving
  <1>8. \A d \in decisions : d.action = a => Spared(s, ordinal[a], rs[ordinal[a]], Fresh(a))
    BY <1>1, <1>6, RowFacts DEF Spared
  <1>9. Budgeted(s, ordinal[a], reopened[a])
    BY <1>6, RowFacts DEF Budgeted
  <1>10. Commit /\ UNCHANGED <<intents, decisions, heads, owned>>
    BY DEF DeferRetry
  <1>11. Fresh(a) \in LeaseRow /\ Fresh(a).token = lease[a].token
    BY <1>1, RowTypes
  <1>12. /\ ordinal[a] \in 0..MaxAttempts /\ granted[a] \in [Ordinals -> Nat]
         /\ reopened[a] \in Nat /\ receipt[a] \in ReceiptRow
         /\ Ascending(ordinal[a], granted[a], lease[a].token)
         /\ Budgeted(action[a], ordinal[a], reopened[a])
         /\ action[a] \in States /\ iteration[a] \in States
         /\ attempt[a] \in [Ordinals -> Row]
    BY RowFacts
  <1>13. QED
    BY <1>4, <1>5, <1>6, <1>7, <1>8, <1>9, <1>10, <1>11, <1>12, RowStep

\* Both ways back to running under a renewed lease: the exact turn of the
\* current attempt is still to be ingested, and nothing is sealed any more.
LEMMA ResumeInv ==
  ASSUME IInv, NEW a \in Actions, ordinal[a] # 0, action[a] # "completed",
         NEW r \in ReceiptRow, r.status = "none", receipt' = [receipt EXCEPT ![a] = r],
         MoveTo(a, [Current(a) EXCEPT !.state = "running"]),
         lease' = [lease EXCEPT ![a] = Fresh(a)],
         UNCHANGED <<ordinal, granted, intents, heads, owned, decisions, reopened>>, Commit
  PROVE  IInv'
  <1> DEFINE row == [Current(a) EXCEPT !.state = "running"]
             rs == [attempt[a] EXCEPT ![ordinal[a]] = row]
  <1>1. TypeOK /\ Current(a) \in Row /\ "running" \in States
    BY RowTypes DEF IInv, States, Reserving, Live
  <1>2. row \in Row /\ row.state = "running"
    BY <1>1, RowUpdate
  <1>3. rs \in [Ordinals -> Row] /\ rs[ordinal[a]] = row
    BY <1>1, <1>2, CurrentUpdate
  <1>4. Writes(a, "running", "running", rs, ordinal[a], Fresh(a), r, granted[a], reopened[a])
    BY <1>1, <1>2 DEF MoveTo, Writes, TypeOK
  <1> HIDE DEF row, rs
  <1>5. Story("running", "running", ordinal[a], rs[ordinal[a]], Fresh(a), r)
    BY <1>1, <1>2, <1>3, RowTypes DEF Story, Live, Reserving
  <1>6. Spared("running", ordinal[a], rs[ordinal[a]], Fresh(a))
    BY DEF Spared
  <1>7. Budgeted("running", ordinal[a], reopened[a])
    BY RowFacts DEF Budgeted
  <1>8. Fresh(a) \in LeaseRow /\ Fresh(a).token = lease[a].token
    BY <1>1, RowTypes
  <1>9. UNCHANGED <<intents, decisions, heads, owned>>
    OBVIOUS
  <1>10. Ascending(ordinal[a], granted[a], Fresh(a).token)
    BY <1>8, RowFacts
  <1>11. /\ ordinal[a] \in 0..MaxAttempts /\ granted[a] \in [Ordinals -> Nat]
         /\ reopened[a] \in Nat /\ receipt[a] \in ReceiptRow
    BY RowFacts
  <1>12. QED
    BY <1>1, <1>3, <1>4, <1>5, <1>6, <1>7, <1>8, <1>9, <1>10, <1>11, RowStep

\* Renewal for the exact terminal turn resumes an unsettled, unsealed attempt.
LEMMA EnsureInv ==
  ASSUME IInv, NEW a \in Actions, NEW k \in Ordinals, NEW turn \in Turns,
         EnsureCompletionLease(a, k, turn)
  PROVE  IInv'
  <1>1. action[a] # "completed" /\ ordinal[a] # 0 /\ receipt[a].status = "none"
    BY DEF EnsureCompletionLease, NoReceipt
  <1>2. receipt[a] \in ReceiptRow /\ receipt' = [receipt EXCEPT ![a] = receipt[a]]
    BY RowFacts DEF EnsureCompletionLease, IInv, TypeOK
  <1>3. QED
    BY <1>1, <1>2, ResumeInv DEF EnsureCompletionLease

\* Recovery of a published, cancelled action resumes its last attempt.
LEMMA RecoverPublishedInv ==
  ASSUME IInv, NEW a \in Actions, NEW turn \in Turns, RecoverCancelledPublished(a, turn)
  PROVE  IInv'
  <1>1. action[a] # "completed" /\ ordinal[a] # 0
    BY DEF RecoverCancelledPublished, Recoverable
  <1>2. NoReceipt \in ReceiptRow /\ NoReceipt.status = "none"
    BY EmptyRows DEF NoReceipt
  <1>3. QED
    BY <1>1, <1>2, ResumeInv DEF RecoverCancelledPublished

\* Reconciling a discarded outcome opens an attempt with a new token.
LEMMA RecoverDiscardedInv ==
  ASSUME IInv, NEW a \in Actions, NEW turn \in Turns, RecoverDiscardedOutcome(a, turn)
  PROVE  IInv'
  <1> DEFINE n == ordinal[a] + 1
             token == NextToken(a)
             row == [NoRow EXCEPT !.state = "running", !.turn = turn]
             rs == [attempt[a] EXCEPT ![n] = row]
             l == [state |-> "active", token |-> token, ttl |-> LeaseTime]
             g == [granted[a] EXCEPT ![n] = token]
  <1>1. TypeOK /\ action[a] = "failed"
    BY DEF IInv, RecoverDiscardedOutcome, Recoverable
  <1>2. n \in Ordinals /\ n \in 0..MaxAttempts /\ n # 0
    BY <1>1, ConstantsAssumption DEF RecoverDiscardedOutcome, Ordinals, TypeOK
  <1>3. lease[a].token \in Nat /\ ordinal[a] \in Nat /\ token = lease[a].token + 1
    BY <1>1 DEF TypeOK, LeaseRow, NextToken
  <1>4. row \in Row /\ row.state = "running"
    BY DEF NoRow, Row, States, Reserving, Live, Classes
  <1>5. rs \in [Ordinals -> Row] /\ rs[n] = row
    BY <1>1, <1>2, <1>4 DEF TypeOK
  <1>6. l \in LeaseRow /\ l.state = "active" /\ l.token = token
    BY <1>3, ConstantsAssumption DEF LeaseRow
  <1>7. g \in [Ordinals -> Nat] /\ g[n] = token /\ \A j \in Ordinals : j # n => g[j] = granted[a][j]
    BY <1>1, <1>2, <1>3 DEF TypeOK
  <1>8. NoReceipt \in ReceiptRow /\ NoReceipt.status = "none"
    BY EmptyRows DEF NoReceipt
  <1>9. reopened[a] + 1 \in Nat /\ reopened[a] \in Nat
    BY <1>1 DEF TypeOK
  <1>10. Writes(a, "running", "running", rs, n, l, NoReceipt, g, reopened[a] + 1)
    BY <1>1 DEF RecoverDiscardedOutcome, Writes, TypeOK
  <1>11. Commit /\ UNCHANGED <<intents, decisions, heads, owned>> /\ "running" \in States
    BY DEF RecoverDiscardedOutcome, States, Reserving, Live
  <1>12. Ascending(n, g, token)
    <2> SUFFICES ASSUME NEW k \in 1..n
                 PROVE  g[k] <= token /\ (k < n => g[k] < token)
      BY DEF Ascending
    <2>1. k \in Ordinals /\ (k # n => k \in 1..ordinal[a])
      BY <1>2, <1>3, ConstantsAssumption DEF Ordinals
    <2>2. k # n => g[k] = granted[a][k] /\ granted[a][k] <= lease[a].token
      BY <1>7, <2>1, RowFacts DEF Ascending
    <2>3. granted[a][k] \in Nat
      BY <1>1, <2>1 DEF TypeOK
    <2>4. QED
      BY <1>3, <1>7, <2>2, <2>3
  <1>13. Budgeted("running", n, reopened[a] + 1)
    BY <1>3, <1>9, RowFacts, ConstantsAssumption DEF Budgeted
  <1> HIDE DEF n, token, row, rs, l, g
  <1>14. Story("running", "running", n, rs[n], l, NoReceipt)
    BY <1>2, <1>4, <1>5, <1>6, <1>8 DEF Story, Live, Reserving
  <1>15. Spared("running", n, rs[n], l)
    BY <1>2 DEF Spared
  <1>16. QED
    BY <1>1, <1>2, <1>5, <1>6, <1>7, <1>8, <1>9, <1>10, <1>11, <1>12, <1>13, <1>14, <1>15, RowStep

\* Reclassification renames a failure.
LEMMA ReclassifyInv ==
  ASSUME IInv, NEW a \in Actions, ReclassifyLegacy(a)
  PROVE  IInv'
  <1> DEFINE row == [Current(a) EXCEPT !.class = "retryable"]
             rs == [attempt[a] EXCEPT ![ordinal[a]] = row]
  <1>1. TypeOK /\ ordinal[a] # 0 /\ action[a] = "failed" /\ Current(a) \in Row
    BY RowTypes DEF IInv, ReclassifyLegacy
  <1>2. row \in Row /\ row.state = Current(a).state
    BY <1>1 DEF Row, Classes
  <1>3. rs \in [Ordinals -> Row] /\ rs[ordinal[a]] = row
    BY <1>1, <1>2, CurrentUpdate
  <1>4. Writes(a, action[a], iteration[a], rs, ordinal[a], lease[a], receipt[a],
               granted[a], reopened[a])
    BY <1>1 DEF ReclassifyLegacy, Writes, TypeOK, Current
  <1> HIDE DEF row, rs
  <1>5. Story(action[a], iteration[a], ordinal[a], rs[ordinal[a]], lease[a], receipt[a])
    BY <1>1, <1>2, <1>3, RowFacts DEF Story
  <1>6. Spared(action[a], ordinal[a], rs[ordinal[a]], lease[a])
    BY <1>1 DEF Spared
  <1>7. Commit
    BY DEF IInv, IndexesHold, Commit, ReclassifyLegacy, OneActiveLease, OneReservation
  <1>8. UNCHANGED <<intents, decisions, heads, owned>> /\ lease[a] \in LeaseRow
    BY <1>1, RowTypes DEF ReclassifyLegacy
  <1>9. /\ ordinal[a] \in 0..MaxAttempts /\ granted[a] \in [Ordinals -> Nat]
        /\ reopened[a] \in Nat /\ receipt[a] \in ReceiptRow
        /\ Ascending(ordinal[a], granted[a], lease[a].token)
        /\ Budgeted(action[a], ordinal[a], reopened[a])
        /\ action[a] \in States /\ iteration[a] \in States
        /\ attempt[a] \in [Ordinals -> Row]
    BY RowFacts
  <1>10. QED
    BY <1>1, <1>3, <1>4, <1>5, <1>6, <1>7, <1>8, <1>9, RowStep

-----------------------------------------------------------------------------
(* The daemon's verdicts.                                                  *)

\* A scan judges published actions that were claimed at least once, and none
\* of them is cancelled.
LEMMA ScanInv ==
  ASSUME IInv, NEW changed \in SUBSET Actions, ScanRetries(changed)
  PROVE  IInv'
  <1>1. UNCHANGED <<rows, intents, heads, owned, reopened>> /\ TypeOK
    BY DEF ScanRetries, IInv
  <1>2. ASSUME NEW d \in decisions'
        PROVE  /\ d \in Decision
               /\ Spared(action[d.action], ordinal[d.action], Current(d.action), lease[d.action])
               /\ d.verdict = "retry" => d.attempt < MaxPreflight
    <2>1. PICK b \in Actions :
            /\ d = [action |-> b, attempt |-> ordinal[b], verdict |-> Verdict(b, changed)]
            /\ action[b] \in {"retry-pending", "failed"}
            /\ lease[b].state # "absent"
      BY DEF ScanRetries
    <2>2. ordinal[b] \in Ordinals
      BY <1>1, <2>1, RowFacts, RowTypes DEF Story
    <2>3. ordinal[b] # 0
      BY <2>1, RowFacts DEF Story
    <2>4. /\ Verdict(b, changed) \in {"retry", "reopen", "exhausted"}
          /\ Verdict(b, changed) = "retry" => ordinal[b] < MaxPreflight
      BY DEF Verdict
    <2>5. QED
      BY <2>1, <2>2, <2>3, <2>4 DEF Decision, Spared
  <1>3. decisions' \subseteq Decision /\ Verdicts' /\ Grants'
    BY <1>1, <1>2 DEF Verdicts, Grants, rows, Current
  <1>4. TypeOK'
    BY <1>1, <1>3 DEF TypeOK, rows
  <1>5. QED
    BY <1>1, <1>3, <1>4 DEF IInv, rows, IndexesHold, OneActiveLease, OneReservation, Stories,
       Tokens, Budgets, IntentsFollowCompletion, Current

\* A daemon crash forgets pending verdicts and writes no row.
LEMMA CrashInv ==
  ASSUME IInv, DaemonCrash
  PROVE  IInv'
  <1>1. UNCHANGED <<rows, intents, heads, owned, reopened>> /\ decisions' = {}
    BY DEF DaemonCrash
  <1>2. QED
    BY <1>1 DEF IInv, rows, TypeOK, IndexesHold, OneActiveLease, OneReservation, Stories,
       Tokens, Budgets, IntentsFollowCompletion, Verdicts, Grants, Current

\* A verdict is applied to an action that is neither cancelled nor completed,
\* because a retryable failure is what it finds in the current attempt.
LEMMA AuthorizeInv ==
  ASSUME IInv, NEW d \in decisions, NEW a \in Actions, a = d.action,
         d.verdict # "exhausted", AuthorizeRetry(a, d.verdict),
         d.attempt = ordinal[a], Commit, decisions' = decisions \ {d}, UNCHANGED <<ordinal, granted, intents, heads, owned>>
  PROVE  IInv'
  <1> DEFINE row == [Current(a) EXCEPT !.state = "failed", !.class = "retryable"]
             rs == [attempt[a] EXCEPT ![ordinal[a]] = row]
             m == IF d.verdict = "reopen" THEN reopened[a] + 1 ELSE reopened[a]
  <1>1. TypeOK /\ ordinal[a] # 0 /\ "queued" \in States
    BY RowFacts DEF IInv, Spared, States, Reserving
  <1>2. Current(a) \in Row /\ ordinal[a] \in Ordinals
    BY <1>1, RowTypes
  <1>3. action[a] # "completed"
    BY <1>1, RowFacts DEF AuthorizeRetry, Retryable, Story
  <1>4. row \in Row
    BY <1>2 DEF Row, States, Terminal, Classes
  <1>5. rs \in [Ordinals -> Row] /\ rs[ordinal[a]] = row
    BY <1>1, <1>4, CurrentUpdate
  <1>6. m \in Nat /\ Budgeted("queued", ordinal[a], m)
    <2>1. d.verdict \in {"retry", "reopen"}
      BY <1>1 DEF TypeOK, Decision
    <2>2. d.verdict = "retry" => ordinal[a] < MaxPreflight
      BY DEF IInv, Grants
    <2>3. QED
      BY <1>1, <2>1, <2>2, RowFacts, ConstantsAssumption DEF TypeOK, Budgeted
  <1>7. attempt' = [attempt EXCEPT ![a] = rs]
    BY <1>1, <1>2 DEF AuthorizeRetry, TypeOK, Current
  <1>8. reopened' = [reopened EXCEPT ![a] = m]
    BY <1>1 DEF AuthorizeRetry, TypeOK
  <1>9. Writes(a, "queued", "queued", rs, ordinal[a], Fresh(a), NoReceipt, granted[a], m)
    BY <1>1, <1>7, <1>8 DEF AuthorizeRetry, Writes, TypeOK
  <1> HIDE DEF row, rs, m
  <1>10. Story("queued", "queued", ordinal[a], rs[ordinal[a]], Fresh(a), NoReceipt)
    BY <1>1 DEF Story, Live, Reserving, NoReceipt
  <1>11. Spared("queued", ordinal[a], rs[ordinal[a]], Fresh(a))
    BY <1>1 DEF Spared
  <1>12. Fresh(a) \in LeaseRow /\ NoReceipt \in ReceiptRow
         /\ Ascending(ordinal[a], granted[a], Fresh(a).token)
    BY <1>1, RowTypes, RowFacts, EmptyRows
  <1>13. UNCHANGED <<intents, heads, owned>> /\ decisions' \subseteq decisions
    OBVIOUS
  <1>14. /\ ordinal[a] \in 0..MaxAttempts /\ granted[a] \in [Ordinals -> Nat]
         /\ reopened[a] \in Nat /\ receipt[a] \in ReceiptRow
    BY RowFacts
  <1>15. QED
    BY <1>1, <1>3, <1>5, <1>6, <1>9, <1>10, <1>11, <1>12, <1>13, <1>14, RowStep

\* An exhausted verdict seals the failure and releases the lease.
LEMMA ExhaustInv ==
  ASSUME IInv, NEW d \in decisions, NEW a \in Actions, a = d.action, Exhaust(a), Commit,
         decisions' = decisions \ {d}, UNCHANGED <<ordinal, granted, intents, heads, owned>>
  PROVE  IInv'
  <1> DEFINE row == [Current(a) EXCEPT !.state = "failed", !.exhausted = TRUE,
                       !.class = IF Current(a).exhausted THEN "other" ELSE "retryable"]
             rs == [attempt[a] EXCEPT ![ordinal[a]] = row]
             r == [status |-> row.state, class |-> row.class, exhausted |-> row.exhausted]
  <1>1. TypeOK /\ ordinal[a] # 0 /\ "failed" \in States
    BY RowFacts DEF IInv, Spared, States, Terminal
  <1>2. Current(a) \in Row /\ ordinal[a] \in Ordinals
    BY <1>1, RowTypes
  <1>3. action[a] # "completed"
    BY <1>1, RowFacts DEF Exhaust, Retryable, Story
  <1>4. row \in Row /\ row.state = "failed"
    BY <1>2 DEF Row, States, Terminal, Classes
  <1>5. rs \in [Ordinals -> Row] /\ rs[ordinal[a]] = row
    BY <1>1, <1>4, CurrentUpdate
  <1>6. r \in ReceiptRow /\ r.status = "failed"
    BY <1>4 DEF ReceiptRow, Row, Terminal
  <1>7. Writes(a, "failed", "failed", rs, ordinal[a], Released(a), r, granted[a], reopened[a])
    BY <1>1, <1>4 DEF Exhaust, MoveTo, Seal, Writes, TypeOK
  <1> HIDE DEF row, rs, r
  <1>8. Story("failed", "failed", ordinal[a], rs[ordinal[a]], Released(a), r)
    BY <1>1, <1>4, <1>5, <1>6, RowTypes DEF Story, Live, Reserving
  <1>9. Spared("failed", ordinal[a], rs[ordinal[a]], Released(a))
    BY <1>1 DEF Spared
  <1>10. Released(a) \in LeaseRow /\ Ascending(ordinal[a], granted[a], Released(a).token)
    BY <1>1, RowTypes, RowFacts
  <1>11. Budgeted("failed", ordinal[a], reopened[a])
    BY RowFacts DEF Budgeted
  <1>12. UNCHANGED <<intents, heads, owned>> /\ decisions' \subseteq decisions
    OBVIOUS
  <1>13. /\ ordinal[a] \in 0..MaxAttempts /\ granted[a] \in [Ordinals -> Nat]
         /\ reopened[a] \in Nat /\ receipt[a] \in ReceiptRow
    BY RowFacts
  <1>14. QED
    BY <1>1, <1>3, <1>5, <1>6, <1>7, <1>8, <1>9, <1>10, <1>11, <1>12, <1>13, RowStep

\* A verdict that is refused is only dropped.
LEMMA RefusedInv ==
  ASSUME IInv, decisions' \subseteq decisions, UNCHANGED <<rows, intents, heads, owned, reopened>>
  PROVE  IInv'
  <1>1. TypeOK'
    BY DEF IInv, TypeOK, rows
  <1>2. Verdicts' /\ Grants'
    BY DEF IInv, Verdicts, Grants, rows, Current
  <1>3. QED
    BY <1>1, <1>2 DEF IInv, rows, IndexesHold, OneActiveLease, OneReservation, Stories,
       Tokens, Budgets, IntentsFollowCompletion, Current

\* Applying a verdict authorizes, exhausts or is refused.
LEMMA ApplyInv ==
  ASSUME IInv, NEW d \in decisions, ApplyDecision(d)
  PROVE  IInv'
  <1>1. d.action \in Actions /\ decisions' = decisions \ {d} /\ UNCHANGED <<intents, heads, owned>>
    BY DEF IInv, TypeOK, Decision, ApplyDecision
  <1>2. CASE /\ d.verdict # "exhausted" /\ AuthorizeRetry(d.action, d.verdict)
             /\ d.attempt = ordinal[d.action] /\ Commit /\ UNCHANGED <<ordinal, granted>>
    BY <1>1, <1>2, AuthorizeInv
  <1>3. CASE Exhaust(d.action) /\ Commit /\ UNCHANGED <<ordinal, granted>>
    BY <1>1, <1>3, ExhaustInv
  <1>4. CASE UNCHANGED <<rows, reopened>>
    BY <1>1, <1>4, RefusedInv
  <1>5. QED
    BY <1>2, <1>3, <1>4 DEF ApplyDecision

\* Admission of a standalone owner writes no row of an action.
LEMMA AdmitInv ==
  ASSUME IInv, NEW w \in Workspaces, AdmitOwner(w)
  PROVE  IInv'
  <1>1. UNCHANGED <<rows, intents, heads, decisions, reopened>> /\ owned' = owned \cup {w}
    BY DEF AdmitOwner
  <1>2. TypeOK'
    BY <1>1 DEF IInv, TypeOK, rows
  <1>3. QED
    BY <1>1, <1>2 DEF IInv, rows, IndexesHold, OneActiveLease, OneReservation, Stories,
       Tokens, Budgets, IntentsFollowCompletion, Verdicts, Grants, Current

-----------------------------------------------------------------------------
(* Operations that write the rows of several actions.                      *)

\* Cancelling obsolete restagings: queued ones, and retries whose attempt and
\* lease still agree.
LEMMA CancelObsoleteInv ==
  ASSUME IInv, NEW keep, NEW scope, CancelObsolete(Obsolete(keep, scope)), decisions = {},
         heads' \in [Slots -> Actions \cup {NoAction}]
  PROVE  IInv'
  <1> DEFINE S == Obsolete(keep, scope)
  <1>1. TypeOK /\ "cancelled" \in States
    BY DEF IInv, States, Terminal
  <1>2. UNCHANGED <<ordinal, receipt, granted, intents, owned, decisions, reopened>>
    BY DEF CancelObsolete
  <1>3. ASSUME NEW a \in Actions, a \in S, action[a] = "queued"
        PROVE  /\ action'[a] = "cancelled" /\ attempt'[a] = attempt[a] /\ lease'[a] = lease[a]
               /\ iteration'[a] = IF iteration[a] = "queued" THEN "cancelled" ELSE iteration[a]
    BY <1>3, <1>1 DEF CancelObsolete, TypeOK
  <1>4. ASSUME NEW a \in Actions, a \in S, action[a] = "retry-pending"
        PROVE  /\ action'[a] = "cancelled" /\ ordinal[a] # 0 /\ lease[a].state = "active"
               /\ attempt'[a] = [attempt[a] EXCEPT ![ordinal[a]] =
                                   [Current(a) EXCEPT !.state = "cancelled"]]
               /\ lease'[a] = Released(a)
               /\ iteration'[a] = IF iteration[a] = "retry-pending" THEN "cancelled" ELSE iteration[a]
    <2>1. lease[a].state = "active"
      BY <1>4 DEF Obsolete
    <2>2. ordinal[a] # 0
      BY <2>1, RowFacts DEF Story
    <2>3. QED
      BY <2>1, <2>2, <1>4, <1>1 DEF CancelObsolete, TypeOK, Current
  <1>5. ASSUME NEW a \in Actions, a \notin S
        PROVE  /\ action'[a] = action[a] /\ iteration'[a] = iteration[a]
               /\ attempt'[a] = attempt[a] /\ lease'[a] = lease[a]
    BY <1>5 DEF CancelObsolete
  <1>6. \A a \in S : a \in Actions /\ action[a] \in {"queued", "retry-pending"}
    BY ConstantsAssumption DEF Obsolete
  <1>7. ASSUME NEW a \in Actions
        PROVE  /\ action'[a] \in States /\ iteration'[a] \in States
               /\ attempt'[a] \in [Ordinals -> Row]
               /\ lease'[a] \in LeaseRow /\ lease'[a].token = lease[a].token
               /\ Story(action'[a], iteration'[a], ordinal[a], Current(a)', lease'[a], receipt[a])
               /\ action'[a] \in {action[a], "cancelled"}
               /\ action[a] = "completed" => action'[a] = "completed"
    <2>1. CASE a \notin S
      BY <2>1, <1>1, <1>2, <1>5, RowFacts, RowTypes DEF Current
    <2>2. CASE a \in S /\ action[a] = "queued"
      <3>1. lease'[a] \in LeaseRow /\ lease'[a] = lease[a]
        BY <1>1, <1>3, <2>2, RowTypes
      <3>2. Story("cancelled", iteration'[a], ordinal[a], Current(a)', lease'[a], receipt[a])
        BY <2>2, <1>3, RowFacts DEF Story, Live, Reserving, Terminal, ReceiptRow
      <3>3. QED
        BY <3>1, <3>2, <1>1, <1>3, <2>2, RowFacts
    <2>3. CASE a \in S /\ action[a] = "retry-pending"
      <3>1. lease'[a] \in LeaseRow /\ lease'[a].token = lease[a].token /\ ordinal[a] # 0
        BY <1>1, <1>4, <2>3, RowTypes
      <3>2. [Current(a) EXCEPT !.state = "cancelled"] \in Row
        BY <1>1, <3>1, RowTypes, RowUpdate
      <3>3. attempt'[a] \in [Ordinals -> Row]
        <4> DEFINE row == [Current(a) EXCEPT !.state = "cancelled"]
        <4>1. attempt'[a] = [attempt[a] EXCEPT ![ordinal[a]] = row]
          BY <1>4, <2>3
        <4>2. row \in Row
          BY <3>2
        <4> HIDE DEF row
        <4>3. QED
          BY <1>1, <3>1, <4>1, <4>2, CurrentUpdate
      <3>4. Story("cancelled", iteration'[a], ordinal[a], Current(a)', lease'[a], receipt[a])
        BY <3>1, <2>3, RowFacts DEF Story, Live, Reserving, Terminal, ReceiptRow
      <3>5. QED
        BY <3>1, <3>3, <3>4, <1>1, <1>4, <2>3, RowFacts
    <2>4. QED
      BY <2>1, <2>2, <2>3, <1>6
  <1>8. TypeOK'
    <2>1. action' \in [Actions -> States] /\ iteration' \in [Actions -> States]
      BY <1>7 DEF CancelObsolete
    <2>2. attempt' \in [Actions -> [Ordinals -> Row]] /\ lease' \in [Actions -> LeaseRow]
      BY <1>7 DEF CancelObsolete
    <2>3. QED
      BY <1>1, <1>2, <2>1, <2>2 DEF TypeOK
  <1>9. IndexesHold'
    BY DEF CancelObsolete, Commit, IndexesHold, OneActiveLease, OneReservation, SlotPeers
  <1>10. Stories' /\ Tokens'
    BY <1>2, <1>7, RowFacts DEF Stories, Tokens
  <1>11. Budgets'
    BY <1>2, <1>7, RowFacts DEF Budgets, Budgeted
  <1>12. IntentsFollowCompletion' /\ Verdicts'
    BY <1>1, <1>2, <1>7 DEF IInv, IntentsFollowCompletion, Verdicts, TypeOK
  <1>13. Grants'
    BY <1>1, <1>2 DEF Grants
  <1>14. QED
    BY <1>8, <1>9, <1>10, <1>11, <1>12, <1>13 DEF IInv

\* Reconciling a candidate is a cancellation of its obsolete restagings.
LEMMA ReconcileInv ==
  ASSUME IInv, NEW a \in Actions, ReconcileCandidate(a)
  PROVE  IInv'
  BY CancelObsoleteInv DEF ReconcileCandidate, TickIdle, IInv, TypeOK

\* Publishing heads is a cancellation of what is no longer published.
LEMMA SynchronizeInv ==
  ASSUME IInv, NEW scope \in Scopes, NEW new \in [Slots -> Gated \cup {NoAction}],
         SynchronizeHeads(scope, new)
  PROVE  IInv'
  <1>1. heads' \in [Slots -> Actions \cup {NoAction}]
    BY ConstantsAssumption DEF SynchronizeHeads, IInv, TypeOK
  <1>2. QED
    BY <1>1, CancelObsoleteInv DEF SynchronizeHeads, TickIdle

\* Expiry, row by row: the rows it would leave are well formed and still tell a
\* story.  A completed action is not due, its lease is released.
LEMMA ExpiredRow ==
  ASSUME IInv, NEW a \in Actions
  PROVE  /\ ExpiredAction[a] \in States /\ ExpiredIteration[a] \in States
         /\ ExpiredAttempt[a] \in [Ordinals -> Row]
         /\ ExpiredLease[a] \in LeaseRow /\ ExpiredLease[a].token = lease[a].token
         /\ Story(ExpiredAction[a], ExpiredIteration[a], ordinal[a],
                  ExpiredAttempt[a][ordinal[a]], ExpiredLease[a], receipt[a])
         /\ ExpiredAction[a] \in {"queued", "completed", "cancelled"} =>
              ExpiredAction[a] = action[a]
         /\ action[a] \in {"queued", "completed"} => ExpiredAction[a] = action[a]
         /\ ordinal[a] # 0 =>
              ExpiredAttempt[a][ordinal[a]].class = Current(a).class
         /\ ExpiredLease[a].state = "active" => lease[a].state = "active"
  <1>1. TypeOK
    BY DEF IInv
  <1>2. CASE a \notin Due
    <2>1. /\ ExpiredAction[a] = action[a] /\ ExpiredIteration[a] = iteration[a]
          /\ ExpiredAttempt[a] = attempt[a] /\ ExpiredLease[a] = lease[a]
      BY <1>1, <1>2 DEF ExpiredAction, ExpiredIteration, ExpiredAttempt, ExpiredLease, TypeOK
    <2>2. QED
      BY <1>1, <2>1, RowFacts, RowTypes
  <1>3. CASE a \in Due
    <2> DEFINE l == [lease[a] EXCEPT !.state = "expired"]
               row == [Current(a) EXCEPT !.state = Unsettled(Current(a).state)]
    <2>1. ExpiredAction[a] = Unsettled(action[a]) /\ ExpiredIteration[a] = "uncertain"
          /\ ExpiredLease[a] = l /\ lease[a].state = "active"
      BY <1>3 DEF ExpiredAction, ExpiredIteration, ExpiredLease, Due
    <2>2. ordinal[a] # 0 /\ ordinal[a] \in Ordinals /\ receipt[a].status = "none"
      BY <1>1, <2>1, RowFacts, RowTypes DEF Story
    <2>3. \A s \in States : Unsettled(s) \in States
      BY DEF Unsettled, States, Reserving, Live
    <2>4. \A k \in Ordinals : ExpiredAttempt[a][k] =
            [attempt[a][k] EXCEPT !.state = Unsettled(attempt[a][k].state)]
      BY <1>3 DEF ExpiredAttempt
    <2>5. \A k \in Ordinals : ExpiredAttempt[a][k] \in Row
      <3> SUFFICES ASSUME NEW k \in Ordinals PROVE ExpiredAttempt[a][k] \in Row
        OBVIOUS
      <3>1. attempt[a][k] \in Row /\ attempt[a][k].state \in States
        BY <1>1 DEF TypeOK, Row
      <3>2. QED
        BY <2>3, <2>4, <3>1, RowUpdate
    <2>6. ExpiredAttempt[a] \in [Ordinals -> Row]
      BY <2>5 DEF ExpiredAttempt
    <2>7. Current(a) \in Row /\ Current(a).state \in States
      BY <1>1, <2>2, RowTypes DEF Row
    <2>8. ExpiredAttempt[a][ordinal[a]] = row /\ row.state = Unsettled(Current(a).state)
          /\ row.class = Current(a).class
      BY <2>2, <2>3, <2>4, <2>7, RowUpdate DEF Current
    <2>9. l \in LeaseRow /\ l.state = "expired" /\ l.token = lease[a].token
      BY <1>1, RowTypes DEF LeaseRow
    <2> HIDE DEF l, row
    <2>10. Unsettled(action[a]) \in States /\ "uncertain" \in States
      BY <1>1, <2>3 DEF TypeOK, States, Reserving, Live
    <2>11. Story(Unsettled(action[a]), "uncertain", ordinal[a], row, l, receipt[a])
      BY <2>1, <2>2, <2>8, <2>9, RowFacts DEF Story, Unsettled, Live, Reserving
    <2>12. action[a] # "completed"
      BY <2>2, RowFacts DEF Story
    <2>13. QED
      BY <2>1, <2>6, <2>8, <2>9, <2>10, <2>11, <2>12 DEF Unsettled
  <1>4. QED
    BY <1>2, <1>3

\* Expiry committed on its own, or with the lease of one uncertain action renewed.
LEMMA ExpiryInv ==
  ASSUME IInv,
         action' = ExpiredAction, iteration' = ExpiredIteration, attempt' = ExpiredAttempt,
         lease' \in [Actions -> LeaseRow],
         \A b \in Actions :
           \/ lease'[b] = ExpiredLease[b]
           \/ /\ ExpiredAction[b] = "uncertain" /\ lease'[b].state = "active"
              /\ lease'[b].token = lease[b].token,
         UNCHANGED <<ordinal, receipt, granted, intents, heads, owned, decisions, reopened>>,
         Commit
  PROVE  IInv'
  <1>1. TypeOK
    BY DEF IInv
  <1>2. ASSUME NEW b \in Actions
        PROVE  /\ Story(action[b], iteration[b], ordinal[b], Current(b), lease[b], receipt[b])'
               /\ lease'[b].token = lease[b].token
    <2>1. Current(b)' = ExpiredAttempt[b][ordinal[b]]
      BY DEF Current
    <2>2. CASE lease'[b] = ExpiredLease[b]
      BY <2>1, <2>2, ExpiredRow
    <2>3. CASE ExpiredAction[b] = "uncertain" /\ lease'[b].state = "active"
               /\ lease'[b].token = lease[b].token
      BY <2>1, <2>3, ExpiredRow, RowFacts DEF Story, Live, ReceiptRow, Terminal
    <2>4. QED
      BY <2>2, <2>3
  <1>3. TypeOK'
    <2>1. action' \in [Actions -> States] /\ iteration' \in [Actions -> States]
          /\ attempt' \in [Actions -> [Ordinals -> Row]]
      BY ExpiredRow DEF ExpiredAction, ExpiredIteration, ExpiredAttempt
    <2>2. QED
      BY <1>1, <2>1 DEF TypeOK
  <1>4. IndexesHold'
    BY DEF Commit, IndexesHold, OneActiveLease, OneReservation, SlotPeers
  <1>5. Stories' /\ Tokens'
    BY <1>2, RowFacts DEF Stories, Tokens
  <1>6. Budgets'
    BY ExpiredRow, RowFacts DEF Budgets, Budgeted
  <1>7. IntentsFollowCompletion'
    BY <1>1, ExpiredRow DEF IInv, IntentsFollowCompletion, TypeOK
  <1>8. Verdicts'
    <2> SUFFICES ASSUME NEW d \in decisions, NEW b \in Actions, b = d.action
                 PROVE  Spared(action'[b], ordinal[b], Current(b)', lease'[b])
      BY <1>1 DEF Verdicts, TypeOK, Decision
    <2>1. Spared(action[b], ordinal[b], Current(b), lease[b])
      BY RowFacts
    <2>2. CASE action'[b] = "cancelled"
      BY <2>1, <2>2, ExpiredRow DEF Spared, Current
    <2>3. CASE action'[b] # "cancelled"
      BY <2>1, <2>3 DEF Spared
    <2>4. QED
      BY <2>2, <2>3
  <1>9. QED
    BY <1>3, <1>4, <1>5, <1>6, <1>7, <1>8 DEF IInv, Grants

\* An unsuccessful claim commits nothing but the expiry.
LEMMA ClaimNothingInv ==
  ASSUME IInv, ClaimNothing
  PROVE  IInv'
  <1>1. ExpiredLease \in [Actions -> LeaseRow]
    BY ExpiredRow DEF ExpiredLease
  <1>2. QED
    BY <1>1, ExpiryInv DEF ClaimNothing

\* An adoption commits the expiry and renews one uncertain lease.
LEMMA AdoptInv ==
  ASSUME IInv, NEW a \in Actions, AdoptUncertain(a)
  PROVE  IInv'
  <1>1. ExpiredLease \in [Actions -> LeaseRow]
    BY ExpiredRow DEF ExpiredLease
  <1>2. Fresh(a) \in LeaseRow /\ Fresh(a).state = "active" /\ Fresh(a).token = lease[a].token
    BY RowTypes DEF IInv
  <1>3. lease' = [ExpiredLease EXCEPT ![a] = Fresh(a)]
    BY DEF AdoptUncertain
  <1>4. lease' \in [Actions -> LeaseRow] /\ lease'[a] = Fresh(a)
        /\ \A b \in Actions : b # a => lease'[b] = ExpiredLease[b]
    BY <1>1, <1>2, <1>3
  <1>5. QED
    BY <1>2, <1>4, ExpiryInv DEF AdoptUncertain

\* A claim: what is due expires, and the claimed action gets a new attempt and
\* a token above every earlier one.
LEMMA ClaimInv ==
  ASSUME IInv, NEW a \in Actions, Claim(a)
  PROVE  IInv'
  <1> DEFINE n == ordinal[a] + 1
             token == NextToken(a)
             row == [NoRow EXCEPT !.state = "claimed"]
             l == [state |-> "active", token |-> token, ttl |-> LeaseTime]
  <1>1. TypeOK /\ action[a] = "queued"
    BY DEF IInv, Claim
  <1>2. n \in Ordinals /\ n \in 0..MaxAttempts /\ n # 0
    BY <1>1, ConstantsAssumption DEF Claim, Ordinals, TypeOK
  <1>3. lease[a].token \in Nat /\ ordinal[a] \in Nat /\ reopened[a] \in Nat
        /\ token = lease[a].token + 1
    BY <1>1 DEF TypeOK, LeaseRow, NextToken
  <1>4. row \in Row /\ row.state = "claimed"
    BY DEF NoRow, Row, States, Reserving, Live, Classes
  <1>5. l \in LeaseRow /\ l.state = "active" /\ l.token = token
    BY <1>3, ConstantsAssumption DEF LeaseRow
  <1>6. ExpiredAttempt \in [Actions -> [Ordinals -> Row]] /\ ExpiredLease \in [Actions -> LeaseRow]
        /\ ExpiredAction \in [Actions -> States] /\ ExpiredIteration \in [Actions -> States]
    BY ExpiredRow DEF ExpiredAttempt, ExpiredLease, ExpiredAction, ExpiredIteration
  <1>7. UNCHANGED <<receipt, intents, heads, owned, decisions, reopened>> /\ Commit
    BY DEF Claim
  <1>8. /\ action'[a] = "claimed" /\ iteration'[a] = "claimed" /\ lease'[a] = l
        /\ ordinal'[a] = n /\ attempt'[a][n] = row /\ granted'[a][n] = token
        /\ \A j \in Ordinals : j # n => granted'[a][j] = granted[a][j]
    BY <1>1, <1>2, <1>6 DEF Claim, TypeOK
  <1>9. ASSUME NEW b \in Actions, b # a
        PROVE  /\ action'[b] = ExpiredAction[b] /\ iteration'[b] = ExpiredIteration[b]
               /\ attempt'[b] = ExpiredAttempt[b] /\ lease'[b] = ExpiredLease[b]
               /\ ordinal'[b] = ordinal[b] /\ granted'[b] = granted[b]
    BY <1>9, <1>1, <1>6 DEF Claim, TypeOK
  <1>10. TypeOK'
    <2> HIDE DEF row, l
    <2>1. attempt' = [ExpiredAttempt EXCEPT ![a][n] = row] /\ lease' = [ExpiredLease EXCEPT ![a] = l]
      BY DEF Claim, row, l
    <2>2. attempt' \in [Actions -> [Ordinals -> Row]] /\ lease' \in [Actions -> LeaseRow]
      BY <1>2, <1>4, <1>5, <1>6, <2>1
    <2>3. action' \in [Actions -> States] /\ iteration' \in [Actions -> States]
      BY <1>6 DEF Claim, States, Reserving, Live
    <2>4. ordinal' \in [Actions -> 0..MaxAttempts] /\ granted' \in [Actions -> [Ordinals -> Nat]]
      BY <1>1, <1>2, <1>3 DEF Claim, TypeOK
    <2>5. QED
      BY <1>1, <1>7, <2>2, <2>3, <2>4 DEF TypeOK
  <1>11. IndexesHold'
    BY <1>7 DEF Commit, IndexesHold, OneActiveLease, OneReservation, SlotPeers
  <1>12. receipt[a].status = "none"
    BY <1>1, RowFacts DEF Story, ReceiptRow, Terminal
  <1>13. ASSUME NEW b \in Actions
         PROVE  Story(action[b], iteration[b], ordinal[b], Current(b), lease[b], receipt[b])'
    <2>1. CASE b = a
      <3> HIDE DEF n, row, l
      <3>1. Story("claimed", "claimed", n, row, l, receipt[a])
        BY <1>2, <1>4, <1>5, <1>12 DEF Story, Live, Reserving
      <3>2. QED
        BY <2>1, <3>1, <1>7, <1>8 DEF Current
    <2>2. CASE b # a
      BY <2>2, <1>7, <1>9, ExpiredRow DEF Current
    <2>3. QED
      BY <2>1, <2>2
  <1>14. ASSUME NEW b \in Actions
         PROVE  Ascending(ordinal[b], granted[b], lease[b].token)'
    <2>1. CASE b = a
      <3> SUFFICES ASSUME NEW k \in 1..n
                   PROVE  granted'[a][k] <= token /\ (k < n => granted'[a][k] < token)
        BY <2>1, <1>5, <1>8 DEF Ascending
      <3>1. k \in Ordinals /\ (k # n => k \in 1..ordinal[a])
        BY <1>2, <1>3, ConstantsAssumption DEF Ordinals
      <3>2. k # n => granted'[a][k] = granted[a][k] /\ granted[a][k] <= lease[a].token
        BY <1>8, <3>1, RowFacts DEF Ascending
      <3>3. granted[a][k] \in Nat
        BY <1>1, <3>1 DEF TypeOK
      <3>4. QED
        BY <1>3, <1>8, <3>2, <3>3
    <2>2. CASE b # a
      BY <2>2, <1>9, ExpiredRow, RowFacts
    <2>3. QED
      BY <2>1, <2>2
  <1>15. ASSUME NEW b \in Actions
         PROVE  Budgeted(action[b], ordinal[b], reopened[b])'
    <2>1. CASE b = a
      BY <2>1, <1>1, <1>3, <1>7, <1>8, RowFacts, ConstantsAssumption DEF Budgeted
    <2>2. CASE b # a
      BY <2>2, <1>7, <1>9, ExpiredRow, RowFacts DEF Budgeted
    <2>3. QED
      BY <2>1, <2>2
  <1>16. IntentsFollowCompletion'
    BY <1>1, <1>7, <1>9, ExpiredRow DEF IInv, IntentsFollowCompletion, TypeOK
  <1>17. Verdicts'
    <2> SUFFICES ASSUME NEW d \in decisions, NEW b \in Actions, b = d.action
                 PROVE  Spared(action'[b], ordinal'[b], Current(b)', lease'[b])
      BY <1>1, <1>7 DEF Verdicts, TypeOK, Decision
    <2>1. CASE b = a
      BY <2>1, <1>2, <1>8 DEF Spared
    <2>2. CASE b # a
      BY <2>2, <1>9, ExpiredRow, RowFacts DEF Spared, Current
    <2>3. QED
      BY <2>1, <2>2
  <1>18. Grants'
    BY <1>7 DEF IInv, Grants
  <1>19. QED
    BY <1>10, <1>11, <1>13, <1>14, <1>15, <1>16, <1>17, <1>18 DEF IInv, Stories, Tokens, Budgets

-----------------------------------------------------------------------------
(* The specification.                                                      *)

\* Every step, and every stutter, keeps the invariant.
LEMMA NextInv == IInv /\ [Next]_vars => IInv'
  <1> SUFFICES ASSUME IInv, [Next]_vars PROVE IInv'
    OBVIOUS
  <1>1. CASE DaemonStep
    BY <1>1, CreateInv, ReconcileInv, CancelInv, SynchronizeInv, ScanInv, ApplyInv, CrashInv
       DEF DaemonStep
  <1>2. CASE RunnerStep
    BY <1>2, ClaimNothingInv, ClaimInv, AdoptInv, ReclassifyInv, RecoverPublishedInv,
       RecoverDiscardedInv, HeartbeatInv, DeferInv, StartInv, EnsureInv, CompleteInv
       DEF RunnerStep
  <1>3. CASE HostStep
    BY <1>3, AdmitInv, AgeInv DEF HostStep
  <1>4. CASE UNCHANGED vars
    BY <1>4, RefusedInv DEF vars
  <1>5. QED
    BY <1>1, <1>2, <1>3, <1>4 DEF Next

\* The inductive invariant holds in every reachable state.
THEOREM Inductive == Spec => []IInv
  BY InitInv, NextInv, PTL DEF Spec

\* Columns stay within their domains, whatever the constants.
THEOREM TypeCorrect == Spec => []TypeOK
  BY Inductive, PTL DEF IInv

\* No consumer can write with the token of an earlier attempt.
THEOREM Fencing == Spec => []StaleTokensFenced
  <1>1. IInv => StaleTokensFenced
    <2> SUFFICES ASSUME IInv, NEW a \in Actions, NEW k \in Ordinals, k < ordinal[a]
                 PROVE  granted[a][k] # lease[a].token
      BY DEF StaleTokensFenced
    <2>1. k \in 1..ordinal[a] /\ granted[a][k] \in Nat /\ lease[a].token \in Nat
      BY ConstantsAssumption DEF IInv, TypeOK, Ordinals, LeaseRow
    <2>2. QED
      BY <2>1, RowFacts DEF Ascending
  <1>2. QED
    BY <1>1, Inductive, PTL

\* A sealed action is closed in all four places.
THEOREM Sealing == Spec => []ReceiptSeals
  <1>1. IInv => ReceiptSeals
    BY DEF IInv, Stories, Story, ReceiptSeals
  <1>2. QED
    BY <1>1, Inductive, PTL

\* The rows of live work agree, and work in hand is under a lease.
THEOREM Agreement == Spec => []LiveRowsAgree
  <1>1. IInv => LiveRowsAgree
    BY DEF IInv, Stories, Story, LiveRowsAgree
  <1>2. QED
    BY <1>1, Inductive, PTL

\* The index on active leases makes a slot's worker unique.
THEOREM Exclusion == Spec => []OneWorkerPerSlot
  <1>1. IInv => OneWorkerPerSlot
    BY DEF IInv, Stories, Story, IndexesHold, OneActiveLease, SlotPeers, OneWorkerPerSlot, Live
  <1>2. QED
    BY <1>1, Inductive, PTL

\* An open action reserves its candidate.
THEOREM Reservation == Spec => []ReservationHeld
  <1>1. IInv => ReservationHeld
    BY DEF IInv, Stories, Story, ReservationHeld
  <1>2. QED
    BY <1>1, Inductive, PTL

\* Continuations belong to the attempt that completed its action.
THEOREM Continuation == Spec => []IntentsFollowCompletion
  BY Inductive, PTL DEF IInv

\* The retry budget holds for every MaxPreflight.
THEOREM Budget == Spec => []RetryBudget
  <1>1. IInv => RetryBudget
    BY DEF IInv, Budgets, Budgeted, RetryBudget
  <1>2. QED
    BY <1>1, Inductive, PTL

\* What a completed action's rows rule out for every late call.
LEMMA CompletedRows ==
  ASSUME IInv, NEW a \in Actions, action[a] = "completed"
  PROVE  /\ receipt[a] # NoReceipt /\ lease[a].state = "released" /\ ~Retryable(a)
         /\ a \notin Due
  <1>1. receipt[a].status = "completed" /\ lease[a].state = "released" /\ Current(a).class = "other"
    BY RowFacts DEF Story
  <1>2. QED
    BY <1>1 DEF NoReceipt, Retryable, Due

\* No step, by any caller, takes a completion back or rewrites its receipt.
THEOREM Finality == Spec => CompletedIsFinal
  <1> DEFINE Stays(a) == action'[a] = "completed" /\ receipt'[a] = receipt[a]
  <1>1. ASSUME IInv, [Next]_vars, NEW a \in Actions, action[a] = "completed"
        PROVE  Stays(a)
    <2>1. TypeOK /\ receipt[a] # NoReceipt /\ lease[a].state = "released" /\ ~Retryable(a)
          /\ a \notin Due
      BY <1>1, CompletedRows DEF IInv
    <2>2. CASE DaemonStep
      <3>1. ASSUME NEW d \in decisions, ApplyDecision(d) PROVE Stays(a)
        <4>1. CASE UNCHANGED <<rows, reopened>>
          BY <4>1, <1>1 DEF rows
        <4>2. CASE AuthorizeRetry(d.action, d.verdict)
          BY <4>2, <2>1, <1>1 DEF AuthorizeRetry, TypeOK
        <4>3. CASE Exhaust(d.action)
          BY <4>3, <2>1, <1>1 DEF Exhaust, MoveTo, Seal, TypeOK
        <4>4. QED
          BY <3>1, <4>1, <4>2, <4>3 DEF ApplyDecision
      <3>2. ASSUME NEW b \in Actions, CreateAction(b) \/ Cancel(b) PROVE Stays(a)
        BY <3>2, <2>1, <1>1 DEF CreateAction, Cancel, TypeOK, Reserving, Live
      <3>3. ASSUME NEW S, CancelObsolete(S), \A b \in S : action[b] # "completed" PROVE Stays(a)
        BY <3>3, <1>1 DEF CancelObsolete
      <3>4. ASSUME NEW b \in Actions, ReconcileCandidate(b) PROVE Stays(a)
        BY <3>3, <3>4 DEF ReconcileCandidate, Obsolete
      <3>5. ASSUME NEW scope, NEW new, SynchronizeHeads(scope, new) PROVE Stays(a)
        BY <3>3, <3>5 DEF SynchronizeHeads, Obsolete
      <3>6. ASSUME NEW changed, ScanRetries(changed) PROVE Stays(a)
        BY <3>6, <1>1 DEF ScanRetries, rows
      <3>7. ASSUME DaemonCrash PROVE Stays(a)
        BY <3>7, <1>1 DEF DaemonCrash, rows
      <3>8. QED
        BY <2>2, <3>1, <3>2, <3>4, <3>5, <3>6, <3>7 DEF DaemonStep
    <2>3. CASE RunnerStep
      <3>1. ExpiredAction[a] = "completed"
        BY <2>1, <1>1 DEF ExpiredAction
      <3>2. ASSUME NEW b \in Actions, ClaimNothing \/ Claim(b) \/ AdoptUncertain(b) PROVE Stays(a)
        BY <3>1, <3>2, <1>1 DEF ClaimNothing, Claim, AdoptUncertain, ExpiredAction
      <3>3. ASSUME NEW b \in Actions, NEW k, HoldsLease(b, k) PROVE b # a
        BY <3>3, <2>1 DEF HoldsLease
      <3>4. ASSUME NEW b \in Actions, NEW k, NEW turn, Start(b, k, turn) PROVE Stays(a)
        BY <3>3, <3>4, <2>1, <1>1 DEF Start, MoveTo, Seal, TypeOK
      <3>5. ASSUME NEW b \in Actions, NEW k, Heartbeat(b, k) \/ DeferRetry(b, k) PROVE Stays(a)
        BY <3>3, <3>5, <2>1, <1>1 DEF Heartbeat, DeferRetry, TypeOK
      <3>6. ASSUME NEW b \in Actions, NEW k, NEW outcome, NEW turn, NEW continued,
                   Complete(b, k, outcome, turn, continued)
            PROVE  Stays(a)
        BY <3>3, <3>6, <2>1, <1>1 DEF Complete, MoveTo, Seal, TypeOK
      <3>7. ASSUME NEW b \in Actions, NEW k, NEW turn, EnsureCompletionLease(b, k, turn)
            PROVE  Stays(a)
        BY <3>7, <2>1, <1>1 DEF EnsureCompletionLease, MoveTo, TypeOK
      <3>8. ASSUME NEW b \in Actions, NEW turn,
                   RecoverCancelledPublished(b, turn) \/ RecoverDiscardedOutcome(b, turn)
            PROVE  Stays(a)
        BY <3>8, <2>1, <1>1 DEF RecoverCancelledPublished, RecoverDiscardedOutcome, Recoverable,
           MoveTo, TypeOK
      <3>9. ASSUME NEW b \in Actions, ReclassifyLegacy(b) PROVE Stays(a)
        BY <3>9, <1>1 DEF ReclassifyLegacy
      <3>10. QED
        BY <2>3, <3>2, <3>4, <3>5, <3>6, <3>7, <3>8, <3>9 DEF RunnerStep
    <2>4. CASE HostStep
      BY <2>4, <1>1 DEF HostStep, AdmitOwner, Age, rows
    <2>5. CASE UNCHANGED vars
      BY <2>5, <1>1 DEF vars, rows
    <2>6. QED
      BY <1>1, <2>2, <2>3, <2>4, <2>5 DEF Next
  <1>2. IInv /\ [Next]_vars =>
          [\A a \in Actions : action[a] = "completed" => Stays(a)]_vars
    BY <1>1
  <1>3. QED
    BY <1>2, Inductive, PTL DEF Spec, CompletedIsFinal

\* A verdict that was reached before a cancellation does not undo it.
THEOREM NoRequeue == Spec => CancelledIsNotRequeued
  <1>1. ASSUME IInv, [Next]_vars, NEW a \in Actions, action[a] = "cancelled"
        PROVE  action'[a] # "queued"
    <2>1. TypeOK
      BY <1>1 DEF IInv
    <2>2. CASE DaemonStep
      <3>1. ASSUME NEW d \in decisions, ApplyDecision(d) PROVE action'[a] # "queued"
        <4>1. CASE UNCHANGED <<rows, reopened>>
          BY <4>1, <1>1 DEF rows
        <4>2. CASE AuthorizeRetry(d.action, d.verdict)
          <5>1. d.action = a => Current(a).class # "retryable"
            BY <1>1, RowFacts DEF Spared
          <5>2. d.action # a
            BY <4>2, <5>1, <1>1 DEF AuthorizeRetry, Retryable
          <5>3. QED
            BY <4>2, <5>2, <2>1, <1>1 DEF AuthorizeRetry, TypeOK
        <4>3. CASE Exhaust(d.action)
          BY <4>3, <2>1, <1>1 DEF Exhaust, MoveTo, TypeOK
        <4>4. QED
          BY <3>1, <4>1, <4>2, <4>3 DEF ApplyDecision
      <3>2. ASSUME NEW b \in Actions, CreateAction(b) \/ Cancel(b) PROVE action'[a] # "queued"
        BY <3>2, <2>1, <1>1 DEF CreateAction, Cancel, TypeOK
      <3>3. ASSUME NEW S, CancelObsolete(S) PROVE action'[a] # "queued"
        BY <3>3, <1>1 DEF CancelObsolete
      <3>4. ASSUME NEW b \in Actions, ReconcileCandidate(b) PROVE action'[a] # "queued"
        BY <3>3, <3>4 DEF ReconcileCandidate
      <3>5. ASSUME NEW scope, NEW new, SynchronizeHeads(scope, new) PROVE action'[a] # "queued"
        BY <3>3, <3>5 DEF SynchronizeHeads
      <3>6. ASSUME NEW changed, ScanRetries(changed) PROVE action'[a] # "queued"
        BY <3>6, <1>1 DEF ScanRetries, rows
      <3>7. ASSUME DaemonCrash PROVE action'[a] # "queued"
        BY <3>7, <1>1 DEF DaemonCrash, rows
      <3>8. QED
        BY <2>2, <3>1, <3>2, <3>4, <3>5, <3>6, <3>7 DEF DaemonStep
    <2>3. CASE RunnerStep
      <3>1. ExpiredAction[a] # "queued"
        BY <1>1 DEF ExpiredAction, Unsettled
      <3>2. ASSUME NEW b \in Actions, ClaimNothing \/ Claim(b) \/ AdoptUncertain(b)
            PROVE  action'[a] # "queued"
        BY <3>1, <3>2, <1>1 DEF ClaimNothing, Claim, AdoptUncertain, ExpiredAction
      <3>3. ASSUME NEW b \in Actions, NEW k, NEW turn, Start(b, k, turn) PROVE action'[a] # "queued"
        BY <3>3, <2>1, <1>1 DEF Start, MoveTo, TypeOK
      <3>4. ASSUME NEW b \in Actions, NEW k, Heartbeat(b, k) \/ DeferRetry(b, k)
            PROVE  action'[a] # "queued"
        BY <3>4, <2>1, <1>1 DEF Heartbeat, DeferRetry, TypeOK
      <3>5. ASSUME NEW b \in Actions, NEW k, NEW outcome \in Outcomes, NEW turn, NEW continued,
                   Complete(b, k, outcome, turn, continued)
            PROVE  action'[a] # "queued"
        BY <3>5, <2>1, <1>1 DEF Complete, MoveTo, Outcomes, TypeOK
      <3>6. ASSUME NEW b \in Actions, NEW k, NEW turn,
                   \/ EnsureCompletionLease(b, k, turn)
                   \/ RecoverCancelledPublished(b, turn) \/ RecoverDiscardedOutcome(b, turn)
            PROVE  action'[a] # "queued"
        <4> DEFINE row == [Current(b) EXCEPT !.state = "running"]
        <4>1. Current(b) \in Row => row.state = "running"
          BY DEF Row
        <4>2. \/ ordinal[b] # 0 /\ MoveTo(b, row)
              \/ action' = [action EXCEPT ![b] = "running"]
          BY <3>6 DEF EnsureCompletionLease, RecoverCancelledPublished, RecoverDiscardedOutcome
        <4> HIDE DEF row
        <4>3. QED
          BY <4>1, <4>2, <2>1, <1>1, RowTypes DEF MoveTo, TypeOK
      <3>7. ASSUME NEW b \in Actions, ReclassifyLegacy(b) PROVE action'[a] # "queued"
        BY <3>7, <1>1 DEF ReclassifyLegacy
      <3>8. QED
        BY <2>3, <3>2, <3>3, <3>4, <3>5, <3>6, <3>7 DEF RunnerStep
    <2>4. CASE HostStep
      BY <2>4, <1>1 DEF HostStep, AdmitOwner, Age, rows
    <2>5. CASE UNCHANGED vars
      BY <2>5, <1>1 DEF vars, rows
    <2>6. QED
      BY <1>1, <2>2, <2>3, <2>4, <2>5 DEF Next
  <1>2. IInv /\ [Next]_vars =>
          [\A a \in Actions : action[a] = "cancelled" => action'[a] # "queued"]_vars
    BY <1>1
  <1>3. QED
    BY <1>2, Inductive, PTL DEF Spec, CancelledIsNotRequeued

\* Neither a completion nor a cancellation is undone by a call that was judged
\* before it.
THEOREM Closed == Spec => ClosedStaysClosed
  BY Finality, NoRequeue DEF ClosedStaysClosed

-----------------------------------------------------------------------------
(* The repository implements SlotLease.                                    *)

\* A step that completes nothing and gives at most one action its slot is a
\* step of the promise: the others may lose theirs at the same time.
LEMMA TakeOrLose ==
  ASSUME IInv', Completed' = Completed, NEW a \in Actions, Holding' \subseteq Holding \cup {a}
  PROVE  [Promise!Next]_<<Holding, Completed>>
  <1> DEFINE lost == Holding \ Holding'
  <1>1. lost \in SUBSET Holding /\ Holding \subseteq Actions /\ Holding' \subseteq Actions
    BY DEF Holding
  <1>2. CASE a \notin Holding'
    <2>1. Holding' = Holding \ lost
      BY <1>2
    <2>2. Promise!Lose(lost)
      BY <2>1 DEF Promise!Lose
    <2>3. QED
      BY <1>1, <2>2 DEF Promise!Next
  <1>3. CASE a \in Holding'
    <2>1. Holding' = (Holding \ lost) \cup {a}
      BY <1>3
    <2>2. a \notin Completed
      BY <1>3 DEF IInv, Stories, Story, Holding, Completed
    <2>3. Promise!Rivals(a) \cap (Holding \ lost) = {}
      <3> SUFFICES ASSUME NEW b \in Promise!Rivals(a), b \in Holding \ lost PROVE FALSE
        OBVIOUS
      <3>1. b \in Holding' /\ b \in SlotPeers(a)
        BY DEF Promise!Rivals, SlotPeers
      <3>2. lease'[a].state = "active" /\ lease'[b].state = "active"
        BY <1>3, <3>1 DEF Holding
      <3>3. QED
        BY <3>1, <3>2 DEF IInv, IndexesHold, OneActiveLease, SlotPeers
    <2>4. Promise!Take(a, lost)
      BY <2>1, <2>2, <2>3 DEF Promise!Take
    <2>5. QED
      BY <1>1, <2>4 DEF Promise!Next
  <1>4. QED
    BY <1>2, <1>3

\* The step that completes an action is the promise's Finish, by the holder.
LEMMA CompleteKeepsPromise ==
  ASSUME IInv, IInv', NEW a \in Actions, NEW k \in Ordinals, NEW outcome \in Outcomes, NEW turn,
         NEW continued, Complete(a, k, outcome, turn, continued)
  PROVE  [Promise!Next]_<<Holding, Completed>>
  <1>1. TypeOK /\ a \in Holding /\ action[a] # "completed"
    BY CompletedRows DEF IInv, Complete, HoldsLease, Holding
  <1>2. \A b \in Actions : b # a => action'[b] = action[b] /\ lease'[b] = lease[b]
    BY <1>1 DEF Complete, MoveTo, TypeOK
  <1>3. CASE action'[a] = "completed"
    <2>1. lease'[a].state = "released"
      BY <1>3 DEF IInv, Stories, Story
    <2>2. Holding' = Holding \ {a} /\ Completed' = Completed \cup {a}
      BY <1>2, <1>3, <2>1 DEF Holding, Completed
    <2>3. QED
      BY <1>1, <2>2 DEF Promise!Next, Promise!Finish
  <1>4. CASE action'[a] # "completed"
    <2>1. Completed' = Completed /\ Holding' \subseteq Holding \cup {a}
      BY <1>1, <1>2, <1>4 DEF Holding, Completed
    <2>2. QED
      BY <2>1, TakeOrLose
  <1>5. QED
    BY <1>3, <1>4

\* Every other step of the repository completes nothing and renews or takes at
\* most one lease.
LEMMA OthersKeepPromise ==
  ASSUME IInv, [Next]_vars,
         ~ \E a \in Actions, k \in Ordinals, outcome \in Outcomes, turn \in Turns \cup {NoTurn},
              continued \in BOOLEAN : Complete(a, k, outcome, turn, continued)
  PROVE  \/ UNCHANGED <<Holding, Completed>>
         \/ \E a \in Actions : Completed' = Completed /\ Holding' \subseteq Holding \cup {a}
  <1> DEFINE Kept(a) == Completed' = Completed /\ Holding' \subseteq Holding \cup {a}
  <1>1. TypeOK
    BY DEF IInv
  <1>2. ASSUME NEW a \in Actions, action[a] # "completed",
               NEW s, s # "completed", action' = [action EXCEPT ![a] = s],
               \A b \in Actions : b # a => (lease'[b].state = "active" => lease[b].state = "active")
        PROVE  Kept(a)
    BY <1>1, <1>2 DEF TypeOK, Holding, Completed
  <1>3. ASSUME NEW a \in Actions, NEW l, lease' = [lease EXCEPT ![a] = l]
        PROVE  \A b \in Actions : b # a => (lease'[b].state = "active" => lease[b].state = "active")
    BY <1>1, <1>3 DEF TypeOK
  <1>4. \A a \in Actions : action[a] = "completed" =>
          lease[a].state = "released" /\ receipt[a] # NoReceipt /\ ~Retryable(a)
    BY CompletedRows
  <1>5. ASSUME UNCHANGED <<action, lease>> PROVE UNCHANGED <<Holding, Completed>>
    BY <1>5 DEF Holding, Completed
  <1>6. ASSUME NEW a \in Actions, UNCHANGED action, NEW l, lease' = [lease EXCEPT ![a] = l]
        PROVE  Kept(a)
    BY <1>1, <1>3, <1>6 DEF Holding, Completed, TypeOK
  <1> HIDE DEF Kept
  <1>7. CASE DaemonStep
    <2>1. ASSUME NEW d \in decisions, ApplyDecision(d)
          PROVE  UNCHANGED <<Holding, Completed>> \/ \E a \in Actions : Kept(a)
      <3>1. d.action \in Actions
        BY <1>1 DEF TypeOK, Decision
      <3>2. CASE UNCHANGED <<rows, reopened>>
        BY <3>2, <1>5 DEF rows
      <3>3. CASE AuthorizeRetry(d.action, d.verdict)
        BY <3>1, <3>3, <1>2, <1>3, <1>4 DEF AuthorizeRetry
      <3>4. CASE Exhaust(d.action)
        <4>1. action' = [action EXCEPT ![d.action] = "failed"]
          <5>1. ordinal[d.action] # 0
            BY RowFacts, <3>1 DEF Spared
          <5>2. Current(d.action) \in Row
            BY <1>1, <3>1, <5>1, RowTypes
          <5>3. QED
            BY <3>4, <5>2 DEF Exhaust, MoveTo, Row
        <4>2. QED
          BY <3>1, <3>4, <4>1, <1>2, <1>3, <1>4 DEF Exhaust
      <3>5. QED
        BY <2>1, <3>2, <3>3, <3>4 DEF ApplyDecision
    <2>2. ASSUME NEW a \in Actions, CreateAction(a) PROVE Kept(a)
      BY <2>2, <1>2, <1>4 DEF CreateAction
    <2>3. ASSUME NEW a \in Actions, Cancel(a) PROVE Kept(a)
      BY <2>3, <1>2, <1>3 DEF Cancel, Reserving, Live
    <2>4. ASSUME NEW keep, NEW scope, CancelObsolete(Obsolete(keep, scope))
          PROVE  Completed' = Completed /\ Holding' \subseteq Holding
      <3>1. \A a \in Obsolete(keep, scope) : action[a] # "completed"
        BY DEF Obsolete
      <3>2. \A a \in Actions : Released(a).state = "released"
        BY <1>1, RowTypes
      <3>3. Completed' = Completed
        BY <2>4, <3>1 DEF CancelObsolete, Completed
      <3>4. QED
        BY <2>4, <3>2, <3>3 DEF CancelObsolete, Holding
    <2>5. ASSUME NEW a \in Actions, ReconcileCandidate(a) PROVE Kept(a)
      BY <2>4, <2>5 DEF ReconcileCandidate, Kept
    <2>6. ASSUME NEW scope, NEW new, SynchronizeHeads(scope, new)
          PROVE  UNCHANGED <<Holding, Completed>> \/ \E a \in Actions : Kept(a)
      <3>1. Completed' = Completed /\ Holding' \subseteq Holding
        BY <2>4, <2>6 DEF SynchronizeHeads
      <3>2. Holding \subseteq Actions
        BY DEF Holding
      <3>3. QED
        BY <3>1, <3>2 DEF Kept
    <2>7. ASSUME NEW changed, ScanRetries(changed) PROVE UNCHANGED <<Holding, Completed>>
      BY <2>7, <1>5 DEF ScanRetries, rows
    <2>8. ASSUME DaemonCrash PROVE UNCHANGED <<Holding, Completed>>
      BY <2>8, <1>5 DEF DaemonCrash, rows
    <2>9. QED
      BY <1>7, <2>1, <2>2, <2>3, <2>5, <2>6, <2>7, <2>8 DEF DaemonStep, Kept
  <1>8. CASE RunnerStep
    <2>1. /\ \A a \in Actions : ExpiredAction[a] = "completed" <=> action[a] = "completed"
          /\ \A a \in Actions : ExpiredLease[a].state = "active" => lease[a].state = "active"
      BY ExpiredRow
    <2>2. ExpiredLease = [b \in Actions |-> ExpiredLease[b]]
          /\ ExpiredAction = [b \in Actions |-> ExpiredAction[b]]
      BY DEF ExpiredLease, ExpiredAction
    <2>3. ASSUME ClaimNothing
          PROVE  UNCHANGED <<Holding, Completed>> \/ \E a \in Actions : Kept(a)
      <3>1. Completed' = Completed /\ Holding' \subseteq Holding
        BY <2>1, <2>3 DEF ClaimNothing, Holding, Completed
      <3>2. Holding \subseteq Actions
        BY DEF Holding
      <3>3. QED
        BY <3>1, <3>2 DEF Kept
    <2>4. ASSUME NEW a \in Actions, Claim(a) PROVE Kept(a)
      <3>1. /\ action'[a] = "claimed" /\ action[a] = "queued"
            /\ \A b \in Actions : b # a =>
                 action'[b] = ExpiredAction[b] /\ lease'[b] = ExpiredLease[b]
        BY <2>2, <2>4 DEF Claim
      <3>2. QED
        BY <2>1, <3>1 DEF Holding, Completed, Kept
    <2>5. ASSUME NEW a \in Actions, AdoptUncertain(a) PROVE Kept(a)
      <3>1. action' = ExpiredAction /\ \A b \in Actions : b # a => lease'[b] = ExpiredLease[b]
        BY <2>2, <2>5 DEF AdoptUncertain
      <3>2. QED
        BY <2>1, <3>1 DEF Holding, Completed, Kept
    <2>6. ASSUME NEW a \in Actions, NEW k, NEW turn, Start(a, k, turn) PROVE Kept(a)
      <3>1. CASE action[a] = "claimed" /\ ~GateCurrent(a)
        <4>1. ordinal[a] # 0 /\ Current(a) \in Row
          BY <1>1, <3>1, RowFacts, RowTypes DEF Story, Live
        <4>2. action' = [action EXCEPT ![a] = "cancelled"] /\ lease' = [lease EXCEPT ![a] = Released(a)]
          BY <2>6, <3>1, <4>1 DEF Start, MoveTo, Row
        <4>3. QED
          BY <3>1, <4>2, <1>2, <1>3
      <3>2. CASE action[a] = "running"
        BY <2>6, <3>2, <1>6 DEF Start
      <3>3. CASE action[a] = "uncertain" \/ (action[a] = "claimed" /\ GateCurrent(a))
        BY <2>6, <3>3, <1>2, <1>3 DEF Start
      <3>4. QED
        BY <2>6, <3>1, <3>2, <3>3 DEF Start
    <2>7. ASSUME NEW a \in Actions, NEW k, Heartbeat(a, k) PROVE Kept(a)
      BY <2>7, <1>6 DEF Heartbeat
    <2>8. ASSUME NEW a \in Actions, NEW k, DeferRetry(a, k) PROVE Kept(a)
      <3>1. CASE action[a] \in Live
        BY <2>8, <3>1, <1>2, <1>3 DEF DeferRetry, Live
      <3>2. CASE action[a] \notin Live
        BY <2>8, <3>2, <1>6 DEF DeferRetry
      <3>3. QED
        BY <3>1, <3>2
    <2>9. ASSUME NEW a \in Actions, ordinal[a] # 0, action[a] # "completed",
                 MoveTo(a, [Current(a) EXCEPT !.state = "running"]),
                 lease' = [lease EXCEPT ![a] = Fresh(a)]
          PROVE  Kept(a)
      <3>1. Current(a) \in Row
        BY <1>1, <2>9, RowTypes
      <3>2. action' = [action EXCEPT ![a] = "running"]
        BY <2>9, <3>1 DEF MoveTo, Row
      <3>3. QED
        BY <2>9, <3>2, <1>2, <1>3
    <2>10. ASSUME NEW a \in Actions, NEW k, NEW turn, EnsureCompletionLease(a, k, turn)
           PROVE  Kept(a)
      BY <2>9, <2>10 DEF EnsureCompletionLease
    <2>11. ASSUME NEW a \in Actions, NEW turn, RecoverCancelledPublished(a, turn) PROVE Kept(a)
      BY <2>9, <2>11 DEF RecoverCancelledPublished, Recoverable
    <2>12. ASSUME NEW a \in Actions, NEW turn, RecoverDiscardedOutcome(a, turn) PROVE Kept(a)
      <3>1. action[a] # "completed"
        BY <2>12 DEF RecoverDiscardedOutcome, Recoverable
      <3>2. QED
        BY <2>12, <3>1, <1>2, <1>3 DEF RecoverDiscardedOutcome
    <2>13. ASSUME NEW a \in Actions, ReclassifyLegacy(a) PROVE UNCHANGED <<Holding, Completed>>
      BY <2>13, <1>5 DEF ReclassifyLegacy
    <2>14. QED
      BY <1>8, <2>3, <2>4, <2>5, <2>6, <2>7, <2>8, <2>10, <2>11, <2>12, <2>13
         DEF RunnerStep, Kept
  <1>9. CASE HostStep
    <2>1. ASSUME NEW w \in Workspaces, AdmitOwner(w) PROVE UNCHANGED <<Holding, Completed>>
      BY <2>1, <1>5 DEF AdmitOwner, rows
    <2>2. ASSUME NEW a \in Actions, Age(a) PROVE Kept(a)
      BY <2>2, <1>6 DEF Age
    <2>3. QED
      BY <1>9, <2>1, <2>2 DEF HostStep, Kept
  <1>10. CASE UNCHANGED vars
    BY <1>10, <1>5 DEF vars, rows
  <1>11. QED
    BY <1>7, <1>8, <1>9, <1>10 DEF Next

\* An outcome is sealed: an action with a receipt is closed in all its rows,
\* and a continuation goes out only with the completion of its own attempt.
THEOREM Sealed == Spec => []OutcomeSealed
  BY Sealing, Continuation, PTL DEF OutcomeSealed

\* Whatever its callers do, and in whatever order their calls arrive, the
\* repository keeps the promise of SlotLease.
THEOREM Refinement == Spec => KeepsPromise
  <1>1. Init => Promise!Init
    BY DEF Init, Promise!Init, Holding, Completed, NoLease
  <1>2. IInv /\ IInv' /\ [Next]_vars => [Promise!Next]_<<Holding, Completed>>
    <2> SUFFICES ASSUME IInv, IInv', [Next]_vars PROVE [Promise!Next]_<<Holding, Completed>>
      OBVIOUS
    <2>1. CASE \E a \in Actions, k \in Ordinals, outcome \in Outcomes,
                  turn \in Turns \cup {NoTurn}, continued \in BOOLEAN :
                 Complete(a, k, outcome, turn, continued)
      BY <2>1, CompleteKeepsPromise
    <2>2. CASE ~ \E a \in Actions, k \in Ordinals, outcome \in Outcomes,
                   turn \in Turns \cup {NoTurn}, continued \in BOOLEAN :
                  Complete(a, k, outcome, turn, continued)
      BY <2>2, OthersKeepPromise, TakeOrLose
    <2>3. QED
      BY <2>1, <2>2
  <1>3. QED
    BY <1>1, <1>2, Inductive, PTL DEF Spec, KeepsPromise, Promise!Spec

\* A slot has one holder, and a completed action is none.
THEOREM OneHolder == Spec => []Promise!OneHolder
  <1>1. IInv => Promise!OneHolder
    BY DEF IInv, IndexesHold, OneActiveLease, SlotPeers, Stories, Story, Promise!OneHolder,
       Promise!Rivals, Holding, Completed
  <1>2. QED
    BY <1>1, Inductive, PTL
=============================================================================
