---------------------------- MODULE AgentActions ----------------------------
(***************************************************************************)
(* The durable life of Agent actions in the control repository             *)
(* (ascendop_control/storage/repository.py).                               *)
(*                                                                         *)
(* One action is stored four times over: in the action row, in its         *)
(* iteration row (which reserves the candidate version), in the row of its *)
(* current attempt, and in its work lease.  A receipt row seals it.  Every *)
(* repository method is one BEGIN IMMEDIATE transaction, hence one action  *)
(* here; two partial unique indexes of the schema roll a transaction back  *)
(* when it would break them (Commit).                                      *)
(*                                                                         *)
(* Callers are the daemon tick (gate publication, retry decisions,         *)
(* operator cancellation, one after the other), any number of runner and   *)
(* IDE adapter processes, and a standalone host that may take a workspace  *)
(* over.  A runner process keeps the lease token of an attempt in memory   *)
(* or in its adapter state file, and may present it at any later time.     *)
(***************************************************************************)
EXTENDS Naturals, FiniteSets

CONSTANTS
  Actions,       \* action identities; an action owns one iteration and one lease
  Slots,         \* (operator, role) pairs
  SlotOf,        \* the slot of an action
  CandidateOf,   \* the candidate version an action's iteration reserves
  WorkspaceOf,   \* the origin workspace of an action
  Gated,         \* the actions whose origin is the workflow gate
  Scopes,        \* the slot sets a gate synchronization may cover
  Turns,         \* native turn (session) identities
  NoAction, NoTurn,
  MaxPreflight,  \* RetryController.max_agent_preflight_attempts
  LeaseTime,     \* how often a lease may age before it is due
  MaxAttempts,   \* bound: attempts of one action
  MaxReopened    \* bound: attempts granted beyond MaxPreflight

Workspaces == {WorkspaceOf[a] : a \in Actions}
Ordinals == 1..MaxAttempts

ASSUME ConstantsAssumption ==
  /\ SlotOf \in [Actions -> Slots]
  /\ Gated \subseteq Actions
  /\ Scopes \subseteq SUBSET Slots
  /\ NoAction \notin Actions
  /\ NoTurn \notin Turns
  /\ MaxPreflight \in Nat \ {0}
  /\ LeaseTime \in Nat \ {0}
  /\ MaxAttempts \in Nat \ {0}
  /\ MaxReopened \in Nat

Live == {"claimed", "running", "uncertain"}
Reserving == Live \cup {"queued", "retry-pending"}
Terminal == {"completed", "failed", "cancelled"}
States == Reserving \cup Terminal \cup {"absent"}

\* Failure classes, by what the repository tells apart: one it may retry, the
\* legacy "protocol" one it may normalise, "candidate-superseded", any other.
Classes == {"other", "retryable", "protocol", "superseded"}

VARIABLES
  action,     \* agent_actions_v4.state
  iteration,  \* agent_iterations_v4.state
  attempt,    \* agent_action_attempts_v4, by action and ordinal
  ordinal,    \* the ordinal of current_attempt_id, 0 before the first claim
  lease,      \* agent_work_leases_v4
  receipt,    \* agent_action_receipts_v4
  granted,    \* the lease token handed out with each attempt (kept by runners)
  intents,    \* agent.completion intents enqueued, by action and attempt
  heads,      \* scheduler_state 'agent-gate-heads-v4'
  owned,      \* workspaces with a row in workspace_owners_v5
  decisions,  \* RetryController: verdicts reached on its snapshot, not yet applied
  reopened    \* attempts granted to an action beyond MaxPreflight

rows == <<action, iteration, attempt, ordinal, lease, receipt, granted>>
vars == <<rows, intents, heads, owned, decisions, reopened>>

NoRow == [state |-> "absent", turn |-> NoTurn, class |-> "other", exhausted |-> FALSE]
NoReceipt == [status |-> "none", class |-> "other", exhausted |-> FALSE]
NoLease == [state |-> "absent", token |-> 0, ttl |-> 0]

Init ==
  /\ action = [a \in Actions |-> "absent"]
  /\ iteration = [a \in Actions |-> "absent"]
  /\ attempt = [a \in Actions |-> [k \in Ordinals |-> NoRow]]
  /\ ordinal = [a \in Actions |-> 0]
  /\ lease = [a \in Actions |-> NoLease]
  /\ receipt = [a \in Actions |-> NoReceipt]
  /\ granted = [a \in Actions |-> [k \in Ordinals |-> 0]]
  /\ intents = {}
  /\ heads = [s \in Slots |-> NoAction]
  /\ owned = {}
  /\ decisions = {}
  /\ reopened = [a \in Actions |-> 0]

-----------------------------------------------------------------------------
(* Rows, guards and indexes shared by the operations.                      *)

SlotPeers(a) == {b \in Actions : SlotOf[b] = SlotOf[a]} \ {a}
Current(a) == attempt[a][ordinal[a]]

\* Mutant: a retried action keeps the token of its lease row.
SameToken(a) == IF lease[a].token = 0 THEN 1 ELSE lease[a].token

\* A new attempt gets a new fencing token.
NextToken(a) == lease[a].token + 1

Fresh(a) == [lease[a] EXCEPT !.state = "active", !.ttl = LeaseTime]
Released(a) == [lease[a] EXCEPT !.state = "released"]

GateCurrent(a) ==
  /\ WorkspaceOf[a] \notin owned
  /\ a \in Gated => heads[SlotOf[a]] = a

\* Mutant: the token alone opens the lease row, whatever its state.
HoldsToken(a, k) == k \in 1..ordinal[a] /\ lease[a].token = granted[a][k]

\* The caller of attempt k presents the token it was given (_require_active_lease).
HoldsLease(a, k) ==
  /\ k \in 1..ordinal[a]
  /\ lease[a].state = "active"
  /\ lease[a].ttl > 0
  /\ lease[a].token = granted[a][k]

\* idx_agent_work_leases_v4_active_role and idx_agent_iterations_v4_candidate.
OneActiveLease(l) ==
  \A a \in Actions : \A b \in SlotPeers(a) :
    ~(l[a].state = "active" /\ l[b].state = "active")
OneReservation(i) ==
  \A a \in Actions : \A b \in SlotPeers(a) :
    CandidateOf[a] = CandidateOf[b] => ~(i[a] \in Reserving /\ i[b] \in Reserving)
Commit == OneActiveLease(lease') /\ OneReservation(iteration')

\* _expire_agent_leases: what every claim and adoption does first.
Due == {a \in Actions : lease[a].state = "active" /\ lease[a].ttl = 0}
Unsettled(s) == IF s \in {"claimed", "running"} THEN "uncertain" ELSE s
ExpiredLease ==
  [a \in Actions |-> IF a \in Due THEN [lease[a] EXCEPT !.state = "expired"] ELSE lease[a]]
ExpiredAction ==
  [a \in Actions |-> IF a \in Due THEN Unsettled(action[a]) ELSE action[a]]

\* Mutants: expiry forgets the attempt; expiry closes the iteration.
ForgottenAttempt == attempt
ClosedIteration == [a \in Actions |-> IF a \in Due THEN "failed" ELSE iteration[a]]

ExpiredAttempt ==
  [a \in Actions |-> [k \in Ordinals |->
    IF a \in Due THEN [attempt[a][k] EXCEPT !.state = Unsettled(@)] ELSE attempt[a][k]]]
ExpiredIteration ==
  [a \in Actions |-> IF a \in Due THEN "uncertain" ELSE iteration[a]]

\* Write the same state to an action, its iteration and its current attempt.
MoveTo(a, row) ==
  /\ action' = [action EXCEPT ![a] = row.state]
  /\ iteration' = [iteration EXCEPT ![a] = row.state]
  /\ attempt' = [attempt EXCEPT ![a][ordinal[a]] = row]

Seal(a, row) ==
  receipt' = [receipt EXCEPT ![a] =
    [status |-> row.state, class |-> row.class, exhausted |-> row.exhausted]]

-----------------------------------------------------------------------------
(* The daemon tick: gate publication, retry decisions, cancellation.       *)

\* The tick runs its stages in sequence; none starts while verdicts are pending.
TickIdle == decisions = {}

CreateAction(a) ==
  /\ TickIdle
  /\ action[a] = "absent"
  /\ WorkspaceOf[a] \notin owned
  /\ action' = [action EXCEPT ![a] = "queued"]
  /\ iteration' = [iteration EXCEPT ![a] = "queued"]
  /\ UNCHANGED <<attempt, ordinal, lease, receipt, granted, intents, heads, owned,
                 decisions, reopened>>
  /\ Commit

\* Gate actions that wait for a runner and are not to be kept.  A retry whose
\* rows disagree is left to recovery.
Obsolete(keep, scope) ==
  {a \in Gated \ keep :
    /\ SlotOf[a] \in scope
    /\ \/ action[a] = "queued"
       \/ /\ action[a] = "retry-pending"
          /\ Current(a).state = "retry-pending"
          /\ lease[a].state = "active"}

CancelObsolete(S) ==
  LET retrying == {a \in S : action[a] = "retry-pending"} IN
  /\ action' = [a \in Actions |-> IF a \in S THEN "cancelled" ELSE action[a]]
  /\ iteration' = [a \in Actions |->
       IF a \in S /\ iteration[a] = action[a] THEN "cancelled" ELSE iteration[a]]
  /\ attempt' = [a \in Actions |->
       IF a \in retrying
       THEN [attempt[a] EXCEPT ![ordinal[a]].state = "cancelled"]
       ELSE attempt[a]]
  /\ lease' = [a \in Actions |-> IF a \in retrying THEN Released(a) ELSE lease[a]]
  /\ UNCHANGED <<ordinal, receipt, granted, intents, owned, decisions, reopened>>
  /\ Commit

\* Before it publishes action a, the gate drops the restagings of a's candidate.
ReconcileCandidate(a) ==
  LET restagings == {b \in SlotPeers(a) : CandidateOf[b] = CandidateOf[a]} IN
  /\ TickIdle
  /\ CancelObsolete(Obsolete(Actions \ restagings, Slots))
  /\ UNCHANGED heads

\* new is the head published for each slot of the scope.
SynchronizeHeads(scope, new) ==
  /\ TickIdle
  /\ \A s \in scope :
       new[s] # NoAction => SlotOf[new[s]] = s /\ action[new[s]] # "absent"
  /\ heads' = [s \in Slots |-> IF s \in scope THEN new[s] ELSE heads[s]]
  /\ CancelObsolete(Obsolete({new[s] : s \in scope}, scope))

Cancel(a) ==
  /\ TickIdle
  /\ action[a] \in Reserving
  /\ action' = [action EXCEPT ![a] = "cancelled"]
  /\ iteration' = [iteration EXCEPT ![a] = "cancelled"]
  /\ attempt' = [attempt EXCEPT ![a] = [k \in Ordinals |->
       IF attempt[a][k].state \in Live
       THEN [attempt[a][k] EXCEPT !.state = "cancelled"] ELSE attempt[a][k]]]
  /\ lease' = IF lease[a].state = "active"
              THEN [lease EXCEPT ![a] = Released(a)] ELSE lease
  /\ UNCHANGED <<ordinal, receipt, granted, intents, heads, owned, decisions, reopened>>
  /\ Commit

\* Mutant: the transaction trusts the snapshot the controller judged.
TrustedSnapshot(a) == action[a] # "absent"

\* A failure the repository accepts for retry, in the row of a's current attempt.
Retryable(a) ==
  \/ Current(a).class = "retryable"
  \/ Current(a).class = "protocol" /\ action[a] = "failed"

\* Mutant: off by one at the last attempt of the budget.
OneAttemptMore(a, changed) ==
  IF ordinal[a] <= MaxPreflight THEN "retry"
  ELSE IF Current(a).exhausted /\ a \in changed THEN "reopen" ELSE "exhausted"

\* changed: the actions whose failure was recorded under an older runner contract.
\* "reopen" is the retry decision that such a change earns beyond the budget.
Verdict(a, changed) ==
  IF ordinal[a] < MaxPreflight THEN "retry"
  ELSE IF Current(a).exhausted /\ a \in changed THEN "reopen" ELSE "exhausted"

\* RetryController reads all candidates among the published heads and judges them.
ScanRetries(changed) ==
  LET candidates == {a \in Actions :
        /\ action[a] \in {"retry-pending", "failed"}
        /\ lease[a].state # "absent"
        /\ heads[SlotOf[a]] = a
        /\ Retryable(a)}
  IN
  /\ TickIdle
  /\ \A a \in candidates \cap changed : reopened[a] < MaxReopened
  /\ decisions' = {[action |-> a, attempt |-> ordinal[a],
                    verdict |-> Verdict(a, changed)] : a \in candidates}
  /\ decisions' # {}
  /\ UNCHANGED <<rows, intents, heads, owned, reopened>>

AuthorizeRetry(a, verdict) ==
  /\ Retryable(a)
  /\ action' = [action EXCEPT ![a] = "queued"]
  /\ iteration' = [iteration EXCEPT ![a] = "queued"]
  /\ attempt' = [attempt EXCEPT ![a][ordinal[a]].state = "failed",
                                ![a][ordinal[a]].class = "retryable"]
  /\ lease' = [lease EXCEPT ![a] = Fresh(a)]
  /\ receipt' = [receipt EXCEPT ![a] = NoReceipt]
  /\ reopened' = IF verdict = "reopen" THEN [reopened EXCEPT ![a] = @ + 1] ELSE reopened

\* A second -retry-exhausted suffix would hide the base class.
Exhaust(a) ==
  LET row == [Current(a) EXCEPT !.state = "failed", !.exhausted = TRUE,
                                !.class = IF Current(a).exhausted THEN "other" ELSE "retryable"]
  IN
  /\ Retryable(a)
  /\ ~(action[a] = "failed" /\ Current(a).state = "failed" /\ Current(a).exhausted)
  /\ MoveTo(a, row)
  /\ lease' = [lease EXCEPT ![a] = Released(a)]
  /\ Seal(a, row)
  /\ UNCHANGED reopened

\* apply_agent_retry_decision; a verdict it refuses, or whose write an index
\* refuses, is reported and dropped.
ApplyDecision(d) ==
  LET a == d.action
      applies == /\ ordinal[a] = d.attempt
                 /\ \/ d.verdict # "exhausted" /\ AuthorizeRetry(a, d.verdict)
                    \/ d.verdict = "exhausted" /\ Exhaust(a)
                 /\ Commit
                 /\ UNCHANGED <<ordinal, granted>>
      refused == \/ ordinal[a] # d.attempt
                 \/ ~Retryable(a)
                 \/ d.verdict = "exhausted" /\ action[a] = "failed"
                    /\ Current(a).state = "failed" /\ Current(a).exhausted
                 \/ d.verdict # "exhausted" /\ \E b \in SlotPeers(a) :
                      \/ lease[b].state = "active"
                      \/ CandidateOf[b] = CandidateOf[a] /\ iteration[b] \in Reserving
  IN
  /\ decisions' = decisions \ {d}
  /\ \/ applies
     \/ refused /\ UNCHANGED <<rows, reopened>>
  /\ UNCHANGED <<intents, heads, owned>>

\* A daemon crash loses the verdicts not yet applied.
DaemonCrash ==
  /\ decisions # {}
  /\ decisions' = {}
  /\ UNCHANGED <<rows, intents, heads, owned, reopened>>

-----------------------------------------------------------------------------
(* Runners and IDE adapters.                                               *)

\* claim_agent_action: expire what is due, then bind a queued action to a new
\* attempt and a new fencing token.
Claim(a) ==
  LET k == ordinal[a] + 1
      token == NextToken(a)
  IN
  /\ action[a] = "queued"
  /\ GateCurrent(a)
  /\ k \in Ordinals
  /\ \A b \in SlotPeers(a) :
       ExpiredAction[b] \notin Live /\ ExpiredLease[b].state # "active"
  /\ action' = [ExpiredAction EXCEPT ![a] = "claimed"]
  /\ iteration' = [ExpiredIteration EXCEPT ![a] = "claimed"]
  /\ attempt' = [ExpiredAttempt EXCEPT ![a][k] = [NoRow EXCEPT !.state = "claimed"]]
  /\ ordinal' = [ordinal EXCEPT ![a] = k]
  /\ lease' = [ExpiredLease EXCEPT
       ![a] = [state |-> "active", token |-> token, ttl |-> LeaseTime]]
  /\ granted' = [granted EXCEPT ![a][k] = token]
  /\ UNCHANGED <<receipt, intents, heads, owned, decisions, reopened>>
  /\ Commit

\* A claim or an adoption that finds nothing to take still commits the expiry.
ClaimNothing ==
  /\ Due # {}
  /\ action' = ExpiredAction
  /\ iteration' = ExpiredIteration
  /\ attempt' = ExpiredAttempt
  /\ lease' = ExpiredLease
  /\ UNCHANGED <<ordinal, receipt, granted, intents, heads, owned, decisions, reopened>>
  /\ Commit

\* adopt_uncertain_agent_action: the same attempt and the same token change hands.
AdoptUncertain(a) ==
  /\ ExpiredAction[a] = "uncertain"
  /\ \A b \in SlotPeers(a) : ExpiredLease[b].state # "active"
  /\ action' = ExpiredAction
  /\ iteration' = ExpiredIteration
  /\ attempt' = ExpiredAttempt
  /\ lease' = [ExpiredLease EXCEPT ![a] = Fresh(a)]
  /\ UNCHANGED <<ordinal, receipt, granted, intents, heads, owned, decisions, reopened>>
  /\ Commit

Start(a, k, turn) ==
  LET row == [Current(a) EXCEPT !.turn = turn] IN
  /\ HoldsLease(a, k)
  /\ Current(a).turn \in {NoTurn, turn}
  /\ \/ /\ action[a] = "claimed"
        /\ ~GateCurrent(a)
        /\ LET cancelled == [row EXCEPT !.state = "cancelled", !.class = "other"] IN
             /\ MoveTo(a, cancelled)
             /\ Seal(a, cancelled)
        /\ lease' = [lease EXCEPT ![a] = Released(a)]
     \/ /\ action[a] = "uncertain" \/ (action[a] = "claimed" /\ GateCurrent(a))
        /\ action' = [action EXCEPT ![a] = "running"]
        /\ iteration' = [iteration EXCEPT ![a] = "running"]
        /\ attempt' = IF row.state \in {"claimed", "uncertain"}
                      THEN [attempt EXCEPT ![a][ordinal[a]] = [row EXCEPT !.state = "running"]]
                      ELSE attempt
        /\ lease' = [lease EXCEPT ![a] = Fresh(a)]
        /\ UNCHANGED receipt
     \/ /\ action[a] = "running"
        /\ lease' = [lease EXCEPT ![a] = Fresh(a)]
        /\ UNCHANGED <<action, iteration, attempt, receipt>>
  /\ UNCHANGED <<ordinal, granted, intents, heads, owned, decisions, reopened>>
  /\ Commit

Heartbeat(a, k) ==
  /\ HoldsLease(a, k)
  /\ lease' = [lease EXCEPT ![a] = Fresh(a)]
  /\ UNCHANGED <<action, iteration, attempt, ordinal, receipt, granted, intents,
                 heads, owned, decisions, reopened>>

\* What a completion may report.
Outcomes ==
  [state : {"completed", "uncertain"}, class : {"other"}]
    \cup [state : {"failed"}, class : {"other", "retryable", "protocol"}]
    \cup [state : {"cancelled"}, class : {"other", "superseded"}]

\* complete_agent_action before a receipt exists; afterwards it only replays.
\* A completion for an obsolete gate is stored as a cancellation.
Complete(a, k, outcome, turn, continued) ==
  LET obsolete == outcome.state = "completed" /\ ~GateCurrent(a)
      row == [state |-> IF obsolete THEN "cancelled" ELSE outcome.state,
              turn |-> IF turn = NoTurn THEN Current(a).turn ELSE turn,
              class |-> outcome.class, exhausted |-> FALSE]
  IN
  /\ receipt[a] = NoReceipt
  /\ HoldsLease(a, k)
  /\ MoveTo(a, row)
  /\ IF row.state = "uncertain"
     THEN UNCHANGED <<lease, receipt>>
     ELSE lease' = [lease EXCEPT ![a] = Released(a)] /\ Seal(a, row)
  /\ intents' = IF continued /\ row.state = "completed"
                THEN intents \cup {<<a, ordinal[a]>>} ELSE intents
  /\ UNCHANGED <<ordinal, granted, heads, owned, decisions, reopened>>
  /\ Commit

\* defer_agent_action_retry: the attempt and the iteration move whatever the action is.
DeferRetry(a, k) ==
  /\ HoldsLease(a, k)
  /\ action' = IF action[a] \in Live
               THEN [action EXCEPT ![a] = "retry-pending"] ELSE action
  /\ iteration' = [iteration EXCEPT ![a] = "retry-pending"]
  /\ attempt' = [attempt EXCEPT ![a][ordinal[a]] =
       [@ EXCEPT !.state = "retry-pending", !.class = "retryable", !.exhausted = FALSE]]
  /\ lease' = [lease EXCEPT ![a] = Fresh(a)]
  /\ UNCHANGED <<ordinal, receipt, granted, intents, heads, owned, decisions, reopened>>
  /\ Commit

\* ensure_agent_turn_completion_lease, when the lease must be renewed to ingest
\* the exact terminal turn of the current attempt.
EnsureCompletionLease(a, k, turn) ==
  LET settled == {"running", "uncertain"} IN
  /\ k = ordinal[a] /\ k # 0
  /\ Current(a).turn = turn
  /\ receipt[a] = NoReceipt
  /\ GateCurrent(a)
  /\ {action[a], Current(a).state, iteration[a]} \subseteq settled
  /\ lease[a].state \in {"active", "expired"}
  /\ ~(lease[a].state = "active" /\ lease[a].ttl > 0)
  /\ \A b \in SlotPeers(a) : action[b] \notin Live
  /\ MoveTo(a, [Current(a) EXCEPT !.state = "running"])
  /\ lease' = [lease EXCEPT ![a] = Fresh(a)]
  /\ UNCHANGED <<ordinal, receipt, granted, intents, heads, owned, decisions, reopened>>
  /\ Commit

\* What both recoveries require of action a, sealed in the given state.
Recoverable(a, state, turn) ==
  /\ {action[a], Current(a).state, iteration[a], receipt[a].status} = {state}
  /\ lease[a].state = "released"
  /\ Current(a).turn = turn
  /\ GateCurrent(a)
  /\ \A b \in SlotPeers(a) : action[b] \notin Reserving

\* recover_cancelled_published_agent_action: the delivered turn did complete.
RecoverCancelledPublished(a, turn) ==
  /\ ordinal[a] # 0
  /\ Recoverable(a, "cancelled", turn)
  /\ receipt[a].class = "superseded"
  /\ MoveTo(a, [Current(a) EXCEPT !.state = "running"])
  /\ lease' = [lease EXCEPT ![a] = Fresh(a)]
  /\ receipt' = [receipt EXCEPT ![a] = NoReceipt]
  /\ UNCHANGED <<ordinal, granted, intents, heads, owned, decisions, reopened>>
  /\ Commit

\* recover_discarded_agent_turn_outcome: reconcile the receipt under a new attempt.
RecoverDiscardedOutcome(a, turn) ==
  LET k == ordinal[a] + 1
      token == NextToken(a)
  IN
  /\ ordinal[a] # 0 /\ k \in Ordinals
  /\ reopened[a] < MaxReopened
  /\ Recoverable(a, "failed", turn)
  /\ receipt[a].class = "retryable" /\ receipt[a].exhausted
  /\ action' = [action EXCEPT ![a] = "running"]
  /\ iteration' = [iteration EXCEPT ![a] = "running"]
  /\ attempt' = [attempt EXCEPT ![a][k] = [NoRow EXCEPT !.state = "running", !.turn = turn]]
  /\ ordinal' = [ordinal EXCEPT ![a] = k]
  /\ lease' = [lease EXCEPT
       ![a] = [state |-> "active", token |-> token, ttl |-> LeaseTime]]
  /\ granted' = [granted EXCEPT ![a][k] = token]
  /\ receipt' = [receipt EXCEPT ![a] = NoReceipt]
  /\ reopened' = [reopened EXCEPT ![a] = @ + 1]
  /\ UNCHANGED <<intents, heads, owned, decisions>>
  /\ Commit

\* reclassify_legacy_agent_evidence_validation
ReclassifyLegacy(a) ==
  /\ ordinal[a] # 0
  /\ action[a] = "failed"
  /\ Current(a).state = "failed" /\ Current(a).class = "protocol"
  /\ Current(a).turn = NoTurn
  /\ attempt' = [attempt EXCEPT ![a][ordinal[a]].class = "retryable"]
  /\ UNCHANGED <<action, iteration, ordinal, lease, receipt, granted, intents, heads,
                 owned, decisions, reopened>>

-----------------------------------------------------------------------------
(* The standalone host and time.                                           *)

\* admit_workspace_action adopts a workspace only once formal work has drained.
FormalWork(a) == action[a] \in Reserving \/ lease[a].state = "active"

AdmitOwner(w) ==
  /\ w \notin owned
  /\ \A a \in Actions : WorkspaceOf[a] = w => ~FormalWork(a)
  /\ owned' = owned \cup {w}
  /\ UNCHANGED <<rows, intents, heads, decisions, reopened>>

Age(a) ==
  /\ lease[a].state = "active" /\ lease[a].ttl > 0
  /\ lease' = [lease EXCEPT ![a].ttl = @ - 1]
  /\ UNCHANGED <<action, iteration, attempt, ordinal, receipt, granted, intents,
                 heads, owned, decisions, reopened>>

-----------------------------------------------------------------------------

DaemonStep ==
  \/ \E a \in Actions : CreateAction(a) \/ ReconcileCandidate(a) \/ Cancel(a)
  \/ \E scope \in Scopes : \E new \in [Slots -> Gated \cup {NoAction}] :
       SynchronizeHeads(scope, new)
  \/ \E changed \in SUBSET Actions : ScanRetries(changed)
  \/ \E d \in decisions : ApplyDecision(d)
  \/ DaemonCrash

RunnerStep ==
  \/ ClaimNothing
  \/ \E a \in Actions :
       \/ Claim(a) \/ AdoptUncertain(a) \/ ReclassifyLegacy(a)
       \/ \E turn \in Turns :
            RecoverCancelledPublished(a, turn) \/ RecoverDiscardedOutcome(a, turn)
       \/ \E k \in Ordinals :
            \/ Heartbeat(a, k) \/ DeferRetry(a, k)
            \/ \E turn \in Turns : Start(a, k, turn) \/ EnsureCompletionLease(a, k, turn)
            \/ \E outcome \in Outcomes, turn \in Turns \cup {NoTurn}, continued \in BOOLEAN :
                 Complete(a, k, outcome, turn, continued)

HostStep ==
  \/ \E w \in Workspaces : AdmitOwner(w)
  \/ \E a \in Actions : Age(a)

Next == DaemonStep \/ RunnerStep \/ HostStep

Spec == Init /\ [][Next]_vars

-----------------------------------------------------------------------------
(* Properties.                                                             *)

Row == [state : States, turn : Turns \cup {NoTurn}, class : Classes, exhausted : BOOLEAN]
LeaseRow ==
  [state : {"absent", "active", "expired", "released"}, token : Nat, ttl : 0..LeaseTime]
ReceiptRow == [status : Terminal \cup {"none"}, class : Classes, exhausted : BOOLEAN]
Decision == [action : Actions, attempt : Ordinals, verdict : {"retry", "reopen", "exhausted"}]

\* Every column holds a value of its domain.
TypeOK ==
  /\ action \in [Actions -> States]
  /\ iteration \in [Actions -> States]
  /\ attempt \in [Actions -> [Ordinals -> Row]]
  /\ ordinal \in [Actions -> 0..MaxAttempts]
  /\ lease \in [Actions -> LeaseRow]
  /\ receipt \in [Actions -> ReceiptRow]
  /\ granted \in [Actions -> [Ordinals -> Nat]]
  /\ intents \subseteq Actions \X Ordinals
  /\ heads \in [Slots -> Actions \cup {NoAction}]
  /\ owned \subseteq Workspaces
  /\ decisions \subseteq Decision
  /\ reopened \in [Actions -> Nat]

\* The token handed out with an earlier attempt never opens the lease again
\* (the token rotation of claim_agent_action and recover_discarded_agent_turn_outcome).
StaleTokensFenced ==
  \A a \in Actions : \A k \in Ordinals :
    k < ordinal[a] => granted[a][k] # lease[a].token

\* A receipt seals an action: its four copies agree with it and its lease is
\* released, so no consumer can write to it any more.
ReceiptSeals ==
  \A a \in Actions : receipt[a].status # "none" =>
    /\ action[a] = receipt[a].status
    /\ iteration[a] = receipt[a].status
    /\ ordinal[a] # 0 /\ Current(a).state = receipt[a].status
    /\ lease[a].state = "released"

\* While an action is live its iteration and current attempt tell the same
\* story, and work that is claimed or running is under an active lease.
LiveRowsAgree ==
  \A a \in Actions : action[a] \in Live =>
    /\ ordinal[a] # 0
    /\ iteration[a] = action[a]
    /\ Current(a).state = action[a]
    /\ action[a] # "uncertain" => lease[a].state = "active"

\* One slot never has two actions claimed or running.
OneWorkerPerSlot ==
  \A a, b \in Actions :
    a # b /\ {action[a], action[b]} \subseteq {"claimed", "running"} =>
      SlotOf[a] # SlotOf[b]

\* An action that may still produce its candidate keeps the candidate reserved.
ReservationHeld ==
  \A a \in Actions : action[a] \in Reserving => iteration[a] \in Reserving

\* A completion continuation is enqueued only for the attempt that completed its
\* action, once.
IntentsFollowCompletion ==
  \A i \in intents : action[i[1]] = "completed" /\ i[2] = ordinal[i[1]]

\* What an outcome leaves behind, the receipt and the continuation, agrees with the
\* action for good, through late completions, recoveries and reopened attempts.
OutcomeSealed == ReceiptSeals /\ IntentsFollowCompletion

\* Retry arbitration grants no attempt beyond the budget except those it
\* counted as reopened by a changed contract or by a receipt reconciliation.
RetryBudget ==
  \A a \in Actions : ordinal[a] <= MaxPreflight + reopened[a]

\* Completed is final, whatever late call arrives.
CompletedIsFinal ==
  [][\A a \in Actions : action[a] = "completed" =>
       action'[a] = "completed" /\ receipt'[a] = receipt[a]]_vars

\* A cancelled action is never put back in the queue by a retry verdict reached
\* before the cancellation.
CancelledIsNotRequeued ==
  [][\A a \in Actions : action[a] = "cancelled" => action'[a] # "queued"]_vars

\* What is closed stays closed, whatever was judged or claimed before.
ClosedStaysClosed == CompletedIsFinal /\ CancelledIsNotRequeued

\* The expiry that opens every claim can always be committed: moving the iteration
\* of each active lease to uncertain keeps every candidate reserved at most once.
\* (It cannot: an obsolete restaging is cancelled without its retry lease, and once
\* that lease is due every claim of every operator rolls back.)
ExpiryCanCommit ==
  OneReservation([a \in Actions |->
    IF lease[a].state = "active" THEN "uncertain" ELSE iteration[a]])

\* An action that is over no longer reserves its candidate.  (It may: a late
\* deferral, under the lease an obsolete cancellation left active, moves the iteration
\* of an action that is no longer live.)
TerminalFreesCandidate ==
  \A a \in Actions : action[a] \in Terminal => iteration[a] \notin Reserving

\* A workspace under a standalone owner has no formal work.  (It may: a retry
\* verdict reached before the admission requeues a failed action after it.)
OwnedWorkspaceIsDrained ==
  \A a \in Actions : WorkspaceOf[a] \in owned => ~FormalWork(a)

-----------------------------------------------------------------------------
(* The promise, seen from outside: SlotLease under this mapping.           *)

Holding == {a \in Actions : lease[a].state = "active"}
Completed == {a \in Actions : action[a] = "completed"}
Promise == INSTANCE SlotLease WITH holding <- Holding, completed <- Completed

\* The repository implements SlotLease: no late, repeated or stale call makes a
\* slot have two holders, completes an action that does not hold its slot, or
\* gives a completed action its slot back.
KeepsPromise == Promise!Spec
=============================================================================
