---------------------------- MODULE WorkspaceLoop ----------------------------
(***************************************************************************)
(* The file-first loop of one workspace                                    *)
(* (ascendop_control/storage/workspace_repository.py, ascendop_daemon/     *)
(* automation/{native_commit,managed_completion_commit,external_           *)
(* completion_core,workspace_snapshot,workspace_projection_port}.py and    *)
(* storage/repositories/gp_terminal_ingest.py).                            *)
(*                                                                         *)
(* Every accepted fact is a row of the control outbox, written with its    *)
(* sequence number in one transaction with what it changes and with the    *)
(* intent that has the workspace view projected again.  Workers, several   *)
(* processes, claim rows: they hand an action over to its planned          *)
(* successor, release native starts, ingest official results and project   *)
(* the view.  A claim is lost when its worker dies, or when its lease      *)
(* lapses while the worker goes on.  Claims themselves are the subject of  *)
(* ControlOutbox.                                                          *)
(***************************************************************************)
EXTENDS Naturals, Sequences

CONSTANTS
  Actions,      \* the actions that planners may propose, each with its revision
  Plans(_),     \* the actions that a planner, host or event, may propose
  Terminals,    \* local test terminals (event ids)
  Officials,    \* official events
  Workers,
  MaxFacts,     \* bound: rows already in the outbox when one is reported from outside
  MaxFaults     \* bound: deaths of workers and lapses of claims

ASSUME WorkspaceAssumption ==
  /\ \A a \in Actions : a.revision \in Nat \ {0}
  /\ MaxFacts \in Nat /\ MaxFaults \in Nat

VARIABLES
  owner,      \* workspace_owners_v5: the binding of the current writer
  journal,    \* the outbox rows that are facts of this workspace, by sequence
  done,       \* the rows that have been delivered
  projected,  \* the rows whose workspace.project intent has been delivered
  successor,  \* successor_action_id of every terminal event
  view,       \* the published workspace view
  at,         \* what each worker is doing
  faults

vars == <<owner, journal, done, projected, successor, view, at, faults>>

NoAction == [revision |-> 0, id |-> "none"]
Host == <<"host">>  \* the planner of an action that no event planned

Successors(a, planner) == {b \in Actions \cap Plans(planner) : b.revision = a.revision + 1}

Topics == {"workspace.action", "agent.native-start", "agent.completion",
           "test.terminal", "official.terminal"}

\* link: of an admission, the owner it expects; of a terminal, the action its
\* continuation plans next, NoAction when it only waits.
Fact(topic, key, action, link) ==
  [topic |-> topic, key |-> key, action |-> action, link |-> link]
Rows == DOMAIN journal
RowsOf(topic) == {i \in Rows : journal[i].topic = topic}
Recorded(topic, a) == \E i \in RowsOf(topic) : journal[i].action = a

\* What read_workspace_snapshot shows: a native start only once it is admitted.
Visible == {i \in Rows : journal[i].topic = "agent.native-start" => i \in done}
Snapshot == [facts |-> Visible, owner |-> owner]
NoView == [facts |-> {}, owner |-> NoAction]

\* event: the official event, and the terminal it is bound to, of an ingestion.
Idle == [pc |-> "idle", row |-> 0, live |-> TRUE, read |-> NoView, event |-> <<>>]

Init ==
  /\ owner = NoAction
  /\ journal = <<>> /\ done = {} /\ projected = {}
  /\ successor = [t \in Terminals |-> NoAction]
  /\ view = NoView
  /\ at = [w \in Workers |-> Idle]
  /\ faults = 0

Accept(f) == journal' = Append(journal, f)

Goto(w, pc) == at' = [at EXCEPT ![w].pc = pc]

Leave(w) == at' = [at EXCEPT ![w] = Idle]

-----------------------------------------------------------------------------
(* Admission: the compare-and-swap of the owner.                           *)

Admission(a, planner, expected) == Fact("workspace.action", planner, a, expected)

\* Mutant: a repeated admission is not compared with the accepted payload.
ByActionOnly(m) == Recorded("workspace.action", m.action)

\* Mutant: an admission is not recognised when it is repeated.
NoReplay(m) == FALSE
Replays(m) == \E i \in Rows : journal[i] = m

\* Mutant: the admission does not look at the head.
AnyHead(m) == TRUE
Current(m) == owner = m.link

Admits(m) ==
  /\ ~Recorded("workspace.action", m.action)
  /\ Current(m)

\* The host adopts the workspace, or has its own plan for the next action.
HostAdmits(a) ==
  LET m == Admission(a, Host, owner)
  IN  /\ a \in Successors(owner, Host) /\ Admits(m)
      /\ Len(journal) < MaxFacts /\ Accept(m) /\ owner' = a
      /\ UNCHANGED <<done, projected, successor, view, at, faults>>

-----------------------------------------------------------------------------
(* Facts that carriers and watchers report.                                *)

Report(topic, key, a, link) ==
  /\ Len(journal) < MaxFacts /\ Accept(Fact(topic, key, a, link))
  /\ UNCHANGED <<owner, done, projected, successor, view, at, faults>>

RequestStart(a) ==
  /\ Recorded("workspace.action", a) /\ ~Recorded("agent.native-start", a)
  /\ Report("agent.native-start", Host, a, NoAction)

\* record_workspace_completion: one completion for an action, whoever owns the
\* workspace by then.
Complete(a) ==
  /\ Recorded("workspace.action", a) /\ ~Recorded("agent.completion", a)
  /\ Report("agent.completion", Host, a, NoAction)

\* record_gp_terminal_ingest_event: the event with its continuation; a replay
\* changes nothing and another content is refused.  A request is tested without
\* waiting for the completion of its action.
RecordTerminal(t, a, next) ==
  /\ Recorded("workspace.action", a)
  /\ \A i \in RowsOf("test.terminal") : journal[i].key # <<t>>
  /\ Report("test.terminal", <<t>>, a, next)

-----------------------------------------------------------------------------
(* ExternalCompletionCore.ingest                                           *)

\* Mutant: the event is looked up under this local terminal only.
SameTerminal(event) == \E i \in RowsOf("official.terminal") : journal[i].key = event
AcceptedEvent(event) == \E i \in RowsOf("official.terminal") : journal[i].key[1] = event[1]

Waiting(t) == \E i \in RowsOf("test.terminal") : journal[i].key = <<t>> /\ journal[i].link = NoAction

CheckOfficial(w, o, t) ==
  /\ at[w] = Idle
  /\ ~AcceptedEvent(<<o, t>>) /\ Waiting(t)
  /\ at' = [at EXCEPT ![w].pc = "ingest", ![w].event = <<o, t>>]
  /\ UNCHANGED <<owner, journal, done, projected, successor, view, faults>>

\* The check is repeated in the transaction that writes.
IngestOfficial(w) ==
  LET event == at[w].event
      local == CHOOSE i \in RowsOf("test.terminal") : journal[i].key = <<event[2]>>
      a     == journal[local].action
  IN  /\ at[w].pc = "ingest"
      /\ IF AcceptedEvent(event) THEN UNCHANGED journal
         ELSE \E next \in Successors(a, event) \cup {NoAction} :
                Accept(Fact("official.terminal", event, a, next))
      /\ Leave(w)
      /\ UNCHANGED <<owner, done, projected, successor, view, faults>>

-----------------------------------------------------------------------------
(* Claims of outbox rows.                                                  *)

Delivery == {"admit", "bind", "start", "deliver"}
Projection == {"publish", "projected"}
Held(i, stage) == \E w \in Workers : at[w].row = i /\ at[w].live /\ at[w].pc \in stage

Handoffs == RowsOf("test.terminal") \cup RowsOf("official.terminal")

Claim(w, i, pc) ==
  /\ at[w] = Idle
  /\ at' = [at EXCEPT ![w].pc = pc, ![w].row = i]
  /\ UNCHANGED <<owner, journal, done, projected, successor, view, faults>>

ClaimHandoff(w, i) == i \in Handoffs \ done /\ ~Held(i, Delivery) /\ Claim(w, i, "admit")

ClaimStart(w, i) ==
  i \in RowsOf("agent.native-start") \ done /\ ~Held(i, Delivery) /\ Claim(w, i, "start")

\* The lease lapses while the worker goes on: another may claim the row.
Lapse(w) ==
  /\ at[w].row # 0 /\ at[w].live
  /\ faults < MaxFaults /\ faults' = faults + 1
  /\ at' = [at EXCEPT ![w].live = FALSE]
  /\ UNCHANGED <<owner, journal, done, projected, successor, view>>

Crash(w) ==
  /\ at[w] # Idle
  /\ faults < MaxFaults /\ faults' = faults + 1
  /\ Leave(w)
  /\ UNCHANGED <<owner, journal, done, projected, successor, view>>

-----------------------------------------------------------------------------
(* The handover of a terminal: two transactions, then the delivery.        *)

Row(w) == journal[at[w].row]
Planned(w) == Admission(Row(w).link, Row(w).key, Row(w).action)

AfterAdmission(w) == IF Row(w).topic = "test.terminal" THEN "bind" ELSE "deliver"

OfferNothing(w) ==
  /\ at[w].pc = "admit" /\ Row(w).link = NoAction
  /\ Goto(w, "deliver")
  /\ UNCHANGED <<owner, journal, done, projected, successor, view, faults>>

OfferNew(w) ==
  /\ at[w].pc = "admit" /\ Row(w).link # NoAction
  /\ Admits(Planned(w))
  /\ Accept(Planned(w)) /\ owner' = Row(w).link
  /\ Goto(w, AfterAdmission(w))
  /\ UNCHANGED <<done, projected, successor, view, faults>>

\* The replay returns its original admission and leaves the head alone.
OfferAgain(w) ==
  /\ at[w].pc = "admit" /\ Row(w).link # NoAction
  /\ Replays(Planned(w))
  /\ Goto(w, AfterAdmission(w))
  /\ UNCHANGED <<owner, journal, done, projected, successor, view, faults>>

\* A changed replay or a stale plan raises; the row is deferred.
OfferRefused(w) ==
  /\ at[w].pc = "admit" /\ Row(w).link # NoAction
  /\ ~Replays(Planned(w)) /\ ~Admits(Planned(w))
  /\ Leave(w)
  /\ UNCHANGED <<owner, journal, done, projected, successor, view, faults>>

\* bind_gp_terminal_ingest_successor
Bind(w) ==
  LET t == Row(w).key[1]
  IN  /\ at[w].pc = "bind"
      /\ IF successor[t] \in {NoAction, Row(w).link}
         THEN successor' = [successor EXCEPT ![t] = Row(w).link] /\ Goto(w, "deliver")
         ELSE UNCHANGED successor /\ Leave(w)
      /\ UNCHANGED <<owner, journal, done, projected, view, faults>>

\* finish_control_outbox: a lapsed claim delivers nothing.
Deliver(w) ==
  /\ at[w].pc = "deliver"
  /\ done' = IF at[w].live THEN done \cup {at[w].row} ELSE done
  /\ Leave(w)
  /\ UNCHANGED <<owner, journal, projected, successor, view, faults>>

\* accept_native_start: claim, owner and release in one transaction.
AcceptStart(w) ==
  /\ at[w].pc = "start"
  /\ done' = IF at[w].live /\ owner = Row(w).action THEN done \cup {at[w].row} ELSE done
  /\ Leave(w)
  /\ UNCHANGED <<owner, journal, projected, successor, view, faults>>

-----------------------------------------------------------------------------
(* The projection: snapshot and publication under the file lock.           *)

\* Mutant: a native start has its view projected as soon as it is requested.
EveryRow == Rows
Announced == Visible

Unprojected == {i \in Announced \ projected : ~Held(i, Projection)}

\* Projections are claimed in the order of their facts; that of a native start
\* has the date of its admission, and may come at any time.
InOrder(i) ==
  \A j \in Unprojected : j < i /\ journal[j].topic # "agent.native-start" =>
    journal[i].topic = "agent.native-start"

\* Mutant: the snapshot is taken before the lock.
NotLocked == TRUE
Unlocked == \A w \in Workers : at[w].pc # "publish"

\* The worker that claims the row waits for the lock, then reads.
ClaimProjection(w, i) ==
  /\ at[w] = Idle
  /\ i \in Unprojected /\ InOrder(i) /\ Unlocked
  /\ at' = [at EXCEPT ![w].pc = "publish", ![w].row = i, ![w].read = Snapshot]
  /\ UNCHANGED <<owner, journal, done, projected, successor, view, faults>>

Publish(w) ==
  /\ at[w].pc = "publish"
  /\ view' = at[w].read
  /\ at' = [at EXCEPT ![w].pc = "projected", ![w].read = NoView]
  /\ UNCHANGED <<owner, journal, done, projected, successor, faults>>

DeliverProjection(w) ==
  /\ at[w].pc = "projected"
  /\ projected' = IF at[w].live THEN projected \cup {at[w].row} ELSE projected
  /\ Leave(w)
  /\ UNCHANGED <<owner, journal, done, successor, view, faults>>

-----------------------------------------------------------------------------

HandoffStep(w) ==
  OfferNothing(w) \/ OfferNew(w) \/ OfferAgain(w) \/ OfferRefused(w) \/ Bind(w) \/ Deliver(w)
ProjectionStep(w) == Publish(w) \/ DeliverProjection(w)
Step(w) == HandoffStep(w) \/ ProjectionStep(w) \/ AcceptStart(w) \/ IngestOfficial(w)

Next ==
  \/ \E a \in Actions : HostAdmits(a) \/ RequestStart(a) \/ Complete(a)
  \/ \E t \in Terminals, a \in Actions : \E next \in Successors(a, <<t>>) \cup {NoAction} :
       RecordTerminal(t, a, next)
  \/ \E w \in Workers, o \in Officials, t \in Terminals : CheckOfficial(w, o, t)
  \/ \E w \in Workers, i \in Rows :
       ClaimHandoff(w, i) \/ ClaimStart(w, i) \/ ClaimProjection(w, i)
  \/ \E w \in Workers : Step(w) \/ Lapse(w) \/ Crash(w)

Spec == Init /\ [][Next]_vars

-----------------------------------------------------------------------------
(* Properties                                                              *)

Facts == [topic : Topics, key : {Host} \cup {<<t>> : t \in Terminals} \cup (Officials \X Terminals),
          action : Actions, link : Actions \cup {NoAction}]
Views == [facts : SUBSET Nat, owner : Actions \cup {NoAction}]

\* Types: a worker holds a row exactly while it delivers or projects it.
TypeOK ==
  /\ owner \in Actions \cup {NoAction}
  /\ journal \in Seq(Facts)
  /\ done \subseteq Handoffs \cup RowsOf("agent.native-start")
  /\ projected \subseteq Rows
  /\ successor \in [Terminals -> Actions \cup {NoAction}]
  /\ view \in Views
  /\ at \in [Workers -> [pc : {"idle", "ingest"} \cup Delivery \cup Projection, row : Nat,
                        live : BOOLEAN, read : Views, event : (Officials \X Terminals) \cup {<<>>}]]
  /\ \A w \in Workers :
       /\ at[w].row \in (IF at[w].pc \in {"idle", "ingest"} THEN {0} ELSE Rows)
       /\ at[w].event \in (IF at[w].pc = "ingest" THEN Officials \X Terminals ELSE {<<>>})
  /\ faults \in 0..MaxFaults

\* The admissions of a workspace form one chain, in the order of the journal:
\* every action was admitted over an admitted one of the revision before, no
\* revision twice, and the head is the last (admit_workspace_action, against
\* racing planners, repeated handovers and plans made for an earlier owner).
OwnersFormAChain ==
  LET chain == RowsOf("workspace.action")
      Owners == {journal[i].action : i \in chain} \cup {NoAction}
  IN  /\ \A i \in chain :
           /\ journal[i].link \in {journal[j].action : j \in {k \in chain : k < i}} \cup {NoAction}
           /\ journal[i].action.revision = journal[i].link.revision + 1
      /\ \A i, j \in chain : i < j => journal[i].action.revision < journal[j].action.revision
      /\ owner \in Owners /\ \A a \in Owners : a.revision <= owner.revision

\* A terminal is bound to the successor its own plan had admitted, and to no
\* other; a delivered handover has its successor bound (the handler admits in
\* one transaction and binds in another, a crash between them).
BoundSuccessorOwned ==
  \A i \in RowsOf("test.terminal") :
    LET f == journal[i]
    IN  /\ successor[f.key[1]] # NoAction =>
             successor[f.key[1]] = f.link /\ \E j \in Rows : journal[j] = Admission(f.link, f.key, f.action)
        /\ i \in done => successor[f.key[1]] = f.link

\* An official event is accepted for one local terminal (ingest repeats its
\* check inside the transaction).
OfficialInOneTerminal ==
  \A i, j \in RowsOf("official.terminal") : journal[i].key[1] = journal[j].key[1] => i = j

\* A projection intent that is delivered has its fact in the published view, the
\* facts that became visible after they were written included.
ProjectedIsShown == projected \subseteq view.facts

\* The published view never loses a fact and never returns to an earlier owner,
\* however slow the worker that publishes it.
ViewNeverGoesBack ==
  [][view.facts \subseteq view'.facts /\ view.owner.revision <= view'.owner.revision]_vars

\* A plan is out of date when another action has taken the place of its own.
Superseded(i) ==
  /\ owner.revision > journal[i].action.revision
  /\ \A j \in Rows : journal[j] # Admission(journal[i].link, journal[i].key, journal[i].action)

\* A handover is refused only when another plan got there first; one whose own
\* admission is in place is always recognised, after a death between the two
\* transactions too, so that its repetition can finish it.
RefusedOnlyIfSuperseded ==
  [][\A w \in Workers :
       at[w].pc \in {"admit", "bind"} /\ at'[w] = Idle /\ faults' = faults => Superseded(at[w].row)]_vars
=============================================================================
