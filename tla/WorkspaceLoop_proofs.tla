------------------------- MODULE WorkspaceLoop_proofs -------------------------
(***************************************************************************)
(* Proofs about the file-first loop, for every set of actions, plans,      *)
(* terminals and workers and every bound.                                  *)
(*                                                                         *)
(* The inductive invariant has two halves.  Data relates the tables: the   *)
(* journal is well formed (Log), the admissions are one chain ending in    *)
(* the owner (Chain), events and successors belong to one row (Once,       *)
(* Bound), the view shows no more than what is visible (Shown).  Working   *)
(* says what a worker in the middle of its transactions may rely on, and   *)
(* that one of them at most is in the file lock.  Every step either        *)
(* appends one row that fits (AppendKeeps), or leaves the journal alone;   *)
(* either way it moves forward (Forward), which is why it disturbs no      *)
(* other worker (Undisturbed).                                             *)
(***************************************************************************)
EXTENDS WorkspaceLoop, TLAPS

\* The domains of the state, named so that a step need not expand them.
Some == Actions \cup {NoAction}
PCs == {"idle", "ingest"} \cup Delivery \cup Projection
Events == (Officials \X Terminals) \cup {<<>>}
WorkerRow == [pc : PCs, row : Nat, live : BOOLEAN, read : Views, event : Events]

\* Kinds of rows.
IsA(i, topic) == journal[i].topic = topic
Handoff(i) == IsA(i, "test.terminal") \/ IsA(i, "official.terminal")

\* A terminal names its event, continues an action that was admitted, and plans its
\* direct successor.
RowOK(i) ==
  /\ IsA(i, "test.terminal") => journal[i].key \in {<<t>> : t \in Terminals}
  /\ IsA(i, "official.terminal") => journal[i].key \in Officials \X Terminals
  /\ Handoff(i) =>
       /\ \E j \in Rows : IsA(j, "workspace.action") /\ journal[j].action = journal[i].action
       /\ journal[i].link # NoAction => journal[i].link.revision = journal[i].action.revision + 1

\* The journal is well formed, and a terminal is recorded once.
Log ==
  /\ journal \in Seq(Facts)
  /\ \A i \in Rows : RowOK(i)
  /\ \A i, j \in Rows : IsA(i, "test.terminal") /\ IsA(j, "test.terminal") /\ journal[i].key = journal[j].key => i = j

\* OwnersFormAChain, without the sets.
Chain ==
  /\ owner \in Some
  /\ \A i \in Rows : IsA(i, "workspace.action") =>
       /\ \/ journal[i].link = NoAction
          \/ \E j \in Rows : j < i /\ IsA(j, "workspace.action") /\ journal[j].action = journal[i].link
       /\ journal[i].action.revision = journal[i].link.revision + 1
       /\ journal[i].action.revision <= owner.revision
  /\ \A i, j \in Rows : IsA(i, "workspace.action") /\ IsA(j, "workspace.action") /\ i < j =>
       journal[i].action.revision < journal[j].action.revision
  /\ owner = NoAction \/ \E i \in Rows : IsA(i, "workspace.action") /\ journal[i].action = owner

\* Revision 0 is that of no action.
LEMMA Revisions == /\ NoAction \notin Actions /\ NoAction.revision = 0
                   /\ \A a \in Some : a.revision \in Nat
  BY WorkspaceAssumption DEF NoAction, Some

\* Rows are numbered from 1 and typed.
LEMMA RowFacts ==
  ASSUME journal \in Seq(Facts)
  PROVE  /\ Rows \subseteq Nat \ {0}
         /\ \A i \in Rows : /\ journal[i] \in Facts /\ journal[i].topic \in Topics
                            /\ journal[i].action \in Actions /\ journal[i].link \in Some
  <1>1. ASSUME NEW f \in Facts PROVE f.topic \in Topics /\ f.action \in Actions /\ f.link \in Some
    BY <1>1 DEF Facts, Some
  <1>2. Rows = 1 .. Len(journal) /\ Len(journal) \in Nat /\ \A i \in 1 .. Len(journal) : journal[i] \in Facts
    BY DEF Rows
  <1> QED
    BY <1>1, <1>2

\* What an accepted fact does to the journal.
LEMMA Appending ==
  ASSUME journal \in Seq(Facts), NEW f \in Facts, Accept(f)
  PROVE  /\ journal' \in Seq(Facts)
         /\ \E n \in Nat \ {0} :
              /\ Rows' = Rows \cup {n} /\ n \notin Rows /\ journal'[n] = f
              /\ \A i \in Rows : i < n /\ journal'[i] = journal[i]
  <1>1. journal' \in Seq(Facts) /\ Len(journal') = Len(journal) + 1
    BY DEF Accept
  <1>2. \A i \in 1 .. Len(journal) : journal'[i] = journal[i]
    BY DEF Accept
  <1>3. journal'[Len(journal) + 1] = f
    BY DEF Accept
  <1>4. Rows = 1 .. Len(journal) /\ Rows' = 1 .. Len(journal') /\ Len(journal) \in Nat
    BY <1>1 DEF Rows
  <1> QED
    BY <1>1, <1>2, <1>3, <1>4

\* The chain of the invariant is that of the property.
LEMMA ChainFlat ==
  ASSUME journal \in Seq(Facts), Chain PROVE OwnersFormAChain
  BY RowFacts, Revisions DEF OwnersFormAChain, Chain, RowsOf, IsA, Some

\* A row that is well formed keeps the journal well formed.
LEMMA LogGrows ==
  ASSUME Log, NEW f \in Facts, Accept(f),
         f.topic = "test.terminal" => /\ f.key \in {<<t>> : t \in Terminals}
                                      /\ \A i \in Rows : IsA(i, "test.terminal") => journal[i].key # f.key,
         f.topic = "official.terminal" => f.key \in Officials \X Terminals,
         f.topic \in {"test.terminal", "official.terminal"} =>
            /\ \E j \in Rows : IsA(j, "workspace.action") /\ journal[j].action = f.action
            /\ f.link # NoAction => f.link.revision = f.action.revision + 1
  PROVE  Log'
  <1>1. journal \in Seq(Facts)
    BY DEF Log
  <1>2. PICK n \in Nat \ {0} : /\ Rows' = Rows \cup {n} /\ n \notin Rows /\ journal'[n] = f
                               /\ \A i \in Rows : i < n /\ journal'[i] = journal[i]
    BY <1>1, Appending
  <1>3. ASSUME NEW i \in Rows' PROVE RowOK(i)'
    BY <1>2, <1>3 DEF Log, RowOK, IsA, Handoff
  <1> QED
    BY <1>1, <1>2, <1>3, Appending DEF Log, IsA

\* An admission over the owner extends the chain.
LEMMA ChainGrows ==
  ASSUME Log, Chain, NEW f \in Facts, Accept(f), f.topic = "workspace.action",
         f.link = owner, owner' = f.action, f.action.revision = owner.revision + 1
  PROVE  Chain'
  <1>1. journal \in Seq(Facts)
    BY DEF Log
  <1>2. PICK n \in Nat \ {0} : /\ Rows' = Rows \cup {n} /\ n \notin Rows /\ journal'[n] = f
                               /\ \A i \in Rows : i < n /\ journal'[i] = journal[i]
    BY <1>1, Appending
  <1>3. owner \in Some /\ owner.revision \in Nat /\ owner'.revision = owner.revision + 1 /\ owner' \in Some
    BY Revisions DEF Chain, Facts, Some
  <1>4. \A i \in Rows : journal[i].action.revision \in Nat /\ i \in Nat
    BY <1>1, RowFacts, Revisions DEF Some
  <1>5. \A i \in Rows : i < n /\ ~(n < i)
    BY <1>2, <1>4
  <1>6. ASSUME NEW i \in Rows', IsA(i, "workspace.action")'
        PROVE  (/\ \/ journal[i].link = NoAction
                   \/ \E j \in Rows : j < i /\ IsA(j, "workspace.action") /\ journal[j].action = journal[i].link
                /\ journal[i].action.revision = journal[i].link.revision + 1
                /\ journal[i].action.revision <= owner.revision)'
    <2>1. CASE i \in Rows
      BY <2>1, <1>2, <1>3, <1>4, <1>6 DEF Chain, IsA
    <2>2. CASE i = n
      BY <2>2, <1>2, <1>3, <1>5 DEF Chain, IsA
    <2> QED
      BY <2>1, <2>2, <1>2
  <1>7. ASSUME NEW i \in Rows', NEW j \in Rows', IsA(i, "workspace.action")', IsA(j, "workspace.action")', i < j
        PROVE  (journal[i].action.revision < journal[j].action.revision)'
    <2>1. i \in Rows
      BY <1>7, <1>2, <1>5
    <2>2. CASE j \in Rows
      BY <2>1, <2>2, <1>2, <1>7 DEF Chain, IsA
    <2>3. CASE j = n
      BY <2>1, <2>3, <1>2, <1>3, <1>4, <1>7 DEF Chain, IsA
    <2> QED
      BY <2>2, <2>3, <1>2
  <1> QED
    BY <1>2, <1>3, <1>6, <1>7 DEF Chain, IsA

\* No other fact touches the chain.
LEMMA ChainKept ==
  ASSUME Log, Chain, NEW f \in Facts, Accept(f), f.topic # "workspace.action", owner' = owner
  PROVE  Chain'
  <1>1. journal \in Seq(Facts)
    BY DEF Log
  <1>2. PICK n \in Nat \ {0} : /\ Rows' = Rows \cup {n} /\ n \notin Rows /\ journal'[n] = f
                               /\ \A i \in Rows : i < n /\ journal'[i] = journal[i]
    BY <1>1, Appending
  <1> QED
    BY <1>2 DEF Chain, IsA

\* Who a row may be keyed by.
Keys == {Host} \cup {<<t>> : t \in Terminals} \cup (Officials \X Terminals)

\* A fact has the fields it was made of.
LEMMA FactFields ==
  ASSUME NEW topic \in Topics, NEW key \in Keys, NEW a \in Actions, NEW link \in Some
  PROVE  /\ Fact(topic, key, a, link) \in Facts
         /\ Fact(topic, key, a, link).topic = topic /\ Fact(topic, key, a, link).key = key
         /\ Fact(topic, key, a, link).action = a /\ Fact(topic, key, a, link).link = link
  BY DEF Fact, Facts, Keys, Some

\* Every row has a key.
LEMMA KeyFacts ==
  ASSUME journal \in Seq(Facts), NEW i \in Rows
  PROVE  journal[i].key \in Keys
  <1>1. journal[i] \in Facts
    BY RowFacts
  <1> QED
    BY <1>1 DEF Facts, Keys

\* OfficialInOneTerminal, without the sets.
Once ==
  \A i, j \in Rows : IsA(i, "official.terminal") /\ IsA(j, "official.terminal")
                       /\ journal[i].key[1] = journal[j].key[1] => i = j

\* The successor recorded for a terminal is the one its row plans, admitted; a
\* delivered row has it recorded.
BoundTo(i, t) ==
  /\ successor[t] # NoAction =>
       /\ successor[t] = journal[i].link
       /\ \E j \in Rows : journal[j] = Admission(journal[i].link, journal[i].key, journal[i].action)
  /\ i \in done => successor[t] = journal[i].link

\* A successor is recorded for known terminals only.
Bound ==
  /\ successor \in [Terminals -> Some]
  /\ \A t \in Terminals : successor[t] # NoAction =>
       \E i \in Rows : IsA(i, "test.terminal") /\ journal[i].key = <<t>>
  /\ \A i \in Rows, t \in Terminals : IsA(i, "test.terminal") /\ journal[i].key = <<t>> => BoundTo(i, t)

\* What is delivered exists, and the view shows every projected row and no more than
\* what is visible.
Shown ==
  /\ done \subseteq Rows /\ \A i \in done : Handoff(i) \/ IsA(i, "agent.native-start")
  /\ projected \subseteq Rows /\ projected \subseteq view.facts
  /\ view \in Views /\ view.facts \subseteq Visible /\ view.owner.revision <= owner.revision

\* The half of the invariant about the tables.
Data == Log /\ Chain /\ Once /\ Bound /\ Shown

\* Every step moves forward in all of these respects.
Forward ==
  /\ Rows \subseteq Rows' /\ \A i \in Rows : journal'[i] = journal[i]
  /\ done \subseteq done' /\ owner.revision <= owner'.revision
  /\ view.facts \subseteq view'.facts /\ view.owner.revision <= view'.owner.revision
  /\ \A t \in Terminals : successor[t] # NoAction => successor'[t] = successor[t]

\* What is visible stays visible.
LEMMA VisibleGrows ==
  ASSUME Forward PROVE Visible \subseteq Visible'
  BY DEF Forward, Visible

\* What a row must satisfy to be appended.
Fits(f) ==
  /\ f.topic = "test.terminal" => /\ f.key \in {<<t>> : t \in Terminals}
                                  /\ \A i \in Rows : IsA(i, "test.terminal") => journal[i].key # f.key
  /\ f.topic = "official.terminal" =>
       /\ f.key \in Officials \X Terminals
       /\ \A i \in Rows : IsA(i, "official.terminal") => journal[i].key[1] # f.key[1]
  /\ f.topic \in {"test.terminal", "official.terminal"} =>
       /\ \E j \in Rows : IsA(j, "workspace.action") /\ journal[j].action = f.action
       /\ f.link # NoAction => f.link.revision = f.action.revision + 1
  /\ f.topic = "workspace.action" =>
       f.link = owner /\ owner' = f.action /\ f.action.revision = owner.revision + 1
  /\ f.topic # "workspace.action" => owner' = owner

\* A row that fits keeps the tables consistent.
LEMMA AppendKeeps ==
  ASSUME Data, NEW f \in Facts, Accept(f), Fits(f), UNCHANGED <<done, projected, successor, view>>
  PROVE  Data' /\ Forward
  <1>1. journal \in Seq(Facts) /\ Log /\ Chain
    BY DEF Data, Log
  <1>2. PICK n \in Nat \ {0} : /\ Rows' = Rows \cup {n} /\ n \notin Rows /\ journal'[n] = f
                               /\ \A i \in Rows : i < n /\ journal'[i] = journal[i]
    BY <1>1, Appending
  <1>3. Log'
    BY <1>1, LogGrows DEF Fits
  <1>4. Chain'
    BY <1>1, ChainGrows, ChainKept DEF Fits
  <1>5. owner.revision <= owner'.revision
    <2>1. owner.revision \in Nat
      BY <1>1, Revisions DEF Chain
    <2> QED
      BY <2>1 DEF Fits
  <1>6. Forward
    <2>1. view.owner.revision <= view.owner.revision
      <3>1. view.owner \in Some
        BY DEF Data, Shown, Views, Some
      <3> QED
        BY <3>1, Revisions
    <2> QED
      BY <1>2, <1>5, <2>1 DEF Forward
  <1>7. Once'
    BY <1>2 DEF Data, Once, IsA, Fits
  <1>8. Shown'
    <2>1. Visible \subseteq Visible'
      BY <1>6, VisibleGrows
    <2>2. view.owner.revision <= owner'.revision
      <3>1. view.owner \in Some /\ owner \in Some /\ owner' \in Some
        BY <1>4 DEF Data, Chain, Shown, Views, Some
      <3> QED
        BY <3>1, <1>5, Revisions DEF Data, Shown
    <2>3. done \subseteq Rows' /\ \A i \in done : (Handoff(i) \/ IsA(i, "agent.native-start"))'
      BY <1>2 DEF Data, Shown, Handoff, IsA
    <2> QED
      BY <1>2, <2>1, <2>2, <2>3 DEF Data, Shown
  <1>9. Bound'
    <2>1. \A t \in Terminals : successor[t] # NoAction =>
             \E i \in Rows : IsA(i, "test.terminal") /\ journal[i].key = <<t>>
      BY DEF Data, Bound
    <2>2. ASSUME NEW i \in Rows', NEW t \in Terminals, IsA(i, "test.terminal")', journal'[i].key = <<t>>
          PROVE  BoundTo(i, t)'
      <3>1. CASE i \in Rows
        <4>1. BoundTo(i, t) /\ journal'[i] = journal[i]
          BY <3>1, <1>2, <2>2 DEF Data, Bound, IsA
        <4> QED
          BY <4>1, <1>2 DEF BoundTo
      <3>2. CASE i = n
        <4>1. successor[t] = NoAction
          BY <3>2, <1>2, <2>1, <2>2 DEF Fits, IsA
        <4>2. i \notin done
          BY <3>2, <1>2 DEF Data, Shown
        <4> QED
          BY <4>1, <4>2 DEF BoundTo
      <3> QED
        BY <3>1, <3>2, <1>2
    <2> QED
      BY <1>2, <2>1, <2>2 DEF Data, Bound, IsA
  <1> QED
    BY <1>3, <1>4, <1>6, <1>7, <1>8, <1>9 DEF Data

\* So does a step that leaves the tables alone.
LEMMA SameData ==
  ASSUME Data, UNCHANGED <<owner, journal, done, projected, successor, view>>
  PROVE  Data' /\ Forward
  <1>1. view.owner \in Some /\ owner \in Some
    BY DEF Data, Shown, Chain, Views, Some
  <1>2. Forward
    BY <1>1, Revisions DEF Forward, Rows
  <1> QED
    BY <1>2 DEF Data, Log, Chain, Once, Bound, Shown, BoundTo, RowOK, IsA, Handoff, Rows, Visible, RowsOf

\* What a worker may rely on between two of its transactions.
WorkerOK(w) ==
  LET p == at[w].pc
      i == at[w].row
  IN  /\ p \in {"idle", "ingest"} <=> i = 0
      /\ i # 0 => i \in Rows
      /\ IF p = "ingest"
         THEN /\ at[w].event \in Officials \X Terminals
              /\ \E k \in Rows : IsA(k, "test.terminal") /\ journal[k].key = <<at[w].event[2]>>
         ELSE at[w].event = <<>>
      /\ p \in {"admit", "deliver"} => Handoff(i)
      /\ p = "bind" => /\ IsA(i, "test.terminal") /\ journal[i].link # NoAction
                       /\ \E j \in Rows : journal[j] = Admission(journal[i].link, journal[i].key, journal[i].action)
      /\ p = "deliver" /\ IsA(i, "test.terminal") =>
           \A t \in Terminals : journal[i].key = <<t>> => successor[t] = journal[i].link
      /\ p = "start" => IsA(i, "agent.native-start")
      /\ p = "publish" =>
           /\ i \in at[w].read.facts /\ at[w].read.facts \subseteq Visible
           /\ view.facts \subseteq at[w].read.facts
           /\ view.owner.revision <= at[w].read.owner.revision
           /\ at[w].read.owner.revision <= owner.revision
      /\ p = "projected" => i \in view.facts

\* One worker at most is between its snapshot and its publication.
Lock == \A v, w \in Workers : at[v].pc = "publish" /\ at[w].pc = "publish" => v = w

\* The half of the invariant about the workers.
Working ==
  /\ at \in [Workers -> WorkerRow]
  /\ \A w \in Workers : WorkerOK(w)
  /\ Lock

\* The inductive invariant.
IInv == Data /\ Working /\ faults \in 0..MaxFaults

\* A step of others takes nothing away from a worker that does not move.
LEMMA Undisturbed ==
  ASSUME Data, Working, Data', Forward, NEW w \in Workers, at'[w] = at[w],
         at[w].pc = "publish" => view' = view
  PROVE  WorkerOK(w)'
  <1>1. /\ Rows \subseteq Rows' /\ \A i \in Rows : journal'[i] = journal[i]
        /\ view.facts \subseteq view'.facts
        /\ \A t \in Terminals : successor[t] # NoAction => successor'[t] = successor[t]
    BY DEF Forward
  <1>2. WorkerOK(w) /\ at[w] \in WorkerRow
    BY DEF Working
  <1>3. Visible \subseteq Visible'
    BY VisibleGrows
  <1>4. ASSUME at[w].pc = "deliver", IsA(at[w].row, "test.terminal")', NEW t \in Terminals, journal'[at[w].row].key = <<t>>
        PROVE  successor'[t] = journal'[at[w].row].link
    <2>1. at[w].row \in Rows /\ journal'[at[w].row] = journal[at[w].row]
      BY <1>1, <1>2, <1>4 DEF WorkerOK
    <2>2. successor[t] = journal[at[w].row].link
      BY <1>2, <1>4, <2>1 DEF WorkerOK, IsA
    <2>3. BoundTo(at[w].row, t)'
      BY <1>1, <1>4, <2>1 DEF Data, Bound
    <2> QED
      BY <1>1, <2>1, <2>2, <2>3 DEF BoundTo
  <1>5. at[w].pc = "publish" => at[w].read.owner.revision <= owner'.revision
    <2> SUFFICES ASSUME at[w].pc = "publish" PROVE at[w].read.owner.revision <= owner'.revision
      OBVIOUS
    <2>1. at[w].read.owner \in Some /\ owner \in Some /\ owner' \in Some
      BY <1>2 DEF Data, Chain, WorkerRow, Views, Some
    <2>2. at[w].read.owner.revision <= owner.revision /\ owner.revision <= owner'.revision
      BY <1>2 DEF WorkerOK, Forward
    <2> QED
      BY <2>1, <2>2, Revisions
  <1>6. ASSUME at[w].pc = "publish"
        PROVE  /\ at[w].row \in at[w].read.facts /\ at[w].read.facts \subseteq Visible'
               /\ view'.facts \subseteq at[w].read.facts
               /\ view'.owner.revision <= at[w].read.owner.revision
    BY <1>2, <1>3, <1>6 DEF WorkerOK
  <1>7. ASSUME at[w].row # 0
        PROVE  /\ at[w].row \in Rows' /\ journal'[at[w].row] = journal[at[w].row]
               /\ (at[w].pc \in {"admit", "deliver"} => Handoff(at[w].row))'
               /\ (at[w].pc = "start" => IsA(at[w].row, "agent.native-start"))'
               /\ (at[w].pc = "projected" => at[w].row \in view.facts)'
    BY <1>1, <1>2, <1>7 DEF WorkerOK, Handoff, IsA
  <1>8. ASSUME at[w].pc = "bind"
        PROVE  (/\ IsA(at[w].row, "test.terminal") /\ journal[at[w].row].link # NoAction
                /\ \E j \in Rows : journal[j] = Admission(journal[at[w].row].link, journal[at[w].row].key, journal[at[w].row].action))'
    <2>1. at[w].row # 0 /\ journal'[at[w].row] = journal[at[w].row]
      BY <1>2, <1>7, <1>8 DEF WorkerOK
    <2> QED
      BY <1>1, <1>2, <1>8, <2>1 DEF WorkerOK, IsA, Admission
  <1>9. (IF at[w].pc = "ingest"
         THEN /\ at[w].event \in Officials \X Terminals
              /\ \E k \in Rows : IsA(k, "test.terminal") /\ journal[k].key = <<at[w].event[2]>>
         ELSE at[w].event = <<>>)'
    BY <1>1, <1>2 DEF WorkerOK, IsA
  <1>10. (at[w].pc \in {"idle", "ingest"})' <=> (at[w].row = 0)'
    BY <1>2 DEF WorkerOK
  <1>11. /\ (at[w].pc \in {"admit", "deliver"} => at[w].row # 0)
         /\ (at[w].pc \in {"start", "projected"} => at[w].row # 0)
    BY <1>2 DEF WorkerOK
  <1> QED
    BY <1>4, <1>5, <1>6, <1>7, <1>8, <1>9, <1>10, <1>11 DEF WorkerOK

\* A worker that leaves relies on nothing.
LEMMA IdleOK ==
  ASSUME NEW w \in Workers, at \in [Workers -> WorkerRow], Leave(w)
  PROVE  /\ at' \in [Workers -> WorkerRow] /\ WorkerOK(w)' /\ at'[w].pc = "idle"
         /\ \A v \in Workers \ {w} : at'[v] = at[v]
  <1>1. Idle \in WorkerRow /\ Idle.pc = "idle" /\ Idle.row = 0 /\ Idle.event = <<>>
    BY DEF Idle, WorkerRow, PCs, NoView, Views, NoAction, Events
  <1>2. at' \in [Workers -> WorkerRow] /\ at'[w] = Idle /\ \A v \in Workers \ {w} : at'[v] = at[v]
    BY <1>1 DEF Leave
  <1> QED
    BY <1>1, <1>2 DEF WorkerOK

\* One worker moves, the others stay.
LEMMA OneMoves ==
  ASSUME Data, Working, Data', Forward, NEW w \in Workers,
         at' \in [Workers -> WorkerRow], WorkerOK(w)',
         \A v \in Workers \ {w} : at'[v] = at[v] /\ (at[v].pc = "publish" => view' = view),
         at'[w].pc = "publish" => at[w].pc = "publish" \/ Unlocked
  PROVE  Working'
  <1>1. \A v \in Workers : WorkerOK(v)'
    BY Undisturbed
  <1>2. Lock'
    BY DEF Lock, Unlocked, Working
  <1> QED
    BY <1>1, <1>2 DEF Working

\* No worker moves: a fact reported from outside.
LEMMA NoneMoves ==
  ASSUME Data, Working, Data', Forward, UNCHANGED <<at, view>>
  PROVE  Working'
  BY Undisturbed DEF Working, Lock

\* A worker that goes on keeps its row.
LEMMA Moving ==
  ASSUME NEW w \in Workers, at \in [Workers -> WorkerRow], NEW p \in PCs, Goto(w, p)
  PROVE  /\ at' \in [Workers -> WorkerRow]
         /\ at'[w].pc = p /\ at'[w].row = at[w].row /\ at'[w].live = at[w].live
         /\ at'[w].read = at[w].read /\ at'[w].event = at[w].event
         /\ \A v \in Workers \ {w} : at'[v] = at[v]
  BY DEF Goto, WorkerRow

\* In a reachable state, what a worker holds is well typed.
LEMMA HeldRow ==
  ASSUME Data, Working, NEW w \in Workers, at[w].pc \notin {"idle", "ingest"}
  PROVE  /\ at[w].row \in Rows /\ at[w].row # 0 /\ Row(w) = journal[at[w].row]
         /\ Row(w) \in Facts /\ Row(w).action \in Actions /\ Row(w).link \in Some /\ Row(w).key \in Keys
  <1>1. at[w].row \in Rows /\ at[w].row # 0
    BY DEF Working, WorkerOK
  <1>2. journal \in Seq(Facts)
    BY DEF Data, Log
  <1> QED
    BY <1>1, <1>2, RowFacts, KeyFacts DEF Row

\* The host may propose actions.
LEMMA HostKey == Host \in Keys
  BY DEF Keys

\* One worker moves and the tables stay.
LEMMA Quiet ==
  ASSUME IInv, UNCHANGED <<owner, journal, done, projected, successor, view>>, NEW w \in Workers,
         at' \in [Workers -> WorkerRow], WorkerOK(w)', \A v \in Workers \ {w} : at'[v] = at[v],
         at'[w].pc = "publish" => at[w].pc = "publish" \/ Unlocked
  PROVE  Data' /\ Working'
  <1>1. Data' /\ Forward
    BY SameData DEF IInv
  <1> QED
    BY <1>1, OneMoves DEF IInv

\* The host admits an action.
LEMMA StepHost ==
  ASSUME IInv, NEW a \in Actions, HostAdmits(a)
  PROVE  Data' /\ Working'
  <1> DEFINE m == Admission(a, Host, owner)
  <1>1. owner \in Some
    BY DEF IInv, Data, Chain
  <1>2. m \in Facts /\ m.topic = "workspace.action" /\ m.action = a /\ m.link = owner
    BY <1>1, HostKey, FactFields DEF Admission, Topics
  <1>3. Accept(m) /\ owner' = a /\ a.revision = owner.revision + 1
    BY DEF HostAdmits, Successors
  <1>4. Fits(m)
    BY <1>2, <1>3 DEF Fits
  <1>5. UNCHANGED <<done, projected, successor, view, at, faults>>
    BY DEF HostAdmits
  <1>6. Data' /\ Forward
    BY <1>2, <1>3, <1>4, <1>5, AppendKeeps DEF IInv
  <1> QED
    BY <1>5, <1>6, NoneMoves DEF IInv

\* A carrier or a watcher reports a fact.
LEMMA StepReport ==
  ASSUME IInv, NEW topic \in Topics \ {"workspace.action"}, NEW key \in Keys, NEW a \in Actions,
         NEW link \in Some, Report(topic, key, a, link),
         topic \in {"agent.native-start", "agent.completion"} \/
           (/\ topic = "test.terminal" /\ key \in {<<t>> : t \in Terminals}
            /\ \A i \in Rows : IsA(i, "test.terminal") => journal[i].key # key
            /\ \E j \in Rows : IsA(j, "workspace.action") /\ journal[j].action = a
            /\ link # NoAction => link.revision = a.revision + 1)
  PROVE  Data' /\ Working'
  <1> DEFINE f == Fact(topic, key, a, link)
  <1>1. f \in Facts /\ f.topic = topic /\ f.key = key /\ f.action = a /\ f.link = link
    BY FactFields
  <1>2. Accept(f) /\ UNCHANGED <<owner, done, projected, successor, view, at, faults>>
    BY DEF Report
  <1>3. Fits(f)
    BY <1>1, <1>2 DEF Fits
  <1>4. Data' /\ Forward
    BY <1>1, <1>2, <1>3, AppendKeeps DEF IInv
  <1> QED
    BY <1>2, <1>4, NoneMoves DEF IInv

\* A terminal is recorded.
LEMMA StepTerminal ==
  ASSUME IInv, NEW t \in Terminals, NEW a \in Actions, NEW next \in Successors(a, <<t>>) \cup {NoAction},
         RecordTerminal(t, a, next)
  PROVE  Data' /\ Working'
  <1>1. next \in Some /\ (next # NoAction => next.revision = a.revision + 1)
    BY DEF Successors, Some
  <1>2. <<t>> \in Keys /\ <<t>> \in {<<u>> : u \in Terminals}
    BY DEF Keys
  <1>3. Report("test.terminal", <<t>>, a, next)
    BY DEF RecordTerminal
  <1>4. /\ \A i \in Rows : IsA(i, "test.terminal") => journal[i].key # <<t>>
        /\ \E j \in Rows : IsA(j, "workspace.action") /\ journal[j].action = a
    BY DEF RecordTerminal, Recorded, RowsOf, IsA
  <1> QED
    BY <1>1, <1>2, <1>3, <1>4, StepReport DEF Topics

\* An official event is looked up.
LEMMA StepCheck ==
  ASSUME IInv, NEW w \in Workers, NEW o \in Officials, NEW t \in Terminals, CheckOfficial(w, o, t)
  PROVE  Data' /\ Working'
  <1>1. at \in [Workers -> WorkerRow] /\ at[w] = Idle
    BY DEF IInv, Working, CheckOfficial
  <1>2. /\ at' \in [Workers -> WorkerRow] /\ \A v \in Workers \ {w} : at'[v] = at[v]
        /\ at'[w].pc = "ingest" /\ at'[w].row = 0 /\ at'[w].event = <<o, t>>
    <2>1. <<o, t>> \in Events /\ "ingest" \in PCs
      BY DEF Events, PCs
    <2>2. at[w] \in WorkerRow /\ at[w].row = 0
      <3>1. Idle.row = 0
        BY DEF Idle
      <3> QED
        BY <1>1, <3>1
    <2> QED
      BY <1>1, <2>1, <2>2 DEF CheckOfficial, WorkerRow
  <1>3. \E k \in Rows : IsA(k, "test.terminal") /\ journal[k].key = <<t>>
    BY DEF CheckOfficial, Waiting, RowsOf, IsA
  <1>4. UNCHANGED <<owner, journal, done, projected, successor, view>>
    BY DEF CheckOfficial
  <1>5. WorkerOK(w)'
    BY <1>2, <1>3, <1>4 DEF WorkerOK, Rows, IsA
  <1> QED
    BY <1>2, <1>4, <1>5, Quiet

\* An official event is accepted, or found accepted already.
LEMMA StepIngest ==
  ASSUME IInv, NEW w \in Workers, IngestOfficial(w)
  PROVE  Data' /\ Working'
  <1> DEFINE event == at[w].event
             local == CHOOSE i \in RowsOf("test.terminal") : journal[i].key = <<event[2]>>
             a == journal[local].action
  <1>1. /\ Leave(w) /\ UNCHANGED <<owner, done, projected, successor, view, faults>> /\ at[w].pc = "ingest"
        /\ IF AcceptedEvent(event) THEN UNCHANGED journal
           ELSE \E next \in Successors(a, event) \cup {NoAction} : Accept(Fact("official.terminal", event, a, next))
    BY DEF IngestOfficial
  <1>2. /\ event \in Officials \X Terminals /\ event \in Keys
        /\ \E k \in RowsOf("test.terminal") : journal[k].key = <<event[2]>>
    BY <1>1 DEF IInv, Working, WorkerOK, Keys, RowsOf, IsA
  <1>3. local \in Rows /\ IsA(local, "test.terminal")
    BY <1>2 DEF RowsOf, IsA
  <1>4. a \in Actions /\ \E j \in Rows : IsA(j, "workspace.action") /\ journal[j].action = a
    BY <1>3, RowFacts DEF IInv, Data, Log, RowOK, Handoff
  <1>5. Data' /\ Forward
    <2>1. CASE UNCHANGED journal
      BY <1>1, <2>1, SameData DEF IInv
    <2>2. CASE ~AcceptedEvent(event)
      <3>1. PICK next \in Successors(a, event) \cup {NoAction} : Accept(Fact("official.terminal", event, a, next))
        BY <1>1, <2>2
      <3>2. next \in Some /\ (next # NoAction => next.revision = a.revision + 1)
        BY DEF Successors, Some
      <3> DEFINE f == Fact("official.terminal", event, a, next)
      <3> HIDE DEF a, event
      <3>3. f \in Facts /\ f.topic = "official.terminal" /\ f.key = event /\ f.action = a /\ f.link = next
        <4>1. "official.terminal" \in Topics
          BY DEF Topics
        <4> QED
          BY <1>2, <1>4, <3>2, <4>1, FactFields
      <3>4. \A i \in Rows : IsA(i, "official.terminal") => journal[i].key[1] # event[1]
        BY <2>2 DEF AcceptedEvent, RowsOf, IsA
      <3> HIDE DEF f
      <3>5. Fits(f)
        BY <1>1, <1>2, <1>4, <3>2, <3>3, <3>4 DEF Fits
      <3> QED
        BY <1>1, <3>1, <3>3, <3>5, AppendKeeps DEF IInv, f
    <2> QED
      BY <1>1, <2>1, <2>2
  <1>6. at' \in [Workers -> WorkerRow] /\ WorkerOK(w)' /\ at'[w].pc = "idle" /\ \A v \in Workers \ {w} : at'[v] = at[v]
    BY <1>1, IdleOK DEF IInv, Working
  <1> QED
    BY <1>1, <1>5, <1>6, OneMoves DEF IInv

\* A row is claimed for its delivery.
LEMMA StepClaim ==
  ASSUME IInv, NEW w \in Workers, NEW i \in Rows, NEW p \in PCs, Claim(w, i, p),
         \/ p = "admit" /\ Handoff(i)
         \/ p = "start" /\ IsA(i, "agent.native-start")
  PROVE  Data' /\ Working'
  <1>1. at \in [Workers -> WorkerRow] /\ at[w] = Idle /\ i \in Nat \ {0}
    BY RowFacts DEF IInv, Data, Log, Working, Claim
  <1>2. /\ at' \in [Workers -> WorkerRow] /\ \A v \in Workers \ {w} : at'[v] = at[v]
        /\ at'[w].pc = p /\ at'[w].row = i /\ at'[w].event = <<>>
    BY <1>1 DEF Claim, WorkerRow, Idle
  <1>3. UNCHANGED <<owner, journal, done, projected, successor, view>>
    BY DEF Claim
  <1>4. WorkerOK(w)'
    BY <1>1, <1>2, <1>3 DEF WorkerOK, Rows, IsA, Handoff
  <1> QED
    BY <1>2, <1>3, <1>4, Quiet

\* A projection is claimed and the snapshot taken, in the lock.
LEMMA StepClaimProjection ==
  ASSUME IInv, NEW w \in Workers, NEW i \in Rows, ClaimProjection(w, i)
  PROVE  Data' /\ Working'
  <1>1. /\ at \in [Workers -> WorkerRow] /\ at[w] = Idle /\ i \in Nat \ {0} /\ owner \in Some
        /\ Visible \subseteq Nat /\ view.owner.revision <= owner.revision /\ view.facts \subseteq Visible
    BY RowFacts DEF IInv, Data, Log, Chain, Shown, Working, ClaimProjection, Visible
  <1>2. Snapshot \in Views /\ Snapshot.facts = Visible /\ Snapshot.owner = owner
    BY <1>1 DEF Snapshot, Views, Some
  <1>3. /\ at' \in [Workers -> WorkerRow] /\ \A v \in Workers \ {w} : at'[v] = at[v]
        /\ at'[w].pc = "publish" /\ at'[w].row = i /\ at'[w].event = <<>> /\ at'[w].read = Snapshot
    BY <1>1, <1>2 DEF ClaimProjection, WorkerRow, Idle, PCs, Projection
  <1>4. UNCHANGED <<owner, journal, done, projected, successor, view>> /\ i \in Visible /\ Unlocked
    BY DEF ClaimProjection, Unprojected, Announced
  <1>5. Visible' = Visible /\ owner.revision <= owner.revision
    BY <1>1, <1>4, Revisions DEF Visible, Rows
  <1>6. WorkerOK(w)'
    BY <1>1, <1>2, <1>3, <1>4, <1>5 DEF WorkerOK, Rows
  <1> QED
    BY <1>3, <1>4, <1>6, Quiet

\* A claim lapses.
LEMMA StepLapse ==
  ASSUME IInv, NEW w \in Workers, Lapse(w)
  PROVE  Data' /\ Working'
  <1>1. at \in [Workers -> WorkerRow] /\ WorkerOK(w)
    BY DEF IInv, Working
  <1>2. /\ at' \in [Workers -> WorkerRow] /\ \A v \in Workers \ {w} : at'[v] = at[v]
        /\ at'[w].pc = at[w].pc /\ at'[w].row = at[w].row /\ at'[w].event = at[w].event /\ at'[w].read = at[w].read
    BY <1>1 DEF Lapse, WorkerRow
  <1>3. UNCHANGED <<owner, journal, done, projected, successor, view>>
    BY DEF Lapse
  <1>4. WorkerOK(w)'
    BY <1>1, <1>2, <1>3 DEF WorkerOK, Rows, IsA, Handoff, Visible, Admission
  <1> QED
    BY <1>2, <1>3, <1>4, Quiet

\* A worker dies, or gives its row up.
LEMMA StepLeave ==
  ASSUME IInv, NEW w \in Workers, Leave(w), UNCHANGED <<owner, journal, done, projected, successor, view>>
  PROVE  Data' /\ Working'
  BY IdleOK, Quiet DEF IInv, Working

\* A handover that plans nothing, or whose admission is in place.
LEMMA StepOffer ==
  ASSUME IInv, NEW w \in Workers, OfferNothing(w) \/ OfferAgain(w)
  PROVE  Data' /\ Working'
  <1>1. /\ at \in [Workers -> WorkerRow] /\ WorkerOK(w) /\ at[w].pc = "admit" /\ at[w].row # 0 /\ Handoff(at[w].row)
        /\ UNCHANGED <<owner, journal, done, projected, successor, view>> /\ at[w].event = <<>>
        /\ Row(w) = journal[at[w].row] /\ at[w].row \in Rows
    BY HeldRow DEF IInv, Working, OfferNothing, OfferAgain, WorkerOK
  <1>2. CASE OfferNothing(w)
    <2>1. Goto(w, "deliver") /\ "deliver" \in PCs /\ Row(w).link = NoAction
      BY <1>2 DEF OfferNothing, PCs, Delivery
    <2>2. /\ at' \in [Workers -> WorkerRow] /\ \A v \in Workers \ {w} : at'[v] = at[v]
          /\ at'[w].pc = "deliver" /\ at'[w].row = at[w].row /\ at'[w].event = <<>>
      BY <1>1, <2>1, Moving
    <2>3. \A t \in Terminals : IsA(at[w].row, "test.terminal") /\ journal[at[w].row].key = <<t>> => successor[t] = NoAction
      BY <1>1, <2>1 DEF IInv, Data, Bound, BoundTo
    <2>4. WorkerOK(w)'
      BY <1>1, <2>1, <2>2, <2>3 DEF WorkerOK, Rows, IsA, Handoff
    <2> QED
      BY <1>1, <2>2, <2>4, Quiet
  <1>3. CASE OfferAgain(w)
    <2>1. Goto(w, AfterAdmission(w)) /\ Row(w).link # NoAction /\ \E j \in Rows : journal[j] = Planned(w)
      BY <1>3 DEF OfferAgain, Replays
    <2>2. /\ AfterAdmission(w) \in PCs
          /\ AfterAdmission(w) = IF IsA(at[w].row, "test.terminal") THEN "bind" ELSE "deliver"
      BY <1>1 DEF AfterAdmission, PCs, Delivery, IsA
    <2>3. /\ at' \in [Workers -> WorkerRow] /\ \A v \in Workers \ {w} : at'[v] = at[v]
          /\ at'[w].pc = AfterAdmission(w) /\ at'[w].row = at[w].row /\ at'[w].event = <<>>
      BY <1>1, <2>1, <2>2, Moving
    <2>4. WorkerOK(w)'
      BY <1>1, <2>1, <2>2, <2>3 DEF WorkerOK, Rows, IsA, Handoff, Planned
    <2> QED
      BY <1>1, <2>2, <2>3, <2>4, Quiet
  <1> QED
    BY <1>2, <1>3

\* A handover admits its successor.
LEMMA StepOfferNew ==
  ASSUME IInv, NEW w \in Workers, OfferNew(w)
  PROVE  Data' /\ Working'
  <1> DEFINE i == at[w].row
             m == Planned(w)
  <1>1. at[w].pc = "admit" /\ Row(w).link # NoAction
    BY DEF OfferNew
  <1>2. /\ i \in Rows /\ i # 0 /\ Row(w) = journal[i] /\ Row(w).action \in Actions /\ Row(w).link \in Actions
        /\ Row(w).key \in Keys /\ Handoff(i) /\ at[w].event = <<>> /\ at \in [Workers -> WorkerRow]
    BY <1>1, HeldRow DEF IInv, Working, WorkerOK, Some
  <1>3. Row(w).link.revision = Row(w).action.revision + 1
    BY <1>1, <1>2 DEF IInv, Data, Log, RowOK
  <1>4. m \in Facts /\ m.topic = "workspace.action" /\ m.action = Row(w).link /\ m.link = Row(w).action
    BY <1>2, FactFields DEF Planned, Admission, Topics, Some
  <1>5. /\ owner = m.link /\ Accept(m) /\ owner' = Row(w).link /\ Goto(w, AfterAdmission(w))
        /\ UNCHANGED <<done, projected, successor, view, faults>>
    BY DEF OfferNew, Admits, Current
  <1>6. Fits(m)
    BY <1>3, <1>4, <1>5 DEF Fits
  <1>7. Data' /\ Forward
    BY <1>4, <1>5, <1>6, AppendKeeps DEF IInv
  <1>8. \E n \in Rows' : journal'[n] = m
    BY <1>4, <1>5, Appending DEF IInv, Data, Log
  <1>9. /\ AfterAdmission(w) \in PCs
        /\ AfterAdmission(w) = IF IsA(i, "test.terminal") THEN "bind" ELSE "deliver"
    BY <1>2 DEF AfterAdmission, PCs, Delivery, IsA
  <1>10. /\ at' \in [Workers -> WorkerRow] /\ \A v \in Workers \ {w} : at'[v] = at[v]
         /\ at'[w].pc = AfterAdmission(w) /\ at'[w].row = i /\ at'[w].event = <<>>
    BY <1>2, <1>5, <1>9, Moving
  <1>11. i \in Rows' /\ journal'[i] = journal[i]
    BY <1>2, <1>7 DEF Forward
  <1>12. m = Admission(journal'[i].link, journal'[i].key, journal'[i].action)
    BY <1>2, <1>11 DEF Planned
  <1> HIDE DEF m, i
  <1>13. WorkerOK(w)'
    BY <1>1, <1>2, <1>8, <1>9, <1>10, <1>11, <1>12 DEF WorkerOK, IsA, Handoff
  <1> QED
    BY <1>5, <1>7, <1>9, <1>10, <1>13, OneMoves DEF IInv

\* A handover binds its successor.
LEMMA StepBind ==
  ASSUME IInv, NEW w \in Workers, Bind(w)
  PROVE  Data' /\ Working'
  <1> DEFINE i == at[w].row
  <1>1. at[w].pc = "bind" /\ UNCHANGED <<owner, journal, done, projected, view, faults>>
    BY DEF Bind
  <1>2. /\ i \in Rows /\ i # 0 /\ Row(w) = journal[i] /\ Row(w).link \in Some /\ IsA(i, "test.terminal")
        /\ Row(w).link # NoAction /\ at[w].event = <<>> /\ at \in [Workers -> WorkerRow]
        /\ \E j \in Rows : journal[j] = Admission(journal[i].link, journal[i].key, journal[i].action)
    BY <1>1, HeldRow DEF IInv, Working, WorkerOK
  <1>3. PICK t \in Terminals : Row(w).key = <<t>>
    BY <1>2 DEF IInv, Data, Log, RowOK
  <1>4. Row(w).key[1] = t
    BY <1>3
  <1>5. CASE UNCHANGED successor /\ Leave(w)
    BY <1>1, <1>5, StepLeave
  <1>6. CASE successor' = [successor EXCEPT ![t] = Row(w).link] /\ Goto(w, "deliver") /\ successor[t] \in {NoAction, Row(w).link}
    <2>1. /\ successor' \in [Terminals -> Some] /\ successor'[t] = journal[i].link
          /\ \A u \in Terminals : u # t => successor'[u] = successor[u]
          /\ \A u \in Terminals : successor[u] # NoAction => successor'[u] = successor[u]
      BY <1>2, <1>6 DEF IInv, Data, Bound
    <2>2. Forward
      <3>1. view.owner \in Some /\ owner \in Some
        BY DEF IInv, Data, Shown, Chain, Views, Some
      <3> QED
        BY <1>1, <2>1, <3>1, Revisions DEF Forward, Rows
    <2>3. \A j \in Rows : IsA(j, "test.terminal") /\ journal[j].key = <<t>> => j = i
      BY <1>2, <1>3 DEF IInv, Data, Log
    <2>4. Bound'
      <3>1. ASSUME NEW u \in Terminals, successor'[u] # NoAction
            PROVE  \E j \in Rows : IsA(j, "test.terminal") /\ journal[j].key = <<u>>
        BY <1>2, <1>3, <2>1, <3>1 DEF IInv, Data, Bound
      <3>2. ASSUME NEW j \in Rows, NEW u \in Terminals, IsA(j, "test.terminal"), journal[j].key = <<u>>
            PROVE  BoundTo(j, u)'
        <4>1. CASE u = t
          <5>1. j = i
            BY <2>3, <3>2, <4>1
          <5> QED
            BY <1>1, <1>2, <2>1, <4>1, <5>1 DEF BoundTo, Admission, Rows
        <4>2. CASE u # t
          BY <1>1, <2>1, <3>2, <4>2 DEF IInv, Data, Bound, BoundTo, Admission, Rows
        <4> QED
          BY <4>1, <4>2
      <3> QED
        BY <1>1, <2>1, <3>1, <3>2 DEF Bound, Rows, IsA
    <2>5. Data'
      BY <1>1, <2>4 DEF IInv, Data, Log, Chain, Once, Shown, RowOK, IsA, Handoff, Rows, Visible, RowsOf
    <2>6. "deliver" \in PCs
      BY DEF PCs, Delivery
    <2>7. /\ at' \in [Workers -> WorkerRow] /\ \A v \in Workers \ {w} : at'[v] = at[v]
          /\ at'[w].pc = "deliver" /\ at'[w].row = i /\ at'[w].event = <<>>
      BY <1>2, <1>6, <2>6, Moving
    <2>8. \A u \in Terminals : journal[i].key = <<u>> => u = t
      BY <1>2, <1>3
    <2>9. WorkerOK(w)'
      BY <1>1, <1>2, <2>1, <2>7, <2>8 DEF WorkerOK, Rows, IsA, Handoff
    <2> QED
      BY <1>1, <2>2, <2>5, <2>7, <2>9, OneMoves DEF IInv
  <1> QED
    BY <1>3, <1>4, <1>5, <1>6 DEF Bind

\* Delivering a row one holds.
LEMMA DeliverKeeps ==
  ASSUME Data, NEW i \in Rows, Handoff(i) \/ IsA(i, "agent.native-start"), done' = done \cup {i},
         IsA(i, "test.terminal") => \A t \in Terminals : journal[i].key = <<t>> => successor[t] = journal[i].link,
         UNCHANGED <<owner, journal, projected, successor, view>>
  PROVE  Data' /\ Forward
  <1>1. view.owner \in Some /\ owner \in Some
    BY DEF Data, Shown, Chain, Views, Some
  <1>2. Forward
    BY <1>1, Revisions DEF Forward, Rows
  <1>3. Bound'
    BY DEF Data, Bound, BoundTo, Rows, IsA, Admission
  <1>4. Shown'
    BY <1>2, VisibleGrows DEF Data, Shown, Rows, IsA, Handoff
  <1> QED
    BY <1>2, <1>3, <1>4 DEF Data, Log, Chain, Once, RowOK, IsA, Handoff, Rows

\* A handover or a native start is delivered, or not any more.
LEMMA StepDeliver ==
  ASSUME IInv, NEW w \in Workers, Deliver(w) \/ AcceptStart(w)
  PROVE  Data' /\ Working'
  <1>1. /\ at[w].pc \in {"deliver", "start"} /\ Leave(w)
        /\ UNCHANGED <<owner, journal, projected, successor, view, faults>>
        /\ done' = done \cup {at[w].row} \/ done' = done
    BY DEF Deliver, AcceptStart
  <1>2. /\ at[w].row \in Rows /\ (Handoff(at[w].row) \/ IsA(at[w].row, "agent.native-start"))
        /\ IsA(at[w].row, "test.terminal") =>
             \A t \in Terminals : journal[at[w].row].key = <<t>> => successor[t] = journal[at[w].row].link
    BY <1>1 DEF IInv, Working, WorkerOK, Handoff, IsA
  <1>3. Data' /\ Forward
    BY <1>1, <1>2, DeliverKeeps, SameData DEF IInv
  <1>4. at' \in [Workers -> WorkerRow] /\ WorkerOK(w)' /\ at'[w].pc = "idle" /\ \A v \in Workers \ {w} : at'[v] = at[v]
    BY <1>1, IdleOK DEF IInv, Working
  <1> QED
    BY <1>1, <1>3, <1>4, OneMoves DEF IInv

\* The snapshot becomes the view.
LEMMA StepPublish ==
  ASSUME IInv, NEW w \in Workers, Publish(w)
  PROVE  Data' /\ Working'
  <1>1. /\ at[w].pc = "publish" /\ UNCHANGED <<owner, journal, done, projected, successor, faults>>
        /\ view' = at[w].read /\ at' = [at EXCEPT ![w].pc = "projected", ![w].read = NoView]
    BY DEF Publish
  <1>2. /\ at \in [Workers -> WorkerRow] /\ at[w] \in WorkerRow /\ at[w].event = <<>>
        /\ at[w].row \in Rows /\ at[w].row # 0 /\ at[w].read \in Views
        /\ at[w].row \in view'.facts /\ view'.facts \subseteq Visible /\ view.facts \subseteq view'.facts
        /\ view.owner.revision <= view'.owner.revision /\ view'.owner.revision <= owner.revision
    BY <1>1 DEF IInv, Working, WorkerOK, WorkerRow
  <1>3. NoView \in Views /\ "projected" \in PCs
    BY DEF NoView, Views, PCs, Projection
  <1>4. /\ at' \in [Workers -> WorkerRow] /\ \A v \in Workers \ {w} : at'[v] = at[v]
        /\ at'[w].pc = "projected" /\ at'[w].row = at[w].row /\ at'[w].event = <<>>
    BY <1>1, <1>2, <1>3 DEF WorkerRow
  <1>5. Forward
    <2>1. owner \in Some
      BY DEF IInv, Data, Chain
    <2> QED
      BY <1>1, <1>2, <2>1, Revisions DEF Forward, Rows
  <1>6. Shown'
    BY <1>1, <1>2 DEF IInv, Data, Shown, Rows, IsA, Handoff, Visible
  <1>7. Data'
    BY <1>1, <1>6 DEF IInv, Data, Log, Chain, Once, Bound, BoundTo, RowOK, IsA, Handoff, Rows, Admission
  <1>8. WorkerOK(w)'
    BY <1>1, <1>2, <1>4 DEF WorkerOK, Rows
  <1>9. \A v \in Workers \ {w} : at[v].pc # "publish"
    BY <1>1 DEF IInv, Working, Lock
  <1> QED
    BY <1>4, <1>5, <1>7, <1>8, <1>9, OneMoves DEF IInv

\* A projection is delivered, or not any more.
LEMMA StepProjected ==
  ASSUME IInv, NEW w \in Workers, DeliverProjection(w)
  PROVE  Data' /\ Working'
  <1>1. /\ at[w].pc = "projected" /\ Leave(w) /\ UNCHANGED <<owner, journal, done, successor, view, faults>>
        /\ projected' = projected \cup {at[w].row} \/ projected' = projected
    BY DEF DeliverProjection
  <1>2. at[w].row \in Rows /\ at[w].row \in view.facts
    BY <1>1 DEF IInv, Working, WorkerOK
  <1>3. Forward
    <2>1. view.owner \in Some /\ owner \in Some
      BY DEF IInv, Data, Shown, Chain, Views, Some
    <2> QED
      BY <1>1, <2>1, Revisions DEF Forward, Rows
  <1>4. Shown'
    BY <1>1, <1>2 DEF IInv, Data, Shown, Rows, IsA, Handoff, Visible
  <1>5. Data'
    BY <1>1, <1>4 DEF IInv, Data, Log, Chain, Once, Bound, BoundTo, RowOK, IsA, Handoff, Rows, Admission
  <1>6. at' \in [Workers -> WorkerRow] /\ WorkerOK(w)' /\ at'[w].pc = "idle" /\ \A v \in Workers \ {w} : at'[v] = at[v]
    BY <1>1, IdleOK DEF IInv, Working
  <1> QED
    BY <1>1, <1>3, <1>5, <1>6, OneMoves DEF IInv

\* The invariant holds of an empty workspace.
LEMMA InitInv == Init => IInv
  <1> SUFFICES ASSUME Init PROVE IInv
    OBVIOUS
  <1>1. Rows = {} /\ journal \in Seq(Facts)
    BY DEF Init, Rows
  <1>2. Log /\ Chain /\ Once
    BY <1>1 DEF Init, Log, Chain, Once, Some
  <1>3. Bound /\ Shown
    BY <1>1, Revisions DEF Init, Bound, Shown, Some, NoView, Views, Visible
  <1>4. at \in [Workers -> WorkerRow] /\ \A w \in Workers : at[w].pc = "idle" /\ at[w].row = 0 /\ at[w].event = <<>>
    BY DEF Init, Idle, WorkerRow, PCs, NoView, Views, Events
  <1>5. Working
    BY <1>4 DEF Working, WorkerOK, Lock
  <1> QED
    BY <1>2, <1>3, <1>5, WorkspaceAssumption DEF IInv, Data, Init

\* Faults stay within their bound.
LEMMA StepFaults ==
  ASSUME IInv, [Next]_vars PROVE faults' \in 0 .. MaxFaults
  <1>1. ASSUME NEW a \in Actions, HostAdmits(a) \/ RequestStart(a) \/ Complete(a) PROVE faults' = faults
    BY <1>1 DEF HostAdmits, RequestStart, Complete, Report
  <1>2. ASSUME NEW t \in Terminals, NEW a \in Actions, NEW next, RecordTerminal(t, a, next) PROVE faults' = faults
    BY <1>2 DEF RecordTerminal, Report
  <1>3. ASSUME NEW w \in Workers, NEW o \in Officials, NEW t \in Terminals, CheckOfficial(w, o, t)
        PROVE  faults' = faults
    BY <1>3 DEF CheckOfficial
  <1>4. ASSUME NEW w \in Workers, NEW i \in Rows, ClaimHandoff(w, i) \/ ClaimStart(w, i) \/ ClaimProjection(w, i)
        PROVE  faults' = faults
    BY <1>4 DEF ClaimHandoff, ClaimStart, ClaimProjection, Claim
  <1>5. ASSUME NEW w \in Workers, Step(w) PROVE faults' = faults
    BY <1>5
      DEF Step, HandoffStep, ProjectionStep, OfferNothing, OfferNew, OfferAgain, OfferRefused, Bind,
          Deliver,
      Publish, DeliverProjection, AcceptStart, IngestOfficial
  <1>6. ASSUME NEW w \in Workers, Lapse(w) \/ Crash(w) PROVE faults' \in 0 .. MaxFaults
    BY <1>6, WorkspaceAssumption DEF Lapse, Crash, IInv
  <1>7. UNCHANGED vars => faults' = faults
    BY DEF vars
  <1> QED
    BY <1>1, <1>2, <1>3, <1>4, <1>5, <1>6, <1>7 DEF Next, IInv

\* Every step preserves the invariant.
LEMMA StepInv ==
  ASSUME IInv, [Next]_vars PROVE IInv'
  <1>0. CASE UNCHANGED vars
    BY <1>0, SameData, NoneMoves DEF vars, IInv
  <1>1. ASSUME NEW a \in Actions, HostAdmits(a) PROVE Data' /\ Working'
    BY <1>1, StepHost
  <1>2. ASSUME NEW a \in Actions, RequestStart(a) \/ Complete(a) PROVE Data' /\ Working'
    BY <1>2, HostKey, StepReport DEF RequestStart, Complete, Topics, Some
  <1>3. ASSUME NEW t \in Terminals, NEW a \in Actions, NEW next \in Successors(a, <<t>>) \cup {NoAction},
               RecordTerminal(t, a, next)
        PROVE  Data' /\ Working'
    BY <1>3, StepTerminal
  <1>4. ASSUME NEW w \in Workers, NEW o \in Officials, NEW t \in Terminals, CheckOfficial(w, o, t)
        PROVE  Data' /\ Working'
    BY <1>4, StepCheck
  <1>5. ASSUME NEW w \in Workers, NEW i \in Rows, ClaimHandoff(w, i) \/ ClaimStart(w, i)
        PROVE  Data' /\ Working'
    BY <1>5, StepClaim DEF ClaimHandoff, ClaimStart, Handoffs, RowsOf, Handoff, IsA, PCs, Delivery
  <1>6. ASSUME NEW w \in Workers, NEW i \in Rows, ClaimProjection(w, i) PROVE Data' /\ Working'
    BY <1>6, StepClaimProjection
  <1>7. ASSUME NEW w \in Workers, Step(w) PROVE Data' /\ Working'
    <2>1. CASE OfferRefused(w)
      BY <2>1, StepLeave DEF OfferRefused
    <2> QED
      BY <1>7, <2>1, StepOffer, StepOfferNew, StepBind, StepDeliver, StepPublish, StepProjected, StepIngest
      DEF Step, HandoffStep, ProjectionStep
  <1>8. ASSUME NEW w \in Workers, Lapse(w) \/ Crash(w) PROVE Data' /\ Working'
    BY <1>8, StepLapse, StepLeave DEF Crash
  <1>9. Data' /\ Working'
    <2>1. CASE \E a \in Actions : HostAdmits(a) \/ RequestStart(a) \/ Complete(a)
      BY <2>1, <1>1, <1>2
    <2>2. CASE \E t \in Terminals, a \in Actions : \E next \in Successors(a, <<t>>) \cup {NoAction} : RecordTerminal(t, a, next)
      BY <2>2, <1>3
    <2>3. CASE \E w \in Workers, o \in Officials, t \in Terminals : CheckOfficial(w, o, t)
      BY <2>3, <1>4
    <2>4. CASE \E w \in Workers, i \in Rows : ClaimHandoff(w, i) \/ ClaimStart(w, i) \/ ClaimProjection(w, i)
      BY <2>4, <1>5, <1>6
    <2>5. CASE \E w \in Workers : Step(w) \/ Lapse(w) \/ Crash(w)
      BY <2>5, <1>7, <1>8
    <2>6. CASE Next
      BY <2>1, <2>2, <2>3, <2>4, <2>5, <2>6 DEF Next
    <2> QED
      BY <1>0, <2>6 DEF IInv
  <1> QED
    BY <1>9, StepFaults DEF IInv

\* The invariant holds of every reachable state of the loop.
THEOREM Inductive == Spec => []IInv
  BY InitInv, StepInv, PTL DEF Spec

\* The invariant gives the properties of the runs.
LEMMA Flat ==
  ASSUME IInv
  PROVE  OwnersFormAChain /\ OfficialInOneTerminal /\ ProjectedIsShown /\ BoundSuccessorOwned
  <1>1. OwnersFormAChain
    BY ChainFlat DEF IInv, Data, Log
  <1>2. OfficialInOneTerminal
    BY DEF IInv, Data, Once, OfficialInOneTerminal, RowsOf, IsA
  <1>3. ProjectedIsShown
    BY DEF IInv, Data, Shown, ProjectedIsShown
  <1>4. BoundSuccessorOwned
    <2> SUFFICES ASSUME NEW i \in Rows, IsA(i, "test.terminal")
                 PROVE  /\ successor[journal[i].key[1]] # NoAction =>
                             /\ successor[journal[i].key[1]] = journal[i].link
                             /\ \E j \in Rows : journal[j] = Admission(journal[i].link, journal[i].key, journal[i].action)
                        /\ i \in done => successor[journal[i].key[1]] = journal[i].link
      BY DEF BoundSuccessorOwned, RowsOf, IsA
    <2>1. PICK t \in Terminals : journal[i].key = <<t>>
      BY DEF IInv, Data, Log, RowOK
    <2>2. journal[i].key[1] = t
      BY <2>1
    <2>3. BoundTo(i, t)
      BY <2>1 DEF IInv, Data, Bound
    <2> QED
      BY <2>2, <2>3 DEF BoundTo
  <1> QED
    BY <1>1, <1>2, <1>3, <1>4

\* Racing planners, repeated handovers and stale plans leave one chain of owners
\* (admit_workspace_action).
THEOREM ChainCorrect == Spec => []OwnersFormAChain
  BY Flat, Inductive, PTL
\* An official event is accepted for one local terminal (ExternalCompletionCore
\* checks again in the transaction that writes).
THEOREM OfficialCorrect == Spec => []OfficialInOneTerminal
  BY Flat, Inductive, PTL
\* A delivered projection has its fact in the published view (the snapshot is read
\* after the claim, in the lock).
THEOREM ShownCorrect == Spec => []ProjectedIsShown
  BY Flat, Inductive, PTL
\* A terminal is bound to the successor its own plan had admitted, and a delivered
\* handover is bound, whatever crash came between its two transactions.
THEOREM BoundCorrect == Spec => []BoundSuccessorOwned
  BY Flat, Inductive, PTL

\* All tables and workers stay within their types (the journal, the owner, the
\* claims and the view).
THEOREM TypeCorrect == Spec => []TypeOK
  <1>1. ASSUME IInv PROVE TypeOK
    <2>1. /\ at \in [Workers -> [pc : {"idle", "ingest"} \cup Delivery \cup Projection, row : Nat,
                        live : BOOLEAN, read : Views, event : (Officials \X Terminals) \cup {<<>>}]]
      BY <1>1 DEF IInv, Working, WorkerRow, PCs, Events
    <2>2. \A w \in Workers :
       /\ at[w].row \in (IF at[w].pc \in {"idle", "ingest"} THEN {0} ELSE Rows)
       /\ at[w].event \in (IF at[w].pc = "ingest" THEN Officials \X Terminals ELSE {<<>>})
      BY <1>1 DEF IInv, Working, WorkerOK
    <2>3. done \subseteq Handoffs \cup RowsOf("agent.native-start")
      BY <1>1 DEF IInv, Data, Shown, Handoffs, Handoff, RowsOf, IsA
    <2>4. /\ owner \in Some /\ journal \in Seq(Facts) /\ projected \subseteq Rows /\ view \in Views
          /\ successor \in [Terminals -> Some] /\ faults \in 0 .. MaxFaults
      BY <1>1 DEF IInv, Data, Log, Chain, Shown, Bound
    <2> QED
      BY <2>1, <2>2, <2>3, <2>4 DEF TypeOK, Some
  <1> QED
    BY <1>1, Inductive, PTL

\* Only a publication changes the view, and its snapshot was taken in the lock.
LEMMA StepForward ==
  ASSUME IInv, IInv', [Next]_vars
  PROVE  view.facts \subseteq view'.facts /\ view.owner.revision <= view'.owner.revision
  <1>1. view.owner \in Some
    BY DEF IInv, Data, Shown, Views, Some
  <1>2. view.owner.revision <= view.owner.revision
    BY <1>1, Revisions
  <1>3. CASE view' = view
    BY <1>2, <1>3
  <1>4. ASSUME NEW w \in Workers, Publish(w)
        PROVE  view.facts \subseteq view'.facts /\ view.owner.revision <= view'.owner.revision
    BY <1>4 DEF Publish, IInv, Working, WorkerOK
  <1>5. \/ view' = view
        \/ \E w \in Workers : Publish(w)
    <2>1. ASSUME NEW a \in Actions, HostAdmits(a) \/ RequestStart(a) \/ Complete(a) PROVE view' = view
      BY <2>1 DEF HostAdmits, RequestStart, Complete, Report
    <2>2. ASSUME NEW t \in Terminals, NEW a \in Actions, NEW next, RecordTerminal(t, a, next) PROVE view' = view
      BY <2>2 DEF RecordTerminal, Report
    <2>3. ASSUME NEW w \in Workers, NEW o \in Officials, NEW t \in Terminals, CheckOfficial(w, o, t)
          PROVE  view' = view
      BY <2>3 DEF CheckOfficial
    <2>4. ASSUME NEW w \in Workers, NEW i \in Rows, ClaimHandoff(w, i) \/ ClaimStart(w, i) \/ ClaimProjection(w, i)
          PROVE  view' = view
      BY <2>4 DEF ClaimHandoff, ClaimStart, ClaimProjection, Claim
    <2>5. ASSUME NEW w \in Workers, Step(w) PROVE view' = view \/ Publish(w)
      BY <2>5
        DEF Step, HandoffStep, ProjectionStep, OfferNothing, OfferNew, OfferAgain, OfferRefused, Bind,
            Deliver,
        DeliverProjection, AcceptStart, IngestOfficial
    <2>6. ASSUME NEW w \in Workers, Lapse(w) \/ Crash(w) PROVE view' = view
      BY <2>6 DEF Lapse, Crash
    <2>7. UNCHANGED vars => view' = view
      BY DEF vars
    <2> QED
      BY <2>1, <2>2, <2>3, <2>4, <2>5, <2>6, <2>7 DEF Next
  <1> QED
    BY <1>3, <1>4, <1>5

\* The published view never loses a fact or an owner, however slow its publisher
\* (the file lock spans snapshot and publication).
THEOREM ViewCorrect == Spec => ViewNeverGoesBack
  <1>1. IInv /\ IInv' /\ [Next]_vars =>
          [view.facts \subseteq view'.facts /\ view.owner.revision <= view'.owner.revision]_vars
    BY StepForward
  <1> QED
    BY <1>1, Inductive, PTL DEF Spec, ViewNeverGoesBack

\* A plan that is refused came too late.
LEMMA RefusedLate ==
  ASSUME IInv, NEW w \in Workers, OfferRefused(w) PROVE Superseded(at[w].row)
  <1> DEFINE i == at[w].row
  <1>1. at[w].pc = "admit" /\ Row(w).link # NoAction /\ ~Replays(Planned(w)) /\ ~Admits(Planned(w))
    BY DEF OfferRefused
  <1>2. /\ i \in Rows /\ Row(w) = journal[i] /\ Row(w).action \in Actions /\ Row(w).link \in Actions
        /\ Row(w).key \in Keys /\ Handoff(i)
    BY <1>1, HeldRow DEF IInv, Working, WorkerOK, Some
  <1>3. journal \in Seq(Facts) /\ Chain /\ owner \in Some
    BY DEF IInv, Data, Log, Chain
  <1>4. Row(w).link.revision = Row(w).action.revision + 1
    BY <1>1, <1>2 DEF IInv, Data, Log, RowOK
  <1>5. PICK j \in Rows : IsA(j, "workspace.action") /\ journal[j].action = Row(w).action
    BY <1>2 DEF IInv, Data, Log, RowOK
  <1>6. Planned(w).action = Row(w).link /\ Planned(w).link = Row(w).action
    BY <1>2, FactFields DEF Planned, Admission, Topics, Some
  <1>7. owner.revision \in Nat /\ Row(w).action.revision \in Nat /\ Row(w).action.revision <= owner.revision
    BY <1>2, <1>3, <1>5, Revisions DEF Chain, Some
  <1>8. owner.revision > Row(w).action.revision
    <2>1. CASE Recorded("workspace.action", Row(w).link)
      <3>1. PICK k \in Rows : IsA(k, "workspace.action") /\ journal[k].action = Row(w).link
        BY <2>1 DEF Recorded, RowsOf, IsA
      <3> QED
        BY <1>3, <1>4, <1>7, <3>1 DEF Chain
    <2>2. CASE owner # Row(w).action
      <3>1. owner # NoAction
        BY <1>3, <1>5, <1>7, <2>2, RowFacts, Revisions, WorkspaceAssumption DEF Chain
      <3>2. PICK k \in Rows : IsA(k, "workspace.action") /\ journal[k].action = owner
        BY <1>3, <3>1 DEF Chain
      <3>3. j # k /\ j \in Nat /\ k \in Nat
        BY <1>3, <1>5, <2>2, <3>2, RowFacts
      <3>4. CASE j < k
        BY <1>3, <1>5, <3>2, <3>4 DEF Chain
      <3>5. CASE k < j
        <4>1. owner.revision < Row(w).action.revision
          BY <1>3, <1>5, <3>2, <3>5 DEF Chain
        <4> QED
          BY <1>7, <4>1
      <3> QED
        BY <3>3, <3>4, <3>5
    <2> QED
      BY <1>1, <1>6, <2>1, <2>2 DEF Admits, Current
  <1>9. \A k \in Rows : journal[k] # Planned(w)
    BY <1>1 DEF Replays
  <1> QED
    BY <1>2, <1>8, <1>9 DEF Superseded, Planned

\* Binding never fails: the successor of a terminal is only ever its own.
LEMMA BindBinds ==
  ASSUME IInv, NEW w \in Workers, Bind(w) PROVE Goto(w, "deliver")
  <1>1. at[w].pc = "bind"
    BY DEF Bind
  <1>2. at[w].row \in Rows /\ Row(w) = journal[at[w].row] /\ IsA(at[w].row, "test.terminal")
    BY <1>1, HeldRow DEF IInv, Working, WorkerOK
  <1>3. PICK t \in Terminals : Row(w).key = <<t>>
    BY <1>2 DEF IInv, Data, Log, RowOK
  <1>4. successor[t] \in {NoAction, Row(w).link}
    BY <1>2, <1>3 DEF IInv, Data, Bound, BoundTo
  <1>5. Row(w).key[1] = t
    BY <1>3
  <1> QED
    BY <1>4, <1>5 DEF Bind

\* A worker that drops a handover without a fault was refused.
LEMMA OnlyRefused ==
  ASSUME IInv, Next, NEW v \in Workers, at[v].pc \in {"admit", "bind"}, at'[v] = Idle, faults' = faults
  PROVE  OfferRefused(v)
  <1>1. at \in [Workers -> WorkerRow] /\ at[v] # Idle /\ Idle.pc = "idle" /\ faults \in Nat
    BY WorkspaceAssumption DEF IInv, Working, Idle
  <1>2. at' # at
    BY <1>1
  <1>3. \E w \in Workers : Step(w) \/ Lapse(w) \/ Crash(w)
    <2>1. ASSUME NEW a \in Actions, HostAdmits(a) \/ RequestStart(a) \/ Complete(a) PROVE FALSE
      BY <2>1, <1>2 DEF HostAdmits, RequestStart, Complete, Report
    <2>2. ASSUME NEW t \in Terminals, NEW a \in Actions, NEW next, RecordTerminal(t, a, next) PROVE FALSE
      BY <2>2, <1>2 DEF RecordTerminal, Report
    <2>3. ASSUME NEW w \in Workers, NEW o \in Officials, NEW t \in Terminals, CheckOfficial(w, o, t) PROVE FALSE
      <3>1. at[w] = Idle /\ at' = [at EXCEPT ![w].pc = "ingest", ![w].event = <<o, t>>]
        BY <2>3 DEF CheckOfficial
      <3> QED
        BY <1>1, <3>1
    <2>4. ASSUME NEW w \in Workers, NEW i \in Rows, NEW p, Claim(w, i, p) PROVE FALSE
      BY <1>1, <2>4 DEF Claim
    <2>5. ASSUME NEW w \in Workers, NEW i \in Rows, ClaimProjection(w, i) PROVE FALSE
      BY <1>1, <2>5 DEF ClaimProjection
    <2>6. ASSUME NEW w \in Workers, NEW i \in Rows, ClaimHandoff(w, i) \/ ClaimStart(w, i) PROVE FALSE
      BY <2>4, <2>6 DEF ClaimHandoff, ClaimStart
    <2> QED
      BY <2>1, <2>2, <2>3, <2>5, <2>6 DEF Next
  <1>4. PICK w \in Workers : Step(w) \/ Lapse(w) \/ Crash(w)
    BY <1>3
  <1>5. Step(w)
    BY <1>1, <1>4 DEF Lapse, Crash
  <1>6. \A q \in PCs : Goto(w, q) /\ w = v => q = "idle"
    BY <1>1, Moving
  <1>7. \A q \in PCs : Goto(w, q) => w = v
    BY <1>1, Moving
  <1>8. Leave(w) => w = v
    BY <1>1 DEF Leave
  <1>9. \A q \in PCs \ {"idle"} : ~Goto(w, q)
    BY <1>6, <1>7
  <1>10. ~OfferNothing(w)
    BY <1>9 DEF OfferNothing, PCs, Delivery
  <1>11. AfterAdmission(w) \in PCs \ {"idle"}
    BY DEF AfterAdmission, PCs, Delivery
  <1>12. ~OfferNew(w) /\ ~OfferAgain(w)
    BY <1>9, <1>11 DEF OfferNew, OfferAgain
  <1>13. ~Bind(w)
    BY <1>9, BindBinds DEF PCs, Delivery
  <1>14. ~Deliver(w) /\ ~AcceptStart(w) /\ ~DeliverProjection(w) /\ ~IngestOfficial(w)
    BY <1>8 DEF Deliver, AcceptStart, DeliverProjection, IngestOfficial
  <1>15. ~Publish(w)
    BY <1>1 DEF Publish
  <1>16. OfferRefused(w)
    BY <1>5, <1>10, <1>12, <1>13, <1>14, <1>15 DEF Step, HandoffStep, ProjectionStep
  <1>17. w = v
    BY <1>8, <1>16 DEF OfferRefused
  <1> QED
    BY <1>16, <1>17

\* A handover is refused only when another plan got there first; its own admission
\* is always recognised and its binding always succeeds (the terminal handler).
THEOREM RefusalCorrect == Spec => RefusedOnlyIfSuperseded
  <1>1. IInv /\ [Next]_vars =>
          [\A w \in Workers : at[w].pc \in {"admit", "bind"} /\ at'[w] = Idle /\ faults' = faults
                               => Superseded(at[w].row)]_vars
    <2> SUFFICES ASSUME IInv, Next, NEW w \in Workers, at[w].pc \in {"admit", "bind"}, at'[w] = Idle, faults' = faults
                 PROVE  Superseded(at[w].row)
      OBVIOUS
    <2> QED
      BY OnlyRefused, RefusedLate
  <1> QED
    BY <1>1, Inductive, PTL DEF Spec, RefusedOnlyIfSuperseded
=============================================================================
