------------------------ MODULE TestTransport_proofs ------------------------
(***************************************************************************)
(* Proofs about the delivery of test requests, for every set of requests,  *)
(* every capacity and every bound.                                         *)
(*                                                                         *)
(* The inductive invariant is local but for its last two parts.  Local     *)
(* says, of one request, how the rows, the claim, the query, the returns   *)
(* and the recoveries that five repositories write agree with each other   *)
(* and with the endpoint.  LanesOK says what the three lanes of a running  *)
(* pass may rely on: the ingress lane holds claimed rows, the poll lane    *)
(* looks at another row than the ingress lane holds, and both are closed   *)
(* while the back lane is open.  Busy rows never exceed the capacity.      *)
(* A step of one request leaves every other row alone (RowStep), and one   *)
(* taken beside the pass keeps the lanes because it moves no row a lane    *)
(* works on (Calm, BesideStep).                                            *)
(***************************************************************************)
EXTENDS TestTransport, FiniteSetTheorems, TLAPS

\* The domains of the state, named so that a step need not expand them.
RequestStates == {"created", "preparing", "blocked", "routed", "accepted", "uncertain",
                  "retry-decision-pending"} \cup Terminal
AttemptStates == {"none", "prepared", "queued", "sent", "accepted", "uncertain",
                  "retry-decision-pending", "returning"} \cup Terminal
ReturnStates == {"none", "received", "projected-ready", "recovery-decision-pending",
                 "recovery-superseded", "recovery-unrecoverable", "acknowledged"}
RecoveryStates == Dispatchable \cup {"none", "decision-pending", "dispatched", "result-received",
                                     "completed", "unrecoverable"}
LanePCs == {"idle", "marked", "out", "asked", "result", "done", "ack", "released", "recover", "repaired"}
Builds == 1..MaxPreparations

RowSet == [request : RequestStates, attempt : AttemptStates, box : Boxes]
PrepSet == [n : 0..MaxPreparations, gen : 0..MaxGeneration,
            state : {"none", "reserved", "failed", "superseded", "published"}]
QuerySet == [gen : 0..MaxGeneration, rev : 0..2, answer : {"none", "not-found", "accepted", "result"}]
RemoteSet == [flight : BOOLEAN, known : BOOLEAN, rev : 0..2, repaired : SUBSET Revisions,
              released : SUBSET Revisions]
LaneSet == [on : Requests \cup {NoRequest}, rev : Revisions, seen : Pollable \cup {"none"}, pc : LanePCs]
Causes == {"none", "unknown", "unpublished", "known"}

\* The type invariant, in two halves: the database and the endpoint, and the pass.
TypedTables ==
  /\ rows \in [Requests -> RowSet]
  /\ prep \in [Requests -> PrepSet]
  /\ builders \in [Requests -> [Builds -> 0..MaxBuilders]]
  /\ cause \in [Requests -> Causes]
  /\ retries \in [Requests -> 0..MaxRetries]
  /\ claim \in [Requests -> {"none", "live", "lapsed"}]
  /\ query \in [Requests -> QuerySet]
  /\ returns \in [Requests -> [Revisions -> ReturnStates]]
  /\ recovery \in [Requests -> [Revisions -> RecoveryStates]]
  /\ remote \in [Requests -> RemoteSet]
TypedLanes ==
  /\ held \subseteq Requests
  /\ ingress \in LaneSet /\ poll \in LaneSet /\ back \in LaneSet
  /\ generation \in 1..MaxGeneration /\ faults \in 0..MaxFaults

\* RowsAgree, of one request.
Agree(r) ==
  /\ rows[r].attempt = CASE Box(r) \in {"pending", "retry"} -> "prepared"
                         [] Box(r) = "claimed"              -> "queued"
                         [] Box(r) = "sending"              -> "sent"
                         [] Box(r) = "decision-pending"     -> "retry-decision-pending"
                         [] Box(r) = "completed"            -> rows[r].request
                         [] OTHER                           -> Box(r)
  /\ Box(r) = "decision-pending" <=> rows[r].request = "retry-decision-pending"
  /\ Box(r) \in Terminal <=> rows[r].request \in Terminal
  /\ Box(r) # "none" <=> prep[r].state = "published"
  /\ rows[r].request \in {"created", "preparing", "blocked"} <=> Box(r) = "none"

\* Exactly the rows a pass works on carry a claim.
Claimed(r) == claim[r] # "none" <=> Box(r) \in {"claimed", "sending"}

\* No identity is open before a publication; an answer is never newer than the endpoint.
Queried(r) ==
  /\ Box(r) \in {"none", "pending", "retry", "claimed", "sending"} => query[r].gen = 0
  /\ query[r].answer = "result" => query[r].rev # 0
  /\ query[r].rev <= remote[r].rev

\* RepeatedOnlyByDecision, and nothing leaves before there is an outbox row.
Repeated(r) ==
  /\ Box(r) = "none" => ~remote[r].flight /\ ~remote[r].known
  /\ Box(r) \in {"pending", "retry", "claimed"} /\ (remote[r].flight \/ remote[r].known) => retries[r] > 0

\* What a return and a recovery may be in.
Open == {"received", "projected-ready", "recovery-decision-pending", "recovery-unrecoverable"}
Repairing == {"authorized", "uncertain", "reconcile-required"}
Repaired == {"dispatched", "result-received", "completed"}

\* What a return and its recovery say of each other.
Match(r, v) ==
  /\ recovery[r][v] = "none" => returns[r][v] \in {"none", "received", "projected-ready", "acknowledged"}
  /\ recovery[r][v] \in {"decision-pending"} \cup Repairing => returns[r][v] = "recovery-decision-pending"
  /\ recovery[r][v] \in Repaired => returns[r][v] = "recovery-superseded"
  /\ recovery[r][v] = "unrecoverable" => returns[r][v] \in {"recovery-unrecoverable", "acknowledged"}

\* A row is returning while one of its returns is open, and one at most is.
Returned(r) ==
  /\ \A v \in Revisions : Match(r, v)
  /\ Box(r) = "returning" <=> \E v \in Revisions : returns[r][v] \in Open
  /\ returns[r][1] \in Open => returns[r][2] \notin Open
  /\ \A v \in Revisions : returns[r][v] = "acknowledged" => Box(r) \in Terminal

\* The endpoint repairs the first revision only: the second is what that repair made.
RecoveredOnce(r) ==
  /\ remote[r].rev = 2 => 1 \in remote[r].repaired
  /\ 1 \in remote[r].repaired => recovery[r][1] \in {"unrecoverable"} \cup Repairing \cup Repaired
  /\ returns[r][2] # "none" => recovery[r][1] \in Repaired
  /\ 2 \notin remote[r].repaired
  /\ recovery[r][2] \in {"none", "decision-pending", "unrecoverable"}

\* ReleasedAfterProjection, of one request.
Released(r) ==
  \A v \in remote[r].released : returns[r][v] \in {"projected-ready", "recovery-unrecoverable", "acknowledged"}

\* Everything about one request.
Local(r) ==
  Agree(r) /\ Claimed(r) /\ Queried(r) /\ Repeated(r) /\ Returned(r) /\ RecoveredOnce(r) /\ Released(r)

\* The ingress lane publishes one of the rows it holds; the others are claimed.
IngressOK ==
  /\ ingress.on # NoRequest => ingress.pc \in {"marked", "out"} /\ ingress.on \in held /\ Box(ingress.on) = "sending"
  /\ ingress.on = NoRequest => ingress = Quiet
  /\ \A r \in held : r # ingress.on => Box(r) = "claimed"

\* What the poll lane saw of its row still holds while it waits for the endpoint.
PollOK ==
  /\ poll.on = NoRequest => poll = Quiet
  /\ poll.on # NoRequest =>
       /\ poll.pc \in {"asked", "result", "done"}
       /\ poll.pc = "asked" => poll.seen \in Pollable /\ Box(poll.on) = poll.seen
       /\ poll.pc = "result" => Box(poll.on) = "accepted" /\ poll.rev <= remote[poll.on].rev
       /\ poll.pc = "done" => Box(poll.on) \in {"accepted", "returning"}
       /\ back = Quiet

\* The back lane works on an open return or recovery, alone.
BackOK ==
  /\ back.on = NoRequest => back = Quiet
  /\ back.on # NoRequest =>
       /\ back.pc \in {"ack", "released", "recover", "repaired"}
       /\ back.pc \in {"ack", "released"} =>
            returns[back.on][back.rev] \in {"projected-ready", "recovery-unrecoverable"}
       /\ back.pc \in {"recover", "repaired"} => recovery[back.on][back.rev] \in Repairing
       /\ back.pc = "repaired" => back.rev \in remote[back.on].repaired
       /\ held = {} /\ ingress = Quiet /\ poll = Quiet

\* What the lanes of a running pass rely on.
LanesOK == IngressOK /\ PollOK /\ BackOK

\* The rows that count against the capacity.
Busy == {r \in Requests : Box(r) \in ActiveBoxes}

\* The inductive invariant.
IInv ==
  /\ TypedTables /\ TypedLanes
  /\ \A r \in Requests : Local(r)
  /\ LanesOK
  /\ Cardinality(Busy) <= Capacity

\* What the updates of a row do.
LEMMA WriteEff ==
  ASSUME rows \in [Requests -> RowSet], NEW r \in Requests, NEW a \in RequestStates,
         NEW b \in AttemptStates,
         NEW c \in Boxes, Write(r, a, b, c)
  PROVE  /\ rows' \in [Requests -> RowSet]
         /\ rows'[r].request = a /\ rows'[r].attempt = b /\ rows'[r].box = c
         /\ \A q \in Requests \ {r} : rows'[q] = rows[q]
  BY DEF Write, RowSet

\* An update that leaves the request alone.
LEMMA MoveEff ==
  ASSUME rows \in [Requests -> RowSet], NEW r \in Requests, NEW b \in AttemptStates,
         NEW c \in Boxes, Move(r, b, c)
  PROVE  /\ rows' \in [Requests -> RowSet]
         /\ rows'[r].request = rows[r].request /\ rows'[r].attempt = b /\ rows'[r].box = c
         /\ \A q \in Requests \ {r} : rows'[q] = rows[q]
  <1>1. rows[r].request \in RequestStates
    BY DEF RowSet
  <1> QED
    BY <1>1, WriteEff DEF Move

\* A query identity is spent.
LEMMA CloseEff ==
  ASSUME query \in [Requests -> QuerySet], NEW r \in Requests, CloseQuery(r)
  PROVE  /\ query' \in [Requests -> QuerySet] /\ query'[r].gen = 0 /\ query'[r].answer = "none" /\ query'[r].rev = 0
         /\ \A q \in Requests \ {r} : query'[q] = query[q]
  BY TransportAssumption DEF CloseQuery, NoQuery, QuerySet

\* A step leaves a request alone.
Same(q) ==
  /\ rows'[q] = rows[q] /\ prep'[q] = prep[q] /\ claim'[q] = claim[q] /\ query'[q] = query[q]
  /\ retries'[q] = retries[q] /\ returns'[q] = returns[q] /\ recovery'[q] = recovery[q]
  /\ remote'[q] = remote[q]

\* A request that is left alone keeps its part of the invariant.
LEMMA Kept ==
  ASSUME NEW q, Local(q), Same(q) PROVE Local(q)'
  <1>1. Agree(q)' /\ Claimed(q)'
    BY DEF Local, Same, Agree, Claimed, Box
  <1>2. Queried(q)' /\ Repeated(q)'
    BY DEF Local, Same, Queried, Repeated, Box
  <1>3. Returned(q)' /\ RecoveredOnce(q)' /\ Released(q)'
    BY DEF Local, Same, Returned, RecoveredOnce, Released, Match, Box
  <1> QED
    BY <1>1, <1>2, <1>3 DEF Local

\* So only the request that moves has to be looked at.
LEMMA OneRow ==
  ASSUME \A q \in Requests : Local(q), NEW r \in Requests, Local(r)', \A q \in Requests \ {r} : Same(q)
  PROVE  \A q \in Requests : Local(q)'
  BY Kept

\* A step that makes no row busy keeps the capacity.
LEMMA BusyKept ==
  ASSUME Cardinality(Busy) <= Capacity, Busy' \subseteq Busy
  PROVE  Cardinality(Busy)' <= Capacity
  <1>1. IsFiniteSet(Busy)
    BY FS_Subset, TransportAssumption DEF Busy
  <1>2. IsFiniteSet(Busy') /\ Cardinality(Busy') <= Cardinality(Busy) /\ Cardinality(Busy) \in Nat /\ Cardinality(Busy') \in Nat
    BY <1>1, FS_Subset, FS_CardinalityType
  <1> QED
    BY <1>2, TransportAssumption

\* A step beside the pass: it moves no row a lane works on.
Moving == {"claimed", "sending", "accepted", "uncertain", "returning"}

Calm(q) ==
  /\ Box(q) \in Moving => Box(q)' = Box(q)
  /\ remote[q].rev <= remote'[q].rev /\ remote[q].repaired \subseteq remote'[q].repaired
  /\ \A v \in Revisions :
       /\ returns[q][v] \in {"projected-ready", "recovery-unrecoverable"} => returns'[q][v] = returns[q][v]
       /\ recovery[q][v] \in Repairing => recovery'[q][v] = recovery[q][v]

\* The revision the endpoint retains is a number.
LEMMA RevType ==
  ASSUME remote \in [Requests -> RemoteSet], NEW q \in Requests
  PROVE  remote[q].rev \in Nat /\ remote[q].rev <= 2
  <1>1. remote[q] \in RemoteSet
    OBVIOUS
  <1>2. remote[q].rev \in 0..2
    BY <1>1 DEF RemoteSet
  <1> QED
    BY <1>2

\* Steps beside the pass keep what the lanes rely on.
LEMMA LanesKept ==
  ASSUME TypedTables, TypedLanes, LanesOK, TypedTables', UNCHANGED pass, \A q \in Requests : Calm(q)
  PROVE  LanesOK'
  <1>1. held' = held /\ ingress' = ingress /\ poll' = poll /\ back' = back
    BY DEF pass
  <1>2. IngressOK'
    <2>1. ingress.on \in Requests \cup {NoRequest} /\ held \subseteq Requests
      BY DEF TypedLanes, LaneSet
    <2> QED
      BY <1>1, <2>1 DEF LanesOK, IngressOK, Calm, Moving
  <1>3. PollOK'
    <2>1. poll.on \in Requests \cup {NoRequest} /\ poll.rev \in Nat
      BY DEF TypedLanes, LaneSet, Revisions
    <2>2. poll.on \in Requests => remote[poll.on].rev \in Nat /\ remote'[poll.on].rev \in Nat
      <3>1. remote \in [Requests -> RemoteSet] /\ remote' \in [Requests -> RemoteSet]
        BY DEF TypedTables
      <3>2. ASSUME NEW q \in Requests PROVE remote'[q].rev \in Nat
        <4>1. remote'[q] \in RemoteSet
          BY <3>1
        <4>2. remote'[q].rev \in 0..2
          BY <4>1 DEF RemoteSet
        <4> QED
          BY <4>2
      <3> QED
        BY <3>1, <3>2, RevType
    <2>3. ASSUME poll.on # NoRequest, poll.pc = "result" PROVE poll.rev <= remote'[poll.on].rev
      BY <2>1, <2>2, <2>3 DEF LanesOK, PollOK, Calm
    <2> QED
      BY <1>1, <2>1, <2>3 DEF LanesOK, PollOK, Calm, Moving, Pollable
  <1>4. BackOK'
    <2>1. back.on \in Requests \cup {NoRequest} /\ back.rev \in Revisions
      BY DEF TypedLanes, LaneSet
    <2> QED
      BY <1>1, <2>1 DEF LanesOK, BackOK, Calm
  <1> QED
    BY <1>2, <1>3, <1>4 DEF LanesOK

\* One row moves.
LEMMA RowStep ==
  ASSUME IInv, NEW r \in Requests, TypedTables', TypedLanes', Local(r)', LanesOK',
         \A q \in Requests \ {r} : Same(q),
         Box(r)' \in ActiveBoxes => Box(r) \in ActiveBoxes
  PROVE  IInv'
  <1>1. \A q \in Requests : Local(q)'
    BY OneRow DEF IInv
  <1>2. Busy' \subseteq Busy
    BY DEF Busy, Same, Box
  <1>3. Cardinality(Busy)' <= Capacity
    BY <1>2, BusyKept DEF IInv
  <1> QED
    BY <1>1, <1>3 DEF IInv

\* One row moves beside the pass.
LEMMA BesideStep ==
  ASSUME IInv, NEW r \in Requests, TypedTables', TypedLanes', Local(r)', UNCHANGED pass,
         \A q \in Requests \ {r} : Same(q), Calm(r),
         Box(r)' \in ActiveBoxes => Box(r) \in ActiveBoxes
  PROVE  IInv'
  <1>1. ASSUME NEW q \in Requests \ {r} PROVE Calm(q)
    <2>1. remote[q].rev \in Nat
      BY RevType DEF IInv, TypedTables
    <2> QED
      BY <2>1 DEF Same, Calm, Box
  <1>2. LanesOK'
    BY <1>1, LanesKept DEF IInv
  <1> QED
    BY <1>2, RowStep

\* The types, one by one.
LEMMA Types ==
  ASSUME IInv
  PROVE  /\ rows \in [Requests -> RowSet] /\ prep \in [Requests -> PrepSet]
         /\ builders \in [Requests -> [Builds -> 0..MaxBuilders]] /\ cause \in [Requests -> Causes]
         /\ retries \in [Requests -> 0..MaxRetries] /\ claim \in [Requests -> {"none", "live", "lapsed"}]
         /\ query \in [Requests -> QuerySet] /\ returns \in [Requests -> [Revisions -> ReturnStates]]
         /\ recovery \in [Requests -> [Revisions -> RecoveryStates]]
         /\ remote \in [Requests -> RemoteSet]
         /\ faults \in 0..MaxFaults /\ generation \in 1..MaxGeneration
         /\ held \subseteq Requests
  BY DEF IInv, TypedTables, TypedLanes

\* Faults stay within their bound.
LEMMA FaultType ==
  ASSUME IInv, Fault \/ NoFault PROVE faults' \in 0..MaxFaults
  BY TransportAssumption DEF IInv, TypedLanes, Fault, NoFault

\* The fields of a row and what the invariant says of it.
LEMMA RowType ==
  ASSUME IInv, NEW r \in Requests
  PROVE  /\ rows[r].request \in RequestStates /\ rows[r].attempt \in AttemptStates /\ Box(r) \in Boxes
         /\ Box(r) = rows[r].box /\ rows[r] \in RowSet
         /\ Local(r) /\ Agree(r) /\ Claimed(r) /\ Queried(r) /\ Repeated(r) /\ Returned(r)
         /\ RecoveredOnce(r) /\ Released(r)
  BY DEF IInv, TypedTables, RowSet, Box, Local

\* A request without an attempt has no outbox row.
LEMMA Unattempted ==
  ASSUME IInv, NEW r \in Requests,
         rows[r].attempt = "none" PROVE Box(r) = "none" /\ prep[r].state # "published"
  BY RowType DEF Agree, Boxes, Terminal, RequestStates

\* A builder is added to a preparation.
LEMMA BuilderType ==
  ASSUME IInv, NEW r \in Requests, NEW k, builders' = [builders EXCEPT ![r][k] = @ + 1],
         builders[r][k] < MaxBuilders
  PROVE  builders' \in [Requests -> [Builds -> 0..MaxBuilders]]
  <1> DEFINE f == [builders[r] EXCEPT ![k] = builders[r][k] + 1]
  <1>1. builders[r] \in [Builds -> 0..MaxBuilders]
    BY Types
  <1>2. CASE k \in Builds
    <2>1. builders[r][k] + 1 \in 0..MaxBuilders
      BY <1>1, <1>2 DEF MaxBuilders
    <2> QED
      BY <1>1, <2>1, Types
  <1>3. CASE k \notin Builds
    <2>1. f \in [Builds -> 0..MaxBuilders]
      BY <1>1, <1>3
    <2>2. builders' = [builders EXCEPT ![r] = f]
      OBVIOUS
    <2> QED
      BY <2>1, <2>2, Types
  <1> QED
    BY <1>2, <1>3

\* reserve_wire_v3_preparation.
LEMMA StepReserve ==
  ASSUME IInv, NEW r \in Requests, Reserve(r) PROVE IInv'
  <1>1. Box(r) = "none" /\ rows[r].request \notin Terminal /\ prep[r].state # "published" /\ rows[r].attempt = "none"
    BY Unattempted DEF Reserve
  <1>2. /\ UNCHANGED <<cause, retries, claim, query, outcome, pass, remote, generation, faults>>
        /\ builders' = [builders EXCEPT ![r][prep'[r].n] = @ + 1]
        /\ builders[r][prep'[r].n] < MaxBuilders
    BY DEF Reserve
  <1>3. CASE prep[r].state = "reserved" /\ UNCHANGED <<prep, rows>>
    <2>1. prep'[r].n \in 0..MaxPreparations
      BY <1>3, Types DEF PrepSet
    <2>2. builders' \in [Requests -> [Builds -> 0..MaxBuilders]]
      BY <1>2, BuilderType
    <2>3. TypedTables' /\ TypedLanes'
      BY <1>2, <1>3, <2>2 DEF IInv, TypedTables, TypedLanes, outcome, pass
    <2>4. \A q \in Requests : Same(q)
      BY <1>2, <1>3 DEF Same, outcome
    <2>5. Local(r)' /\ Box(r)' = Box(r)
      BY <2>4, RowType, Kept DEF Same, Box
    <2>6. Calm(r)
      BY <2>4, RevType, Types DEF Same, Calm, Box
    <2> QED
      BY <1>2, <2>3, <2>4, <2>5, <2>6, BesideStep DEF pass
  <1>4. CASE /\ prep' = [prep EXCEPT ![r] = [n |-> prep[r].n + 1, state |-> "reserved", gen |-> 0]]
             /\ prep[r].n < MaxPreparations /\ Write(r, "preparing", "none", "none")
    <2>1. prep[r].n \in 0..MaxPreparations /\ prep \in [Requests -> PrepSet]
      BY Types DEF PrepSet
    <2>2. /\ prep' \in [Requests -> PrepSet] /\ prep'[r].state = "reserved"
          /\ \A q \in Requests \ {r} : prep'[q] = prep[q]
      BY <1>4, <2>1, TransportAssumption DEF PrepSet
    <2>3. builders' \in [Requests -> [Builds -> 0..MaxBuilders]]
      BY <1>2, BuilderType
    <2>4. "preparing" \in RequestStates /\ "none" \in AttemptStates /\ "none" \in Boxes
      BY DEF RequestStates, AttemptStates, Boxes
    <2>5. /\ rows' \in [Requests -> RowSet] /\ rows'[r].request = "preparing" /\ rows'[r].attempt = "none"
          /\ rows'[r].box = "none" /\ \A q \in Requests \ {r} : rows'[q] = rows[q]
      BY <1>4, <2>4, WriteEff, Types
    <2>6. TypedTables' /\ TypedLanes'
      BY <1>2, <2>2, <2>3, <2>5 DEF IInv, TypedTables, TypedLanes, outcome, pass
    <2>7. \A q \in Requests \ {r} : Same(q)
      BY <1>2, <2>2, <2>5 DEF Same, outcome
    <2>8. Agree(r)'
      BY <2>2, <2>5 DEF Agree, Box, Terminal
    <2>9. Claimed(r)' /\ Queried(r)' /\ Repeated(r)' /\ Returned(r)' /\ RecoveredOnce(r)' /\ Released(r)'
      BY <1>1, <1>2, <2>5, RowType
        DEF Claimed, Queried, Repeated, Returned, Match, RecoveredOnce, Released, Box, outcome
    <2>10. Calm(r)
      BY <1>1, <1>2, <2>5, RevType, Types DEF Calm, Box, Moving, outcome
    <2> QED
      BY <1>2, <2>5, <2>6, <2>7, <2>8, <2>9, <2>10, BesideStep DEF Local, Box, ActiveBoxes, pass
  <1> QED
    BY <1>3, <1>4 DEF Reserve

\* A step of a request without an outbox row writes the request only.
LEMMA BeforeBox ==
  ASSUME IInv, NEW r \in Requests, Box(r) = "none",
         UNCHANGED <<cause, retries, claim, query, outcome, pass, remote, generation>>,
         faults' \in 0..MaxFaults, prep' \in [Requests -> PrepSet], builders' \in [Requests -> [Builds -> 0..MaxBuilders]],
         \A q \in Requests \ {r} : prep'[q] = prep[q] /\ rows'[q] = rows[q],
         rows' \in [Requests -> RowSet], rows'[r].box = "none", rows'[r].attempt = "none",
         prep'[r].state # "published",
         rows'[r].request \in {"created", "preparing", "blocked"}
  PROVE  IInv'
  <1>1. TypedTables' /\ TypedLanes'
    BY DEF IInv, TypedTables, TypedLanes, outcome, pass
  <1>2. \A q \in Requests \ {r} : Same(q)
    BY DEF Same, outcome
  <1>3. Agree(r)'
    BY DEF Agree, Box, Terminal
  <1>4. Claimed(r)' /\ Queried(r)' /\ Repeated(r)' /\ Returned(r)' /\ RecoveredOnce(r)' /\ Released(r)'
    BY RowType DEF Claimed, Queried, Repeated, Returned, Match, RecoveredOnce, Released, Box, outcome
  <1>5. Calm(r)
    BY RevType, Types DEF Calm, Box, Moving, outcome
  <1> QED
    BY <1>1, <1>2, <1>3, <1>4, <1>5, BesideStep DEF Local, Box, ActiveBoxes, pass

\* No backend was found.
LEMMA StepNoBackend ==
  ASSUME IInv, NEW r \in Requests, NoBackend(r) PROVE IInv'
  <1>1. Box(r) = "none" /\ prep[r].state # "published" /\ rows[r].attempt = "none"
    BY Unattempted DEF NoBackend
  <1>2. "blocked" \in RequestStates /\ "none" \in AttemptStates /\ "none" \in Boxes
    BY DEF RequestStates, AttemptStates, Boxes
  <1>3. /\ rows' \in [Requests -> RowSet] /\ rows'[r].request = "blocked" /\ rows'[r].attempt = "none"
        /\ rows'[r].box = "none" /\ \A q \in Requests \ {r} : rows'[q] = rows[q]
    BY <1>2, WriteEff, Types DEF NoBackend
  <1>4. /\ UNCHANGED <<cause, retries, claim, query, outcome, pass, remote, generation>> /\ prep' = prep /\ builders' = builders
        /\ faults' \in 0..MaxFaults
    BY FaultType DEF NoBackend, intake
  <1> QED
    BY <1>1, <1>3, <1>4, Types, BeforeBox

\* A builder is done.
LEMMA StepFinished ==
  ASSUME IInv, NEW r \in Requests, NEW n \in Builds, Finished(r, n)
  PROVE  builders' \in [Requests -> [Builds -> 0..MaxBuilders]]
  <1>1. builders[r][n] \in 0..MaxBuilders
    BY Types
  <1>2. builders[r][n] - 1 \in 0..MaxBuilders
    BY <1>1 DEF Finished, MaxBuilders
  <1> QED
    BY <1>2, Types DEF Finished

\* A package could not be built.
LEMMA StepFailPreparation ==
  ASSUME IInv, NEW r \in Requests, NEW n \in Builds, FailPreparation(r, n) PROVE IInv'
  <1>1. /\ UNCHANGED <<cause, retries, claim, query, outcome, pass, remote, generation>>
        /\ faults' \in 0..MaxFaults /\ builders' \in [Requests -> [Builds -> 0..MaxBuilders]]
    BY FaultType, StepFinished DEF FailPreparation
  <1>2. CASE UNCHANGED <<prep, rows>>
    <2>1. TypedTables' /\ TypedLanes'
      BY <1>1, <1>2 DEF IInv, TypedTables, TypedLanes, outcome, pass
    <2>2. \A q \in Requests : Same(q)
      BY <1>1, <1>2 DEF Same, outcome
    <2>3. Local(r)' /\ Box(r)' = Box(r)
      BY <2>2, RowType, Kept DEF Same, Box
    <2>4. Calm(r)
      BY <2>2, RevType, Types DEF Same, Calm, Box
    <2> QED
      BY <1>1, <2>1, <2>2, <2>3, <2>4, BesideStep
  <1>3. CASE /\ Buildable(r, n) /\ prep' = [prep EXCEPT ![r].state = "failed", ![r].gen = generation]
             /\ rows' = [rows EXCEPT ![r].request = "blocked"]
    <2>1. Box(r) = "none" /\ rows[r].attempt = "none"
      BY <1>3, RowType DEF Buildable, Agree, Boxes, Terminal
    <2>2. generation \in 0..MaxGeneration
      BY Types
    <2>3. /\ prep' \in [Requests -> PrepSet] /\ prep'[r].state = "failed"
          /\ \A q \in Requests \ {r} : prep'[q] = prep[q]
      BY <1>3, <2>2, Types DEF PrepSet
    <2>4. "blocked" \in RequestStates
      BY DEF RequestStates
    <2>5. /\ rows' \in [Requests -> RowSet] /\ rows'[r].request = "blocked" /\ rows'[r].attempt = "none"
          /\ rows'[r].box = "none" /\ \A q \in Requests \ {r} : rows'[q] = rows[q]
      BY <1>3, <2>1, <2>4, Types DEF RowSet, Box
    <2> QED
      BY <1>1, <2>1, <2>3, <2>5, BeforeBox
  <1> QED
    BY <1>2, <1>3 DEF FailPreparation

\* A failed preparation is superseded.
LEMMA StepRetryPreparation ==
  ASSUME IInv, NEW r \in Requests, RetryPreparation(r) PROVE IInv'
  <1>1. /\ UNCHANGED <<cause, retries, claim, query, outcome, pass, remote, generation>> /\ rows' = rows /\ builders' = builders
        /\ faults' \in 0..MaxFaults /\ prep[r].state = "failed" /\ rows[r].request = "blocked"
        /\ prep' = [prep EXCEPT ![r].state = "superseded"]
    BY Types DEF RetryPreparation, queue
  <1>2. Box(r) = "none" /\ rows[r].attempt = "none" /\ rows[r].box = "none"
    BY <1>1, RowType DEF Agree, Boxes, Terminal
  <1>3. /\ prep' \in [Requests -> PrepSet] /\ prep'[r].state = "superseded"
        /\ \A q \in Requests \ {r} : prep'[q] = prep[q]
    BY <1>1, Types DEF PrepSet
  <1> QED
    BY <1>1, <1>2, <1>3, Types, BeforeBox

\* The attempt and its outbox row appear.
LEMMA StepPublishPreparation ==
  ASSUME IInv, NEW r \in Requests, NEW n \in Builds, PublishPreparation(r, n) PROVE IInv'
  <1>1. /\ UNCHANGED <<cause, retries, claim, query, outcome, pass, remote, generation, faults>>
        /\ builders' \in [Requests -> [Builds -> 0..MaxBuilders]]
    BY StepFinished DEF PublishPreparation
  <1>2. CASE UNCHANGED <<prep, rows>>
    <2>1. TypedTables' /\ TypedLanes'
      BY <1>1, <1>2 DEF IInv, TypedTables, TypedLanes, outcome, pass
    <2>2. \A q \in Requests : Same(q)
      BY <1>1, <1>2 DEF Same, outcome
    <2>3. Local(r)' /\ Box(r)' = Box(r)
      BY <2>2, RowType, Kept DEF Same, Box
    <2>4. Calm(r)
      BY <2>2, RevType, Types DEF Same, Calm, Box
    <2> QED
      BY <1>1, <2>1, <2>2, <2>3, <2>4, BesideStep
  <1>3. CASE /\ rows[r].attempt = "none" /\ prep' = [prep EXCEPT ![r].state = "published"]
             /\ Write(r, "routed", "prepared", "pending")
    <2>1. Box(r) = "none"
      BY <1>3, Unattempted
    <2>2. /\ prep' \in [Requests -> PrepSet] /\ prep'[r].state = "published"
          /\ \A q \in Requests \ {r} : prep'[q] = prep[q]
      BY <1>3, Types DEF PrepSet
    <2>3. "routed" \in RequestStates /\ "prepared" \in AttemptStates /\ "pending" \in Boxes
      BY DEF RequestStates, AttemptStates, Boxes
    <2>4. /\ rows' \in [Requests -> RowSet] /\ rows'[r].request = "routed" /\ rows'[r].attempt = "prepared"
          /\ rows'[r].box = "pending" /\ \A q \in Requests \ {r} : rows'[q] = rows[q]
      BY <1>3, <2>3, WriteEff, Types
    <2>5. TypedTables' /\ TypedLanes'
      BY <1>1, <2>2, <2>4 DEF IInv, TypedTables, TypedLanes, outcome, pass
    <2>6. \A q \in Requests \ {r} : Same(q)
      BY <1>1, <2>2, <2>4 DEF Same, outcome
    <2>7. Agree(r)'
      BY <2>2, <2>4 DEF Agree, Box, Terminal
    <2>8. Claimed(r)' /\ Queried(r)' /\ Repeated(r)' /\ Returned(r)' /\ RecoveredOnce(r)' /\ Released(r)'
      BY <1>1, <2>1, <2>4, RowType
        DEF Claimed, Queried, Repeated, Returned, Match, RecoveredOnce, Released, Box, Terminal, outcome
    <2>9. Calm(r)
      BY <1>1, <2>1, <2>4, RevType, Types DEF Calm, Box, Moving, outcome
    <2> QED
      BY <1>1, <2>4, <2>5, <2>6, <2>7, <2>8, <2>9, BesideStep DEF Local, Box, ActiveBoxes
  <1> QED
    BY <1>2, <1>3 DEF PublishPreparation

\* A lease runs out.
LEMMA StepLapse ==
  ASSUME IInv, NEW r \in Requests, Lapse(r) PROVE IInv'
  <1>1. /\ claim[r] = "live" /\ claim' = [claim EXCEPT ![r] = "lapsed"] /\ faults' \in 0..MaxFaults
        /\ UNCHANGED <<rows, cause, retries, intake, query, outcome, pass, remote, generation>>
    BY FaultType DEF Lapse
  <1>2. claim' \in [Requests -> {"none", "live", "lapsed"}] /\ claim'[r] = "lapsed" /\ \A q \in Requests \ {r} : claim'[q] = claim[q]
    BY <1>1, Types
  <1>3. TypedTables' /\ TypedLanes'
    BY <1>1, <1>2 DEF IInv, TypedTables, TypedLanes, intake, outcome, pass
  <1>4. \A q \in Requests \ {r} : Same(q)
    BY <1>1, <1>2 DEF Same, intake, outcome
  <1>5. Agree(r)' /\ Claimed(r)' /\ Queried(r)' /\ Repeated(r)' /\ Returned(r)' /\ RecoveredOnce(r)' /\ Released(r)'
    BY <1>1, <1>2, RowType
      DEF Agree, Claimed, Queried, Repeated, Returned, Match, RecoveredOnce, Released, Box, intake,
          outcome
  <1>6. Calm(r)
    BY <1>1, RevType, Types DEF Calm, Box, outcome
  <1> QED
    BY <1>1, <1>3, <1>4, <1>5, <1>6, BesideStep DEF Local, Box

\* The retry controller decides about a delivery.
LEMMA StepDecideRetry ==
  ASSUME IInv, NEW r \in Requests, DecideRetry(r) PROVE IInv'
  <1>1. /\ Box(r) = "decision-pending" /\ cause' = [cause EXCEPT ![r] = "none"]
        /\ UNCHANGED <<claim, intake, outcome, pass, remote, generation, faults>>
        /\ \/ Write(r, "uncertain", "uncertain", "uncertain") /\ UNCHANGED <<retries, query>>
           \/ Write(r, "failed", "failed", "failed") /\ UNCHANGED <<retries, query>>
           \/ Retryable(r) /\ RetryDelivery(r)
    BY DEF DecideRetry
  <1>2. cause' \in [Requests -> Causes]
    BY <1>1, Types DEF Causes
  <1>3. prep[r].state = "published" /\ claim[r] = "none" /\ \A v \in Revisions : returns[r][v] \notin Open
    BY <1>1, RowType DEF Agree, Claimed, Returned
  <1>4. ASSUME rows' \in [Requests -> RowSet],
               \A q \in Requests \ {r} : rows'[q] = rows[q] /\ query'[q] = query[q] /\ retries'[q] = retries[q],
               query' \in [Requests -> QuerySet], retries' \in [Requests -> 0..MaxRetries],
               \/ rows'[r] = [request |-> "uncertain", attempt |-> "uncertain", box |-> "uncertain"] /\ UNCHANGED <<retries, query>>
               \/ rows'[r] = [request |-> "failed", attempt |-> "failed", box |-> "failed"] /\ UNCHANGED <<retries, query>>
               \/ /\ rows'[r] = [request |-> "routed", attempt |-> "prepared", box |-> "retry"]
                  /\ retries'[r] > 0 /\ query'[r].gen = 0 /\ query'[r].answer = "none"
                  /\ query'[r].rev = 0
        PROVE  IInv'
    <2>1. TypedTables' /\ TypedLanes'
      BY <1>1, <1>2, <1>4 DEF IInv, TypedTables, TypedLanes, intake, outcome, pass
    <2>2. \A q \in Requests \ {r} : Same(q)
      BY <1>1, <1>4 DEF Same, intake, outcome
    <2>3. Agree(r)'
      BY <1>1, <1>3, <1>4 DEF Agree, Box, Terminal, intake
    <2>4. Claimed(r)' /\ Repeated(r)' /\ RecoveredOnce(r)' /\ Released(r)'
      BY <1>1, <1>3, <1>4, RowType DEF Claimed, Repeated, RecoveredOnce, Released, Box, outcome
    <2>5. Returned(r)'
      BY <1>1, <1>3, <1>4, RowType DEF Returned, Match, Box, Terminal, outcome
    <2>6. Queried(r)'
      <3>1. remote'[r].rev \in Nat
        BY <1>1, RevType, Types
      <3> QED
        BY <1>1, <1>4, <3>1, RowType DEF Queried, Box
    <2>7. Calm(r)
      BY <1>1, RevType, Types DEF Calm, Box, Moving, outcome
    <2>8. Box(r) \in ActiveBoxes
      BY <1>1 DEF ActiveBoxes
    <2> QED
      BY <1>1, <2>1, <2>2, <2>3, <2>4, <2>5, <2>6, <2>7, <2>8, BesideStep DEF Local
  <1>5. \A s \in {"uncertain", "failed"} : s \in RequestStates /\ s \in AttemptStates /\ s \in Boxes
    BY DEF RequestStates, AttemptStates, Boxes, Terminal
  <1>6. ASSUME NEW s \in {"uncertain", "failed"}, Write(r, s, s, s),
               UNCHANGED <<retries, query>> PROVE IInv'
    <2>1. /\ rows' \in [Requests -> RowSet] /\ \A q \in Requests \ {r} : rows'[q] = rows[q]
          /\ rows'[r] = [request |-> s, attempt |-> s, box |-> s]
      BY <1>5, <1>6, Types DEF Write, RowSet
    <2> QED
      BY <1>4, <1>6, <2>1, Types
  <1>7. CASE Retryable(r) /\ RetryDelivery(r)
    <2>1. "routed" \in RequestStates /\ "prepared" \in AttemptStates /\ "retry" \in Boxes
      BY DEF RequestStates, AttemptStates, Boxes
    <2>2. /\ rows' \in [Requests -> RowSet] /\ \A q \in Requests \ {r} : rows'[q] = rows[q]
          /\ rows'[r] = [request |-> "routed", attempt |-> "prepared", box |-> "retry"]
      BY <1>7, <2>1, Types DEF RetryDelivery, Write, RowSet
    <2>3. /\ query' \in [Requests -> QuerySet] /\ query'[r].gen = 0 /\ query'[r].answer = "none" /\ query'[r].rev = 0
          /\ \A q \in Requests \ {r} : query'[q] = query[q]
      BY <1>7, CloseEff, Types DEF RetryDelivery, ForgetQuery
    <2>4. retries[r] \in 0..MaxRetries /\ retries[r] < MaxRetries /\ retries' = [retries EXCEPT ![r] = @ + 1]
      BY <1>7, Types DEF Retryable, RetryDelivery
    <2>5. retries[r] + 1 \in 0..MaxRetries /\ retries[r] + 1 > 0
      BY <2>4, TransportAssumption
    <2>6. retries' \in [Requests -> 0..MaxRetries] /\ retries'[r] > 0 /\ \A q \in Requests \ {r} : retries'[q] = retries[q]
      BY <2>4, <2>5, Types
    <2> QED
      BY <1>4, <2>2, <2>3, <2>6
  <1> QED
    BY <1>1, <1>6, <1>7

\* What an update of a recovery does.
LEMMA MarkEff ==
  ASSUME IInv, NEW r \in Requests, NEW v \in Revisions, NEW s \in RecoveryStates,
         recovery' = [recovery EXCEPT ![r][v] = s]
  PROVE  /\ recovery' \in [Requests -> [Revisions -> RecoveryStates]] /\ recovery'[r][v] = s
         /\ \A w \in Revisions \ {v} : recovery'[r][w] = recovery[r][w]
         /\ \A q \in Requests \ {r} : recovery'[q] = recovery[q]
  BY Types

\* What an update of a return does.
LEMMA ReturnEff ==
  ASSUME IInv, NEW r \in Requests, NEW v \in Revisions, NEW s \in ReturnStates,
         returns' = [returns EXCEPT ![r][v] = s]
  PROVE  /\ returns' \in [Requests -> [Revisions -> ReturnStates]] /\ returns'[r][v] = s
         /\ \A w \in Revisions \ {v} : returns'[r][w] = returns[r][w]
         /\ \A q \in Requests \ {r} : returns'[q] = returns[q]
  BY Types

\* A recovery is given up.
LEMMA GiveUpEff ==
  ASSUME IInv, NEW r \in Requests, NEW v \in Revisions, GiveUp(r, v)
  PROVE  /\ returns' \in [Requests -> [Revisions -> ReturnStates]] /\ recovery' \in [Requests -> [Revisions -> RecoveryStates]]
         /\ returns'[r][v] = "recovery-unrecoverable" /\ recovery'[r][v] = "unrecoverable"
         /\ \A w \in Revisions \ {v} : returns'[r][w] = returns[r][w] /\ recovery'[r][w] = recovery[r][w]
         /\ \A q \in Requests \ {r} : returns'[q] = returns[q] /\ recovery'[q] = recovery[q]
  <1>1. "recovery-unrecoverable" \in ReturnStates /\ "unrecoverable" \in RecoveryStates
    BY DEF ReturnStates, RecoveryStates
  <1>2. recovery' = [recovery EXCEPT ![r][v] = "unrecoverable"]
    BY DEF GiveUp
  <1>3. returns' = [returns EXCEPT ![r][v] = "recovery-unrecoverable"]
    BY DEF GiveUp
  <1>4. /\ recovery' \in [Requests -> [Revisions -> RecoveryStates]] /\ recovery'[r][v] = "unrecoverable"
        /\ \A w \in Revisions \ {v} : recovery'[r][w] = recovery[r][w]
        /\ \A q \in Requests \ {r} : recovery'[q] = recovery[q]
    BY <1>1, <1>2, MarkEff
  <1>5. /\ returns' \in [Requests -> [Revisions -> ReturnStates]] /\ returns'[r][v] = "recovery-unrecoverable"
        /\ \A w \in Revisions \ {v} : returns'[r][w] = returns[r][w]
        /\ \A q \in Requests \ {r} : returns'[q] = returns[q]
    BY <1>1, <1>3, ReturnEff
  <1> QED
    BY <1>4, <1>5

\* A return is open: its row is returning, the other revision is closed.
LEMMA HeldReturn ==
  ASSUME IInv, NEW r \in Requests, NEW v \in Revisions, returns[r][v] \in Open
  PROVE  /\ Box(r) = "returning" /\ \A w \in Revisions \ {v} : returns[r][w] \notin Open
  BY RowType DEF Returned, Revisions

\* A verdict about a held return, on the row of the recovery alone.
LEMMA Verdict ==
  ASSUME IInv, NEW r \in Requests, NEW v \in Revisions, returns[r][v] = "recovery-decision-pending",
         UNCHANGED <<rows, claim, query, retries, prep, remote>>,
         returns' \in [Requests -> [Revisions -> ReturnStates]],
         recovery' \in [Requests -> [Revisions -> RecoveryStates]],
         \A w \in Revisions \ {v} : returns'[r][w] = returns[r][w] /\ recovery'[r][w] = recovery[r][w],
         \/ returns'[r][v] = "recovery-unrecoverable" /\ recovery'[r][v] = "unrecoverable"
         \/ returns'[r][v] = returns[r][v] /\ recovery'[r][v] \in Repairing /\ v = 1
  PROVE  Local(r)'
  <1>1. Agree(r)' /\ Claimed(r)' /\ Queried(r)' /\ Repeated(r)'
    BY RowType DEF Agree, Claimed, Queried, Repeated, Box
  <1>2. Box(r) = "returning" /\ \A w \in Revisions \ {v} : returns[r][w] \notin Open
    BY HeldReturn DEF Open
  <1>3. ASSUME NEW w \in Revisions PROVE Match(r, w)'
    <2>1. CASE w = v
      BY <2>1 DEF Match, Repairing, Repaired
    <2>2. CASE w # v
      BY <2>2, RowType DEF Match, Returned
    <2> QED
      BY <2>1, <2>2
  <1>4. Returned(r)'
    BY <1>2, <1>3, RowType DEF Returned, Open, Box, Revisions
  <1>5. RecoveredOnce(r)'
    <2>1. recovery[r][v] \notin Repaired
      BY RowType DEF Returned, Match
    <2> QED
      BY <2>1, RowType DEF RecoveredOnce, Revisions, Repairing
  <1>6. Released(r)'
    <2>1. remote[r] \in RemoteSet
      BY Types
    <2>2. remote[r].released \subseteq Revisions
      BY <2>1 DEF RemoteSet
    <2>3. v \notin remote[r].released
      BY RowType DEF Released
    <2>4. ASSUME NEW w \in remote[r].released
          PROVE  returns'[r][w] \in {"projected-ready", "recovery-unrecoverable", "acknowledged"}
      <3>1. w \in Revisions \ {v}
        BY <2>2, <2>3
      <3> QED
        BY <3>1, RowType DEF Released
    <2> QED
      BY <2>4 DEF Released
  <1> QED
    BY <1>1, <1>4, <1>5, <1>6 DEF Local

\* A recovery that is not settled holds its return.
LEMMA PendingRecovery ==
  ASSUME IInv, NEW r \in Requests, NEW v \in Revisions,
         recovery[r][v] \in {"decision-pending"} \cup Repairing
  PROVE  returns[r][v] = "recovery-decision-pending" /\ (recovery[r][v] = "decision-pending" => v \notin remote[r].repaired)
         /\ (recovery[r][v] \in Repairing => v = 1)
  BY RowType DEF Returned, Match, RecoveredOnce, Revisions, Repairing, Repaired

\* The retry controller decides about a recovery.
LEMMA StepDecideRecovery ==
  ASSUME IInv, NEW r \in Requests, NEW v \in Revisions,
         DecideRecovery(r, v) \/ RefuseRecovery(r, v) PROVE IInv'
  <1>1. /\ recovery[r][v] = "decision-pending" /\ UNCHANGED <<queue, intake, query, pass, remote, generation>>
        /\ faults' \in 0..MaxFaults
        /\ \/ GiveUp(r, v)
           \/ ~Spent(r, v) /\ recovery' = [recovery EXCEPT ![r][v] = "authorized"] /\ UNCHANGED returns
    BY FaultType, Types DEF DecideRecovery, RefuseRecovery
  <1>2. returns[r][v] = "recovery-decision-pending" /\ v \notin remote[r].repaired
    BY <1>1, PendingRecovery
  <1>3. v = 2 => Spent(r, v)
    BY <1>2, RowType DEF RecoveredOnce, Spent, Revisions, Repaired
  <1>4. /\ returns' \in [Requests -> [Revisions -> ReturnStates]] /\ recovery' \in [Requests -> [Revisions -> RecoveryStates]]
        /\ \A w \in Revisions \ {v} : returns'[r][w] = returns[r][w] /\ recovery'[r][w] = recovery[r][w]
        /\ \A q \in Requests \ {r} : returns'[q] = returns[q] /\ recovery'[q] = recovery[q]
        /\ \/ returns'[r][v] = "recovery-unrecoverable" /\ recovery'[r][v] = "unrecoverable"
           \/ returns'[r][v] = returns[r][v] /\ recovery'[r][v] \in Repairing /\ v = 1
    <2>1. CASE GiveUp(r, v)
      BY <2>1, GiveUpEff
    <2>2. CASE ~Spent(r, v) /\ recovery' = [recovery EXCEPT ![r][v] = "authorized"] /\ UNCHANGED returns
      <3>1. "authorized" \in RecoveryStates /\ "authorized" \in Repairing
        BY DEF RecoveryStates, Dispatchable, Repairing
      <3> QED
        BY <1>3, <2>2, <3>1, MarkEff, Types DEF Revisions
    <2> QED
      BY <1>1, <2>1, <2>2
  <1>5. Local(r)'
    BY <1>1, <1>2, <1>4, Verdict DEF queue, intake
  <1>6. TypedTables' /\ TypedLanes'
    BY <1>1, <1>4 DEF IInv, TypedTables, TypedLanes, queue, intake, pass
  <1>7. \A q \in Requests \ {r} : Same(q)
    BY <1>1, <1>4 DEF Same, queue, intake
  <1>8. Calm(r)
    BY <1>1, <1>2, <1>4, RevType, Types DEF Calm, Box, queue, Repairing
  <1> QED
    BY <1>1, <1>5, <1>6, <1>7, <1>8, BesideStep DEF Box, queue

\* The endpoint answers a query.
LEMMA StepAnswer ==
  ASSUME IInv, NEW r \in Requests, Answer(r) PROVE IInv'
  <1> DEFINE a == IF ~remote[r].known THEN "not-found" ELSE IF remote[r].rev = 0 THEN "accepted" ELSE "result"
  <1>1. /\ query[r].gen # 0 /\ query' = [query EXCEPT ![r].answer = a, ![r].rev = remote[r].rev]
        /\ UNCHANGED <<queue, intake, outcome, pass, remote, generation, faults>>
    BY DEF Answer
  <1>2. a \in {"none", "not-found", "accepted", "result"} /\ (a = "result" => remote[r].rev # 0) /\ remote[r].rev \in 0..2
    <2>1. remote[r] \in RemoteSet
      BY Types
    <2> QED
      BY <2>1 DEF RemoteSet
  <1> HIDE DEF a
  <1>3. /\ query' \in [Requests -> QuerySet] /\ query'[r].gen = query[r].gen /\ query'[r].answer = a /\ query'[r].rev = remote[r].rev
        /\ \A q \in Requests \ {r} : query'[q] = query[q]
    BY <1>1, <1>2, Types DEF QuerySet
  <1>4. TypedTables' /\ TypedLanes'
    BY <1>1, <1>3 DEF IInv, TypedTables, TypedLanes, queue, intake, outcome, pass
  <1>5. \A q \in Requests \ {r} : Same(q)
    BY <1>1, <1>3 DEF Same, queue, intake, outcome
  <1>6. Agree(r)' /\ Claimed(r)' /\ Repeated(r)' /\ Returned(r)' /\ RecoveredOnce(r)' /\ Released(r)'
    BY <1>1, RowType
      DEF Agree, Claimed, Repeated, Returned, Match, RecoveredOnce, Released, Box, queue, intake,
          outcome
  <1>7. Queried(r)'
    BY <1>1, <1>2, <1>3, RowType, RevType, Types DEF Queried, Box, queue
  <1>8. Calm(r)
    BY <1>1, RevType, Types DEF Calm, Box, queue, outcome
  <1> QED
    BY <1>1, <1>4, <1>5, <1>6, <1>7, <1>8, BesideStep DEF Local, Box, queue

\* The endpoint learns of a request or finishes it.
LEMMA StepRemote ==
  ASSUME IInv, NEW r \in Requests, UNCHANGED <<queue, intake, query, outcome, pass, generation, faults>>,
         remote' \in [Requests -> RemoteSet], \A q \in Requests \ {r} : remote'[q] = remote[q],
         remote[r].rev <= remote'[r].rev, remote'[r].repaired = remote[r].repaired, remote'[r].released = remote[r].released,
         remote'[r].rev = 2 => 1 \in remote[r].repaired,
         remote'[r].flight \/ remote'[r].known => remote[r].flight \/ remote[r].known
  PROVE  IInv'
  <1>1. TypedTables' /\ TypedLanes'
    BY DEF IInv, TypedTables, TypedLanes, queue, intake, outcome, pass
  <1>2. \A q \in Requests \ {r} : Same(q)
    BY DEF Same, queue, intake, outcome
  <1>3. Agree(r)' /\ Claimed(r)' /\ Repeated(r)' /\ Returned(r)' /\ RecoveredOnce(r)' /\ Released(r)'
    BY RowType
      DEF Agree, Claimed, Repeated, Returned, Match, RecoveredOnce, Released, Box, queue, intake,
          outcome
  <1>4. Queried(r)'
    <2>1. query[r].rev \in Nat /\ remote[r].rev \in Nat
      <3>1. query[r] \in QuerySet
        BY Types
      <3>2. query[r].rev \in 0..2
        BY <3>1 DEF QuerySet
      <3> QED
        BY <3>2, RevType, Types
    <2>2. remote'[r].rev \in Nat
      <3>1. remote'[r] \in RemoteSet
        OBVIOUS
      <3>2. remote'[r].rev \in 0..2
        BY <3>1 DEF RemoteSet
      <3> QED
        BY <3>2
    <2> QED
      BY <2>1, <2>2, RowType DEF Queried, Box, queue
  <1>5. Calm(r)
    BY RevType, Types DEF Calm, Box, queue, outcome
  <1> QED
    BY <1>1, <1>2, <1>3, <1>4, <1>5, BesideStep DEF Local, Box, queue

\* A publication lands, or the endpoint is done.
LEMMA StepEndpoint ==
  ASSUME IInv, NEW r \in Requests, Land(r) \/ Finish(r) PROVE IInv'
  <1>1. UNCHANGED <<queue, intake, query, outcome, pass, generation, faults>>
    BY DEF Land, Finish
  <1>2. remote \in [Requests -> RemoteSet] /\ remote[r] \in RemoteSet /\ remote[r].rev \in Nat
    BY RevType, Types
  <1>3. CASE Land(r)
    <2>1. /\ remote' \in [Requests -> RemoteSet] /\ \A q \in Requests \ {r} : remote'[q] = remote[q]
          /\ remote'[r].rev = remote[r].rev /\ remote'[r].repaired = remote[r].repaired
          /\ remote'[r].released = remote[r].released
          /\ remote[r].flight
      BY <1>2, <1>3 DEF Land, RemoteSet
    <2>2. remote'[r].rev = 2 => 1 \in remote[r].repaired
      BY <2>1, RowType DEF RecoveredOnce
    <2> QED
      BY <1>1, <1>2, <2>1, <2>2, StepRemote
  <1>4. CASE Finish(r)
    <2>1. PICK k \in {1, 2} : /\ remote' = [remote EXCEPT ![r].rev = k] /\ remote[r].rev <= k /\ remote[r].known
                              /\ k = 2 => remote[r].rev \in remote[r].repaired \ {2}
      BY <1>2, <1>4 DEF Finish, RemoteSet
    <2>2. /\ remote' \in [Requests -> RemoteSet] /\ \A q \in Requests \ {r} : remote'[q] = remote[q]
          /\ remote'[r].rev = k /\ remote'[r].repaired = remote[r].repaired
          /\ remote'[r].released = remote[r].released
      BY <1>2, <2>1 DEF RemoteSet
    <2>3. k = 2 => 1 \in remote[r].repaired
      BY <1>2, <2>1 DEF RemoteSet, Revisions
    <2> QED
      BY <1>1, <2>1, <2>2, <2>3, StepRemote
  <1> QED
    BY <1>3, <1>4

\* A lane is within its type when it is closed and when it opens.
LEMMA QuietType ==
  /\ Quiet \in LaneSet
  /\ \A r \in Requests : \A v \in Revisions :
       /\ [Quiet EXCEPT !.on = r, !.pc = "marked"] \in LaneSet
       /\ \A pc \in {"ack", "recover"} : [Quiet EXCEPT !.on = r, !.rev = v, !.pc = pc] \in LaneSet
       /\ \A b \in Pollable : [Quiet EXCEPT !.on = r, !.pc = "asked", !.seen = b] \in LaneSet
  BY DEF Quiet, LaneSet, LanePCs, Revisions

\* A closed lane works on no request.
LEMMA QuietOff == Quiet.on = NoRequest /\ Quiet.pc = "idle" /\ NoRequest \notin Requests
  BY TransportAssumption DEF Quiet

\* A row the ingress lane holds: the poll lane is elsewhere, the back lane closed.
LEMMA IngressLanes ==
  ASSUME IInv, NEW r \in held, poll' = poll, back' = back, IngressOK',
         \A q \in Requests \ {r} : Same(q)
  PROVE  LanesOK'
  <1>1. r \in Requests /\ NoRequest \notin Requests /\ Box(r) \in {"claimed", "sending"}
    BY Types, TransportAssumption DEF IInv, LanesOK, IngressOK
  <1>2. poll.on # r /\ poll.on \in Requests \cup {NoRequest}
    BY <1>1 DEF IInv, TypedLanes, LaneSet, LanesOK, PollOK, Pollable
  <1>3. back = Quiet
    BY DEF IInv, LanesOK, BackOK
  <1>4. PollOK'
    BY <1>2, <1>3 DEF IInv, LanesOK, PollOK, Same, Box
  <1>5. BackOK'
    BY <1>3, QuietOff DEF BackOK
  <1> QED
    BY <1>4, <1>5 DEF LanesOK

\* mark_transport_sending.
LEMMA StepMarkSending ==
  ASSUME IInv, NEW r \in Requests, MarkSending(r) PROVE IInv'
  <1>1. /\ ingress = Quiet /\ r \in held /\ poll' = poll /\ back' = back
        /\ UNCHANGED <<cause, retries, claim, intake, query, outcome, remote, generation, faults>>
    BY DEF MarkSending
  <1>2. Box(r) = "claimed"
    BY <1>1, QuietOff DEF IInv, LanesOK, IngressOK
  <1>3. CASE Move(r, "sent", "sending") /\ ingress' = [Quiet EXCEPT !.on = r, !.pc = "marked"] /\ UNCHANGED held
    <2>1. "sent" \in AttemptStates /\ "sending" \in Boxes
      BY DEF AttemptStates, Boxes
    <2>2. /\ rows' \in [Requests -> RowSet] /\ rows'[r].request = rows[r].request /\ rows'[r].attempt = "sent"
          /\ rows'[r].box = "sending" /\ \A q \in Requests \ {r} : rows'[q] = rows[q]
      BY <1>3, <2>1, MoveEff, Types
    <2>3. ingress' \in LaneSet /\ ingress'.on = r /\ ingress'.pc = "marked"
      <3>1. [Quiet EXCEPT !.on = r, !.pc = "marked"].on = r /\ [Quiet EXCEPT !.on = r, !.pc = "marked"].pc = "marked"
        BY DEF Quiet
      <3>2. 1 \in Revisions
        BY DEF Revisions
      <3> QED
        BY <1>3, <3>1, <3>2, QuietType
    <2>4. TypedTables' /\ TypedLanes'
      BY <1>1, <1>3, <2>2, <2>3 DEF IInv, TypedTables, TypedLanes, intake, outcome
    <2>5. \A q \in Requests \ {r} : Same(q)
      BY <1>1, <2>2 DEF Same, intake, outcome
    <2>6. Agree(r)' /\ Claimed(r)' /\ Queried(r)' /\ Repeated(r)' /\ Returned(r)' /\ RecoveredOnce(r)' /\ Released(r)'
      BY <1>1, <1>2, <2>2, RowType
        DEF Agree, Claimed, Queried, Repeated, Returned, Match, RecoveredOnce, Released, Box,
            intake, outcome, Terminal
    <2>7. IngressOK'
      <3>1. \A q \in held : q # r => Box(q)' = "claimed"
        BY <1>1, <2>5, QuietOff, Types DEF IInv, LanesOK, IngressOK, Same, Box
      <3> QED
        BY <1>1, <1>3, <2>2, <2>3, <3>1, QuietOff DEF IngressOK, Box
    <2>8. LanesOK'
      BY <1>1, <2>5, <2>7, IngressLanes
    <2> QED
      BY <1>2, <2>4, <2>5, <2>6, <2>8, RowStep DEF Local, ActiveBoxes
  <1>4. CASE Drop(r) /\ UNCHANGED rows
    <2>1. held' = held \ {r} /\ ingress' = Quiet
      BY <1>4 DEF Drop
    <2>2. TypedTables' /\ TypedLanes'
      BY <1>1, <1>4, <2>1, QuietType DEF IInv, TypedTables, TypedLanes, intake, outcome
    <2>3. \A q \in Requests : Same(q)
      BY <1>1, <1>4 DEF Same, intake, outcome
    <2>4. Local(r)' /\ Box(r)' = Box(r)
      BY <2>3, RowType, Kept DEF Same, Box
    <2>5. IngressOK'
      BY <1>1, <2>1, <2>3, QuietOff, Types DEF IInv, LanesOK, IngressOK, Same, Box
    <2>6. LanesOK'
      BY <1>1, <2>3, <2>5, IngressLanes
    <2> QED
      BY <2>2, <2>3, <2>4, <2>6, RowStep
  <1> QED
    BY <1>3, <1>4 DEF MarkSending

\* What the ingress lane is doing.
LEMMA IngressAt ==
  ASSUME IInv, NEW r \in Requests, ingress.on = r
  PROVE  r \in held /\ Box(r) = "sending" /\ \A q \in held \ {r} : Box(q) = "claimed"
  BY TransportAssumption DEF IInv, LanesOK, IngressOK

\* The file leaves.
LEMMA StepPublish ==
  ASSUME IInv, NEW r \in Requests, Publish(r) PROVE IInv'
  <1>1. /\ ingress.on = r /\ ingress' = [ingress EXCEPT !.pc = "out"] /\ remote' = [remote EXCEPT ![r].flight = TRUE]
        /\ held' = held /\ poll' = poll /\ back' = back
        /\ UNCHANGED <<queue, intake, query, outcome, generation, faults>>
    BY DEF Publish
  <1>2. r \in held /\ Box(r) = "sending" /\ \A q \in held \ {r} : Box(q) = "claimed"
    BY <1>1, IngressAt
  <1>3. ingress' \in LaneSet /\ ingress'.on = r /\ ingress'.pc = "out"
    BY <1>1 DEF IInv, TypedLanes, LaneSet, LanePCs
  <1>4. /\ remote' \in [Requests -> RemoteSet] /\ remote'[r].rev = remote[r].rev
        /\ remote'[r].repaired = remote[r].repaired /\ remote'[r].released = remote[r].released
        /\ \A q \in Requests \ {r} : remote'[q] = remote[q]
    <2>1. remote \in [Requests -> RemoteSet] /\ remote[r] \in RemoteSet
      BY Types
    <2>2. [remote[r] EXCEPT !.flight = TRUE] \in RemoteSet
      BY <2>1 DEF RemoteSet
    <2>3. remote' = [remote EXCEPT ![r] = [remote[r] EXCEPT !.flight = TRUE]]
      BY <1>1
    <2> QED
      BY <2>1, <2>2, <2>3 DEF RemoteSet
  <1>5. TypedTables' /\ TypedLanes'
    BY <1>1, <1>3, <1>4 DEF IInv, TypedTables, TypedLanes, queue, intake, outcome
  <1>6. \A q \in Requests \ {r} : Same(q)
    BY <1>1, <1>4 DEF Same, queue, intake, outcome
  <1>7. Agree(r)' /\ Claimed(r)' /\ Queried(r)' /\ Repeated(r)' /\ Returned(r)' /\ RecoveredOnce(r)' /\ Released(r)'
    BY <1>1, <1>2, <1>4, RowType
      DEF Agree, Claimed, Queried, Repeated, Returned, Match, RecoveredOnce, Released, Box, queue,
          intake, outcome
  <1>8. IngressOK'
    <2>1. rows' = rows
      BY <1>1 DEF queue
    <2> QED
      BY <1>1, <1>2, <1>3, <2>1, TransportAssumption DEF IngressOK, Box
  <1>9. LanesOK'
    BY <1>1, <1>2, <1>6, <1>8, IngressLanes
  <1> QED
    BY <1>1, <1>5, <1>6, <1>7, <1>9, RowStep DEF Local, Box, queue

\* record_transport_delivery, with its claim and without.
LEMMA StepDelivered ==
  ASSUME IInv, NEW r \in Requests, NEW box \in {"accepted", "uncertain", "decision-pending"},
         NEW why \in Causes,
         ingress.on = r, Delivered(r, box, why), faults' \in 0..MaxFaults, remote' \in [Requests -> RemoteSet],
         remote'[r].rev = remote[r].rev, remote'[r].repaired = remote[r].repaired,
         remote'[r].released = remote[r].released, \A q \in Requests \ {r} : remote'[q] = remote[q]
  PROVE  IInv'
  <1>1. /\ held' = held \ {r} /\ ingress' = Quiet /\ poll' = poll /\ back' = back
        /\ UNCHANGED <<intake, outcome, generation>>
    BY DEF Delivered, Drop
  <1>2. r \in held /\ Box(r) = "sending" /\ \A q \in held \ {r} : Box(q) = "claimed"
    BY IngressAt
  <1>3. ASSUME \A q \in Requests \ {r} : Same(q) PROVE LanesOK'
    <2>1. IngressOK'
      BY <1>1, <1>2, <1>3, QuietOff, Types DEF IngressOK, Same, Box
    <2> QED
      BY <1>1, <1>2, <1>3, <2>1, IngressLanes
  <1>4. CASE UNCHANGED <<queue, query>>
    <2>1. TypedTables' /\ TypedLanes'
      BY <1>1, <1>4, QuietType DEF IInv, TypedTables, TypedLanes, queue, intake, outcome
    <2>2. \A q \in Requests \ {r} : Same(q)
      BY <1>1, <1>4 DEF Same, queue, intake, outcome
    <2>3. Agree(r)' /\ Claimed(r)' /\ Queried(r)' /\ Repeated(r)' /\ Returned(r)' /\ RecoveredOnce(r)' /\ Released(r)'
      BY <1>1, <1>2, <1>4, RowType
        DEF Agree, Claimed, Queried, Repeated, Returned, Match, RecoveredOnce, Released, Box, queue,
            intake, outcome
    <2> QED
      BY <1>2, <1>3, <2>1, <2>2, <2>3, RowStep DEF Local, ActiveBoxes
  <1>5. CASE /\ \/ box = "accepted" /\ Move(r, "accepted", "accepted") /\ CloseQuery(r)
                \/ box = "uncertain" /\ Move(r, "uncertain", "uncertain") /\ UNCHANGED query
                \/ /\ box = "decision-pending" /\ UNCHANGED query
                   /\ Write(r, "retry-decision-pending", "retry-decision-pending", box)
             /\ cause' = [cause EXCEPT ![r] = why] /\ Unclaim(r) /\ UNCHANGED retries
    <2>1. "retry-decision-pending" \in RequestStates \cap AttemptStates /\ {"accepted", "uncertain"} \subseteq AttemptStates \cap Boxes
          /\ "decision-pending" \in Boxes
      BY DEF RequestStates, AttemptStates, Boxes
    <2>2. /\ rows' \in [Requests -> RowSet] /\ \A q \in Requests \ {r} : rows'[q] = rows[q]
          /\ rows'[r].box \in {"accepted", "uncertain", "decision-pending"}
          /\ rows'[r].box = "decision-pending" => /\ rows'[r].request = "retry-decision-pending"
                                                  /\ rows'[r].attempt = "retry-decision-pending"
          /\ rows'[r].box # "decision-pending" => rows'[r].request = rows[r].request /\ rows'[r].attempt = rows'[r].box
      <3>1. CASE box = "decision-pending"
        BY <1>5, <2>1, <3>1, WriteEff, Types
      <3>2. CASE box # "decision-pending"
        BY <1>5, <2>1, <3>2, MoveEff, Types
      <3> QED
        BY <3>1, <3>2
    <2>3. /\ query' \in [Requests -> QuerySet] /\ \A q \in Requests \ {r} : query'[q] = query[q]
          /\ query'[r] = query[r] \/ (query'[r].gen = 0 /\ query'[r].answer = "none" /\ query'[r].rev = 0)
      <3>1. CASE CloseQuery(r)
        BY <3>1, CloseEff, Types
      <3>2. CASE UNCHANGED query
        BY <3>2, Types
      <3> QED
        BY <1>5, <3>1, <3>2
    <2>4. claim' \in [Requests -> {"none", "live", "lapsed"}] /\ claim'[r] = "none" /\ \A q \in Requests \ {r} : claim'[q] = claim[q]
      BY <1>5, Types DEF Unclaim
    <2>5. cause' \in [Requests -> Causes]
      BY <1>5, Types
    <2>6. TypedTables' /\ TypedLanes'
      BY <1>1, <1>5, <2>2, <2>3, <2>4, <2>5, QuietType DEF IInv, TypedTables, TypedLanes, intake, outcome
    <2>7. \A q \in Requests \ {r} : Same(q)
      BY <1>1, <1>5, <2>2, <2>3, <2>4 DEF Same, intake, outcome
    <2>8. Agree(r)'
      BY <1>1, <1>2, <2>2, RowType DEF Agree, Box, Terminal, intake
    <2>9. Queried(r)'
      BY <2>2, <2>3, <1>2, RowType, RevType, Types DEF Queried, Box
    <2>10. Claimed(r)' /\ Repeated(r)' /\ Returned(r)' /\ RecoveredOnce(r)' /\ Released(r)'
      BY <1>1, <1>2, <2>2, <2>4, RowType
        DEF Claimed, Repeated, Returned, Match, RecoveredOnce, Released, Box, Terminal, intake, outcome
    <2>11. LanesOK' /\ Box(r) \in ActiveBoxes
      BY <1>2, <1>3, <2>7 DEF ActiveBoxes
    <2> QED
      BY <2>6, <2>7, <2>8, <2>9, <2>10, <2>11, RowStep DEF Local
  <1> QED
    BY <1>4, <1>5 DEF Delivered

\* A send fails, is accepted or refused.
LEMMA StepSent ==
  ASSUME IInv, NEW r \in Requests, SendFails(r) \/ SendAccepted(r) \/ SendRefused(r) PROVE IInv'
  <1>1. ingress.on = r /\ faults' \in 0..MaxFaults /\ {"none", "unknown", "unpublished", "known"} \subseteq Causes
    BY FaultType DEF SendFails, SendAccepted, SendRefused, Sending, Causes
  <1>2. CASE SendFails(r)
    <2>1. PICK box \in {"uncertain", "decision-pending"} : \E why \in Causes : Delivered(r, box, why) /\ UNCHANGED remote
      BY <1>1, <1>2 DEF SendFails
    <2> QED
      BY <1>1, <2>1, StepDelivered, Types
  <1>3. CASE SendAccepted(r)
    BY <1>1, <1>3, StepDelivered, Types DEF SendAccepted
  <1>4. CASE SendRefused(r)
    <2>1. /\ remote' \in [Requests -> RemoteSet] /\ remote'[r].rev = remote[r].rev
          /\ remote'[r].repaired = remote[r].repaired /\ remote'[r].released = remote[r].released
          /\ \A q \in Requests \ {r} : remote'[q] = remote[q]
      BY <1>4, Types DEF SendRefused, RemoteSet
    <2> QED
      BY <1>1, <1>4, <2>1, StepDelivered DEF SendRefused
  <1> QED
    BY <1>2, <1>3, <1>4

\* A row the poll lane looks at: the ingress lane does not hold it, the back lane is closed.
LEMMA PollLanes ==
  ASSUME IInv, NEW r \in Requests, back = Quiet, Box(r) \in {"accepted", "uncertain", "returning"},
         held' = held, ingress' = ingress, back' = back, PollOK',
         \A q \in Requests \ {r} : Same(q)
  PROVE  LanesOK'
  <1>1. r \notin held /\ ingress.on # r /\ held \subseteq Requests
    BY TransportAssumption, Types DEF IInv, LanesOK, IngressOK
  <1>2. IngressOK'
    BY <1>1 DEF IInv, LanesOK, IngressOK, Same, Box
  <1>3. BackOK'
    BY QuietOff DEF BackOK
  <1> QED
    BY <1>2, <1>3 DEF LanesOK

\* reserve_transport_query.
LEMMA StepAsk ==
  ASSUME IInv, NEW r \in Requests, Ask(r) PROVE IInv'
  <1>1. /\ Box(r) \in Pollable /\ back = Quiet
        /\ poll' = [Quiet EXCEPT !.on = r, !.pc = "asked", !.seen = Box(r)]
        /\ query' = query \/ query' = [query EXCEPT ![r] = [NoQuery EXCEPT !.gen = generation]]
        /\ held' = held /\ ingress' = ingress /\ back' = back
        /\ UNCHANGED <<queue, intake, outcome, remote, generation, faults>>
    BY DEF Ask, BackClosed
  <1>2. poll' \in LaneSet /\ poll'.on = r /\ poll'.pc = "asked" /\ poll'.seen = Box(r)
    <2>1. 1 \in Revisions
      BY DEF Revisions
    <2>2. [Quiet EXCEPT !.on = r, !.pc = "asked", !.seen = Box(r)] \in LaneSet
      BY <1>1, <2>1, QuietType
    <2> QED
      BY <1>1, <2>2 DEF Quiet
  <1>3. /\ query' \in [Requests -> QuerySet] /\ \A q \in Requests \ {r} : query'[q] = query[q]
        /\ query'[r] = query[r] \/ (query'[r].answer = "none" /\ query'[r].rev = 0)
    <2>1. generation \in 0..MaxGeneration
      BY Types
    <2>2. [NoQuery EXCEPT !.gen = generation] \in QuerySet /\ [NoQuery EXCEPT !.gen = generation].answer = "none"
          /\ [NoQuery EXCEPT !.gen = generation].rev = 0
      BY <2>1 DEF NoQuery, QuerySet
    <2> QED
      BY <1>1, <2>2, Types
  <1>4. TypedTables' /\ TypedLanes'
    BY <1>1, <1>2, <1>3 DEF IInv, TypedTables, TypedLanes, queue, intake, outcome
  <1>5. \A q \in Requests \ {r} : Same(q)
    BY <1>1, <1>3 DEF Same, queue, intake, outcome
  <1>6. Agree(r)' /\ Claimed(r)' /\ Repeated(r)' /\ Returned(r)' /\ RecoveredOnce(r)' /\ Released(r)'
    BY <1>1, RowType
      DEF Agree, Claimed, Repeated, Returned, Match, RecoveredOnce, Released, Box, queue, intake,
          outcome
  <1>7. Queried(r)'
    BY <1>1, <1>3, RowType, RevType, Types DEF Queried, Box, queue, Pollable
  <1>8. Box(r)' = Box(r)
    BY <1>1 DEF Box, queue
  <1>9. PollOK'
    BY <1>1, <1>2, <1>8, TransportAssumption DEF PollOK
  <1>10. LanesOK'
    BY <1>1, <1>5, <1>9, PollLanes DEF Pollable
  <1> QED
    BY <1>4, <1>5, <1>6, <1>7, <1>8, <1>10, RowStep DEF Local

\* What the poll lane is doing.
LEMMA PollAt ==
  ASSUME IInv, NEW r \in Requests, poll.on = r
  PROVE  /\ back = Quiet
         /\ poll.pc = "asked" => poll.seen \in Pollable /\ Box(r) = poll.seen
         /\ poll.pc = "result" => Box(r) = "accepted" /\ poll.rev <= remote[r].rev
         /\ poll.pc = "done" => Box(r) \in {"accepted", "returning"}
         /\ poll.pc \in {"asked", "result", "done"} /\ poll \in LaneSet
  BY TransportAssumption DEF IInv, TypedLanes, LanesOK, PollOK

\* record_transport_query_failure.
LEMMA StepQueryFails ==
  ASSUME IInv, NEW r \in Requests, NEW why \in Causes, poll.on = r, poll.pc = "asked", QueryFails(r, why),
         faults' \in 0..MaxFaults
  PROVE  IInv'
  <1>1. poll.on = r /\ poll.pc = "asked" /\ poll.seen = "uncertain"
    BY DEF QueryFails
  <1>2. Box(r) = "uncertain" /\ back = Quiet
    BY <1>1, PollAt
  <1>3. /\ Write(r, "retry-decision-pending", "retry-decision-pending", "decision-pending")
        /\ cause' = [cause EXCEPT ![r] = why] /\ poll' = Quiet
        /\ UNCHANGED <<claim, query, outcome, retries, intake, remote, generation>>
        /\ held' = held /\ ingress' = ingress /\ back' = back
    BY <1>2 DEF QueryFails, PollEnds, PollOthers
  <1>4. "retry-decision-pending" \in RequestStates \cap AttemptStates /\ "decision-pending" \in Boxes
    BY DEF RequestStates, AttemptStates, Boxes
  <1>5. /\ rows' \in [Requests -> RowSet] /\ rows'[r].request = "retry-decision-pending"
        /\ rows'[r].attempt = "retry-decision-pending" /\ rows'[r].box = "decision-pending"
        /\ \A q \in Requests \ {r} : rows'[q] = rows[q]
    BY <1>3, <1>4, WriteEff, Types
  <1>6. cause' \in [Requests -> Causes]
    BY <1>3, Types
  <1>7. TypedTables' /\ TypedLanes'
    BY <1>3, <1>5, <1>6, QuietType DEF IInv, TypedTables, TypedLanes, intake, outcome
  <1>8. \A q \in Requests \ {r} : Same(q)
    BY <1>3, <1>5 DEF Same, intake, outcome
  <1>9. Agree(r)'
    BY <1>2, <1>3, <1>5, RowType DEF Agree, Box, Terminal, intake
  <1>10. Claimed(r)' /\ Queried(r)' /\ Repeated(r)' /\ Returned(r)' /\ RecoveredOnce(r)' /\ Released(r)'
    BY <1>2, <1>3, <1>5, RowType
      DEF Claimed, Queried, Repeated, Returned, Match, RecoveredOnce, Released, Box, Terminal, outcome
  <1>11. PollOK'
    BY <1>3, QuietOff DEF PollOK
  <1>12. LanesOK'
    BY <1>2, <1>3, <1>8, <1>11, PollLanes
  <1> QED
    BY <1>2, <1>7, <1>8, <1>9, <1>10, <1>12, RowStep DEF Local, ActiveBoxes

\* A step of the poll lane that writes no row but the query, if that.
LEMMA PollOnly ==
  ASSUME IInv, NEW r \in Requests, poll.on = r, poll' = Quiet,
         UNCHANGED <<queue, intake, outcome, remote, generation>>,
         held' = held, ingress' = ingress, back' = back, faults' \in 0..MaxFaults, UNCHANGED query \/ CloseQuery(r)
  PROVE  IInv'
  <1>1. back = Quiet /\ Box(r) \in {"accepted", "uncertain", "returning"}
    BY PollAt DEF Pollable
  <1>2. /\ query' \in [Requests -> QuerySet] /\ \A q \in Requests \ {r} : query'[q] = query[q]
        /\ query'[r] = query[r] \/ (query'[r].gen = 0 /\ query'[r].answer = "none" /\ query'[r].rev = 0)
    <2>1. CASE CloseQuery(r)
      BY <2>1, CloseEff, Types
    <2>2. CASE UNCHANGED query
      BY <2>2, Types
    <2> QED
      BY <2>1, <2>2
  <1>3. TypedTables' /\ TypedLanes'
    BY <1>2, QuietType DEF IInv, TypedTables, TypedLanes, queue, intake, outcome
  <1>4. \A q \in Requests \ {r} : Same(q)
    BY <1>2 DEF Same, queue, intake, outcome
  <1>5. Agree(r)' /\ Claimed(r)' /\ Repeated(r)' /\ Returned(r)' /\ RecoveredOnce(r)' /\ Released(r)'
    BY RowType
      DEF Agree, Claimed, Repeated, Returned, Match, RecoveredOnce, Released, Box, queue, intake,
          outcome
  <1>6. Queried(r)'
    BY <1>1, <1>2, RowType, RevType, Types DEF Queried, Box, queue
  <1>7. PollOK'
    BY QuietOff DEF PollOK
  <1>8. LanesOK'
    BY <1>1, <1>4, <1>7, PollLanes
  <1> QED
    BY <1>3, <1>4, <1>5, <1>6, <1>8, RowStep DEF Local, Box, queue

\* A poll ends.
LEMMA StepPollEnds ==
  ASSUME IInv, NEW r \in Requests,
         NotFound(r) \/ QueryRefused(r) \/ QueryUnanswered(r) \/ PollDone(r) PROVE IInv'
  <1>1. CASE NotFound(r)
    <2>1. faults' \in 0..MaxFaults /\ "unpublished" \in Causes
      BY <1>1, FaultType DEF NotFound, Causes
    <2> QED
      BY <1>1, <2>1, StepQueryFails DEF NotFound, Answered
  <1>2. CASE QueryRefused(r)
    <2>1. faults' \in 0..MaxFaults /\ "known" \in Causes
      BY <1>2, FaultType DEF QueryRefused, Causes
    <2> QED
      BY <1>2, <2>1, StepQueryFails DEF QueryRefused, Answered
  <1>3. CASE QueryUnanswered(r)
    <2>1. faults' \in 0..MaxFaults
      BY <1>3, FaultType DEF QueryUnanswered
    <2> QED
      BY <1>3, <2>1, PollOnly DEF QueryUnanswered, PollEnds
  <1>4. CASE PollDone(r)
    <2>1. /\ poll.on = r /\ poll' = Quiet /\ CloseQuery(r) /\ faults' \in 0..MaxFaults
          /\ held' = held /\ ingress' = ingress /\ back' = back
          /\ UNCHANGED <<queue, intake, outcome, remote, generation>>
      BY <1>4, Types DEF PollDone, PollEnds, PollOthers, queue
    <2> QED
      BY <2>1, PollOnly
  <1> QED
    BY <1>1, <1>2, <1>3, <1>4

\* reconcile_transport_acceptance.
LEMMA StepAccepted ==
  ASSUME IInv, NEW r \in Requests, Accepted(r) PROVE IInv'
  <1> DEFINE pc == IF query[r].answer = "result" THEN "result" ELSE "done"
             rv == IF query[r].answer = "result" THEN query[r].rev ELSE 1
  <1>1. /\ poll.on = r /\ poll.pc = "asked" /\ poll' = [poll EXCEPT !.pc = pc, !.rev = rv]
        /\ held' = held /\ ingress' = ingress /\ back' = back
        /\ UNCHANGED <<cause, claim, outcome, faults, retries, intake, remote, generation>>
    BY DEF Accepted, Answered, PollOthers
  <1>2. back = Quiet /\ Box(r) \in Pollable
    BY <1>1, PollAt
  <1>3. /\ pc \in {"result", "done"} /\ rv \in Revisions
        /\ pc = "result" => rv <= remote[r].rev
    <2>1. query[r] \in QuerySet
      BY Types
    <2>2. query[r].rev \in 0..2 /\ (query[r].answer = "result" => query[r].rev # 0) /\ query[r].rev <= remote[r].rev
      BY <2>1, RowType DEF QuerySet, Queried
    <2> QED
      BY <2>2 DEF Revisions
  <1> HIDE DEF pc, rv
  <1>4. poll' \in LaneSet /\ poll'.on = r /\ poll'.pc = pc /\ poll'.rev = rv
    <2>1. poll \in LaneSet /\ pc \in LanePCs
      BY <1>3 DEF IInv, TypedLanes, LanePCs
    <2> QED
      BY <1>1, <1>3, <2>1 DEF LaneSet
  <1>5. /\ rows' \in [Requests -> RowSet] /\ rows'[r].request = rows[r].request /\ rows'[r].attempt = "accepted"
        /\ rows'[r].box = "accepted" /\ \A q \in Requests \ {r} : rows'[q] = rows[q]
    <2>1. CASE Box(r) = "uncertain"
      <3>1. "accepted" \in AttemptStates \cap Boxes
        BY DEF AttemptStates, Boxes
      <3> QED
        BY <2>1, <3>1, MoveEff, Types DEF Accepted
    <2>2. CASE Box(r) # "uncertain"
      <3>1. rows' = rows /\ Box(r) = "accepted"
        BY <1>2, <2>2 DEF Accepted, Pollable
      <3> QED
        BY <3>1, RowType, Types DEF Agree, Box
    <2> QED
      BY <2>1, <2>2
  <1>6. /\ query' \in [Requests -> QuerySet] /\ \A q \in Requests \ {r} : query'[q] = query[q]
        /\ query'[r] = query[r] \/ (query'[r].gen = 0 /\ query'[r].answer = "none" /\ query'[r].rev = 0)
    <2>1. CloseQuery(r) \/ UNCHANGED query
      BY DEF Accepted
    <2>2. CASE CloseQuery(r)
      BY <2>2, CloseEff, Types
    <2>3. CASE UNCHANGED query
      BY <2>3, Types
    <2> QED
      BY <2>1, <2>2, <2>3
  <1>7. TypedTables' /\ TypedLanes'
    BY <1>1, <1>4, <1>5, <1>6 DEF IInv, TypedTables, TypedLanes, intake, outcome
  <1>8. \A q \in Requests \ {r} : Same(q)
    BY <1>1, <1>5, <1>6 DEF Same, intake, outcome
  <1>9. Agree(r)'
    BY <1>1, <1>2, <1>5, RowType DEF Agree, Box, Terminal, Pollable, intake
  <1>10. Claimed(r)' /\ Repeated(r)' /\ Returned(r)' /\ RecoveredOnce(r)' /\ Released(r)'
    BY <1>1, <1>2, <1>5, RowType
      DEF Claimed, Repeated, Returned, Match, RecoveredOnce, Released, Box, Terminal, Pollable, outcome
  <1>11. Queried(r)'
    BY <1>1, <1>2, <1>5, <1>6, RowType, RevType, Types DEF Queried, Box, Pollable
  <1>12. PollOK'
    BY <1>1, <1>2, <1>3, <1>4, <1>5, TransportAssumption DEF PollOK, Box
  <1>13. LanesOK' /\ Box(r) \in ActiveBoxes
    BY <1>1, <1>2, <1>8, <1>12, PollLanes DEF Pollable, ActiveBoxes
  <1> QED
    BY <1>7, <1>8, <1>9, <1>10, <1>11, <1>13, RowStep DEF Local

\* A result the endpoint hands over: the revisions before it are settled.
LEMMA Handed ==
  ASSUME IInv, NEW r \in Requests, poll.on = r, poll.pc = "result"
  PROVE  /\ Box(r) = "accepted" /\ back = Quiet /\ poll.rev \in Revisions /\ poll.rev <= remote[r].rev
         /\ \A w \in Revisions : returns[r][w] \notin Open /\ recovery[r][w] \notin Repairing
         /\ returns[r][poll.rev] = "none" => recovery[r][poll.rev] = "none" /\ poll.rev \notin remote[r].repaired
         /\ poll.rev = 2 => recovery[r][1] \in Repaired
  <1>1. Box(r) = "accepted" /\ back = Quiet /\ poll.rev <= remote[r].rev /\ poll.rev \in Revisions
    BY PollAt DEF LaneSet
  <1>2. \A w \in Revisions : returns[r][w] \notin Open /\ Match(r, w)
    BY <1>1, RowType DEF Returned
  <1>3. \A w \in Revisions : recovery[r][w] \notin {"decision-pending"} \cup Repairing
    BY <1>2 DEF Match, Open
  <1>4. ASSUME NEW v \in Revisions, returns[r][v] = "none" PROVE recovery[r][v] = "none"
    <2>1. recovery[r][v] \in RecoveryStates
      BY Types
    <2> QED
      BY <1>2, <1>3, <1>4, <2>1 DEF Match, RecoveryStates, Dispatchable, Repairing, Repaired
  <1>5. ASSUME NEW v \in Revisions, recovery[r][v] = "none" PROVE v \notin remote[r].repaired
    BY <1>5, RowType DEF RecoveredOnce, Revisions, Repairing, Repaired
  <1>6. ASSUME poll.rev = 2 PROVE recovery[r][1] \in Repaired
    <2>1. remote[r].rev = 2
      BY <1>1, <1>6, RevType, Types
    <2>2. recovery[r][1] \in {"unrecoverable"} \cup Repairing \cup Repaired
      BY <2>1, RowType DEF RecoveredOnce
    <2>3. recovery[r][1] # "unrecoverable"
      <3>1. returns[r][1] # "acknowledged"
        BY <1>1, RowType DEF Returned, Revisions, Terminal
      <3> QED
        BY <1>2, <3>1 DEF Match, Open, Revisions
    <2> QED
      BY <1>3, <2>2, <2>3 DEF Revisions
  <1> QED
    BY <1>1, <1>2, <1>3, <1>4, <1>5, <1>6

\* record_transport_return.
LEMMA StepReceived ==
  ASSUME IInv, NEW r \in Requests, Received(r) PROVE IInv'
  <1> DEFINE v == poll.rev
             repaired == {w \in Revisions : w < v /\ recovery[r][w] \in {"dispatched", "uncertain"}}
  <1>1. /\ poll.on = r /\ poll.pc = "result" /\ poll' = [poll EXCEPT !.pc = "done"]
        /\ held' = held /\ ingress' = ingress /\ back' = back
        /\ UNCHANGED <<cause, claim, query, faults, retries, intake, remote, generation>>
    BY DEF Received, PollOthers
  <1>2. /\ Box(r) = "accepted" /\ back = Quiet /\ v \in Revisions /\ v <= remote[r].rev
        /\ \A w \in Revisions : returns[r][w] \notin Open /\ recovery[r][w] \notin Repairing
        /\ returns[r][v] = "none" => recovery[r][v] = "none" /\ v \notin remote[r].repaired
        /\ v = 2 => recovery[r][1] \in Repaired
    BY <1>1, Handed
  <1>3. poll' \in LaneSet /\ poll'.on = r /\ poll'.pc = "done"
    <2>1. poll \in LaneSet
      BY DEF IInv, TypedLanes
    <2> QED
      BY <1>1, <2>1 DEF LaneSet, LanePCs
  <1>4. ASSUME \A q \in Requests \ {r} : Same(q), Box(r)' \in {"accepted", "returning"} PROVE LanesOK'
    <2>1. PollOK'
      BY <1>1, <1>2, <1>3, <1>4, TransportAssumption DEF PollOK
    <2> QED
      BY <1>1, <1>2, <1>4, <2>1, PollLanes
  <1>5. Box(r) \in ActiveBoxes
    BY <1>2 DEF ActiveBoxes
  <1>6. CASE UNCHANGED <<rows, outcome>>
    <2>1. TypedTables' /\ TypedLanes'
      BY <1>1, <1>3, <1>6 DEF IInv, TypedTables, TypedLanes, intake, outcome
    <2>2. \A q \in Requests : Same(q)
      BY <1>1, <1>6 DEF Same, intake, outcome
    <2>3. Local(r)' /\ Box(r)' = Box(r)
      BY <2>2, RowType, Kept DEF Same, Box
    <2> QED
      BY <1>2, <1>4, <1>5, <2>1, <2>2, <2>3, RowStep
  <1>7. CASE /\ returns[r][v] = "none"
             /\ returns' = [returns EXCEPT ![r] = [w \in Revisions |->
                   IF w = v THEN "received"
                   ELSE IF w \in repaired /\ @[w] # "acknowledged" THEN "recovery-superseded" ELSE @[w]]]
             /\ recovery' = [recovery EXCEPT ![r] = [w \in Revisions |->
                   IF w \in repaired THEN "result-received" ELSE @[w]]]
             /\ Move(r, "returning", "returning")
    <2>1. "returning" \in AttemptStates \cap Boxes /\ {"received", "recovery-superseded"} \subseteq ReturnStates
          /\ "result-received" \in RecoveryStates
      BY DEF AttemptStates, Boxes, ReturnStates, RecoveryStates
    <2>2. /\ rows' \in [Requests -> RowSet] /\ rows'[r].request = rows[r].request /\ rows'[r].attempt = "returning"
          /\ rows'[r].box = "returning" /\ \A q \in Requests \ {r} : rows'[q] = rows[q]
      BY <1>7, <2>1, MoveEff, Types
    <2>3. \A w \in repaired : w \in Revisions \ {v} /\ recovery[r][w] = "dispatched" /\ returns[r][w] = "recovery-superseded"
      <3>1. \A w \in repaired : w \in Revisions /\ w < v /\ recovery[r][w] = "dispatched"
        BY <1>2 DEF Repairing
      <3>2. \A w \in repaired : w # v
        BY <1>2, <3>1 DEF Revisions
      <3> QED
        BY <3>1, <3>2, RowType DEF Returned, Match, Repaired
    <2>4. v \notin repaired
      BY <2>3
    <2> HIDE DEF repaired
    <2>5. /\ returns' \in [Requests -> [Revisions -> ReturnStates]] /\ returns'[r][v] = "received"
          /\ \A w \in Revisions \ {v} : returns'[r][w] = returns[r][w]
          /\ \A q \in Requests \ {r} : returns'[q] = returns[q]
      <3> DEFINE f == [w \in Revisions |-> IF w = v THEN "received"
                         ELSE IF w \in repaired /\ returns[r][w] # "acknowledged" THEN "recovery-superseded"
                         ELSE returns[r][w]]
      <3>1. returns' = [returns EXCEPT ![r] = f]
        BY <1>7
      <3>2. f \in [Revisions -> ReturnStates] /\ f[v] = "received" /\ \A w \in Revisions \ {v} : f[w] = returns[r][w]
        BY <1>2, <2>1, <2>3, Types
      <3> HIDE DEF f
      <3> QED
        BY <3>1, <3>2, Types
    <2>6. /\ recovery' \in [Requests -> [Revisions -> RecoveryStates]]
          /\ \A w \in Revisions : \/ recovery'[r][w] = recovery[r][w]
                                  \/ recovery'[r][w] = "result-received" /\ recovery[r][w] = "dispatched"
          /\ recovery'[r][v] = "none" /\ \A q \in Requests \ {r} : recovery'[q] = recovery[q]
      <3> DEFINE f == [w \in Revisions |-> IF w \in repaired THEN "result-received" ELSE recovery[r][w]]
      <3>1. recovery' = [recovery EXCEPT ![r] = f]
        BY <1>7
      <3>2. f \in [Revisions -> RecoveryStates] /\ f[v] = "none"
            /\ \A w \in Revisions : \/ f[w] = recovery[r][w]
                                    \/ f[w] = "result-received" /\ recovery[r][w] = "dispatched"
        BY <1>2, <1>7, <2>1, <2>3, <2>4, Types
      <3> HIDE DEF f
      <3> QED
        BY <3>1, <3>2, Types
    <2>7. TypedTables' /\ TypedLanes'
      BY <1>1, <1>3, <2>2, <2>5, <2>6 DEF IInv, TypedTables, TypedLanes, intake
    <2>8. \A q \in Requests \ {r} : Same(q)
      BY <1>1, <2>2, <2>5, <2>6 DEF Same, intake
    <2>9. Agree(r)'
      BY <1>1, <1>2, <2>2, RowType DEF Agree, Box, Terminal, intake
    <2>10. Claimed(r)' /\ Queried(r)' /\ Repeated(r)'
      BY <1>1, <1>2, <2>2, RowType DEF Claimed, Queried, Repeated, Box
    <2>11. Returned(r)'
      <3>1. ASSUME NEW w \in Revisions PROVE Match(r, w)'
        <4>1. Match(r, w)
          BY RowType DEF Returned
        <4>2. CASE w = v
          BY <2>5, <2>6, <4>2 DEF Match, Repairing, Repaired
        <4>3. CASE w # v
          BY <2>5, <2>6, <4>1, <4>3 DEF Match, Repairing, Repaired
        <4> QED
          BY <4>2, <4>3
      <3>2. \A w \in Revisions \ {v} : returns'[r][w] \notin Open
        BY <1>2, <2>5
      <3>3. \A w \in Revisions : returns'[r][w] # "acknowledged"
        BY <1>2, <2>5, RowType DEF Returned, Terminal
      <3> QED
        BY <1>2, <2>2, <2>5, <3>1, <3>2, <3>3 DEF Returned, Box, Open, Revisions
    <2>12. RecoveredOnce(r)'
      <3>1. recovery[r][1] \in Repaired => recovery'[r][1] \in Repaired
        BY <2>6 DEF Repaired, Revisions
      <3>2. recovery'[r][2] = recovery[r][2]
        BY <2>6, RowType DEF RecoveredOnce, Revisions
      <3>3. returns'[r][2] # "none" => recovery'[r][1] \in Repaired
        BY <1>2, <2>5, <3>1, RowType DEF RecoveredOnce, Revisions
      <3>4. 1 \in remote'[r].repaired => recovery'[r][1] \in {"unrecoverable"} \cup Repaired
        BY <1>1, <1>2, <2>6, <3>1, RowType DEF RecoveredOnce, Revisions
      <3> QED
        BY <1>1, <3>2, <3>3, <3>4, RowType DEF RecoveredOnce
    <2>13. Released(r)'
      <3>1. remote[r] \in RemoteSet
        BY Types
      <3>2. remote[r].released \subseteq Revisions \ {v}
        BY <1>7, <3>1, RowType DEF RemoteSet, Released
      <3> QED
        BY <1>1, <2>5, <3>2, RowType DEF Released
    <2>14. LanesOK'
      BY <1>4, <2>2, <2>8 DEF Box
    <2> QED
      BY <1>5, <2>7, <2>8, <2>9, <2>10, <2>11, <2>12, <2>13, <2>14, RowStep DEF Local
  <1> QED
    BY <1>6, <1>7 DEF Received

\* With both other lanes closed only the back lane moves.
LEMMA BackLanes ==
  ASSUME held' = {}, ingress' = Quiet, poll' = Quiet, BackOK'
  PROVE  LanesOK'
  BY QuietOff DEF LanesOK, IngressOK, PollOK

\* What the back lane is doing.
LEMMA BackAt ==
  ASSUME IInv, NEW r \in Requests, NEW v \in Revisions, back.on = r, back.rev = v
  PROVE  /\ back.pc \in {"ack", "released"} => returns[r][v] \in {"projected-ready", "recovery-unrecoverable"}
         /\ back.pc \in {"recover", "repaired"} => recovery[r][v] \in Repairing
         /\ back.pc = "repaired" => v \in remote[r].repaired
         /\ back.pc \in {"ack", "released", "recover", "repaired"}
         /\ held = {} /\ ingress = Quiet /\ poll = Quiet /\ back \in LaneSet
  BY TransportAssumption DEF IInv, TypedLanes, LanesOK, BackOK

\* The back lane opens, moves its counter, or closes; nothing else happens.
LEMMA BackOnly ==
  ASSUME IInv, UNCHANGED <<queue, intake, query, outcome, remote, generation>>, faults' \in 0..MaxFaults,
         held = {}, ingress = Quiet, poll = Quiet, held' = held, ingress' = ingress, poll' = poll,
         back' \in LaneSet, BackOK'
  PROVE  IInv'
  <1>1. TypedTables' /\ TypedLanes'
    BY DEF IInv, TypedTables, TypedLanes, queue, intake, outcome
  <1>2. \A q \in Requests : Same(q)
    BY DEF Same, queue, intake, outcome
  <1>3. \A q \in Requests : Local(q)'
    BY <1>2, Kept DEF IInv
  <1>4. Cardinality(Busy)' <= Capacity
    BY BusyKept DEF IInv, Busy, Box, queue
  <1>5. LanesOK'
    BY BackLanes
  <1> QED
    BY <1>1, <1>3, <1>4, <1>5 DEF IInv

\* The back lane opens.
LEMMA OpenEff ==
  ASSUME IInv, NEW r \in Requests, NEW v \in Revisions, NEW pc \in {"ack", "recover"},
         BackOpens(r, v, pc)
  PROVE  /\ back' \in LaneSet /\ back'.on = r /\ back'.rev = v /\ back'.pc = pc
         /\ back = Quiet /\ held = {} /\ ingress = Quiet /\ poll = Quiet
  <1>1. [Quiet EXCEPT !.on = r, !.rev = v, !.pc = pc] \in LaneSet
    BY QuietType
  <1> QED
    BY <1>1 DEF BackOpens, BackClosed, LanesClosed, Quiet

\* An acknowledgement or a recovery begins.
LEMMA StepOpen ==
  ASSUME IInv, NEW r \in Requests, NEW v \in Revisions, Acknowledge(r, v) \/ Recover(r, v) PROVE IInv'
  <1>1. /\ UNCHANGED <<queue, intake, query, outcome, remote, generation, faults>>
        /\ held' = held /\ ingress' = ingress /\ poll' = poll
    BY DEF Acknowledge, Recover
  <1>2. PICK pc \in {"ack", "recover"} :
          /\ BackOpens(r, v, pc)
          /\ pc = "ack" => returns[r][v] \in Pending \ {"received"}
          /\ pc = "recover" => recovery[r][v] \in Dispatchable
    BY DEF Acknowledge, Recover
  <1>3. /\ back' \in LaneSet /\ back'.on = r /\ back'.rev = v /\ back'.pc = pc
        /\ held = {} /\ ingress = Quiet /\ poll = Quiet
    BY <1>2, OpenEff
  <1>4. BackOK'
    BY <1>1, <1>2, <1>3, TransportAssumption DEF BackOK, Pending, Dispatchable, Repairing, outcome
  <1> QED
    BY <1>1, <1>3, <1>4, BackOnly, Types

\* No answer of the endpoint.
LEMMA StepBackFails ==
  ASSUME IInv, NEW r \in Requests, NEW v \in Revisions, BackFails(r, v) PROVE IInv'
  <1>1. /\ UNCHANGED <<queue, intake, query, outcome, remote, generation>> /\ faults' \in 0..MaxFaults
        /\ held' = held /\ ingress' = ingress /\ poll' = poll /\ back' = Quiet
    BY FaultType DEF BackFails
  <1>2. held = {} /\ ingress = Quiet /\ poll = Quiet
    BY BackAt DEF BackFails
  <1>3. BackOK' /\ back' \in LaneSet
    BY <1>1, QuietOff, QuietType DEF BackOK
  <1> QED
    BY <1>1, <1>2, <1>3, BackOnly

\* A step of the back lane about one return.
LEMMA BackStep ==
  ASSUME IInv, NEW r \in Requests,
         UNCHANGED <<prep, builders, cause, retries, claim, query, generation>>,
         rows' \in [Requests -> RowSet], returns' \in [Requests -> [Revisions -> ReturnStates]],
         recovery' \in [Requests -> [Revisions -> RecoveryStates]], remote' \in [Requests -> RemoteSet],
         faults' \in 0..MaxFaults, back' \in LaneSet, BackOK', Local(r)',
         \A q \in Requests \ {r} : /\ rows'[q] = rows[q] /\ returns'[q] = returns[q]
                                   /\ recovery'[q] = recovery[q] /\ remote'[q] = remote[q],
         held = {}, ingress = Quiet, poll = Quiet, held' = held, ingress' = ingress, poll' = poll,
         Box(r)' \in ActiveBoxes => Box(r) \in ActiveBoxes
  PROVE  IInv'
  <1>1. TypedTables' /\ TypedLanes'
    BY DEF IInv, TypedTables, TypedLanes
  <1>2. \A q \in Requests \ {r} : Same(q)
    BY DEF Same
  <1>3. LanesOK'
    BY BackLanes
  <1> QED
    BY <1>1, <1>2, <1>3, RowStep

\* A result is projected, or held for a recovery.
LEMMA StepProject ==
  ASSUME IInv, NEW r \in Requests, NEW v \in Revisions, NEW repair \in BOOLEAN,
         Project(r, v, repair) PROVE IInv'
  <1>1. /\ returns[r][v] = "received" /\ back = Quiet /\ held = {} /\ ingress = Quiet /\ poll = Quiet
        /\ held' = held /\ ingress' = ingress /\ poll' = poll
        /\ UNCHANGED <<queue, intake, query, remote, generation, faults>>
    BY DEF Project, BackClosed, LanesClosed
  <1>2. Box(r) = "returning" /\ \A w \in Revisions \ {v} : returns[r][w] \notin Open
    BY <1>1, HeldReturn DEF Open
  <1>3. recovery[r][v] = "none"
    <2>1. recovery[r][v] \in RecoveryStates /\ Match(r, v)
      BY Types, RowType DEF Returned
    <2> QED
      BY <1>1, <2>1 DEF Match, RecoveryStates, Dispatchable, Repairing, Repaired
  <1>4. v \notin remote[r].repaired /\ v \notin remote[r].released
    BY <1>1, <1>3, RowType DEF RecoveredOnce, Released, Revisions, Repairing, Repaired
  <1>5. v = 1 => returns[r][2] = "none"
    BY <1>3, RowType DEF RecoveredOnce, Repaired
  <1>6. ASSUME returns' \in [Requests -> [Revisions -> ReturnStates]],
               recovery' \in [Requests -> [Revisions -> RecoveryStates]],
               \A q \in Requests \ {r} : returns'[q] = returns[q] /\ recovery'[q] = recovery[q],
               \A w \in Revisions \ {v} : returns'[r][w] = returns[r][w] /\ recovery'[r][w] = recovery[r][w],
               \/ returns'[r][v] = "projected-ready" /\ recovery'[r][v] = "none"
               \/ returns'[r][v] = "recovery-decision-pending" /\ recovery'[r][v] = "decision-pending",
               back' \in LaneSet, BackOK'
        PROVE  IInv'
    <2>1. Agree(r)' /\ Claimed(r)' /\ Queried(r)' /\ Repeated(r)'
      BY <1>1, RowType DEF Agree, Claimed, Queried, Repeated, Box, queue, intake
    <2>2. \A w \in Revisions : Match(r, w)'
      <3>1. ASSUME NEW w \in Revisions \ {v} PROVE Match(r, w)'
        BY <1>6, <3>1, RowType DEF Match, Returned
      <3>2. Match(r, v)'
        BY <1>6 DEF Match, Repairing, Repaired
      <3> QED
        BY <3>1, <3>2
    <2>3. Returned(r)'
      BY <1>1, <1>2, <1>6, <2>2, RowType DEF Returned, Open, Box, queue, Revisions
    <2>4. RecoveredOnce(r)'
      <3>1. CASE v = 1
        BY <1>1, <1>4, <1>5, <1>6, <3>1, RowType DEF RecoveredOnce, Revisions
      <3>2. CASE v = 2
        BY <1>1, <1>4, <1>6, <3>2, RowType DEF RecoveredOnce, Revisions
      <3> QED
        BY <3>1, <3>2 DEF Revisions
    <2>5. Released(r)'
      <3>1. remote[r] \in RemoteSet
        BY Types
      <3>2. remote[r].released \subseteq Revisions \ {v}
        BY <1>4, <3>1 DEF RemoteSet
      <3> QED
        BY <1>1, <1>6, <3>2, RowType DEF Released
    <2>6. Box(r)' = Box(r)
      BY <1>1 DEF Box, queue
    <2> QED
      BY <1>1, <1>6, <2>1, <2>3, <2>4, <2>5, <2>6, BackStep, Types DEF Local, queue, intake
  <1>7. CASE repair
    <2>1. "recovery-decision-pending" \in ReturnStates /\ "decision-pending" \in RecoveryStates
      BY DEF ReturnStates, RecoveryStates
    <2>2. /\ returns' = [returns EXCEPT ![r][v] = "recovery-decision-pending"] /\ back' = back
          /\ recovery' = [recovery EXCEPT ![r][v] = "decision-pending"]
      BY <1>7 DEF Project
    <2>3. /\ returns' \in [Requests -> [Revisions -> ReturnStates]] /\ returns'[r][v] = "recovery-decision-pending"
          /\ \A w \in Revisions \ {v} : returns'[r][w] = returns[r][w]
          /\ \A q \in Requests \ {r} : returns'[q] = returns[q]
      BY <2>1, <2>2, ReturnEff
    <2>4. /\ recovery' \in [Requests -> [Revisions -> RecoveryStates]] /\ recovery'[r][v] = "decision-pending"
          /\ \A w \in Revisions \ {v} : recovery'[r][w] = recovery[r][w]
          /\ \A q \in Requests \ {r} : recovery'[q] = recovery[q]
      BY <2>1, <2>2, MarkEff
    <2>5. back' \in LaneSet /\ BackOK'
      BY <1>1, <2>2, QuietOff, QuietType DEF BackOK
    <2> QED
      BY <1>6, <2>3, <2>4, <2>5
  <1>8. CASE ~repair
    <2>1. "projected-ready" \in ReturnStates
      BY DEF ReturnStates
    <2>2. /\ returns' = [returns EXCEPT ![r][v] = "projected-ready"] /\ BackOpens(r, v, "ack")
          /\ recovery' = recovery
      BY <1>8 DEF Project
    <2>3. /\ returns' \in [Requests -> [Revisions -> ReturnStates]] /\ returns'[r][v] = "projected-ready"
          /\ \A w \in Revisions \ {v} : returns'[r][w] = returns[r][w]
          /\ \A q \in Requests \ {r} : returns'[q] = returns[q]
      BY <2>1, <2>2, ReturnEff
    <2>4. back' \in LaneSet /\ back'.on = r /\ back'.rev = v /\ back'.pc = "ack"
      BY <2>2, OpenEff
    <2>5. BackOK'
      BY <1>1, <2>3, <2>4, TransportAssumption DEF BackOK
    <2> QED
      BY <1>3, <1>6, <2>2, <2>3, <2>4, <2>5, Types
  <1> QED
    BY <1>7, <1>8

\* The endpoint is told to release a result or to recover its job.
LEMMA StepRelease ==
  ASSUME IInv, NEW r \in Requests, NEW v \in Revisions, Release(r, v) \/ RecoveryLands(r, v) PROVE IInv'
  <1>1. /\ back.on = r /\ back.rev = v /\ UNCHANGED <<queue, intake, query, outcome, generation, faults>>
        /\ held' = held /\ ingress' = ingress /\ poll' = poll
    BY DEF Release, RecoveryLands, At
  <1>2. /\ back.pc \in {"ack", "released"} => returns[r][v] \in {"projected-ready", "recovery-unrecoverable"}
        /\ back.pc \in {"recover", "repaired"} => recovery[r][v] \in Repairing
        /\ held = {} /\ ingress = Quiet /\ poll = Quiet /\ back \in LaneSet
    BY <1>1, BackAt
  <1>3. remote \in [Requests -> RemoteSet] /\ remote[r] \in RemoteSet
    BY Types
  <1>4. PICK pc \in {"released", "repaired"} :
          /\ back' = [back EXCEPT !.pc = pc]
          /\ pc = "released" => back.pc = "ack" /\ remote' = [remote EXCEPT ![r].released = @ \cup {v}]
          /\ pc = "repaired" => back.pc = "recover" /\ remote' = [remote EXCEPT ![r].repaired = @ \cup {v}]
    BY DEF Release, RecoveryLands, At
  <1>5. back' \in LaneSet /\ back'.on = r /\ back'.rev = v /\ back'.pc = pc
    BY <1>1, <1>2, <1>4 DEF LaneSet, LanePCs
  <1>6. /\ remote' \in [Requests -> RemoteSet] /\ \A q \in Requests \ {r} : remote'[q] = remote[q]
        /\ remote'[r].rev = remote[r].rev /\ remote'[r].flight = remote[r].flight
        /\ remote'[r].known = remote[r].known
        /\ \/ /\ pc = "released" /\ remote'[r].released = remote[r].released \cup {v}
              /\ remote'[r].repaired = remote[r].repaired
           \/ /\ pc = "repaired" /\ remote'[r].repaired = remote[r].repaired \cup {v}
              /\ remote'[r].released = remote[r].released
    <2>1. CASE pc = "released"
      <3>1. [remote[r] EXCEPT !.released = remote[r].released \cup {v}] \in RemoteSet
        BY <1>3 DEF RemoteSet
      <3> QED
        BY <1>3, <1>4, <2>1, <3>1 DEF RemoteSet
    <2>2. CASE pc = "repaired"
      <3>1. [remote[r] EXCEPT !.repaired = remote[r].repaired \cup {v}] \in RemoteSet
        BY <1>3 DEF RemoteSet
      <3> QED
        BY <1>3, <1>4, <2>2, <3>1 DEF RemoteSet
    <2> QED
      BY <2>1, <2>2
  <1>7. pc = "repaired" => v = 1 /\ recovery[r][1] \in Repairing
    BY <1>2, <1>4, PendingRecovery
  <1>8. Agree(r)' /\ Claimed(r)' /\ Queried(r)' /\ Repeated(r)' /\ Returned(r)'
    BY <1>1, <1>6, RowType
      DEF Agree, Claimed, Queried, Repeated, Returned, Match, Box, queue, intake, outcome
  <1>9. RecoveredOnce(r)'
    BY <1>1, <1>6, <1>7, RowType DEF RecoveredOnce, outcome
  <1>10. Released(r)'
    BY <1>1, <1>2, <1>4, <1>6, RowType DEF Released, outcome
  <1>11. BackOK'
    BY <1>1, <1>2, <1>4, <1>5, <1>6, TransportAssumption DEF BackOK, outcome
  <1>12. Box(r)' = Box(r)
    BY <1>1 DEF Box, queue
  <1> QED
    BY <1>1, <1>2, <1>5, <1>6, <1>8, <1>9, <1>10, <1>11, <1>12, BackStep, Types
      DEF Local, queue, intake, outcome

\* acknowledge_transport_return.
LEMMA StepComplete ==
  ASSUME IInv, NEW r \in Requests, NEW v \in Revisions, NEW end \in Terminal,
         Complete(r, v, end) PROVE IInv'
  <1>1. /\ back.on = r /\ back.rev = v /\ back.pc = "released" /\ back' = Quiet
        /\ returns' = [returns EXCEPT ![r][v] = "acknowledged"] /\ Write(r, end, end, "completed")
        /\ held' = held /\ ingress' = ingress /\ poll' = poll
        /\ UNCHANGED <<cause, retries, claim, intake, query, remote, generation, faults>>
    BY DEF Complete, At
  <1>2. /\ returns[r][v] \in {"projected-ready", "recovery-unrecoverable"}
        /\ held = {} /\ ingress = Quiet /\ poll = Quiet
    BY <1>1, BackAt
  <1>3. Box(r) = "returning" /\ \A w \in Revisions \ {v} : returns[r][w] \notin Open
    BY <1>2, HeldReturn DEF Open
  <1>4. end \in RequestStates /\ end \in AttemptStates /\ "completed" \in Boxes /\ "acknowledged" \in ReturnStates
        /\ "completed" \in RecoveryStates
    BY DEF RequestStates, AttemptStates, Boxes, ReturnStates, RecoveryStates
  <1>5. /\ rows' \in [Requests -> RowSet] /\ rows'[r].request = end /\ rows'[r].attempt = end
        /\ rows'[r].box = "completed" /\ \A q \in Requests \ {r} : rows'[q] = rows[q]
    BY <1>1, <1>4, WriteEff, Types
  <1>6. /\ returns' \in [Requests -> [Revisions -> ReturnStates]] /\ returns'[r][v] = "acknowledged"
        /\ \A w \in Revisions \ {v} : returns'[r][w] = returns[r][w]
        /\ \A q \in Requests \ {r} : returns'[q] = returns[q]
    <2>1. returns' = [returns EXCEPT ![r][v] = "acknowledged"] /\ "acknowledged" \in ReturnStates
      BY <1>1, <1>4
    <2> QED
      BY <2>1, ReturnEff
  <1>7. /\ recovery' \in [Requests -> [Revisions -> RecoveryStates]]
        /\ \A w \in Revisions : \/ recovery'[r][w] = recovery[r][w]
                                \/ recovery'[r][w] = "completed" /\ recovery[r][w] = "result-received"
        /\ \A q \in Requests \ {r} : recovery'[q] = recovery[q]
    <2> DEFINE f == [w \in Revisions |->
                       IF recovery[r][w] = "result-received" /\ (recovery[r][v] = "none" \/ w = v)
                       THEN "completed" ELSE recovery[r][w]]
    <2>1. recovery' = [recovery EXCEPT ![r] = f]
      BY DEF Complete
    <2>2. f \in [Revisions -> RecoveryStates]
          /\ \A w \in Revisions : \/ f[w] = recovery[r][w]
                                  \/ f[w] = "completed" /\ recovery[r][w] = "result-received"
      BY <1>4, Types
    <2> HIDE DEF f
    <2> QED
      BY <2>1, <2>2, Types
  <1>8. Agree(r)'
    BY <1>1, <1>3, <1>5, RowType DEF Agree, Box, Terminal, intake
  <1>9. Claimed(r)' /\ Queried(r)' /\ Repeated(r)'
    BY <1>1, <1>3, <1>5, RowType DEF Claimed, Queried, Repeated, Box
  <1>10. Returned(r)'
    <2>1. ASSUME NEW w \in Revisions PROVE Match(r, w)'
      <3>1. Match(r, w)
        BY RowType DEF Returned
      <3>2. CASE w = v
        BY <1>2, <1>6, <1>7, <3>1, <3>2 DEF Match, Repairing, Repaired
      <3>3. CASE w # v
        BY <1>6, <1>7, <3>1, <3>3 DEF Match, Repairing, Repaired
      <3> QED
        BY <3>2, <3>3
    <2>2. \A w \in Revisions : returns'[r][w] \notin Open
      BY <1>3, <1>6 DEF Open
    <2> QED
      BY <1>1, <1>5, <2>1, <2>2 DEF Returned, Box, Terminal, Revisions
  <1>11. RecoveredOnce(r)'
    <2>1. /\ recovery[r][1] \in Repaired => recovery'[r][1] \in Repaired
          /\ recovery[r][1] \in {"unrecoverable"} \cup Repairing => recovery'[r][1] = recovery[r][1]
      BY <1>7 DEF Repaired, Repairing, Revisions
    <2>2. recovery'[r][2] = recovery[r][2]
      BY <1>7, RowType DEF RecoveredOnce, Revisions
    <2>3. returns'[r][2] # "none" => recovery'[r][1] \in Repaired
      BY <1>2, <1>6, <2>1, RowType DEF RecoveredOnce, Revisions
    <2> QED
      BY <1>1, <2>1, <2>2, <2>3, RowType DEF RecoveredOnce
  <1>12. Released(r)'
    <2>1. remote[r] \in RemoteSet
      BY Types
    <2>2. remote[r].released \subseteq Revisions
      BY <2>1 DEF RemoteSet
    <2> QED
      BY <1>1, <1>6, <2>2, RowType DEF Released
  <1>13. BackOK' /\ back' \in LaneSet /\ Box(r) \in ActiveBoxes
    BY <1>1, <1>3, QuietOff, QuietType DEF BackOK, ActiveBoxes
  <1>14. Local(r)'
    BY <1>8, <1>9, <1>10, <1>11, <1>12 DEF Local
  <1>15. /\ UNCHANGED <<prep, builders, cause, retries, claim, query, generation>> /\ remote' = remote
         /\ remote' \in [Requests -> RemoteSet] /\ faults' \in 0..MaxFaults
    BY <1>1, Types DEF intake
  <1> QED
    BY <1>1, <1>2, <1>5, <1>6, <1>7, <1>13, <1>14, <1>15, BackStep

\* record_postprocess_recovery_observation: accepted.
LEMMA StepRecoveryAccepted ==
  ASSUME IInv, NEW r \in Requests, NEW v \in Revisions, RecoveryAccepted(r, v) PROVE IInv'
  <1>1. /\ back.on = r /\ back.rev = v /\ back.pc = "repaired" /\ back' = Quiet
        /\ recovery' = [recovery EXCEPT ![r][v] = "dispatched"]
        /\ returns' = [returns EXCEPT ![r][v] = "recovery-superseded"]
        /\ Write(r, "accepted", "accepted", "accepted")
        /\ held' = held /\ ingress' = ingress /\ poll' = poll
        /\ UNCHANGED <<cause, retries, claim, intake, query, remote, generation, faults>>
    BY DEF RecoveryAccepted, At
  <1>2. recovery[r][v] \in Repairing /\ held = {} /\ ingress = Quiet /\ poll = Quiet
    BY <1>1, BackAt
  <1>3. returns[r][v] = "recovery-decision-pending" /\ v = 1
    BY <1>2, PendingRecovery
  <1>4. Box(r) = "returning" /\ \A w \in Revisions \ {v} : returns[r][w] \notin Open
    BY <1>3, HeldReturn DEF Open
  <1>5. "accepted" \in RequestStates \cap AttemptStates \cap Boxes /\ "recovery-superseded" \in ReturnStates
        /\ "dispatched" \in RecoveryStates
    BY DEF RequestStates, AttemptStates, Boxes, ReturnStates, RecoveryStates
  <1>6. /\ rows' \in [Requests -> RowSet] /\ rows'[r].request = "accepted" /\ rows'[r].attempt = "accepted"
        /\ rows'[r].box = "accepted" /\ \A q \in Requests \ {r} : rows'[q] = rows[q]
    BY <1>1, <1>5, WriteEff, Types
  <1>7. /\ returns' \in [Requests -> [Revisions -> ReturnStates]] /\ returns'[r][v] = "recovery-superseded"
        /\ \A w \in Revisions \ {v} : returns'[r][w] = returns[r][w]
        /\ \A q \in Requests \ {r} : returns'[q] = returns[q]
    <2>1. returns' = [returns EXCEPT ![r][v] = "recovery-superseded"] /\ "recovery-superseded" \in ReturnStates
      BY <1>1, <1>5
    <2> QED
      BY <2>1, ReturnEff
  <1>8. /\ recovery' \in [Requests -> [Revisions -> RecoveryStates]] /\ recovery'[r][v] = "dispatched"
        /\ \A w \in Revisions \ {v} : recovery'[r][w] = recovery[r][w]
        /\ \A q \in Requests \ {r} : recovery'[q] = recovery[q]
    <2>1. recovery' = [recovery EXCEPT ![r][v] = "dispatched"] /\ "dispatched" \in RecoveryStates
      BY <1>1, <1>5
    <2> QED
      BY <2>1, MarkEff
  <1>9. Agree(r)'
    BY <1>1, <1>4, <1>6, RowType DEF Agree, Box, Terminal, intake
  <1>10. Claimed(r)' /\ Queried(r)' /\ Repeated(r)'
    BY <1>1, <1>4, <1>6, RowType DEF Claimed, Queried, Repeated, Box
  <1>11. Returned(r)'
    <2>1. ASSUME NEW w \in Revisions PROVE Match(r, w)'
      <3>1. Match(r, w)
        BY RowType DEF Returned
      <3>2. CASE w = v
        BY <1>7, <1>8, <3>2 DEF Match, Repairing, Repaired
      <3>3. CASE w # v
        BY <1>7, <1>8, <3>1, <3>3 DEF Match, Repairing, Repaired
      <3> QED
        BY <3>2, <3>3
    <2>2. \A w \in Revisions : returns'[r][w] \notin Open
      BY <1>4, <1>7 DEF Open
    <2>3. \A w \in Revisions : returns'[r][w] # "acknowledged"
      BY <1>4, <1>7, RowType DEF Returned, Terminal
    <2> QED
      BY <1>6, <2>1, <2>2, <2>3 DEF Returned, Box, Revisions
  <1>12. RecoveredOnce(r)'
    BY <1>1, <1>3, <1>8, RowType DEF RecoveredOnce, Revisions, Repaired
  <1>13. Released(r)'
    <2>1. remote[r] \in RemoteSet
      BY Types
    <2>2. remote[r].released \subseteq Revisions \ {v}
      BY <1>3, <2>1, RowType DEF RemoteSet, Released
    <2> QED
      BY <1>1, <1>7, <2>2, RowType DEF Released
  <1>14. BackOK' /\ back' \in LaneSet /\ Box(r) \in ActiveBoxes
    BY <1>1, <1>4, QuietOff, QuietType DEF BackOK, ActiveBoxes
  <1>15. Local(r)'
    BY <1>9, <1>10, <1>11, <1>12, <1>13 DEF Local
  <1>16. /\ UNCHANGED <<prep, builders, cause, retries, claim, query, generation>> /\ remote' = remote
         /\ remote' \in [Requests -> RemoteSet] /\ faults' \in 0..MaxFaults
    BY <1>1, Types DEF intake
  <1> QED
    BY <1>1, <1>2, <1>6, <1>7, <1>8, <1>14, <1>15, <1>16, BackStep

\* A recovery without an answer, or rejected.
LEMMA StepVerdict ==
  ASSUME IInv, NEW r \in Requests, NEW v \in Revisions,
         RecoveryUncertain(r, v) \/ RecoveryRejected(r, v) PROVE IInv'
  <1>1. /\ back.on = r /\ back.rev = v /\ back.pc \in {"recover", "repaired"} /\ back' = Quiet
        /\ held' = held /\ ingress' = ingress /\ poll' = poll /\ faults' \in 0..MaxFaults
        /\ UNCHANGED <<queue, intake, query, remote, generation>>
    BY FaultType DEF RecoveryUncertain, RecoveryRejected, At
  <1>2. recovery[r][v] \in Repairing /\ held = {} /\ ingress = Quiet /\ poll = Quiet
    BY <1>1, BackAt
  <1>3. returns[r][v] = "recovery-decision-pending" /\ v = 1
    BY <1>2, PendingRecovery
  <1>4. /\ returns' \in [Requests -> [Revisions -> ReturnStates]] /\ recovery' \in [Requests -> [Revisions -> RecoveryStates]]
        /\ \A w \in Revisions \ {v} : returns'[r][w] = returns[r][w] /\ recovery'[r][w] = recovery[r][w]
        /\ \A q \in Requests \ {r} : returns'[q] = returns[q] /\ recovery'[q] = recovery[q]
        /\ \/ returns'[r][v] = "recovery-unrecoverable" /\ recovery'[r][v] = "unrecoverable"
           \/ returns'[r][v] = returns[r][v] /\ recovery'[r][v] \in Repairing
    <2>1. CASE RecoveryRejected(r, v)
      BY <2>1, GiveUpEff DEF RecoveryRejected
    <2>2. CASE RecoveryUncertain(r, v)
      <3>1. PICK s \in {"uncertain", "reconcile-required"} : recovery' = [recovery EXCEPT ![r][v] = s]
        BY <2>2 DEF RecoveryUncertain
      <3>2. s \in RecoveryStates /\ s \in Repairing
        BY DEF RecoveryStates, Dispatchable, Repairing
      <3>3. /\ recovery' \in [Requests -> [Revisions -> RecoveryStates]] /\ recovery'[r][v] = s
            /\ \A w \in Revisions \ {v} : recovery'[r][w] = recovery[r][w]
            /\ \A q \in Requests \ {r} : recovery'[q] = recovery[q]
        BY <3>1, <3>2, MarkEff
      <3>4. returns' = returns
        BY <2>2 DEF RecoveryUncertain
      <3> QED
        BY <3>2, <3>3, <3>4, Types
    <2> QED
      BY <2>1, <2>2
  <1>5. Local(r)'
    BY <1>1, <1>3, <1>4, Verdict DEF queue, intake
  <1>6. BackOK' /\ back' \in LaneSet /\ Box(r)' = Box(r)
    BY <1>1, QuietOff, QuietType DEF BackOK, Box, queue
  <1> QED
    BY <1>1, <1>2, <1>4, <1>5, <1>6, BackStep, Types DEF queue, intake

\* What the recovery of expired claims leaves behind.
LEMMA AfterEff ==
  ASSUME IInv
  PROVE  /\ AfterRecovery \in [Requests -> RowSet]
         /\ \A q \in Requests : q \notin Lapsed => AfterRecovery[q] = rows[q]
         /\ \A q \in Lapsed :
              /\ q \in Requests /\ claim[q] # "none" /\ Box(q) \in {"claimed", "sending"}
              /\ AfterRecovery[q].request = rows[q].request
              /\ Box(q) = "sending" => AfterRecovery[q].box = "uncertain" /\ AfterRecovery[q].attempt = "uncertain"
              /\ Box(q) = "claimed" => AfterRecovery[q].box = "retry" /\ AfterRecovery[q].attempt = "prepared"
  <1>1. \A q \in Lapsed : q \in Requests /\ claim[q] # "none" /\ Box(q) \in {"claimed", "sending"}
    BY DEF Lapsed, In
  <1>2. ASSUME NEW q \in Requests PROVE AfterRecovery[q] \in RowSet
    <2>1. rows[q] \in RowSet /\ Recovered(q) \in Boxes /\ {"prepared", "uncertain"} \subseteq AttemptStates
      BY RowType DEF Recovered, Boxes, AttemptStates
    <2> QED
      BY <2>1 DEF AfterRecovery, RowSet
  <1>3. AfterRecovery \in [Requests -> RowSet]
    BY <1>2 DEF AfterRecovery
  <1>4. \A q \in Requests : q \notin Lapsed => AfterRecovery[q] = rows[q]
    BY DEF AfterRecovery
  <1>5. ASSUME NEW q \in Lapsed
        PROVE  /\ AfterRecovery[q].request = rows[q].request
               /\ Box(q) = "sending" => AfterRecovery[q].box = "uncertain" /\ AfterRecovery[q].attempt = "uncertain"
               /\ Box(q) = "claimed" => AfterRecovery[q].box = "retry" /\ AfterRecovery[q].attempt = "prepared"
    <2>1. q \in Requests /\ rows[q] \in RowSet
      BY <1>1, RowType
    <2>2. AfterRecovery[q] = [rows[q] EXCEPT !.box = Recovered(q),
                                !.attempt = IF Recovered(q) = "retry" THEN "prepared" ELSE "uncertain"]
      BY <2>1 DEF AfterRecovery
    <2> QED
      BY <2>1, <2>2 DEF RowSet, Recovered
  <1> QED
    BY <1>1, <1>3, <1>4, <1>5

\* A row after the recovery of expired claims.
LEMMA CleanLocal ==
  ASSUME IInv, NEW q \in Requests, UNCHANGED <<retries, prep, query, outcome, remote>>,
         rows'[q] = AfterRecovery[q], claim'[q] = IF q \in Lapsed THEN "none" ELSE claim[q]
  PROVE  Local(q)'
  <1>1. CASE q \notin Lapsed
    <2>1. Same(q)
      BY <1>1, AfterEff DEF Same, outcome
    <2> QED
      BY <2>1, Kept, RowType
  <1>2. CASE q \in Lapsed
    <2>1. /\ Box(q) \in {"claimed", "sending"} /\ claim'[q] = "none" /\ rows'[q].request = rows[q].request
          /\ Box(q) = "sending" => rows'[q].box = "uncertain" /\ rows'[q].attempt = "uncertain"
          /\ Box(q) = "claimed" => rows'[q].box = "retry" /\ rows'[q].attempt = "prepared"
      BY <1>2, AfterEff
    <2>2. Agree(q)'
      BY <2>1, RowType DEF Agree, Box, Terminal
    <2>3. Claimed(q)' /\ Queried(q)' /\ Repeated(q)' /\ Returned(q)' /\ RecoveredOnce(q)' /\ Released(q)'
      BY <2>1, RowType
        DEF Claimed, Queried, Repeated, Returned, Match, RecoveredOnce, Released, Box, Terminal, outcome
    <2> QED
      BY <2>2, <2>3 DEF Local
  <1> QED
    BY <1>1, <1>2

\* A waiting row is claimed.
LEMMA ClaimLocal ==
  ASSUME IInv, NEW q \in Requests, UNCHANGED <<retries, prep, query, outcome, remote>>,
         AfterRecovery[q].box \in {"pending", "retry"},
         rows'[q] = [rows[q] EXCEPT !.attempt = "queued", !.box = "claimed"], claim'[q] = "live"
  PROVE  Local(q)'
  <1>1. Box(q) \in {"pending", "retry", "claimed"}
    BY AfterEff DEF Box
  <1>2. rows'[q].request = rows[q].request /\ rows'[q].attempt = "queued" /\ rows'[q].box = "claimed"
    BY RowType DEF RowSet
  <1>3. Agree(q)'
    BY <1>1, <1>2, RowType DEF Agree, Box, Terminal
  <1>4. Claimed(q)' /\ Queried(q)' /\ Repeated(q)' /\ Returned(q)' /\ RecoveredOnce(q)' /\ Released(q)'
    BY <1>1, <1>2, RowType
      DEF Claimed, Queried, Repeated, Returned, Match, RecoveredOnce, Released, Box, Terminal, outcome
  <1> QED
    BY <1>3, <1>4 DEF Local

\* The lanes when nothing is being published, asked or returned.
LEMMA ClosedLanes ==
  ASSUME ingress' = Quiet, poll' = Quiet, back' = Quiet, \A q \in held' : Box(q)' = "claimed"
  PROVE  LanesOK'
  BY QuietOff DEF LanesOK, IngressOK, PollOK, BackOK

\* Expired claims are recovered.
LEMMA StepRecoverClaims ==
  ASSUME IInv, RecoverClaims PROVE IInv'
  <1>1. /\ rows' = AfterRecovery /\ claim' = [q \in Requests |-> IF q \in Lapsed THEN "none" ELSE claim[q]]
        /\ held = {} /\ ingress = Quiet /\ poll = Quiet /\ back = Quiet
        /\ UNCHANGED <<cause, retries, intake, query, outcome, pass, remote, generation, faults>>
    BY DEF RecoverClaims, BackClosed, LanesClosed
  <1>2. claim' \in [Requests -> {"none", "live", "lapsed"}]
    BY <1>1, Types
  <1>3. TypedTables' /\ TypedLanes'
    BY <1>1, <1>2, AfterEff DEF IInv, TypedTables, TypedLanes, intake, outcome, pass
  <1>4. \A q \in Requests : Local(q)'
    BY <1>1, CleanLocal DEF intake
  <1>5. LanesOK'
    BY <1>1, ClosedLanes DEF pass
  <1>6. Busy' \subseteq Busy
    <2>1. ASSUME NEW q \in Requests,
                 AfterRecovery[q].box \in ActiveBoxes PROVE rows[q].box \in ActiveBoxes
      BY <2>1, AfterEff DEF ActiveBoxes, Box
    <2> QED
      BY <1>1, <2>1 DEF Busy, Box
  <1> QED
    BY <1>3, <1>4, <1>5, <1>6, BusyKept DEF IInv

\* A claim fills the free places, never more.
LEMMA FreePlaces ==
  ASSUME IInv, NEW batch \in SUBSET Requests, NEW n \in Nat, batch # {},
         Cardinality(batch) = Least(Available, n)
  PROVE  IsFiniteSet(Busy \cup batch) /\ Cardinality(Busy \cup batch) <= Capacity
  <1> DEFINE free == IF Active < Capacity THEN Capacity - Active ELSE 0
  <1>1. IsFiniteSet(Busy) /\ IsFiniteSet(batch)
    BY FS_Subset, TransportAssumption DEF Busy
  <1>2. Cardinality(Busy) \in Nat /\ Cardinality(batch) \in Nat /\ Cardinality(batch) # 0 /\ Capacity \in Nat
    BY <1>1, FS_CardinalityType, FS_EmptySet, TransportAssumption
  <1>3. Active = Cardinality(Busy)
    BY DEF Active, In, Busy
  <1>4. free \in Nat
    BY <1>2, <1>3
  <1>5. Available \in Nat /\ Available <= free
    <2>1. Available = free \/ Available = 0 \/ Available = Least(free, 1)
      BY DEF Available
    <2> HIDE DEF free
    <2> QED
      BY <1>4, <2>1 DEF Least
  <1>6. Cardinality(batch) <= free
    <2> HIDE DEF free
    <2> QED
      BY <1>2, <1>4, <1>5 DEF Least
  <1>7. Cardinality(Busy) + Cardinality(batch) <= Capacity
    BY <1>2, <1>3, <1>6
  <1>8. /\ IsFiniteSet(Busy \cup batch) /\ IsFiniteSet(Busy \cap batch)
        /\ Cardinality(Busy \cup batch) = Cardinality(Busy) + Cardinality(batch) - Cardinality(Busy \cap batch)
    BY <1>1, FS_Union, FS_Intersection
  <1>9. Cardinality(Busy \cap batch) \in Nat
    BY <1>8, FS_CardinalityType
  <1> QED
    BY <1>2, <1>7, <1>8, <1>9

\* A pass claims its rows.
LEMMA StepClaimRows ==
  ASSUME IInv, ClaimRows PROVE IInv'
  <1> DEFINE waiting == {q \in Requests : AfterRecovery[q].box \in {"pending", "retry"}}
  <1>1. PICK batch \in SUBSET waiting :
          /\ batch # {} /\ Cardinality(batch) = Least(Available, Cardinality(waiting)) /\ held' = batch
          /\ rows' = [q \in Requests |->
                IF q \in batch THEN [rows[q] EXCEPT !.attempt = "queued", !.box = "claimed"]
                ELSE AfterRecovery[q]]
          /\ claim' = [q \in Requests |->
                IF q \in batch THEN "live" ELSE IF q \in Lapsed THEN "none" ELSE claim[q]]
    BY DEF ClaimRows
  <1>2. /\ held = {} /\ ingress = Quiet /\ poll = Quiet /\ back = Quiet
        /\ ingress' = ingress /\ poll' = poll /\ back' = back
        /\ UNCHANGED <<cause, retries, intake, query, outcome, remote, generation, faults>>
    BY DEF ClaimRows, BackClosed, LanesClosed
  <1>3. batch \in SUBSET Requests /\ IsFiniteSet(waiting) /\ Cardinality(waiting) \in Nat
    <2>1. IsFiniteSet(waiting)
      BY FS_Subset, TransportAssumption
    <2> QED
      BY <2>1, FS_CardinalityType
  <1>4. \A q \in batch : AfterRecovery[q].box \in {"pending", "retry"}
    OBVIOUS
  <1> HIDE DEF waiting
  <1>5. rows' \in [Requests -> RowSet] /\ \A q \in batch : rows'[q].box = "claimed"
    <2>1. ASSUME NEW q \in Requests
          PROVE  LET w == [rows[q] EXCEPT !.attempt = "queued", !.box = "claimed"]
                 IN  w \in RowSet /\ w.box = "claimed"
      <3>1. "queued" \in AttemptStates /\ "claimed" \in Boxes /\ rows[q] \in RowSet
        BY RowType DEF AttemptStates, Boxes
      <3> QED
        BY <3>1 DEF RowSet
    <2>2. \A q \in Requests : AfterRecovery[q] \in RowSet
      BY AfterEff
    <2> QED
      BY <1>1, <1>3, <2>1, <2>2
  <1>6. claim' \in [Requests -> {"none", "live", "lapsed"}]
    BY <1>1, Types
  <1>7. TypedTables' /\ TypedLanes'
    BY <1>1, <1>2, <1>3, <1>5, <1>6 DEF IInv, TypedTables, TypedLanes, intake, outcome
  <1>8. ASSUME NEW q \in Requests PROVE Local(q)'
    <2>1. CASE q \in batch
      BY <1>1, <1>2, <1>4, <2>1, ClaimLocal DEF intake
    <2>2. CASE q \notin batch
      BY <1>1, <1>2, <2>2, CleanLocal DEF intake
    <2> QED
      BY <2>1, <2>2
  <1>9. LanesOK'
    BY <1>1, <1>2, <1>5, ClosedLanes DEF Box
  <1>10. Busy' \subseteq Busy \cup batch
    <2>1. ASSUME NEW q \in Requests,
                 AfterRecovery[q].box \in ActiveBoxes PROVE rows[q].box \in ActiveBoxes
      BY <2>1, AfterEff DEF ActiveBoxes, Box
    <2> QED
      BY <1>1, <2>1 DEF Busy, Box
  <1>11. Cardinality(Busy') <= Capacity
    <2>1. IsFiniteSet(Busy \cup batch) /\ Cardinality(Busy \cup batch) <= Capacity
      BY <1>1, <1>3, FreePlaces
    <2>2. /\ IsFiniteSet(Busy') /\ Cardinality(Busy') <= Cardinality(Busy \cup batch)
          /\ Cardinality(Busy') \in Nat /\ Cardinality(Busy \cup batch) \in Nat
      BY <1>10, <2>1, FS_Subset, FS_CardinalityType
    <2> QED
      BY <2>1, <2>2, TransportAssumption
  <1> QED
    BY <1>7, <1>8, <1>9, <1>11 DEF IInv

\* The daemon restarts.
LEMMA StepCrash ==
  ASSUME IInv, Restart \/ Deploy PROVE IInv'
  <1>1. /\ held' = {} /\ ingress' = Quiet /\ poll' = Quiet /\ back' = Quiet
        /\ UNCHANGED <<queue, intake, query, outcome, remote>>
        /\ generation' \in 1..MaxGeneration /\ faults' \in 0..MaxFaults
    <2>1. generation \in 1..MaxGeneration /\ MaxGeneration \in Nat /\ faults' \in 0..MaxFaults
      BY FaultType, Types, TransportAssumption DEF Restart, Deploy
    <2> QED
      BY <2>1 DEF Restart, Deploy, Crash
  <1>2. TypedTables' /\ TypedLanes'
    BY <1>1, QuietType DEF IInv, TypedTables, TypedLanes, queue, intake, outcome
  <1>3. \A q \in Requests : Same(q)
    BY <1>1 DEF Same, queue, intake, outcome
  <1>4. \A q \in Requests : Local(q)'
    BY <1>3, Kept DEF IInv
  <1>5. LanesOK'
    BY <1>1, ClosedLanes
  <1>6. Busy' \subseteq Busy
    BY <1>1 DEF Busy, Box, queue
  <1> QED
    BY <1>2, <1>4, <1>5, <1>6, BusyKept DEF IInv

\* A stutter.
LEMMA StepNothing ==
  ASSUME IInv, UNCHANGED vars PROVE IInv'
  <1>1. UNCHANGED <<queue, intake, query, outcome, pass, remote, generation, faults>>
    BY DEF vars
  <1>2. TypedTables' /\ TypedLanes'
    BY <1>1 DEF IInv, TypedTables, TypedLanes, queue, intake, outcome, pass
  <1>3. \A q \in Requests : Same(q)
    BY <1>1 DEF Same, queue, intake, outcome
  <1>4. \A q \in Requests : Local(q)'
    BY <1>3, Kept DEF IInv
  <1>5. LanesOK'
    BY <1>1 DEF IInv, LanesOK, IngressOK, PollOK, BackOK, Box, queue, outcome, pass
  <1>6. Busy' \subseteq Busy
    BY <1>1 DEF Busy, Box, queue
  <1> QED
    BY <1>2, <1>4, <1>5, <1>6, BusyKept DEF IInv

\* The invariant holds of an empty database.
LEMMA InvInit ==
  ASSUME Init PROVE IInv
  <1>1. TypedTables
    <2>1. "created" \in RequestStates /\ "none" \in AttemptStates /\ "none" \in Boxes /\ "none" \in Causes
          /\ "none" \in ReturnStates /\ "none" \in RecoveryStates
      BY DEF RequestStates, AttemptStates, Boxes, Causes, ReturnStates, RecoveryStates
    <2>2. 0 \in 0..MaxPreparations /\ 0 \in 0..MaxGeneration /\ 0 \in 0..MaxRetries
      BY TransportAssumption
    <2>3. rows \in [Requests -> RowSet] /\ prep \in [Requests -> PrepSet] /\ cause \in [Requests -> Causes]
      BY <2>1, <2>2 DEF Init, RowSet, PrepSet
    <2>4. builders \in [Requests -> [Builds -> 0..MaxBuilders]] /\ retries \in [Requests -> 0..MaxRetries]
          /\ claim \in [Requests -> {"none", "live", "lapsed"}]
      BY <2>2 DEF Init, Builds, MaxBuilders
    <2>5. query \in [Requests -> QuerySet] /\ remote \in [Requests -> RemoteSet]
      BY <2>2 DEF Init, NoQuery, QuerySet, RemoteSet
    <2>6. returns \in [Requests -> [Revisions -> ReturnStates]] /\ recovery \in [Requests -> [Revisions -> RecoveryStates]]
      BY <2>1 DEF Init
    <2> QED
      BY <2>3, <2>4, <2>5, <2>6 DEF TypedTables
  <1>2. TypedLanes
    <2>1. 1 \in 1..MaxGeneration /\ 0 \in 0..MaxFaults
      BY TransportAssumption
    <2> QED
      BY <2>1, QuietType DEF Init, TypedLanes
  <1>3. ASSUME NEW q \in Requests PROVE Local(q)
    <2>1. Agree(q) /\ Claimed(q) /\ Queried(q) /\ Repeated(q)
      BY DEF Init, Agree, Claimed, Queried, Repeated, Box, NoQuery, Terminal
    <2>2. Returned(q) /\ RecoveredOnce(q) /\ Released(q)
      BY DEF Init, Returned, Match, RecoveredOnce, Released, Box, Open, Repairing, Repaired, Revisions
    <2> QED
      BY <2>1, <2>2 DEF Local
  <1>4. LanesOK
    BY QuietOff DEF Init, LanesOK, IngressOK, PollOK, BackOK
  <1>5. Cardinality(Busy) <= Capacity
    <2>1. Busy = {}
      BY DEF Init, Busy, Box, ActiveBoxes
    <2> QED
      BY <2>1, FS_EmptySet, TransportAssumption
  <1> QED
    BY <1>1, <1>2, <1>3, <1>4, <1>5 DEF IInv

\* Every step about one request preserves the invariant.
LEMMA StepRequest ==
  ASSUME IInv, NEW r \in Requests, Step(r) PROVE IInv'
  <1>1. CASE Prepare(r)
    BY <1>1, StepReserve, StepNoBackend, StepRetryPreparation, StepPublishPreparation,
       StepFailPreparation
       DEF Prepare, Builds
  <1>2. CASE Ingress(r)
    BY <1>2, StepLapse, StepMarkSending, StepPublish, StepSent DEF Ingress
  <1>3. CASE Polling(r)
    BY <1>3, StepAsk, StepPollEnds, StepAccepted, StepReceived DEF Polling
  <1>4. CASE DecideRetry(r)
    BY <1>4, StepDecideRetry
  <1>5. CASE Endpoint(r)
    BY <1>5, StepAnswer, StepEndpoint DEF Endpoint
  <1>6. ASSUME NEW v \in Revisions, Returning(r, v) PROVE IInv'
    BY <1>6, StepProject, StepOpen, StepRelease, StepBackFails, StepComplete DEF Returning
  <1>7. ASSUME NEW v \in Revisions, Recovering(r, v) PROVE IInv'
    BY <1>7, StepOpen, StepRelease, StepRecoveryAccepted, StepVerdict, StepDecideRecovery DEF Recovering
  <1> QED
    BY <1>1, <1>2, <1>3, <1>4, <1>5, <1>6, <1>7 DEF Step

\* Every step preserves the invariant.
LEMMA InvStep ==
  ASSUME IInv, [Next]_vars PROVE IInv'
  BY StepRecoverClaims, StepClaimRows, StepRequest, StepCrash, StepNothing DEF Next

\* The invariant holds of every reachable state of the daemon and the endpoint.
THEOREM Inductive == Spec => []IInv
  BY InvInit, InvStep, PTL DEF Spec

\* All tables, lanes and the endpoint stay within their types (the status columns of the
\* daemon's control database).
THEOREM TypeCorrect == Spec => []TypeOK
  <1>1. IInv => TypeOK
    <2> SUFFICES ASSUME IInv PROVE TypeOK
      OBVIOUS
    <2>2. {ingress, poll, back} \subseteq LaneSet
      BY DEF IInv, TypedLanes
    <2> QED
      BY <2>2, Types DEF TypeOK, RowSet, RequestStates, AttemptStates, PrepSet, Builds, Causes, QuerySet,
         ReturnStates, RecoveryStates, LaneSet, LanePCs, RemoteSet
  <1> QED
    BY <1>1, Inductive, PTL

\* Request, preparation, attempt and outbox never disagree, whichever of the five
\* repositories wrote last.
THEOREM AgreementCorrect == Spec => []RowsAgree
  <1>1. IInv => RowsAgree
    BY RowType DEF RowsAgree, Agree
  <1> QED
    BY <1>1, Inductive, PTL

\* No claim gives the endpoint more than its capacity, counting requests whose fate is
\* unknown (claim_transport_requests).
THEOREM CapacityCorrect == Spec => []CapacityHeld
  <1>1. IInv => CapacityHeld
    <2> SUFFICES ASSUME IInv PROVE CapacityHeld
      OBVIOUS
    <2>2. Busy = {r \in Requests : Box(r) \notin {"none", "pending", "retry"} \cup Terminal}
      BY RowType DEF Busy, ActiveBoxes, Boxes, Terminal
    <2> QED
      BY <2>2 DEF IInv, CapacityHeld
  <1> QED
    BY <1>1, Inductive, PTL

\* No answer given before a publication is read after it (reserve_transport_query and
\* the retry decision that forgets its identity).
THEOREM QueryCorrect == Spec => []NoOpenQueryAcrossPublication
  <1>1. IInv => NoOpenQueryAcrossPublication
    BY RowType DEF NoOpenQueryAcrossPublication, Queried
  <1> QED
    BY <1>1, Inductive, PTL

\* What may have left the host is sent again only after a retry decision (the recovery
\* of expired claims never makes a sent request pending).
THEOREM RepeatCorrect == Spec => []RepeatedOnlyByDecision
  <1>1. IInv => RepeatedOnlyByDecision
    BY RowType DEF RepeatedOnlyByDecision, Repeated
  <1> QED
    BY <1>1, Inductive, PTL

\* The endpoint forgets a result only when its projection is stored and no recovery can
\* ask for it (project, acknowledge, release).
THEOREM ReleaseCorrect == Spec => []ReleasedAfterProjection
  <1>1. IInv => ReleasedAfterProjection
    BY RowType DEF ReleasedAfterProjection, Released
  <1> QED
    BY <1>1, Inductive, PTL

\* The stages of one job are recovered once, for every order of dispatches, answers and
\* repaired results (the budget of decide_recovery).
THEOREM RecoveryCorrect == Spec => []OneRecoveryPerJob
  <1>1. IInv => OneRecoveryPerJob
    <2> SUFFICES ASSUME IInv, NEW r \in Requests PROVE Cardinality(remote[r].repaired) <= 1
      BY DEF OneRecoveryPerJob
    <2>2. remote[r].repaired \subseteq {1}
      <3>1. remote[r] \in RemoteSet
        BY Types
      <3> QED
        BY <3>1, RowType DEF RemoteSet, Revisions, RecoveredOnce
    <2>3. IsFiniteSet({1}) /\ Cardinality({1}) = 1
      BY FS_Singleton
    <2> QED
      BY <2>2, <2>3, FS_Subset
  <1> QED
    BY <1>1, Inductive, PTL

\* No step writes the rows of a request that is over.
LEMMA TerminalStep ==
  ASSUME IInv, Next, NEW r \in Requests, Box(r) \in Terminal PROVE rows'[r] = rows[r]
  <1>1. CASE RecoverClaims
    BY <1>1, AfterEff DEF RecoverClaims, Terminal
  <1>2. CASE ClaimRows
    <2>1. AfterRecovery[r] = rows[r] /\ AfterRecovery[r].box \notin {"pending", "retry"}
      BY AfterEff DEF Terminal, Box
    <2> QED
      BY <1>2, <2>1 DEF ClaimRows
  <1>3. CASE Restart \/ Deploy
    BY <1>3 DEF Restart, Deploy, Crash, queue
  <1>4. ASSUME NEW q \in Requests, Step(q), q # r PROVE rows'[r] = rows[r]
    BY <1>4, Types
      DEF Step, Prepare, Reserve, NoBackend, RetryPreparation, PublishPreparation, FailPreparation,
       Ingress, Lapse, MarkSending, Publish, SendFails, SendAccepted, SendRefused, Delivered,
       Polling, Ask, NotFound, QueryRefused, QueryFails, QueryUnanswered, Accepted, Received, PollDone,
       DecideRetry, RetryDelivery, Endpoint, Answer, Land, Finish, Returning, Project, Acknowledge, Release, BackFails, Complete,
       Recovering, Recover, RecoveryLands, RecoveryAccepted, RecoveryUncertain, RecoveryRejected, DecideRecovery, RefuseRecovery,
       Write, Move, queue
  <1>5. ASSUME Step(r) PROVE rows'[r] = rows[r]
    <2>1. rows[r].request \in Terminal /\ prep[r].state = "published" /\ Box(r) \in Terminal
      BY RowType DEF Agree, Terminal
    <2>2. CASE Prepare(r)
      BY <2>1, <2>2
        DEF Prepare, Reserve, NoBackend, RetryPreparation, PublishPreparation, FailPreparation,
            Buildable
    <2>3. CASE Ingress(r)
      <3>1. ingress.on # r /\ r \notin held
        <4>1. ASSUME r \in held PROVE FALSE
          BY <2>1, <4>1, TransportAssumption DEF IInv, LanesOK, IngressOK, Terminal
        <4> QED
          BY <4>1, IngressAt
      <3> QED
        BY <2>3, <3>1
          DEF Ingress, Lapse, MarkSending, Publish, SendFails, SendAccepted, SendRefused, Sending,
              queue
    <2>4. CASE Polling(r)
      <3>1. ASSUME poll.on = r PROVE FALSE
        BY <2>1, <3>1, PollAt DEF Pollable, Terminal
      <3>2. Ask(r)
        BY <2>4, <3>1
          DEF Polling, NotFound, QueryRefused, QueryUnanswered, Accepted, Received, PollDone,
              Answered
      <3> QED
        BY <3>2 DEF Ask, queue
    <2>5. CASE DecideRetry(r)
      BY <2>1, <2>5 DEF DecideRetry, Terminal
    <2>6. CASE Endpoint(r)
      BY <2>6 DEF Endpoint, Answer, Land, Finish, queue
    <2>7. ASSUME NEW v \in Revisions PROVE returns[r][v] \notin Open /\ recovery[r][v] \notin Repairing
      <3>1. returns[r][v] \notin Open
        BY <2>1, HeldReturn DEF Terminal
      <3> QED
        BY <3>1, PendingRecovery DEF Open
    <2>8. ASSUME NEW v \in Revisions, Returning(r, v) \/ Recovering(r, v) PROVE rows'[r] = rows[r]
      <3>1. ~(back.on = r /\ back.rev = v)
        BY <2>7, BackAt DEF Open
      <3> QED
        BY <2>8, <3>1
          DEF Returning, Recovering, Project, Acknowledge, Release, BackFails, Complete, Recover,
           RecoveryLands, RecoveryAccepted, RecoveryUncertain, RecoveryRejected, DecideRecovery, RefuseRecovery,
           At, queue
    <2> QED
      BY <1>5, <2>2, <2>3, <2>4, <2>5, <2>6, <2>8 DEF Step
  <1> QED
    BY <1>1, <1>2, <1>3, <1>4, <1>5 DEF Next

\* Nothing moves a finished request: no late delivery, answer, decision, builder or
\* recovery.
THEOREM FinalCorrect == Spec => TerminalIsFinal
  <1>1. IInv /\ [Next]_vars => [\A r \in Requests : Box(r) \in Terminal => rows'[r] = rows[r]]_vars
    BY TerminalStep
  <1> QED
    BY <1>1, Inductive, PTL DEF Spec, TerminalIsFinal

=============================================================================
