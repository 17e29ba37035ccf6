--------------------- MODULE EvidenceOperations_proofs ---------------------
(***************************************************************************)
(* Proofs about evidence operations, for every set of operations and of    *)
(* processes, every verdict, and any number of claims and faults.          *)
(*                                                                         *)
(* Rows ties a row to its result: what is not routed has no place, what is *)
(* not settled has no result, and what is settled was settled by a result  *)
(* that names its place.  Hands says what a thread may rely on between two *)
(* transactions although others write in between.  It survives their steps *)
(* because they only add (Keeps): a return does not go away, a place that  *)
(* was given does not change, and what is settled or was missed stays so.  *)
(***************************************************************************)
EXTENDS EvidenceOperations, TLAPS

\* The domains of TypeOK, one name each.
RowTypes == [state : States, token : Nat, lease : {"none", "running", "lapsed"},
             attempts : 0 .. MaxClaims, route : 0 .. MaxClaims]
Results == [status : Statuses \cup {"open"}, route : 0 .. MaxClaims, told : Reports]
HandTypes == [pc : PCs, op : Operations \cup {Nothing}, n : 0 .. MaxClaims, told : Reports]

\* The return of a request has arrived.
Past(r) == stage[r] \notin {"none", "active"}
\* A request owes nothing: its operation is settled by it, or was not there.
Settles(r) == r \in missed \/ (row[r[1]].state \in Statuses /\ row[r[1]].route = r[2])
\* A return is given up only by a request that owes nothing.
Given(r) == stage[r] \in {"projected", "acknowledged"} => Settles(r)

\* The row of an operation, its result and the request it was sent to.
Agree(o) ==
  /\ row[o].state \in {"absent", "queued", "claimed"} => row[o].route = 0
  /\ row[o].state \notin Statuses => result[o] = Unsettled
  /\ row[o].state \in Statuses =>
       /\ result[o].status = row[o].state
       /\ result[o].route = row[o].route
       /\ result[o].told # "nobody"
  /\ o \in Devices /\ row[o].state = "routed" => row[o].route # 0
  /\ o \in Devices /\ row[o].route # 0 => stage[<<o, row[o].route>>] # "none"
  /\ o \in Devices /\ row[o].state \in Statuses /\ row[o].route # 0 =>
       /\ Past(<<o, row[o].route>>)
       /\ result[o].told \in {"first", "again"}
       /\ result[o].status = verdict[<<o, row[o].route>>]
Rows == \A o \in Operations : Agree(o)

\* What has arrived has a verdict, and only what has arrived is ingested.
Returned ==
  \A r \in Requests :
    /\ Past(r) => verdict[r] \in Verdicts
    /\ r \in ready => Past(r)

\* Where a thread holds a claim, and where it holds a return.
Working == {"held", "done", "retry", "fail", "routed"}
Collecting == {"ingest", "lookup", "settle", "record", "ack"}

\* What a thread relies on between two steps.
Fit(t) ==
  /\ thread[t].pc \in Working => thread[t].op \in Operations /\ thread[t].n \in 1 .. MaxClaims
  /\ thread[t].pc = "done" /\ thread[t].op \in Devices => stage[TestOf(t)] # "none"
  /\ thread[t].pc = "routed" => thread[t].op \notin Devices
  /\ thread[t].pc \in Collecting =>
       thread[t].op \in Devices /\ thread[t].n \in 1 .. MaxClaims /\ Past(Request(t))
  /\ thread[t].pc \in {"ingest", "lookup", "settle"} => thread[t].told \in {"first", "again"}
  /\ thread[t].pc = "settle" => row[thread[t].op].route = thread[t].n
  /\ thread[t].pc \in {"record", "ack"} => Settles(Request(t))
Hands == \A t \in Threads : Fit(t)

GivenUp == \A r \in Requests : Given(r)

\* The inductive invariant.
IInv == TypeOK /\ Rows /\ Returned /\ Hands /\ GivenUp

\* A request is a device operation and a claim number.
LEMMA Pairs ==
  /\ \A o \in Devices, n \in 1 .. MaxClaims :
       <<o, n>> \in Requests /\ <<o, n>>[1] = o /\ <<o, n>>[2] = n
  /\ \A r \in Requests :
       r[1] \in Devices /\ r[1] \in Operations /\ r[2] \in 1 .. MaxClaims /\ r = <<r[1], r[2]>>
  /\ Devices \subseteq Operations
  BY DEF Requests, Operations, Devices

\* A device operation is sent to a request, all others within the bound.
LEMMA Destinations ==
  \A o \in Operations, n \in 1 .. MaxClaims :
    /\ Destination(o, n) \in 0 .. MaxClaims
    /\ o \in Devices => Destination(o, n) \in 1 .. MaxClaims /\ <<o, Destination(o, n)>> \in Requests
  BY EvidenceAssumption, Pairs DEF Destination, Devices

\* The invariant holds at first.
LEMMA InitInv == Init => IInv
  <1> SUFFICES ASSUME Init PROVE IInv
    OBVIOUS
  <1>1. TypeOK
    BY EvidenceAssumption DEF Init, TypeOK, NoRow, Unsettled, Idle, States, PCs, Stages, Reports
  <1>2. Rows /\ Returned /\ GivenUp
    BY Pairs DEF Init, Rows, Agree, Returned, GivenUp, Given, Past, NoRow, Statuses
  <1>3. Hands
    BY DEF Init, Hands, Fit, Idle, Working, Collecting
  <1> QED
    BY <1>1, <1>2, <1>3 DEF IInv

\* A thread goes on with what it holds.
LEMMA Going ==
  ASSUME TypeOK, NEW t \in Threads, NEW pc \in PCs, Goto(t, pc)
  PROVE  /\ thread' \in [Threads -> HandTypes]
         /\ thread'[t].pc = pc /\ thread'[t].op = thread[t].op
         /\ thread'[t].n = thread[t].n /\ thread'[t].told = thread[t].told
         /\ Request(t)' = Request(t) /\ TestOf(t)' = TestOf(t)
         /\ \A u \in Threads \ {t} : thread'[u] = thread[u]
  <1>1. thread \in [Threads -> HandTypes]
    BY DEF TypeOK, HandTypes
  <1>2. thread' = [thread EXCEPT ![t].pc = pc]
    BY DEF Goto
  <1>3. /\ thread' \in [Threads -> HandTypes]
        /\ thread'[t].pc = pc /\ thread'[t].op = thread[t].op
        /\ thread'[t].n = thread[t].n /\ thread'[t].told = thread[t].told
        /\ \A u \in Threads \ {t} : thread'[u] = thread[u]
    BY <1>1, <1>2 DEF HandTypes
  <1> QED
    BY <1>3 DEF Request, TestOf

\* A thread drops what it holds.
LEMMA Resting ==
  ASSUME TypeOK, NEW t \in Threads, Rest(t)
  PROVE  /\ thread' \in [Threads -> HandTypes]
         /\ thread'[t] = Idle
         /\ \A u \in Threads \ {t} : thread'[u] = thread[u]
         /\ Fit(t)'
  <1>1. thread \in [Threads -> HandTypes]
    BY DEF TypeOK, HandTypes
  <1>2. thread' = [thread EXCEPT ![t] = Idle]
    BY DEF Rest
  <1>3. Idle \in HandTypes
    BY EvidenceAssumption DEF Idle, HandTypes, PCs, Reports
  <1>4. thread'[t] = Idle
    BY <1>1, <1>2
  <1>5. Fit(t)'
    BY <1>4 DEF Fit, Idle, Working, Collecting
  <1> QED
    BY <1>1, <1>2, <1>3, <1>5

\* Steps only add.
Keeps ==
  /\ \A r \in Requests : (Past(r) => Past(r)') /\ (stage[r] # "none" => stage'[r] # "none")
  /\ \A r \in Requests : Settles(r) => Settles(r)'
  /\ \A o \in Operations : row[o].route # 0 => row'[o].route = row[o].route

\* What a thread relies on survives the steps of others.
LEMMA FitKept ==
  ASSUME TypeOK, Keeps, NEW t \in Threads, Fit(t), thread'[t] = thread[t]
  PROVE  Fit(t)'
  <1>1. TestOf(t)' = TestOf(t) /\ Request(t)' = Request(t)
    BY DEF TestOf, Request
  <1>2. ASSUME thread[t].pc \in Working PROVE TestOf(t) \in Requests \/ thread[t].op \notin Devices
    BY <1>2, Destinations DEF Fit, TestOf
  <1>3. ASSUME thread[t].pc \in Collecting PROVE Request(t) \in Requests /\ thread[t].op \in Operations /\ thread[t].n # 0
    BY <1>3, Pairs DEF Fit, Request
  <1>4. (thread[t].pc \in Collecting => Past(Request(t))')
    BY <1>1, <1>3 DEF Fit, Keeps, Past
  <1>5. (thread[t].pc \in {"record", "ack"} => Settles(Request(t))')
    BY <1>1, <1>3 DEF Fit, Keeps, Settles, Collecting
  <1>6. (thread[t].pc = "settle" => row'[thread[t].op].route = thread[t].n)
    BY <1>3 DEF Fit, Keeps, Collecting
  <1>7. (thread[t].pc = "done" /\ thread[t].op \in Devices => stage'[TestOf(t)] # "none")
    BY <1>2 DEF Fit, Keeps, Working
  <1> QED
    BY <1>1, <1>4, <1>5, <1>6, <1>7 DEF Fit

\* So does what all threads rely on.
LEMMA HandsKept ==
  ASSUME TypeOK, Hands, Keeps, \A u \in Threads : thread'[u] = thread[u] \/ Fit(u)'
  PROVE  Hands'
  BY FitKept DEF Hands

\* A step of a thread that touches neither rows nor requests.
LEMMA ThreadStep ==
  ASSUME IInv,
         thread' \in [Threads -> HandTypes], \A u \in Threads : thread'[u] = thread[u] \/ Fit(u)',
         UNCHANGED <<operations, returns>>,
         ready' \subseteq Requests, \A r \in ready' : Past(r),
         ingested' \subseteq Requests, missed \subseteq missed', missed' \subseteq Requests,
         faults' \in 0 .. MaxFaults
  PROVE  IInv'
  <1>1. Keeps
    BY DEF Keeps, Past, Settles, operations, returns
  <1>2. TypeOK'
    BY DEF IInv, TypeOK, HandTypes, operations, returns
  <1>3. Rows'
    BY DEF IInv, Rows, Agree, Past, operations, returns
  <1>4. Returned' /\ GivenUp'
    BY DEF IInv, Returned, GivenUp, Given, Past, Settles, operations, returns
  <1>5. Hands'
    BY <1>1, HandsKept DEF IInv
  <1> QED
    BY <1>2, <1>3, <1>4, <1>5 DEF IInv

\* A row that is written agrees again, and keeps its place and its end.
Moved(o) ==
  /\ Agree(o)'
  /\ row[o].route # 0 => row'[o].route = row[o].route
  /\ row[o].state \in Statuses => row'[o].state \in Statuses /\ row'[o].route = row[o].route

\* A step that writes rows and results.
LEMMA RowStep ==
  ASSUME IInv,
         row' \in [Operations -> RowTypes], result' \in [Operations -> Results],
         \A o \in Operations : (row'[o] = row[o] /\ result'[o] = result[o]) \/ Moved(o),
         order' \in Seq(Operations),
         thread' \in [Threads -> HandTypes], \A u \in Threads : thread'[u] = thread[u] \/ Fit(u)',
         UNCHANGED <<returns, projections, faults>>
  PROVE  IInv'
  <1>1. Keeps
    <2>1. \A r \in Requests : Settles(r) => Settles(r)'
      BY Pairs DEF Settles, projections, Moved
    <2> QED
      BY <2>1 DEF Keeps, Past, returns, Moved
  <1>2. TypeOK'
    BY DEF IInv, TypeOK, HandTypes, RowTypes, Results, returns, projections
  <1>3. Rows'
    BY DEF IInv, Rows, Agree, Past, returns, Moved
  <1>4. Returned'
    BY DEF IInv, Returned, Past, returns, projections
  <1>5. GivenUp'
    BY <1>1 DEF IInv, GivenUp, Given, Keeps, returns
  <1>6. Hands'
    BY <1>1, HandsKept DEF IInv
  <1> QED
    BY <1>2, <1>3, <1>4, <1>5, <1>6 DEF IInv

\* A step that moves one request.
LEMMA StageStep ==
  ASSUME IInv, NEW r \in Requests, NEW s \in Stages, stage' = [stage EXCEPT ![r] = s],
         verdict' \in [Requests -> Verdicts \cup {"open"}], arrivals' \in Seq(Requests),
         \A q \in Requests \ {r} : verdict'[q] = verdict[q],
         stage[r] # "none" => s # "none",
         Past(r) => s \notin {"none", "active"} /\ verdict'[r] = verdict[r],
         s \notin {"none", "active"} => verdict'[r] \in Verdicts,
         s \in {"projected", "acknowledged"} => Settles(r),
         thread' \in [Threads -> HandTypes], \A u \in Threads : thread'[u] = thread[u] \/ Fit(u)',
         UNCHANGED <<operations, projections, faults>>
  PROVE  IInv'
  <1>1. \A q \in Requests : stage'[q] = IF q = r THEN s ELSE stage[q]
    BY DEF IInv, TypeOK
  <1>2. Keeps
    <2>1. \A q \in Requests : Settles(q) => Settles(q)'
      BY DEF Settles, operations, projections
    <2> QED
      BY <1>1, <2>1 DEF Keeps, Past, operations
  <1>3. TypeOK'
    BY DEF IInv, TypeOK, HandTypes, operations, projections
  <1>4. Rows'
    <2> SUFFICES ASSUME NEW o \in Operations PROVE Agree(o)'
      BY DEF Rows
    <2>1. Agree(o) /\ row'[o] = row[o] /\ result'[o] = result[o] /\ row[o].route \in 0 .. MaxClaims
      BY DEF IInv, TypeOK, Rows, operations
    <2>2. o \in Devices /\ row[o].route # 0 => <<o, row[o].route>> \in Requests
      BY <2>1, Pairs
    <2> QED
      BY <1>1, <2>1, <2>2 DEF Agree, Past
  <1>5. Returned'
    BY <1>1 DEF IInv, Returned, Past, projections
  <1>6. GivenUp'
    BY <1>1, <1>2 DEF IInv, GivenUp, Given, Keeps
  <1>7. Hands'
    BY <1>2, HandsKept DEF IInv
  <1> QED
    BY <1>3, <1>4, <1>5, <1>6, <1>7 DEF IInv

\* Execute keeps the invariant.
LEMMA ExecuteInv ==
  ASSUME IInv, NEW t \in Threads, Execute(t)
  PROVE  IInv'
  <1> USE DEF IInv
  <1>1. PICK pc \in {"done", "retry", "fail"} : Goto(t, pc) /\ pc \in PCs
    BY DEF Execute, PCs
  <1>2. thread[t].pc = "held" /\ thread[t].op \notin Devices /\ Fit(t)
    BY DEF Execute, At, Hands
  <1>3. Fit(t)'
    BY <1>1, <1>2, Going DEF Fit, PCs, Working, Collecting
  <1> QED
    BY <1>1, <1>3, Going, ThreadStep DEF Execute, TypeOK, Returned, Calm, projections

\* A thread gives up.
LEMMA RestInv ==
  ASSUME IInv, NEW t \in Threads, Rest(t), UNCHANGED <<operations, returns, projections>>,
         faults' \in 0 .. MaxFaults
  PROVE  IInv'
  BY Resting, ThreadStep DEF IInv, TypeOK, Returned, projections

\* A thread takes a return.
LEMMA IngestingInv ==
  ASSUME IInv, NEW t \in Threads, NEW r \in Requests, Ingesting(t, r), Past(r), ready' \subseteq ready \cup {r},
         UNCHANGED <<operations, returns, ingested, missed, faults>>
  PROVE  IInv'
  <1> USE DEF IInv
  <1> DEFINE h == [pc |-> "ingest", op |-> r[1], n |-> r[2], told |-> Report(r)]
  <1>1. h \in HandTypes /\ h.told \in {"first", "again"}
    BY Pairs DEF HandTypes, PCs, Reports, Report
  <1>2. thread' = [thread EXCEPT ![t] = h]
    BY DEF Ingesting
  <1>3. thread' \in [Threads -> HandTypes] /\ thread'[t] = h /\ \A u \in Threads \ {t} : thread'[u] = thread[u]
    BY <1>1, <1>2 DEF TypeOK, HandTypes
  <1>4. Fit(t)'
    BY <1>1, <1>3, Pairs DEF Fit, Working, Collecting, Request, Past, returns
  <1> QED
    BY <1>3, <1>4, ThreadStep DEF TypeOK, Returned

\* Collect keeps the invariant.
LEMMA CollectInv ==
  ASSUME IInv, NEW t \in Threads, NEW r \in Requests, Collect(t, r)
  PROVE  IInv'
  BY IngestingInv DEF Collect, Past, Calm

\* Reconcile keeps the invariant.
LEMMA ReconcileInv ==
  ASSUME IInv, NEW t \in Threads, NEW r \in Requests, Reconcile(t, r)
  PROVE  IInv'
  BY IngestingInv DEF Reconcile, Calm, projections, IInv, Returned

\* Ingest keeps the invariant.
LEMMA IngestInv ==
  ASSUME IInv, NEW t \in Threads, Ingest(t)
  PROVE  IInv'
  <1> USE DEF IInv
  <1>1. Fit(t) /\ thread[t].pc = "ingest" /\ Request(t) \in Requests
    BY Pairs DEF Ingest, At, Hands, Fit, Request, Collecting
  <1>2. PICK x \in {"first", "again"} : thread' = [thread EXCEPT ![t].pc = "lookup", ![t].told = x]
    <2> DEFINE x == IF thread[t].op \in Tests THEN Report(Request(t)) ELSE thread[t].told
    <2>1. x \in {"first", "again"}
      BY <1>1 DEF Fit, Report
    <2>2. thread' = [thread EXCEPT ![t].pc = "lookup", ![t].told = x]
      BY DEF Ingest, TypeOK
    <2> QED
      BY <2>1, <2>2
  <1>3. /\ thread' \in [Threads -> HandTypes] /\ \A u \in Threads \ {t} : thread'[u] = thread[u]
        /\ thread'[t].pc = "lookup" /\ thread'[t].op = thread[t].op
        /\ thread'[t].n = thread[t].n /\ thread'[t].told = x
    BY <1>2 DEF TypeOK, HandTypes, PCs, Reports
  <1>4. Request(t)' = Request(t)
    BY <1>3 DEF Request
  <1>5. Fit(t)'
    BY <1>1, <1>3, <1>4 DEF Fit, Working, Collecting, Past, Ingest, returns
  <1> QED
    BY <1>1, <1>3, <1>5, ThreadStep DEF Ingest, TypeOK, Returned, Calm

\* A thread is done with the workflow side of a return.
LEMMA ProceedInv ==
  ASSUME IInv, NEW t \in Threads, thread[t].pc \in Collecting, Proceed(t),
         UNCHANGED <<operations, returns, ready, ingested, faults>>,
         missed \subseteq missed', missed' \subseteq Requests,
         Request(t) \in missed' \/ (row[thread[t].op].state \in Statuses /\ row[thread[t].op].route = thread[t].n)
  PROVE  IInv'
  <1> USE DEF IInv
  <1>1. CASE Rest(t)
    BY <1>1, Resting, ThreadStep DEF TypeOK, Returned
  <1>2. CASE Goto(t, "record")
    <2>1. Settles(Request(t))'
      BY <1>2, Going DEF PCs, Request, Settles, operations
    <2>2. Fit(t)'
      BY <1>2, <2>1, Going DEF Fit, Hands, PCs, Working, Collecting, Past, returns
    <2> QED
      BY <1>2, <2>2, Going, ThreadStep DEF TypeOK, Returned, PCs
  <1> QED
    BY <1>1, <1>2 DEF Proceed

\* Lookup keeps the invariant.
LEMMA LookupInv ==
  ASSUME IInv, NEW t \in Threads, Lookup(t)
  PROVE  IInv'
  <1> USE DEF IInv
  <1>1. Fit(t) /\ thread[t].pc = "lookup" /\ Request(t) \in Requests
    BY Pairs DEF Lookup, At, Hands, Fit, Request, Collecting
  <1>2. CASE IsRouted(Request(t))
    <2>1. Goto(t, "settle") /\ UNCHANGED missed
      BY <1>2 DEF Lookup
    <2>2. row[thread[t].op].route = thread[t].n
      BY <1>2 DEF IsRouted, Request
    <2>3. Fit(t)'
      BY <1>1, <2>1, <2>2, Going DEF Fit, PCs, Working, Collecting, Past, Lookup, operations, returns
    <2> QED
      BY <2>1, <2>3, Going, ThreadStep DEF Lookup, TypeOK, Returned, Calm, PCs
  <1>3. CASE ~IsRouted(Request(t))
    <2>1. Proceed(t) /\ missed' = missed \cup {Request(t)}
      BY <1>3 DEF Lookup
    <2> QED
      BY <1>1, <2>1, ProceedInv DEF Lookup, TypeOK, Collecting, Calm
  <1> QED
    BY <1>2, <1>3

\* Mishap keeps the invariant.
LEMMA MishapInv ==
  ASSUME IInv, NEW t \in Threads, Mishap(t)
  PROVE  IInv'
  <1> USE DEF IInv
  <1>1. faults' \in 0 .. MaxFaults /\ UNCHANGED <<operations, returns, projections>>
    BY EvidenceAssumption DEF Mishap, Fault, TypeOK
  <1>2. CASE Rest(t)
    BY <1>1, <1>2, RestInv
  <1>3. CASE thread[t].pc = "routed" /\ Goto(t, "fail")
    <2>1. Fit(t)'
      BY <1>3, Going DEF Fit, Hands, PCs, Working, Collecting
    <2>2. thread' \in [Threads -> HandTypes] /\ \A u \in Threads : thread'[u] = thread[u] \/ Fit(u)'
      BY <1>3, <2>1, Going DEF PCs
    <2> QED
      BY <1>1, <2>2, ThreadStep DEF TypeOK, Returned, projections
  <1> QED
    BY <1>2, <1>3 DEF Mishap, At

\* Crash keeps the invariant.
LEMMA CrashInv ==
  ASSUME IInv, NEW p \in Processes, Crash(p)
  PROVE  IInv'
  <1> USE DEF IInv
  <1>1. faults' \in 0 .. MaxFaults /\ UNCHANGED <<operations, returns, projections>>
    BY EvidenceAssumption DEF Crash, Fault, TypeOK
  <1>2. /\ thread' \in [Threads -> HandTypes]
        /\ \A u \in Threads : thread'[u] = thread[u] \/ thread'[u] = Idle
    BY EvidenceAssumption DEF Crash, TypeOK, HandTypes, Idle, PCs, Reports
  <1>3. \A u \in Threads : thread'[u] = thread[u] \/ Fit(u)'
    BY <1>2 DEF Fit, Idle, Working, Collecting
  <1> QED
    BY <1>1, <1>2, <1>3, ThreadStep DEF TypeOK, Returned, projections

\* Resume keeps the invariant.
LEMMA ResumeInv ==
  ASSUME IInv, NEW t \in Threads, NEW r \in Requests, Resume(t, r)
  PROVE  IInv'
  <1> USE DEF IInv
  <1> DEFINE h == [pc |-> "ack", op |-> r[1], n |-> r[2], told |-> "nobody"]
  <1>1. h \in HandTypes
    BY Pairs DEF HandTypes, PCs, Reports
  <1>2. thread' = [thread EXCEPT ![t] = h]
    BY DEF Resume
  <1>3. thread' \in [Threads -> HandTypes] /\ thread'[t] = h /\ \A u \in Threads \ {t} : thread'[u] = thread[u]
    BY <1>1, <1>2 DEF TypeOK, HandTypes
  <1>4. Settles(r)' /\ Past(r)' /\ Request(t)' = r
    <2>1. Settles(r) /\ Past(r)
      BY DEF Resume, GivenUp, Given, Past
    <2> QED
      BY <1>3, <2>1, Pairs DEF Resume, Settles, Past, Request, operations, returns, projections
  <1>5. Fit(t)'
    BY <1>3, <1>4, Pairs DEF Fit, Working, Collecting
  <1> QED
    BY <1>3, <1>5, ThreadStep DEF Resume, Calm, TypeOK, Returned, projections

\* Return keeps the invariant.
LEMMA ReturnInv ==
  ASSUME IInv, NEW r \in Requests, Return(r)
  PROVE  IInv'
  <1> USE DEF IInv
  <1>1. PICK s \in {"received", "recoverable"} : stage' = [stage EXCEPT ![r] = s]
    BY DEF Return
  <1>2. PICK v \in Verdicts : verdict' = [verdict EXCEPT ![r] = v]
    BY DEF Return
  <1>3. /\ verdict' \in [Requests -> Verdicts \cup {"open"}] /\ arrivals' \in Seq(Requests)
        /\ verdict'[r] \in Verdicts /\ \A q \in Requests \ {r} : verdict'[q] = verdict[q]
        /\ thread' \in [Threads -> HandTypes] /\ \A u \in Threads : thread'[u] = thread[u]
    BY <1>2 DEF Return, TypeOK, HandTypes
  <1>4. s \in Stages /\ stage[r] = "active" /\ ~Past(r) /\ s \notin {"none", "active", "projected", "acknowledged"}
    BY DEF Return, Stages, Past
  <1> QED
    BY <1>1, <1>3, <1>4, StageStep DEF Return, Calm

\* A request that has returned moves on.
LEMMA StageAlone ==
  ASSUME IInv, NEW r \in Requests, NEW s \in Stages \ {"none", "active"}, Past(r),
         stage' = [stage EXCEPT ![r] = s], s \in {"projected", "acknowledged"} => Settles(r),
         thread' \in [Threads -> HandTypes], \A u \in Threads : thread'[u] = thread[u] \/ Fit(u)',
         UNCHANGED <<operations, projections, verdict, arrivals, faults>>
  PROVE  IInv'
  <1> USE DEF IInv
  <1>1. verdict[r] \in Verdicts
    BY DEF Returned
  <1> QED
    BY <1>1, StageStep DEF TypeOK

\* Hold keeps the invariant.
LEMMA HoldInv ==
  ASSUME IInv, NEW t \in Threads, NEW r \in Requests, Hold(t, r)
  PROVE  IInv'
  <1>1. thread' \in [Threads -> HandTypes] /\ \A u \in Threads : thread'[u] = thread[u]
    BY DEF Hold, IInv, TypeOK, HandTypes
  <1> QED
    BY <1>1, StageAlone DEF Hold, Past, Stages, Calm

\* Decide keeps the invariant.
LEMMA DecideInv ==
  ASSUME IInv, NEW r \in Requests, Decide(r)
  PROVE  IInv'
  <1>1. thread' \in [Threads -> HandTypes] /\ \A u \in Threads : thread'[u] = thread[u]
    BY DEF Decide, IInv, TypeOK, HandTypes
  <1> QED
    BY <1>1, StageAlone DEF Decide, Past, Stages, Calm

\* Record keeps the invariant.
LEMMA RecordInv ==
  ASSUME IInv, NEW t \in Threads, Record(t)
  PROVE  IInv'
  <1> USE DEF IInv
  <1>1. Request(t) \in Requests /\ Past(Request(t)) /\ Settles(Request(t)) /\ Fit(t) /\ thread[t].pc = "record"
    BY Pairs DEF Record, At, Hands, Fit, Request, Collecting
  <1>2. PICK s \in Stages \ {"none", "active"} :
          /\ stage' = [stage EXCEPT ![Request(t)] = s]
    BY <1>1 DEF Record, TypeOK, Stages, Past
  <1>3. /\ thread' \in [Threads -> HandTypes] /\ thread'[t].pc = "ack" /\ thread'[t].op = thread[t].op
        /\ thread'[t].n = thread[t].n /\ Request(t)' = Request(t)
        /\ \A u \in Threads \ {t} : thread'[u] = thread[u]
    BY Going DEF Record, PCs
  <1>4. Past(Request(t))'
    BY <1>1, <1>2, <1>3 DEF Past, TypeOK
  <1>5. Settles(Request(t))'
    BY <1>1, <1>3 DEF Settles, Record, operations, projections
  <1>6. Fit(t)'
    BY <1>1, <1>3, <1>4, <1>5 DEF Fit, Working, Collecting
  <1> QED
    BY <1>1, <1>2, <1>3, <1>6, StageAlone DEF Record, Calm

\* Acknowledge keeps the invariant.
LEMMA AcknowledgeInv ==
  ASSUME IInv, NEW t \in Threads, Acknowledge(t)
  PROVE  IInv'
  <1> USE DEF IInv
  <1>1. Request(t) \in Requests /\ Past(Request(t)) /\ Settles(Request(t))
    BY Pairs DEF Acknowledge, At, Hands, Fit, Request, Collecting
  <1>2. "acknowledged" \in Stages \ {"none", "active"}
    BY DEF Stages
  <1> QED
    BY <1>1, <1>2, Resting, StageAlone DEF Acknowledge, Calm

\* Dispatch keeps the invariant.
LEMMA DispatchInv ==
  ASSUME IInv, NEW t \in Threads, Dispatch(t)
  PROVE  IInv'
  <1> USE DEF IInv
  <1>1. /\ Fit(t) /\ thread[t].pc = "held" /\ thread[t].op \in Devices /\ thread[t].n \in 1 .. MaxClaims
        /\ TestOf(t) \in Requests
    BY Pairs, Destinations DEF Dispatch, At, Hands, Fit, TestOf, Working
  <1>2. ASSUME NEW pc \in {"retry", "fail"}, Goto(t, pc), UNCHANGED stage
        PROVE  IInv'
    <2>1. pc \in PCs
      BY DEF PCs
    <2>2. Fit(t)'
      BY <1>1, <1>2, <2>1, Going DEF Fit, Working, Collecting
    <2> QED
      BY <1>2, <2>1, <2>2, Going, ThreadStep DEF Dispatch, returns, Calm, TypeOK, Returned, projections
  <1>3. CASE stage' = [stage EXCEPT ![TestOf(t)] = Publish(@)] /\ Goto(t, "done")
    <2> DEFINE s == Publish(stage[TestOf(t)])
    <2>1. s \in Stages /\ s # "none" /\ (Past(TestOf(t)) => s = stage[TestOf(t)])
          /\ (s \notin {"none", "active"} => s = stage[TestOf(t)] /\ Past(TestOf(t)))
      BY <1>1 DEF Publish, Stages, Past, TypeOK
    <2>2. stage' = [stage EXCEPT ![TestOf(t)] = s]
      BY <1>3
    <2>3. stage'[TestOf(t)] # "none"
      BY <1>1, <2>1, <2>2 DEF TypeOK
    <2>4. Fit(t)'
      BY <1>1, <1>3, <2>3, Going DEF Fit, PCs, Working, Collecting
    <2>5. (s \in {"projected", "acknowledged"} => Settles(TestOf(t)))
      BY <1>1, <2>1 DEF GivenUp, Given
    <2>6. (Past(TestOf(t)) => s \notin {"none", "active"} /\ verdict[TestOf(t)] \in Verdicts)
      BY <1>1, <2>1 DEF Returned, Past
    <2>7. thread' \in [Threads -> HandTypes] /\ \A u \in Threads : thread'[u] = thread[u] \/ Fit(u)'
      BY <1>3, <2>4, Going DEF PCs
    <2> HIDE DEF s
    <2> QED
      BY <1>1, <2>1, <2>2, <2>5, <2>6, <2>7, StageStep DEF Dispatch, Calm, TypeOK
  <1> QED
    BY <1>2, <1>3 DEF Dispatch

\* The columns of the row that is written and of the others.
LEMMA Written ==
  ASSUME TypeOK, NEW o \in Operations, NEW x \in RowTypes, row' = [row EXCEPT ![o] = x]
  PROVE  /\ row' \in [Operations -> RowTypes] /\ row'[o] = x
         /\ \A u \in Operations \ {o} : row'[u] = row[u]
  BY DEF TypeOK, RowTypes

\* A row stays within its domain when its columns do.
LEMMA Changed ==
  ASSUME TypeOK, NEW o \in Operations
  PROVE  /\ [row[o] EXCEPT !.lease = "lapsed"] \in RowTypes
         /\ [row[o] EXCEPT !.token = 0, !.lease = "running"] \in RowTypes
         /\ \A s \in States :
              /\ [row[o] EXCEPT !.state = s] \in RowTypes
              /\ [row[o] EXCEPT !.state = s, !.token = 0, !.lease = "none"] \in RowTypes
              /\ \A n \in 0 .. MaxClaims :
                   [row[o] EXCEPT !.state = s, !.token = 0, !.lease = "none", !.route = n] \in RowTypes
  <1> row[o] \in RowTypes
    BY DEF TypeOK, RowTypes
  <1> QED
    BY DEF RowTypes

\* Register keeps the invariant.
LEMMA RegisterInv ==
  ASSUME IInv, NEW o \in Operations, Register(o)
  PROVE  IInv'
  <1> USE DEF IInv
  <1>0. [row[o] EXCEPT !.state = "queued"] \in RowTypes
    BY Changed DEF States
  <1>1. /\ row' = [row EXCEPT ![o] = [row[o] EXCEPT !.state = "queued"]] /\ result' = result
        /\ row' \in [Operations -> RowTypes] /\ result' \in [Operations -> Results]
        /\ order' \in Seq(Operations) /\ thread' \in [Threads -> HandTypes]
        /\ \A u \in Threads : thread'[u] = thread[u]
    <2>1. row' = [row EXCEPT ![o] = [row[o] EXCEPT !.state = "queued"]]
      BY DEF Register, TypeOK
    <2>2. order' \in Seq(Operations)
      BY DEF Register, TypeOK
    <2> QED
      BY <1>0, <2>1, <2>2, Written DEF Register, TypeOK, Results, HandTypes
  <1>2. row[o].route = 0 /\ result[o] = Unsettled /\ row[o].state = "absent"
    BY DEF Register, Rows, Agree, Statuses
  <1>3. row'[o].route = 0 /\ row'[o].state = "queued" /\ \A u \in Operations \ {o} : row'[u] = row[u]
    BY <1>1, <1>2 DEF TypeOK, RowTypes
  <1>4. Moved(o)
    BY <1>1, <1>2, <1>3 DEF Moved, Agree, Statuses
  <1> QED
    BY <1>1, <1>3, <1>4, RowStep DEF Register, Calm

\* A row whose state, place and result stay agrees as before.
LEMMA SameRoute ==
  ASSUME IInv, NEW o \in Operations, row'[o].state = row[o].state, row'[o].route = row[o].route,
         result'[o] = result[o], UNCHANGED returns
  PROVE  Moved(o)
  BY DEF IInv, Rows, Agree, Moved, Past, returns

\* Lapse keeps the invariant.
LEMMA LapseInv ==
  ASSUME IInv, NEW o \in Operations, Lapse(o)
  PROVE  IInv'
  <1> USE DEF IInv
  <1>0. [row[o] EXCEPT !.lease = "lapsed"] \in RowTypes
    BY Changed
  <1>1. /\ row' = [row EXCEPT ![o] = [row[o] EXCEPT !.lease = "lapsed"]] /\ result' = result
        /\ row' \in [Operations -> RowTypes] /\ result' \in [Operations -> Results]
        /\ order' \in Seq(Operations) /\ thread' \in [Threads -> HandTypes]
        /\ \A u \in Threads : thread'[u] = thread[u]
    <2>1. row' = [row EXCEPT ![o] = [row[o] EXCEPT !.lease = "lapsed"]]
      BY DEF Lapse, TypeOK
    <2> QED
      BY <1>0, <2>1, Written DEF Lapse, TypeOK, Results, HandTypes
  <1>2. /\ row'[o].route = row[o].route /\ row'[o].state = row[o].state
        /\ \A u \in Operations \ {o} : row'[u] = row[u]
    BY <1>1 DEF TypeOK, RowTypes
  <1>3. Moved(o)
    BY <1>1, <1>2, SameRoute DEF Lapse
  <1> QED
    BY <1>1, <1>2, <1>3, RowStep DEF Lapse, Calm

\* Defer keeps the invariant.
LEMMA DeferInv ==
  ASSUME IInv, NEW t \in Threads, Defer(t)
  PROVE  IInv'
  <1> USE DEF IInv
  <1>1. thread[t].op \in Operations
    BY DEF Defer, At, Hands, Fit, Working
  <1>o. PICK o \in Operations : o = thread[t].op
    BY <1>1
  <1>2. CASE row' = row
    BY <1>2, RowStep, Resting DEF Defer, Calm, TypeOK, RowTypes, Results
  <1>3. CASE row' = [row EXCEPT ![o] = [@ EXCEPT !.token = 0, !.lease = "running"]]
    <2>1. /\ row' \in [Operations -> RowTypes]
          /\ row'[o].route = row[o].route /\ row'[o].state = row[o].state
          /\ \A u \in Operations \ {o} : row'[u] = row[u]
      <3>1. [row[o] EXCEPT !.token = 0, !.lease = "running"] \in RowTypes
        BY <1>1, Changed
      <3>2. row' = [row EXCEPT ![o] = [row[o] EXCEPT !.token = 0, !.lease = "running"]]
        BY <1>3
      <3> QED
        BY <1>1, <3>1, <3>2, Written DEF TypeOK, RowTypes
    <2>2. result' = result /\ UNCHANGED <<returns, projections, faults, order>>
      BY DEF Defer, Calm
    <2>3. Moved(o)
      BY <1>1, <2>1, <2>2, SameRoute
    <2> QED
      BY <2>1, <2>2, <2>3, RowStep, Resting DEF Defer, TypeOK, Results
  <1> QED
    BY <1>o, <1>2, <1>3 DEF Defer

\* What complete_evidence_operation writes.
LEMMA Completion ==
  ASSUME IInv, NEW o \in Operations, NEW res \in Outcomes, Accepts(o, res), Complete(o, res)
  PROVE  /\ row' \in [Operations -> RowTypes] /\ result' \in [Operations -> Results]
         /\ row[o].state \notin Statuses
         /\ row'[o].state = res.status /\ row'[o].route = row[o].route /\ row'[o].route = res.route
         /\ result'[o] = res
         /\ \A u \in Operations \ {o} : row'[u] = row[u] /\ result'[u] = result[u]
  <1> USE DEF IInv
  <1>1. row' = [row EXCEPT ![o] = [@ EXCEPT !.state = res.status, !.token = 0, !.lease = "none"]]
    BY DEF Complete
  <1>2. result' = [result EXCEPT ![o] = res]
    BY DEF Complete
  <1>3. res.status \in Statuses /\ res \in Results /\ res.status \in States
    BY DEF Outcomes, Results, Reports, States
  <1>4. /\ row' \in [Operations -> RowTypes]
        /\ row'[o].state = res.status /\ row'[o].route = row[o].route
        /\ \A u \in Operations \ {o} : row'[u] = row[u]
    <2>1. [row[o] EXCEPT !.state = res.status, !.token = 0, !.lease = "none"] \in RowTypes
      BY <1>3, Changed
    <2>2. row' = [row EXCEPT ![o] = [row[o] EXCEPT !.state = res.status, !.token = 0, !.lease = "none"]]
      BY <1>1
    <2> QED
      BY <2>1, <2>2, Written DEF TypeOK, RowTypes
  <1>5. /\ result' \in [Operations -> Results] /\ result'[o] = res
        /\ \A u \in Operations \ {o} : result'[u] = result[u]
    BY <1>2, <1>3 DEF TypeOK, Results
  <1> QED
    BY <1>4, <1>5 DEF Accepts, Statuses

\* A completion agrees when it comes from the return of the place.
LEMMA CompletionMoved ==
  ASSUME IInv, NEW o \in Operations, NEW res \in Outcomes, Accepts(o, res), Complete(o, res),
         UNCHANGED returns,
         o \in Devices /\ res.route # 0 =>
           /\ Past(<<o, res.route>>) /\ res.told \in {"first", "again"}
           /\ res.status = verdict[<<o, res.route>>]
  PROVE  Moved(o)
  <1>1. Agree(o)
    BY DEF IInv, Rows
  <1>2. res.status \in Statuses /\ res.told # "nobody"
    BY DEF Outcomes
  <1>3. "routed" \notin Statuses /\ "absent" \notin Statuses /\ "queued" \notin Statuses /\ "claimed" \notin Statuses
    BY DEF Statuses
  <1> QED
    BY <1>1, <1>2, <1>3, Completion DEF Agree, Moved, Past, returns

\* Fail keeps the invariant.
LEMMA FailInv ==
  ASSUME IInv, NEW t \in Threads, Fail(t)
  PROVE  IInv'
  <1> USE DEF IInv
  <1>o. PICK o \in Operations : o = thread[t].op
    BY DEF Fail, At, Hands, Fit, Working
  <1>p. PICK res : res = FromWorker("failed", 0)
    OBVIOUS
  <1>1. res \in Outcomes /\ res.route = 0
    BY <1>p, EvidenceAssumption DEF Fail, At, Hands, Fit, Working, FromWorker, Outcomes, Statuses
  <1>2. CASE UNCHANGED <<row, result>>
    BY <1>2, RowStep, Resting DEF Fail, Calm, TypeOK, RowTypes, Results
  <1>3. CASE Accepts(o, res) /\ Complete(o, res)
    <2>1. Moved(o)
      BY <1>1, <1>3, CompletionMoved DEF Fail
    <2>2. Rest(t) /\ order' = order /\ UNCHANGED <<returns, projections, faults>>
      BY DEF Fail, Calm
    <2>3. thread' \in [Threads -> HandTypes] /\ \A u \in Threads : thread'[u] = thread[u] \/ Fit(u)'
      BY <2>2, Resting
    <2> QED
      BY <1>1, <1>3, <2>1, <2>2, <2>3, Completion, RowStep DEF TypeOK
  <1> QED
    BY <1>o, <1>p, <1>2, <1>3 DEF Fail

\* Finish keeps the invariant.
LEMMA FinishInv ==
  ASSUME IInv, NEW t \in Threads, Finish(t)
  PROVE  IInv'
  <1> USE DEF IInv
  <1>o. PICK o \in Operations : o = thread[t].op
    BY DEF Finish, At, Hands, Fit, Working
  <1>p. PICK res : res = FromWorker("completed", Destination(o, thread[t].n))
    OBVIOUS
  <1>1. thread[t].pc = "routed" /\ Fit(t) /\ o \notin Devices /\ thread[t].n \in 1 .. MaxClaims
    BY <1>o DEF Finish, At, Hands, Fit, Working
  <1>2. res \in Outcomes
    BY <1>1, <1>p, Destinations DEF FromWorker, Outcomes, Statuses
  <1>3. CASE Goto(t, "fail") /\ UNCHANGED <<row, result>>
    <2>1. Fit(t)'
      BY <1>1, <1>3, Going DEF Fit, PCs, Working, Collecting
    <2>2. thread' \in [Threads -> HandTypes] /\ \A u \in Threads : thread'[u] = thread[u] \/ Fit(u)'
      BY <1>3, <2>1, Going DEF PCs
    <2> QED
      BY <1>3, <2>2, RowStep DEF Finish, Calm, TypeOK, RowTypes, Results
  <1>4. CASE Accepts(o, res) /\ Complete(o, res) /\ Rest(t)
    <2>1. Moved(o)
      BY <1>1, <1>2, <1>4, CompletionMoved DEF Finish
    <2>2. order' = order /\ UNCHANGED <<returns, projections, faults>>
      BY DEF Finish, Calm
    <2>3. thread' \in [Threads -> HandTypes] /\ \A u \in Threads : thread'[u] = thread[u] \/ Fit(u)'
      BY <1>4, Resting
    <2> QED
      BY <1>1, <1>2, <1>4, <2>1, <2>2, <2>3, Completion, RowStep DEF TypeOK
  <1> QED
    BY <1>o, <1>p, <1>3, <1>4 DEF Finish

\* A thread goes on once its operation is settled.
LEMMA Proceeding ==
  ASSUME IInv, NEW t \in Threads, thread[t].pc \in Collecting, Proceed(t), UNCHANGED <<returns, projections>>,
         row'[thread[t].op].state \in Statuses, row'[thread[t].op].route = thread[t].n
  PROVE  thread' \in [Threads -> HandTypes] /\ \A u \in Threads : thread'[u] = thread[u] \/ Fit(u)'
  <1> USE DEF IInv
  <1>1. CASE Rest(t)
    BY <1>1, Resting
  <1>2. CASE Goto(t, "record")
    <2>1. Settles(Request(t))'
      BY <1>2, Going DEF PCs, Request, Settles
    <2>2. Fit(t)'
      BY <1>2, <2>1, Going DEF Fit, Hands, PCs, Working, Collecting, Past, returns
    <2> QED
      BY <1>2, <2>2, Going DEF PCs
  <1> QED
    BY <1>1, <1>2 DEF Proceed

\* Settle keeps the invariant.
LEMMA SettleInv ==
  ASSUME IInv, NEW t \in Threads, Settle(t)
  PROVE  IInv'
  <1> USE DEF IInv
  <1>o. PICK o \in Operations : o = thread[t].op
    BY Pairs DEF Settle, At, Hands, Fit, Collecting
  <1>p. PICK res : res = FromReturn(t)
    OBVIOUS
  <1>1. /\ thread[t].pc = "settle" /\ thread[t].pc \in Collecting /\ Fit(t) /\ o \in Devices
        /\ thread[t].n \in 1 .. MaxClaims
        /\ Past(Request(t)) /\ row[o].route = thread[t].n
    BY <1>o DEF Settle, At, Hands, Fit, Collecting
  <1>2. res \in Outcomes /\ res.route = thread[t].n /\ res.told \in {"first", "again"} /\ res.status = verdict[Request(t)]
    <2>1. verdict[Request(t)] \in Statuses
      BY <1>o, <1>1, Pairs, EvidenceAssumption DEF Returned, Request
    <2> QED
      BY <1>p, <1>1, <2>1 DEF FromReturn, Outcomes, Fit
  <1>3. CASE Rest(t) /\ UNCHANGED <<row, result>>
    BY <1>3, RowStep, Resting DEF Settle, Calm, TypeOK, RowTypes, Results
  <1>4. CASE result[o] = res /\ Proceed(t) /\ UNCHANGED <<row, result>>
    <2>1. row[o].state \in Statuses
      <3>1. result[o].told # "nobody"
        BY <1>2, <1>4
      <3>2. result[o] # Unsettled
        BY <3>1 DEF Unsettled
      <3> QED
        BY <1>1, <3>2 DEF Rows, Agree
    <2>2. thread' \in [Threads -> HandTypes] /\ \A u \in Threads : thread'[u] = thread[u] \/ Fit(u)'
      BY <1>o, <1>1, <1>4, <2>1, Proceeding DEF Settle
    <2>3. order' = order /\ UNCHANGED <<returns, projections, faults>>
      BY DEF Settle, Calm
    <2> QED
      <3>1. row' \in [Operations -> RowTypes] /\ result' \in [Operations -> Results] /\ order' \in Seq(Operations)
        BY <1>4, <2>3 DEF TypeOK, RowTypes, Results
      <3>2. \A u \in Operations : row'[u] = row[u] /\ result'[u] = result[u]
        BY <1>4
      <3> QED
        BY <2>2, <2>3, <3>1, <3>2, RowStep
  <1>5. CASE Accepts(o, res) /\ Complete(o, res) /\ Proceed(t)
    <2>1. Request(t) = <<o, res.route>>
      BY <1>o, <1>2 DEF Request
    <2>2. Moved(o)
      BY <1>1, <1>2, <1>5, <2>1, CompletionMoved DEF Settle
    <2>3. row'[o].state \in Statuses /\ row'[o].route = thread[t].n
      BY <1>1, <1>2, <1>5, Completion DEF Outcomes
    <2>4. thread' \in [Threads -> HandTypes] /\ \A u \in Threads : thread'[u] = thread[u] \/ Fit(u)'
      BY <1>o, <1>1, <1>5, <2>3, Proceeding DEF Settle
    <2>5. order' = order /\ UNCHANGED <<returns, projections, faults>>
      BY DEF Settle, Calm
    <2> QED
      <3>1. /\ row' \in [Operations -> RowTypes] /\ result' \in [Operations -> Results]
            /\ \A u \in Operations \ {o} : row'[u] = row[u] /\ result'[u] = result[u]
        BY <1>2, <1>5, Completion
      <3>2. order' \in Seq(Operations)
        BY <2>5 DEF TypeOK
      <3> QED
        BY <2>2, <2>4, <2>5, <3>1, <3>2, RowStep
  <1> QED
    BY <1>o, <1>p, <1>3, <1>4, <1>5 DEF Settle

\* Route keeps the invariant.
LEMMA RouteInv ==
  ASSUME IInv, NEW t \in Threads, Route(t)
  PROVE  IInv'
  <1> USE DEF IInv
  <1>o. PICK o \in Operations : o = thread[t].op
    BY DEF Route, At, Hands, Fit, Working
  <1>p. PICK place : place = Destination(o, thread[t].n)
    OBVIOUS
  <1>1. /\ thread[t].pc = "done" /\ Fit(t) /\ thread[t].n \in 1 .. MaxClaims
        /\ place \in 0 .. MaxClaims
        /\ o \in Devices => place # 0 /\ stage[<<o, place>>] # "none"
    BY <1>o, <1>p, Destinations DEF Route, At, Hands, Fit, Working, TestOf
  <1>2. ASSUME NEW pc \in {"routed", "fail"}, Goto(t, pc), pc = "routed" => o \notin Devices
        PROVE  thread' \in [Threads -> HandTypes] /\ \A u \in Threads : thread'[u] = thread[u] \/ Fit(u)'
    <2>1. pc \in PCs
      BY DEF PCs
    <2>2. Fit(t)'
      BY <1>o, <1>1, <1>2, <2>1, Going DEF Fit, Working, Collecting
    <2> QED
      BY <1>2, <2>1, <2>2, Going
  <1>3. Route(t) => thread' \in [Threads -> HandTypes] /\ \A u \in Threads : thread'[u] = thread[u] \/ Fit(u)'
    BY <1>o, <1>2, Resting DEF Route
  <1>4. CASE UNCHANGED row
    BY <1>3, <1>4, RowStep DEF Route, Calm, TypeOK, RowTypes, Results
  <1>5. CASE /\ row[o].state = "claimed"
             /\ row' = [row EXCEPT ![o] = [@ EXCEPT !.state = "routed", !.token = 0, !.lease = "none", !.route = place]]
    <2>1. /\ row' \in [Operations -> RowTypes]
          /\ row'[o].route = place /\ row'[o].state = "routed"
          /\ \A u \in Operations \ {o} : row'[u] = row[u]
      <3> DEFINE x == [row[o] EXCEPT !.state = "routed", !.token = 0, !.lease = "none", !.route = place]
      <3>1. "routed" \in States
        BY DEF States
      <3>2. x \in RowTypes
        BY <1>1, <3>1, Changed
      <3>3. row' = [row EXCEPT ![o] = x]
        BY <1>5
      <3>4. row'[o] = x
        BY <1>1, <3>2, <3>3, Written
      <3>5. x.route = place /\ x.state = "routed"
        BY <1>1 DEF TypeOK
      <3> QED
        BY <1>1, <3>2, <3>3, <3>4, <3>5, Written
    <2>2. result' = result /\ UNCHANGED <<returns, projections, faults, order>>
      BY DEF Route, Calm
    <2>3. row[o].route = 0 /\ result[o] = Unsettled /\ row[o].state \notin Statuses
      BY <1>1, <1>5 DEF Rows, Agree, Statuses
    <2>4. Moved(o)
      <3>1. Agree(o)'
        BY <1>1, <2>1, <2>2, <2>3 DEF Agree, Statuses, returns
      <3> QED
        BY <2>3, <3>1 DEF Moved
    <2> QED
      BY <1>3, <2>1, <2>2, <2>4, RowStep DEF TypeOK, Results
  <1> QED
    BY <1>o, <1>p, <1>4, <1>5 DEF Route

\* Claim keeps the invariant.
LEMMA ClaimInv ==
  ASSUME IInv, NEW t \in Threads, Claim(t)
  PROVE  IInv'
  <1> USE DEF IInv
  <1> DEFINE known == [o \in Operations |-> Requeued(row[o])]
             Near(o, x) == /\ x \in RowTypes /\ x.route = row[o].route
                           /\ x.state = row[o].state \/ (row[o].state \in {"queued", "claimed"} /\ x.state \in {"queued", "claimed"})
  <1>1. \A o \in Operations : Near(o, known[o])
    <2> SUFFICES ASSUME NEW o \in Operations PROVE Near(o, Requeued(row[o]))
      OBVIOUS
    <2>1. row[o] \in RowTypes
      BY DEF TypeOK, RowTypes
    <2>2. "queued" \in States
      BY DEF States
    <2>3. [row[o] EXCEPT !.state = "queued", !.token = 0, !.lease = "none"] \in RowTypes
      BY <2>2, Changed
    <2> QED
      BY <2>1, <2>3 DEF Requeued, RowTypes
  <1>2. result' = result /\ order' = order /\ UNCHANGED <<returns, projections, faults>>
    BY DEF Claim, Calm
  <1>3. ASSUME row' \in [Operations -> RowTypes], \A o \in Operations : Near(o, row'[o]),
               thread' \in [Threads -> HandTypes], \A u \in Threads : thread'[u] = thread[u] \/ Fit(u)'
        PROVE  IInv'
    <2>1. \A o \in Operations : Moved(o)
      BY <1>2, <1>3 DEF Rows, Agree, Moved, Past, Statuses, returns
    <2> QED
      BY <1>2, <1>3, <2>1, RowStep DEF TypeOK, Results
  <1>4. ASSUME NEW o \in Operations, known[o].state = "queued", known[o].attempts < MaxClaims,
               row' = [known EXCEPT ![o] = Claimed(known[o])],
               thread' = [thread EXCEPT ![t] = [pc |-> "held", op |-> o, n |-> known[o].attempts + 1, told |-> "nobody"]]
        PROVE  IInv'
    <2> DEFINE k == known[o].attempts + 1
               h == [pc |-> "held", op |-> o, n |-> k, told |-> "nobody"]
    <2>1. k \in 1 .. MaxClaims
      BY <1>1, <1>4, EvidenceAssumption DEF RowTypes
    <2>2. Near(o, Claimed(known[o]))
      <3>1. known[o] \in RowTypes /\ "claimed" \in States /\ Near(o, known[o])
        BY <1>1 DEF States
      <3> HIDE DEF known
      <3>2. Claimed(known[o]) \in RowTypes
        <4>1. known[o].attempts + 1 \in 0 .. MaxClaims /\ known[o].attempts + 1 \in Nat
          BY <2>1, EvidenceAssumption
        <4> QED
          BY <3>1, <4>1 DEF Claimed, RowTypes
      <3>3. Claimed(known[o]).route = known[o].route /\ Claimed(known[o]).state = "claimed"
        BY <3>1 DEF Claimed, RowTypes
      <3>4. row[o].state \in {"queued", "claimed"}
        BY <1>4, <3>1
      <3> QED
        BY <3>1, <3>2, <3>3, <3>4
    <2>3. row' \in [Operations -> RowTypes] /\ \A u \in Operations : Near(u, row'[u])
      BY <1>1, <1>4, <2>2
    <2>4. h \in HandTypes
      BY <2>1 DEF HandTypes, PCs, Reports
    <2>5. thread' \in [Threads -> HandTypes] /\ thread'[t] = h /\ \A u \in Threads \ {t} : thread'[u] = thread[u]
      BY <1>4, <2>4 DEF TypeOK, HandTypes
    <2>6. Fit(t)'
      BY <2>1, <2>5 DEF Fit, Working, Collecting
    <2> QED
      BY <1>3, <2>3, <2>5, <2>6
  <1>5. ASSUME row' = known, Goto(t, "local") \/ Rest(t)
        PROVE  IInv'
    <2>1. ASSUME Goto(t, "local") PROVE Fit(t)'
      BY <2>1, Going DEF PCs, Fit, Working, Collecting
    <2>2. thread' \in [Threads -> HandTypes] /\ \A u \in Threads : thread'[u] = thread[u] \/ Fit(u)'
      BY <1>5, <2>1, Going, Resting DEF PCs
    <2>3. row' \in [Operations -> RowTypes] /\ \A u \in Operations : Near(u, row'[u])
      BY <1>1, <1>5
    <2> QED
      BY <1>3, <2>2, <2>3
  <1> QED
    BY <1>4, <1>5, Pairs DEF Claim, Operations

\* Every step keeps the invariant.
LEMMA NextInv == IInv /\ [Next]_vars => IInv'
  <1> SUFFICES ASSUME IInv, [Next]_vars
               PROVE  IInv'
    OBVIOUS
  <1>1. CASE UNCHANGED vars
    <2>1. \A u \in Threads : thread'[u] = thread[u]
      BY <1>1 DEF vars
    <2>2. thread' \in [Threads -> HandTypes]
      BY <1>1 DEF vars, IInv, TypeOK, HandTypes
    <2> QED
      BY <1>1, <2>1, <2>2, ThreadStep DEF vars, projections, IInv, TypeOK, Returned
  <1>2. ASSUME NEW o \in Operations, Register(o) \/ Lapse(o) PROVE IInv'
    BY <1>2, RegisterInv, LapseInv
  <1>3. ASSUME NEW t \in Threads, Intake(t) PROVE IInv'
    BY <1>3, ClaimInv, DispatchInv, ExecuteInv, RouteInv, FinishInv, DeferInv, FailInv DEF Intake
  <1>4. ASSUME NEW t \in Threads, Routing(t) PROVE IInv'
    BY <1>4, IngestInv, LookupInv, SettleInv, RecordInv, AcknowledgeInv DEF Routing
  <1>5. ASSUME NEW t \in Threads, Sweep(t) \/ Mishap(t) PROVE IInv'
    BY <1>5, ReconcileInv, MishapInv DEF Sweep
  <1>6. ASSUME NEW r \in Requests, Serve(r) \/ Return(r) \/ Decide(r) PROVE IInv'
    BY <1>6, HoldInv, CollectInv, ResumeInv, ReturnInv, DecideInv DEF Serve
  <1>7. ASSUME NEW p \in Processes, Crash(p) PROVE IInv'
    BY <1>7, CrashInv
  <1> QED
    BY <1>1, <1>2, <1>3, <1>4, <1>5, <1>6, <1>7 DEF Next

\* The inductive invariant holds in every reachable state, for every set of
\* operations and of processes, every number of claims and of faults.
THEOREM Inductive == Spec => []IInv
  BY InitInv, NextInv, PTL DEF Spec

\* Rows, results, threads, requests and projections stay within their domains.
THEOREM TypeCorrect == Spec => []TypeOK
  <1>1. IInv => TypeOK
    BY DEF IInv
  <1> QED
    BY <1>1, Inductive, PTL

\* A routed device operation waits for a test request that was published.
THEOREM AwaitedCorrect == Spec => []Awaited
  <1>1. IInv => Awaited
    <2> SUFFICES ASSUME IInv, NEW o \in Devices, row[o].state = "routed"
                 PROVE  row[o].route \in 1 .. MaxClaims /\ stage[<<o, row[o].route>>] # "none"
      BY DEF Awaited
    <2>1. o \in Operations /\ Agree(o)
      BY Pairs DEF IInv, Rows
    <2>2. row[o].route \in 0 .. MaxClaims
      BY <2>1 DEF IInv, TypeOK
    <2> QED
      BY <2>1, <2>2, EvidenceAssumption DEF Agree
  <1> QED
    BY <1>1, Inductive, PTL

\* What settles a routed device operation is the return of its own test.
THEOREM EvidenceCorrect == Spec => []RightEvidence
  <1>1. IInv => RightEvidence
    BY Pairs DEF IInv, Rows, Agree, RightEvidence, Settled
  <1> QED
    BY <1>1, Inductive, PTL

\* A return is given up only when its operation is settled, or when no
\* operation was routed there as it was ingested.
THEOREM SettledCorrect == Spec => []SettledBeforeAck
  <1>1. IInv => SettledBeforeAck
    BY DEF IInv, GivenUp, Given, Settles, SettledBeforeAck, Settled
  <1> QED
    BY <1>1, Inductive, PTL

\* What EvidencePromise sees.
StatesOf == [o \in Operations |-> Phase(row[o].state)]
PlacesOf == [o \in Operations |-> row[o].route]
Promised == <<StatesOf, PlacesOf, result>>

\* A step that keeps phases, places and results is a stutter.
LEMMA Stutters ==
  ASSUME result' = result,
         \A o \in Operations : row'[o].route = row[o].route /\ Phase(row'[o].state) = Phase(row[o].state)
  PROVE  UNCHANGED Promised
  BY DEF Promised, StatesOf, PlacesOf

\* route_evidence_operation sends an operation, or changes nothing.
LEMMA Sends ==
  ASSUME IInv, NEW t \in Threads, Route(t)
  PROVE  UNCHANGED Promised \/ \E o \in Operations : Promise!Send(o)
  <1> USE DEF IInv
  <1>o. PICK o \in Operations : o = thread[t].op
    BY DEF Route, At, Hands, Fit, Working
  <1>p. PICK place : place = Destination(o, thread[t].n)
    OBVIOUS
  <1>1. place \in 0 .. MaxClaims /\ result' = result
    BY <1>o, <1>p, Destinations DEF Route, At, Hands, Fit, Working
  <1>2. CASE UNCHANGED row
    BY <1>1, <1>2, Stutters
  <1>3. CASE /\ row[o].state = "claimed"
             /\ row' = [row EXCEPT ![o] = [@ EXCEPT !.state = "routed", !.token = 0, !.lease = "none", !.route = place]]
    <2>1. row'[o].state = "routed" /\ row'[o].route = place /\ \A u \in Operations \ {o} : row'[u] = row[u]
      BY <1>1, <1>3 DEF TypeOK
    <2>2. StatesOf[o] = "open"
      BY <1>3 DEF StatesOf, Phase, Settled, Statuses
    <2>3. Phase("routed") = "routed"
      BY DEF Phase, Settled, Statuses
    <2>4. StatesOf' = [StatesOf EXCEPT ![o] = "routed"]
      BY <2>1, <2>3 DEF StatesOf
    <2>5. PlacesOf' = [PlacesOf EXCEPT ![o] = place]
      BY <2>1 DEF PlacesOf
    <2>6. Promise!Send(o)
      BY <1>1, <2>2, <2>4, <2>5 DEF Promise!Send, StatesOf, PlacesOf
    <2> QED
      BY <2>6
  <1> QED
    BY <1>o, <1>p, <1>2, <1>3 DEF Route

\* complete_evidence_operation settles an operation.
LEMMA Settling ==
  ASSUME IInv, NEW o \in Operations, NEW res \in Outcomes, Accepts(o, res), Complete(o, res)
  PROVE  Promise!Settle(o)
  <1>1. /\ row'[o].state = res.status /\ row'[o].route = row[o].route /\ row'[o].route = res.route
        /\ \A u \in Operations \ {o} : row'[u] = row[u]
    BY Completion
  <1>2. StatesOf[o] \in {"open", "routed"}
    BY DEF Accepts, StatesOf, Phase, Settled, Statuses
  <1>3. Phase(res.status) = "settled"
    BY DEF Outcomes, Phase, Settled
  <1>4. StatesOf' = [StatesOf EXCEPT ![o] = "settled"]
    BY <1>1, <1>3 DEF StatesOf
  <1>5. PlacesOf' = PlacesOf
    BY <1>1 DEF PlacesOf
  <1>6. res.route = PlacesOf[o]
    BY <1>1 DEF PlacesOf
  <1>7. result' = [result EXCEPT ![o] = res]
    BY DEF Complete
  <1> QED
    BY <1>2, <1>4, <1>5, <1>6, <1>7 DEF Promise!Settle, StatesOf, PlacesOf

\* A claim is no step of the promise.
LEMMA ClaimStutters ==
  ASSUME IInv, NEW t \in Threads, Claim(t)
  PROVE  UNCHANGED Promised
  <1> DEFINE known == [o \in Operations |-> Requeued(row[o])]
  <1>1. \A o \in Operations : known[o].route = row[o].route /\ Phase(known[o].state) = Phase(row[o].state)
    BY DEF IInv, TypeOK, Requeued, Phase, Settled, Statuses
  <1>2. CASE row' = known
    BY <1>1, <1>2, Stutters DEF Claim
  <1>3. ASSUME NEW o \in Operations, known[o].state = "queued", row' = [known EXCEPT ![o] = Claimed(known[o])]
        PROVE  UNCHANGED Promised
    <2>1. known[o] \in RowTypes
      <3>1. row[o] \in RowTypes /\ "queued" \in States
        BY DEF IInv, TypeOK, RowTypes, States
      <3>2. [row[o] EXCEPT !.state = "queued", !.token = 0, !.lease = "none"] \in RowTypes
        BY <3>1, Changed DEF IInv
      <3> QED
        BY <3>1, <3>2 DEF Requeued
    <2>2. Claimed(known[o]).route = known[o].route /\ Claimed(known[o]).state = "claimed"
      BY <2>1 DEF Claimed, RowTypes
    <2>3. Phase("claimed") = Phase("queued")
      BY DEF Phase, Settled, Statuses
    <2>4. \A u \in Operations : row'[u].route = row[u].route /\ Phase(row'[u].state) = Phase(row[u].state)
      BY <1>1, <1>3, <2>2, <2>3
    <2> QED
      BY <2>4, Stutters DEF Claim
  <1> QED
    BY <1>2, <1>3, Pairs DEF Claim, Operations

\* Neither is a new row, nor a lease that runs out,
LEMMA RowStutters ==
  ASSUME IInv, NEW o \in Operations, Register(o) \/ Lapse(o)
  PROVE  UNCHANGED Promised
  <1>1. Phase("queued") = Phase("absent")
    BY DEF Phase, Settled, Statuses
  <1>2. row[o] \in RowTypes
    BY DEF IInv, TypeOK, RowTypes
  <1>3. CASE Register(o)
    <2>1. row' = [row EXCEPT ![o] = [row[o] EXCEPT !.state = "queued"]] /\ row[o].state = "absent"
      BY <1>3 DEF Register, IInv, TypeOK
    <2>2. \A u \in Operations : row'[u].route = row[u].route /\ Phase(row'[u].state) = Phase(row[u].state)
      BY <1>1, <1>2, <2>1 DEF IInv, TypeOK, RowTypes
    <2> QED
      BY <1>3, <2>2, Stutters DEF Register
  <1>4. CASE Lapse(o)
    <2>1. row' = [row EXCEPT ![o] = [row[o] EXCEPT !.lease = "lapsed"]]
      BY <1>4 DEF Lapse, IInv, TypeOK
    <2>2. \A u \in Operations : row'[u].route = row[u].route /\ row'[u].state = row[u].state
      BY <1>2, <2>1 DEF IInv, TypeOK, RowTypes
    <2> QED
      BY <1>4, <2>2, Stutters DEF Lapse
  <1> QED
    BY <1>3, <1>4

\* nor a deferral.
LEMMA DeferStutters ==
  ASSUME IInv, NEW t \in Threads, Defer(t)
  PROVE  UNCHANGED Promised
  <1>1. \A u \in Operations : row'[u].route = row[u].route /\ Phase(row'[u].state) = Phase(row[u].state)
    BY DEF IInv, TypeOK, Defer
  <1> QED
    BY <1>1, Stutters DEF Defer

\* The calls that complete an operation settle it, or change nothing.
LEMMA Completes ==
  ASSUME IInv, NEW t \in Threads, Fail(t) \/ Finish(t) \/ Settle(t)
  PROVE  UNCHANGED Promised \/ \E o \in Operations : Promise!Settle(o)
  <1> USE DEF IInv
  <1>1. CASE UNCHANGED <<row, result>>
    BY <1>1, Stutters
  <1>2. ASSUME NEW o \in Operations, NEW res \in Outcomes, Accepts(o, res), Complete(o, res)
        PROVE  \E u \in Operations : Promise!Settle(u)
    BY <1>2, Settling
  <1>3. /\ thread[t].op \in Operations /\ thread[t].n \in 1 .. MaxClaims
        /\ Settle(t) => thread[t].op \in Devices /\ thread[t].told \in {"first", "again"} /\ Past(Request(t))
    BY Pairs DEF Fail, Finish, Settle, At, Hands, Fit, Working, Collecting
  <1>4. FromWorker("failed", 0) \in Outcomes
    BY EvidenceAssumption DEF FromWorker, Outcomes, Statuses
  <1>5. FromWorker("completed", Destination(thread[t].op, thread[t].n)) \in Outcomes
    BY <1>3, Destinations DEF FromWorker, Outcomes, Statuses
  <1>6. Settle(t) => FromReturn(t) \in Outcomes
    <2> SUFFICES ASSUME Settle(t) PROVE FromReturn(t) \in Outcomes
      OBVIOUS
    <2>1. verdict[Request(t)] \in Statuses
      BY <1>3, Pairs, EvidenceAssumption DEF Returned, Request
    <2> QED
      BY <1>3, <2>1 DEF FromReturn, Outcomes
  <1>7. CASE Fail(t)
    BY <1>1, <1>2, <1>3, <1>4, <1>7 DEF Fail
  <1>8. CASE Finish(t)
    BY <1>1, <1>2, <1>3, <1>5, <1>8 DEF Finish
  <1>9. CASE Settle(t)
    BY <1>1, <1>2, <1>3, <1>6, <1>9 DEF Settle
  <1> QED
    BY <1>7, <1>8, <1>9

\* Steps that do not write the tables are stutters.
LEMMA OthersStutter ==
  ASSUME IInv, UNCHANGED operations
  PROVE  UNCHANGED Promised
  BY Stutters DEF operations

\* Every step maps to a step or a stutter.
LEMMA PromiseStep ==
  ASSUME IInv, [Next]_vars
  PROVE  [Promise!Next]_Promised
  <1>1. CASE UNCHANGED vars
    BY <1>1, OthersStutter DEF vars
  <1>2. ASSUME NEW o \in Operations, Register(o) \/ Lapse(o) PROVE UNCHANGED Promised
    BY <1>2, RowStutters
  <1>3. ASSUME NEW t \in Threads, Intake(t) PROVE [Promise!Next]_Promised
    <2>1. CASE Claim(t) \/ Defer(t)
      BY <2>1, ClaimStutters, DeferStutters
    <2>2. CASE Dispatch(t) \/ Execute(t)
      BY <2>2, OthersStutter DEF Dispatch, Execute
    <2>3. CASE Route(t)
      BY <2>3, Sends DEF Promise!Next
    <2>4. CASE Finish(t) \/ Fail(t)
      BY <2>4, Completes DEF Promise!Next
    <2> QED
      BY <1>3, <2>1, <2>2, <2>3, <2>4 DEF Intake
  <1>4. ASSUME NEW t \in Threads, Routing(t) PROVE [Promise!Next]_Promised
    <2>1. CASE Settle(t)
      BY <2>1, Completes DEF Promise!Next
    <2>2. CASE Ingest(t) \/ Lookup(t) \/ Record(t) \/ Acknowledge(t)
      BY <2>2, OthersStutter DEF Ingest, Lookup, Record, Acknowledge
    <2> QED
      BY <1>4, <2>1, <2>2 DEF Routing
  <1>5. ASSUME NEW t \in Threads, Sweep(t) \/ Mishap(t) PROVE UNCHANGED Promised
    BY <1>5, OthersStutter DEF Sweep, Mishap, Reconcile
  <1>6. ASSUME NEW r \in Requests, Serve(r) \/ Return(r) \/ Decide(r) PROVE UNCHANGED Promised
    BY <1>6, OthersStutter DEF Serve, Hold, Collect, Resume, Return, Decide
  <1>7. ASSUME NEW p \in Processes, Crash(p) PROVE UNCHANGED Promised
    BY <1>7, OthersStutter DEF Crash
  <1> QED
    BY <1>1, <1>2, <1>3, <1>4, <1>5, <1>6, <1>7 DEF Next

\* Initial states map to initial states.
LEMMA PromiseInit == Init => Promise!Init
  BY DEF Init, Promise!Init, NoRow, Phase, Settled, Statuses

\* Every operation is sent to one place at most and settled once, by a result
\* that names this place: the repository and its workers implement EvidencePromise.
THEOREM PromiseCorrect == Spec => KeepsPromise
  <1>1. IInv /\ [Next]_vars => [Promise!Next]_Promised
    BY PromiseStep
  <1> QED
    BY <1>1, PromiseInit, Inductive, PTL DEF Spec, KeepsPromise, Promise!Spec, Promised, StatesOf, PlacesOf

=============================================================================
