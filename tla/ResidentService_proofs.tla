------------------------ MODULE ResidentService_proofs ------------------------
(***************************************************************************)
(* Proofs about the resident daemon, for every set of callers, supervisors *)
(* and daemons, every restart limit and any number of events from outside. *)
(*                                                                         *)
(* OneDaemon rests on Owned: where an open file cannot be removed, what    *)
(* lies at daemon.lock is the file of the daemon that has one open, so no  *)
(* verdict that is still to be acted upon, of a daemon or of a caller, can *)
(* remove it.  NoStrays rests on the lifecycle lock (Serialized): between  *)
(* the look at the record and the next record nobody else writes one, so   *)
(* that what is recorded then was passed over (Unrecorded), and a living   *)
(* supervisor is recorded, about to be, or lost (Accounted); and on        *)
(* Attended, that a supervisor which has not started its daemon has none.  *)
(***************************************************************************)
EXTENDS ResidentService, TLAPS

\* The lock file is that of the daemon that has one open.
Owned ==
  Windows => \A d \in Daemons :
               dmn[d].pc \in Opened => lock.by = d /\ lock.says # "nothing"

\* A caller works under the lifecycle lock.
Serialized == \A c \in Callers : ~CallAt(c, "idle") => holder = c

\* From the look at the record on, until it writes one, no supervisor is
\* recorded but the one it was denied a look at; that one is lost to it then.
Deciding == {"look", "pid", "alive", "unlink", "resume", "spawn"}
Unrecorded ==
  \A c \in Callers :
    /\ call[c].pc \in Deciding => record \in {Nobody, call[c].target}
    /\ CallAt(c, "record") => record = Nobody \/ sup[record].lost

\* What is recorded lives, and a living supervisor is recorded, lost, or about
\* to be recorded.
Accounted ==
  /\ record = Nobody \/ Alive(record)
  /\ \A s \in Supervisors : Alive(s) =>
       \/ record = s \/ sup[s].lost
       \/ \E c \in Callers : CallAt(c, "record") /\ call[c].target = s

\* A daemon has its supervisor, or is an orphan, and is not there too early.
Attended ==
  \A s \in Supervisors :
    /\ Running(s) => Alive(s) \/ dmn[s].orphan
    /\ SupAt(s, "boot") => ~Running(s)

\* The inductive invariant.
IInv == TypeOK /\ Owned /\ Serialized /\ Unrecorded /\ Accounted /\ Attended

\* What the values of processes and files are made of.
LEMMA KnownCommands == ForcedStop \in Commands /\ ResumingStart \in Commands
  BY DEF Commands, ForcedStop, ResumingStart

LEMMA Nulls ==
  Idle \in Calls /\ NoSupervisor \in Sups /\ NoDaemon \in Dmns /\ NoRow \in Rows /\ NoLock \in Locks
  BY KnownCommands, ResidentAssumption
     DEF Idle, Calls, CallPCs, NoSupervisor, Sups, SupPCs, NoDaemon, Dmns, DaemonPCs, NoRow, Rows,
         NoLock, Locks

LEMMA CallRecords ==
  ASSUME NEW r \in Calls
  PROVE  /\ \A pc \in CallPCs : [r EXCEPT !.pc = pc] \in Calls
         /\ \A pc \in CallPCs, k \in Commands : [r EXCEPT !.pc = pc, !.does = k] \in Calls
         /\ \A pc \in CallPCs, t \in Supervisors \cup {Nobody} :
              [r EXCEPT !.pc = pc, !.target = t] \in Calls
  BY DEF Calls

LEMMA SupRecords ==
  ASSUME NEW r \in Sups
  PROVE  /\ r.gen \in Nat /\ r.tries \in Nat /\ r.saw \in BOOLEAN
         /\ \A pc \in SupPCs, b \in BOOLEAN : [r EXCEPT !.pc = pc, !.saw = b] \in Sups
         /\ \A pc \in SupPCs, b \in BOOLEAN, n \in Nat :
              [r EXCEPT !.pc = pc, !.saw = b, !.tries = n] \in Sups
         /\ \A n \in Nat : [r EXCEPT !.tries = n] \in Sups
         /\ [r EXCEPT !.term = TRUE] \in Sups /\ [r EXCEPT !.lost = TRUE] \in Sups
         /\ \A pc \in SupPCs, g \in Nat : [r EXCEPT !.pc = pc, !.gen = g] \in Sups
  BY DEF Sups

LEMMA DmnRecords ==
  ASSUME NEW r \in Dmns
  PROVE  /\ r.gen \in Nat /\ r.saw \in BOOLEAN
         /\ \A pc \in DaemonPCs : [r EXCEPT !.pc = pc] \in Dmns
         /\ \A pc \in DaemonPCs, b \in BOOLEAN : [r EXCEPT !.pc = pc, !.saw = b] \in Dmns
         /\ \A b \in BOOLEAN : [r EXCEPT !.orphan = b] \in Dmns
         /\ \A pc \in DaemonPCs, g \in Nat : [r EXCEPT !.pc = pc, !.gen = g] \in Dmns
  BY DEF Dmns

LEMMA EventCounted == \A what : TypeOK /\ Event(what) => events' \in Nat
  BY DEF TypeOK, Event

LEMMA FileRecords ==
  /\ \A l \in Locks : [l EXCEPT !.by = Nobody] \in Locks /\ [l EXCEPT !.says = "owner"] \in Locks
  /\ \A w \in Rows : [w EXCEPT !.by = Nobody] \in Rows
  BY DEF Locks, Rows

\* It holds at first.
LEMMA InitInv == Init => IInv
  <1> SUFFICES ASSUME Init PROVE IInv
    OBVIOUS
  <1>1. TypeOK
    BY ResidentAssumption, Nulls DEF Init, TypeOK
  <1>2. Owned /\ Serialized /\ Unrecorded /\ Accounted /\ Attended
    BY DEF Init, Owned, Serialized, Unrecorded, Accounted, Attended, Idle, NoSupervisor,
           NoDaemon, Opened, Daemons, Alive, Running, SupAt, CallAt, Deciding
  <1> QED
    BY <1>1, <1>2 DEF IInv

\* The operators that several steps share keep the values of what they write.
LEMMA CallToTyped ==
  ASSUME TypeOK, NEW c \in Callers, NEW pc \in CallPCs, CallTo(c, pc)
  PROVE  call' \in [Callers -> Calls]
  BY CallRecords DEF TypeOK, CallTo

LEMMA ReturnTyped ==
  ASSUME TypeOK, NEW c \in Callers, Return(c)
  PROVE  call' \in [Callers -> Calls]
  BY Nulls DEF TypeOK, Return

LEMMA AfterStopTyped ==
  ASSUME TypeOK, NEW c \in Callers, AfterStop(c)
  PROVE  call' \in [Callers -> Calls]
  <1>1. CASE call[c].does.starts
    BY <1>1, KnownCommands DEF AfterStop, TypeOK, Calls, CallPCs
  <1>2. CASE ~call[c].does.starts
    BY <1>2, ReturnTyped DEF AfterStop
  <1> QED
    BY <1>1, <1>2

LEMMA GotoTyped ==
  ASSUME TypeOK, NEW d \in Daemons, NEW pc \in DaemonPCs, Goto(d, pc)
  PROVE  dmn' \in [Daemons -> Dmns]
  BY DmnRecords DEF TypeOK, Goto

LEMMA ExitTyped ==
  ASSUME TypeOK, NEW d \in Daemons, Exit(d)
  PROVE  dmn' \in [Daemons -> Dmns]
  BY Nulls DEF TypeOK, Exit

LEMMA BornTyped ==
  ASSUME TypeOK, NEW d \in Daemons, NEW g \in Nat, Born(d, g)
  PROVE  dmn' \in [Daemons -> Dmns] /\ service' \in Rows
  <1>1. [NoDaemon EXCEPT !.pc = "try", !.gen = g] \in Dmns
    BY Nulls, DmnRecords DEF DaemonPCs
  <1> QED
    BY <1>1, FileRecords DEF TypeOK, Born

LEMMA BeatTyped ==
  ASSUME TypeOK, NEW d \in Daemons, NEW ready \in BOOLEAN, Beat(d, ready)
  PROVE  service' \in Rows
  BY Nulls, DmnRecords DEF TypeOK, Beat, Rows

\* What a look at the lock file says.
LEMMA Verdicts ==
  /\ \A b \in BOOLEAN : PidSays(b) \subseteq {"fresh", "alive", "unlink"}
  /\ OwnerSays \subseteq {"fresh", "unlink"}
  BY DEF PidSays, OwnerSays

\* One lemma for each step of a call ...
LEMMA WriteStopRequestInv ==
  ASSUME IInv, NEW c \in Callers, WriteStopRequest(c)
  PROVE  IInv'
  <1>1. TypeOK /\ Owned /\ Serialized /\ Unrecorded /\ Accounted /\ Attended
    BY DEF IInv
  <1>2. TypeOK'
    BY <1>1, ResidentAssumption, Nulls, FileRecords, CallRecords, KnownCommands
       DEF WriteStopRequest, CallTo, CallAt, files, TypeOK, Daemons, Alive, Running, CallPCs
  <1>3. Owned' /\ Attended'
    BY <1>1, <1>2, ResidentAssumption
       DEF WriteStopRequest, CallTo, CallAt, files, Idle, Calls, TypeOK, Owned, Daemons,
           Opened, Attended, Alive, Running, SupAt
  <1>4. Serialized' /\ Unrecorded' /\ Accounted'
    BY <1>1, <1>2, ResidentAssumption
       DEF WriteStopRequest, CallTo, CallAt, files, Idle, Calls, TypeOK, Serialized, Daemons,
           Unrecorded, Deciding, Accounted, Alive, SupAt
  <1> QED
    BY <1>2, <1>3, <1>4 DEF IInv

LEMMA StoppedInv ==
  ASSUME IInv, NEW c \in Callers, Stopped(c)
  PROVE  IInv'
  <1>1. TypeOK /\ Owned /\ Serialized /\ Unrecorded /\ Accounted /\ Attended
    BY DEF IInv
  <1>2. TypeOK'
    <2>1. call' \in [Callers -> Calls]
      BY <1>1, AfterStopTyped DEF Stopped
    <2> QED
      BY <1>1, <2>1, ResidentAssumption
         DEF Stopped, AfterStop, Return, LeaveLifecycle, CallAt, files, TypeOK, Daemons, Alive
  <1>3. Owned' /\ Attended'
    BY <1>1, <1>2, ResidentAssumption
       DEF Stopped, AfterStop, Return, LeaveLifecycle, CallAt, files, Idle, Calls, TypeOK,
           Owned, Daemons, Opened, Attended, Alive, Running, SupAt
  <1>4. Serialized' /\ Unrecorded' /\ Accounted'
    BY <1>1, <1>2, ResidentAssumption
       DEF Stopped, AfterStop, Return, LeaveLifecycle, CallAt, files, Idle, Calls, TypeOK,
           Serialized, Daemons, Unrecorded, Deciding, Accounted, Alive, SupAt
  <1> QED
    BY <1>2, <1>3, <1>4 DEF IInv

LEMMA StillDrainingInv ==
  ASSUME IInv, NEW c \in Callers, StillDraining(c)
  PROVE  IInv'
  <1>1. TypeOK /\ Owned /\ Serialized /\ Unrecorded /\ Accounted /\ Attended
    BY DEF IInv
  <1>2. TypeOK'
    BY <1>1, ResidentAssumption, Nulls, FileRecords, CallRecords, KnownCommands
       DEF StillDraining, Return, LeaveLifecycle, CallAt, files, TypeOK, Daemons, Alive,
           Running, CallPCs
  <1>3. Owned' /\ Attended'
    BY <1>1, <1>2, ResidentAssumption
       DEF StillDraining, Return, LeaveLifecycle, CallAt, files, Idle, Calls, TypeOK, Owned,
           Daemons, Opened, Attended, Alive, Running, SupAt
  <1>4. Serialized' /\ Unrecorded' /\ Accounted'
    BY <1>1, <1>2, ResidentAssumption
       DEF StillDraining, Return, LeaveLifecycle, CallAt, files, Idle, Calls, TypeOK,
           Serialized, Daemons, Unrecorded, Deciding, Accounted, Alive, SupAt
  <1> QED
    BY <1>2, <1>3, <1>4 DEF IInv

LEMMA TerminateExactInv ==
  ASSUME IInv, NEW c \in Callers, TerminateExact(c)
  PROVE  IInv'
  <1>1. TypeOK /\ Owned /\ Serialized /\ Unrecorded /\ Accounted /\ Attended
    BY DEF IInv
  <1>2. record \in Supervisors /\ record \in Daemons /\ call[c].pc = "drain"
    BY <1>1 DEF TypeOK, TerminateExact, CallAt, Daemons
  <1>3. CASE Windows \/ sup[record].term
    <2>1. /\ EndChild(record) \/ OrphanChild(record)
          /\ SupervisorEnds(record) /\ AfterStop(c)
          /\ UNCHANGED <<fence, service, active, asked, events>>
      BY <1>3 DEF TerminateExact
    <2>2. TypeOK'
      <3>1. call' \in [Callers -> Calls]
        BY <1>1, <2>1, AfterStopTyped
      <3>2. sup' \in [Supervisors -> Sups] /\ record' \in Supervisors \cup {Nobody}
        BY <1>1, <2>1, Nulls DEF TypeOK, SupervisorEnds
      <3>3. dmn' \in [Daemons -> Dmns] /\ lock' \in Locks
        <4>1. CASE EndChild(record)
          BY <1>1, <1>2, <4>1, Nulls, FileRecords DEF TypeOK, EndChild, WithoutOwner
        <4>2. CASE OrphanChild(record)
          <5>1. Running(record) \in BOOLEAN
            BY DEF Running
          <5> QED
            BY <1>1, <1>2, <4>2, <5>1, DmnRecords DEF TypeOK, OrphanChild
        <4> QED
          BY <2>1, <4>1, <4>2
      <3>4. holder' \in {holder, Nobody}
        BY <2>1 DEF AfterStop, Return, LeaveLifecycle
      <3> QED
        BY <1>1, <2>1, <3>1, <3>2, <3>3, <3>4 DEF TypeOK
    <2>3. Owned' /\ Attended'
      BY <1>1, <1>2, <2>1, <2>2, ResidentAssumption
         DEF TypeOK, Owned, Attended, EndChild, OrphanChild, WithoutOwner, SupervisorEnds, NoDaemon,
             NoSupervisor, Daemons, Dmns, Sups, Locks, Opened, Alive, Running, SupAt
    <2>4. \A x \in Callers : call'[x] = call[x] \/ (x = c /\ call'[c].pc \in {"idle", "status"})
      BY <1>1, <2>1, KnownCommands DEF TypeOK, AfterStop, Return, Idle, Calls
    <2>5. Serialized'
      BY <1>1, <2>1, <2>2, <2>4, <1>2, Nulls
         DEF TypeOK, Serialized, AfterStop, Return, LeaveLifecycle, CallAt, Idle, Calls
    <2>6. Unrecorded'
      BY <1>1, <2>1, <2>4 DEF Unrecorded, Deciding, SupervisorEnds
    <2>7. Accounted'
      BY <1>1, <1>2, <2>1, <2>2, <2>4
         DEF TypeOK, Accounted, SupervisorEnds, NoSupervisor, Alive, CallAt, Sups
    <2> QED
      BY <2>2, <2>3, <2>5, <2>6, <2>7 DEF IInv
  <1>4. CASE ~(Windows \/ sup[record].term)
    <2>1. /\ sup' = [sup EXCEPT ![record].term = TRUE]
          /\ UNCHANGED <<fence, service, active, asked, events, record, lock, holder, call, dmn>>
      BY <1>4 DEF TerminateExact
    <2>2. TypeOK'
      BY <1>1, <2>1, SupRecords DEF TypeOK
    <2> QED
      BY <1>1, <1>2, <2>1, <2>2
         DEF IInv, TypeOK, Owned, Serialized, Unrecorded, Accounted, Attended, Alive, Running,
             SupAt, CallAt, Sups
  <1> QED
    BY <1>3, <1>4

LEMMA AlreadyRunningInv ==
  ASSUME IInv, NEW c \in Callers, AlreadyRunning(c)
  PROVE  IInv'
  <1>1. TypeOK /\ Owned /\ Serialized /\ Unrecorded /\ Accounted /\ Attended
    BY DEF IInv
  <1>2. TypeOK'
    BY <1>1, ResidentAssumption, Nulls, FileRecords, CallRecords, KnownCommands
       DEF AlreadyRunning, Return, LeaveLifecycle, CallAt, files, TypeOK, Daemons, Alive,
           Running, CallPCs
  <1>3. Owned' /\ Attended'
    BY <1>1, <1>2, ResidentAssumption
       DEF AlreadyRunning, Return, LeaveLifecycle, CallAt, files, Idle, Calls, TypeOK, Owned,
           Daemons, Opened, Attended, Alive, Running, SupAt
  <1>4. Serialized' /\ Unrecorded' /\ Accounted'
    BY <1>1, <1>2, ResidentAssumption
       DEF AlreadyRunning, Return, LeaveLifecycle, CallAt, files, Idle, Calls, TypeOK,
           Serialized, Daemons, Unrecorded, Deciding, Accounted, Alive, SupAt
  <1> QED
    BY <1>2, <1>3, <1>4 DEF IInv

LEMMA NotRunningInv ==
  ASSUME IInv, NEW c \in Callers, NotRunning(c)
  PROVE  IInv'
  <1>1. TypeOK /\ Owned /\ Serialized /\ Unrecorded /\ Accounted /\ Attended
    BY DEF IInv
  <1>2. TypeOK'
    BY <1>1, ResidentAssumption, Nulls, FileRecords, CallRecords, KnownCommands
       DEF NotRunning, CallTo, CallAt, files, TypeOK, Daemons, Alive, Running, CallPCs
  <1>3. Owned' /\ Attended'
    BY <1>1, <1>2, ResidentAssumption
       DEF NotRunning, CallTo, CallAt, files, Idle, Calls, TypeOK, Owned, Daemons, Opened,
           Attended, Alive, Running, SupAt
  <1>4. Serialized' /\ Unrecorded' /\ Accounted'
    BY <1>1, <1>2, ResidentAssumption
       DEF NotRunning, CallTo, CallAt, files, Idle, Calls, TypeOK, Serialized, Daemons,
           Unrecorded, Deciding, Accounted, Alive, SupAt
  <1> QED
    BY <1>2, <1>3, <1>4 DEF IInv

LEMMA ProbeDeniedInv ==
  ASSUME IInv, NEW c \in Callers, ProbeDenied(c)
  PROVE  IInv'
  <1>1. TypeOK /\ Owned /\ Serialized /\ Unrecorded /\ Accounted /\ Attended
    BY DEF IInv
  <1>2. TypeOK'
    BY <1>1, CallRecords, EventCounted DEF ProbeDenied, CallAt, files, TypeOK, CallPCs
  <1>3. Owned' /\ Attended'
    BY <1>1, <1>2, ResidentAssumption
       DEF ProbeDenied, CallAt, files, Idle, Calls, TypeOK, Owned, Daemons, Opened,
           Attended, Alive, Running, SupAt
  <1>4. Serialized' /\ Unrecorded' /\ Accounted'
    BY <1>1, <1>2, ResidentAssumption
       DEF ProbeDenied, CallAt, files, Idle, Calls, TypeOK, Serialized, Daemons,
           Unrecorded, Deciding, Accounted, Alive, SupAt
  <1> QED
    BY <1>2, <1>3, <1>4 DEF IInv

LEMMA LookAtLockInv ==
  ASSUME IInv, NEW c \in Callers, LookAtLock(c)
  PROVE  IInv'
  <1>1. TypeOK /\ Owned /\ Serialized /\ Unrecorded /\ Accounted /\ Attended
    BY DEF IInv
  <1>2. TypeOK'
    <2>1. call' \in [Callers -> Calls]
      BY <1>1, CallToTyped, ReturnTyped DEF LookAtLock, CallPCs
    <2> QED
      BY <1>1, <2>1, ResidentAssumption
         DEF LookAtLock, CallTo, Return, LeaveLifecycle, CallAt, files, TypeOK, Daemons, Alive
  <1>3. Owned' /\ Attended'
    BY <1>1, <1>2, ResidentAssumption
       DEF LookAtLock, CallTo, Return, LeaveLifecycle, CallAt, files, Idle, Calls, TypeOK,
           Owned, Daemons, Opened, Attended, Alive, Running, SupAt
  <1>4. Serialized' /\ Unrecorded' /\ Accounted'
    BY <1>1, <1>2, ResidentAssumption
       DEF LookAtLock, CallTo, Return, LeaveLifecycle, CallAt, files, Idle, Calls, TypeOK,
           Serialized, Daemons, Unrecorded, Deciding, Accounted, Alive, SupAt
  <1> QED
    BY <1>2, <1>3, <1>4 DEF IInv

LEMMA JudgeLockInv ==
  ASSUME IInv, NEW c \in Callers, JudgeLock(c)
  PROVE  IInv'
  <1>1. TypeOK /\ Owned /\ Serialized /\ Unrecorded /\ Accounted /\ Attended
    BY DEF IInv
  <1>2. TypeOK'
    <2>1. call' \in [Callers -> Calls]
      BY <1>1, Verdicts, CallToTyped, ReturnTyped DEF JudgeLock, CallPCs
    <2> QED
      BY <1>1, <2>1, ResidentAssumption
         DEF JudgeLock, PidSays, OwnerSays, CallTo, Return, LeaveLifecycle, CallAt, files,
             TypeOK, Daemons, Alive
  <1>3. Owned' /\ Attended'
    BY <1>1, <1>2, ResidentAssumption
       DEF JudgeLock, PidSays, OwnerSays, CallTo, Return, LeaveLifecycle, CallAt, files, Idle,
           Calls, TypeOK, Owned, Daemons, Opened, Attended, Alive, Running, SupAt
  <1>4. Serialized' /\ Unrecorded' /\ Accounted'
    BY <1>1, <1>2, ResidentAssumption
       DEF JudgeLock, PidSays, OwnerSays, CallTo, Return, LeaveLifecycle, CallAt, files, Idle,
           Calls, TypeOK, Serialized, Daemons, Unrecorded, Deciding, Accounted, Alive, SupAt
  <1> QED
    BY <1>2, <1>3, <1>4 DEF IInv

LEMMA UnlinkLockInv ==
  ASSUME IInv, NEW c \in Callers, UnlinkLock(c)
  PROVE  IInv'
  <1>1. TypeOK /\ Owned /\ Serialized /\ Unrecorded /\ Accounted /\ Attended
    BY DEF IInv
  <1>2. TypeOK'
    <2>1. call' \in [Callers -> Calls]
      BY <1>1, CallToTyped, ReturnTyped DEF UnlinkLock, CallPCs
    <2>2. lock' \in Locks
      BY <1>1, Nulls, FileRecords
         DEF UnlinkLock, Pinned, CallTo, Return, LeaveLifecycle, CallAt, files, TypeOK, Daemons,
             Alive, Running
    <2> QED
      BY <1>1, <2>1, <2>2, ResidentAssumption
         DEF UnlinkLock, Pinned, CallTo, Return, LeaveLifecycle, CallAt, files, TypeOK, Daemons,
             Alive
  <1>3. Owned' /\ Attended'
    BY <1>1, <1>2, ResidentAssumption
       DEF UnlinkLock, Pinned, NoLock, CallTo, Return, LeaveLifecycle, CallAt, files, Idle,
           Calls, TypeOK, Owned, Daemons, Opened, Attended, Alive, Running, SupAt
  <1>4. Serialized' /\ Unrecorded' /\ Accounted'
    BY <1>1, <1>2, ResidentAssumption
       DEF UnlinkLock, Pinned, NoLock, CallTo, Return, LeaveLifecycle, CallAt, files, Idle,
           Calls, TypeOK, Serialized, Daemons, Unrecorded, Deciding, Accounted, Alive, SupAt
  <1> QED
    BY <1>2, <1>3, <1>4 DEF IInv

LEMMA ResumeInv ==
  ASSUME IInv, NEW c \in Callers, Resume(c)
  PROVE  IInv'
  <1>1. TypeOK /\ Owned /\ Serialized /\ Unrecorded /\ Accounted /\ Attended
    BY DEF IInv
  <1>2. TypeOK'
    <2>1. call' \in [Callers -> Calls]
      BY <1>1, CallToTyped, ReturnTyped DEF Resume, CallPCs
    <2> QED
      BY <1>1, <2>1, ResidentAssumption
         DEF Resume, CallTo, Return, LeaveLifecycle, CallAt, files, TypeOK, Daemons, Alive
  <1>3. Owned' /\ Attended'
    BY <1>1, <1>2, ResidentAssumption
       DEF Resume, CallTo, Return, LeaveLifecycle, CallAt, files, Idle, Calls, TypeOK, Owned,
           Daemons, Opened, Attended, Alive, Running, SupAt
  <1>4. Serialized' /\ Unrecorded' /\ Accounted'
    BY <1>1, <1>2, ResidentAssumption
       DEF Resume, CallTo, Return, LeaveLifecycle, CallAt, files, Idle, Calls, TypeOK,
           Serialized, Daemons, Unrecorded, Deciding, Accounted, Alive, SupAt
  <1> QED
    BY <1>2, <1>3, <1>4 DEF IInv

\* Who is lost stays where it was.
LEMMA LostSays ==
  ASSUME TypeOK, NEW t
  PROVE  /\ Lost(t) \in [Supervisors -> Sups]
         /\ \A s \in Supervisors : Lost(t)[s].pc = sup[s].pc
         /\ \A s \in Supervisors : Lost(t)[s].lost = (sup[s].lost \/ (s = t /\ Alive(t)))
  <1>1. sup \in [Supervisors -> Sups] /\ \A s \in Supervisors : sup[s].lost \in BOOLEAN
    BY DEF TypeOK, Sups
  <1>2. CASE ~Alive(t)
    BY <1>1, <1>2 DEF Lost
  <1>3. CASE Alive(t)
    <2>1. t \in Supervisors /\ Lost(t) = [sup EXCEPT ![t] = [sup[t] EXCEPT !.lost = TRUE]]
      BY <1>3 DEF Lost, Alive
    <2>2. [sup[t] EXCEPT !.lost = TRUE] \in Sups
      BY <1>1, <2>1, SupRecords
    <2>3. /\ [sup[t] EXCEPT !.lost = TRUE].pc = sup[t].pc
          /\ [sup[t] EXCEPT !.lost = TRUE].lost = TRUE
      BY <1>1, <2>1 DEF Sups
    <2> QED
      BY <1>1, <1>3, <2>1, <2>2, <2>3
  <1> QED
    BY <1>2, <1>3

LEMMA SpawnInv ==
  ASSUME IInv, NEW c \in Callers, NEW s \in Supervisors, Spawn(c, s)
  PROVE  IInv'
  <1> DEFINE t == call[c].target
  <1>1. TypeOK /\ Owned /\ Serialized /\ Unrecorded /\ Accounted /\ Attended
    BY DEF IInv
  <1>2. [NoSupervisor EXCEPT !.pc = "boot", !.gen = active] \in Sups
    BY <1>1, Nulls, SupRecords DEF TypeOK, SupPCs
  <1>3. /\ sup' \in [Supervisors -> Sups]
        /\ sup'[s].pc = "boot" /\ ~Alive(s) /\ ~Running(s)
        /\ \A x \in Supervisors \ {s} :
             sup'[x].pc = sup[x].pc /\ sup'[x].lost = (sup[x].lost \/ (x = t /\ Alive(t)))
    <2> HIDE DEF t
    <2>1. sup' = [Lost(t) EXCEPT ![s] = [NoSupervisor EXCEPT !.pc = "boot", !.gen = active]]
      BY DEF Spawn, t
    <2>2. ~Alive(s) /\ ~Running(s)
      BY DEF Spawn, Free
    <2>3. [NoSupervisor EXCEPT !.pc = "boot", !.gen = active].pc = "boot"
      BY DEF NoSupervisor
    <2> QED
      BY <1>1, <1>2, <2>1, <2>2, <2>3, LostSays
  <1>4. /\ call' \in [Callers -> Calls] /\ call[c].pc = "spawn"
        /\ call'[c].pc = "record" /\ call'[c].target = s
        /\ \A x \in Callers \ {c} : call'[x] = call[x]
        /\ UNCHANGED <<files, active, asked, holder, dmn, events>>
    BY <1>1, KnownCommands DEF TypeOK, Spawn, CallAt, Calls, CallPCs
  <1>5. TypeOK'
    BY <1>1, <1>3, <1>4 DEF TypeOK, files
  <1>6. Owned' /\ Attended'
    BY <1>1, <1>3, <1>4 DEF files, Owned, Attended, Alive, Running, SupAt
  <1>7. holder = c /\ \A x \in Callers \ {c} : call[x].pc = "idle"
    BY <1>1, <1>4 DEF Serialized, CallAt
  <1>8. Serialized'
    BY <1>1, <1>4, <1>7 DEF Serialized, CallAt
  <1>9. record = Nobody \/ (record = t /\ Alive(record) /\ record # s)
    BY <1>1, <1>3, <1>4 DEF Unrecorded, Accounted, Deciding
  <1>10. Unrecorded'
    BY <1>1, <1>3, <1>4, <1>7, <1>9 DEF Unrecorded, Deciding, CallAt, files, Alive
  <1>11. Accounted'
    BY <1>1, <1>3, <1>4, <1>7, <1>9 DEF Accounted, CallAt, files, Alive
  <1> QED
    BY <1>5, <1>6, <1>8, <1>10, <1>11 DEF IInv

LEMMA WriteRecordInv ==
  ASSUME IInv, NEW c \in Callers, WriteRecord(c)
  PROVE  IInv'
  <1>1. TypeOK /\ Owned /\ Serialized /\ Unrecorded /\ Accounted /\ Attended
    BY DEF IInv
  <1>2. TypeOK'
    BY <1>1, ResidentAssumption, Nulls, FileRecords, CallRecords, KnownCommands
       DEF WriteRecord, CallAt, files, TypeOK, Daemons, Alive, Running, CallPCs
  <1>3. Owned' /\ Attended'
    BY <1>1, <1>2, ResidentAssumption
       DEF WriteRecord, CallAt, files, Idle, Calls, TypeOK, Owned, Daemons, Opened, Attended,
           Alive, Running, SupAt
  <1>4. Serialized' /\ Unrecorded' /\ Accounted'
    BY <1>1, <1>2, ResidentAssumption
       DEF WriteRecord, CallAt, files, Idle, Calls, TypeOK, Serialized, Daemons, Unrecorded,
           Deciding, Accounted, Alive, SupAt
  <1> QED
    BY <1>2, <1>3, <1>4 DEF IInv

\* A call ends for good, and what it had spawned and not recorded is lost.
LEMMA AbandonInv ==
  ASSUME IInv, NEW c \in Callers, Lose(c), Return(c), events' \in Nat,
         UNCHANGED <<files, active, asked, dmn>>
  PROVE  IInv'
  <1> DEFINE t == call[c].target
             recording == CallAt(c, "record")
  <1>1. TypeOK /\ Owned /\ Serialized /\ Unrecorded /\ Accounted /\ Attended
    BY DEF IInv
  <1>2. /\ sup' \in [Supervisors -> Sups]
        /\ \A x \in Supervisors :
             /\ sup'[x].pc = sup[x].pc
             /\ sup'[x].lost = (sup[x].lost \/ (recording /\ x = t /\ Alive(t)))
    <2> HIDE DEF t
    <2>1. sup' = IF recording THEN Lost(t) ELSE sup
      BY DEF Lose, t
    <2>2. sup \in [Supervisors -> Sups] /\ \A x \in Supervisors : sup[x].lost \in BOOLEAN
      BY <1>1 DEF TypeOK, Sups
    <2> QED
      BY <1>1, <2>1, <2>2, LostSays
  <1>3. /\ call' \in [Callers -> Calls] /\ call'[c].pc = "idle"
        /\ \A x \in Callers \ {c} : call'[x] = call[x]
        /\ holder' = IF holder = c THEN Nobody ELSE holder
    BY <1>1, ReturnTyped DEF TypeOK, Return, LeaveLifecycle, Idle
  <1>4. TypeOK'
    BY <1>1, <1>2, <1>3 DEF TypeOK, files
  <1>5. Owned' /\ Attended'
    BY <1>1, <1>2 DEF files, Owned, Attended, Alive, Running, SupAt
  <1>6. Serialized'
    BY <1>1, <1>3 DEF Serialized, CallAt
  <1>7. Unrecorded'
    BY <1>1, <1>2, <1>3 DEF TypeOK, Unrecorded, Deciding, CallAt, files
  <1>8. Accounted'
    <2>1. \A s : Alive(s)' = Alive(s)
      BY <1>2 DEF Alive
    <2>2. record' = record
      BY DEF files
    <2>3. ASSUME NEW s \in Supervisors, Alive(s), record # s, ~sup'[s].lost
          PROVE  \E x \in Callers : CallAt(x, "record")' /\ call'[x].target = s
      <3>1. PICK x \in Callers : CallAt(x, "record") /\ call[x].target = s
        BY <1>1, <1>2, <2>3 DEF Accounted
      <3>2. x # c
        BY <1>2, <2>3, <3>1
      <3> QED
        BY <1>3, <3>1, <3>2 DEF CallAt
    <2> QED
      BY <1>1, <2>1, <2>2, <2>3 DEF Accounted
  <1> QED
    BY <1>4, <1>5, <1>6, <1>7, <1>8 DEF IInv

LEMMA RecordFailsInv ==
  ASSUME IInv, NEW c \in Callers, RecordFails(c)
  PROVE  IInv'
  <1>1. events' \in Nat
    BY EventCounted DEF IInv, RecordFails
  <1> QED
    BY <1>1, AbandonInv DEF RecordFails

LEMMA StartedInv ==
  ASSUME IInv, NEW c \in Callers, Started(c)
  PROVE  IInv'
  <1>1. TypeOK /\ Owned /\ Serialized /\ Unrecorded /\ Accounted /\ Attended
    BY DEF IInv
  <1>2. TypeOK'
    BY <1>1, ResidentAssumption, Nulls, FileRecords, CallRecords, KnownCommands
       DEF Started, Healthy, Return, LeaveLifecycle, CallAt, files, TypeOK, Daemons, Alive,
           Running, CallPCs
  <1>3. Owned' /\ Attended'
    BY <1>1, <1>2, ResidentAssumption
       DEF Started, Healthy, Return, LeaveLifecycle, CallAt, files, Idle, Calls, TypeOK, Owned,
           Daemons, Opened, Attended, Alive, Running, SupAt
  <1>4. Serialized' /\ Unrecorded' /\ Accounted'
    BY <1>1, <1>2, ResidentAssumption
       DEF Started, Healthy, Return, LeaveLifecycle, CallAt, files, Idle, Calls, TypeOK,
           Serialized, Daemons, Unrecorded, Deciding, Accounted, Alive, SupAt
  <1> QED
    BY <1>2, <1>3, <1>4 DEF IInv

LEMMA StartupTimeoutInv ==
  ASSUME IInv, NEW c \in Callers, StartupTimeout(c)
  PROVE  IInv'
  <1>1. TypeOK /\ Owned /\ Serialized /\ Unrecorded /\ Accounted /\ Attended
    BY DEF IInv
  <1>2. TypeOK'
    BY <1>1, ResidentAssumption, Nulls, FileRecords, CallRecords, KnownCommands
       DEF StartupTimeout, CallAt, files, TypeOK, Daemons, Alive, Running, CallPCs
  <1>3. Owned' /\ Attended'
    BY <1>1, <1>2, ResidentAssumption
       DEF StartupTimeout, CallAt, files, Idle, Calls, TypeOK, Owned, Daemons, Opened,
           Attended, Alive, Running, SupAt
  <1>4. Serialized' /\ Unrecorded' /\ Accounted'
    BY <1>1, <1>2, ResidentAssumption
       DEF StartupTimeout, CallAt, files, Idle, Calls, TypeOK, Serialized, Daemons, Unrecorded,
           Deciding, Accounted, Alive, SupAt
  <1> QED
    BY <1>2, <1>3, <1>4 DEF IInv

LEMMA CallerDiesInv ==
  ASSUME IInv, NEW c \in Callers, CallerDies(c)
  PROVE  IInv'
  <1>1. events' \in Nat
    BY EventCounted DEF IInv, CallerDies
  <1> QED
    BY <1>1, AbandonInv DEF CallerDies

LEMMA InvokeInv ==
  ASSUME IInv, NEW c \in Callers, NEW k \in Commands, Invoke(c, k)
  PROVE  IInv'
  <1>1. TypeOK /\ Owned /\ Serialized /\ Unrecorded /\ Accounted /\ Attended
    BY DEF IInv
  <1>2. TypeOK'
    <2>1. call' \in [Callers -> Calls]
      BY <1>1, Nulls, CallRecords, KnownCommands
         DEF Invoke, CallAt, files, TypeOK, Daemons, Alive, Running, CallPCs, Calls
    <2> QED
      BY <1>1, <2>1, ResidentAssumption DEF Invoke, CallAt, files, TypeOK, Daemons, Alive
  <1>3. Owned' /\ Attended'
    BY <1>1, <1>2, ResidentAssumption
       DEF Invoke, CallAt, files, Idle, Calls, TypeOK, Owned, Daemons, Opened, Attended, Alive,
           Running, SupAt
  <1>4. Serialized' /\ Unrecorded' /\ Accounted'
    BY <1>1, <1>2, ResidentAssumption
       DEF Invoke, CallAt, files, Idle, Calls, TypeOK, Serialized, Daemons, Unrecorded,
           Deciding, Accounted, Alive, SupAt
  <1> QED
    BY <1>2, <1>3, <1>4 DEF IInv

\* ... of a supervisor ...
LEMMA RefuseSpecsInv ==
  ASSUME IInv, NEW s \in Supervisors, RefuseSpecs(s)
  PROVE  IInv'
  <1>1. TypeOK /\ Owned /\ Serialized /\ Unrecorded /\ Accounted /\ Attended
    BY DEF IInv
  <1>2. TypeOK'
    BY <1>1, ResidentAssumption, Nulls, FileRecords, SupRecords, DmnRecords
       DEF RefuseSpecs, SupervisorEnds, SupAt, files, TypeOK, Daemons, Alive, Running, SupPCs
  <1>3. Owned' /\ Attended'
    BY <1>1, <1>2, ResidentAssumption
       DEF RefuseSpecs, SupervisorEnds, NoSupervisor, SupAt, files, Sups, TypeOK, Owned,
           Daemons, Opened, Attended, Alive, Running
  <1>4. Serialized' /\ Unrecorded' /\ Accounted'
    BY <1>1, <1>2, ResidentAssumption
       DEF RefuseSpecs, SupervisorEnds, NoSupervisor, SupAt, files, Sups, TypeOK, Serialized,
           CallAt, Daemons, Unrecorded, Deciding, Accounted, Alive
  <1> QED
    BY <1>2, <1>3, <1>4 DEF IInv

LEMMA StartDaemonInv ==
  ASSUME IInv, NEW s \in Supervisors, StartDaemon(s)
  PROVE  IInv'
  <1>1. TypeOK /\ Owned /\ Serialized /\ Unrecorded /\ Accounted /\ Attended
    BY DEF IInv
  <1>2. TypeOK'
    BY <1>1, ResidentAssumption, Nulls, FileRecords, SupRecords, DmnRecords
       DEF StartDaemon, Born, SupTo, SupAt, files, TypeOK, Daemons, Alive, Running, SupPCs,
           DaemonPCs
  <1>3. Owned' /\ Attended'
    BY <1>1, <1>2, ResidentAssumption
       DEF StartDaemon, Born, NoDaemon, SupTo, SupAt, files, Sups, Dmns, TypeOK, Owned,
           Daemons, Opened, Attended, Alive, Running
  <1>4. Serialized' /\ Unrecorded' /\ Accounted'
    BY <1>1, <1>2, ResidentAssumption
       DEF StartDaemon, Born, NoDaemon, SupTo, SupAt, files, Sups, Dmns, TypeOK, Serialized,
           CallAt, Daemons, Unrecorded, Deciding, Accounted, Alive
  <1> QED
    BY <1>2, <1>3, <1>4 DEF IInv

LEMMA StartupFailsInv ==
  ASSUME IInv, NEW s \in Supervisors, StartupFails(s)
  PROVE  IInv'
  <1>1. TypeOK /\ Owned /\ Serialized /\ Unrecorded /\ Accounted /\ Attended
    BY DEF IInv
  <1>2. TypeOK'
    <2>1. sup' \in [Supervisors -> Sups]
      BY <1>1, Nulls, SupRecords
         DEF StartupFails, SupTo, SupAt, files, TypeOK, Daemons, Alive, Running, SupPCs
    <2> QED
      BY <1>1, <2>1, EventCounted, ResidentAssumption
         DEF StartupFails, SupTo, SupAt, files, TypeOK, Daemons, Alive
  <1>3. Owned' /\ Attended'
    BY <1>1, <1>2, ResidentAssumption
       DEF StartupFails, SupTo, SupAt, files, Sups, TypeOK, Owned, Daemons, Opened, Attended,
           Alive, Running
  <1>4. Serialized' /\ Unrecorded' /\ Accounted'
    BY <1>1, <1>2, ResidentAssumption
       DEF StartupFails, SupTo, SupAt, files, Sups, TypeOK, Serialized, CallAt, Daemons,
           Unrecorded, Deciding, Accounted, Alive
  <1> QED
    BY <1>2, <1>3, <1>4 DEF IInv

LEMMA BeginLoopInv ==
  ASSUME IInv, NEW s \in Supervisors, BeginLoop(s)
  PROVE  IInv'
  <1>1. TypeOK /\ Owned /\ Serialized /\ Unrecorded /\ Accounted /\ Attended
    BY DEF IInv
  <1>2. TypeOK'
    BY <1>1, ResidentAssumption, Nulls, FileRecords, SupRecords, DmnRecords
       DEF BeginLoop, SupTo, SupAt, files, TypeOK, Daemons, Alive, Running, SupPCs
  <1>3. Owned' /\ Attended'
    BY <1>1, <1>2, ResidentAssumption
       DEF BeginLoop, SupTo, SupAt, files, Sups, TypeOK, Owned, Daemons, Opened, Attended,
           Alive, Running
  <1>4. Serialized' /\ Unrecorded' /\ Accounted'
    BY <1>1, <1>2, ResidentAssumption
       DEF BeginLoop, SupTo, SupAt, files, Sups, TypeOK, Serialized, CallAt, Daemons,
           Unrecorded, Deciding, Accounted, Alive
  <1> QED
    BY <1>2, <1>3, <1>4 DEF IInv

LEMMA EndLoopInv ==
  ASSUME IInv, NEW s \in Supervisors, EndLoop(s)
  PROVE  IInv'
  <1>1. TypeOK /\ Owned /\ Serialized /\ Unrecorded /\ Accounted /\ Attended
    BY DEF IInv
  <1>2. TypeOK'
    BY <1>1, ResidentAssumption, Nulls, FileRecords, SupRecords, DmnRecords
       DEF EndLoop, SupTo, MustEnd, SupAt, files, TypeOK, Daemons, Alive, Running, SupPCs
  <1>3. Owned' /\ Attended'
    BY <1>1, <1>2, ResidentAssumption
       DEF EndLoop, SupTo, MustEnd, SupAt, files, Sups, TypeOK, Owned, Daemons, Opened,
           Attended, Alive, Running
  <1>4. Serialized' /\ Unrecorded' /\ Accounted'
    BY <1>1, <1>2, ResidentAssumption
       DEF EndLoop, SupTo, MustEnd, SupAt, files, Sups, TypeOK, Serialized, CallAt, Daemons,
           Unrecorded, Deciding, Accounted, Alive
  <1> QED
    BY <1>2, <1>3, <1>4 DEF IInv

LEMMA ReadFenceInv ==
  ASSUME IInv, NEW s \in Supervisors, ReadFence(s)
  PROVE  IInv'
  <1>1. TypeOK /\ Owned /\ Serialized /\ Unrecorded /\ Accounted /\ Attended
    BY DEF IInv
  <1>2. TypeOK'
    BY <1>1, ResidentAssumption, Nulls, FileRecords, SupRecords, DmnRecords
       DEF ReadFence, MustEnd, SupAt, files, TypeOK, Daemons, Alive, Running, SupPCs
  <1>3. Owned' /\ Attended'
    BY <1>1, <1>2, ResidentAssumption
       DEF ReadFence, MustEnd, SupAt, files, Sups, TypeOK, Owned, Daemons, Opened, Attended,
           Alive, Running
  <1>4. Serialized' /\ Unrecorded' /\ Accounted'
    BY <1>1, <1>2, ResidentAssumption
       DEF ReadFence, MustEnd, SupAt, files, Sups, TypeOK, Serialized, CallAt, Daemons,
           Unrecorded, Deciding, Accounted, Alive
  <1> QED
    BY <1>2, <1>3, <1>4 DEF IInv

LEMMA ChildRunsInv ==
  ASSUME IInv, NEW s \in Supervisors, ChildRuns(s)
  PROVE  IInv'
  <1>1. TypeOK /\ Owned /\ Serialized /\ Unrecorded /\ Accounted /\ Attended
    BY DEF IInv
  <1>2. TypeOK'
    BY <1>1, ResidentAssumption, Nulls, FileRecords, SupRecords, DmnRecords
       DEF ChildRuns, SupTo, SupAt, files, TypeOK, Daemons, Alive, Running, SupPCs
  <1>3. Owned' /\ Attended'
    BY <1>1, <1>2, ResidentAssumption
       DEF ChildRuns, SupTo, SupAt, files, Sups, TypeOK, Owned, Daemons, Opened, Attended,
           Alive, Running
  <1>4. Serialized' /\ Unrecorded' /\ Accounted'
    BY <1>1, <1>2, ResidentAssumption
       DEF ChildRuns, SupTo, SupAt, files, Sups, TypeOK, Serialized, CallAt, Daemons,
           Unrecorded, Deciding, Accounted, Alive
  <1> QED
    BY <1>2, <1>3, <1>4 DEF IInv

LEMMA EndOrExhaustedInv ==
  ASSUME IInv, NEW s \in Supervisors, EndOrExhausted(s)
  PROVE  IInv'
  <1>1. TypeOK /\ Owned /\ Serialized /\ Unrecorded /\ Accounted /\ Attended
    BY DEF IInv
  <1>2. TypeOK'
    BY <1>1, ResidentAssumption, Nulls, FileRecords, SupRecords, DmnRecords
       DEF EndOrExhausted, SupTo, SupAt, files, TypeOK, Daemons, Alive, Running, SupPCs
  <1>3. Owned' /\ Attended'
    BY <1>1, <1>2, ResidentAssumption
       DEF EndOrExhausted, SupTo, SupAt, files, Sups, TypeOK, Owned, Daemons, Opened, Attended,
           Alive, Running
  <1>4. Serialized' /\ Unrecorded' /\ Accounted'
    BY <1>1, <1>2, ResidentAssumption
       DEF EndOrExhausted, SupTo, SupAt, files, Sups, TypeOK, Serialized, CallAt, Daemons,
           Unrecorded, Deciding, Accounted, Alive
  <1> QED
    BY <1>2, <1>3, <1>4 DEF IInv

LEMMA RestartDaemonInv ==
  ASSUME IInv, NEW s \in Supervisors, RestartDaemon(s)
  PROVE  IInv'
  <1>1. TypeOK /\ Owned /\ Serialized /\ Unrecorded /\ Accounted /\ Attended
    BY DEF IInv
  <1>2. TypeOK'
    <2>1. sup' \in [Supervisors -> Sups]
      <3>1. sup[s] \in Sups /\ sup[s].tries + 1 \in Nat
        BY <1>1 DEF TypeOK, Sups
      <3> DEFINE r == [sup[s] EXCEPT !.pc = "loop", !.saw = FALSE, !.tries = sup[s].tries + 1]
      <3>2. r \in Sups
        BY <3>1, SupRecords DEF SupPCs
      <3>3. sup' = [sup EXCEPT ![s] = r]
        BY <1>1, <3>1 DEF RestartDaemon, TypeOK
      <3> QED
        BY <1>1, <3>2, <3>3 DEF TypeOK
    <2>2. dmn' \in [Daemons -> Dmns]
      <3>1. s \in Daemons /\ sup[s].gen \in Nat
        BY <1>1, SupRecords DEF TypeOK, Daemons
      <3> QED
        BY <1>1, <3>1, BornTyped DEF RestartDaemon
    <2>3. service' \in Rows
      <3>1. s \in Daemons /\ sup[s].gen \in Nat
        BY <1>1, SupRecords DEF TypeOK, Daemons
      <3> QED
        BY <1>1, <3>1, BornTyped DEF RestartDaemon
    <2> QED
      BY <1>1, <2>1, <2>2, <2>3, ResidentAssumption
         DEF RestartDaemon, Unfenced, Born, SupAt, files, TypeOK, Daemons, Alive
  <1>3. Owned' /\ Attended'
    BY <1>1, <1>2, ResidentAssumption
       DEF RestartDaemon, Unfenced, Born, NoDaemon, SupAt, files, Sups, Dmns, TypeOK, Owned,
           Daemons, Opened, Attended, Alive, Running
  <1>4. Serialized' /\ Unrecorded' /\ Accounted'
    BY <1>1, <1>2, ResidentAssumption
       DEF RestartDaemon, Unfenced, Born, NoDaemon, SupAt, files, Sups, Dmns, TypeOK,
           Serialized, CallAt, Daemons, Unrecorded, Deciding, Accounted, Alive
  <1> QED
    BY <1>2, <1>3, <1>4 DEF IInv

LEMMA RestartAgesInv ==
  ASSUME IInv, NEW s \in Supervisors, RestartAges(s)
  PROVE  IInv'
  <1>1. TypeOK /\ Owned /\ Serialized /\ Unrecorded /\ Accounted /\ Attended
    BY DEF IInv
  <1>2. TypeOK'
    <2>1. sup' \in [Supervisors -> Sups]
      <3>1. sup[s] \in Sups /\ sup[s].tries - 1 \in Nat
        BY <1>1 DEF TypeOK, Sups, RestartAges
      <3> QED
        BY <1>1, <3>1, SupRecords DEF TypeOK, RestartAges
    <2> QED
      BY <1>1, <2>1, ResidentAssumption DEF RestartAges, SupAt, files, TypeOK, Daemons, Alive
  <1>3. Owned' /\ Attended'
    BY <1>1, <1>2, ResidentAssumption
       DEF RestartAges, SupAt, files, Sups, TypeOK, Owned, Daemons, Opened, Attended, Alive,
           Running
  <1>4. Serialized' /\ Unrecorded' /\ Accounted'
    BY <1>1, <1>2, ResidentAssumption
       DEF RestartAges, SupAt, files, Sups, TypeOK, Serialized, CallAt, Daemons, Unrecorded,
           Deciding, Accounted, Alive
  <1> QED
    BY <1>2, <1>3, <1>4 DEF IInv

LEMMA AnotherChildFailsInv ==
  ASSUME IInv, NEW s \in Supervisors, AnotherChildFails(s)
  PROVE  IInv'
  <1>1. TypeOK /\ Owned /\ Serialized /\ Unrecorded /\ Accounted /\ Attended
    BY DEF IInv
  <1>2. TypeOK'
    <2>1. sup' \in [Supervisors -> Sups]
      BY <1>1, Nulls, SupRecords
         DEF AnotherChildFails, SupTo, SupAt, files, TypeOK, Daemons, Alive, Running, SupPCs
    <2> QED
      BY <1>1, <2>1, EventCounted, ResidentAssumption
         DEF AnotherChildFails, SupTo, SupAt, files, TypeOK, Daemons, Alive
  <1>3. Owned' /\ Attended'
    BY <1>1, <1>2, ResidentAssumption
       DEF AnotherChildFails, SupTo, SupAt, files, Sups, TypeOK, Owned, Daemons, Opened,
           Attended, Alive, Running
  <1>4. Serialized' /\ Unrecorded' /\ Accounted'
    BY <1>1, <1>2, ResidentAssumption
       DEF AnotherChildFails, SupTo, SupAt, files, Sups, TypeOK, Serialized, CallAt, Daemons,
           Unrecorded, Deciding, Accounted, Alive
  <1> QED
    BY <1>2, <1>3, <1>4 DEF IInv

LEMMA EndChildrenInv ==
  ASSUME IInv, NEW s \in Supervisors, EndChildren(s)
  PROVE  IInv'
  <1>1. TypeOK /\ Owned /\ Serialized /\ Unrecorded /\ Accounted /\ Attended
    BY DEF IInv
  <1>2. TypeOK'
    BY <1>1, ResidentAssumption, Nulls, FileRecords, SupRecords, DmnRecords
       DEF EndChildren, EndChild, WithoutOwner, SupervisorEnds, SupAt, files, TypeOK, Daemons,
           Alive, Running, SupPCs
  <1>3. Owned' /\ Attended'
    BY <1>1, <1>2, ResidentAssumption
       DEF EndChildren, EndChild, WithoutOwner, SupervisorEnds, NoSupervisor, NoDaemon, NoRow,
           SupAt, files, Sups, Dmns, Locks, TypeOK, Owned, Daemons, Opened, Attended, Alive,
           Running
  <1>4. Serialized' /\ Unrecorded' /\ Accounted'
    BY <1>1, <1>2, ResidentAssumption
       DEF EndChildren, EndChild, WithoutOwner, SupervisorEnds, NoSupervisor, NoDaemon, NoRow,
           SupAt, files, Sups, Dmns, Locks, TypeOK, Serialized, CallAt, Daemons, Unrecorded,
           Deciding, Accounted, Alive
  <1> QED
    BY <1>2, <1>3, <1>4 DEF IInv

LEMMA SupervisorDiesInv ==
  ASSUME IInv, NEW s \in Supervisors, SupervisorDies(s)
  PROVE  IInv'
  <1>1. TypeOK /\ Owned /\ Serialized /\ Unrecorded /\ Accounted /\ Attended
    BY DEF IInv
  <1>2. TypeOK'
    <2>1. sup' \in [Supervisors -> Sups]
      BY <1>1, Nulls, SupRecords
         DEF SupervisorDies, OrphanChild, SupervisorEnds, SupAt, files, TypeOK, Daemons, Alive,
             Running, SupPCs
    <2>2. dmn' \in [Daemons -> Dmns]
      BY <1>1, Nulls, DmnRecords
         DEF SupervisorDies, OrphanChild, SupervisorEnds, SupAt, files, TypeOK, Daemons, Alive,
             Running, DaemonPCs, Opened
    <2>3. lock' \in Locks
      BY <1>1, Nulls, FileRecords
         DEF SupervisorDies, OrphanChild, SupervisorEnds, SupAt, files, TypeOK, Daemons, Alive,
             Running
    <2> QED
      BY <1>1, <2>1, <2>2, <2>3, EventCounted, ResidentAssumption
         DEF SupervisorDies, OrphanChild, SupervisorEnds, SupAt, files, TypeOK, Daemons, Alive
  <1>3. Owned' /\ Attended'
    BY <1>1, <1>2, ResidentAssumption
       DEF SupervisorDies, OrphanChild, SupervisorEnds, NoSupervisor, SupAt, files, Sups, Dmns,
           TypeOK, Owned, Daemons, Opened, Attended, Alive, Running
  <1>4. Serialized' /\ Unrecorded' /\ Accounted'
    BY <1>1, <1>2, ResidentAssumption
       DEF SupervisorDies, OrphanChild, SupervisorEnds, NoSupervisor, SupAt, files, Sups, Dmns,
           TypeOK, Serialized, CallAt, Daemons, Unrecorded, Deciding, Accounted, Alive
  <1> QED
    BY <1>2, <1>3, <1>4 DEF IInv

\* ... of a daemon ...
LEMMA RunByHandInv ==
  ASSUME IInv, NEW d \in ByHand, RunByHand(d)
  PROVE  IInv'
  <1>1. TypeOK /\ Owned /\ Serialized /\ Unrecorded /\ Accounted /\ Attended
    BY DEF IInv
  <1>2. TypeOK'
    BY <1>1, ResidentAssumption, Nulls, FileRecords, DmnRecords
       DEF RunByHand, Born, At, files, TypeOK, Daemons, Alive, Running, DaemonPCs, Opened
  <1>3. Owned' /\ Attended'
    BY <1>1, <1>2, ResidentAssumption
       DEF RunByHand, Born, NoDaemon, At, files, Dmns, TypeOK, Owned, Daemons, Opened,
           Attended, Alive, Running, SupAt
  <1>4. Serialized' /\ Unrecorded' /\ Accounted'
    BY <1>1, <1>2, ResidentAssumption
       DEF RunByHand, Born, NoDaemon, At, files, Dmns, TypeOK, Serialized, CallAt, Daemons,
           Unrecorded, Deciding, Accounted, Alive, SupAt
  <1> QED
    BY <1>2, <1>3, <1>4 DEF IInv

LEMMA CreateLockInv ==
  ASSUME IInv, NEW d \in Daemons, CreateLock(d)
  PROVE  IInv'
  <1>1. TypeOK /\ Owned /\ Serialized /\ Unrecorded /\ Accounted /\ Attended
    BY DEF IInv
  <1>2. TypeOK'
    <2>1. dmn' \in [Daemons -> Dmns]
      BY <1>1, Nulls, DmnRecords
         DEF CreateLock, Goto, At, files, TypeOK, Daemons, Alive, Running, DaemonPCs, Opened
    <2>2. lock' \in Locks
      BY <1>1, Nulls, FileRecords
         DEF CreateLock, Goto, At, files, TypeOK, Daemons, Alive, Running, Locks
    <2> QED
      BY <1>1, <2>1, <2>2, ResidentAssumption
         DEF CreateLock, Goto, At, files, TypeOK, Daemons, Alive
  <1>3. Owned' /\ Attended'
    BY <1>1, <1>2, ResidentAssumption
       DEF CreateLock, Goto, At, files, Dmns, Locks, TypeOK, Owned, Daemons, Opened, Attended,
           Alive, Running, SupAt
  <1>4. Serialized' /\ Unrecorded' /\ Accounted'
    BY <1>1, <1>2, ResidentAssumption
       DEF CreateLock, Goto, At, files, Dmns, Locks, TypeOK, Serialized, CallAt, Daemons,
           Unrecorded, Deciding, Accounted, Alive, SupAt
  <1> QED
    BY <1>2, <1>3, <1>4 DEF IInv

LEMMA LockExistsInv ==
  ASSUME IInv, NEW d \in Daemons, LockExists(d)
  PROVE  IInv'
  <1>1. TypeOK /\ Owned /\ Serialized /\ Unrecorded /\ Accounted /\ Attended
    BY DEF IInv
  <1>2. TypeOK'
    <2>1. dmn' \in [Daemons -> Dmns]
      BY <1>1, GotoTyped, ExitTyped DEF LockExists, DaemonPCs
    <2>2. lock' \in Locks
      BY <1>1, Nulls, FileRecords
         DEF LockExists, Goto, Exit, WithoutOwner, LeaveLifecycle, At, files, TypeOK, Daemons,
             Alive, Running
    <2> QED
      BY <1>1, <2>1, <2>2, ResidentAssumption
         DEF LockExists, Goto, Exit, WithoutOwner, LeaveLifecycle, At, files, TypeOK, Daemons,
             Alive
  <1>3. Owned' /\ Attended'
    BY <1>1, <1>2, ResidentAssumption
       DEF LockExists, Goto, Exit, NoDaemon, WithoutOwner, LeaveLifecycle, At, files, Dmns,
           Locks, TypeOK, Owned, Daemons, Opened, Attended, Alive, Running, SupAt
  <1>4. Serialized' /\ Unrecorded' /\ Accounted'
    BY <1>1, <1>2, ResidentAssumption
       DEF LockExists, Goto, Exit, NoDaemon, WithoutOwner, LeaveLifecycle, At, files, Dmns,
           Locks, TypeOK, Serialized, CallAt, Daemons, Unrecorded, Deciding, Accounted, Alive,
           SupAt
  <1> QED
    BY <1>2, <1>3, <1>4 DEF IInv

LEMMA JudgeOwnerInv ==
  ASSUME IInv, NEW d \in Daemons, JudgeOwner(d)
  PROVE  IInv'
  <1>1. TypeOK /\ Owned /\ Serialized /\ Unrecorded /\ Accounted /\ Attended
    BY DEF IInv
  <1>2. TypeOK'
    <2>1. dmn' \in [Daemons -> Dmns]
      BY <1>1, Verdicts, GotoTyped, ExitTyped DEF JudgeOwner, DaemonPCs
    <2>2. lock' \in Locks
      BY <1>1, Nulls, FileRecords
         DEF JudgeOwner, PidSays, OwnerSays, Goto, Exit, WithoutOwner, LeaveLifecycle, At, files,
             TypeOK, Daemons, Alive, Running
    <2> QED
      BY <1>1, <2>1, <2>2, ResidentAssumption
         DEF JudgeOwner, PidSays, OwnerSays, Goto, Exit, WithoutOwner, LeaveLifecycle, At, files,
             TypeOK, Daemons, Alive
  <1>3. Owned' /\ Attended'
    <2>1. CASE Exit(d)
      BY <1>1, <1>2, <2>1, ResidentAssumption
         DEF JudgeOwner, Exit, WithoutOwner, NoDaemon, TypeOK, Owned, Attended, Daemons, Opened,
             Alive, Running, SupAt, Dmns, Locks
    <2>2. ASSUME NEW pc \in {"alive", "unlink"}, Goto(d, pc), UNCHANGED lock
          PROVE  Owned' /\ Attended'
      BY <1>1, <1>2, <2>2, ResidentAssumption
         DEF JudgeOwner, Goto, TypeOK, Owned, Attended, Daemons, Opened, Alive, Running, SupAt,
             At, Dmns
    <2> QED
      BY <2>1, <2>2, Verdicts DEF JudgeOwner
  <1>4. Serialized' /\ Unrecorded' /\ Accounted'
    BY <1>1, <1>2, ResidentAssumption
       DEF JudgeOwner, PidSays, OwnerSays, Goto, Exit, NoDaemon, WithoutOwner, LeaveLifecycle,
           At, files, Dmns, Locks, TypeOK, Serialized, CallAt, Daemons, Unrecorded, Deciding,
           Accounted, Alive, SupAt
  <1> QED
    BY <1>2, <1>3, <1>4 DEF IInv

LEMMA UnlinkStaleInv ==
  ASSUME IInv, NEW d \in Daemons, UnlinkStale(d)
  PROVE  IInv'
  <1>1. TypeOK /\ Owned /\ Serialized /\ Unrecorded /\ Accounted /\ Attended
    BY DEF IInv
  <1>2. TypeOK'
    <2>1. dmn' \in [Daemons -> Dmns]
      BY <1>1, GotoTyped, ExitTyped DEF UnlinkStale, DaemonPCs
    <2>2. lock' \in Locks
      BY <1>1, Nulls, FileRecords
         DEF UnlinkStale, Pinned, Goto, Exit, WithoutOwner, LeaveLifecycle, At, files, TypeOK,
             Daemons, Alive, Running
    <2> QED
      BY <1>1, <2>1, <2>2, ResidentAssumption
         DEF UnlinkStale, Pinned, Goto, Exit, WithoutOwner, LeaveLifecycle, At, files, TypeOK,
             Daemons, Alive
  <1>3. Owned' /\ Attended'
    BY <1>1, <1>2, ResidentAssumption
       DEF UnlinkStale, Pinned, NoLock, Goto, Exit, NoDaemon, WithoutOwner, LeaveLifecycle, At,
           files, Dmns, Locks, TypeOK, Owned, Daemons, Opened, Attended, Alive, Running, SupAt
  <1>4. Serialized' /\ Unrecorded' /\ Accounted'
    BY <1>1, <1>2, ResidentAssumption
       DEF UnlinkStale, Pinned, NoLock, Goto, Exit, NoDaemon, WithoutOwner, LeaveLifecycle, At,
           files, Dmns, Locks, TypeOK, Serialized, CallAt, Daemons, Unrecorded, Deciding,
           Accounted, Alive, SupAt
  <1> QED
    BY <1>2, <1>3, <1>4 DEF IInv

LEMMA WriteOwnerInv ==
  ASSUME IInv, NEW d \in Daemons, WriteOwner(d)
  PROVE  IInv'
  <1>1. TypeOK /\ Owned /\ Serialized /\ Unrecorded /\ Accounted /\ Attended
    BY DEF IInv
  <1>2. TypeOK'
    BY <1>1, ResidentAssumption, Nulls, FileRecords, DmnRecords
       DEF WriteOwner, Goto, LeaveLifecycle, At, files, TypeOK, Daemons, Alive, Running,
           DaemonPCs, Opened
  <1>3. Owned' /\ Attended'
    BY <1>1, <1>2, ResidentAssumption
       DEF WriteOwner, Goto, LeaveLifecycle, At, files, Dmns, Locks, TypeOK, Owned, Daemons,
           Opened, Attended, Alive, Running, SupAt
  <1>4. Serialized' /\ Unrecorded' /\ Accounted'
    BY <1>1, <1>2, ResidentAssumption
       DEF WriteOwner, Goto, LeaveLifecycle, At, files, Dmns, Locks, TypeOK, Serialized,
           CallAt, Daemons, Unrecorded, Deciding, Accounted, Alive, SupAt
  <1> QED
    BY <1>2, <1>3, <1>4 DEF IInv

LEMMA WriteOwnerFailsInv ==
  ASSUME IInv, NEW d \in Daemons, WriteOwnerFails(d)
  PROVE  IInv'
  <1>1. TypeOK /\ Owned /\ Serialized /\ Unrecorded /\ Accounted /\ Attended
    BY DEF IInv
  <1>2. TypeOK'
    <2>1. dmn' \in [Daemons -> Dmns]
      BY <1>1, Nulls, DmnRecords
         DEF WriteOwnerFails, Goto, At, files, TypeOK, Daemons, Alive, Running, DaemonPCs, Opened
    <2> QED
      BY <1>1, <2>1, EventCounted, ResidentAssumption
         DEF WriteOwnerFails, Goto, At, files, TypeOK, Daemons, Alive
  <1>3. Owned' /\ Attended'
    BY <1>1, <1>2, ResidentAssumption
       DEF WriteOwnerFails, Goto, At, files, Dmns, Locks, TypeOK, Owned, Daemons, Opened,
           Attended, Alive, Running, SupAt
  <1>4. Serialized' /\ Unrecorded' /\ Accounted'
    BY <1>1, <1>2, ResidentAssumption
       DEF WriteOwnerFails, Goto, At, files, Dmns, Locks, TypeOK, Serialized, CallAt, Daemons,
           Unrecorded, Deciding, Accounted, Alive, SupAt
  <1> QED
    BY <1>2, <1>3, <1>4 DEF IInv

LEMMA InitializeInv ==
  ASSUME IInv, NEW d \in Daemons, Initialize(d)
  PROVE  IInv'
  <1>1. TypeOK /\ Owned /\ Serialized /\ Unrecorded /\ Accounted /\ Attended
    BY DEF IInv
  <1>2. TypeOK'
    <2>1. dmn' \in [Daemons -> Dmns]
      BY <1>1, GotoTyped DEF Initialize, DaemonPCs, Opened
    <2>2. service' \in Rows
      <3>1. (~fence) \in BOOLEAN
        BY <1>1 DEF TypeOK
      <3> QED
        BY <1>1, <3>1, BeatTyped DEF Initialize, TypeOK
    <2> QED
      BY <1>1, <2>1, <2>2, ResidentAssumption
         DEF Initialize, Compatible, Beat, Goto, At, files, TypeOK, Daemons, Alive
  <1>3. Owned' /\ Attended'
    BY <1>1, <1>2, ResidentAssumption
       DEF Initialize, Compatible, Beat, Goto, NoRow, At, files, Dmns, Locks, TypeOK, Owned,
           Daemons, Opened, Attended, Alive, Running, SupAt
  <1>4. Serialized' /\ Unrecorded' /\ Accounted'
    BY <1>1, <1>2, ResidentAssumption
       DEF Initialize, Compatible, Beat, Goto, NoRow, At, files, Dmns, Locks, TypeOK,
           Serialized, CallAt, Daemons, Unrecorded, Deciding, Accounted, Alive, SupAt
  <1> QED
    BY <1>2, <1>3, <1>4 DEF IInv

LEMMA BeginTickInv ==
  ASSUME IInv, NEW d \in Daemons, BeginTick(d)
  PROVE  IInv'
  <1>1. TypeOK /\ Owned /\ Serialized /\ Unrecorded /\ Accounted /\ Attended
    BY DEF IInv
  <1>2. TypeOK'
    BY <1>1, ResidentAssumption, Nulls, FileRecords, DmnRecords
       DEF BeginTick, Compatible, At, files, TypeOK, Daemons, Alive, Running, DaemonPCs, Opened
  <1>3. Owned' /\ Attended'
    BY <1>1, <1>2, ResidentAssumption
       DEF BeginTick, Compatible, At, files, Dmns, TypeOK, Owned, Daemons, Opened, Attended,
           Alive, Running, SupAt
  <1>4. Serialized' /\ Unrecorded' /\ Accounted'
    BY <1>1, <1>2, ResidentAssumption
       DEF BeginTick, Compatible, At, files, Dmns, TypeOK, Serialized, CallAt, Daemons,
           Unrecorded, Deciding, Accounted, Alive, SupAt
  <1> QED
    BY <1>2, <1>3, <1>4 DEF IInv

LEMMA EndTickInv ==
  ASSUME IInv, NEW d \in Daemons, NEW serves \in BOOLEAN, NEW drained \in BOOLEAN, EndTick(d, serves, drained)
  PROVE  IInv'
  <1>1. TypeOK /\ Owned /\ Serialized /\ Unrecorded /\ Accounted /\ Attended
    BY DEF IInv
  <1>2. TypeOK'
    <2>1. dmn' \in [Daemons -> Dmns]
      BY <1>1, Nulls, DmnRecords
         DEF EndTick, Beat, Goto, At, files, TypeOK, Daemons, Alive, Running, DaemonPCs, Opened
    <2>2. service' \in Rows
      <3>1. (~dmn[d].saw) \in BOOLEAN
        BY <1>1, DmnRecords DEF TypeOK
      <3> QED
        BY <1>1, <3>1, BeatTyped DEF EndTick
    <2> QED
      BY <1>1, <2>1, <2>2, ResidentAssumption
         DEF EndTick, Beat, Goto, At, files, TypeOK, Daemons, Alive
  <1>3. Owned' /\ Attended'
    BY <1>1, <1>2, ResidentAssumption
       DEF EndTick, Beat, Goto, NoRow, At, files, Dmns, Locks, TypeOK, Owned, Daemons, Opened,
           Attended, Alive, Running, SupAt
  <1>4. Serialized' /\ Unrecorded' /\ Accounted'
    BY <1>1, <1>2, ResidentAssumption
       DEF EndTick, Beat, Goto, NoRow, At, files, Dmns, Locks, TypeOK, Serialized, CallAt,
           Daemons, Unrecorded, Deciding, Accounted, Alive, SupAt
  <1> QED
    BY <1>2, <1>3, <1>4 DEF IInv

LEMMA TickFailsInv ==
  ASSUME IInv, NEW d \in Daemons, TickFails(d)
  PROVE  IInv'
  <1>1. TypeOK /\ Owned /\ Serialized /\ Unrecorded /\ Accounted /\ Attended
    BY DEF IInv
  <1>2. TypeOK'
    <2>1. dmn' \in [Daemons -> Dmns]
      BY <1>1, Nulls, DmnRecords
         DEF TickFails, Goto, At, files, TypeOK, Daemons, Alive, Running, DaemonPCs, Opened
    <2> QED
      BY <1>1, <2>1, EventCounted, ResidentAssumption
         DEF TickFails, Goto, At, files, TypeOK, Daemons, Alive
  <1>3. Owned' /\ Attended'
    BY <1>1, <1>2, ResidentAssumption
       DEF TickFails, Goto, At, files, Dmns, Locks, TypeOK, Owned, Daemons, Opened,
           Attended, Alive, Running, SupAt
  <1>4. Serialized' /\ Unrecorded' /\ Accounted'
    BY <1>1, <1>2, ResidentAssumption
       DEF TickFails, Goto, At, files, Dmns, Locks, TypeOK, Serialized, CallAt, Daemons,
           Unrecorded, Deciding, Accounted, Alive, SupAt
  <1> QED
    BY <1>2, <1>3, <1>4 DEF IInv

LEMMA LeaveRunInv ==
  ASSUME IInv, NEW d \in Daemons, LeaveRun(d)
  PROVE  IInv'
  <1>1. TypeOK /\ Owned /\ Serialized /\ Unrecorded /\ Accounted /\ Attended
    BY DEF IInv
  <1>2. TypeOK'
    BY <1>1, ResidentAssumption, Nulls, FileRecords, DmnRecords
       DEF LeaveRun, Beat, Goto, At, files, TypeOK, Daemons, Alive, Running, DaemonPCs, Opened
  <1>3. Owned' /\ Attended'
    BY <1>1, <1>2, ResidentAssumption
       DEF LeaveRun, Beat, Goto, NoRow, At, files, Dmns, Locks, TypeOK, Owned, Daemons, Opened,
           Attended, Alive, Running, SupAt
  <1>4. Serialized' /\ Unrecorded' /\ Accounted'
    BY <1>1, <1>2, ResidentAssumption
       DEF LeaveRun, Beat, Goto, NoRow, At, files, Dmns, Locks, TypeOK, Serialized, CallAt,
           Daemons, Unrecorded, Deciding, Accounted, Alive, SupAt
  <1> QED
    BY <1>2, <1>3, <1>4 DEF IInv

LEMMA RemoveLockInv ==
  ASSUME IInv, NEW d \in Daemons, RemoveLock(d)
  PROVE  IInv'
  <1>1. TypeOK /\ Owned /\ Serialized /\ Unrecorded /\ Accounted /\ Attended
    BY DEF IInv
  <1>2. TypeOK'
    BY <1>1, ResidentAssumption, Nulls, FileRecords, DmnRecords
       DEF RemoveLock, LeaveLifecycle, Pinned, At, files, TypeOK, Daemons, Alive, Running,
           DaemonPCs, Opened
  <1>3. Owned' /\ Attended'
    BY <1>1, <1>2, ResidentAssumption
       DEF RemoveLock, NoDaemon, LeaveLifecycle, Pinned, NoLock, At, files, Dmns, TypeOK,
           Owned, Daemons, Opened, Attended, Alive, Running, SupAt
  <1>4. Serialized' /\ Unrecorded' /\ Accounted'
    BY <1>1, <1>2, ResidentAssumption
       DEF RemoveLock, NoDaemon, LeaveLifecycle, Pinned, NoLock, At, files, Dmns, TypeOK,
           Serialized, CallAt, Daemons, Unrecorded, Deciding, Accounted, Alive, SupAt
  <1> QED
    BY <1>2, <1>3, <1>4 DEF IInv

LEMMA DaemonDiesInv ==
  ASSUME IInv, NEW d \in Daemons, DaemonDies(d)
  PROVE  IInv'
  <1>1. TypeOK /\ Owned /\ Serialized /\ Unrecorded /\ Accounted /\ Attended
    BY DEF IInv
  <1>2. TypeOK'
    <2>1. dmn' \in [Daemons -> Dmns]
      BY <1>1, Nulls, DmnRecords
         DEF DaemonDies, Exit, WithoutOwner, LeaveLifecycle, At, files, TypeOK, Daemons, Alive,
             Running, DaemonPCs, Opened
    <2>2. lock' \in Locks
      BY <1>1, Nulls, FileRecords
         DEF DaemonDies, Exit, WithoutOwner, LeaveLifecycle, At, files, TypeOK, Daemons, Alive,
             Running
    <2> QED
      BY <1>1, <2>1, <2>2, EventCounted, ResidentAssumption
         DEF DaemonDies, Exit, WithoutOwner, LeaveLifecycle, At, files, TypeOK, Daemons, Alive
  <1>3. Owned' /\ Attended'
    BY <1>1, <1>2, ResidentAssumption
       DEF DaemonDies, Exit, NoDaemon, WithoutOwner, LeaveLifecycle, At, files, Dmns, Locks,
           TypeOK, Owned, Daemons, Opened, Attended, Alive, Running, SupAt
  <1>4. Serialized' /\ Unrecorded' /\ Accounted'
    BY <1>1, <1>2, ResidentAssumption
       DEF DaemonDies, Exit, NoDaemon, WithoutOwner, LeaveLifecycle, At, files, Dmns, Locks,
           TypeOK, Serialized, CallAt, Daemons, Unrecorded, Deciding, Accounted, Alive, SupAt
  <1> QED
    BY <1>2, <1>3, <1>4 DEF IInv

\* ... and of the world around.
LEMMA AskInv ==
  ASSUME IInv, NEW what \in {"pause", "resume"}, Ask(what)
  PROVE  IInv'
  <1>1. TypeOK /\ Owned /\ Serialized /\ Unrecorded /\ Accounted /\ Attended
    BY DEF IInv
  <1>2. TypeOK'
    BY <1>1, ResidentAssumption, Nulls, FileRecords
       DEF Ask, Event, files, TypeOK, Daemons, Alive, Running
  <1>3. Owned' /\ Attended'
    BY <1>1, <1>2, ResidentAssumption
       DEF Ask, files, TypeOK, Owned, Daemons, Opened, Attended, Alive, Running, SupAt
  <1>4. Serialized' /\ Unrecorded' /\ Accounted'
    BY <1>1, <1>2, ResidentAssumption
       DEF Ask, files, TypeOK, Serialized, CallAt, Daemons, Unrecorded, Deciding, Accounted,
           Alive, SupAt
  <1> QED
    BY <1>2, <1>3, <1>4 DEF IInv

LEMMA ActivateReleaseInv ==
  ASSUME IInv, ActivateRelease
  PROVE  IInv'
  <1>1. TypeOK /\ Owned /\ Serialized /\ Unrecorded /\ Accounted /\ Attended
    BY DEF IInv
  <1>2. TypeOK'
    BY <1>1, ResidentAssumption, Nulls, FileRecords
       DEF ActivateRelease, Event, files, TypeOK, Daemons, Alive, Running
  <1>3. Owned' /\ Attended'
    BY <1>1, <1>2, ResidentAssumption
       DEF ActivateRelease, files, TypeOK, Owned, Daemons, Opened, Attended, Alive, Running,
           SupAt
  <1>4. Serialized' /\ Unrecorded' /\ Accounted'
    BY <1>1, <1>2, ResidentAssumption
       DEF ActivateRelease, files, TypeOK, Serialized, CallAt, Daemons, Unrecorded, Deciding,
           Accounted, Alive, SupAt
  <1> QED
    BY <1>2, <1>3, <1>4 DEF IInv

LEMMA LeaseLapsesInv ==
  ASSUME IInv, LeaseLapses
  PROVE  IInv'
  <1>1. TypeOK /\ Owned /\ Serialized /\ Unrecorded /\ Accounted /\ Attended
    BY DEF IInv
  <1>2. TypeOK'
    BY <1>1, ResidentAssumption, Nulls, FileRecords
       DEF LeaseLapses, files, TypeOK, Daemons, Alive, Running
  <1>3. Owned' /\ Attended'
    BY <1>1, <1>2, ResidentAssumption
       DEF LeaseLapses, NoRow, files, TypeOK, Owned, Daemons, Opened, Attended, Alive, Running,
           SupAt
  <1>4. Serialized' /\ Unrecorded' /\ Accounted'
    BY <1>1, <1>2, ResidentAssumption
       DEF LeaseLapses, NoRow, files, TypeOK, Serialized, CallAt, Daemons, Unrecorded,
           Deciding, Accounted, Alive, SupAt
  <1> QED
    BY <1>2, <1>3, <1>4 DEF IInv

\* Every step preserves it.
LEMMA NextInv == IInv /\ [Next]_vars => IInv'
  <1> SUFFICES ASSUME IInv, [Next]_vars
               PROVE  IInv'
    OBVIOUS
  <1>1. CASE UNCHANGED vars
    BY <1>1
       DEF IInv, TypeOK, Owned, Serialized, Unrecorded, Accounted, Attended, Alive, Running, SupAt,
           CallAt, Deciding, Pinned, vars
  <1>2. ASSUME NEW c \in Callers, \/ CallStep(c) \/ ProbeDenied(c) \/ RecordFails(c) \/ CallerDies(c)
                             \/ \E k \in Commands : Invoke(c, k)
        PROVE  IInv'
    BY <1>2, WriteStopRequestInv, StoppedInv, StillDrainingInv, TerminateExactInv,
       AlreadyRunningInv, NotRunningInv, ProbeDeniedInv, LookAtLockInv, JudgeLockInv, UnlinkLockInv,
       ResumeInv, SpawnInv, WriteRecordInv, RecordFailsInv, StartedInv, StartupTimeoutInv,
       CallerDiesInv, InvokeInv
       DEF CallStep
  <1>3. ASSUME NEW s \in Supervisors, SupStep(s) \/ RestartAges(s) \/ AnotherChildFails(s) \/ SupervisorDies(s)
        PROVE  IInv'
    BY <1>3, RefuseSpecsInv, StartDaemonInv, StartupFailsInv, BeginLoopInv, EndLoopInv,
       ReadFenceInv, ChildRunsInv, EndOrExhaustedInv, RestartDaemonInv, RestartAgesInv,
       AnotherChildFailsInv, EndChildrenInv, SupervisorDiesInv
       DEF SupStep
  <1>4. ASSUME NEW d \in Daemons, DaemonStep(d) \/ WriteOwnerFails(d) \/ TickFails(d) \/ DaemonDies(d)
        PROVE  IInv'
    BY <1>4, CreateLockInv, LockExistsInv, JudgeOwnerInv, UnlinkStaleInv, WriteOwnerInv,
       WriteOwnerFailsInv, InitializeInv, BeginTickInv, EndTickInv, TickFailsInv, LeaveRunInv,
       RemoveLockInv, DaemonDiesInv
       DEF DaemonStep
  <1> QED
    BY <1>1, <1>2, <1>3, <1>4, RunByHandInv, AskInv, ActivateReleaseInv, LeaseLapsesInv DEF Next

\* It is an invariant.
LEMMA Invariance == Spec => []IInv
  BY InitInv, NextInv, PTL DEF Spec

\* The values of the files and of the processes.
THEOREM TypeCorrect == Spec => []TypeOK
  <1>1. IInv => TypeOK
    BY DEF IInv
  <1> QED
    BY <1>1, Invariance, PTL

\* On Windows two daemons never work on one root: daemon_run_lock keeps them apart
\* whatever stale verdict a daemon, start_service or stop_service still acts upon.
THEOREM OneDaemonHolds == ASSUME Windows PROVE Spec => []OneDaemon
  <1>1. IInv => OneDaemon
    BY DEF IInv, Owned, OneDaemon
  <1> QED
    BY <1>1, Invariance, PTL

\* On every system: one supervisor at a time, but for those that a start could not
\* record and those that a later start was denied a look at, and no daemon without its
\* supervisor, but for orphans (start_service, service_status, run_supervisor).
THEOREM NoStraysHolds == Spec => []NoStrays
  <1>1. ASSUME IInv PROVE OneSupervisor
    <2> SUFFICES ASSUME NEW s \in Supervisors, NEW t \in Supervisors, Alive(s), Alive(t), s # t,
                        ~sup[s].lost, ~sup[t].lost
                 PROVE  FALSE
      BY DEF OneSupervisor
    <2>1. /\ record = s \/ \E c \in Callers : CallAt(c, "record") /\ call[c].target = s
          /\ record = t \/ \E c \in Callers : CallAt(c, "record") /\ call[c].target = t
      BY <1>1 DEF IInv, Accounted
    <2>2. \A c \in Callers : CallAt(c, "record") => holder = c /\ record \notin {s, t}
      BY <1>1, ResidentAssumption DEF IInv, Serialized, Unrecorded, CallAt
    <2> QED
      BY <2>1, <2>2, ResidentAssumption
  <1>2. ASSUME IInv PROVE NobodyLeftBehind
    BY <1>2 DEF IInv, Attended, NobodyLeftBehind
  <1>3. IInv => NoStrays
    BY <1>1, <1>2 DEF NoStrays
  <1> QED
    BY <1>3, Invariance, PTL

\* What a step does to the lifecycle lock.
Kept == UNCHANGED holder
GivenBack == holder # Nobody /\ holder' = Nobody
Taken == \E p \in Callers \cup Daemons : holder = Nobody /\ holder' = p

LEMMA Leaving == \A p : LeaveLifecycle(p) => Kept \/ GivenBack
  BY DEF LeaveLifecycle, Kept, GivenBack

LEMMA CallerMoves ==
  ASSUME NEW c \in Callers,
         \/ CallStep(c) \/ ProbeDenied(c) \/ RecordFails(c) \/ CallerDies(c)
         \/ \E k \in Commands : Invoke(c, k)
  PROVE  Kept \/ GivenBack \/ Taken
  <1>1. ASSUME NEW k, Invoke(c, k) PROVE Taken
    BY <1>1 DEF Invoke, Taken
  <1>2. ASSUME Return(c) PROVE Kept \/ GivenBack
    BY <1>2, Leaving DEF Return
  <1>3. ASSUME AfterStop(c) PROVE Kept \/ GivenBack
    BY <1>2, <1>3 DEF AfterStop, Kept
  <1>4. ASSUME Stopped(c) \/ TerminateExact(c) PROVE Kept \/ GivenBack
    BY <1>3, <1>4 DEF Stopped, TerminateExact, Kept
  <1>5. ASSUME \/ StillDraining(c) \/ AlreadyRunning(c) \/ Started(c)
               \/ RecordFails(c) \/ CallerDies(c)
        PROVE  Kept \/ GivenBack
    BY <1>2, <1>5 DEF StillDraining, AlreadyRunning, Started, RecordFails, CallerDies
  <1>6. ASSUME LookAtLock(c) \/ JudgeLock(c) \/ UnlinkLock(c) \/ Resume(c)
        PROVE  Kept \/ GivenBack
    BY <1>2, <1>6 DEF LookAtLock, JudgeLock, UnlinkLock, Resume, Kept
  <1>7. ASSUME \/ WriteStopRequest(c) \/ NotRunning(c) \/ ProbeDenied(c) \/ WriteRecord(c)
               \/ StartupTimeout(c) \/ \E s \in Supervisors : Spawn(c, s)
        PROVE  Kept
    BY <1>7 DEF WriteStopRequest, NotRunning, ProbeDenied, WriteRecord, StartupTimeout, Spawn, Kept
  <1> QED
    BY <1>1, <1>4, <1>5, <1>6, <1>7 DEF CallStep

LEMMA SupervisorMoves ==
  ASSUME NEW s \in Supervisors,
         SupStep(s) \/ RestartAges(s) \/ AnotherChildFails(s) \/ SupervisorDies(s)
  PROVE  Kept
  BY DEF Kept, SupStep, RestartAges, AnotherChildFails, SupervisorDies, RefuseSpecs, StartDaemon,
         StartupFails, BeginLoop, EndLoop, ReadFence, ChildRuns, EndOrExhausted, RestartDaemon,
         EndChildren

LEMMA DaemonMoves ==
  ASSUME NEW d \in Daemons,
         \/ d \in ByHand /\ RunByHand(d)
         \/ DaemonStep(d) \/ WriteOwnerFails(d) \/ TickFails(d) \/ DaemonDies(d)
  PROVE  Kept \/ GivenBack \/ Taken
  <1>1. ASSUME RunByHand(d) PROVE Taken
    BY <1>1 DEF RunByHand, Taken
  <1>2. ASSUME Exit(d) PROVE Kept \/ GivenBack
    BY <1>2, Leaving DEF Exit
  <1>3. ASSUME LockExists(d) \/ JudgeOwner(d) \/ UnlinkStale(d) \/ DaemonDies(d)
        PROVE  Kept \/ GivenBack
    BY <1>2, <1>3 DEF LockExists, JudgeOwner, UnlinkStale, DaemonDies, Kept
  <1>4. ASSUME WriteOwner(d) \/ RemoveLock(d) PROVE Kept \/ GivenBack
    BY <1>4, Leaving DEF WriteOwner, RemoveLock
  <1>5. ASSUME \/ CreateLock(d) \/ Initialize(d) \/ BeginTick(d) \/ LeaveRun(d) \/ WriteOwnerFails(d)
               \/ TickFails(d) \/ \E serves, drained \in BOOLEAN : EndTick(d, serves, drained)
        PROVE  Kept
    BY <1>5 DEF CreateLock, Initialize, BeginTick, LeaveRun, WriteOwnerFails, TickFails, EndTick, Kept
  <1> QED
    BY <1>1, <1>3, <1>4, <1>5 DEF DaemonStep

\* Calls, daemons started by hand and deaths use the lifecycle lock as the lock
\* that NamedProcessLock promises to be (_lifecycle_lock, daemon_run_lock).
THEOREM LifecycleCorrect == Spec => LifecycleUsed
  <1>1. Init => Lifecycle!Init
    BY DEF Init, Lifecycle!Init
  <1>2. IInv /\ [Next]_vars => [Lifecycle!Next]_({holder} \ {Nobody})
    <2> SUFFICES ASSUME IInv, [Next]_vars PROVE [Lifecycle!Next]_({holder} \ {Nobody})
      OBVIOUS
    <2>1. Kept \/ GivenBack \/ Taken
      <3>1. ASSUME UNCHANGED vars \/ ActivateRelease \/ LeaseLapses
                   \/ \E what \in {"pause", "resume"} : Ask(what)
            PROVE  Kept
        BY <3>1 DEF vars, ActivateRelease, LeaseLapses, Ask, Kept
      <3> QED
        BY <3>1, CallerMoves, SupervisorMoves, DaemonMoves DEF Next, Daemons
    <2>2. ASSUME Taken PROVE Lifecycle!Next
      <3>1. PICK p \in Callers \cup Daemons : holder = Nobody /\ holder' = p
        BY <2>2 DEF Taken
      <3>2. p # Nobody
        BY <3>1, ResidentAssumption DEF Daemons
      <3> QED
        BY <3>1, <3>2 DEF Lifecycle!Next, Lifecycle!Enter
    <2>3. ASSUME GivenBack PROVE Lifecycle!Next
      BY <2>3 DEF GivenBack, IInv, TypeOK, Lifecycle!Next, Lifecycle!Leave
    <2> QED
      BY <2>1, <2>2, <2>3 DEF Kept
  <1> QED
    BY <1>1, <1>2, Invariance, PTL DEF Spec, LifecycleUsed, Lifecycle!Spec
=============================================================================
