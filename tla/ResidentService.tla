-------------------------- MODULE ResidentService --------------------------
(***************************************************************************)
(* The resident daemon: start_service, stop_service and restart_service    *)
(* (runtime/resident_service.py) under the lifecycle lock, the supervisor  *)
(* they spawn (runtime/resident_supervisor.py), the daemon it keeps alive  *)
(* (daemon_run_lock, DaemonLock, application_lifecycle.py) and the stop    *)
(* fence both read (runtime/control.py).                                   *)
(*                                                                         *)
(* A file names a process by pid and start token, so the name of a process *)
(* that has ended is the name of nobody: an identity is used again once    *)
(* the files have forgotten it.  The lifecycle lock is the NamedProcessLock*)
(* of module ProcessLock, taken here at its word: one holder.              *)
(*                                                                         *)
(* Whether a process lives is asked with process_identity_matches, which   *)
(* says no of a dead one, and on Windows also of a living one to which it  *)
(* is denied a handle (process_identity.py).                               *)
(***************************************************************************)
EXTENDS Naturals

CONSTANTS
  Callers,       \* processes that start, stop or restart the service
  Supervisors,   \* each with a daemon, its child, of the same name
  ByHand,        \* daemons started by hand
  Nobody,
  Windows,       \* an open file is pinned, a forced stop ends the whole tree
  RestartLimit,
  Events,        \* what may come from outside: faults, commands, releases,
  MaxEvents      \* bound: and how often

ASSUME ResidentAssumption ==
  /\ Nobody \notin Callers \cup Supervisors \cup ByHand
  /\ Callers \cap (Supervisors \cup ByHand) = {}
  /\ Supervisors \cap ByHand = {}
  /\ Windows \in BOOLEAN
  /\ RestartLimit \in Nat /\ MaxEvents \in Nat

VARIABLES
  fence,    \* daemon_stop.json exists
  active,   \* release_generation of active-release.json
  record,   \* the supervisor that v4-resident-service.json names
  lock,     \* daemon.lock
  service,  \* heartbeat row of the daemon, while it is ready and its lease lasts
  asked,    \* the manager command that waits for a daemon
  holder,   \* of the lifecycle lock
  call, sup, dmn,
  events

vars == <<fence, active, record, lock, service, asked, holder,
          call, sup, dmn, events>>

Daemons == Supervisors \cup ByHand

files == <<fence, record, lock, service>>

\* start with and without resume, stop and restart with and without force.
Commands ==
  {k \in [stops : BOOLEAN, starts : BOOLEAN, resume : BOOLEAN, force : BOOLEAN] :
     IF k.stops THEN k.resume = k.starts ELSE k.starts /\ ~k.force}

ForcedStop == [stops |-> TRUE, starts |-> FALSE, resume |-> FALSE, force |-> TRUE]
ResumingStart == [stops |-> FALSE, starts |-> TRUE, resume |-> TRUE, force |-> FALSE]

NoRow == [by |-> Nobody, gen |-> 0]
NoLock == [says |-> "nothing", by |-> Nobody]
Idle == [pc |-> "idle", does |-> ForcedStop, target |-> Nobody]
NoSupervisor == [pc |-> "dead", gen |-> 0, term |-> FALSE, saw |-> FALSE,
                 tries |-> 0, lost |-> FALSE]
NoDaemon == [pc |-> "dead", gen |-> 0, saw |-> FALSE, orphan |-> FALSE]

Init ==
  /\ fence = FALSE /\ active = 1
  /\ record = Nobody /\ lock = NoLock /\ service = NoRow
  /\ asked = "nothing"
  /\ holder = Nobody
  /\ call = [c \in Callers |-> Idle]
  /\ sup = [s \in Supervisors |-> NoSupervisor]
  /\ dmn = [d \in Daemons |-> NoDaemon]
  /\ events = 0

Alive(s) == s \in Supervisors /\ sup[s].pc # "dead"
Running(d) == d \in Daemons /\ dmn[d].pc # "dead"
Event(what) == what \in Events /\ events < MaxEvents /\ events' = events + 1

\* A look at the recorded supervisor that finds none.
SeesNone == record = Nobody \/ Windows

\* service_status: what start_service takes for healthy, the daemon's part.  A
\* lost supervisor lists its children in the same file.
Healthy ==
  /\ record # Nobody /\ service.gen = active
  /\ service.by \in {record} \cup {s \in Supervisors : sup[s].lost}

-----------------------------------------------------------------------------
(* daemon.lock                                                             *)

Opened == {"write", "init", "tick", "work", "leave"}

\* Windows lets nobody remove a file that its owner holds open.
\* Mutant: the file is closed once its owner has been written.
ClosedEarly == Windows /\ lock.by # Nobody /\ dmn[lock.by].pc = "write"
Pinned == Windows /\ lock.by # Nobody /\ dmn[lock.by].pc \in Opened

\* DaemonLock.is_stale, read by read: the verdicts, or the next read.  A file
\* without an owner is stale to start_service once it is two minutes old.
PidSays(patient) ==
  CASE lock.says = "nothing" -> {"fresh"}
    [] lock.says = "owner" -> {"alive"}
    [] OTHER -> IF patient /\ lock.by = Nobody THEN {"unlink"} ELSE {"fresh"}

\* lock_owner_alive
OwnerSays ==
  LET lives == lock.says = "owner" /\ lock.by # Nobody
  IN  {v \in {"fresh", "unlink"} : IF v = "fresh" THEN lives ELSE lives => Windows}

-----------------------------------------------------------------------------
(* Births and deaths: a file that names the dead names nobody              *)

\* A row of the process that had this name before names nobody any more.
Born(d, gen) ==
  /\ dmn' = [dmn EXCEPT ![d] = [NoDaemon EXCEPT !.pc = "try", !.gen = gen]]
  /\ service' = IF service.by = d THEN [service EXCEPT !.by = Nobody] ELSE service

WithoutOwner(d) == IF lock.by = d THEN [lock EXCEPT !.by = Nobody] ELSE lock

\* The child of s is ended, or goes on without s.
\* Mutant: nobody ends it.
KeepChild(s) == UNCHANGED <<dmn, lock>>
EndChild(s) ==
  /\ dmn' = [dmn EXCEPT ![s] = NoDaemon]
  /\ lock' = WithoutOwner(s)

OrphanChild(s) ==
  /\ dmn' = [dmn EXCEPT ![s].orphan = Running(s)]
  /\ UNCHANGED lock

SupervisorEnds(s) ==
  /\ sup' = [sup EXCEPT ![s] = NoSupervisor]
  /\ record' = IF record = s THEN Nobody ELSE record

LeaveLifecycle(p) == holder' = IF holder = p THEN Nobody ELSE holder

-----------------------------------------------------------------------------
(* start_service, stop_service, restart_service                            *)

CallAt(c, pc) == call[c].pc = pc
CallTo(c, pc) == call' = [call EXCEPT ![c].pc = pc]

Return(c) == call' = [call EXCEPT ![c] = Idle] /\ LeaveLifecycle(c)

\* A wait for the lifecycle lock that runs out changes nothing.
Invoke(c, command) ==
  /\ CallAt(c, "idle") /\ holder = Nobody
  /\ holder' = c
  /\ call' = [call EXCEPT ![c] = [pc |-> IF command.stops THEN "fence" ELSE "status",
                                 does |-> command, target |-> Nobody]]
  /\ UNCHANGED <<files, active, asked, sup, dmn, events>>

WriteStopRequest(c) ==
  /\ CallAt(c, "fence")
  /\ fence' = TRUE
  /\ CallTo(c, "drain")
  /\ UNCHANGED <<record, lock, service, active, asked, holder, sup, dmn, events>>

\* restart_service goes on to start, stop_service returns.
AfterStop(c) ==
  IF call[c].does.starts
  THEN /\ call' = [call EXCEPT ![c].pc = "status", ![c].does = ResumingStart]
       /\ UNCHANGED holder
  ELSE Return(c)

Stopped(c) ==
  /\ CallAt(c, "drain") /\ SeesNone
  /\ AfterStop(c)
  /\ UNCHANGED <<files, active, asked, sup, dmn, events>>

\* The wait is over and the supervisor still drains: nobody has forced it, or
\* on Windows the look before that was denied, or taskkill has failed.
StillDraining(c) ==
  /\ CallAt(c, "drain") /\ record # Nobody
  /\ call[c].does.force => Windows
  /\ Return(c)
  /\ UNCHANGED <<files, active, asked, sup, dmn, events>>

\* _terminate_exact ends the tree (Windows), or sends a signal and five
\* seconds later ends the process alone.
TerminateExact(c) ==
  /\ CallAt(c, "drain") /\ record # Nobody /\ call[c].does.force
  /\ IF Windows \/ sup[record].term
     THEN /\ IF Windows THEN EndChild(record) ELSE OrphanChild(record)
          /\ SupervisorEnds(record)
          /\ AfterStop(c)
     ELSE sup' = [sup EXCEPT ![record].term = TRUE] /\ UNCHANGED <<record, lock, holder, call, dmn>>
  /\ UNCHANGED <<fence, service, active, asked, events>>

\* A living supervisor is left alone: it is healthy in time, or an error.
AlreadyRunning(c) ==
  /\ CallAt(c, "status") /\ record # Nobody
  /\ Return(c)
  /\ UNCHANGED <<files, active, asked, sup, dmn, events>>

NotRunning(c) ==
  /\ CallAt(c, "status") /\ record = Nobody
  /\ CallTo(c, "look")
  /\ UNCHANGED <<files, active, asked, holder, sup, dmn, events>>

\* The start is denied a look at a living supervisor, and passes it over.
ProbeDenied(c) ==
  /\ CallAt(c, "status") /\ record # Nobody
  /\ Windows /\ Event("denied")
  /\ call' = [call EXCEPT ![c].pc = "look", ![c].target = record]
  /\ UNCHANGED <<files, active, asked, holder, sup, dmn>>

\* daemon_lock_status: no lock, a daemon nobody manages, or one to judge.
LookAtLock(c) ==
  /\ CallAt(c, "look")
  /\ \/ lock.says = "nothing" /\ CallTo(c, "resume") /\ UNCHANGED holder
     \/ lock.says = "owner" /\ "fresh" \in OwnerSays /\ Return(c)
     \/ lock.says # "nothing" /\ "unlink" \in OwnerSays
        /\ CallTo(c, "pid") /\ UNCHANGED holder
  /\ UNCHANGED <<files, active, asked, sup, dmn, events>>

JudgeLock(c) ==
  /\ call[c].pc \in {"pid", "alive"}
  /\ \E next \in IF CallAt(c, "pid") THEN PidSays(TRUE) ELSE OwnerSays :
       IF next = "fresh" THEN Return(c) ELSE CallTo(c, next) /\ UNCHANGED holder
  /\ UNCHANGED <<files, active, asked, sup, dmn, events>>

\* The unlink of what was judged stale, whatever lies there by now.
UnlinkLock(c) ==
  /\ CallAt(c, "unlink")
  /\ IF Pinned THEN Return(c) /\ UNCHANGED lock
               ELSE lock' = NoLock /\ CallTo(c, "resume") /\ UNCHANGED holder
  /\ UNCHANGED <<fence, record, service, active, asked, sup, dmn, events>>

Resume(c) ==
  /\ CallAt(c, "resume")
  /\ IF call[c].does.resume \/ ~fence
     THEN fence' = FALSE /\ CallTo(c, "spawn") /\ UNCHANGED holder
     ELSE Return(c) /\ UNCHANGED fence
  /\ UNCHANGED <<record, lock, service, active, asked, sup, dmn, events>>

\* A new process may have any name that is not in use.
Free(s) == ~Alive(s) /\ ~Running(s)

\* The history of who was passed over, or never recorded, goes with it.
Lost(t) == IF Alive(t) THEN [sup EXCEPT ![t].lost = TRUE] ELSE sup

Spawn(c, s) ==
  /\ CallAt(c, "spawn") /\ Free(s)
  /\ s = CHOOSE t \in Supervisors : Free(t)
  /\ sup' = [Lost(call[c].target) EXCEPT ![s] = [NoSupervisor EXCEPT !.pc = "boot", !.gen = active]]
  /\ call' = [call EXCEPT ![c] = [pc |-> "record", does |-> ResumingStart, target |-> s]]
  /\ UNCHANGED <<files, active, asked, holder, dmn, events>>

WriteRecord(c) ==
  /\ CallAt(c, "record")
  /\ record' = IF Alive(call[c].target) THEN call[c].target ELSE Nobody
  /\ call' = [call EXCEPT ![c].pc = "health", ![c].target = Nobody]
  /\ UNCHANGED <<fence, lock, service, active, asked, holder, sup, dmn, events>>

Lose(c) == sup' = IF CallAt(c, "record") THEN Lost(call[c].target) ELSE sup

\* The record cannot be written: an error, and the supervisor goes on.
RecordFails(c) ==
  /\ CallAt(c, "record") /\ Event("write")
  /\ Lose(c) /\ Return(c)
  /\ UNCHANGED <<files, active, asked, dmn>>

Started(c) ==
  /\ CallAt(c, "health") /\ (Healthy \/ SeesNone)
  /\ Return(c)
  /\ UNCHANGED <<files, active, asked, sup, dmn, events>>

\* No healthy heartbeat in time, of the daemon or of another child: the start
\* becomes a forced stop.
StartupTimeout(c) ==
  /\ CallAt(c, "health") /\ record # Nobody
  /\ call' = [call EXCEPT ![c].pc = "fence", ![c].does = ForcedStop]
  /\ UNCHANGED <<files, active, asked, holder, sup, dmn, events>>

CallStep(c) ==
  \/ WriteStopRequest(c) \/ Stopped(c) \/ StillDraining(c) \/ TerminateExact(c)
  \/ AlreadyRunning(c) \/ NotRunning(c) \/ LookAtLock(c) \/ JudgeLock(c)
  \/ UnlinkLock(c) \/ Resume(c) \/ \E s \in Supervisors : Spawn(c, s)
  \/ WriteRecord(c) \/ Started(c) \/ StartupTimeout(c)

-----------------------------------------------------------------------------
(* run_supervisor                                                          *)

SupAt(s, pc) == sup[s].pc = pc
SupTo(s, pc) == sup' = [sup EXCEPT ![s].pc = pc, ![s].saw = FALSE]

\* child_specs refuses a generation that is no longer active.
RefuseSpecs(s) ==
  /\ SupAt(s, "boot") /\ active # sup[s].gen
  /\ SupervisorEnds(s)
  /\ UNCHANGED <<fence, lock, service, active, asked, holder, call, dmn, events>>

StartDaemon(s) ==
  /\ SupAt(s, "boot") /\ active = sup[s].gen
  /\ Born(s, sup[s].gen)
  /\ SupTo(s, "database")
  /\ UNCHANGED <<fence, record, lock, active, asked, holder, call, events>>

\* The daemon or the database is not there, or another child fails to start.
StartupFails(s) ==
  /\ SupAt(s, "database")
  /\ IF Running(s) THEN Event("child") ELSE UNCHANGED events
  /\ SupTo(s, "cleanup")
  /\ UNCHANGED <<files, active, asked, holder, call, dmn>>

BeginLoop(s) ==
  /\ SupAt(s, "database") /\ Running(s)
  /\ SupTo(s, "loop")
  /\ UNCHANGED <<files, active, asked, holder, call, dmn, events>>

MustEnd(s) == sup[s].term \/ active # sup[s].gen

EndLoop(s) ==
  /\ SupAt(s, "loop") /\ MustEnd(s)
  /\ SupTo(s, "cleanup")
  /\ UNCHANGED <<files, active, asked, holder, call, dmn, events>>

ReadFence(s) ==
  /\ SupAt(s, "loop") /\ ~MustEnd(s)
  /\ sup' = [sup EXCEPT ![s].pc = "poll", ![s].saw = fence]
  /\ UNCHANGED <<files, active, asked, holder, call, dmn, events>>

ChildRuns(s) ==
  /\ SupAt(s, "poll") /\ Running(s)
  /\ SupTo(s, "loop")
  /\ UNCHANGED <<files, active, asked, holder, call, dmn, events>>

\* The daemon has ended: drained behind the fence, or once too often.
EndOrExhausted(s) ==
  /\ SupAt(s, "poll") /\ ~Running(s)
  /\ sup[s].saw \/ sup[s].tries >= RestartLimit
  /\ SupTo(s, "cleanup")
  /\ UNCHANGED <<files, active, asked, holder, call, dmn, events>>

Unfenced(s) == ~sup[s].saw

RestartDaemon(s) ==
  /\ SupAt(s, "poll") /\ ~Running(s)
  /\ Unfenced(s) /\ sup[s].tries < RestartLimit
  /\ Born(s, sup[s].gen)
  /\ sup' = [sup EXCEPT ![s].pc = "loop", ![s].saw = FALSE, ![s].tries = @ + 1]
  /\ UNCHANGED <<fence, record, lock, active, asked, holder, call, events>>

\* A restart falls out of the window.
RestartAges(s) ==
  /\ SupAt(s, "loop") /\ sup[s].tries > 0
  /\ sup' = [sup EXCEPT ![s].tries = @ - 1]
  /\ UNCHANGED <<files, active, asked, holder, call, dmn, events>>

\* Another child has used up its restarts, or cannot be started.
AnotherChildFails(s) ==
  /\ SupAt(s, "poll") /\ Unfenced(s) /\ Event("child")
  /\ SupTo(s, "cleanup")
  /\ UNCHANGED <<files, active, asked, holder, call, dmn>>

\* The finally clause ends the children, retires their rows and lists them
\* as stopped; a daemon has no handler for the signal, so its lock stays.
EndChildren(s) ==
  /\ SupAt(s, "cleanup")
  /\ EndChild(s) /\ SupervisorEnds(s)
  /\ service' = IF service.by = s THEN NoRow ELSE service
  /\ UNCHANGED <<fence, active, asked, holder, call, events>>

SupStep(s) ==
  \/ RefuseSpecs(s) \/ StartDaemon(s) \/ StartupFails(s) \/ BeginLoop(s) \/ EndLoop(s) \/ ReadFence(s)
  \/ ChildRuns(s) \/ EndOrExhausted(s) \/ RestartDaemon(s)
  \/ EndChildren(s)

-----------------------------------------------------------------------------
(* The daemon process: daemon_run_lock around application.run              *)

At(d, pc) == dmn[d].pc = pc
Goto(d, pc) == dmn' = [dmn EXCEPT ![d].pc = pc, ![d].saw = FALSE]

\* The process ends, and leaves a lock file that it has not removed.
Exit(d) ==
  /\ dmn' = [dmn EXCEPT ![d] = NoDaemon]
  /\ lock' = WithoutOwner(d)
  /\ LeaveLifecycle(d)

\* A daemon started by hand takes its lock under the lifecycle lock.
RunByHand(d) ==
  /\ ~Running(d) /\ holder = Nobody /\ holder' = d
  /\ Born(d, active)
  /\ UNCHANGED <<fence, record, lock, active, asked, call, sup, events>>

\* os.open with O_EXCL, first and after an unlink.
CreateLock(d) ==
  /\ dmn[d].pc \in {"try", "again"} /\ lock.says = "nothing"
  /\ lock' = [says |-> "blank", by |-> d]
  /\ Goto(d, "write")
  /\ UNCHANGED <<fence, record, service, active, asked, holder, call, sup, events>>

LockExists(d) ==
  /\ lock.says # "nothing"
  /\ \/ At(d, "try") /\ Goto(d, "pid") /\ UNCHANGED <<lock, holder>>
     \/ At(d, "again") /\ Exit(d)
  /\ UNCHANGED <<fence, record, service, active, asked, call, sup, events>>

JudgeOwner(d) ==
  /\ dmn[d].pc \in {"pid", "alive"}
  /\ \E next \in IF At(d, "pid") THEN PidSays(FALSE) ELSE OwnerSays :
       IF next = "fresh" THEN Exit(d) ELSE Goto(d, next) /\ UNCHANGED <<lock, holder>>
  /\ UNCHANGED <<fence, record, service, active, asked, call, sup, events>>

UnlinkStale(d) ==
  /\ At(d, "unlink")
  /\ IF Pinned THEN Exit(d) ELSE lock' = NoLock /\ Goto(d, "again") /\ UNCHANGED holder
  /\ UNCHANGED <<fence, record, service, active, asked, call, sup, events>>

\* The lifecycle lock is let go, the daemon lock stays.
WriteOwner(d) ==
  /\ At(d, "write")
  /\ lock' = [lock EXCEPT !.says = "owner"]
  /\ Goto(d, "init") /\ LeaveLifecycle(d)
  /\ UNCHANGED <<fence, record, service, active, asked, call, sup, events>>

WriteOwnerFails(d) ==
  /\ At(d, "write") /\ Event("write")
  /\ Goto(d, "closed")
  /\ UNCHANGED <<files, active, asked, holder, call, sup>>

\* _assert_live_generation_compatible: nobody of another generation is ready.
Compatible(d) == service = NoRow \/ service.gen = dmn[d].gen

Beat(d, ready) == service' = IF ready THEN [by |-> d, gen |-> dmn[d].gen] ELSE NoRow

Initialize(d) ==
  /\ At(d, "init")
  /\ IF Compatible(d) THEN Beat(d, ~fence) /\ Goto(d, "tick")
                      ELSE Goto(d, "closed") /\ UNCHANGED service
  /\ UNCHANGED <<fence, record, lock, active, asked, holder, call, sup, events>>

\* A tick reads the fence once, at its start ...
BeginTick(d) ==
  /\ At(d, "tick")
  /\ dmn' = IF Compatible(d) THEN [dmn EXCEPT ![d].pc = "work", ![d].saw = fence]
                             ELSE [dmn EXCEPT ![d].pc = "leave"]
  /\ UNCHANGED <<files, active, asked, holder, call, sup, events>>

\* ... serves a manager command, which may write or clear the fence, and
\* decides by what it read: it goes on unless it was fenced and has drained.
EndTick(d, serves, drained) ==
  /\ At(d, "work")
  /\ drained => dmn[d].saw
  /\ serves => asked # "nothing"
  /\ asked' = IF serves THEN "nothing" ELSE asked
  /\ fence' = IF serves THEN asked = "pause" ELSE fence
  /\ Beat(d, ~dmn[d].saw)
  /\ Goto(d, IF drained THEN "leave" ELSE "tick")
  /\ UNCHANGED <<record, lock, active, holder, call, sup, events>>

\* A tick raises: run leaves through its finally clause, fenced or not.
TickFails(d) ==
  /\ At(d, "work") /\ Event("daemon")
  /\ Goto(d, "leave")
  /\ UNCHANGED <<files, active, asked, holder, call, sup>>

Drained(d) == \E serves \in BOOLEAN : EndTick(d, serves, TRUE)

LeaveRun(d) ==
  /\ At(d, "leave")
  /\ Beat(d, FALSE)
  /\ Goto(d, "closed")
  /\ UNCHANGED <<fence, record, lock, active, asked, holder, call, sup, events>>

\* __exit__ has closed the file and removes what lies at the path.
RemoveLock(d) ==
  /\ At(d, "closed")
  /\ dmn' = [dmn EXCEPT ![d] = NoDaemon] /\ LeaveLifecycle(d)
  /\ lock' = IF Pinned THEN lock ELSE NoLock
  /\ UNCHANGED <<fence, record, service, active, asked, call, sup, events>>

DaemonStep(d) ==
  \/ CreateLock(d) \/ LockExists(d) \/ JudgeOwner(d) \/ UnlinkStale(d)
  \/ WriteOwner(d) \/ Initialize(d) \/ BeginTick(d) \/ LeaveRun(d) \/ RemoveLock(d)
  \/ \E serves, drained \in BOOLEAN : EndTick(d, serves, drained)

-----------------------------------------------------------------------------
(* The world around                                                        *)

\* _manage_flow, once a daemon serves it.
Ask(what) ==
  /\ asked = "nothing" /\ Event("command")
  /\ asked' = what
  /\ UNCHANGED <<files, active, holder, call, sup, dmn>>

ActivateRelease ==
  /\ Event("release")
  /\ active' = active + 1
  /\ UNCHANGED <<files, asked, holder, call, sup, dmn>>

\* No beat for as long as the lease of the row.
LeaseLapses ==
  /\ service # NoRow /\ ~Running(service.by)
  /\ service' = NoRow
  /\ UNCHANGED <<fence, record, lock, active, asked, holder, call, sup, dmn, events>>

DaemonDies(d) ==
  /\ Running(d) /\ Event("daemon")
  /\ Exit(d)
  /\ UNCHANGED <<fence, record, service, active, asked, call, sup>>

SupervisorDies(s) ==
  /\ Alive(s) /\ Event("supervisor")
  /\ OrphanChild(s) /\ SupervisorEnds(s)
  /\ UNCHANGED <<fence, service, active, asked, holder, call>>

\* Between the spawn and the record this leaves a supervisor nobody knows.
CallerDies(c) ==
  /\ ~CallAt(c, "idle") /\ Event("caller")
  /\ Lose(c) /\ Return(c)
  /\ UNCHANGED <<files, active, asked, dmn>>

Next ==
  \/ \E c \in Callers :
       CallStep(c) \/ ProbeDenied(c) \/ RecordFails(c) \/ CallerDies(c)
       \/ \E k \in Commands : Invoke(c, k)
  \/ \E s \in Supervisors :
       SupStep(s) \/ RestartAges(s) \/ AnotherChildFails(s) \/ SupervisorDies(s)
  \/ \E d \in ByHand : RunByHand(d)
  \/ \E d \in Daemons : DaemonStep(d) \/ WriteOwnerFails(d) \/ TickFails(d) \/ DaemonDies(d)
  \/ ActivateRelease \/ LeaseLapses
  \/ \E what \in {"pause", "resume"} : Ask(what)

Spec == Init /\ [][Next]_vars

\* Every process takes its steps; a fenced daemon admits nothing, so what it
\* had admitted is done at one of its looks.
FairSpec ==
  /\ Spec
  /\ \A c \in Callers : WF_vars(CallStep(c))
  /\ \A s \in Supervisors : WF_vars(SupStep(s))
  /\ \A d \in Daemons : WF_vars(DaemonStep(d)) /\ SF_vars(Drained(d))

-----------------------------------------------------------------------------
(* Properties                                                              *)

CallPCs == {"idle", "fence", "drain", "status", "look", "pid", "alive",
            "unlink", "resume", "spawn", "record", "health"}
SupPCs == {"dead", "boot", "database", "loop", "poll", "cleanup"}
DaemonPCs == Opened \cup {"dead", "try", "pid", "alive", "unlink", "again", "closed"}

Locks == [says : {"nothing", "blank", "owner"}, by : Daemons \cup {Nobody}]
Rows == [by : Daemons \cup {Nobody}, gen : Nat]
Calls == [pc : CallPCs, does : Commands, target : Supervisors \cup {Nobody}]
Sups == [pc : SupPCs, gen : Nat, term : BOOLEAN, saw : BOOLEAN, tries : Nat, lost : BOOLEAN]
Dmns == [pc : DaemonPCs, gen : Nat, saw : BOOLEAN, orphan : BOOLEAN]

\* The values of the files and of the processes.
TypeOK ==
  /\ fence \in BOOLEAN /\ active \in Nat /\ events \in Nat
  /\ record \in Supervisors \cup {Nobody}
  /\ lock \in Locks /\ service \in Rows
  /\ asked \in {"nothing", "pause", "resume"}
  /\ holder \in Callers \cup Daemons \cup {Nobody}
  /\ call \in [Callers -> Calls]
  /\ sup \in [Supervisors -> Sups]
  /\ dmn \in [Daemons -> Dmns]

\* Two daemons never work on one root, whoever started, killed or replaced
\* which of them, and however late a verdict on a lock is acted upon.
OneDaemon ==
  \A d, e \in Daemons : dmn[d].pc \in Opened /\ dmn[e].pc \in Opened => d = e

\* Of two living supervisors one was left by a start that could not record it,
\* or passed over by a start that was denied a look at it.  In service_status
\* nothing else hides a recorded one from a start.
OneSupervisor ==
  \A s, t \in Supervisors : Alive(s) /\ Alive(t) /\ s # t => sup[s].lost \/ sup[t].lost

\* What the comment of process_alive wants for every probe: a denied one starts
\* no duplicates.  It does not hold of process_identity_matches.
NoDuplicates == \A s, t \in Supervisors : Alive(s) /\ Alive(t) => s = t

\* A daemon that was not started by hand, nor orphaned by the death of its
\* supervisor, has a supervisor that lives.
NobodyLeftBehind ==
  \A d \in Supervisors : Running(d) => Alive(d) \/ dmn[d].orphan

\* No second supervisor but by a lost record or a denied look, and no child
\* without its own (start_service, run_supervisor).
NoStrays == OneSupervisor /\ NobodyLeftBehind

\* The lifecycle lock is used as what it is: it is taken when it is free and
\* given back by its holder, by the death of that one at the latest.
Lifecycle ==
  INSTANCE LockPromise WITH Processes <- Callers \cup Daemons, inside <- {holder} \ {Nobody}
LifecycleUsed == Lifecycle!Spec

\* Behind a fence that stays every daemon ends, an orphan and one started
\* by hand too, and so does every supervisor, a lost one too.
StopSettles ==
  /\ \A d \in Daemons : (Running(d) /\ []fence) ~> ~Running(d)
  /\ \A s \in Supervisors : (Alive(s) /\ []fence) ~> ~Alive(s)

\* The supervisor of a release that is no longer active ends.
OldGenerationRetires ==
  \A s \in Supervisors : (Alive(s) /\ sup[s].gen # active) ~> ~Alive(s)
=============================================================================
