---------------------------- MODULE ProcessLock ----------------------------
(***************************************************************************)
(* NamedProcessLock (ascendop_daemon/runtime/locking.py): a lock file made *)
(* with O_EXCL, replaced when it is stale, and tickets of waiters that     *)
(* give later contenders their place.                                      *)
(*                                                                         *)
(* A contender is one life of a process: the file and the tickets carry    *)
(* its start token, so a process that starts again is another contender.   *)
(* Every step is one call of the file system; what is stale is judged over *)
(* several reads and acted upon later.                                     *)
(***************************************************************************)
EXTENDS Naturals

CONSTANTS
  Contenders,
  Patient,     \* those that may come with a wait timeout
  Impatient,   \* those that may come without one
  OpenPins,    \* an open file cannot be removed (Windows; POSIX lets it go)
  MaxFaults    \* bound: deaths, denied calls, failed writes, stalled waiters

ASSUME LockAssumption ==
  /\ Patient \subseteq Contenders /\ Impatient \subseteq Contenders
  /\ OpenPins \in BOOLEAN
  /\ MaxFaults \in Nat

VARIABLES
  file,    \* what lies at lock_path
  at,      \* where each contender is
  ticket,  \* its file in waiters_dir
  ahead,   \* tickets with an earlier name
  doomed,  \* tickets it has judged stale and not yet removed
  named,   \* whose ticket bears what the clock reads now
  later,   \* history: who began while it was waiting, and waits itself, if it
           \* does, with a ticket of a later reading
  faults

vars == <<file, at, ticket, ahead, doomed, named, later, faults>>

PCs == {"idle", "tidy", "glance", "try", "read", "pid", "alive", "age", "unlink",
        "join", "write", "wait", "stamp", "held", "release", "discard", "dead"}

\* slow: in the waiting loop; late: past the expiry of its ticket.
Fresh(pc) == [pc |-> pc, slow |-> FALSE, late |-> FALSE]

NoFile == [says |-> "nothing", by |-> "nobody", old |-> FALSE]
File(says, p) == [says |-> says, by |-> p, old |-> FALSE]

Init ==
  /\ file = NoFile
  /\ at = [p \in Contenders |-> Fresh("idle")]
  /\ ticket = [p \in Contenders |-> "none"]
  /\ ahead = [p \in Contenders |-> {}]
  /\ doomed = [p \in Contenders |-> {}]
  /\ named = {}
  /\ later = [p \in Contenders |-> {}]
  /\ faults = 0

Gone == file.says = "nothing"
Alive(p) == at[p].pc # "dead"
Goto(p, pc) == at' = [at EXCEPT ![p].pc = pc]
Fault == faults < MaxFaults /\ faults' = faults + 1

\* Mutant: the descriptor is closed once the owner is written.
ClosedEarly == {"stamp"}
Opened == {"stamp", "held"}

\* The file at the path has a descriptor on it that forbids its removal.
Pinned == OpenPins /\ ~Gone /\ file.by \in Contenders /\ at[file.by].pc \in Opened

Table == <<ticket, ahead, doomed, named, later>>

\* A ticket that is gone is ahead of nobody, and a verdict about it is void.
Without(f, p) == [q \in Contenders |-> f[q] \ {p}]
RemoveTicket(p) ==
  /\ ticket' = [ticket EXCEPT ![p] = "none"]
  /\ ahead' = [Without(ahead, p) EXCEPT ![p] = {}]
  /\ named' = named \ {p}

\* acquire raises, or __exit__ returns.
Leave(p) ==
  /\ at' = [at EXCEPT ![p] = Fresh("idle")]
  /\ RemoveTicket(p)
  /\ doomed' = [Without(doomed, p) EXCEPT ![p] = {}]
  /\ later' = [Without(later, p) EXCEPT ![p] = {}]

-----------------------------------------------------------------------------
(* Tickets                                                                 *)

Waiting(p) ==
  at[p].slow /\ at[p].pc \in {"wait", "tidy", "glance", "try", "read", "pid", "alive", "age", "unlink"}

Begin(p) ==
  /\ at[p].pc = "idle"
  /\ Goto(p, "tidy")
  /\ later' = [w \in Contenders |-> IF Waiting(w) THEN later[w] \cup {p} ELSE later[w]]
  /\ UNCHANGED <<file, ticket, ahead, doomed, named, faults>>

Tickets == {p \in Contenders : ticket[p] # "none"}

\* _cleanup_stale_waiters judges a ticket: its owner is unknown, dead or late.
Removable(p) == ticket[p] = "blank" \/ (ticket[p] = "written" /\ (~Alive(p) \/ at[p].late))

Tidy(p) ==
  /\ at[p].pc = "tidy"
  /\ doomed' = [doomed EXCEPT ![p] = {w \in Contenders : Removable(w)}]
  /\ Goto(p, "glance")
  /\ UNCHANGED <<file, ticket, ahead, named, later, faults>>

\* The owner of one is taken for dead, because its probe is denied.
TidyDenied(p) ==
  /\ at[p].pc = "tidy"
  /\ \E w \in Tickets \ {p} :
       doomed' = [doomed EXCEPT ![p] = {w} \cup {q \in Contenders : Removable(q)}]
  /\ Goto(p, "glance")
  /\ Fault /\ UNCHANGED <<file, ticket, ahead, named, later>>

\* ... and removes it, whatever it says by now.
Sweep(p, w) ==
  /\ at[p].pc = "glance" /\ w \in doomed[p]
  /\ IF OpenPins /\ at[w].pc = "write"
     THEN Leave(p)
     ELSE /\ RemoveTicket(w)
          /\ doomed' = Without(doomed, w)
          /\ UNCHANGED <<at, later>>
  /\ UNCHANGED <<file, faults>>

AtHead(p) == ticket[p] # "none" /\ ahead[p] = {}

\* Mutant: a newcomer does not ask who waits.
OwnTurn(p) == at[p].slow => AtHead(p)

\* A newcomer tries the lock only if nobody waits, a waiter only at the head.
MayTry(p) == IF at[p].slow THEN AtHead(p) ELSE Tickets = {}

Glance(p) ==
  /\ at[p].pc = "glance" /\ doomed[p] = {}
  /\ Goto(p, CASE MayTry(p) -> "try" [] at[p].slow -> "wait" [] OTHER -> "join")
  /\ UNCHANGED <<file, Table, faults>>

TurnAway(p) ==
  /\ at[p].pc = "join" /\ p \in Impatient
  /\ Leave(p) /\ UNCHANGED <<file, faults>>

\* A ticket is named by what the monotonic clock reads and by the pid.  Among
\* those of one reading (on Windows up to 16 ms, in which several processes may
\* come) the new one has the place that its pid gives it.
InOrder(behind) ==
  \A q \in behind, r \in Tickets : q \in ahead[r] => r \in behind

\* _register_waiter: the ticket is created, and written by a second call.
Register(p) ==
  /\ at[p].pc = "join" /\ p \in Patient
  /\ ticket' = [ticket EXCEPT ![p] = "blank"]
  /\ \E behind \in SUBSET named :
       /\ InOrder(behind)
       /\ ahead' = [q \in Contenders |->
                      IF q = p THEN Tickets \ behind
                      ELSE IF q \in behind THEN ahead[q] \cup {p} ELSE ahead[q]]
  /\ named' = named \cup {p}
  /\ later' = [w \in Contenders |-> IF w \in named THEN later[w] \ {p} ELSE later[w]]
  /\ at' = [at EXCEPT ![p].pc = "write", ![p].slow = TRUE]
  /\ UNCHANGED <<file, doomed, faults>>

\* The monotonic clock reads something else.
Tick ==
  /\ named # {} /\ named' = {}
  /\ UNCHANGED <<file, at, ticket, ahead, doomed, later, faults>>

WriteTicket(p) ==
  /\ at[p].pc = "write"
  /\ ticket' = [ticket EXCEPT ![p] = IF ticket[p] = "none" THEN "none" ELSE "written"]
  /\ Goto(p, "wait")
  /\ UNCHANGED <<file, ahead, doomed, named, later, faults>>

\* The next round of the waiting loop, or the end of its deadline.
Wake(p) ==
  /\ at[p].pc = "wait" /\ ~at[p].late
  /\ Goto(p, "tidy") /\ UNCHANGED <<file, Table, faults>>

TimeOut(p) ==
  /\ at[p].pc = "wait"
  /\ Leave(p) /\ UNCHANGED <<file, faults>>

\* A waiter stalls until its ticket has expired, five seconds past its deadline.
Stall(p) ==
  /\ Waiting(p) /\ ~at[p].late
  /\ at' = [at EXCEPT ![p].late = TRUE]
  /\ Fault /\ UNCHANGED <<file, Table>>

-----------------------------------------------------------------------------
(* The lock file                                                           *)

\* os.open with O_CREAT | O_EXCL.  A waiter gives its ticket back with it.
Create(p) ==
  /\ at[p].pc = "try" /\ Gone
  /\ file' = File("blank", p)
  /\ Goto(p, "stamp")
  /\ RemoveTicket(p) /\ doomed' = Without(doomed, p)
  /\ UNCHANGED <<later, faults>>

Collide(p) ==
  /\ at[p].pc = "try" /\ ~Gone
  /\ Goto(p, "read") /\ UNCHANGED <<file, Table, faults>>

\* is_stale reads the file once for its marker, once for its pid and once for
\* the identity of its owner, and its age when it has no pid.
Verdict(p, stale) ==
  Goto(p, CASE stale -> "unlink" [] at[p].slow -> "wait" [] OTHER -> "join")

ReadMarker(p) ==
  /\ at[p].pc = "read"
  /\ \/ file.says = "released" /\ Verdict(p, TRUE)
     \/ file.says # "released" /\ Goto(p, "pid")
     \/ Gone /\ Verdict(p, FALSE)
  /\ UNCHANGED <<file, Table, faults>>

ReadPid(p) ==
  /\ at[p].pc = "pid"
  /\ Goto(p, IF file.says = "owner" THEN "alive" ELSE "age")
  /\ UNCHANGED <<file, Table, faults>>

\* Mutant: the owner's pid is not checked against a living process.
AnyOwner == file.says = "owner"
OwnerAlive == file.says = "owner" /\ Alive(file.by)

ReadOwner(p) ==
  /\ at[p].pc = "alive"
  /\ Verdict(p, ~OwnerAlive)
  /\ UNCHANGED <<file, Table, faults>>

\* The probe of a living process is denied: it is taken for dead.
ProbeDenied(p) ==
  /\ at[p].pc = "alive" /\ OwnerAlive
  /\ Verdict(p, TRUE)
  /\ Fault /\ UNCHANGED <<file, Table>>

ReadAge(p) ==
  /\ at[p].pc = "age"
  /\ Verdict(p, ~Gone /\ file.old)
  /\ UNCHANGED <<file, Table, faults>>

\* stale_after_seconds go by.  It is a mishap that they do while its living
\* creator has yet to write the file, or between two reads of one judgement.
MidCall ==
  \E p \in Contenders : at[p].pc = "age" \/ (at[p].pc = "stamp" /\ file.by = p)

Age ==
  /\ ~Gone /\ ~file.old
  /\ file' = [file EXCEPT !.old = TRUE]
  /\ IF MidCall THEN Fault ELSE UNCHANGED faults
  /\ UNCHANGED <<at, Table>>

\* After the unlink a newcomer looks at the tickets again, a waiter at its clock.
Unlink(p) ==
  /\ at[p].pc = "unlink"
  /\ IF Pinned
     THEN Leave(p) /\ UNCHANGED file
     ELSE /\ file' = NoFile
          /\ Goto(p, IF at[p].slow THEN "wait" ELSE "tidy")
          /\ UNCHANGED Table
  /\ UNCHANGED faults

\* _write_owner_metadata.  A file that was unlinked meanwhile is written to no
\* effect.
Stamp(p) ==
  /\ at[p].pc = "stamp"
  /\ file' = IF file.by = p THEN File("owner", p) ELSE file
  /\ Goto(p, "held") /\ UNCHANGED <<Table, faults>>

StampFails(p) ==
  /\ at[p].pc = "stamp"
  /\ Goto(p, "discard")
  /\ Fault /\ UNCHANGED <<file, Table>>

\* The descriptor is closed; whatever lies at the path is unlinked.
Discard(p) ==
  /\ at[p].pc = "discard"
  /\ file' = IF Pinned THEN file ELSE NoFile
  /\ Leave(p) /\ UNCHANGED faults

Close(p) ==
  /\ at[p].pc = "held"
  /\ Goto(p, "release") /\ UNCHANGED <<file, Table, faults>>

\* _release_lock_path
Release(p) ==
  /\ at[p].pc = "release" /\ ~Pinned
  /\ file' = NoFile
  /\ Leave(p) /\ UNCHANGED faults

\* After forty denials the file is marked instead, whoever has made it.
Marked == IF Gone THEN File("released", "nobody") ELSE [file EXCEPT !.says = "released", !.old = FALSE]

Mark(p) ==
  /\ at[p].pc = "release"
  /\ IF Pinned THEN UNCHANGED faults ELSE Fault
  /\ file' = Marked
  /\ Leave(p)

\* The marker cannot be written either.
GiveUp(p) ==
  /\ at[p].pc = "release"
  /\ Leave(p)
  /\ Fault /\ UNCHANGED file

\* A process dies: its descriptors close, its files stay.
Die(p) ==
  /\ Alive(p)
  /\ at' = [at EXCEPT ![p] = Fresh("dead")]
  /\ doomed' = [doomed EXCEPT ![p] = {}]
  /\ later' = [Without(later, p) EXCEPT ![p] = {}]
  /\ Fault /\ UNCHANGED <<file, ticket, ahead, named>>

-----------------------------------------------------------------------------

Step(p) ==
  \/ Tidy(p) \/ (\E w \in Contenders : Sweep(p, w)) \/ Glance(p)
  \/ TurnAway(p) \/ Register(p) \/ WriteTicket(p) \/ Wake(p)
  \/ Create(p) \/ Collide(p)
  \/ ReadMarker(p) \/ ReadPid(p) \/ ReadOwner(p) \/ ReadAge(p)
  \/ Unlink(p) \/ Stamp(p) \/ Discard(p) \/ Close(p) \/ Release(p)

Mishap(p) ==
  \/ TidyDenied(p) \/ TimeOut(p) \/ Stall(p) \/ ProbeDenied(p) \/ StampFails(p)
  \/ Mark(p) \/ GiveUp(p) \/ Die(p)

Next == Age \/ Tick \/ \E p \in Contenders : Begin(p) \/ Step(p) \/ Mishap(p)

Spec == Init /\ [][Next]_vars

\* Threads and clocks go on (a clock does not wait for who reads it), late
\* waiters leave, and a release that is denied ends with the marker.
FairSpec ==
  /\ Spec
  /\ SF_vars(Age) /\ WF_vars(Tick)
  /\ \A p \in Contenders : WF_vars(Step(p))
  /\ \A p \in Patient : WF_vars(at[p].late /\ TimeOut(p))
  /\ WF_vars(\E p \in Contenders : Pinned /\ Mark(p))

-----------------------------------------------------------------------------
(* Properties                                                              *)

\* The lock file, the tickets and the contenders stay within their types, and
\* only who has a ticket is ahead of a waiter or bears a reading (locking.py).
TypeOK ==
  /\ file \in [says : {"nothing", "blank", "owner", "released"},
               by : Contenders \cup {"nobody"}, old : BOOLEAN]
  /\ at \in [Contenders -> [pc : PCs, slow : BOOLEAN, late : BOOLEAN]]
  /\ ticket \in [Contenders -> {"none", "blank", "written"}]
  /\ ahead \in [Contenders -> SUBSET Contenders]
  /\ doomed \in [Contenders -> SUBSET Contenders]
  /\ later \in [Contenders -> SUBSET Contenders]
  /\ named \subseteq Tickets /\ \A p \in Contenders : ahead[p] \subseteq Tickets
  /\ faults \in 0..MaxFaults

\* Whatever verdicts are outstanding, two contenders are never inside: no stale
\* lock that was judged is confused with the lock that has replaced it, and no
\* late release takes the lock of a successor (acquire, is_stale, __exit__).
MutualExclusion ==
  \A p, q \in Contenders : at[p].pc = "held" /\ at[q].pc = "held" => p = q

\* To those that work under it the lock file is a lock, whatever is judged,
\* removed or left behind, as long as an open file stays where it is (acquire,
\* is_stale, __exit__).
Inside == {p \in Contenders : at[p].pc = "held"}
Promise == INSTANCE LockPromise WITH Processes <- Contenders, inside <- Inside
KeepsPromise == Promise!Spec

Within(p) == at[p].pc \in {"stamp", "held"}

\* Who came later is not served before a waiter whose ticket lies in its place,
\* however often the lock changes hands, is found stale or is contended, unless
\* the clock has read the same when the two tickets were named (acquire,
\* _register_waiter, _is_head_waiter).
QueueRespected ==
  \A w, p \in Contenders : Within(p) /\ p \in later[w] /\ Waiting(w) => ticket[w] = "none"

\* The comment of acquire: "Once any waiter exists, every later contender joins
\* behind it", as long as its deadline has not passed.
NoOvertaking ==
  \A w, p \in Contenders : Within(p) /\ p \in later[w] /\ Waiting(w) => at[w].late

\* The same comment of each ticket: it joins behind all that lie there.  Two
\* tickets of one reading are ordered by their pids instead.
JoinsBehind ==
  [][\A p \in Contenders : at[p].pc = "join" /\ at'[p].pc = "write" => ahead'[p] = Tickets]_vars

\* A lock that a living process could not give back.
Stuck ==
  /\ file.says = "owner" /\ file.by \in Contenders
  /\ at[file.by].pc \notin {"held", "release", "dead"}

\* A waiter that keeps its ticket gets the lock or is refused, whoever died with
\* the lock or with a ticket before it, once mishaps have stopped.
WaiterServed ==
  \A p \in Patient :
    Waiting(p) ~> (~Waiting(p) \/ ticket[p] = "none" \/ Stuck)
=============================================================================
