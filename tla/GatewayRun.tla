----------------------------- MODULE GatewayRun -----------------------------
(***************************************************************************)
(* One test run of the Test Gateway: its journal file                      *)
(* (ascendop_test_gateway/journal.py), the life-cycle calls on it          *)
(* (runtime.py: submit, status, cancel, resume, wait, acknowledge) and the *)
(* endpoint behind the transport port.                                     *)
(*                                                                         *)
(* submit, status, cancel and resume hold the operation lock of the run    *)
(* from their first read to their last write, so one such call is active   *)
(* at a time: `op`.  The acknowledgement has a lock of its own: `acker`.   *)
(* Every write of the journal replaces the file and is atomic; a process   *)
(* may die between two of them, and between a transport call and the write *)
(* that records it.                                                        *)
(***************************************************************************)
EXTENDS Naturals

CONSTANTS
  MaxFaults,  \* bound: transport errors and process deaths
  MaxRetries  \* bound: calls of submit with retry_uncertain

ASSUME GatewayAssumption == MaxFaults \in Nat /\ MaxRetries \in Nat

VARIABLES
  journal,  \* JOURNAL.json
  op,       \* the call that holds the operation lock
  acker,    \* the call that holds the acknowledgement lock
  waiter,   \* the state a waiter read last, outside every lock
  remote,   \* the endpoint
  sent,     \* how many publications left the host
  retried,  \* how many retries were asked for
  faults

vars == <<journal, op, acker, waiter, remote, sent, retried, faults>>

Progress == {"accepted", "running", "collecting"}
Outcomes == {"completed", "failed", "cancelled"}
Doubtful == {"publishing", "uncertain"}
States == {"prepared", "cancelling"} \cup Doubtful \cup Progress \cup Outcomes

\* Mutant: a cancellation that came too late cannot end as completed.
OnlyCancelled == {"uncertain", "cancelled"}
AfterCancelling == {"uncertain"} \cup Outcomes

\* ALLOWED_TRANSITIONS
Allowed == [s \in States |->
  CASE s = "prepared"   -> {"publishing", "failed", "cancelled"}
    [] s = "publishing" -> {"accepted", "running", "completed", "failed", "uncertain"}
    [] s = "accepted"   -> {"running", "collecting", "cancelling", "uncertain"} \cup Outcomes
    [] s = "running"    -> {"collecting", "cancelling", "uncertain"} \cup Outcomes
    [] s = "collecting" -> {"cancelling", "uncertain"} \cup Outcomes
    [] s = "uncertain"  -> {"publishing", "cancelling"} \cup Progress \cup Outcomes
    [] s = "cancelling" -> AfterCancelling
    [] OTHER            -> {}]

Rank == [s \in Progress |-> CASE s = "accepted" -> 1 [] s = "running" -> 2 [] s = "collecting" -> 3]

\* local: the state a call read first; seen: what the transport answered.
Idle == [call |-> "none", pc |-> "idle", retry |-> FALSE, local |-> "none", seen |-> "none"]

\* retained: the terminal event, its evidence index and the ACK intent, written
\* together; reopen: the failure is one that resume_prepublication may undo.
Init ==
  /\ journal = [state |-> "prepared", receipt |-> FALSE, cancel |-> FALSE,
                retained |-> FALSE, ack |-> "none", reopen |-> FALSE]
  /\ op = Idle
  /\ acker = "idle"
  /\ waiter = "none"
  /\ remote = [state |-> "absent", flight |-> FALSE, stop |-> FALSE, released |-> FALSE]
  /\ sent = 0 /\ retried = 0 /\ faults = 0

Goto(pc) == op' = [op EXCEPT !.pc = pc]
Return == op' = Idle
Fault == faults < MaxFaults /\ faults' = faults + 1

\* RunJournal.transition: a repeated state is no step, any other must be allowed.
May(s) == s = journal.state \/ s \in Allowed[journal.state]
Enter(s) == May(s) /\ journal' = [journal EXCEPT !.state = s]
EnterOrRaise(s) == IF May(s) THEN Enter(s) ELSE UNCHANGED journal

\* The endpoint has a receipt to show for the request.
Visible == remote.state \notin {"absent", "rejected"}

Outside == <<acker, waiter, remote, sent, retried>>

Call(name, retry) ==
  /\ op = Idle
  /\ op' = [Idle EXCEPT !.call = name, !.pc = name, !.retry = retry]
  /\ UNCHANGED <<journal, acker, waiter, remote, sent, faults>>

-----------------------------------------------------------------------------
(* submit                                                                  *)

Submit(retry) ==
  /\ Call("submit", retry)
  /\ retry => retried < MaxRetries
  /\ retried' = retried + IF retry THEN 1 ELSE 0

\* Mutant: a recorded cancellation does not stop a submission.
OnlyReceiptStops == journal.receipt
StopsHere == journal.receipt \/ journal.cancel

SubmitKnown ==
  /\ op.pc = "submit" /\ StopsHere
  /\ LET path == IF journal.receipt THEN "status" ELSE "cancel"
     IN  op' = [op EXCEPT !.call = path, !.pc = path]
  /\ UNCHANGED <<journal, faults, Outside>>

\* The local preflight refuses the request.  A failure is rewritten as one
\* that cannot be reopened.
SubmitInvalid ==
  /\ op.pc = "submit" /\ ~StopsHere
  /\ May("failed")
  /\ journal' = [journal EXCEPT !.state = "failed", !.reopen = FALSE]
  /\ Return /\ Fault /\ UNCHANGED Outside

\* Mutant: a publication nobody can see is repeated without being asked for.
AlwaysRetries == TRUE
Retries == op.retry

\* A publication of unknown fate is looked up before anything else: a rejection,
\* a receipt, or nothing yet.
SubmitDoubtful ==
  /\ op.pc = "submit" /\ ~StopsHere /\ journal.state \in Doubtful
  /\ \/ /\ remote.state = "rejected" /\ Enter("failed") /\ Return
     \/ /\ Visible /\ Goto("attach") /\ UNCHANGED journal
     \/ /\ remote.state = "absent" /\ Enter("uncertain")
        /\ IF Retries THEN Goto("publish") ELSE Return
  /\ UNCHANGED <<faults, Outside>>

SubmitFresh ==
  /\ op.pc = "submit" /\ ~StopsHere /\ journal.state \notin Doubtful
  /\ IF journal.state = "prepared" THEN Goto("publish") ELSE Return
  /\ UNCHANGED <<journal, faults, Outside>>

Publish ==
  /\ op.pc = "publish"
  /\ Enter("publishing") /\ Goto("sending")
  /\ UNCHANGED <<faults, Outside>>

\* transport.submit.  An endpoint that has the request already answers with it.
Landed(s) == IF remote.state = "absent" THEN s ELSE remote.state

Send ==
  /\ op.pc = "sending"
  /\ \E s \in {"accepted", "rejected"} :
       /\ remote' = [remote EXCEPT !.state = Landed(s)]
       /\ Goto(IF Landed(s) = "rejected" THEN "nacked" ELSE "attach")
  /\ sent' = sent + 1
  /\ UNCHANGED <<journal, acker, waiter, retried, faults>>

\* No answer: the publication is under way, or never left.
SendUnsure ==
  /\ op.pc = "sending"
  /\ \/ /\ remote' = [remote EXCEPT !.flight = TRUE] /\ sent' = sent + 1
     \/ UNCHANGED <<remote, sent>>
  /\ Goto("unsure") /\ Fault
  /\ UNCHANGED <<journal, acker, waiter, retried>>

\* A local check of the transport refuses before anything is sent.
SendRefused ==
  /\ op.pc = "sending"
  /\ journal' = [journal EXCEPT !.state = "failed", !.reopen = TRUE]
  /\ Return /\ Fault /\ UNCHANGED Outside

RecordFailure ==
  /\ op.pc \in {"nacked", "unsure"}
  /\ Enter(IF op.pc = "nacked" THEN "failed" ELSE "uncertain")
  /\ Return /\ UNCHANGED <<faults, Outside>>

\* attach_receipt, and the transition that follows it in a second write.
Attach ==
  /\ op.pc = "attach"
  /\ journal' = [journal EXCEPT !.receipt = TRUE]
  /\ Goto("attached")
  /\ UNCHANGED <<faults, Outside>>

Attached ==
  /\ op.pc = "attached"
  /\ Enter("accepted")
  /\ op' = [op EXCEPT !.pc = "ask", !.local = "accepted"]
  /\ UNCHANGED <<faults, Outside>>

-----------------------------------------------------------------------------
(* status, cancel, resume_prepublication                                   *)

Status ==
  /\ op.pc = "status"
  /\ IF journal.state \in Outcomes THEN Return
     ELSE IF journal.receipt THEN op' = [op EXCEPT !.pc = "ask", !.local = journal.state]
     ELSE IF journal.state \in Doubtful /\ Visible THEN Goto("attach")
     ELSE Return
  /\ UNCHANGED <<journal, faults, Outside>>

\* The intent to cancel is on disk before anything is done about it.
Cancel ==
  /\ op.pc = "cancel"
  /\ IF journal.state \in Outcomes THEN Return /\ UNCHANGED journal
     ELSE /\ journal' = [journal EXCEPT !.cancel = TRUE]
          /\ Goto("intended")
  /\ UNCHANGED <<faults, Outside>>

CancelIntended ==
  /\ op.pc = "intended"
  /\ \/ /\ journal.receipt
        /\ op' = [op EXCEPT !.pc = "ask", !.local = journal.state] /\ UNCHANGED journal
     \/ /\ ~journal.receipt /\ journal.state = "prepared"
        /\ Enter("cancelled") /\ Return
     \/ /\ ~journal.receipt /\ journal.state \in Doubtful
        /\ IF Visible THEN Goto("attach") /\ UNCHANGED journal
           ELSE Enter("uncertain") /\ Return
  /\ UNCHANGED <<faults, Outside>>

\* transport.status, or transport.cancel once a cancellation is wanted: it may
\* take effect at once or later.  A late or missing answer is a fault.
Answer(s) == op' = [op EXCEPT !.pc = "observed", !.seen = s]
Stale == {"uncertain"} \cup
  {s \in Progress : remote.state \in Progress => Rank[s] < Rank[remote.state]}

Ask ==
  /\ op.pc = "ask"
  /\ IF journal.cancel /\ remote.state \in Progress
     THEN \E now \in BOOLEAN :
            /\ remote' = [remote EXCEPT !.state = IF now THEN "cancelled" ELSE @, !.stop = TRUE]
            /\ Answer(IF now THEN "cancelled" ELSE "cancelling")
     ELSE Answer(remote.state) /\ UNCHANGED remote
  /\ UNCHANGED <<journal, acker, waiter, sent, retried, faults>>

AskUnsure ==
  /\ op.pc = "ask"
  /\ \E s \in Stale : Answer(s)
  /\ remote' = [remote EXCEPT !.stop = @ \/ journal.cancel]
  /\ Fault
  /\ UNCHANGED <<journal, acker, waiter, sent, retried>>

\* accept_terminal: outcome, event, retention and ACK intent in one replace.
Acceptance(s) == [journal EXCEPT !.state = s, !.retained = TRUE, !.ack = "pending"]

AcceptTerminal ==
  /\ op.pc = "observed" /\ op.seen \in Outcomes
  /\ IF May(op.seen) THEN journal' = Acceptance(op.seen) ELSE UNCHANGED journal
  /\ Return /\ UNCHANGED <<faults, Outside>>

\* A status that went back is clamped, in the status path only.
Clamped ==
  /\ op.call # "cancel"
  /\ op.local \in Progress /\ op.seen \in Progress
  /\ Rank[op.seen] < Rank[op.local]

RecordProgress ==
  /\ op.pc = "observed" /\ op.seen \notin Outcomes
  /\ EnterOrRaise(IF Clamped THEN op.local ELSE op.seen)
  /\ Return /\ UNCHANGED <<faults, Outside>>

Resume ==
  /\ op = Idle
  /\ journal.state = "failed" /\ ~journal.receipt /\ journal.reopen
  /\ journal' = [journal EXCEPT !.state = "prepared", !.reopen = FALSE]
  /\ UNCHANGED <<op, faults, Outside>>

\* An exception before the next write, or the death of the process.
Abandon == op # Idle /\ Return /\ Fault /\ UNCHANGED <<journal, Outside>>

-----------------------------------------------------------------------------
(* acknowledge: its own lock, one worker at a time                         *)

\* Mutant: a result need not be retained to be acknowledged.
AnyOutcome == journal.state \in Outcomes
Acknowledgeable == journal.retained

\* Mutant: the intent is marked done when it begins.
BegunIsDone == "delivered"
Begun == journal.ack

AckBegin ==
  /\ acker = "idle" /\ Acknowledgeable /\ journal.ack # "delivered"
  /\ acker' = "asking"
  /\ journal' = [journal EXCEPT !.ack = Begun]
  /\ UNCHANGED <<op, waiter, remote, sent, retried, faults>>

AckSend ==
  /\ acker = "asking"
  /\ acker' = "answered"
  /\ remote' = [remote EXCEPT !.released = TRUE]
  /\ UNCHANGED <<journal, op, waiter, sent, retried, faults>>

AckRecord ==
  /\ acker = "answered"
  /\ acker' = "idle"
  /\ journal' = [journal EXCEPT !.ack = "delivered"]
  /\ UNCHANGED <<op, waiter, remote, sent, retried, faults>>

\* Refused, unanswered, or dead: with or without effect at the endpoint.
AckLost ==
  /\ acker # "idle" /\ acker' = "idle" /\ Fault
  /\ \/ UNCHANGED remote
     \/ /\ acker = "asking"
        /\ remote' = [remote EXCEPT !.released = TRUE]
  /\ UNCHANGED <<journal, op, waiter, sent, retried>>

-----------------------------------------------------------------------------
(* The no-progress watchdog of wait, and the endpoint                      *)

\* The state status() returned is written back outside the operation lock.
WaitRead ==
  /\ waiter = "none" /\ op = Idle
  /\ journal.state \in Progress \cup {"cancelling"}
  /\ waiter' = journal.state
  /\ UNCHANGED <<journal, op, acker, remote, sent, retried, faults>>

WaitWrite ==
  /\ waiter # "none"
  /\ EnterOrRaise(waiter) /\ waiter' = "none"
  /\ UNCHANGED <<op, acker, remote, sent, retried, faults>>

Flight ==
  /\ remote.flight
  /\ \E s \in {"absent", "accepted", "rejected"} :
       remote' = [remote EXCEPT !.flight = FALSE, !.state = Landed(s)]
  /\ UNCHANGED <<journal, op, acker, waiter, sent, retried, faults>>

Work ==
  /\ remote.state \in Progress
  /\ \/ \E s \in Progress \cup {"completed", "failed"} :
          /\ s \in Progress => Rank[s] > Rank[remote.state]
          /\ remote' = [remote EXCEPT !.state = s]
     \/ /\ remote.stop
        /\ remote' = [remote EXCEPT !.state = "cancelled"]
  /\ UNCHANGED <<journal, op, acker, waiter, sent, retried, faults>>

-----------------------------------------------------------------------------
Calls ==
  \/ \E retry \in BOOLEAN : Submit(retry)
  \/ \E name \in {"status", "cancel"} : Call(name, FALSE) /\ UNCHANGED retried

\* What the call that holds the lock does next.
OpStep ==
  \/ SubmitKnown \/ SubmitDoubtful \/ SubmitFresh \/ Publish \/ Send
  \/ RecordFailure \/ Attach \/ Attached
  \/ Status \/ Cancel \/ CancelIntended \/ Ask \/ AcceptTerminal \/ RecordProgress

AckStep == AckBegin \/ AckSend \/ AckRecord
EndpointStep == Flight \/ Work

Faulty == SubmitInvalid \/ SendUnsure \/ SendRefused \/ AskUnsure \/ Abandon \/ AckLost

Next ==
  \/ Calls \/ OpStep \/ Resume \/ AckStep \/ WaitRead \/ WaitWrite
  \/ EndpointStep \/ Faulty

Spec == Init /\ [][Next]_vars

\* Somebody calls while nobody does, a call that has begun goes on, the ACK
\* worker and the endpoint work.
FairSpec == Spec /\ WF_vars(Calls) /\ WF_vars(OpStep) /\ WF_vars(AckStep) /\ WF_vars(EndpointStep)

-----------------------------------------------------------------------------
(* Properties                                                              *)

\* Types; the ACK intent and the retention come into being together, and only a
\* run with a receipt has them (accept_terminal is one replace of the file).
TypeOK ==
  /\ journal \in [state : States, receipt : BOOLEAN, cancel : BOOLEAN, retained : BOOLEAN,
                  ack : {"none", "pending", "delivered"}, reopen : BOOLEAN]
  /\ journal.retained <=> journal.ack # "none"
  /\ journal.retained => journal.receipt
  /\ op \in [call : {"none", "submit", "status", "cancel"}, retry : BOOLEAN,
             pc : {"idle", "submit", "status", "cancel", "intended", "publish", "sending", "nacked",
                   "unsure", "attach", "attached", "ask", "observed"},
             local : States \cup {"none"}, seen : States \cup {"none", "absent", "rejected"}]
  /\ acker \in {"idle", "asking", "answered"}
  /\ waiter \in Progress \cup {"none", "cancelling"}
  /\ remote \in [state : {"absent", "rejected"} \cup Progress \cup Outcomes, flight : BOOLEAN,
                 stop : BOOLEAN, released : BOOLEAN]
  /\ sent \in Nat /\ retried \in Nat /\ faults \in Nat

\* Once a cancellation is recorded nothing is published any more, not even by a
\* submission that asks for a retry (runtime.py, comment in _submit_locked).
NoPublicationAfterCancel == [][sent' > sent => ~journal.cancel]_vars

\* A request is published once, and once more for every retry the caller asked
\* for: a crash or a lost answer never repeats it.
RepublishOnlyOnRequest == sent <= 1 + retried

Promise == INSTANCE RunOutcome WITH
  result <- IF remote.state \in Outcomes THEN remote.state ELSE "open",
  outcome <- IF journal.retained THEN journal.state ELSE "open",
  released <- remote.released

\* The run keeps the promise of RunOutcome: it accepts what the endpoint
\* reached, once, and the endpoint is released only after that.
KeepsPromise == Promise!Spec

\* The result of a run whose receipt is known is retained once faults stop,
\* whatever crash, stale status or cancellation came before.
ResultRetained ==
  (journal.receipt /\ remote.state \in {"completed", "failed"}) ~> journal.retained

\* A retained result is acknowledged in the end, at the endpoint and locally.
Acknowledged == journal.retained ~> (journal.ack = "delivered" /\ remote.released)

\* A cancellation the endpoint has carried out ends the run.  The comment in
\* _submit_locked promises that a doubtful publication is reconciled and
\* cancelled.  It does not hold: see the README.
CancellationSettles == (journal.cancel /\ remote.state = "cancelled") ~> journal.state \in Outcomes
=============================================================================
