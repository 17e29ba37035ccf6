-------------------------- MODULE GatewayRun_proofs --------------------------
(***************************************************************************)
(* Proofs about the Gateway run, for every bound on faults and retries.    *)
(*                                                                         *)
(* The inductive invariant adds to the types what the call that holds the  *)
(* operation lock knows: where it stands, what the journal must look like  *)
(* (Observed, Uncancelled, Reopenable); what the journal and the endpoint  *)
(* owe each other once a result is retained (Retention); and that in every *)
(* situation from which a publication may still start, all publications so *)
(* far are covered by retries (Paid).                                      *)
(***************************************************************************)
EXTENDS GatewayRun, TLAPS

\* The rows of the state, named so that a step need not expand them.
PCs == {"idle", "submit", "status", "cancel", "intended", "publish", "sending", "nacked",
        "unsure", "attach", "attached", "ask", "observed"}
RemoteStates == {"absent", "rejected"} \cup Progress \cup Outcomes

JournalRow == [state : States, receipt : BOOLEAN, cancel : BOOLEAN, retained : BOOLEAN,
               ack : {"none", "pending", "delivered"}, reopen : BOOLEAN]
OpRow == [call : {"none", "submit", "status", "cancel"}, retry : BOOLEAN, pc : PCs,
          local : States \cup {"none"}, seen : States \cup {"none", "absent", "rejected"}]
RemoteRow == [state : RemoteStates, flight : BOOLEAN, stop : BOOLEAN, released : BOOLEAN]

\* The part of TypeOK about the journal: accept_terminal writes retention, receipt
\* and intent together.
Journaled ==
  /\ journal \in JournalRow
  /\ journal.retained <=> journal.ack # "none"
  /\ journal.retained => journal.receipt

Typed ==
  /\ Journaled
  /\ op \in OpRow
  /\ remote \in RemoteRow
  /\ acker \in {"idle", "asking", "answered"}
  /\ waiter \in Progress \cup {"none", "cancelling"}
  /\ sent \in Nat /\ retried \in Nat /\ faults \in Nat

\* TypeOK in terms of the named rows.
LEMMA Types == TypeOK <=> Typed
  BY DEF TypeOK, Typed, Journaled, JournalRow, OpRow, RemoteRow, RemoteStates, PCs

\* The positions from which a call has not yet looked at the journal.
Opening == {"idle", "submit", "status", "cancel"}

\* A retained result is the one the endpoint reached, and only a retained result
\* is ever acknowledged.
Retention ==
  /\ journal.retained => journal.state \in Outcomes /\ remote.state = journal.state
  /\ remote.released \/ acker # "idle" => journal.retained
\* A call past its first check works on a run without a retained result; one that
\* talks to the endpoint has a receipt; an outcome it saw is still the endpoint's.
Observed ==
  /\ op.pc \notin Opening => ~journal.retained
  /\ op.pc \in {"attached", "ask", "observed"} => journal.receipt
  /\ op.pc = "observed" /\ op.seen \in Outcomes => remote.state = op.seen
\* A submission that is about to publish runs under no recorded cancellation.
Uncancelled == op.pc \in {"publish", "sending"} => ~journal.cancel
\* Only a failed run can be reopened, and not while a publication is being sent.
Reopenable ==
  /\ journal.reopen => journal.state = "failed"
  /\ op.pc = "sending" => journal.state # "prepared" /\ ~journal.reopen
\* Situations from which a further publication may leave the host.
Credit ==
  \/ journal.state = "prepared" \/ journal.reopen
  \/ op.pc \in {"publish", "sending"}
  \/ op.pc = "submit" /\ op.retry
\* In each of them the publications so far are covered by the retries asked for.
Paid == Credit => sent <= retried

\* The inductive invariant.
Parts == Retention /\ Observed /\ Uncancelled /\ Reopenable /\ Paid /\ RepublishOnlyOnRequest
IInv == Typed /\ Parts

\* An outcome has no successor, and no transition leads back to prepared.
LEMMA AllowedFacts ==
  \A s \in States : /\ Allowed[s] \subseteq States \ {"prepared"}
                    /\ s \in Outcomes => Allowed[s] = {}
  BY DEF Allowed, States, Doubtful, Progress, Outcomes, AfterCancelling

\* The invariant holds of a run just prepared.
LEMMA InitInv == Init => IInv
  BY GatewayAssumption DEF Init, IInv, Typed, Journaled, JournalRow, OpRow, RemoteRow, RemoteStates, PCs,
    Parts, RepublishOnlyOnRequest, Retention, Observed, Uncancelled,
    Reopenable, Paid, Credit, States, Doubtful, Progress, Outcomes, Idle, Opening

\* RunJournal.transition writes the state and leaves the other fields alone; it never
\* leaves an outcome.
LEMMA Entering ==
  ASSUME Journaled, NEW s \in States, Enter(s), s # "prepared"
  PROVE  /\ Journaled'
         /\ journal'.state = s /\ (journal.state \in Outcomes => s = journal.state)
         /\ journal'.receipt = journal.receipt /\ journal'.cancel = journal.cancel
         /\ journal'.retained = journal.retained /\ journal'.reopen = journal.reopen
         /\ journal'.ack = journal.ack
  <1>1. journal \in JournalRow /\ journal.state \in States
    BY DEF Journaled, JournalRow
  <1>2. journal' = [journal EXCEPT !.state = s]
    BY DEF Enter
  <1>3. journal' \in JournalRow
    BY <1>1, <1>2 DEF JournalRow
  <1>4. journal.state \in Outcomes => s = journal.state
    BY <1>1, AllowedFacts DEF Enter, May
  <1> QED
    BY <1>1, <1>2, <1>3, <1>4 DEF Journaled, JournalRow

\* What the steps of a call do to its row.
LEMMA Going ==
  ASSUME op \in OpRow, NEW p \in PCs, Goto(p)
  PROVE  op' \in OpRow /\ op'.pc = p /\ op'.retry = op.retry /\ op'.seen = op.seen
  BY DEF Goto, OpRow

\* A call that returns leaves an idle row.
LEMMA Returning ==
  ASSUME Return
  PROVE  op' \in OpRow /\ op'.pc = "idle" /\ op'.retry = FALSE
  BY DEF Return, Idle, OpRow, PCs

\* A call that turns to the endpoint remembers the state it read.
LEMMA Asking ==
  ASSUME op \in OpRow, NEW s \in States, op' = [op EXCEPT !.pc = "ask", !.local = s]
  PROVE  op' \in OpRow /\ op'.pc = "ask"
  BY DEF OpRow, PCs

\* A call that was answered holds the answer.
LEMMA Answering ==
  ASSUME op \in OpRow, NEW s \in States \cup {"absent", "rejected"}, Answer(s)
  PROVE  op' \in OpRow /\ op'.pc = "observed" /\ op'.seen = s
  BY DEF OpRow, PCs, Answer

\* A new call starts at its own entry.
LEMMA CallStep ==
  ASSUME NEW retry \in BOOLEAN, NEW name \in {"submit", "status", "cancel"}, Call(name, retry)
  PROVE  op' \in OpRow /\ op'.pc = name /\ op'.retry = retry
  BY DEF Call, Idle, OpRow, PCs

\* Every step preserves the types.
LEMMA StepTyped == IInv /\ [Next]_vars => Typed'
  <1> SUFFICES ASSUME IInv, [Next]_vars PROVE Typed'
    OBVIOUS
  <1>0. CASE UNCHANGED vars
    BY <1>0 DEF vars, IInv, Typed, Journaled
  <1>1. ASSUME NEW retry \in BOOLEAN, Submit(retry) PROVE Typed'
    <2>1. op' \in OpRow
      BY <1>1, CallStep DEF Submit
    <2>2. retried' = retried + 1 \/ retried' = retried
      BY <1>1 DEF Submit, IInv, Typed
    <2> QED
      BY <1>1, <2>1, <2>2 DEF Submit, Call, IInv, Typed, Journaled
  <1>2. ASSUME NEW name \in {"status", "cancel"}, Call(name, FALSE), UNCHANGED retried PROVE Typed'
    BY <1>2, CallStep DEF Call, IInv, Typed, Journaled
  <1>3. CASE SubmitKnown
    BY <1>3
      DEF SubmitKnown, OpRow, PCs, Outside, Fault, IInv, Typed, Journaled, Progress, Outcomes, Doubtful,
          Parts, Observed
  <1>4. CASE SubmitDoubtful
    BY <1>4, Going, Returning, Entering
      DEF SubmitDoubtful, StopsHere, Visible, Retries, States, PCs, Outside, Fault, IInv, Typed,
          Journaled, Progress, Outcomes, Doubtful, Parts, Observed
  <1>5. CASE SubmitFresh
    BY <1>5, Going, Returning
      DEF SubmitFresh, StopsHere, PCs, Outside, Fault, IInv, Typed, Journaled, Progress, Outcomes,
          Doubtful, Parts, Observed
  <1>6. CASE Publish
    BY <1>6, Going, Entering
      DEF Publish, States, PCs, Outside, Fault, IInv, Typed, Journaled, Progress, Outcomes, Doubtful,
          Parts, Observed
  <1>7. CASE Send
    BY <1>7, Going
      DEF Send, Landed, PCs, RemoteRow, RemoteStates, Outside, Fault, IInv, Typed, Journaled, Progress,
          Outcomes, Doubtful, Parts, Observed
  <1>8. CASE RecordFailure
    BY <1>8, Returning, Entering
      DEF RecordFailure, States, Outside, Fault, IInv, Typed, Journaled, Progress, Outcomes, Doubtful,
          Parts, Observed
  <1>9. CASE Attach
    BY <1>9, Going
      DEF Attach, PCs, JournalRow, Outside, Fault, IInv, Typed, Journaled, Progress, Outcomes, Doubtful,
          Parts, Observed
  <1>10. CASE Attached
    BY <1>10, Asking, Entering
      DEF Attached, States, Outside, Fault, IInv, Typed, Journaled, Progress, Outcomes, Doubtful, Parts,
          Observed
  <1>11. CASE Status
    BY <1>11, Asking, Returning, Going
      DEF Status, PCs, JournalRow, Outside, Fault, IInv, Typed, Journaled, Progress, Outcomes, Doubtful,
          Parts, Observed
  <1>12. CASE Cancel
    BY <1>12, Going, Returning
      DEF Cancel, PCs, JournalRow, Outside, Fault, IInv, Typed, Journaled, Progress, Outcomes, Doubtful,
          Parts, Observed
  <1>13. CASE CancelIntended
    BY <1>13, Asking, Going, Returning, Entering
      DEF CancelIntended, PCs, States, JournalRow, Outside, Fault, IInv, Typed, Journaled, Progress,
          Outcomes, Doubtful, Parts, Observed
  <1>14. CASE Ask
    BY <1>14, Answering
      DEF Ask, RemoteRow, RemoteStates, States, Outside, Fault, IInv, Typed, Journaled, Progress,
          Outcomes, Doubtful, Parts, Observed
  <1>15. CASE AcceptTerminal
    <2>1. Journaled'
      BY <1>15
        DEF AcceptTerminal, Acceptance, IInv, Typed, Journaled, JournalRow, Parts, Observed, States,
            Outcomes
    <2>2. op' \in OpRow
      BY <1>15, Returning DEF AcceptTerminal
    <2>3. remote' \in RemoteRow
      BY <1>15 DEF AcceptTerminal, Outside, IInv, Typed
    <2> QED
      BY <1>15, <2>1, <2>2, <2>3 DEF AcceptTerminal, Outside, IInv, Typed
  <1>16. CASE RecordProgress
    <2>1. op.local \in States \cup {"none"} /\ op.seen \in States \cup {"none", "absent", "rejected"}
      BY DEF IInv, Typed, OpRow
    <2>2. Allowed[journal.state] \subseteq States \ {"prepared"} /\ journal.state \in States
      BY AllowedFacts DEF IInv, Typed, Journaled, JournalRow
    <2>3. ASSUME NEW s, EnterOrRaise(s) PROVE Journaled'
      BY <2>2, <2>3 DEF EnterOrRaise, Enter, May, IInv, Typed, Journaled, JournalRow
    <2> QED
      BY <1>16, <2>3, Returning DEF RecordProgress, Outside, IInv, Typed
  <1>17. CASE Resume
    BY <1>17 DEF Resume, Outside, IInv, Typed, Journaled, JournalRow, States
  <1>18. CASE AckBegin
    BY <1>18
      DEF AckBegin, Acknowledgeable, Begun, JournalRow, Outside, Fault, IInv, Typed, Journaled, Progress,
          Outcomes, Doubtful, Parts, Observed
  <1>19. CASE AckSend
    BY <1>19
      DEF AckSend, RemoteRow, Outside, Fault, IInv, Typed, Journaled, Progress, Outcomes, Doubtful,
          Parts, Observed
  <1>20. CASE AckRecord
    BY <1>20 DEF AckRecord, IInv, Typed, Parts, Retention, Journaled, JournalRow
  <1>21. CASE WaitRead
    BY <1>21
      DEF WaitRead, Outside, Fault, IInv, Typed, Journaled, Progress, Outcomes, Doubtful, Parts, Observed
  <1>22. CASE WaitWrite
    BY <1>22, Entering
      DEF WaitWrite, EnterOrRaise, States, Outside, Fault, IInv, Typed, Journaled, Progress, Outcomes,
          Doubtful, Parts, Observed
  <1>23. CASE Flight
    BY <1>23
      DEF Flight, Landed, RemoteRow, RemoteStates, Outside, Fault, IInv, Typed, Journaled, Progress,
          Outcomes, Doubtful, Parts, Observed
  <1>24. CASE Work
    BY <1>24
      DEF Work, RemoteRow, RemoteStates, Outside, Fault, IInv, Typed, Journaled, Progress, Outcomes,
          Doubtful, Parts, Observed
  <1>25. CASE SubmitInvalid
    <2>1. Journaled'
      BY <1>25 DEF SubmitInvalid, IInv, Typed, Journaled, JournalRow, States, Outcomes
    <2>2. op' \in OpRow
      BY <1>25, Returning DEF SubmitInvalid
    <2>3. remote' \in RemoteRow
      BY <1>25 DEF SubmitInvalid, Outside, IInv, Typed
    <2> QED
      BY <1>25, <2>1, <2>2, <2>3 DEF SubmitInvalid, Outside, Fault, IInv, Typed
  <1>26. CASE SendUnsure
    <2>1. Journaled'
      BY <1>26 DEF SendUnsure, IInv, Typed, Journaled
    <2>2. op' \in OpRow
      BY <1>26, Going DEF SendUnsure, IInv, Typed, PCs
    <2>3. remote' \in RemoteRow
      BY <1>26 DEF SendUnsure, RemoteRow, IInv, Typed
    <2> QED
      BY <1>26, <2>1, <2>2, <2>3 DEF SendUnsure, Fault, IInv, Typed
  <1>27. CASE SendRefused
    <2>1. Journaled'
      BY <1>27 DEF SendRefused, IInv, Typed, Journaled, JournalRow, States, Outcomes
    <2>2. op' \in OpRow
      BY <1>27, Returning DEF SendRefused
    <2>3. remote' \in RemoteRow
      BY <1>27 DEF SendRefused, Outside, IInv, Typed
    <2> QED
      BY <1>27, <2>1, <2>2, <2>3 DEF SendRefused, Outside, Fault, IInv, Typed
  <1>28. CASE AskUnsure
    <2>1. Journaled'
      BY <1>28 DEF AskUnsure, IInv, Typed, Journaled
    <2>2. op' \in OpRow
      BY <1>28, Answering DEF AskUnsure, Stale, IInv, Typed, States, Doubtful, Progress
    <2>3. remote' \in RemoteRow
      BY <1>28 DEF AskUnsure, RemoteRow, IInv, Typed, Journaled, JournalRow
    <2> QED
      BY <1>28, <2>1, <2>2, <2>3 DEF AskUnsure, Fault, IInv, Typed
  <1>29. CASE Abandon
    BY <1>29, Returning
      DEF Abandon, Outside, Fault, IInv, Typed, Journaled, Progress, Outcomes, Doubtful, Parts, Observed
  <1>30. CASE AckLost
    <2>1. Journaled'
      BY <1>30 DEF AckLost, IInv, Typed, Journaled
    <2>2. op' \in OpRow
      BY <1>30 DEF AckLost, IInv, Typed
    <2>3. remote' \in RemoteRow
      BY <1>30 DEF AckLost, RemoteRow, IInv, Typed
    <2> QED
      BY <1>30, <2>1, <2>2, <2>3 DEF AckLost, Fault, IInv, Typed
  <1> QED
    BY <1>0, <1>1, <1>2, <1>3, <1>4, <1>5, <1>6, <1>7, <1>8, <1>9, <1>10, <1>11, <1>12, <1>13, <1>14,
       <1>15, <1>16, <1>17, <1>18, <1>19, <1>20, <1>21, <1>22, <1>23, <1>24, <1>25, <1>26, <1>27, <1>28,
       <1>29, <1>30
    DEF Next, Calls, OpStep, AckStep, EndpointStep, Faulty

\* Every step preserves the rest of the invariant.
LEMMA StepParts == IInv /\ [Next]_vars => Parts'
  <1> SUFFICES ASSUME IInv, [Next]_vars PROVE Parts'
    OBVIOUS
  <1> USE DEF Parts, Retention, Observed, Uncancelled, Reopenable, Paid, Credit, RepublishOnlyOnRequest,
     Opening
  <1>0. CASE UNCHANGED vars
    BY <1>0 DEF vars, IInv
  <1>1. ASSUME NEW retry \in BOOLEAN, Submit(retry) PROVE Parts'
    <2>1. op'.pc = "submit" /\ op'.retry = retry
      BY <1>1, CallStep DEF Submit
    <2>2. UNCHANGED <<journal, acker, waiter, remote, sent>>
      BY <1>1 DEF Submit, Call
    <2>3. retried' = IF retry THEN retried + 1 ELSE retried
      BY <1>1 DEF Submit, IInv, Typed
    <2>4. sent \in Nat /\ retried \in Nat
      BY DEF IInv, Typed
    <2> QED
      BY <2>1, <2>2, <2>3, <2>4 DEF IInv
  <1>2. ASSUME NEW name \in {"status", "cancel"}, Call(name, FALSE), UNCHANGED retried PROVE Parts'
    BY <1>2, CallStep DEF Call, IInv, Typed, Journaled
  <1>3. CASE SubmitKnown
    BY <1>3 DEF SubmitKnown, OpRow, PCs, Outside, Fault, IInv, Typed, Journaled, Progress, Outcomes, Doubtful
  <1>4. CASE SubmitDoubtful
    <2>1. /\ op.pc = "submit" /\ ~journal.receipt /\ ~journal.cancel /\ ~journal.retained
          /\ UNCHANGED <<acker, waiter, remote, sent, retried>>
      BY <1>4 DEF SubmitDoubtful, StopsHere, Outside, IInv, Typed, Journaled
    <2>2. CASE Enter("failed") /\ Return
      BY <2>1, <2>2, Entering, Returning DEF IInv, Typed, States, Outcomes
    <2>3. CASE Goto("attach") /\ UNCHANGED journal
      BY <2>1, <2>3, Going DEF IInv, Typed, PCs
    <2>4. CASE Enter("uncertain") /\ Goto("publish") /\ op.retry
      BY <2>1, <2>4, Entering, Going DEF IInv, Typed, PCs, States, Doubtful, Outcomes
    <2>5. CASE Enter("uncertain") /\ Return
      BY <2>1, <2>5, Entering, Returning DEF IInv, Typed, States, Doubtful, Outcomes
    <2> QED
      BY <1>4, <2>2, <2>3, <2>4, <2>5 DEF SubmitDoubtful, Retries
  <1>5. CASE SubmitFresh
    BY <1>5, Going, Returning
      DEF SubmitFresh, StopsHere, PCs, Outside, Fault, IInv, Typed, Journaled, Progress, Outcomes,
          Doubtful
  <1>6. CASE Publish
    BY <1>6, Going, Entering
      DEF Publish, States, PCs, Outside, Fault, IInv, Typed, Journaled, Progress, Outcomes, Doubtful
  <1>7. CASE Send
    BY <1>7, Going
      DEF Send, Landed, PCs, RemoteRow, RemoteStates, Outside, Fault, IInv, Typed, Journaled, Progress,
          Outcomes, Doubtful
  <1>8. CASE RecordFailure
    BY <1>8, Returning, Entering
      DEF RecordFailure, States, Outside, Fault, IInv, Typed, Journaled, Progress, Outcomes, Doubtful
  <1>9. CASE Attach
    BY <1>9, Going
      DEF Attach, PCs, JournalRow, Outside, Fault, IInv, Typed, Journaled, Progress, Outcomes, Doubtful
  <1>10. CASE Attached
    BY <1>10, Asking, Entering
      DEF Attached, States, Outside, Fault, IInv, Typed, Journaled, Progress, Outcomes, Doubtful
  <1>11. CASE Status
    BY <1>11, Asking, Returning, Going
      DEF Status, PCs, JournalRow, Outside, Fault, IInv, Typed, Journaled, Progress, Outcomes, Doubtful
  <1>12. CASE Cancel
    BY <1>12, Going, Returning
      DEF Cancel, PCs, JournalRow, Outside, Fault, IInv, Typed, Journaled, Progress, Outcomes, Doubtful
  <1>13. CASE CancelIntended
    <2>1. op.pc = "intended" /\ ~journal.retained /\ UNCHANGED <<acker, waiter, remote, sent, retried>>
      BY <1>13 DEF CancelIntended, Outside, IInv
    <2>2. CASE journal.receipt /\ op' = [op EXCEPT !.pc = "ask", !.local = journal.state] /\ UNCHANGED journal
      BY <2>1, <2>2, Asking DEF IInv, Typed, Journaled, JournalRow
    <2>3. CASE Enter("cancelled") /\ Return
      BY <2>1, <2>3, Entering, Returning DEF IInv, Typed, States, Outcomes
    <2>4. CASE Goto("attach") /\ UNCHANGED journal
      BY <2>1, <2>4, Going DEF IInv, Typed, PCs
    <2>5. CASE Enter("uncertain") /\ Return
      BY <2>1, <2>5, Entering, Returning DEF IInv, Typed, States, Doubtful, Outcomes
    <2> QED
      BY <1>13, <2>2, <2>3, <2>4, <2>5 DEF CancelIntended
  <1>14. CASE Ask
    <2>1. op.pc = "ask" /\ UNCHANGED <<journal, acker, waiter, sent, retried>>
      BY <1>14 DEF Ask
    <2>2. op'.pc = "observed" /\ (op'.seen = remote'.state \/ op'.seen = "cancelling")
      <3>1. remote.state \in States \cup {"absent", "rejected"} /\ op \in OpRow /\ remote \in RemoteRow
        BY DEF IInv, Typed, RemoteRow, RemoteStates, States
      <3>2. "cancelled" \in States /\ "cancelling" \in States
        BY DEF States, Outcomes
      <3>3. CASE Answer(remote.state) /\ UNCHANGED remote
        BY <3>1, <3>3, Answering
      <3>4. CASE Answer("cancelled") /\ remote'.state = "cancelled"
        BY <3>1, <3>2, <3>4, Answering
      <3>5. CASE Answer("cancelling")
        BY <3>1, <3>2, <3>5, Answering
      <3> QED
        BY <1>14, <3>1, <3>3, <3>4, <3>5 DEF Ask, RemoteRow
    <2>3. remote'.released = remote.released
      BY <1>14 DEF Ask, IInv, Typed, RemoteRow
    <2> QED
      BY <2>1, <2>2, <2>3 DEF IInv, Outcomes
  <1>15. CASE AcceptTerminal
    <2>1. op.pc = "observed" /\ op.seen \in Outcomes /\ UNCHANGED <<acker, waiter, remote, sent, retried>>
      BY <1>15 DEF AcceptTerminal, Outside
    <2>2. op'.pc = "idle" /\ op'.retry = FALSE
      BY <1>15, Returning DEF AcceptTerminal
    <2>3. CASE May(op.seen) /\ journal' = Acceptance(op.seen)
      <3>1. journal.state \in Outcomes => op.seen = journal.state
        BY <2>3, AllowedFacts DEF May, IInv, Typed, Journaled, JournalRow
      <3> QED
        BY <2>1, <2>2, <2>3, <3>1 DEF Acceptance, IInv, Typed, Journaled, JournalRow, Outcomes
    <2>4. CASE UNCHANGED journal
      BY <2>1, <2>2, <2>4 DEF IInv, Typed
    <2> QED
      BY <1>15, <2>3, <2>4 DEF AcceptTerminal
  <1>16. CASE RecordProgress
    <2>1. UNCHANGED <<acker, waiter, remote, sent, retried>> /\ op.pc = "observed"
      BY <1>16 DEF RecordProgress, Outside
    <2>2. op'.pc = "idle" /\ op'.retry = FALSE
      BY <1>16, Returning DEF RecordProgress
    <2>3. ASSUME NEW s, EnterOrRaise(s)
          PROVE  \/ UNCHANGED journal
                 \/ /\ journal'.state # "prepared"
                    /\ journal'.retained = journal.retained /\ journal'.reopen = journal.reopen
                    /\ journal'.cancel = journal.cancel /\ journal'.receipt = journal.receipt
                    /\ journal.state \in Outcomes => journal'.state = journal.state
      BY <2>3, AllowedFacts DEF EnterOrRaise, Enter, May, IInv, Typed, Journaled, JournalRow
    <2>4. \E s : EnterOrRaise(s)
      BY <1>16 DEF RecordProgress
    <2> QED
      BY <2>1, <2>2, <2>3, <2>4 DEF IInv, Typed, Outcomes
  <1>17. CASE Resume
    BY <1>17 DEF Resume, JournalRow, Outside, Fault, IInv, Typed, Journaled, Progress, Outcomes, Doubtful
  <1>18. CASE AckBegin
    BY <1>18
      DEF AckBegin, Acknowledgeable, Begun, JournalRow, Outside, Fault, IInv, Typed, Journaled, Progress,
          Outcomes, Doubtful
  <1>19. CASE AckSend
    BY <1>19 DEF AckSend, RemoteRow, Outside, Fault, IInv, Typed, Journaled, Progress, Outcomes, Doubtful
  <1>20. CASE AckRecord
    BY <1>20 DEF AckRecord, JournalRow, Outside, Fault, IInv, Typed, Journaled, Progress, Outcomes, Doubtful
  <1>21. CASE WaitRead
    BY <1>21 DEF WaitRead, Outside, Fault, IInv, Typed, Journaled, Progress, Outcomes, Doubtful
  <1>22. CASE WaitWrite
    BY <1>22, Entering
      DEF WaitWrite, EnterOrRaise, States, Outside, Fault, IInv, Typed, Journaled, Progress, Outcomes,
          Doubtful
  <1>23. CASE Flight
    BY <1>23
      DEF Flight, Landed, RemoteRow, RemoteStates, Outside, Fault, IInv, Typed, Journaled, Progress,
          Outcomes, Doubtful
  <1>24. CASE Work
    BY <1>24
      DEF Work, RemoteRow, RemoteStates, Outside, Fault, IInv, Typed, Journaled, Progress, Outcomes,
          Doubtful
  <1>25. CASE SubmitInvalid
    BY <1>25, Returning
      DEF SubmitInvalid, StopsHere, JournalRow, States, Outside, Fault, IInv, Typed, Journaled, Progress,
          Outcomes, Doubtful
  <1>26. CASE SendUnsure
    BY <1>26, Going
      DEF SendUnsure, PCs, RemoteRow, Outside, Fault, IInv, Typed, Journaled, Progress, Outcomes,
          Doubtful
  <1>27. CASE SendRefused
    BY <1>27, Returning
      DEF SendRefused, JournalRow, States, Outside, Fault, IInv, Typed, Journaled, Progress, Outcomes,
          Doubtful
  <1>28. CASE AskUnsure
    BY <1>28, Answering
      DEF AskUnsure, Stale, RemoteRow, States, Outside, Fault, IInv, Typed, Journaled, Progress,
          Outcomes, Doubtful
  <1>29. CASE Abandon
    BY <1>29, Returning DEF Abandon, Outside, Fault, IInv, Typed, Journaled, Progress, Outcomes, Doubtful
  <1>30. CASE AckLost
    BY <1>30 DEF AckLost, RemoteRow, Outside, Fault, IInv, Typed, Journaled, Progress, Outcomes, Doubtful
  <1> QED
    BY <1>0, <1>1, <1>2, <1>3, <1>4, <1>5, <1>6, <1>7, <1>8, <1>9, <1>10, <1>11, <1>12, <1>13, <1>14,
       <1>15, <1>16, <1>17, <1>18, <1>19, <1>20, <1>21, <1>22, <1>23, <1>24, <1>25, <1>26, <1>27, <1>28,
       <1>29, <1>30
    DEF Next, Calls, OpStep, AckStep, EndpointStep, Faulty

\* The invariant holds of every reachable state of the run.
THEOREM Inductive == Spec => []IInv
  <1>1. IInv /\ [Next]_vars => IInv'
    BY StepTyped, StepParts DEF IInv
  <1> QED
    BY <1>1, InitInv, PTL DEF Spec

\* The journal, the calls on it and the endpoint stay within their types, and the
\* ACK intent exists exactly when a result is retained (accept_terminal).
THEOREM TypeCorrect == Spec => []TypeOK
  <1>1. IInv => TypeOK
    BY Types DEF IInv
  <1> QED
    BY <1>1, Inductive, PTL

\* However often a submission crashes or loses its answer, the request leaves the
\* host once, and once more per retry that was asked for (_submit_locked).
THEOREM RepublishCorrect == Spec => []RepublishOnlyOnRequest
  <1>1. IInv => RepublishOnlyOnRequest
    BY DEF IInv, Parts
  <1> QED
    BY <1>1, Inductive, PTL

\* No publication leaves the host once a cancellation is recorded (_submit_locked
\* checks the intent, cancel records it before it does anything else).
THEOREM CancelCorrect == Spec => NoPublicationAfterCancel
  <1>1. IInv /\ [Next]_vars => [sent' > sent => ~journal.cancel]_vars
    <2> SUFFICES ASSUME IInv, [Next]_vars, sent' # sent PROVE ~journal.cancel
      BY DEF IInv, Typed
    <2>1. op.pc = "sending"
      BY DEF vars, Next, Calls, OpStep, AckStep, EndpointStep, Faulty, Outside, Submit, Call, SubmitKnown,
        SubmitDoubtful, SubmitFresh, Publish, Send, SendUnsure, SendRefused, RecordFailure, Attach, Attached,
        Status, Cancel, CancelIntended, Ask, AskUnsure, AcceptTerminal, RecordProgress, Resume, Abandon,
        AckBegin, AckSend, AckRecord, AckLost, WaitRead, WaitWrite, Flight, Work, SubmitInvalid
    <2> QED
      BY <2>1 DEF IInv, Parts, Uncancelled
  <1> QED
    BY <1>1, Inductive, PTL DEF Spec, NoPublicationAfterCancel

\* What a step does to the three things the abstract specification speaks of.
Kept == journal'.retained = journal.retained
Settled == remote.state \in Outcomes => remote'.state = remote.state

\* A step lets the endpoint proceed, retains its result, or releases it.
LEMMA Effects ==
  ASSUME IInv, [Next]_vars
  PROVE  /\ Settled
         /\ \/ Kept /\ remote'.released = remote.released
            \/ UNCHANGED remote /\ ~journal.retained /\ journal'.retained
            \/ Kept /\ journal.retained /\ remote'.released /\ remote'.state = remote.state
  <1> USE DEF Kept, Settled
  <1>e. ASSUME NEW s, Enter(s) PROVE Kept
    BY <1>e DEF Enter, IInv, Typed, Journaled, JournalRow
  <1>0. CASE UNCHANGED vars
    BY <1>0 DEF vars
  <1>1. ASSUME NEW retry \in BOOLEAN, Submit(retry) PROVE Kept /\ UNCHANGED remote
    BY <1>1 DEF Submit, Call
  <1>2. ASSUME NEW name \in {"status", "cancel"}, Call(name, FALSE) PROVE Kept /\ UNCHANGED remote
    BY <1>2 DEF Call
  <1>3. CASE SubmitKnown
    BY <1>3 DEF SubmitKnown, Outside, IInv, Typed
  <1>4. CASE SubmitFresh
    BY <1>4 DEF SubmitFresh, Outside, IInv, Typed
  <1>5. CASE Status
    BY <1>5 DEF Status, Outside, IInv, Typed
  <1>6. CASE WaitRead
    BY <1>6 DEF WaitRead, Outside, IInv, Typed
  <1>7. CASE Abandon
    BY <1>7 DEF Abandon, Outside, IInv, Typed
  <1>8. CASE Attach
    BY <1>8 DEF Attach, Journaled, JournalRow, Outside, IInv, Typed
  <1>9. CASE Cancel
    BY <1>9 DEF Cancel, Journaled, JournalRow, Outside, IInv, Typed
  <1>10. CASE Resume
    BY <1>10 DEF Resume, Journaled, JournalRow, Outside, IInv, Typed
  <1>11. CASE SubmitInvalid
    BY <1>11 DEF SubmitInvalid, Journaled, JournalRow, Outside, IInv, Typed
  <1>12. CASE SendRefused
    BY <1>12 DEF SendRefused, Journaled, JournalRow, Outside, IInv, Typed
  <1>13. CASE AckBegin
    BY <1>13 DEF AckBegin, Journaled, JournalRow, Outside, IInv, Typed
  <1>14. CASE AckRecord
    BY <1>14 DEF AckRecord, Journaled, JournalRow, Outside, IInv, Typed
  <1>15. CASE SubmitDoubtful
    BY <1>15, <1>e DEF SubmitDoubtful, Outside, IInv, Typed
  <1>16. CASE Publish
    BY <1>16, <1>e DEF Publish, Outside, IInv, Typed
  <1>17. CASE RecordFailure
    BY <1>17, <1>e DEF RecordFailure, Outside, IInv, Typed
  <1>18. CASE Attached
    BY <1>18, <1>e DEF Attached, Outside, IInv, Typed
  <1>19. CASE CancelIntended
    BY <1>19, <1>e DEF CancelIntended, Outside, IInv, Typed
  <1>20. CASE RecordProgress
    BY <1>20, <1>e DEF RecordProgress, EnterOrRaise, Outside, IInv, Typed
  <1>21. CASE WaitWrite
    BY <1>21, <1>e DEF WaitWrite, EnterOrRaise, Outside, IInv, Typed
  <1>22. CASE AcceptTerminal
    BY <1>22
      DEF AcceptTerminal, Acceptance, Journaled, JournalRow, Parts, Observed, Opening, Outside, IInv,
          Typed
  <1>23. CASE Send
    BY <1>23 DEF Send, Landed, RemoteRow, Outcomes, Outside, IInv, Typed
  <1>24. CASE SendUnsure
    BY <1>24 DEF SendUnsure, RemoteRow, Outside, IInv, Typed
  <1>25. CASE Ask
    BY <1>25 DEF Ask, RemoteRow, Outcomes, Progress, Outside, IInv, Typed
  <1>26. CASE AskUnsure
    BY <1>26 DEF AskUnsure, RemoteRow, Outside, IInv, Typed
  <1>27. CASE AckSend
    BY <1>27 DEF AckSend, RemoteRow, Parts, Retention, Outside, IInv, Typed
  <1>28. CASE AckLost
    BY <1>28 DEF AckLost, RemoteRow, Parts, Retention, Outside, IInv, Typed
  <1>29. CASE Flight
    BY <1>29 DEF Flight, Landed, RemoteRow, Outcomes, Outside, IInv, Typed
  <1>30. CASE Work
    BY <1>30 DEF Work, RemoteRow, Progress, Outcomes, Outside, IInv, Typed
  <1> QED
    BY <1>0, <1>1, <1>2, <1>3, <1>4, <1>5, <1>6, <1>7, <1>8, <1>9, <1>10, <1>11, <1>12, <1>13, <1>14,
       <1>15, <1>16, <1>17, <1>18, <1>19, <1>20, <1>21, <1>22, <1>23, <1>24, <1>25, <1>26, <1>27, <1>28,
       <1>29, <1>30
    DEF Next, Calls, OpStep, AckStep, EndpointStep, Faulty

\* The run implements RunOutcome: the result the endpoint reached is accepted once
\* and for good, and the endpoint is released only afterwards.
THEOREM KeepsPromiseCorrect == Spec => KeepsPromise
  <1> DEFINE result == IF remote.state \in Outcomes THEN remote.state ELSE "open"
             outcome == IF journal.retained THEN journal.state ELSE "open"
  <1>1. Init => Promise!Init
    BY DEF Init, Promise!Init, Outcomes
  <1>2. IInv /\ IInv' /\ [Next]_vars => [Promise!Next]_<<result, outcome, remote.released>>
    <2> SUFFICES ASSUME IInv, IInv', [Next]_vars
                 PROVE  [Promise!Next]_<<result, outcome, remote.released>>
      OBVIOUS
    <2>1. /\ journal.retained => journal.state = remote.state /\ remote.state \in Outcomes
          /\ journal'.retained => journal'.state = remote'.state /\ remote'.state \in Outcomes
          /\ remote.released => journal.retained
          /\ remote.released \in BOOLEAN /\ remote'.released \in BOOLEAN /\ "open" \notin Outcomes
      BY DEF IInv, Parts, Retention, Typed, RemoteRow, Outcomes
    <2>2. CASE Kept /\ remote'.released = remote.released
      BY <2>1, <2>2, Effects DEF Kept, Settled, Promise!Next, Promise!Reach
    <2>3. CASE UNCHANGED remote /\ ~journal.retained /\ journal'.retained
      BY <2>1, <2>3 DEF Promise!Next, Promise!Accept
    <2>4. CASE Kept /\ journal.retained /\ remote'.released /\ remote'.state = remote.state
      BY <2>1, <2>4 DEF Kept, Promise!Next, Promise!Release
    <2> QED
      BY <2>2, <2>3, <2>4, Effects
  <1> QED
    BY <1>1, <1>2, Inductive, PTL DEF Spec, KeepsPromise, Promise!Spec
=============================================================================
