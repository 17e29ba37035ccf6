------------------------ MODULE ProcessLock_proofs ------------------------
(***************************************************************************)
(* Proofs about the lock file, for every set of contenders, every choice   *)
(* of those that wait, and any number of mishaps.                          *)
(*                                                                         *)
(* Mutual exclusion rests on Guarded: where an open file cannot be         *)
(* removed, the file at the path is the one a contender inside has open,   *)
(* so no outstanding verdict can reach it.  That order is kept rests on    *)
(* Behind: who came after a waiter looks at the tickets (Looking) before   *)
(* it does anything else, finds the waiter's, and then goes round behind   *)
(* it (Rounds) as long as that ticket lies there.  Places and Histories    *)
(* say where the waiting loop is entered and left.                         *)
(***************************************************************************)
EXTENDS ProcessLock, TLAPS

\* Where a newcomer has yet to look at the tickets or has found one, and where a
\* waiter that is not at the head goes round.
Looking == {"tidy", "glance", "join"}
Rounds == {"write", "wait", "tidy", "glance"}

\* The file at the path is the one that is open.
Guarded == OpenPins => \A p \in Contenders : at[p].pc \in Opened => file.by = p /\ ~Gone

\* A contender is slow in the waiting loop and on the way out of it only.
Places ==
  \A p \in Contenders :
    /\ at[p].pc \in {"idle", "dead", "join"} => ~at[p].slow
    /\ at[p].pc \in {"write", "wait"} => at[p].slow

\* Nobody has come later than a contender that does not wait yet.
Histories ==
  \A w \in Contenders : ~at[w].slow \/ at[w].pc = "write" => later[w] = {}

\* How a later contender stands to a waiter before it.
Follows(p, w) ==
  \/ ~at[p].slow /\ at[p].pc \in Looking
  \/ at[p].slow /\ at[p].pc \in Rounds /\ (w \in ahead[p] \/ ticket[p] = "none")

\* Every later contender stands so, as long as the ticket of the waiter lies there.
Behind ==
  \A w, p \in Contenders :
    p \in later[w] /\ Waiting(w) /\ ticket[w] # "none" => p # w /\ Follows(p, w)

\* The inductive invariant.
IInv == TypeOK /\ Guarded /\ Places /\ Histories /\ Behind

\* It holds at first.
LEMMA InitInv == Init => IInv
  BY LockAssumption
     DEF Init, IInv, TypeOK, Guarded, Places, Histories, Behind, Fresh, NoFile, PCs, Opened,
         Tickets, Waiting

\* One lemma for each step; first those of the tickets, then those of the file.
LEMMA BeginInv ==
  ASSUME IInv, NEW p \in Contenders, Begin(p)
  PROVE  IInv'
  <1> USE DEF Fresh, Fault, Table
  <1>1. TypeOK /\ Guarded /\ Places /\ Histories /\ Behind
    BY DEF IInv
  <1>2. TypeOK'
    <2>1. faults' \in 0..MaxFaults
      BY <1>1, LockAssumption DEF TypeOK, Begin, Goto, Waiting
    <2>2. /\ ahead' \in [Contenders -> SUBSET Contenders]
          /\ named' \subseteq Tickets' /\ \A q \in Contenders : ahead'[q] \subseteq Tickets'
      BY <1>1 DEF TypeOK, Tickets, Begin, Goto, Waiting
    <2> QED
      BY <1>1, <2>1, <2>2 DEF TypeOK, PCs, Gone, Begin, Goto, Waiting
  <1>3. Guarded'
    BY <1>1, <1>2 DEF TypeOK, Guarded, Opened, Gone, Pinned, Begin, Goto, Waiting
  <1>4. Places'
    BY <1>1, <1>2 DEF TypeOK, Places, Begin, Goto, Waiting
  <1>5. Histories'
    BY <1>1, <1>2 DEF TypeOK, Places, Histories, Begin, Goto, Waiting
  <1>6. Behind'
    BY <1>1, <1>2
       DEF TypeOK, Places, Histories, Behind, Follows, Looking, Rounds, Waiting, Tickets,
           Begin, Goto
  <1> QED
    BY <1>2, <1>3, <1>4, <1>5, <1>6 DEF IInv

LEMMA TidyInv ==
  ASSUME IInv, NEW p \in Contenders, Tidy(p)
  PROVE  IInv'
  <1> USE DEF Fresh, Fault, Table
  <1>1. TypeOK /\ Guarded /\ Places /\ Histories /\ Behind
    BY DEF IInv
  <1>2. TypeOK'
    <2>1. faults' \in 0..MaxFaults
      BY <1>1, LockAssumption DEF TypeOK, Tidy, Goto
    <2>2. /\ ahead' \in [Contenders -> SUBSET Contenders]
          /\ named' \subseteq Tickets' /\ \A q \in Contenders : ahead'[q] \subseteq Tickets'
      BY <1>1 DEF TypeOK, Tickets, Tidy, Goto
    <2> QED
      BY <1>1, <2>1, <2>2 DEF TypeOK, PCs, Gone, Tidy, Goto
  <1>3. Guarded'
    BY <1>1, <1>2 DEF TypeOK, Guarded, Opened, Gone, Pinned, Tidy, Goto
  <1>4. Places'
    BY <1>1, <1>2 DEF TypeOK, Places, Tidy, Goto
  <1>5. Histories'
    BY <1>1, <1>2 DEF TypeOK, Places, Histories, Tidy, Goto
  <1>6. Behind'
    BY <1>1, <1>2
       DEF TypeOK, Places, Histories, Behind, Follows, Looking, Rounds, Waiting, Tickets,
           Tidy, Goto
  <1> QED
    BY <1>2, <1>3, <1>4, <1>5, <1>6 DEF IInv

LEMMA TidyDeniedInv ==
  ASSUME IInv, NEW p \in Contenders, TidyDenied(p)
  PROVE  IInv'
  <1> USE DEF Fresh, Fault, Table
  <1>1. TypeOK /\ Guarded /\ Places /\ Histories /\ Behind
    BY DEF IInv
  <1>2. TypeOK'
    <2>1. faults' \in 0..MaxFaults
      BY <1>1, LockAssumption DEF TypeOK, TidyDenied, Goto
    <2>2. /\ ahead' \in [Contenders -> SUBSET Contenders]
          /\ named' \subseteq Tickets' /\ \A q \in Contenders : ahead'[q] \subseteq Tickets'
      BY <1>1 DEF TypeOK, Tickets, TidyDenied, Goto
    <2>3. doomed' \in [Contenders -> SUBSET Contenders]
      <3>1. PICK w \in Contenders :
              doomed' = [doomed EXCEPT ![p] = {w} \cup {q \in Contenders : Removable(q)}]
        BY DEF TidyDenied, Tickets
      <3> QED
        BY <1>1, <3>1 DEF TypeOK
    <2> QED
      BY <1>1, <2>1, <2>2, <2>3 DEF TypeOK, PCs, Gone, TidyDenied, Goto
  <1>3. Guarded'
    BY <1>1, <1>2 DEF TypeOK, Guarded, Opened, Gone, Pinned, TidyDenied, Goto
  <1>4. Places'
    BY <1>1, <1>2 DEF TypeOK, Places, TidyDenied, Goto
  <1>5. Histories'
    BY <1>1, <1>2 DEF TypeOK, Places, Histories, TidyDenied, Goto
  <1>6. Behind'
    BY <1>1, <1>2
       DEF TypeOK, Places, Histories, Behind, Follows, Looking, Rounds, Waiting, Tickets,
           TidyDenied, Goto
  <1> QED
    BY <1>2, <1>3, <1>4, <1>5, <1>6 DEF IInv

LEMMA GlanceInv ==
  ASSUME IInv, NEW p \in Contenders, Glance(p)
  PROVE  IInv'
  <1> USE DEF Fresh, Fault, Table
  <1>1. TypeOK /\ Guarded /\ Places /\ Histories /\ Behind
    BY DEF IInv
  <1>2. TypeOK'
    <2>1. faults' \in 0..MaxFaults
      BY <1>1, LockAssumption DEF TypeOK, Glance, Goto, MayTry, AtHead, Tickets
    <2>2. /\ ahead' \in [Contenders -> SUBSET Contenders]
          /\ named' \subseteq Tickets' /\ \A q \in Contenders : ahead'[q] \subseteq Tickets'
      BY <1>1 DEF TypeOK, Tickets, Glance, Goto, MayTry, AtHead
    <2> QED
      BY <1>1, <2>1, <2>2 DEF TypeOK, PCs, Gone, Glance, Goto, MayTry, AtHead, Tickets
  <1>3. Guarded'
    BY <1>1, <1>2
       DEF TypeOK, Guarded, Opened, Gone, Pinned, Glance, Goto, MayTry, AtHead, Tickets
  <1>4. Places'
    BY <1>1, <1>2 DEF TypeOK, Places, Glance, Goto, MayTry, AtHead, Tickets
  <1>5. Histories'
    BY <1>1, <1>2 DEF TypeOK, Places, Histories, Glance, Goto, MayTry, AtHead, Tickets
  <1>6. Behind'
    BY <1>1, <1>2
       DEF TypeOK, Places, Histories, Behind, Follows, Looking, Rounds, Waiting, Tickets,
           Glance, Goto, MayTry, AtHead
  <1> QED
    BY <1>2, <1>3, <1>4, <1>5, <1>6 DEF IInv

LEMMA TurnAwayInv ==
  ASSUME IInv, NEW p \in Contenders, TurnAway(p)
  PROVE  IInv'
  <1> USE DEF Fresh, Fault, Table
  <1>1. TypeOK /\ Guarded /\ Places /\ Histories /\ Behind
    BY DEF IInv
  <1>2. TypeOK'
    <2>1. faults' \in 0..MaxFaults
      BY <1>1, LockAssumption DEF TypeOK, TurnAway, Leave, RemoveTicket, Without
    <2>2. /\ ahead' \in [Contenders -> SUBSET Contenders]
          /\ named' \subseteq Tickets' /\ \A q \in Contenders : ahead'[q] \subseteq Tickets'
      BY <1>1 DEF TypeOK, Tickets, TurnAway, Leave, RemoveTicket, Without
    <2> QED
      BY <1>1, <2>1, <2>2 DEF TypeOK, PCs, Gone, TurnAway, Leave, RemoveTicket, Without
  <1>3. Guarded'
    BY <1>1, <1>2
       DEF TypeOK, Guarded, Opened, Gone, Pinned, TurnAway, Leave, RemoveTicket, Without
  <1>4. Places'
    BY <1>1, <1>2 DEF TypeOK, Places, TurnAway, Leave, RemoveTicket, Without
  <1>5. Histories'
    BY <1>1, <1>2 DEF TypeOK, Places, Histories, TurnAway, Leave, RemoveTicket, Without
  <1>6. Behind'
    BY <1>1, <1>2
       DEF TypeOK, Places, Histories, Behind, Follows, Looking, Rounds, Waiting, Tickets,
           TurnAway, Leave, RemoveTicket, Without
  <1> QED
    BY <1>2, <1>3, <1>4, <1>5, <1>6 DEF IInv

LEMMA WriteTicketInv ==
  ASSUME IInv, NEW p \in Contenders, WriteTicket(p)
  PROVE  IInv'
  <1> USE DEF Fresh, Fault, Table
  <1>1. TypeOK /\ Guarded /\ Places /\ Histories /\ Behind
    BY DEF IInv
  <1>2. TypeOK'
    <2>1. faults' \in 0..MaxFaults
      BY <1>1, LockAssumption DEF TypeOK, WriteTicket, Goto
    <2>2. /\ ahead' \in [Contenders -> SUBSET Contenders]
          /\ named' \subseteq Tickets' /\ \A q \in Contenders : ahead'[q] \subseteq Tickets'
      BY <1>1 DEF TypeOK, Tickets, WriteTicket, Goto
    <2> QED
      BY <1>1, <2>1, <2>2 DEF TypeOK, PCs, Gone, WriteTicket, Goto
  <1>3. Guarded'
    BY <1>1, <1>2 DEF TypeOK, Guarded, Opened, Gone, Pinned, WriteTicket, Goto
  <1>4. Places'
    BY <1>1, <1>2 DEF TypeOK, Places, WriteTicket, Goto
  <1>5. Histories'
    BY <1>1, <1>2 DEF TypeOK, Places, Histories, WriteTicket, Goto
  <1>6. Behind'
    BY <1>1, <1>2
       DEF TypeOK, Places, Histories, Behind, Follows, Looking, Rounds, Waiting, Tickets,
           WriteTicket, Goto
  <1> QED
    BY <1>2, <1>3, <1>4, <1>5, <1>6 DEF IInv

LEMMA WakeInv ==
  ASSUME IInv, NEW p \in Contenders, Wake(p)
  PROVE  IInv'
  <1> USE DEF Fresh, Fault, Table
  <1>1. TypeOK /\ Guarded /\ Places /\ Histories /\ Behind
    BY DEF IInv
  <1>2. TypeOK'
    <2>1. faults' \in 0..MaxFaults
      BY <1>1, LockAssumption DEF TypeOK, Wake, Goto
    <2>2. /\ ahead' \in [Contenders -> SUBSET Contenders]
          /\ named' \subseteq Tickets' /\ \A q \in Contenders : ahead'[q] \subseteq Tickets'
      BY <1>1 DEF TypeOK, Tickets, Wake, Goto
    <2> QED
      BY <1>1, <2>1, <2>2 DEF TypeOK, PCs, Gone, Wake, Goto
  <1>3. Guarded'
    BY <1>1, <1>2 DEF TypeOK, Guarded, Opened, Gone, Pinned, Wake, Goto
  <1>4. Places'
    BY <1>1, <1>2 DEF TypeOK, Places, Wake, Goto
  <1>5. Histories'
    BY <1>1, <1>2 DEF TypeOK, Places, Histories, Wake, Goto
  <1>6. Behind'
    BY <1>1, <1>2
       DEF TypeOK, Places, Histories, Behind, Follows, Looking, Rounds, Waiting, Tickets,
           Wake, Goto
  <1> QED
    BY <1>2, <1>3, <1>4, <1>5, <1>6 DEF IInv

LEMMA CreateInv ==
  ASSUME IInv, NEW p \in Contenders, Create(p)
  PROVE  IInv'
  <1> USE DEF Fresh, Fault, Table
  <1>1. TypeOK /\ Guarded /\ Places /\ Histories /\ Behind
    BY DEF IInv
  <1>2. TypeOK'
    <2>1. faults' \in 0..MaxFaults
      BY <1>1, LockAssumption DEF TypeOK, Create, Goto, File, RemoveTicket, Without
    <2>2. /\ ahead' \in [Contenders -> SUBSET Contenders]
          /\ named' \subseteq Tickets' /\ \A q \in Contenders : ahead'[q] \subseteq Tickets'
      BY <1>1 DEF TypeOK, Tickets, Create, Goto, File, RemoveTicket, Without
    <2> QED
      BY <1>1, <2>1, <2>2 DEF TypeOK, PCs, Gone, Create, Goto, File, RemoveTicket, Without
  <1>3. Guarded'
    BY <1>1, <1>2
       DEF TypeOK, Guarded, Opened, Gone, Pinned, Create, Goto, File, RemoveTicket, Without
  <1>4. Places'
    BY <1>1, <1>2 DEF TypeOK, Places, Create, Goto, File, RemoveTicket, Without
  <1>5. Histories'
    BY <1>1, <1>2 DEF TypeOK, Places, Histories, Create, Goto, File, RemoveTicket, Without
  <1>6. Behind'
    BY <1>1, <1>2
       DEF TypeOK, Places, Histories, Behind, Follows, Looking, Rounds, Waiting, Tickets,
           Create, Goto, File, RemoveTicket, Without
  <1> QED
    BY <1>2, <1>3, <1>4, <1>5, <1>6 DEF IInv

LEMMA CollideInv ==
  ASSUME IInv, NEW p \in Contenders, Collide(p)
  PROVE  IInv'
  <1> USE DEF Fresh, Fault, Table
  <1>1. TypeOK /\ Guarded /\ Places /\ Histories /\ Behind
    BY DEF IInv
  <1>2. TypeOK'
    <2>1. faults' \in 0..MaxFaults
      BY <1>1, LockAssumption DEF TypeOK, Collide, Goto
    <2>2. /\ ahead' \in [Contenders -> SUBSET Contenders]
          /\ named' \subseteq Tickets' /\ \A q \in Contenders : ahead'[q] \subseteq Tickets'
      BY <1>1 DEF TypeOK, Tickets, Collide, Goto
    <2> QED
      BY <1>1, <2>1, <2>2 DEF TypeOK, PCs, Gone, Collide, Goto
  <1>3. Guarded'
    BY <1>1, <1>2 DEF TypeOK, Guarded, Opened, Gone, Pinned, Collide, Goto
  <1>4. Places'
    BY <1>1, <1>2 DEF TypeOK, Places, Collide, Goto
  <1>5. Histories'
    BY <1>1, <1>2 DEF TypeOK, Places, Histories, Collide, Goto
  <1>6. Behind'
    BY <1>1, <1>2
       DEF TypeOK, Places, Histories, Behind, Follows, Looking, Rounds, Waiting, Tickets,
           Collide, Goto
  <1> QED
    BY <1>2, <1>3, <1>4, <1>5, <1>6 DEF IInv

LEMMA ReadPidInv ==
  ASSUME IInv, NEW p \in Contenders, ReadPid(p)
  PROVE  IInv'
  <1> USE DEF Fresh, Fault, Table
  <1>1. TypeOK /\ Guarded /\ Places /\ Histories /\ Behind
    BY DEF IInv
  <1>2. TypeOK'
    <2>1. faults' \in 0..MaxFaults
      BY <1>1, LockAssumption DEF TypeOK, ReadPid, Goto
    <2>2. /\ ahead' \in [Contenders -> SUBSET Contenders]
          /\ named' \subseteq Tickets' /\ \A q \in Contenders : ahead'[q] \subseteq Tickets'
      BY <1>1 DEF TypeOK, Tickets, ReadPid, Goto
    <2> QED
      BY <1>1, <2>1, <2>2 DEF TypeOK, PCs, Gone, ReadPid, Goto
  <1>3. Guarded'
    BY <1>1, <1>2 DEF TypeOK, Guarded, Opened, Gone, Pinned, ReadPid, Goto
  <1>4. Places'
    BY <1>1, <1>2 DEF TypeOK, Places, ReadPid, Goto
  <1>5. Histories'
    BY <1>1, <1>2 DEF TypeOK, Places, Histories, ReadPid, Goto
  <1>6. Behind'
    BY <1>1, <1>2
       DEF TypeOK, Places, Histories, Behind, Follows, Looking, Rounds, Waiting, Tickets,
           ReadPid, Goto
  <1> QED
    BY <1>2, <1>3, <1>4, <1>5, <1>6 DEF IInv

LEMMA ReadOwnerInv ==
  ASSUME IInv, NEW p \in Contenders, ReadOwner(p)
  PROVE  IInv'
  <1> USE DEF Fresh, Fault, Table
  <1>1. TypeOK /\ Guarded /\ Places /\ Histories /\ Behind
    BY DEF IInv
  <1>2. TypeOK'
    <2>1. faults' \in 0..MaxFaults
      BY <1>1, LockAssumption DEF TypeOK, ReadOwner, Goto, Verdict
    <2>2. /\ ahead' \in [Contenders -> SUBSET Contenders]
          /\ named' \subseteq Tickets' /\ \A q \in Contenders : ahead'[q] \subseteq Tickets'
      BY <1>1 DEF TypeOK, Tickets, ReadOwner, Goto, Verdict
    <2> QED
      BY <1>1, <2>1, <2>2 DEF TypeOK, PCs, Gone, ReadOwner, Goto, Verdict
  <1>3. Guarded'
    BY <1>1, <1>2 DEF TypeOK, Guarded, Opened, Gone, Pinned, ReadOwner, Goto, Verdict
  <1>4. Places'
    BY <1>1, <1>2 DEF TypeOK, Places, ReadOwner, Goto, Verdict
  <1>5. Histories'
    BY <1>1, <1>2 DEF TypeOK, Places, Histories, ReadOwner, Goto, Verdict
  <1>6. Behind'
    BY <1>1, <1>2
       DEF TypeOK, Places, Histories, Behind, Follows, Looking, Rounds, Waiting, Tickets,
           ReadOwner, Goto, Verdict
  <1> QED
    BY <1>2, <1>3, <1>4, <1>5, <1>6 DEF IInv

LEMMA ReadAgeInv ==
  ASSUME IInv, NEW p \in Contenders, ReadAge(p)
  PROVE  IInv'
  <1> USE DEF Fresh, Fault, Table
  <1>1. TypeOK /\ Guarded /\ Places /\ Histories /\ Behind
    BY DEF IInv
  <1>2. TypeOK'
    <2>1. faults' \in 0..MaxFaults
      BY <1>1, LockAssumption DEF TypeOK, ReadAge, Goto, Verdict
    <2>2. /\ ahead' \in [Contenders -> SUBSET Contenders]
          /\ named' \subseteq Tickets' /\ \A q \in Contenders : ahead'[q] \subseteq Tickets'
      BY <1>1 DEF TypeOK, Tickets, ReadAge, Goto, Verdict
    <2> QED
      BY <1>1, <2>1, <2>2 DEF TypeOK, PCs, Gone, ReadAge, Goto, Verdict
  <1>3. Guarded'
    BY <1>1, <1>2 DEF TypeOK, Guarded, Opened, Gone, Pinned, ReadAge, Goto, Verdict
  <1>4. Places'
    BY <1>1, <1>2 DEF TypeOK, Places, ReadAge, Goto, Verdict
  <1>5. Histories'
    BY <1>1, <1>2 DEF TypeOK, Places, Histories, ReadAge, Goto, Verdict
  <1>6. Behind'
    BY <1>1, <1>2
       DEF TypeOK, Places, Histories, Behind, Follows, Looking, Rounds, Waiting, Tickets,
           ReadAge, Goto, Verdict
  <1> QED
    BY <1>2, <1>3, <1>4, <1>5, <1>6 DEF IInv

LEMMA StampInv ==
  ASSUME IInv, NEW p \in Contenders, Stamp(p)
  PROVE  IInv'
  <1> USE DEF Fresh, Fault, Table
  <1>1. TypeOK /\ Guarded /\ Places /\ Histories /\ Behind
    BY DEF IInv
  <1>2. TypeOK'
    <2>1. faults' \in 0..MaxFaults
      BY <1>1, LockAssumption DEF TypeOK, Stamp, Goto, File
    <2>2. /\ ahead' \in [Contenders -> SUBSET Contenders]
          /\ named' \subseteq Tickets' /\ \A q \in Contenders : ahead'[q] \subseteq Tickets'
      BY <1>1 DEF TypeOK, Tickets, Stamp, Goto, File
    <2> QED
      BY <1>1, <2>1, <2>2 DEF TypeOK, PCs, Gone, Stamp, Goto, File
  <1>3. Guarded'
    BY <1>1, <1>2 DEF TypeOK, Guarded, Opened, Gone, Pinned, Stamp, Goto, File
  <1>4. Places'
    BY <1>1, <1>2 DEF TypeOK, Places, Stamp, Goto, File
  <1>5. Histories'
    BY <1>1, <1>2 DEF TypeOK, Places, Histories, Stamp, Goto, File
  <1>6. Behind'
    BY <1>1, <1>2
       DEF TypeOK, Places, Histories, Behind, Follows, Looking, Rounds, Waiting, Tickets,
           Stamp, Goto, File
  <1> QED
    BY <1>2, <1>3, <1>4, <1>5, <1>6 DEF IInv

LEMMA DiscardInv ==
  ASSUME IInv, NEW p \in Contenders, Discard(p)
  PROVE  IInv'
  <1> USE DEF Fresh, Fault, Table
  <1>1. TypeOK /\ Guarded /\ Places /\ Histories /\ Behind
    BY DEF IInv
  <1>2. TypeOK'
    <2>1. faults' \in 0..MaxFaults
      BY <1>1, LockAssumption DEF TypeOK, Discard, Leave, RemoveTicket, Without, NoFile
    <2>2. /\ ahead' \in [Contenders -> SUBSET Contenders]
          /\ named' \subseteq Tickets' /\ \A q \in Contenders : ahead'[q] \subseteq Tickets'
      BY <1>1 DEF TypeOK, Tickets, Discard, Leave, RemoveTicket, Without, NoFile
    <2> QED
      BY <1>1, <2>1, <2>2 DEF TypeOK, PCs, Gone, Discard, Leave, RemoveTicket, Without, NoFile
  <1>3. Guarded'
    BY <1>1, <1>2
       DEF TypeOK, Guarded, Opened, Gone, Pinned, Discard, Leave, RemoveTicket, Without,
           NoFile
  <1>4. Places'
    BY <1>1, <1>2 DEF TypeOK, Places, Discard, Leave, RemoveTicket, Without, NoFile
  <1>5. Histories'
    BY <1>1, <1>2 DEF TypeOK, Places, Histories, Discard, Leave, RemoveTicket, Without, NoFile
  <1>6. Behind'
    BY <1>1, <1>2
       DEF TypeOK, Places, Histories, Behind, Follows, Looking, Rounds, Waiting, Tickets,
           Discard, Leave, RemoveTicket, Without, NoFile
  <1> QED
    BY <1>2, <1>3, <1>4, <1>5, <1>6 DEF IInv

LEMMA CloseInv ==
  ASSUME IInv, NEW p \in Contenders, Close(p)
  PROVE  IInv'
  <1> USE DEF Fresh, Fault, Table
  <1>1. TypeOK /\ Guarded /\ Places /\ Histories /\ Behind
    BY DEF IInv
  <1>2. TypeOK'
    <2>1. faults' \in 0..MaxFaults
      BY <1>1, LockAssumption DEF TypeOK, Close, Goto
    <2>2. /\ ahead' \in [Contenders -> SUBSET Contenders]
          /\ named' \subseteq Tickets' /\ \A q \in Contenders : ahead'[q] \subseteq Tickets'
      BY <1>1 DEF TypeOK, Tickets, Close, Goto
    <2> QED
      BY <1>1, <2>1, <2>2 DEF TypeOK, PCs, Gone, Close, Goto
  <1>3. Guarded'
    BY <1>1, <1>2 DEF TypeOK, Guarded, Opened, Gone, Pinned, Close, Goto
  <1>4. Places'
    BY <1>1, <1>2 DEF TypeOK, Places, Close, Goto
  <1>5. Histories'
    BY <1>1, <1>2 DEF TypeOK, Places, Histories, Close, Goto
  <1>6. Behind'
    BY <1>1, <1>2
       DEF TypeOK, Places, Histories, Behind, Follows, Looking, Rounds, Waiting, Tickets,
           Close, Goto
  <1> QED
    BY <1>2, <1>3, <1>4, <1>5, <1>6 DEF IInv

LEMMA ReleaseInv ==
  ASSUME IInv, NEW p \in Contenders, Release(p)
  PROVE  IInv'
  <1> USE DEF Fresh, Fault, Table
  <1>1. TypeOK /\ Guarded /\ Places /\ Histories /\ Behind
    BY DEF IInv
  <1>2. TypeOK'
    <2>1. faults' \in 0..MaxFaults
      BY <1>1, LockAssumption DEF TypeOK, Release, Leave, RemoveTicket, Without, NoFile
    <2>2. /\ ahead' \in [Contenders -> SUBSET Contenders]
          /\ named' \subseteq Tickets' /\ \A q \in Contenders : ahead'[q] \subseteq Tickets'
      BY <1>1 DEF TypeOK, Tickets, Release, Leave, RemoveTicket, Without, NoFile
    <2> QED
      BY <1>1, <2>1, <2>2 DEF TypeOK, PCs, Gone, Release, Leave, RemoveTicket, Without, NoFile
  <1>3. Guarded'
    BY <1>1, <1>2
       DEF TypeOK, Guarded, Opened, Gone, Pinned, Release, Leave, RemoveTicket, Without,
           NoFile
  <1>4. Places'
    BY <1>1, <1>2 DEF TypeOK, Places, Release, Leave, RemoveTicket, Without, NoFile
  <1>5. Histories'
    BY <1>1, <1>2 DEF TypeOK, Places, Histories, Release, Leave, RemoveTicket, Without, NoFile
  <1>6. Behind'
    BY <1>1, <1>2
       DEF TypeOK, Places, Histories, Behind, Follows, Looking, Rounds, Waiting, Tickets,
           Release, Leave, RemoveTicket, Without, NoFile
  <1> QED
    BY <1>2, <1>3, <1>4, <1>5, <1>6 DEF IInv

LEMMA TimeOutInv ==
  ASSUME IInv, NEW p \in Contenders, TimeOut(p)
  PROVE  IInv'
  <1> USE DEF Fresh, Fault, Table
  <1>1. TypeOK /\ Guarded /\ Places /\ Histories /\ Behind
    BY DEF IInv
  <1>2. TypeOK'
    <2>1. faults' \in 0..MaxFaults
      BY <1>1, LockAssumption DEF TypeOK, TimeOut, Leave, RemoveTicket, Without
    <2>2. /\ ahead' \in [Contenders -> SUBSET Contenders]
          /\ named' \subseteq Tickets' /\ \A q \in Contenders : ahead'[q] \subseteq Tickets'
      BY <1>1 DEF TypeOK, Tickets, TimeOut, Leave, RemoveTicket, Without
    <2> QED
      BY <1>1, <2>1, <2>2 DEF TypeOK, PCs, Gone, TimeOut, Leave, RemoveTicket, Without
  <1>3. Guarded'
    BY <1>1, <1>2
       DEF TypeOK, Guarded, Opened, Gone, Pinned, TimeOut, Leave, RemoveTicket, Without
  <1>4. Places'
    BY <1>1, <1>2 DEF TypeOK, Places, TimeOut, Leave, RemoveTicket, Without
  <1>5. Histories'
    BY <1>1, <1>2 DEF TypeOK, Places, Histories, TimeOut, Leave, RemoveTicket, Without
  <1>6. Behind'
    BY <1>1, <1>2
       DEF TypeOK, Places, Histories, Behind, Follows, Looking, Rounds, Waiting, Tickets,
           TimeOut, Leave, RemoveTicket, Without
  <1> QED
    BY <1>2, <1>3, <1>4, <1>5, <1>6 DEF IInv

LEMMA StallInv ==
  ASSUME IInv, NEW p \in Contenders, Stall(p)
  PROVE  IInv'
  <1> USE DEF Fresh, Fault, Table
  <1>1. TypeOK /\ Guarded /\ Places /\ Histories /\ Behind
    BY DEF IInv
  <1>2. TypeOK'
    <2>1. faults' \in 0..MaxFaults
      BY <1>1, LockAssumption DEF TypeOK, Stall, Waiting
    <2>2. /\ ahead' \in [Contenders -> SUBSET Contenders]
          /\ named' \subseteq Tickets' /\ \A q \in Contenders : ahead'[q] \subseteq Tickets'
      BY <1>1 DEF TypeOK, Tickets, Stall, Waiting
    <2> QED
      BY <1>1, <2>1, <2>2 DEF TypeOK, PCs, Gone, Stall, Waiting
  <1>3. Guarded'
    BY <1>1, <1>2 DEF TypeOK, Guarded, Opened, Gone, Pinned, Stall, Waiting
  <1>4. Places'
    BY <1>1, <1>2 DEF TypeOK, Places, Stall, Waiting
  <1>5. Histories'
    BY <1>1, <1>2 DEF TypeOK, Places, Histories, Stall, Waiting
  <1>6. Behind'
    BY <1>1, <1>2
       DEF TypeOK, Places, Histories, Behind, Follows, Looking, Rounds, Waiting, Tickets,
           Stall
  <1> QED
    BY <1>2, <1>3, <1>4, <1>5, <1>6 DEF IInv

LEMMA ProbeDeniedInv ==
  ASSUME IInv, NEW p \in Contenders, ProbeDenied(p)
  PROVE  IInv'
  <1> USE DEF Fresh, Fault, Table
  <1>1. TypeOK /\ Guarded /\ Places /\ Histories /\ Behind
    BY DEF IInv
  <1>2. TypeOK'
    <2>1. faults' \in 0..MaxFaults
      BY <1>1, LockAssumption DEF TypeOK, ProbeDenied, Goto, Verdict
    <2>2. /\ ahead' \in [Contenders -> SUBSET Contenders]
          /\ named' \subseteq Tickets' /\ \A q \in Contenders : ahead'[q] \subseteq Tickets'
      BY <1>1 DEF TypeOK, Tickets, ProbeDenied, Goto, Verdict
    <2> QED
      BY <1>1, <2>1, <2>2 DEF TypeOK, PCs, Gone, ProbeDenied, Goto, Verdict
  <1>3. Guarded'
    BY <1>1, <1>2 DEF TypeOK, Guarded, Opened, Gone, Pinned, ProbeDenied, Goto, Verdict
  <1>4. Places'
    BY <1>1, <1>2 DEF TypeOK, Places, ProbeDenied, Goto, Verdict
  <1>5. Histories'
    BY <1>1, <1>2 DEF TypeOK, Places, Histories, ProbeDenied, Goto, Verdict
  <1>6. Behind'
    BY <1>1, <1>2
       DEF TypeOK, Places, Histories, Behind, Follows, Looking, Rounds, Waiting, Tickets,
           ProbeDenied, Goto, Verdict
  <1> QED
    BY <1>2, <1>3, <1>4, <1>5, <1>6 DEF IInv

LEMMA StampFailsInv ==
  ASSUME IInv, NEW p \in Contenders, StampFails(p)
  PROVE  IInv'
  <1> USE DEF Fresh, Fault, Table
  <1>1. TypeOK /\ Guarded /\ Places /\ Histories /\ Behind
    BY DEF IInv
  <1>2. TypeOK'
    <2>1. faults' \in 0..MaxFaults
      BY <1>1, LockAssumption DEF TypeOK, StampFails, Goto
    <2>2. /\ ahead' \in [Contenders -> SUBSET Contenders]
          /\ named' \subseteq Tickets' /\ \A q \in Contenders : ahead'[q] \subseteq Tickets'
      BY <1>1 DEF TypeOK, Tickets, StampFails, Goto
    <2> QED
      BY <1>1, <2>1, <2>2 DEF TypeOK, PCs, Gone, StampFails, Goto
  <1>3. Guarded'
    BY <1>1, <1>2 DEF TypeOK, Guarded, Opened, Gone, Pinned, StampFails, Goto
  <1>4. Places'
    BY <1>1, <1>2 DEF TypeOK, Places, StampFails, Goto
  <1>5. Histories'
    BY <1>1, <1>2 DEF TypeOK, Places, Histories, StampFails, Goto
  <1>6. Behind'
    BY <1>1, <1>2
       DEF TypeOK, Places, Histories, Behind, Follows, Looking, Rounds, Waiting, Tickets,
           StampFails, Goto
  <1> QED
    BY <1>2, <1>3, <1>4, <1>5, <1>6 DEF IInv

LEMMA MarkInv ==
  ASSUME IInv, NEW p \in Contenders, Mark(p)
  PROVE  IInv'
  <1> USE DEF Fresh, Fault, Table
  <1>1. TypeOK /\ Guarded /\ Places /\ Histories /\ Behind
    BY DEF IInv
  <1>2. TypeOK'
    <2>1. faults' \in 0..MaxFaults
      BY <1>1, LockAssumption DEF TypeOK, Mark, Leave, RemoveTicket, Without, Marked, File
    <2>2. /\ ahead' \in [Contenders -> SUBSET Contenders]
          /\ named' \subseteq Tickets' /\ \A q \in Contenders : ahead'[q] \subseteq Tickets'
      BY <1>1 DEF TypeOK, Tickets, Mark, Leave, RemoveTicket, Without, Marked, File
    <2> QED
      BY <1>1, <2>1, <2>2
         DEF TypeOK, PCs, Gone, Mark, Leave, RemoveTicket, Without, Marked, File
  <1>3. Guarded'
    BY <1>1, <1>2
       DEF TypeOK, Guarded, Opened, Gone, Pinned, Mark, Leave, RemoveTicket, Without, Marked,
           File
  <1>4. Places'
    BY <1>1, <1>2 DEF TypeOK, Places, Mark, Leave, RemoveTicket, Without, Marked, File
  <1>5. Histories'
    BY <1>1, <1>2
       DEF TypeOK, Places, Histories, Mark, Leave, RemoveTicket, Without, Marked, File
  <1>6. Behind'
    BY <1>1, <1>2
       DEF TypeOK, Places, Histories, Behind, Follows, Looking, Rounds, Waiting, Tickets,
           Mark, Leave, RemoveTicket, Without, Marked, File
  <1> QED
    BY <1>2, <1>3, <1>4, <1>5, <1>6 DEF IInv

LEMMA GiveUpInv ==
  ASSUME IInv, NEW p \in Contenders, GiveUp(p)
  PROVE  IInv'
  <1> USE DEF Fresh, Fault, Table
  <1>1. TypeOK /\ Guarded /\ Places /\ Histories /\ Behind
    BY DEF IInv
  <1>2. TypeOK'
    <2>1. faults' \in 0..MaxFaults
      BY <1>1, LockAssumption DEF TypeOK, GiveUp, Leave, RemoveTicket, Without
    <2>2. /\ ahead' \in [Contenders -> SUBSET Contenders]
          /\ named' \subseteq Tickets' /\ \A q \in Contenders : ahead'[q] \subseteq Tickets'
      BY <1>1 DEF TypeOK, Tickets, GiveUp, Leave, RemoveTicket, Without
    <2> QED
      BY <1>1, <2>1, <2>2 DEF TypeOK, PCs, Gone, GiveUp, Leave, RemoveTicket, Without
  <1>3. Guarded'
    BY <1>1, <1>2
       DEF TypeOK, Guarded, Opened, Gone, Pinned, GiveUp, Leave, RemoveTicket, Without
  <1>4. Places'
    BY <1>1, <1>2 DEF TypeOK, Places, GiveUp, Leave, RemoveTicket, Without
  <1>5. Histories'
    BY <1>1, <1>2 DEF TypeOK, Places, Histories, GiveUp, Leave, RemoveTicket, Without
  <1>6. Behind'
    BY <1>1, <1>2
       DEF TypeOK, Places, Histories, Behind, Follows, Looking, Rounds, Waiting, Tickets,
           GiveUp, Leave, RemoveTicket, Without
  <1> QED
    BY <1>2, <1>3, <1>4, <1>5, <1>6 DEF IInv

LEMMA DieInv ==
  ASSUME IInv, NEW p \in Contenders, Die(p)
  PROVE  IInv'
  <1> USE DEF Fresh, Fault, Table
  <1>1. TypeOK /\ Guarded /\ Places /\ Histories /\ Behind
    BY DEF IInv
  <1>2. TypeOK'
    <2>1. faults' \in 0..MaxFaults
      BY <1>1, LockAssumption DEF TypeOK, Die, Without
    <2>2. /\ ahead' \in [Contenders -> SUBSET Contenders]
          /\ named' \subseteq Tickets' /\ \A q \in Contenders : ahead'[q] \subseteq Tickets'
      BY <1>1 DEF TypeOK, Tickets, Die, Without
    <2> QED
      BY <1>1, <2>1, <2>2 DEF TypeOK, PCs, Gone, Die, Without
  <1>3. Guarded'
    BY <1>1, <1>2 DEF TypeOK, Guarded, Opened, Gone, Pinned, Die, Without
  <1>4. Places'
    BY <1>1, <1>2 DEF TypeOK, Places, Die, Without
  <1>5. Histories'
    BY <1>1, <1>2 DEF TypeOK, Places, Histories, Die, Without
  <1>6. Behind'
    BY <1>1, <1>2
       DEF TypeOK, Places, Histories, Behind, Follows, Looking, Rounds, Waiting, Tickets,
           Die, Without
  <1> QED
    BY <1>2, <1>3, <1>4, <1>5, <1>6 DEF IInv

\* A contender leaves and the file stays.
LEMMA LeaveInv ==
  ASSUME IInv, NEW p \in Contenders, Leave(p), file' = file, faults' \in 0..MaxFaults
  PROVE  IInv'
  <1> USE DEF Fresh, Fault, Table
  <1>1. TypeOK /\ Guarded /\ Places /\ Histories /\ Behind
    BY DEF IInv
  <1>2. TypeOK'
    <2>1. faults' \in 0..MaxFaults
      BY <1>1, LockAssumption DEF TypeOK, Leave, RemoveTicket, Without
    <2>2. /\ ahead' \in [Contenders -> SUBSET Contenders]
          /\ named' \subseteq Tickets' /\ \A q \in Contenders : ahead'[q] \subseteq Tickets'
      BY <1>1 DEF TypeOK, Tickets, Leave, RemoveTicket, Without
    <2> QED
      BY <1>1, <2>1, <2>2 DEF TypeOK, PCs, Gone, Leave, RemoveTicket, Without
  <1>3. Guarded'
    BY <1>1, <1>2 DEF TypeOK, Guarded, Opened, Gone, Pinned, Leave, RemoveTicket, Without
  <1>4. Places'
    BY <1>1, <1>2 DEF TypeOK, Places, Leave, RemoveTicket, Without
  <1>5. Histories'
    BY <1>1, <1>2 DEF TypeOK, Places, Histories, Leave, RemoveTicket, Without
  <1>6. Behind'
    BY <1>1, <1>2
       DEF TypeOK, Places, Histories, Behind, Follows, Looking, Rounds, Waiting, Tickets,
           Leave, RemoveTicket, Without
  <1> QED
    BY <1>2, <1>3, <1>4, <1>5, <1>6 DEF IInv

\* A ticket is removed.
LEMMA SweepOutInv ==
  ASSUME IInv, NEW p \in Contenders, NEW w \in Contenders, Sweep(p, w), ~(OpenPins /\
         at[w].pc = "write")
  PROVE  IInv'
  <1> USE DEF Fresh, Fault, Table
  <1>1. TypeOK /\ Guarded /\ Places /\ Histories /\ Behind
    BY DEF IInv
  <1>0. /\ UNCHANGED <<file, at, later, faults>>
        /\ ticket' = [ticket EXCEPT ![w] = "none"] /\ named' = named \ {w}
        /\ \A q \in Contenders : ahead'[q] = IF q = w THEN {} ELSE ahead[q] \ {w}
        /\ ahead' \in [Contenders -> SUBSET Contenders]
        /\ doomed' \in [Contenders -> SUBSET Contenders]
    <2>1. RemoveTicket(w) /\ doomed' = Without(doomed, w) /\ UNCHANGED <<file, at, later, faults>>
      BY DEF Sweep
    <2>2. doomed' \in [Contenders -> SUBSET Contenders]
      BY <1>1, <2>1 DEF TypeOK, Without
    <2> QED
      BY <1>1, <2>1, <2>2 DEF TypeOK, RemoveTicket, Without
  <1>2. TypeOK'
    <2>1. faults' \in 0..MaxFaults
      BY <1>1, <1>0, LockAssumption DEF TypeOK, RemoveTicket
    <2>2. /\ ahead' \in [Contenders -> SUBSET Contenders]
          /\ named' \subseteq Tickets' /\ \A q \in Contenders : ahead'[q] \subseteq Tickets'
      BY <1>1, <1>0 DEF TypeOK, Tickets, RemoveTicket
    <2> QED
      BY <1>1, <1>0, <2>1, <2>2 DEF TypeOK, PCs, Gone, RemoveTicket
  <1>3. Guarded'
    BY <1>1, <1>0, <1>2 DEF TypeOK, Guarded, Opened, Gone, Pinned, RemoveTicket
  <1>4. Places'
    BY <1>1, <1>0, <1>2 DEF TypeOK, Places, RemoveTicket
  <1>5. Histories'
    BY <1>1, <1>0, <1>2 DEF TypeOK, Places, Histories, RemoveTicket
  <1>6. Behind'
    BY <1>1, <1>0, <1>2
       DEF TypeOK, Places, Histories, Behind, Follows, Looking, Rounds, Waiting, Tickets,
           RemoveTicket
  <1> QED
    BY <1>2, <1>3, <1>4, <1>5, <1>6 DEF IInv

\* A waiter, and then a newcomer, removes the file.
LEMMA UnlinkSlowInv ==
  ASSUME IInv, NEW p \in Contenders, Unlink(p), ~Pinned, at[p].slow
  PROVE  IInv'
  <1> USE DEF Fresh, Fault, Table
  <1>1. TypeOK /\ Guarded /\ Places /\ Histories /\ Behind
    BY DEF IInv
  <1>0. /\ at[p].pc = "unlink" /\ at' = [at EXCEPT ![p].pc = "wait"]
        /\ file' = NoFile /\ UNCHANGED <<ticket, ahead, doomed, named, later, faults>>
    BY DEF Unlink, Goto
  <1>2. TypeOK'
    <2>1. faults' \in 0..MaxFaults
      BY <1>1, <1>0, LockAssumption DEF TypeOK, NoFile
    <2>2. /\ ahead' \in [Contenders -> SUBSET Contenders]
          /\ named' \subseteq Tickets' /\ \A q \in Contenders : ahead'[q] \subseteq Tickets'
      BY <1>1, <1>0 DEF TypeOK, Tickets, NoFile
    <2> QED
      BY <1>1, <1>0, <2>1, <2>2 DEF TypeOK, PCs, Gone, NoFile
  <1>3. Guarded'
    BY <1>1, <1>0, <1>2 DEF TypeOK, Guarded, Opened, Gone, Pinned, NoFile
  <1>4. Places'
    BY <1>1, <1>0, <1>2 DEF TypeOK, Places, NoFile
  <1>5. Histories'
    BY <1>1, <1>0, <1>2 DEF TypeOK, Places, Histories, NoFile
  <1>6. Behind'
    BY <1>1, <1>0, <1>2
       DEF TypeOK, Places, Histories, Behind, Follows, Looking, Rounds, Waiting, Tickets,
           NoFile
  <1> QED
    BY <1>2, <1>3, <1>4, <1>5, <1>6 DEF IInv

LEMMA UnlinkFastInv ==
  ASSUME IInv, NEW p \in Contenders, Unlink(p), ~Pinned, ~at[p].slow
  PROVE  IInv'
  <1> USE DEF Fresh, Fault, Table
  <1>1. TypeOK /\ Guarded /\ Places /\ Histories /\ Behind
    BY DEF IInv
  <1>0. /\ at[p].pc = "unlink" /\ at' = [at EXCEPT ![p].pc = "tidy"]
        /\ file' = NoFile /\ UNCHANGED <<ticket, ahead, doomed, named, later, faults>>
    BY DEF Unlink, Goto
  <1>2. TypeOK'
    <2>1. faults' \in 0..MaxFaults
      BY <1>1, <1>0, LockAssumption DEF TypeOK, NoFile
    <2>2. /\ ahead' \in [Contenders -> SUBSET Contenders]
          /\ named' \subseteq Tickets' /\ \A q \in Contenders : ahead'[q] \subseteq Tickets'
      BY <1>1, <1>0 DEF TypeOK, Tickets, NoFile
    <2> QED
      BY <1>1, <1>0, <2>1, <2>2 DEF TypeOK, PCs, Gone, NoFile
  <1>3. Guarded'
    BY <1>1, <1>0, <1>2 DEF TypeOK, Guarded, Opened, Gone, Pinned, NoFile
  <1>4. Places'
    BY <1>1, <1>0, <1>2 DEF TypeOK, Places, NoFile
  <1>5. Histories'
    BY <1>1, <1>0, <1>2 DEF TypeOK, Places, Histories, NoFile
  <1>6. Behind'
    BY <1>1, <1>0, <1>2
       DEF TypeOK, Places, Histories, Behind, Follows, Looking, Rounds, Waiting, Tickets,
           NoFile
  <1> QED
    BY <1>2, <1>3, <1>4, <1>5, <1>6 DEF IInv

\* A judgement of staleness ends, with either verdict.
LEMMA VerdictInv ==
  ASSUME IInv, NEW p \in Contenders, at[p].pc \in {"read", "alive", "age"}, NEW b \in
         BOOLEAN, Verdict(p, b), UNCHANGED <<file, Table>>, faults' \in 0..MaxFaults
  PROVE  IInv'
  <1> USE DEF Fresh, Fault, Table
  <1>1. TypeOK /\ Guarded /\ Places /\ Histories /\ Behind
    BY DEF IInv
  <1>2. TypeOK'
    <2>1. faults' \in 0..MaxFaults
      BY <1>1, LockAssumption DEF TypeOK, Verdict, Goto
    <2>2. /\ ahead' \in [Contenders -> SUBSET Contenders]
          /\ named' \subseteq Tickets' /\ \A q \in Contenders : ahead'[q] \subseteq Tickets'
      BY <1>1 DEF TypeOK, Tickets, Verdict, Goto
    <2> QED
      BY <1>1, <2>1, <2>2 DEF TypeOK, PCs, Gone, Verdict, Goto
  <1>3. Guarded'
    BY <1>1, <1>2 DEF TypeOK, Guarded, Opened, Gone, Pinned, Verdict, Goto
  <1>4. Places'
    BY <1>1, <1>2 DEF TypeOK, Places, Verdict, Goto
  <1>5. Histories'
    BY <1>1, <1>2 DEF TypeOK, Places, Histories, Verdict, Goto
  <1>6. Behind'
    BY <1>1, <1>2
       DEF TypeOK, Places, Histories, Behind, Follows, Looking, Rounds, Waiting, Tickets,
           Verdict, Goto
  <1> QED
    BY <1>2, <1>3, <1>4, <1>5, <1>6 DEF IInv

\* A judgement goes on.
LEMMA ToPidInv ==
  ASSUME IInv, NEW p \in Contenders, at[p].pc = "read", Goto(p, "pid"), UNCHANGED
         <<file, Table, faults>>
  PROVE  IInv'
  <1> USE DEF Fresh, Fault, Table
  <1>1. TypeOK /\ Guarded /\ Places /\ Histories /\ Behind
    BY DEF IInv
  <1>2. TypeOK'
    <2>1. faults' \in 0..MaxFaults
      BY <1>1, LockAssumption DEF TypeOK, Goto
    <2>2. /\ ahead' \in [Contenders -> SUBSET Contenders]
          /\ named' \subseteq Tickets' /\ \A q \in Contenders : ahead'[q] \subseteq Tickets'
      BY <1>1 DEF TypeOK, Tickets, Goto
    <2> QED
      BY <1>1, <2>1, <2>2 DEF TypeOK, PCs, Gone, Goto
  <1>3. Guarded'
    BY <1>1, <1>2 DEF TypeOK, Guarded, Opened, Gone, Pinned, Goto
  <1>4. Places'
    BY <1>1, <1>2 DEF TypeOK, Places, Goto
  <1>5. Histories'
    BY <1>1, <1>2 DEF TypeOK, Places, Histories, Goto
  <1>6. Behind'
    BY <1>1, <1>2
       DEF TypeOK, Places, Histories, Behind, Follows, Looking, Rounds, Waiting, Tickets,
           Goto
  <1> QED
    BY <1>2, <1>3, <1>4, <1>5, <1>6 DEF IInv

LEMMA UnlinkInv ==
  ASSUME IInv, NEW p \in Contenders, Unlink(p)
  PROVE  IInv'
  <1>1. faults \in 0..MaxFaults
    BY DEF IInv, TypeOK
  <1>2. CASE Pinned
    BY <1>1, <1>2, LeaveInv DEF Unlink
  <1> QED
    BY <1>2, UnlinkSlowInv, UnlinkFastInv

LEMMA SweepInv ==
  ASSUME IInv, NEW p \in Contenders, NEW w \in Contenders, Sweep(p, w)
  PROVE  IInv'
  <1>1. faults \in 0..MaxFaults
    BY DEF IInv, TypeOK
  <1>2. CASE OpenPins /\ at[w].pc = "write"
    BY <1>1, <1>2, LeaveInv DEF Sweep
  <1> QED
    BY <1>2, SweepOutInv

LEMMA ReadMarkerInv ==
  ASSUME IInv, NEW p \in Contenders, ReadMarker(p)
  PROVE  IInv'
  <1>1. faults \in 0..MaxFaults
    BY DEF IInv, TypeOK
  <1> QED
    BY <1>1, VerdictInv, ToPidInv DEF ReadMarker

\* A ticket takes its place: behind those of earlier readings, and where its pid
\* puts it among those of its own.
LEMMA RegisterInv ==
  ASSUME IInv, NEW p \in Contenders, Register(p)
  PROVE  IInv'
  <1> USE DEF Fresh, Fault, Table
  <1>1. TypeOK /\ Guarded /\ Places /\ Histories /\ Behind
    BY DEF IInv
  <1>2. /\ at[p].pc = "join" /\ ~at[p].slow
        /\ at' = [at EXCEPT ![p] = [pc |-> "write", slow |-> TRUE, late |-> at[p].late]]
    <2>1. at[p].pc = "join" /\ at' = [at EXCEPT ![p].pc = "write", ![p].slow = TRUE]
      BY DEF Register
    <2> QED
      BY <1>1, <2>1 DEF TypeOK, Places
  <1>3. ticket' = [ticket EXCEPT ![p] = "blank"] /\ named' = named \cup {p}
    BY DEF Register
  <1>4. /\ later' \in [Contenders -> SUBSET Contenders]
        /\ \A w \in Contenders : later'[w] \subseteq later[w]
        /\ \A w \in named : p \notin later'[w]
    BY <1>1 DEF TypeOK, Register, Tickets
  <1>5. /\ ahead' \in [Contenders -> SUBSET Contenders]
        /\ \A w \in Tickets \ named : w # p => w \in ahead'[p]
        /\ \A q \in Contenders \ {p} : ahead[q] \subseteq ahead'[q]
        /\ \A q \in Contenders : ahead'[q] \subseteq Tickets \cup {p}
    <2>1. PICK behind \in SUBSET named :
            ahead' = [q \in Contenders |->
                        IF q = p THEN Tickets \ behind
                        ELSE IF q \in behind THEN ahead[q] \cup {p} ELSE ahead[q]]
      BY DEF Register
    <2>2. /\ ahead \in [Contenders -> SUBSET Contenders]
          /\ named \subseteq Tickets /\ Tickets \subseteq Contenders
          /\ \A q \in Contenders : ahead[q] \subseteq Tickets
      BY <1>1 DEF TypeOK, Tickets
    <2>3. /\ DOMAIN ahead' = Contenders
          /\ ahead'[p] = Tickets \ behind
          /\ \A q \in Contenders \ {p} :
               ahead'[q] = IF q \in behind THEN ahead[q] \cup {p} ELSE ahead[q]
      BY <2>1
    <2>4. ahead' = [q \in Contenders |-> ahead'[q]]
      BY <2>1
    <2>5. \A q \in Contenders : ahead'[q] \subseteq Tickets \cup {p}
      BY <2>2, <2>3
    <2> QED
      BY <2>2, <2>3, <2>4, <2>5
  <1>6. Tickets' = Tickets \cup {p}
    BY <1>1, <1>3 DEF TypeOK, Tickets
  <1>7. TypeOK'
    <2>1. /\ file' = file /\ doomed' = doomed /\ faults' = faults
          /\ ticket' \in [Contenders -> {"none", "blank", "written"}]
          /\ named' \subseteq Tickets'
      BY <1>1, <1>3, <1>6 DEF TypeOK, Register
    <2>2. at' \in [Contenders -> [pc : PCs, slow : BOOLEAN, late : BOOLEAN]]
      BY <1>1, <1>2 DEF TypeOK, PCs
    <2> QED
      BY <1>1, <1>4, <1>5, <1>6, <2>1, <2>2 DEF TypeOK
  <1>8. Guarded'
    BY <1>1, <1>2, <1>7 DEF TypeOK, Guarded, Opened, Gone, Register
  <1>9. Places'
    BY <1>1, <1>2, <1>7 DEF TypeOK, Places
  <1>10. Histories'
    BY <1>1, <1>2, <1>4, <1>7 DEF TypeOK, Places, Histories
  <1>11. Behind'
    <2> SUFFICES ASSUME NEW w \in Contenders, NEW q \in Contenders, q \in later'[w],
                        Waiting(w)', ticket'[w] # "none"
                 PROVE  q # w /\ Follows(q, w)'
      BY DEF Behind
    <2>1. w # p /\ Waiting(w) /\ ticket[w] # "none" /\ q \in later[w]
      BY <1>1, <1>2, <1>3, <1>4 DEF TypeOK, Waiting
    <2>2. q # w /\ Follows(q, w)
      BY <1>1, <2>1 DEF Behind
    <2>3. CASE q = p
      BY <1>1, <1>2, <1>3, <1>4, <1>5, <2>1, <2>2, <2>3
         DEF TypeOK, Follows, Rounds, Tickets
    <2>4. CASE q # p
      BY <1>1, <1>2, <1>3, <1>5, <2>2, <2>4 DEF TypeOK, Follows
    <2> QED
      BY <2>2, <2>3, <2>4
  <1> QED
    BY <1>7, <1>8, <1>9, <1>10, <1>11 DEF IInv

LEMMA AgeInv ==
  ASSUME IInv, Age
  PROVE  IInv'
  <1> USE DEF Fresh, Fault, Table
  <1>1. TypeOK /\ Guarded /\ Places /\ Histories /\ Behind
    BY DEF IInv
  <1>2. TypeOK'
    <2>1. faults' \in 0..MaxFaults
      BY <1>1, LockAssumption DEF TypeOK, Age
    <2>2. /\ ahead' \in [Contenders -> SUBSET Contenders]
          /\ named' \subseteq Tickets' /\ \A q \in Contenders : ahead'[q] \subseteq Tickets'
      BY <1>1 DEF TypeOK, Tickets, Age
    <2> QED
      BY <1>1, <2>1, <2>2 DEF TypeOK, PCs, Gone, Age
  <1>3. Guarded'
    BY <1>1, <1>2 DEF TypeOK, Guarded, Opened, Gone, Pinned, Age
  <1>4. Places'
    BY <1>1, <1>2 DEF TypeOK, Places, Age
  <1>5. Histories'
    BY <1>1, <1>2 DEF TypeOK, Places, Histories, Age
  <1>6. Behind'
    BY <1>1, <1>2
       DEF TypeOK, Places, Histories, Behind, Follows, Looking, Rounds, Waiting, Tickets, Age
  <1> QED
    BY <1>2, <1>3, <1>4, <1>5, <1>6 DEF IInv

LEMMA TickInv ==
  ASSUME IInv, Tick
  PROVE  IInv'
  <1> USE DEF Fresh, Fault, Table
  <1>1. TypeOK /\ Guarded /\ Places /\ Histories /\ Behind
    BY DEF IInv
  <1>2. TypeOK'
    <2>1. faults' \in 0..MaxFaults
      BY <1>1, LockAssumption DEF TypeOK, Tick
    <2>2. /\ ahead' \in [Contenders -> SUBSET Contenders]
          /\ named' \subseteq Tickets' /\ \A q \in Contenders : ahead'[q] \subseteq Tickets'
      BY <1>1 DEF TypeOK, Tickets, Tick
    <2> QED
      BY <1>1, <2>1, <2>2 DEF TypeOK, PCs, Gone, Tick
  <1>3. Guarded'
    BY <1>1, <1>2 DEF TypeOK, Guarded, Opened, Gone, Pinned, Tick
  <1>4. Places'
    BY <1>1, <1>2 DEF TypeOK, Places, Tick
  <1>5. Histories'
    BY <1>1, <1>2 DEF TypeOK, Places, Histories, Tick
  <1>6. Behind'
    BY <1>1, <1>2
       DEF TypeOK, Places, Histories, Behind, Follows, Looking, Rounds, Waiting, Tickets, Tick
  <1> QED
    BY <1>2, <1>3, <1>4, <1>5, <1>6 DEF IInv

\* Every step preserves it.
LEMMA NextInv == IInv /\ [Next]_vars => IInv'
  <1> SUFFICES ASSUME IInv, [Next]_vars
               PROVE  IInv'
    OBVIOUS
  <1>1. CASE UNCHANGED vars
    BY <1>1
       DEF vars, IInv, TypeOK, Guarded, Places, Histories, Behind, Follows, Waiting, Tickets,
           Gone
  <1>2. CASE Age \/ Tick
    BY <1>2, AgeInv, TickInv
  <1>3. ASSUME NEW p \in Contenders, Begin(p) \/ Step(p) \/ Mishap(p) PROVE IInv'
    BY <1>3, BeginInv, TidyInv, TidyDeniedInv, GlanceInv, TurnAwayInv, WriteTicketInv,
       WakeInv, CreateInv,
       CollideInv, ReadPidInv, ReadOwnerInv, ReadAgeInv, StampInv, DiscardInv, CloseInv,
       ReleaseInv, TimeOutInv, StallInv, ProbeDeniedInv, StampFailsInv, MarkInv, GiveUpInv,
       DieInv, SweepInv, RegisterInv, UnlinkInv, ReadMarkerInv
       DEF Step, Mishap
  <1> QED
    BY <1>1, <1>2, <1>3 DEF Next

\* The invariant is inductive (acquire, is_stale, __exit__ and every reading).
THEOREM Inductive == Spec => []IInv
  BY InitInv, NextInv, PTL DEF Spec

\* The lock file, the tickets and the contenders stay within their types
\* (locking.py).
THEOREM TypeCorrect == Spec => []TypeOK
  <1>1. IInv => TypeOK
    BY DEF IInv
  <1> QED
    BY <1>1, Inductive, PTL

\* Where an open file cannot be removed, two contenders are never inside
\* (acquire: the descriptor is kept until __exit__).
THEOREM ExclusionCorrect ==
  ASSUME OpenPins
  PROVE  Spec => []MutualExclusion
  <1>1. IInv => MutualExclusion
    BY DEF IInv, Guarded, MutualExclusion, Opened
  <1> QED
    BY <1>1, Inductive, PTL

\* What a step of p does to those inside: p comes in, goes out, or nothing.
LEMMA OneMoves ==
  ASSUME NEW p \in Contenders, \A q \in Contenders \ {p} : at'[q].pc = at[q].pc
  PROVE  /\ at[p].pc # "held" /\ at'[p].pc # "held" => UNCHANGED Inside
         /\ at[p].pc # "held" /\ at'[p].pc = "held" => Inside' = Inside \cup {p}
         /\ at[p].pc = "held" /\ at'[p].pc # "held" => Inside' = Inside \ {p}
  BY DEF Inside

LEMMA Arrival ==
  ASSUME TypeOK, NEW p \in Contenders, NEW pc, Goto(p, pc)
  PROVE  at'[p].pc = pc /\ \A q \in Contenders \ {p} : at'[q].pc = at[q].pc
  BY DEF TypeOK, Goto

LEMMA Departure ==
  ASSUME TypeOK, NEW p \in Contenders, Leave(p) \/ Die(p)
  PROVE  at'[p].pc # "held" /\ \A q \in Contenders \ {p} : at'[q].pc = at[q].pc
  BY DEF TypeOK, Leave, Die, Fresh

\* Only the stamp leads inside, and only a close or a death leads out.
LEMMA InsideMoves ==
  ASSUME IInv, NEW p \in Contenders, Begin(p) \/ Step(p) \/ Mishap(p)
  PROVE  \/ UNCHANGED Inside
         \/ at[p].pc = "stamp" /\ Inside' = Inside \cup {p}
         \/ p \in Inside /\ Inside' = Inside \ {p}
  <1>1. TypeOK
    BY DEF IInv
  <1>2. ASSUME NEW pc, Goto(p, pc), at[p].pc # "held", pc # "held" PROVE UNCHANGED Inside
    BY <1>1, <1>2, Arrival, OneMoves
  <1>3. ASSUME Leave(p), at[p].pc # "held" PROVE UNCHANGED Inside
    BY <1>1, <1>3, Departure, OneMoves
  <1>4. ASSUME Stamp(p) PROVE Inside' = Inside \cup {p}
    BY <1>1, <1>4, Arrival, OneMoves DEF Stamp
  <1>5. ASSUME Close(p) PROVE p \in Inside /\ Inside' = Inside \ {p}
    <2>1. at[p].pc = "held" /\ Goto(p, "release")
      BY <1>5 DEF Close
    <2>2. p \in Inside
      BY <2>1 DEF Inside
    <2> QED
      BY <1>1, <2>1, <2>2, Arrival, OneMoves
  <1>6. ASSUME Die(p)
        PROVE  UNCHANGED Inside \/ (p \in Inside /\ Inside' = Inside \ {p})
    <2>1. at[p].pc = "held" => p \in Inside
      BY DEF Inside
    <2> QED
      BY <1>1, <1>6, <2>1, Departure, OneMoves
  <1>7. ASSUME Register(p) \/ Stall(p) PROVE UNCHANGED Inside
    <2>1. /\ at[p].pc # "held" /\ at'[p].pc # "held"
          /\ \A q \in Contenders \ {p} : at'[q].pc = at[q].pc
      BY <1>1, <1>7 DEF Register, Stall, Waiting, TypeOK
    <2> QED
      BY <2>1, OneMoves
  <1>9. ASSUME NEW w \in Contenders, Sweep(p, w) PROVE UNCHANGED Inside
    BY <1>3, <1>9 DEF Sweep, Inside
  <1>10. ASSUME Unlink(p) PROVE UNCHANGED Inside
    <2>1. CASE Pinned
      BY <2>1, <1>3, <1>10 DEF Unlink
    <2>2. CASE ~Pinned
      BY <2>2, <1>2, <1>10 DEF Unlink
    <2> QED
      BY <2>1, <2>2
  <1>11. ASSUME NEW stale, Verdict(p, stale), at[p].pc # "held" PROVE UNCHANGED Inside
    BY <1>2, <1>11 DEF Verdict
  <1>12. ASSUME Glance(p) PROVE UNCHANGED Inside
    BY <1>2, <1>12 DEF Glance
  <1>13. ASSUME \/ Begin(p) \/ Tidy(p) \/ TidyDenied(p) \/ WriteTicket(p) \/ Wake(p)
                \/ Create(p) \/ Collide(p)
         PROVE  UNCHANGED Inside
    BY <1>2, <1>13 DEF Begin, Tidy, TidyDenied, WriteTicket, Wake, Create, Collide
  <1>14. ASSUME ReadMarker(p) \/ ReadPid(p) \/ ReadOwner(p) \/ ReadAge(p) \/ ProbeDenied(p)
         PROVE  UNCHANGED Inside
    BY <1>2, <1>11, <1>14 DEF ReadMarker, ReadPid, ReadOwner, ReadAge, ProbeDenied
  <1>15. ASSUME \/ TurnAway(p) \/ TimeOut(p) \/ Discard(p) \/ Release(p) \/ Mark(p) \/ GiveUp(p)
         PROVE  UNCHANGED Inside
    BY <1>3, <1>15 DEF TurnAway, TimeOut, Discard, Release, Mark, GiveUp
  <1>16. ASSUME StampFails(p) PROVE UNCHANGED Inside
    BY <1>2, <1>16 DEF StampFails
  <1> QED
    BY <1>4, <1>5, <1>6, <1>7, <1>9, <1>10, <1>12, <1>13, <1>14, <1>15, <1>16
       DEF Step, Mishap, Stamp

\* Where an open file cannot be removed, the lock file keeps the promise that
\* those who work under it rely on (acquire, is_stale, __exit__).
THEOREM PromiseCorrect ==
  ASSUME OpenPins
  PROVE  Spec => KeepsPromise
  <1>1. Init => Promise!Init
    BY DEF Init, Promise!Init, Inside, Fresh
  <1>2. IInv /\ [Next]_vars => [Promise!Next]_Inside
    <2> SUFFICES ASSUME IInv, [Next]_vars PROVE [Promise!Next]_Inside
      OBVIOUS
    <2>1. ASSUME NEW p \in Contenders, at[p].pc = "stamp" PROVE Inside = {}
      BY <2>1, OpenPins DEF IInv, Guarded, Opened, Inside
    <2>2. ASSUME NEW p \in Inside PROVE p \in Contenders /\ Inside = {p}
      BY <2>2, OpenPins DEF IInv, Guarded, Opened, Inside
    <2>3. CASE Age \/ Tick \/ UNCHANGED vars
      BY <2>3 DEF Age, Tick, vars, Inside
    <2>4. ASSUME NEW p \in Contenders, Begin(p) \/ Step(p) \/ Mishap(p)
          PROVE  [Promise!Next]_Inside
      BY <2>1, <2>2, <2>4, InsideMoves DEF Promise!Next, Promise!Enter, Promise!Leave
    <2> QED
      BY <2>3, <2>4 DEF Next
  <1> QED
    BY <1>1, <1>2, Inductive, PTL DEF Spec, KeepsPromise, Promise!Spec

\* Who came later is not served before a waiter whose ticket lies in its place,
\* on every system and whatever becomes of the lock file, unless one reading of
\* the clock has named both tickets (acquire, _register_waiter, _is_head_waiter).
THEOREM OrderCorrect == Spec => []QueueRespected
  <1>1. IInv => QueueRespected
    BY DEF IInv, Behind, Follows, Looking, Rounds, QueueRespected, Within
  <1> QED
    BY <1>1, Inductive, PTL
=============================================================================
