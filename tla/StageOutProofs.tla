---------------------------- MODULE StageOutProofs ----------------------------
(***************************************************************************)
(* Proofs about StageOut, for any number of clients, any calls and any     *)
(* faults; what a property needs of them is said where it is proved.       *)
(*                                                                         *)
(* PlacesOK ties a process's list to where it is, and KnownIsComplete says *)
(* that whatever entry a daemon comes to know of names all the files its   *)
(* client is ever going to stage.  On these rest Covered (an entry leaves  *)
(* the queue only when it is settled), CopiedSoFar (what is listed has     *)
(* been staged) and NothingMissing (a file leaves a place only when it is  *)
(* further on).                                                            *)
(***************************************************************************)
EXTENDS StageOut, TLAPS

-----------------------------------------------------------------------------
(* Where the processes are, and which list they go through there.          *)
PlaceOf(c) ==
    /\ pc[c] = "cp" =>
          todo[c] \subseteq CpList(c) /\ (todo[c] = {} \/ Last(c) \in todo[c])
    /\ pc[c] \in {"copying", "cleaning"} =>
          cur[c] \in Clients /\ todo[c] \subseteq StagedFiles(cur[c])
    /\ pc[c] \notin {"copying", "cleaning"} => cur[c] = NoEntry
    /\ pc[c] \notin {"cp", "copying", "cleaning"} => todo[c] = {}

PlacesOK == \A c \in Clients : PlaceOf(c)

(* Some daemon, alive or not, may come to read or to remove entry e, or    *)
(* does.                                                                   *)
Known(e) ==
    \/ e \in queue
    \/ \E c \in Clients : e \in snap[c] \/ cur[c] = e \/ <<c, e>> \in removing

(* Its client stages nothing more.                                         *)
Complete(e) == pc[e] # "cp" \/ todo[e] = {}

KnownIsComplete == \A e \in Clients : Known(e) => Complete(e)

OnlyListed ==
    \A c \in Clients : \A f \in Files(c) : <<c, f>> \in staged => f \in StagedFiles(c)

Inv == TypeOK /\ PlacesOK /\ KnownIsComplete /\ OnlyListed

-----------------------------------------------------------------------------
(* An entry is taken out of the queue only when there is nothing in the    *)
(* stage area that it alone would lead to.                                 *)
Out(e, f) == <<e, f>> \in staged => <<e, f>> \in delivered

Settled(e) == \A f \in StagedFiles(e) : Out(e, f)

CopiedBy(c) ==
    /\ pc[c] = "copying" => \A f \in StagedFiles(cur[c]) \ todo[c] : Out(cur[c], f)
    /\ pc[c] = "cleaning" => \A f \in todo[c] : Out(cur[c], f)

DaemonCopied == \A c \in Clients : CopiedBy(c)

QueuedOrSettled(e) == e \in queue \/ Settled(e)

TakenIsSettled ==
    \A c, e \in Clients :
        \/ pc[c] = "cleaning" /\ cur[c] = e
        \/ <<c, e>> \in removing
        => Settled(e)

ListedIsCovered == \A c \in Clients : \A e \in snap[c] : QueuedOrSettled(e)

StagedIsCovered ==
    \A c \in Clients : rres[c] = 0 =>
        /\ pc[c] = "cp" => Last(c) \in todo[c] \/ QueuedOrSettled(c)
        /\ pc[c] \notin {"cp", "aborted"} => QueuedOrSettled(c)

Covered == TakenIsSettled /\ ListedIsCovered /\ StagedIsCovered

CopiesWork == "copy" \notin faults => DaemonCopied

QueueKept == faults \cap {"copy", "fetch"} = {} => Covered

-----------------------------------------------------------------------------
(* What a call needs for its list to be right: build_stage_list takes the  *)
(* option arguments away, and handle_args skips as many once more.         *)
NoOptions == \A k \in Calls : k.options = 0

(* And for the last of its copies to be that of the list.                  *)
SomeStaged == \A k \in Calls : \E f \in 1 .. k.pairs : f \notin k.existing

Further(c, f) == <<c, f>> \in staged \union delivered

AllFurther(c) == \A f \in Files(c) : Further(c, f)

CopiedSoFar ==
    \A c \in Clients : rres[c] = 0 =>
        /\ pc[c] = "cp" => \A f \in Files(c) \ todo[c] : Further(c, f)
        /\ pc[c] \notin {"cp", "aborted"} \/ c \in queue => AllFurther(c)

Ready == NoOptions /\ "copy" \notin faults => CopiedSoFar

-----------------------------------------------------------------------------
(* The lists of a call, and that a step leaves them as they are.           *)
LEMMA Lists ==
  ASSUME call \in [Clients -> Calls], NEW c \in Clients
  PROVE  /\ call[c] \in CallType
         /\ Files(c) \subseteq Nat /\ StagedFiles(c) \subseteq Files(c)
         /\ Last(c) \in Nat \ {0} /\ Files(c) \subseteq 1 .. Last(c)
         /\ CpList(c) \subseteq 1 .. Last(c) /\ \A i \in CpList(c) : i <= Last(c)
         /\ CpList(c) = {} \/ Last(c) \in CpList(c)
         /\ StagedFiles(c) # {} => Last(c) \notin Files(c)
         /\ StagedFiles(c) = {} => Last(c) \in Files(c)
         /\ \A i \in 1 .. Last(c) : i \in Files(c) \/ i = Last(c)
<1>1. call[c] \in CallType
  BY ConstantsAssumption
<1>2. call[c].pairs \in Nat \ {0} /\ call[c].options \in Nat
  BY <1>1 DEF CallType
<1>3. Last(c) \in {call[c].pairs, call[c].pairs + 1}
  BY DEF Last
<1>4. Skipped(c) \in Nat
  BY <1>2 DEF Skipped
<1>5. Files(c) \subseteq 1 .. Last(c) /\ Last(c) \in Nat \ {0}
  BY <1>2, <1>3 DEF Files
<1>6. CpList(c) \subseteq 1 .. Last(c) /\ \A i \in CpList(c) : i <= Last(c)
  BY <1>4, <1>5 DEF CpList
<1>7. CpList(c) = {} \/ Last(c) \in CpList(c)
  BY <1>4, <1>5 DEF CpList
<1> QED
  BY <1>1, <1>2, <1>5, <1>6, <1>7 DEF Files, StagedFiles, Last

LEMMA ListsFixed ==
  ASSUME call' = call, NEW c \in Clients
  PROVE  /\ Files(c)' = Files(c) /\ StagedFiles(c)' = StagedFiles(c)
         /\ Last(c)' = Last(c) /\ CpList(c)' = CpList(c) /\ FilesOf(c)' = FilesOf(c)
BY DEF Files, StagedFiles, Last, CpList, FilesOf, Skipped

(* The lock keeps its types, whatever step it makes.                       *)
LEMMA LockType ==
  ASSUME Lock!TypeOK, faults' = faults, NEW c \in Clients, Lock!Step(c) \/ UNCHANGED lockVars
  PROVE  Lock!TypeOK'
<1> USE DEF Lock!TypeOK
<1>1. CASE UNCHANGED lockVars
  BY <1>1 DEF lockVars
<1>2. ASSUME Lock!Step(c) PROVE phase' \in [Clients -> Lock!Phases]
  <2>1. phase' = phase \/ \E p \in Lock!Phases : phase' = [phase EXCEPT ![c] = p]
    BY <1>2 DEF Lock!Step, Lock!Contend, Lock!Appear, Lock!Acquire, Lock!Refuse, Lock!Release,
       Lock!Finish, Lock!Leave, Lock!Vanish, Lock!Trap, Lock!Crash, Lock!MoveTo, Lock!Phases
  <2> QED
    BY <2>1
<1>3. ASSUME Lock!Step(c) PROVE listed' \subseteq Clients /\ first' \subseteq listed'
  <2>1. CASE UNCHANGED <<listed, first>>
    BY <2>1
  <2>2. CASE Lock!Unlist(c)
    BY <2>2 DEF Lock!Unlist
  <2>3. CASE Lock!Appear(c)
    BY <2>3 DEF Lock!Appear
  <2> QED
    BY <1>3, <2>1, <2>2, <2>3 DEF Lock!Step, Lock!Contend, Lock!Acquire, Lock!Refuse,
       Lock!Release, Lock!Finish, Lock!Leave, Lock!Vanish, Lock!Trap, Lock!Crash, Lock!RemoveLock
<1> QED
  BY <1>1, <1>2, <1>3

(* Every step but that of a client moves one process, as far as the lock   *)
(* lets it.                                                                *)
LEMMA LockSteps ==
  ASSUME NEW c \in Clients, Step(c)
  PROVE  Lock!Step(c) \/ UNCHANGED lockVars
BY DEF Step, ClientStep, CpStep, CleanupStage, Return, Contend, LockAppears, Acquire, Refuse,
   QueueFound, QueueEmpty, Leave, ListQueue, Fetch, CopyOut, RemoveSource, EntryDone, AllCopied,
   RemoveEntry, Trap, Interrupt, Crash, Lock!Step

LEMMA PlaceTypes ==
  ASSUME TypeOK, PlacesOK, NEW c \in Clients, Step(c), UNCHANGED <<call, faults>>
  PROVE  /\ pc' \in [Clients -> Places] /\ rres' \in [Clients -> {0, 1}]
         /\ snap' \in [Clients -> SUBSET Clients]
         /\ cur' \in [Clients -> Clients \union {NoEntry}]
         /\ removing' \subseteq Clients \X Clients
<1>1. \E p \in Places : pc' = [pc EXCEPT ![c] = p] \/ pc' = pc
  BY DEF Step, ClientStep, CpStep, CleanupStage, Return, Contend, LockAppears, Acquire, Refuse,
     QueueFound, QueueEmpty, Leave, ListQueue, Fetch, CopyOut, RemoveSource, EntryDone, AllCopied,
     RemoveEntry, Trap, Interrupt, Crash, MoveTo, Places
<1>2. rres' = rres \/ rres' = [rres EXCEPT ![c] = 1]
  BY DEF Step, ClientStep, CpStep, CleanupStage, Return, Contend, LockAppears, Acquire, Refuse,
     QueueFound, QueueEmpty, Leave, ListQueue, Fetch, CopyOut, RemoveSource, EntryDone, AllCopied,
     RemoveEntry, Trap, Interrupt, Crash
<1>3. CASE UNCHANGED daemonVars
  BY <1>1, <1>2, <1>3 DEF daemonVars, TypeOK
<1>4. CASE ListQueue(c)
  BY <1>1, <1>2, <1>4 DEF ListQueue, TypeOK
<1>5. CASE Fetch(c)
  BY <1>1, <1>2, <1>5 DEF Fetch, TypeOK
<1>6. CASE EntryDone(c)
  <2>1. cur[c] \in Clients
    BY <1>6 DEF EntryDone, PlacesOK, PlaceOf
  <2> QED
    BY <1>1, <1>2, <1>6, <2>1 DEF EntryDone, TypeOK
<1>7. CASE RemoveEntry(c)
  BY <1>1, <1>2, <1>7 DEF RemoveEntry, TypeOK
<1>8. CASE Interrupt(c) \/ Crash(c)
  BY <1>1, <1>2, <1>8 DEF Interrupt, Crash, TypeOK
<1> QED
  BY <1>3, <1>4, <1>5, <1>6, <1>7, <1>8 DEF Step, ClientStep, CpStep, CleanupStage, Return,
     Contend, LockAppears, Acquire, Refuse, QueueFound, QueueEmpty, Leave, CopyOut, RemoveSource,
     AllCopied, Trap

LEMMA FileTypes ==
  ASSUME TypeOK, NEW c \in Clients, Step(c), UNCHANGED <<call, faults>>
  PROVE  /\ local' \subseteq AllFiles /\ staged' \subseteq AllFiles
         /\ delivered' \subseteq AllFiles /\ queue' \subseteq Clients
<1>1. \A f \in Files(c) : <<c, f>> \in AllFiles
  BY DEF AllFiles, FilesOf
<1>2. CASE UNCHANGED fileVars
  BY <1>2 DEF fileVars, TypeOK
<1>3. ASSUME NEW i \in todo[c], StageFile(c, i) \/ DirectCopy(c, i) \/ QueueEntry(c, i)
      PROVE  TRUE /\ local' \subseteq AllFiles /\ staged' \subseteq AllFiles
             /\ delivered' \subseteq AllFiles /\ queue' \subseteq Clients
  <2>1. CASE StageFile(c, i)
    BY <1>1, <2>1 DEF StageFile, StagedFiles, TypeOK
  <2>2. CASE DirectCopy(c, i)
    BY <1>1, <2>2 DEF DirectCopy, TypeOK
  <2>3. CASE QueueEntry(c, i)
    BY <2>3 DEF QueueEntry, TypeOK
  <2> QED
    BY <1>3, <2>1, <2>2, <2>3
<1>4. CASE CleanupStage(c) \/ Return(c)
  BY <1>4 DEF CleanupStage, Return, TypeOK
<1>5. CASE CopyOut(c)
  BY <1>5 DEF CopyOut, TypeOK
<1>6. CASE RemoveSource(c) \/ RemoveEntry(c)
  BY <1>6 DEF RemoveSource, RemoveEntry, TypeOK
<1> QED
  BY <1>2, <1>3, <1>4, <1>5, <1>6 DEF Step, ClientStep, CpStep, Contend, LockAppears, Acquire,
     Refuse, QueueFound, QueueEmpty, Leave, ListQueue, Fetch, EntryDone, AllCopied, Trap,
     Interrupt, Crash

(* The other processes stay where they are.                                *)
LEMMA OneMoves ==
  ASSUME TypeOK, NEW c \in Clients, Step(c), NEW d \in Clients, d # c
  PROVE  /\ pc'[d] = pc[d] /\ todo'[d] = todo[d] /\ cur'[d] = cur[d]
         /\ snap'[d] = snap[d] /\ rres'[d] = rres[d]
<1> USE DEF TypeOK
<1>1. pc'[d] = pc[d]
  BY DEF Step, ClientStep, CpStep, CleanupStage, Return, Contend, LockAppears, Acquire, Refuse,
     QueueFound, QueueEmpty, Leave, ListQueue, Fetch, CopyOut, RemoveSource, EntryDone, AllCopied,
     RemoveEntry, Trap, Interrupt, Crash, MoveTo
<1>2. todo'[d] = todo[d]
  BY DEF Step, ClientStep, CpStep, CleanupStage, Return, Contend, LockAppears, Acquire, Refuse,
     QueueFound, QueueEmpty, Leave, ListQueue, Fetch, CopyOut, RemoveSource, EntryDone, AllCopied,
     RemoveEntry, Trap, Interrupt, Crash, Took
<1>3. cur'[d] = cur[d] /\ snap'[d] = snap[d]
  BY DEF Step, ClientStep, CpStep, CleanupStage, Return, Contend, LockAppears, Acquire, Refuse,
     QueueFound, QueueEmpty, Leave, ListQueue, Fetch, CopyOut, RemoveSource, EntryDone, AllCopied,
     RemoveEntry, Trap, Interrupt, Crash, daemonVars
<1>4. rres'[d] = rres[d]
  BY DEF Step, ClientStep, CpStep, CleanupStage, Return, Contend, LockAppears, Acquire, Refuse,
     QueueFound, QueueEmpty, Leave, ListQueue, Fetch, CopyOut, RemoveSource, EntryDone, AllCopied,
     RemoveEntry, Trap, Interrupt, Crash
<1> QED
  BY <1>1, <1>2, <1>3, <1>4

LEMMA PlacePreserved ==
  ASSUME TypeOK, PlacesOK, NEW c \in Clients, Step(c), UNCHANGED <<call, faults>>
  PROVE  PlaceOf(c)' /\ todo' \in [Clients -> SUBSET Nat]
<1> PlaceOf(c)
  BY DEF PlacesOK
<1> USE ConstantsAssumption DEF TypeOK
<1>1. /\ StagedFiles(c)' = StagedFiles(c) /\ Last(c)' = Last(c) /\ CpList(c)' = CpList(c)
      /\ \A e \in Clients : StagedFiles(e)' = StagedFiles(e) /\ StagedFiles(e) \subseteq Nat
  BY ListsFixed, Lists
<1>2. CASE CpStep(c)
  <2>1. PICK i \in todo[c] : IsNext(c, i) /\ Took(c, i)
    BY <1>2 DEF CpStep
  <2>2. /\ pc' = pc /\ cur' = cur /\ pc[c] = "cp" /\ todo'[c] = todo[c] \ {i}
        /\ todo' \in [Clients -> SUBSET Nat]
    BY <1>2, <2>1 DEF CpStep, Took, daemonVars
  <2>3. todo[c] \ {i} = {} \/ Last(c) \in todo[c] \ {i}
    <3>1. \A j \in todo[c] : j \in 1 .. Last(c)
      BY <2>2, Lists DEF PlaceOf
    <3> QED
      BY <2>1, <2>2, <3>1, Lists DEF IsNext, PlaceOf
  <2> QED
    BY <1>1, <2>2, <2>3 DEF PlaceOf
<1>3. CASE CleanupStage(c)
  BY <1>3 DEF CleanupStage, MoveTo, PlaceOf, daemonVars
<1>4. CASE \/ Return(c) \/ Contend(c) \/ LockAppears(c) \/ Acquire(c) \/ Refuse(c)
           \/ QueueFound(c) \/ QueueEmpty(c) \/ Leave(c) \/ AllCopied(c) \/ Trap(c)
  <2>1. /\ UNCHANGED <<todo, cur>>
        /\ \/ pc' = pc
           \/ /\ pc[c] \in {"ended", "lock", "have_queue", "leave", "entry"}
              /\ pc'[c] \notin {"cp", "copying", "cleaning"}
    BY <1>4 DEF Return, Contend, LockAppears, Acquire, Refuse, QueueFound, QueueEmpty, Leave,
       AllCopied, Trap, MoveTo, daemonVars
  <2> QED
    BY <1>1, <2>1 DEF PlaceOf
<1>5. CASE ListQueue(c) \/ EntryDone(c)
  BY <1>5 DEF ListQueue, EntryDone, MoveTo, PlaceOf
<1>6. CASE Fetch(c)
  BY <1>1, <1>6 DEF Fetch, MoveTo, PlaceOf
<1>7. CASE CopyOut(c)
  BY <1>1, <1>7 DEF CopyOut, MoveTo, Took, PlaceOf, daemonVars
<1>8. CASE RemoveSource(c)
  BY <1>1, <1>8 DEF RemoveSource, Took, PlaceOf, daemonVars
<1>9. CASE RemoveEntry(c)
  BY <1>1, <1>9 DEF RemoveEntry, PlaceOf
<1>10. CASE Interrupt(c) \/ Crash(c)
  BY <1>10 DEF Interrupt, Crash, MoveTo, PlaceOf
<1> QED
  BY <1>2, <1>3, <1>4, <1>5, <1>6, <1>7, <1>8, <1>9, <1>10 DEF Step, ClientStep

LEMMA TypePreserved ==
  TypeOK /\ PlacesOK /\ [Next]_vars => TypeOK' /\ PlacesOK'
<1> SUFFICES ASSUME TypeOK, PlacesOK, [Next]_vars PROVE TypeOK' /\ PlacesOK'
  OBVIOUS
<1>1. UNCHANGED <<call, faults>>
  BY DEF Next, vars
<1>2. /\ AllFiles' = AllFiles
      /\ \A c \in Clients : /\ StagedFiles(c)' = StagedFiles(c)
                            /\ Last(c)' = Last(c) /\ CpList(c)' = CpList(c)
  BY <1>1, ListsFixed DEF AllFiles
<1>3. CASE UNCHANGED vars
  <2>1. PlacesOK'
    BY <1>2, <1>3 DEF PlacesOK, PlaceOf, vars, daemonVars
  <2>2. Lock!TypeOK'
    BY <1>3 DEF vars, lockVars, TypeOK, Lock!TypeOK
  <2> QED
    BY <1>2, <1>3, <2>1, <2>2 DEF TypeOK, vars, daemonVars, fileVars
<1>4. ASSUME NEW c \in Clients, Step(c) PROVE TypeOK' /\ PlacesOK'
  <2>1. /\ pc' \in [Clients -> Places] /\ rres' \in [Clients -> {0, 1}]
        /\ snap' \in [Clients -> SUBSET Clients]
        /\ cur' \in [Clients -> Clients \union {NoEntry}]
        /\ removing' \subseteq Clients \X Clients
    BY <1>1, <1>4, PlaceTypes
  <2>2. /\ local' \subseteq AllFiles' /\ staged' \subseteq AllFiles'
        /\ delivered' \subseteq AllFiles' /\ queue' \subseteq Clients
    BY <1>1, <1>2, <1>4, FileTypes
  <2>3. Lock!TypeOK'
    BY <1>1, <1>4, LockType, LockSteps DEF TypeOK
  <2>4. PlaceOf(c)' /\ todo' \in [Clients -> SUBSET Nat]
    BY <1>1, <1>4, PlacePreserved
  <2>5. ASSUME NEW d \in Clients PROVE PlaceOf(d)'
    <3>1. CASE d # c
      BY <1>2, <1>4, <3>1, OneMoves DEF PlacesOK, PlaceOf, TypeOK
    <3> QED
      BY <2>4, <3>1
  <2>6. ASSUME NEW d \in Clients
        PROVE  (todo[d] \subseteq IF cur[d] = NoEntry THEN 1 .. Last(d)
                                                      ELSE StagedFiles(cur[d]))'
    <3>1. CpList(d) \subseteq 1 .. Last(d)
      BY Lists DEF TypeOK
    <3> QED
      BY <1>2, <2>1, <2>5, <3>1, ConstantsAssumption DEF PlaceOf
  <2>7. call' \in [Clients -> Calls]
    BY <1>1 DEF TypeOK
  <2>8. TypeOK'
    BY <2>1, <2>2, <2>3, <2>4, <2>6, <2>7 DEF TypeOK
  <2> QED
    BY <2>5, <2>8 DEF PlacesOK
<1> QED
  BY <1>3, <1>4 DEF Next

-----------------------------------------------------------------------------
(* What is known of an entry is complete, and stays so.                    *)

LEMMA StaysComplete ==
  ASSUME TypeOK, NEW c \in Clients, Step(c), NEW e \in Clients, Complete(e)
  PROVE  Complete(e)'
<1>1. CASE e # c
  BY <1>1, OneMoves DEF Complete
<1>2. CASE e = c
  <2>1. pc'[c] = "cp" => pc[c] = "cp"
    BY DEF TypeOK, Step, ClientStep, CpStep, CleanupStage, Return, Contend, LockAppears, Acquire,
       Refuse, QueueFound, QueueEmpty, Leave, ListQueue, Fetch, CopyOut, RemoveSource, EntryDone,
       AllCopied, RemoveEntry, Trap, Interrupt, Crash, MoveTo
  <2>2. pc[c] = "cp" /\ todo[c] = {} => todo'[c] = {}
    BY DEF TypeOK, Step, ClientStep, CpStep, CleanupStage, Return, Contend, LockAppears, Acquire,
       Refuse, QueueFound, QueueEmpty, Leave, ListQueue, Fetch, CopyOut, RemoveSource, EntryDone,
       AllCopied, RemoveEntry, Trap, Interrupt, Crash
  <2> QED
    BY <1>2, <2>1, <2>2 DEF Complete
<1> QED
  BY <1>1, <1>2

(* The list comes to the queue last.                                       *)
LEMMA ListComesLast ==
  ASSUME TypeOK, PlacesOK, NEW c \in Clients, pc[c] = "cp", NEW i \in todo[c], IsNext(c, i),
         i = Last(c)
  PROVE  todo[c] = {i}
<1>1. \A j \in todo[c] : j \in 1 .. Last(c) /\ i <= j
  BY Lists DEF PlacesOK, PlaceOf, IsNext, TypeOK
<1> QED
  BY <1>1, Lists DEF TypeOK

LEMMA KnownStep ==
  ASSUME TypeOK, PlacesOK, NEW c \in Clients, Step(c), NEW e \in Clients, Known(e)'
  PROVE  Known(e) \/ Complete(e)'
<1> USE DEF TypeOK
<1>1. CASE CpStep(c)
  <2>1. PICK i \in todo[c] :
          /\ IsNext(c, i) /\ Took(c, i)
          /\ QueueEntry(c, i) \/ queue' = queue
    BY <1>1 DEF CpStep, StageFile, DirectCopy, fileVars
  <2>2. pc[c] = "cp" /\ UNCHANGED <<snap, cur, removing>>
    BY <1>1 DEF CpStep, daemonVars
  <2>3. CASE queue' = queue
    BY <2>2, <2>3 DEF Known
  <2>4. CASE QueueEntry(c, i)
    <3>1. i = Last(c)
      BY <2>2, <2>4, Lists DEF QueueEntry, PlacesOK, PlaceOf
    <3>2. todo'[c] = {}
      BY <2>1, <2>2, <3>1, ListComesLast DEF Took
    <3> QED
      BY <2>2, <2>4, <3>2 DEF QueueEntry, Known, Complete
  <2> QED
    BY <2>1, <2>3, <2>4
<1>2. CASE UNCHANGED <<queue, snap, cur, removing>>
  BY <1>2 DEF Known
<1>3. CASE ListQueue(c)
  BY <1>3 DEF ListQueue, Known, fileVars
<1>4. CASE Fetch(c)
  <2>1. PICK l \in snap[c] : snap' = [snap EXCEPT ![c] = @ \ {l}] /\ cur' = [cur EXCEPT ![c] = l]
    BY <1>4 DEF Fetch
  <2>2. UNCHANGED <<removing, queue>>
    BY <1>4 DEF Fetch, fileVars
  <2>3. ASSUME NEW d \in Clients, e \in snap'[d] \/ cur'[d] = e
        PROVE  e \in snap[d] \/ cur[d] = e
    BY <2>1, <2>3
  <2> QED
    BY <2>2, <2>3 DEF Known
<1>5. CASE EntryDone(c)
  <2>1. /\ cur' = [cur EXCEPT ![c] = NoEntry]
        /\ removing' = removing \union {<<c, cur[c]>>}
        /\ UNCHANGED <<queue, snap>>
    BY <1>5 DEF EntryDone, fileVars
  <2>2. ASSUME NEW d \in Clients, cur'[d] = e \/ <<d, e>> \in removing'
        PROVE  cur[d] = e \/ <<d, e>> \in removing
    BY <2>1, <2>2, ConstantsAssumption
  <2> QED
    BY <2>1, <2>2 DEF Known
<1>6. CASE RemoveEntry(c)
  BY <1>6 DEF RemoveEntry, Known
<1>7. CASE Interrupt(c) \/ Crash(c)
  BY <1>7, ConstantsAssumption DEF Interrupt, Crash, Known, fileVars
<1> QED
  BY <1>1, <1>2, <1>3, <1>4, <1>5, <1>6, <1>7 DEF Step, ClientStep, CleanupStage, Return,
     Contend, LockAppears, Acquire, Refuse, QueueFound, QueueEmpty, Leave, CopyOut, RemoveSource,
     AllCopied, Trap, fileVars, daemonVars

(* What a step does to the files of a client: only cp stages, and nothing  *)
(* that has been delivered goes.                                           *)
LEMMA FileSteps ==
  ASSUME TypeOK, NEW c \in Clients, Step(c)
  PROVE  /\ delivered \subseteq delivered'
         /\ \/ staged' \subseteq staged
            \/ /\ pc[c] = "cp"
               /\ \E i \in todo[c] : i \in StagedFiles(c) /\ staged' = staged \union {<<c, i>>}
BY DEF Step, ClientStep, CpStep, StageFile, DirectCopy, QueueEntry, CleanupStage, Return, Contend,
   LockAppears, Acquire, Refuse, QueueFound, QueueEmpty, Leave, ListQueue, Fetch, CopyOut,
   RemoveSource, EntryDone, AllCopied, RemoveEntry, Trap, Interrupt, Crash, fileVars

LEMMA InvPreserved == Inv /\ [Next]_vars => Inv'
<1> SUFFICES ASSUME Inv, [Next]_vars PROVE Inv'
  OBVIOUS
<1> USE DEF Inv
<1>1. TypeOK' /\ PlacesOK'
  BY TypePreserved
<1>2. UNCHANGED <<call, faults>>
  BY DEF Next, vars
<1>3. CASE UNCHANGED vars
  <2>1. KnownIsComplete'
    BY <1>3 DEF KnownIsComplete, Known, Complete, vars, daemonVars, fileVars
  <2>2. OnlyListed'
    BY <1>2, <1>3, ListsFixed DEF OnlyListed, vars, fileVars
  <2> QED
    BY <1>1, <2>1, <2>2
<1>4. ASSUME NEW c \in Clients, Step(c) PROVE KnownIsComplete' /\ OnlyListed'
  <2>1. KnownIsComplete'
    BY <1>4, KnownStep, StaysComplete DEF KnownIsComplete
  <2>2. OnlyListed'
    BY <1>2, <1>4, FileSteps, ListsFixed DEF OnlyListed
  <2> QED
    BY <2>1, <2>2
<1> QED
  BY <1>1, <1>3, <1>4 DEF Next

LEMMA InvInitially == Init => Inv
<1> SUFFICES ASSUME Init PROVE Inv
  OBVIOUS
<1>1. /\ call \in [Clients -> Calls] /\ Lock!TypeOK
      /\ pc \in [Clients -> Places] /\ rres \in [Clients -> {0, 1}]
  BY DEF Init, Lock!Init, Lock!TypeOK, Lock!Phases, Places
<1>2. ASSUME NEW c \in Clients
      PROVE  /\ CpList(c) \subseteq 1 .. Last(c)
             /\ CpList(c) = {} \/ Last(c) \in CpList(c)
             /\ CpList(c) \in SUBSET Nat
  BY <1>1, Lists
<1> QED
  BY <1>1, <1>2, ConstantsAssumption DEF Init, Inv, TypeOK, PlacesOK, PlaceOf, KnownIsComplete,
     Known, OnlyListed

(* The variables keep their types; no loop passes the end of its list.     *)
THEOREM TypeCorrect == Spec => []TypeOK
<1>1. Inv => TypeOK
  BY DEF Inv
<1> QED
  BY InvInitially, InvPreserved, <1>1, PTL DEF Spec

-----------------------------------------------------------------------------
(* What is known about the files of a complete entry stays true.           *)

LEMMA OutStays ==
  ASSUME Inv, NEW c \in Clients, Step(c), NEW e \in Clients, Complete(e), NEW f, Out(e, f)
  PROVE  Out(e, f)'
<1>1. <<e, f>> \in staged' => <<e, f>> \in staged
  BY FileSteps DEF Inv, Complete
<1> QED
  BY <1>1, FileSteps DEF Inv, Out

LEMMA SettledStays ==
  ASSUME Inv, NEW c \in Clients, Step(c), call' = call, NEW e \in Clients, Complete(e), Settled(e)
  PROVE  Settled(e)'
BY OutStays, ListsFixed DEF Settled

(* A daemon's own loops: a line of the list it has been through is copied. *)
LEMMA DaemonCopies ==
  ASSUME Inv, DaemonCopied, NEW c \in Clients, Step(c), UNCHANGED <<call, faults>>,
         "copy" \notin faults
  PROVE  DaemonCopied'
<1> USE DEF Inv, TypeOK
<1>1. \A d \in Clients : cur[d] \in Clients => Complete(cur[d])
  BY DEF KnownIsComplete, Known
<1>2. \A e \in Clients : StagedFiles(e)' = StagedFiles(e)
  BY ListsFixed
<1>3. \A d \in Clients : pc[d] \in {"copying", "cleaning"} => cur[d] \in Clients
  BY DEF PlacesOK, PlaceOf
<1>4. ASSUME NEW d \in Clients, pc'[d] = pc[d], todo'[d] = todo[d], cur'[d] = cur[d]
      PROVE  CopiedBy(d)'
  BY <1>1, <1>2, <1>3, <1>4, OutStays DEF DaemonCopied, CopiedBy
<1>5. ASSUME NEW d \in Clients, d # c PROVE CopiedBy(d)'
  BY <1>4, <1>5, OneMoves
<1>6. CopiedBy(c)'
  <2>1. CASE Fetch(c)
    <3>1. PICK e \in snap[c] : /\ cur' = [cur EXCEPT ![c] = e]
                               /\ \/ todo' = [todo EXCEPT ![c] = StagedFiles(e)]
                                     /\ MoveTo(c, "copying")
                                  \/ MoveTo(c, "cleaning") /\ todo' = todo
      BY <2>1 DEF Fetch
    <3>2. todo[c] = {}
      BY <2>1 DEF Fetch, PlacesOK, PlaceOf
    <3> QED
      BY <1>2, <3>1, <3>2 DEF CopiedBy, MoveTo
  <2>2. CASE CopyOut(c)
    <3>1. PICK f \in todo[c] :
            /\ delivered' = delivered \union ({<<cur[c], f>>} \cap staged)
            /\ IF todo[c] = {f}
               THEN /\ todo' = [todo EXCEPT ![c] = StagedFiles(cur[c])]
                    /\ MoveTo(c, "cleaning")
               ELSE Took(c, f) /\ UNCHANGED pc
      BY <2>2 DEF CopyOut
    <3>2. UNCHANGED <<cur, staged>> /\ cur[c] \in Clients /\ pc[c] = "copying"
      BY <1>3, <2>2 DEF CopyOut, daemonVars
    <3>3. \A g \in StagedFiles(cur[c]) : g \notin todo[c] \/ g = f => Out(cur[c], g)'
      BY <3>1, <3>2 DEF Out, DaemonCopied, CopiedBy
    <3>4. CASE todo[c] = {f}
      <4>1. pc'[c] = "cleaning" /\ todo'[c] = StagedFiles(cur[c]) /\ cur'[c] = cur[c]
        BY <3>1, <3>2, <3>4 DEF MoveTo
      <4> QED
        BY <3>3, <3>4, <4>1 DEF CopiedBy
    <3>5. CASE todo[c] # {f}
      <4>1. pc'[c] = "copying" /\ todo'[c] = todo[c] \ {f} /\ cur'[c] = cur[c]
        BY <3>1, <3>2, <3>5 DEF Took
      <4> QED
        BY <1>2, <3>2, <3>3, <4>1 DEF CopiedBy
    <3> QED
      BY <3>4, <3>5
  <2>3. CASE RemoveSource(c)
    <3>1. pc' = pc /\ cur' = cur /\ pc[c] = "cleaning" /\ todo'[c] \subseteq todo[c]
      BY <2>3 DEF RemoveSource, Took, daemonVars
    <3> QED
      BY <1>1, <1>3, <3>1, OutStays DEF DaemonCopied, CopiedBy
  <2>4. CASE pc'[c] \notin {"copying", "cleaning"}
    BY <2>4 DEF CopiedBy
  <2>5. CASE UNCHANGED <<pc, todo, cur>>
    BY <1>4, <2>5
  <2> QED
    BY <2>1, <2>2, <2>3, <2>4, <2>5 DEF Step, ClientStep, CpStep, CleanupStage, Return, Contend,
       LockAppears, Acquire, Refuse, QueueFound, QueueEmpty, Leave, ListQueue, EntryDone,
       AllCopied, RemoveEntry, Trap, Interrupt, Crash, MoveTo, daemonVars
<1> QED
  BY <1>5, <1>6 DEF DaemonCopied

(* The entries: one leaves the queue only when it is settled.              *)
LEMMA CoveredStays ==
  ASSUME Inv, TakenIsSettled, NEW c \in Clients, Step(c), call' = call,
         NEW e \in Clients, Complete(e), QueuedOrSettled(e)
  PROVE  QueuedOrSettled(e)'
<1>1. e \in queue => e \in queue' \/ <<c, e>> \in removing
  BY DEF Inv, TypeOK, Step, ClientStep, CpStep, StageFile, DirectCopy, QueueEntry, CleanupStage,
     Return, Contend, LockAppears, Acquire, Refuse, QueueFound, QueueEmpty, Leave, ListQueue,
     Fetch, CopyOut, RemoveSource, EntryDone, AllCopied, RemoveEntry, Trap, Interrupt, Crash,
     fileVars
<1>2. CASE e \in queue'
  BY <1>2 DEF QueuedOrSettled
<1>3. CASE Settled(e)
  BY <1>3, SettledStays DEF QueuedOrSettled
<1> QED
  BY <1>1, <1>2, <1>3 DEF TakenIsSettled, QueuedOrSettled

LEMMA EntriesCovered ==
  ASSUME Inv, DaemonCopied, Covered, NEW c \in Clients, Step(c), UNCHANGED <<call, faults>>,
         faults \cap {"copy", "fetch"} = {}
  PROVE  Covered'
<1> USE DEF Inv, TypeOK, Covered
<1>0. \A e \in Clients : /\ StagedFiles(e)' = StagedFiles(e) /\ Last(e)' = Last(e)
  BY ListsFixed
<1>1. ASSUME NEW d \in Clients, NEW e \in Clients,
             (pc'[d] = "cleaning" /\ cur'[d] = e) \/ <<d, e>> \in removing'
      PROVE  Settled(e)'
  <2>1. CASE (pc[d] = "cleaning" /\ cur[d] = e) \/ <<d, e>> \in removing
    <3>1. Complete(e)
      BY <2>1 DEF KnownIsComplete, Known
    <3> QED
      BY <2>1, <3>1, SettledStays DEF TakenIsSettled
  <2>2. CASE Fetch(c)
    <3>1. PICK l \in snap[c] :
            /\ cur' = [cur EXCEPT ![c] = l]
            /\ \/ MoveTo(c, "copying")
               \/ l \notin queue /\ MoveTo(c, "cleaning")
      <4>1. "fetch" \notin faults
        OBVIOUS
      <4> QED
        BY <2>2, <4>1 DEF Fetch
    <3>2. removing' = removing /\ UNCHANGED fileVars
      BY <2>2 DEF Fetch
    <3>3. CASE <<d, e>> \in removing \/ d # c
      BY <1>1, <2>1, <3>2, <3>3, OneMoves
    <3>4. CASE d = c /\ e = l /\ l \notin queue
      <4>1. Settled(e) /\ Complete(e)
        BY <3>4 DEF ListedIsCovered, QueuedOrSettled, KnownIsComplete, Known
      <4> QED
        BY <4>1, SettledStays
    <3> QED
      BY <1>1, <3>1, <3>2, <3>3, <3>4 DEF MoveTo
  <2>3. CASE CopyOut(c)
    <3>1. removing' = removing /\ cur' = cur /\ pc[c] = "copying" /\ cur[c] \in Clients
      BY <2>3 DEF CopyOut, daemonVars, PlacesOK, PlaceOf
    <3>2. CASE <<d, e>> \in removing \/ d # c
      BY <1>1, <2>1, <3>1, <3>2, OneMoves
    <3>3. CASE d = c /\ pc'[c] = "cleaning" /\ e = cur[c]
      <4>1. PICK f \in todo[c] : \/ /\ todo[c] = {f}
                                    /\ todo' = [todo EXCEPT ![c] = StagedFiles(cur[c])]
                                 \/ pc' = pc
        BY <2>3 DEF CopyOut
      <4>2. todo'[c] = StagedFiles(e)
        BY <3>1, <3>3, <4>1
      <4>3. DaemonCopied'
        BY DaemonCopies
      <4> QED
        BY <1>0, <3>1, <3>3, <4>2, <4>3 DEF DaemonCopied, CopiedBy, Settled
    <3> QED
      BY <1>1, <3>1, <3>2, <3>3
  <2>4. CASE EntryDone(c)
    <3>1. /\ removing' = removing \union {<<c, cur[c]>>} /\ pc[c] = "cleaning"
          /\ cur[c] \in Clients /\ pc'[c] = "entry"
      BY <2>4 DEF EntryDone, MoveTo, PlacesOK, PlaceOf
    <3> QED
      BY <1>1, <2>1, <3>1, OneMoves
  <2>5. CASE Interrupt(c) \/ Crash(c)
    <3>1. removing' \subseteq removing /\ pc'[c] # "cleaning"
      BY <2>5 DEF Interrupt, Crash, MoveTo
    <3> QED
      BY <1>1, <2>1, <3>1, OneMoves
  <2>6. CASE /\ removing' \subseteq removing /\ cur' = cur
             /\ pc'[c] = "cleaning" => pc[c] = "cleaning"
    BY <1>1, <2>1, <2>6, OneMoves
  <2> QED
    BY <2>2, <2>3, <2>4, <2>5, <2>6 DEF Step, ClientStep, CpStep, CleanupStage, Return, Contend,
       LockAppears, Acquire, Refuse, QueueFound, QueueEmpty, Leave, ListQueue, RemoveSource,
       AllCopied, RemoveEntry, Trap, MoveTo, daemonVars
<1>2. ASSUME NEW d \in Clients, NEW e \in snap'[d] PROVE QueuedOrSettled(e)'
  <2>1. CASE e \in snap[d]
    <3>1. QueuedOrSettled(e) /\ Complete(e)
      BY <2>1 DEF ListedIsCovered, KnownIsComplete, Known
    <3> QED
      BY <2>1, <3>1, CoveredStays
  <2>2. CASE snap' = [snap EXCEPT ![c] = queue] /\ queue' = queue
    BY <1>2, <2>1, <2>2 DEF QueuedOrSettled
  <2>3. CASE snap'[c] \subseteq snap[c]
    BY <1>2, <2>1, <2>3, OneMoves
  <2> QED
    BY <2>2, <2>3 DEF Step, ClientStep, CpStep, CleanupStage, Return, Contend, LockAppears,
       Acquire, Refuse, QueueFound, QueueEmpty, Leave, ListQueue, Fetch, CopyOut, RemoveSource,
       EntryDone, AllCopied, RemoveEntry, Trap, Interrupt, Crash, daemonVars, fileVars
<1>3. ASSUME NEW d \in Clients, rres'[d] = 0, pc'[d] = "cp"
      PROVE  Last(d)' \in todo'[d] \/ QueuedOrSettled(d)'
  <2>1. CASE rres[d] = 0 /\ pc[d] = "cp" /\ todo'[d] = todo[d]
    <3>1. CASE Last(d) \in todo[d]
      BY <1>0, <2>1, <3>1
    <3>2. CASE Last(d) \notin todo[d]
      <4>1. Complete(d) /\ QueuedOrSettled(d)
        BY <2>1, <3>2 DEF PlacesOK, PlaceOf, Complete, StagedIsCovered
      <4> QED
        BY <4>1, CoveredStays
    <3> QED
      BY <3>1, <3>2
  <2>2. CASE d = c /\ CpStep(c)
    <3>1. PICK i \in todo[c] :
            /\ IsNext(c, i) /\ Took(c, i)
            /\ \/ StageFile(c, i) \/ DirectCopy(c, i) \/ QueueEntry(c, i)
               \/ rres' = [rres EXCEPT ![c] = 1]
      BY <2>2 DEF CpStep
    <3>2. StageFile(c, i) \/ DirectCopy(c, i) \/ QueueEntry(c, i)
      BY <1>3, <2>2, <3>1
    <3>3. todo'[c] = todo[c] \ {i} /\ Last(c) \in todo[c]
      BY <2>2, <3>1 DEF Took, CpStep, PlacesOK, PlaceOf
    <3>4. CASE i # Last(c)
      BY <1>0, <2>2, <3>3, <3>4
    <3>5. CASE i = Last(c) /\ StagedFiles(c) = {}
      BY <1>0, <2>2, <3>5 DEF QueuedOrSettled, Settled
    <3>6. CASE i = Last(c) /\ StagedFiles(c) # {}
      <4>1. i \notin Files(c)
        BY <3>6, Lists
      <4>2. QueueEntry(c, i)
        BY <3>2, <4>1 DEF StageFile, DirectCopy, StagedFiles
      <4> QED
        BY <2>2, <4>2 DEF QueueEntry, QueuedOrSettled
    <3> QED
      BY <3>4, <3>5, <3>6
  <2>3. CASE d # c
    BY <1>3, <2>1, <2>3, OneMoves
  <2>4. pc[c] = "cp" \/ pc'[c] # "cp"
    BY DEF Step, ClientStep, CpStep, CleanupStage, Return, Contend, LockAppears, Acquire, Refuse,
       QueueFound, QueueEmpty, Leave, ListQueue, Fetch, CopyOut, RemoveSource, EntryDone,
       AllCopied, RemoveEntry, Trap, Interrupt, Crash, MoveTo
  <2>5. CASE d = c /\ UNCHANGED <<rres, todo>>
    BY <1>3, <2>1, <2>4, <2>5
  <2>6. CASE pc[c] # "cp" \/ pc'[c] # "cp"
    BY <1>3, <2>3, <2>4, <2>6
  <2> QED
    BY <2>2, <2>3, <2>5, <2>6 DEF Step, ClientStep, CleanupStage, Return, Contend, LockAppears,
       Acquire, Refuse, QueueFound, QueueEmpty, Leave, ListQueue, Fetch, CopyOut, RemoveSource,
       EntryDone, AllCopied, RemoveEntry, Trap, Interrupt, Crash, MoveTo
<1>4. ASSUME NEW d \in Clients, rres'[d] = 0, pc'[d] \notin {"cp", "aborted"}
      PROVE  QueuedOrSettled(d)'
  <2>1. rres[d] = 0
    <3>1. rres' = rres \/ rres' = [rres EXCEPT ![c] = 1]
      BY DEF Step, ClientStep, CpStep, CleanupStage, Return, Contend, LockAppears, Acquire,
         Refuse, QueueFound, QueueEmpty, Leave, ListQueue, Fetch, CopyOut, RemoveSource,
         EntryDone, AllCopied, RemoveEntry, Trap, Interrupt, Crash
    <3> QED
      BY <1>4, <3>1
  <2>2. CASE pc[d] \notin {"cp", "aborted"}
    BY <2>1, <2>2, CoveredStays DEF StagedIsCovered, Complete
  <2>3. CASE pc[d] = "cp" /\ todo[d] = {}
    BY <2>1, <2>3, CoveredStays DEF StagedIsCovered, Complete
  <2>4. \/ pc[c] \notin {"cp", "aborted"}
        \/ pc'[c] \in {"cp", "aborted"}
        \/ pc[c] = "cp" /\ todo[c] = {}
    BY DEF Step, ClientStep, CpStep, CleanupStage, Return, Contend, LockAppears, Acquire, Refuse,
       QueueFound, QueueEmpty, Leave, ListQueue, Fetch, CopyOut, RemoveSource, EntryDone,
       AllCopied, RemoveEntry, Trap, Interrupt, Crash, MoveTo
  <2> QED
    BY <1>4, <2>2, <2>3, <2>4, OneMoves
<1>5. TakenIsSettled'
  BY <1>1 DEF TakenIsSettled
<1>6. ListedIsCovered'
  BY <1>2 DEF ListedIsCovered
<1>7. StagedIsCovered'
  BY <1>3, <1>4 DEF StagedIsCovered
<1> QED
  BY <1>5, <1>6, <1>7

LEMMA KeptPreserved ==
  Inv /\ CopiesWork /\ QueueKept /\ [Next]_vars => CopiesWork' /\ QueueKept'
<1> SUFFICES ASSUME Inv, CopiesWork, QueueKept, [Next]_vars PROVE CopiesWork' /\ QueueKept'
  OBVIOUS
<1>1. UNCHANGED <<call, faults>>
  BY DEF Next, vars
<1>2. CASE UNCHANGED vars
  <2>1. \A c \in Clients : StagedFiles(c)' = StagedFiles(c) /\ Last(c)' = Last(c)
    BY <1>1, ListsFixed
  <2>2. \A e, f : Out(e, f)' = Out(e, f)
    BY <1>2 DEF Out, vars, fileVars
  <2>3. \A e \in Clients : Settled(e)' = Settled(e) /\ QueuedOrSettled(e)' = QueuedOrSettled(e)
    BY <1>2, <2>1, <2>2 DEF Settled, QueuedOrSettled, vars, fileVars
  <2>4. DaemonCopied => DaemonCopied'
    BY <1>2, <2>1, <2>2 DEF DaemonCopied, CopiedBy, vars, daemonVars, Inv, PlacesOK, PlaceOf
  <2>5. Covered => Covered'
    BY <1>2, <2>1, <2>3 DEF Covered, TakenIsSettled, ListedIsCovered, StagedIsCovered, vars,
       daemonVars, Inv, TypeOK
  <2> QED
    BY <1>1, <2>4, <2>5 DEF CopiesWork, QueueKept
<1>3. ASSUME NEW c \in Clients, Step(c) PROVE CopiesWork' /\ QueueKept'
  BY <1>1, <1>3, DaemonCopies, EntriesCovered DEF CopiesWork, QueueKept
<1> QED
  BY <1>2, <1>3 DEF Next

LEMMA KeptInitially == Init => CopiesWork /\ QueueKept
<1> SUFFICES ASSUME Init PROVE DaemonCopied /\ Covered
  BY DEF CopiesWork, QueueKept
<1>1. \A c \in Clients : Settled(c)
  BY DEF Init, Settled, Out
<1> QED
  BY <1>1 DEF Init, DaemonCopied, CopiedBy, Covered, TakenIsSettled, ListedIsCovered,
     StagedIsCovered, QueuedOrSettled

Kept == Inv /\ CopiesWork /\ QueueKept

LEMMA KeptInvariant == Spec => []Kept
<1>1. Init => Kept
  BY InvInitially, KeptInitially DEF Kept
<1>2. Kept /\ [Next]_vars => Kept'
  BY InvPreserved, KeptPreserved DEF Kept
<1> QED
  BY <1>1, <1>2, PTL DEF Spec

(* Whatever dies, is interrupted or is done twice, an entry leaves the     *)
(* queue only when what it lists has been delivered: ifdh_copyback.sh      *)
(* removes an entry after it waited for the copies of its files.           *)
THEOREM EntryStays == Spec => []StagedIsQueued
<1>1. Kept => StagedIsQueued
  <2> SUFFICES ASSUME Kept, faults \cap {"copy", "fetch"} = {}, NEW c \in Clients,
                      pc[c] \notin {"cp", "aborted"}, rres[c] = 0, NEW p \in FilesOf(c),
                      p \in staged \ delivered
               PROVE  c \in queue
    BY DEF StagedIsQueued
  <2>1. PICK f \in Files(c) : p = <<c, f>>
    BY DEF FilesOf
  <2>2. QueuedOrSettled(c) /\ f \in StagedFiles(c)
    BY <2>1 DEF Kept, QueueKept, Covered, StagedIsCovered, Inv, OnlyListed
  <2> QED
    BY <2>1, <2>2 DEF QueuedOrSettled, Settled, Out
<1> QED
  BY KeptInvariant, <1>1, PTL

-----------------------------------------------------------------------------
(* A file that is in the stage area or delivered is never lost again.      *)

LEMMA FurtherStays ==
  ASSUME Inv, DaemonCopied, NEW c \in Clients, Step(c), NEW e, NEW f, Further(e, f)
  PROVE  Further(e, f)'
<1> USE DEF Further
<1>1. CASE RemoveSource(c)
  <2>1. PICK g \in todo[c] : staged' = staged \ {<<cur[c], g>>} \/ staged' = staged
    BY <1>1 DEF RemoveSource
  <2>2. Out(cur[c], g) /\ delivered' = delivered
    BY <1>1, <2>1 DEF RemoveSource, DaemonCopied, CopiedBy
  <2> QED
    BY <2>1, <2>2 DEF Out
<1>2. CASE staged \subseteq staged'
  BY <1>2, FileSteps DEF Inv
<1> QED
  BY <1>1, <1>2 DEF Step, ClientStep, CpStep, StageFile, DirectCopy, QueueEntry, CleanupStage,
     Return, Contend, LockAppears, Acquire, Refuse, QueueFound, QueueEmpty, Leave, ListQueue,
     Fetch, CopyOut, EntryDone, AllCopied, RemoveEntry, Trap, Interrupt, Crash, fileVars

LEMMA SoFarStays ==
  ASSUME Inv, DaemonCopied, CopiedSoFar, NEW c \in Clients, Step(c), UNCHANGED <<call, faults>>
  PROVE  CopiedSoFar'
<1> USE DEF Inv, TypeOK
<1>1. \A d \in Clients : Files(d)' = Files(d)
  BY ListsFixed
<1>2. \A d \in Clients : rres'[d] = 0 => rres[d] = 0
  <2>1. rres' = rres \/ rres' = [rres EXCEPT ![c] = 1]
    BY DEF Step, ClientStep, CpStep, CleanupStage, Return, Contend, LockAppears, Acquire, Refuse,
       QueueFound, QueueEmpty, Leave, ListQueue, Fetch, CopyOut, RemoveSource, EntryDone,
       AllCopied, RemoveEntry, Trap, Interrupt, Crash
  <2> QED
    BY <2>1
<1>3. \A d \in Clients : AllFurther(d) => AllFurther(d)'
  BY <1>1, FurtherStays DEF AllFurther
<1>4. ASSUME NEW d \in Clients, rres'[d] = 0, pc'[d] = "cp", NEW f \in Files(d) \ todo'[d]
      PROVE  Further(d, f)'
  <2>1. CASE pc[d] = "cp" /\ f \notin todo[d]
    BY <1>2, <1>4, <2>1, FurtherStays DEF CopiedSoFar
  <2>2. CASE CpStep(c) /\ f \in todo[c] /\ d = c
    <3>1. PICK i \in todo[c] :
            /\ Took(c, i)
            /\ \/ StageFile(c, i) \/ DirectCopy(c, i) \/ QueueEntry(c, i)
               \/ rres' = [rres EXCEPT ![c] = 1]
      BY <2>2 DEF CpStep
    <3>2. f = i
      BY <1>4, <2>2, <3>1 DEF Took
    <3>3. StageFile(c, f) \/ DirectCopy(c, f)
      BY <1>4, <2>2, <3>1, <3>2 DEF QueueEntry
    <3> QED
      BY <2>2, <3>3 DEF StageFile, DirectCopy, Further
  <2>3. pc'[c] = "cp" => pc[c] = "cp" /\ (CpStep(c) \/ todo' = todo)
    <3>1. pc'[c] = "cp" => pc[c] = "cp"
      BY DEF Step, ClientStep, CpStep, CleanupStage, Return, Contend, LockAppears, Acquire,
         Refuse, QueueFound, QueueEmpty, Leave, ListQueue, Fetch, CopyOut, RemoveSource,
         EntryDone, AllCopied, RemoveEntry, Trap, Interrupt, Crash, MoveTo
    <3>2. pc[c] = "cp" => CpStep(c) \/ todo' = todo \/ pc'[c] = "aborted"
      BY DEF Step, ClientStep, CleanupStage, Return, Contend, LockAppears, Acquire, Refuse,
         QueueFound, QueueEmpty, Leave, ListQueue, Fetch, CopyOut, RemoveSource, EntryDone,
         AllCopied, RemoveEntry, Trap, Interrupt, Crash, MoveTo
    <3> QED
      BY <3>1, <3>2
  <2>4. CASE d = c
    BY <1>4, <2>1, <2>2, <2>3, <2>4
  <2>5. CASE d # c
    BY <1>4, <2>1, <2>5, OneMoves
  <2> QED
    BY <2>4, <2>5
<1>5. ASSUME NEW d \in Clients, rres'[d] = 0, pc'[d] \notin {"cp", "aborted"} \/ d \in queue'
      PROVE  AllFurther(d)'
  <2>1. CASE pc[d] \notin {"cp", "aborted"} \/ d \in queue
    BY <1>2, <1>3, <1>5, <2>1 DEF CopiedSoFar
  <2>2. CASE pc[d] = "cp" /\ todo[d] = {}
    <3>1. AllFurther(d)
      BY <1>2, <1>5, <2>2 DEF CopiedSoFar, AllFurther
    <3> QED
      BY <1>3, <3>1
  <2>3. CASE d = c /\ \E i \in todo[c] : CpStep(c) /\ IsNext(c, i) /\ QueueEntry(c, i)
    <3>1. PICK i \in todo[c] : CpStep(c) /\ IsNext(c, i) /\ QueueEntry(c, i)
      BY <2>3
    <3>2. pc[c] = "cp" /\ todo[c] \subseteq 1 .. Last(c) /\ i \notin Files(c)
      BY <3>1, Lists DEF CpStep, QueueEntry, PlacesOK, PlaceOf
    <3>3. i = Last(c) /\ todo[c] = {i}
      BY <3>1, <3>2, Lists, ListComesLast
    <3>4. AllFurther(c)
      BY <1>2, <1>5, <2>3, <3>2, <3>3 DEF CopiedSoFar, AllFurther
    <3> QED
      BY <1>3, <2>3, <3>4
  <2>4. \/ queue' \subseteq queue
        \/ \E i \in todo[c] : /\ CpStep(c) /\ IsNext(c, i) /\ QueueEntry(c, i)
                              /\ queue' = queue \union {c} /\ pc' = pc
    BY DEF Step, ClientStep, CpStep, StageFile, DirectCopy, QueueEntry, CleanupStage, Return,
       Contend, LockAppears, Acquire, Refuse, QueueFound, QueueEmpty, Leave, ListQueue, Fetch,
       CopyOut, RemoveSource, EntryDone, AllCopied, RemoveEntry, Trap, Interrupt, Crash, fileVars
  <2>5. CASE d \in queue'
    BY <2>1, <2>3, <2>4, <2>5
  <2>6. CASE pc'[d] \notin {"cp", "aborted"}
    <3>1. \/ pc[c] \notin {"cp", "aborted"} \/ pc'[c] \in {"cp", "aborted"}
          \/ pc[c] = "cp" /\ todo[c] = {}
      BY DEF Step, ClientStep, CpStep, CleanupStage, Return, Contend, LockAppears, Acquire,
         Refuse, QueueFound, QueueEmpty, Leave, ListQueue, Fetch, CopyOut, RemoveSource,
         EntryDone, AllCopied, RemoveEntry, Trap, Interrupt, Crash, MoveTo
    <3> QED
      BY <2>1, <2>2, <2>6, <3>1, OneMoves
  <2> QED
    BY <1>5, <2>5, <2>6
<1> QED
  BY <1>1, <1>4, <1>5 DEF CopiedSoFar

LEMMA ReadyPreserved == Kept /\ Ready /\ [Next]_vars => Ready'
<1> SUFFICES ASSUME Kept, [Next]_vars, CopiedSoFar, "copy" \notin faults PROVE CopiedSoFar'
  BY DEF Ready, Next, vars
<1>1. UNCHANGED <<call, faults>>
  BY DEF Next, vars
<1>2. CASE UNCHANGED vars
  <2>1. \A c \in Clients : Files(c)' = Files(c)
    BY <1>1, ListsFixed
  <2> QED
    BY <1>2, <2>1 DEF CopiedSoFar, AllFurther, Further, vars, fileVars
<1>3. ASSUME NEW c \in Clients, Step(c) PROVE CopiedSoFar'
  BY <1>1, <1>3, SoFarStays DEF Kept, CopiesWork
<1> QED
  BY <1>2, <1>3 DEF Next

LEMMA ReadyInitially == Init => Ready
<1> SUFFICES ASSUME Init, NoOptions PROVE CopiedSoFar
  BY DEF Ready
<1>1. ASSUME NEW c \in Clients PROVE Files(c) \ todo[c] = {}
  <2>1. call[c] \in Calls /\ call[c].options = 0 /\ call \in [Clients -> Calls]
    BY DEF Init, NoOptions
  <2>2. Skipped(c) = 0
    BY <2>1 DEF Skipped
  <2>3. todo[c] = 1 .. Last(c)
    BY <2>2 DEF Init, CpList
  <2> QED
    BY <2>1, <2>3, Lists
<1>2. \A c \in Clients : pc[c] = "cp" /\ c \notin queue
  BY DEF Init
<1> QED
  BY <1>1, <1>2 DEF CopiedSoFar

ReadyInv == Kept /\ Ready

LEMMA ReadyInvariant == Spec => []ReadyInv
<1>1. Init => Ready
  BY ReadyInitially
<1>2. Kept /\ Ready /\ [Next]_vars => Ready'
  BY ReadyPreserved
<1> QED
  BY KeptInvariant, <1>1, <1>2, PTL DEF Spec, ReadyInv

(* "copy our queue file in last, it means the others are ready to copy"    *)
(* is true of calls without option arguments.                              *)
THEOREM ReadyWhenQueued ==
  ASSUME NoOptions PROVE Spec => []QueuedMeansReady
<1>1. ReadyInv => QueuedMeansReady
  BY Lists DEF ReadyInv, Ready, CopiedSoFar, AllFurther, Further, QueuedMeansReady, Kept, Inv,
     TypeOK
<1> QED
  BY ReadyInvariant, <1>1, PTL

(* As long as the daemons' own copies work, no file is lost, whatever else *)
(* fails, dies or is done twice: it is at its source, in the stage area or *)
(* at its destination.                                                     *)
Present(e, f) == <<e, f>> \in local \/ Further(e, f)

NothingMissing == \A e \in Clients : \A f \in Files(e) : Present(e, f)

(* The list that cp removes is not one of the files.                       *)
LEMMA ListIsNoFile ==
  ASSUME SomeStaged, call \in [Clients -> Calls], NEW c \in Clients
  PROVE  Last(c) \notin Files(c)
<1>1. StagedFiles(c) # {}
  BY DEF SomeStaged, StagedFiles, Files
<1> QED
  BY <1>1, Lists

LEMMA SourcesStep ==
  ASSUME TypeOK, NEW c \in Clients, Step(c), SomeStaged
  PROVE  \A e \in Clients : \A f \in Files(e) : <<e, f>> \in local =>
           \/ <<e, f>> \in local'
           \/ e = c /\ call[c].moving /\ rres[c] = 0 /\ pc[c] = "ended"
<1>1. CASE CleanupStage(c)
  <2>1. Last(c) \notin Files(c)
    BY ListIsNoFile DEF TypeOK
  <2> QED
    BY <1>1, <2>1 DEF CleanupStage
<1>2. CASE Return(c)
  BY <1>2 DEF Return, FilesOf
<1>3. CASE local' = local
  BY <1>3
<1> QED
  BY <1>1, <1>2, <1>3 DEF Step, ClientStep, CpStep, StageFile, DirectCopy, QueueEntry, Contend,
     LockAppears, Acquire, Refuse, QueueFound, QueueEmpty, Leave, ListQueue, Fetch, CopyOut,
     RemoveSource, EntryDone, AllCopied, RemoveEntry, Trap, Interrupt, Crash, fileVars

LEMMA NothingMissingStays ==
  ASSUME ReadyInv, NoOptions, SomeStaged, "copy" \notin faults, NothingMissing, [Next]_vars
  PROVE  NothingMissing'
<1>1. UNCHANGED <<call, faults>>
  BY DEF Next, vars
<1>2. \A e \in Clients : Files(e)' = Files(e)
  BY <1>1, ListsFixed
<1>3. CASE UNCHANGED vars
  BY <1>2, <1>3 DEF NothingMissing, Present, Further, vars, fileVars
<1>4. ASSUME NEW c \in Clients, Step(c), NEW e \in Clients, NEW f \in Files(e)
      PROVE  Present(e, f)'
  <2>1. Inv /\ DaemonCopied /\ CopiedSoFar
    BY DEF ReadyInv, Kept, CopiesWork, Ready
  <2>2. CASE Further(e, f)
    BY <1>4, <2>1, <2>2, FurtherStays DEF Present
  <2>3. CASE <<e, f>> \in local'
    BY <2>3 DEF Present
  <2>4. CASE e = c /\ call[c].moving /\ rres[c] = 0 /\ pc[c] = "ended"
    BY <2>1, <2>2, <2>4 DEF CopiedSoFar, AllFurther
  <2> QED
    BY <1>4, <2>1, <2>2, <2>3, <2>4, SourcesStep DEF Inv, NothingMissing, Present
<1> QED
  BY <1>2, <1>3, <1>4 DEF Next, NothingMissing

THEOREM NothingIsLost ==
  ASSUME NoOptions, SomeStaged PROVE Spec => []NoLoss
<1>1. Init => NothingMissing
  BY DEF Init, NothingMissing, Present, AllFiles, FilesOf
<1>2. ReadyInv /\ ("copy" \notin faults => NothingMissing) /\ [Next]_vars
      => ("copy" \notin faults => NothingMissing)'
  BY NothingMissingStays DEF Next, vars
<1>3. ReadyInv /\ ("copy" \notin faults => NothingMissing) => NoLoss
  <2> SUFFICES ASSUME ReadyInv, "copy" \notin faults, NothingMissing
               PROVE  AllFiles \subseteq local \union staged \union delivered
    BY DEF NoLoss, ReadyInv, Kept, Inv, TypeOK
  <2> QED
    BY DEF AllFiles, FilesOf, NothingMissing, Present, Further
<1> QED
  BY ReadyInvariant, <1>1, <1>2, <1>3, PTL DEF Spec

(* Only mv removes a source.                                               *)
THEOREM SourceStays ==
  ASSUME SomeStaged PROVE Spec => SourceKept
<1>1. TypeOK /\ [Next]_vars =>
        [\A c \in Clients : ~call[c].moving => FilesOf(c) \cap local \subseteq local']_vars
  <2> SUFFICES ASSUME TypeOK, NEW c \in Clients, Step(c), NEW e \in Clients, ~call[e].moving
               PROVE  FilesOf(e) \cap local \subseteq local'
    BY DEF Next
  <2> QED
    BY SourcesStep DEF FilesOf
<1> QED
  BY TypeCorrect, <1>1, PTL DEF Spec, SourceKept

=============================================================================
