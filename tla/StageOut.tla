------------------------------- MODULE StageOut ------------------------------
(***************************************************************************)
(* Staging output through a shared area: `ifdh cp` and `ifdh mv` with      *)
(* IFDH_STAGE_VIA set, and the ifdh_copyback.sh that each of them runs     *)
(* before it returns.                                                      *)
(*                                                                         *)
(* A client copies its files into the data area, last of all the list of   *)
(* them into the queue, and then becomes a copyback daemon: if it is given *)
(* the lock (CopybackMutex) it copies every queued entry to its final      *)
(* destination, its own or another client's, and cleans up after it.       *)
(*                                                                         *)
(* Entry c of the queue is client c's list; file f of client c is the pair *)
(* <<c, f>>.                                                               *)
(***************************************************************************)
EXTENDS Naturals

CONSTANTS
    Clients,    \* the processes calling ifdh cp or mv
    Calls,      \* the calls they may make
    FaultSets,  \* the combinations of faults a behaviour may have
    NoEntry     \* stands for: no entry

(* A call: how many source and destination pairs, those whose destination  *)
(* is a readable local file, how many option arguments stand before the    *)
(* first pair, and whether it is mv.                                       *)
CallType ==
    [pairs : Nat \ {0}, existing : SUBSET Nat, options : Nat, moving : BOOLEAN]

(* Those of CopybackLock, and: a copy into the stage area fails, a daemon  *)
(* fails to fetch a queue entry, or to copy a file to its destination.     *)
FaultKinds == {"crash", "trap", "list", "rm", "lost", "stage", "fetch", "copy"}

ASSUME ConstantsAssumption ==
    /\ Calls \subseteq CallType
    /\ FaultSets \subseteq SUBSET FaultKinds
    /\ NoEntry \notin Clients

VARIABLES
    call,       \* the call each client makes
    pc,         \* where each client is
    todo,       \* what is left of the list it is going through
    rres,       \* the result cp is going to return
    snap,       \* the queue entries copy_files has listed and not yet taken
    cur,        \* the queue entry a daemon works on
    removing,   \* background removals of queue entries, <<daemon, entry>>
    local,      \* the sources that are there
    staged,     \* the files in the data area
    queue,      \* the entries in the queue
    delivered,  \* the files at their destination
    phase, listed, first,   \* the lock
    faults      \* the kinds of fault that may happen in this behaviour

lockVars == <<phase, listed, first>>
daemonVars == <<snap, cur, removing>>
fileVars == <<local, staged, queue, delivered>>
vars == <<call, pc, todo, rres, daemonVars, fileVars, lockVars, faults>>

Lock == INSTANCE CopybackMutex WITH Daemons <- Clients

-----------------------------------------------------------------------------
(* The copies one call makes *)

Files(c) == 1 .. call[c].pairs

FilesOf(c) == {c} \X Files(c)

AllFiles == UNION {FilesOf(c) : c \in Clients}

(* The pairs that go through the stage area, and are listed in the entry.  *)
StagedFiles(c) == Files(c) \ call[c].existing

(* Mutant: the list's own copy is not counted.                             *)
LastPair(c) == call[c].pairs

(* After the pairs comes the copy of the list itself, if there is one.     *)
Last(c) == IF StagedFiles(c) # {} THEN call[c].pairs + 1 ELSE call[c].pairs

(* build_stage_list returns the arguments without the options, three for a *)
(* pair, and handle_args still starts after as many as there were options. *)
Skipped(c) == (call[c].options + 2) \div 3

(* Mutant: one argument too many.                                          *)
CpListLong(c) == (Skipped(c) + 1) .. (Last(c) + 1)

CpList(c) == (Skipped(c) + 1) .. Last(c)

Places == {"cp", "lock", "have_queue", "copy_files", "entry", "copying",
           "cleaning", "leave", "ended", "returned", "aborted", "dead"}

(* Type invariant; in particular no loop goes past the end of its list,    *)
(* neither cp's nor those of a daemon over an entry of any client.         *)
TypeOK ==
    /\ call \in [Clients -> Calls]
    /\ pc \in [Clients -> Places]
    /\ todo \in [Clients -> SUBSET Nat]
    /\ \A c \in Clients :
         todo[c] \subseteq IF cur[c] = NoEntry THEN 1 .. Last(c) ELSE StagedFiles(cur[c])
    /\ rres \in [Clients -> {0, 1}]
    /\ snap \in [Clients -> SUBSET Clients]
    /\ cur \in [Clients -> Clients \union {NoEntry}]
    /\ removing \subseteq Clients \X Clients
    /\ local \subseteq AllFiles
    /\ staged \subseteq AllFiles
    /\ delivered \subseteq AllFiles
    /\ queue \subseteq Clients
    /\ Lock!TypeOK

Init ==
    /\ call \in [Clients -> Calls]
    /\ pc = [c \in Clients |-> "cp"]
    /\ todo = [c \in Clients |-> CpList(c)]
    /\ rres = [c \in Clients |-> 0]
    /\ snap = [c \in Clients |-> {}]
    /\ cur = [c \in Clients |-> NoEntry]
    /\ removing = {}
    /\ local = AllFiles
    /\ staged = {}
    /\ delivered = {}
    /\ queue = {}
    /\ Lock!Init

MoveTo(c, p) == pc' = [pc EXCEPT ![c] = p]

(* Mutant: in any order.                                                   *)
AnyOf(c, i) == i \in todo[c]

IsNext(c, i) == i \in todo[c] /\ \A j \in todo[c] : i <= j

Took(c, i) == todo' = [todo EXCEPT ![c] = @ \ {i}]

-----------------------------------------------------------------------------
(* ifdh::cp and ifdh::mv *)

StageFile(c, f) ==
    /\ f \in StagedFiles(c)
    /\ staged' = staged \union {<<c, f>>}
    /\ UNCHANGED <<local, queue, delivered>>

DirectCopy(c, f) ==
    /\ f \in Files(c) \ StagedFiles(c)
    /\ delivered' = delivered \union {<<c, f>>}
    /\ UNCHANGED <<local, staged, queue>>

QueueEntry(c, i) ==
    /\ i \notin Files(c)
    /\ queue' = queue \union {c}
    /\ UNCHANGED <<local, staged, delivered>>

(* One round of cp's loop; a copy that fails is remembered, the loop goes  *)
(* on to the next.                                                         *)
CpStep(c) ==
    /\ pc[c] = "cp"
    /\ \E i \in todo[c] :
         /\ IsNext(c, i)
         /\ Took(c, i)
         /\ \/ /\ StageFile(c, i) \/ DirectCopy(c, i) \/ QueueEntry(c, i)
               /\ UNCHANGED rres
            \/ /\ "stage" \in faults
               /\ rres' = [rres EXCEPT ![c] = 1]
               /\ UNCHANGED fileVars
    /\ UNCHANGED <<pc, daemonVars, lockVars>>

(* The source of the last copy is unlinked, then ifdh_copyback.sh is run.  *)
CleanupStage(c) ==
    /\ pc[c] = "cp"
    /\ todo[c] = {}
    /\ local' = local \ {<<c, i>> : i \in CpList(c) \cap {Last(c)}}
    /\ MoveTo(c, "lock")
    /\ UNCHANGED <<todo, rres, daemonVars, staged, queue, delivered, lockVars>>

(* Mutant: mv does not look at what cp returned.                           *)
ReturnRegardless(c) ==
    /\ pc[c] = "ended"
    /\ MoveTo(c, "returned")
    /\ local' = IF call[c].moving THEN local \ FilesOf(c) ELSE local
    /\ UNCHANGED <<todo, rres, daemonVars, staged, queue, delivered, lockVars>>

(* The script has ended: cp returns rres, and mv removes the sources if it *)
(* is 0.                                                                   *)
Return(c) ==
    /\ pc[c] = "ended"
    /\ MoveTo(c, "returned")
    /\ local' = IF call[c].moving /\ rres[c] = 0 THEN local \ FilesOf(c) ELSE local
    /\ UNCHANGED <<todo, rres, daemonVars, staged, queue, delivered, lockVars>>

-----------------------------------------------------------------------------
(* copy_daemon: while get_lock && have_queue *)

Contend(c) ==
    /\ pc[c] = "lock"
    /\ Lock!Contend(c)
    /\ UNCHANGED <<pc, todo, rres, daemonVars, fileVars>>

LockAppears(c) ==
    /\ phase[c] = "contending"
    /\ c \notin listed
    /\ Lock!Appear(c)
    /\ UNCHANGED <<pc, todo, rres, daemonVars, fileVars>>

Acquire(c) ==
    /\ pc[c] = "lock"
    /\ Lock!Acquire(c)
    /\ MoveTo(c, "have_queue")
    /\ UNCHANGED <<todo, rres, daemonVars, fileVars>>

Refuse(c) ==
    /\ pc[c] = "lock"
    /\ Lock!Refuse(c)
    /\ MoveTo(c, "leave")
    /\ UNCHANGED <<todo, rres, daemonVars, fileVars>>

QueueFound(c) ==
    /\ pc[c] = "have_queue"
    /\ queue # {}
    /\ MoveTo(c, "copy_files")
    /\ UNCHANGED <<todo, rres, daemonVars, fileVars, lockVars>>

QueueEmpty(c) ==
    /\ pc[c] = "have_queue"
    /\ queue = {} \/ "list" \in faults
    /\ Lock!Finish(c)
    /\ MoveTo(c, "leave")
    /\ UNCHANGED <<todo, rres, daemonVars, fileVars>>

Leave(c) ==
    /\ pc[c] = "leave"
    /\ Lock!Leave(c)
    /\ MoveTo(c, "ended")
    /\ UNCHANGED <<todo, rres, daemonVars, fileVars>>

-----------------------------------------------------------------------------
(* copy_files *)

(* Mutant: the daemon lists only the entry of its own client.              *)
ListOwn(c) ==
    /\ pc[c] = "copy_files"
    /\ snap' = [snap EXCEPT ![c] = queue \cap {c}]
    /\ MoveTo(c, "entry")
    /\ UNCHANGED <<todo, rres, cur, removing, fileVars, lockVars>>

(* ifdh ls $wprefix/queue/ | ...: the entries that are there now.          *)
ListQueue(c) ==
    /\ pc[c] = "copy_files"
    /\ \/ snap' = [snap EXCEPT ![c] = queue]
       \/ "list" \in faults /\ UNCHANGED snap
    /\ MoveTo(c, "entry")
    /\ UNCHANGED <<todo, rres, cur, removing, fileVars, lockVars>>

(* Mutant: the entry is claimed by taking it out of the queue.             *)
FetchAway(c) ==
    /\ pc[c] = "entry"
    /\ \E e \in snap[c] \cap queue :
         /\ snap' = [snap EXCEPT ![c] = @ \ {e}]
         /\ cur' = [cur EXCEPT ![c] = e]
         /\ queue' = queue \ {e}
         /\ todo' = [todo EXCEPT ![c] = StagedFiles(e)]
         /\ MoveTo(c, "copying")
    /\ UNCHANGED <<rres, removing, local, staged, delivered, lockVars>>

(* The copy of the entry to filelist; whether it worked is not looked at,  *)
(* and without it the two loops over filelist have nothing to do.          *)
Fetch(c) ==
    /\ pc[c] = "entry"
    /\ \E e \in snap[c] :
         /\ snap' = [snap EXCEPT ![c] = @ \ {e}]
         /\ cur' = [cur EXCEPT ![c] = e]
         /\ \/ /\ e \in queue
               /\ todo' = [todo EXCEPT ![c] = StagedFiles(e)]
               /\ MoveTo(c, "copying")
            \/ /\ e \notin queue \/ "fetch" \in faults
               /\ MoveTo(c, "cleaning")
               /\ UNCHANGED todo
    /\ UNCHANGED <<rres, removing, fileVars, lockVars>>

(* One line of filelist; the copy may fail, and only a message says so.    *)
(* After the last line the second loop goes through the list again.        *)
CopyOut(c) ==
    /\ pc[c] = "copying"
    /\ \E f \in todo[c] :
         /\ IsNext(c, f)
         /\ \/ delivered' = delivered \union ({<<cur[c], f>>} \cap staged)
            \/ "copy" \in faults /\ UNCHANGED delivered
         /\ IF todo[c] = {f}
            THEN /\ todo' = [todo EXCEPT ![c] = StagedFiles(cur[c])]
                 /\ MoveTo(c, "cleaning")
            ELSE Took(c, f) /\ UNCHANGED pc
    /\ UNCHANGED <<rres, daemonVars, local, staged, queue, lockVars>>

(* ifdh rm $src &: in any order, and every source, copied or not.          *)
RemoveSource(c) ==
    /\ pc[c] = "cleaning"
    /\ \E f \in todo[c] :
         /\ Took(c, f)
         /\ \/ staged' = staged \ {<<cur[c], f>>}
            \/ "rm" \in faults /\ UNCHANGED staged
    /\ UNCHANGED <<pc, rres, daemonVars, local, queue, delivered, lockVars>>

(* wait for all that runs in the background, then start removing the entry *)
(* in the background too.                                                  *)
EntryDone(c) ==
    /\ pc[c] = "cleaning"
    /\ todo[c] = {}
    /\ \A r \in removing : r[1] # c
    /\ removing' = removing \union {<<c, cur[c]>>}
    /\ cur' = [cur EXCEPT ![c] = NoEntry]
    /\ MoveTo(c, "entry")
    /\ UNCHANGED <<todo, rres, snap, fileVars, lockVars>>

(* Mutant: the entry stays in the queue.                                   *)
KeepEntry(c) ==
    /\ \E r \in removing : r[1] = c /\ removing' = removing \ {r}
    /\ UNCHANGED <<pc, todo, rres, snap, cur, fileVars, lockVars>>

RemoveEntry(c) ==
    /\ \E r \in removing :
         /\ r[1] = c
         /\ removing' = removing \ {r}
         /\ \/ queue' = queue \ {r[2]}
            \/ "rm" \in faults /\ UNCHANGED queue
    /\ UNCHANGED <<pc, todo, rres, snap, cur, local, staged, delivered, lockVars>>

(* No entry left: clean_lock, and back to get_lock.                        *)
AllCopied(c) ==
    /\ pc[c] = "entry"
    /\ snap[c] = {}
    /\ Lock!Release(c)
    /\ MoveTo(c, "lock")
    /\ UNCHANGED <<todo, rres, daemonVars, fileVars>>

-----------------------------------------------------------------------------
(* Faults *)

(* The process is killed, with or without what runs in the background.     *)
Crash(c) ==
    /\ pc[c] \notin {"returned", "aborted", "dead"}
    /\ Lock!Crash(c)
    /\ MoveTo(c, IF pc[c] = "cp" THEN "aborted" ELSE "dead")
    /\ removing' \in {removing, removing \ ({c} \X Clients)}
    /\ todo' = [todo EXCEPT ![c] = {}]
    /\ snap' = [snap EXCEPT ![c] = {}]
    /\ cur' = [cur EXCEPT ![c] = NoEntry]
    /\ UNCHANGED <<rres, fileVars>>

(* The shell acts on a trapped signal when the command it waits for ends:  *)
(* clean_lock between two commands of the script, which goes on.           *)
Trap(c) ==
    /\ Lock!Trap(c)
    /\ \/ pc[c] \in {"have_queue", "copy_files"}
       \/ pc[c] = "entry" /\ snap[c] = {}
    /\ UNCHANGED <<pc, todo, rres, daemonVars, fileVars>>

(* A signal to the whole process group also ends, at any point, the        *)
(* subshell of copy_files, where the traps are reset.                      *)
Interrupt(c) ==
    /\ Lock!Trap(c)
    /\ pc[c] \in {"entry", "copying", "cleaning"}
    /\ MoveTo(c, "entry")
    /\ removing' \in {removing, removing \ ({c} \X Clients)}
    /\ todo' = [todo EXCEPT ![c] = {}]
    /\ snap' = [snap EXCEPT ![c] = {}]
    /\ cur' = [cur EXCEPT ![c] = NoEntry]
    /\ UNCHANGED <<rres, fileVars>>

ClientStep(c) ==
    \/ CpStep(c) \/ CleanupStage(c) \/ Return(c)
    \/ Contend(c) \/ LockAppears(c) \/ Acquire(c) \/ Refuse(c)
    \/ QueueFound(c) \/ QueueEmpty(c) \/ Leave(c)
    \/ ListQueue(c) \/ Fetch(c) \/ CopyOut(c)
    \/ RemoveSource(c) \/ EntryDone(c) \/ AllCopied(c)

Step(c) ==
    \/ ClientStep(c) \/ RemoveEntry(c)
    \/ Trap(c) \/ Interrupt(c) \/ Crash(c)

Next == UNCHANGED <<call, faults>> /\ \E c \in Clients : Step(c)

Spec == Init /\ [][Next]_vars

(* The processes run, and `ifdh rm` ends.                                  *)
Fairness ==
    \A c \in Clients : 
        /\ WF_vars(UNCHANGED <<call, faults>> /\ ClientStep(c))
        /\ WF_vars(UNCHANGED <<call, faults>> /\ RemoveEntry(c))

FairSpec == Spec /\ Fairness

-----------------------------------------------------------------------------
(* Properties *)

Done(c) == pc[c] \in {"returned", "aborted", "dead"}

AllDelivered(c) == \A f \in StagedFiles(c) : <<c, f>> \in delivered

(* Whatever dies, is refused, is interrupted or is done twice, every file  *)
(* is still at its source, in the stage area or at its destination, as     *)
(* long as a daemon's own copies do not fail: the stage area's copy and    *)
(* mv's source are removed only after the file is safe further on.         *)
NoLoss == "copy" \notin faults => AllFiles = local \union staged \union delivered

(* A file a daemon has not yet delivered stays listed in the queue, so that*)
(* some later daemon can deliver it: a crash or a second daemon at work    *)
(* takes the entry away only when nothing is left to do.                   *)
StagedIsQueued ==
    faults \cap {"copy", "fetch"} = {} =>
        \A c \in Clients :
            pc[c] \notin {"cp", "aborted"} /\ rres[c] = 0 =>
                \A p \in FilesOf(c) : p \in staged \ delivered => c \in queue

(* "copy our queue file in last, it means the others are ready to copy":   *)
(* of a call none of whose copies has failed, what the queued list names   *)
(* is in the data area or has been delivered.                              *)
QueuedMeansReady ==
    "copy" \notin faults =>
        \A c \in queue : rres[c] = 0 =>
            \A f \in StagedFiles(c) : <<c, f>> \in staged \union delivered

(* cp cleans up "the stage copy list file we wrote in build_stage_list":   *)
(* only mv removes a source.                                               *)
SourceKept ==
    [][\A c \in Clients : ~call[c].moving =>
         FilesOf(c) \cap local \subseteq local']_vars

(* No call hangs in its copyback daemon, however many entries others queue *)
(* meanwhile and however late the background removals are.                 *)
Termination == \A c \in Clients : <>Done(c)

(* A daemon that gets the lock delivers everything that was in the queue   *)
(* when it did.                                                            *)
AcquirerDrains ==
    \A c, d \in Clients :
        pc[d] = "have_queue" /\ c \in queue ~> AllDelivered(c)

(* What was handed to "someone else" is copied by someone else: a queued   *)
(* entry is delivered in the end.                                          *)
HandedOffIsCopied ==
    \A c \in Clients : pc[c] = "leave" /\ c \in queue ~> AllDelivered(c)

=============================================================================
