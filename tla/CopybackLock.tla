---------------------------- MODULE CopybackLock -----------------------------
(***************************************************************************)
(* The lock of ifdh_copyback.sh: get_lock, i_am_first, expired_lock,       *)
(* clean_lock and the loop of copy_daemon around them.                     *)
(*                                                                         *)
(* Every `ifdh cp` that staged its output runs the script, on its own      *)
(* host, against the lock directory of a shared stage area.  There is no   *)
(* atomic operation there: a daemon uploads a file named after the time    *)
(* and its host and pid, lists the directory, and if its own file sorts    *)
(* first sleeps, lists it again, and if it is still first goes to work.    *)
(*                                                                         *)
(* One unit of time is a second of the script's `date`.  A daemon's clock  *)
(* is ahead of `now` by Skew; an upload lands within MaxLag, or never when *)
(* uploads may be lost.                                                    *)
(* Daemons are numbered in the order their host and pid sort, and a lock   *)
(* file is the record of the two parts of its name.                        *)
(***************************************************************************)
EXTENDS Integers

CONSTANTS
    N,          \* number of daemons
    Recheck,    \* the sleep between the two looks (10 in the script)
    CpTimeout,  \* run_with_timeout's limit on the upload (300)
    Expiry,     \* age of a lock considered dead (14400)
    MaxLag,     \* from stamping a name to its file being listed
    MaxSkew,    \* largest difference of two hosts' clocks
    Skew,       \* how far each daemon's clock is ahead
    FaultSets,  \* the combinations of faults a behaviour may have
    MaxTime     \* bound on now

Daemons == 1 .. N

(* A daemon dies without its exit trap (SIGKILL, SIGTERM, node loss); a     *)
(* trapped signal runs clean_lock in the middle of the script; an `ifdh ls` *)
(* or an `ifdh rm` fails; the upload of a lock file is lost.                *)
FaultKinds == {"crash", "trap", "list", "rm", "lost"}

ASSUME ConstantsAssumption ==
    /\ N \in Nat /\ MaxLag \in Nat /\ MaxSkew \in Nat /\ MaxTime \in Nat
    /\ Recheck \in Nat /\ CpTimeout \in Nat /\ Expiry \in Nat
    /\ Skew \in [Daemons -> 0 .. MaxSkew]
    /\ FaultSets \subseteq SUBSET FaultKinds

VARIABLES
    now,        \* true time
    pc,         \* where each daemon is in copy_daemon
    stamp,      \* datestamp in each daemon's uniqfile
    since,      \* when each sleeping daemon saw itself first
    inflight,   \* lock files on their way to the lock directory
    locks,      \* the lock directory
    trapped,    \* daemons whose trap removed the lock of this round
    obtained,   \* daemons that have logged "Obtained lock"
    faults      \* the kinds of fault that may happen in this behaviour

vars == <<now, pc, stamp, since, inflight, locks, trapped, obtained, faults>>

Places == {"idle", "stamping", "placing", "sleeping", "holding",
           "yielding", "leaving", "done", "dead"}

LockFiles == [stamp : Nat, who : Daemons]

(* Type invariant: stamps and clocks never run below 0, and lock files are  *)
(* only those of daemons.                                                  *)
TypeOK ==
    /\ now \in Nat
    /\ pc \in [Daemons -> Places]
    /\ stamp \in [Daemons -> Nat]
    /\ since \in [Daemons -> Nat]
    /\ inflight \subseteq LockFiles
    /\ locks \subseteq LockFiles
    /\ trapped \subseteq Daemons
    /\ obtained \subseteq Daemons
    /\ faults \in FaultSets

Init ==
    /\ now = 0
    /\ pc = [d \in Daemons |-> "idle"]
    /\ stamp = [d \in Daemons |-> 0]
    /\ since = [d \in Daemons |-> 0]
    /\ inflight = {}
    /\ locks = {}
    /\ trapped = {}
    /\ obtained = {}
    /\ faults \in FaultSets

-----------------------------------------------------------------------------
(* Names and listings *)

(* Mutant: the skew has the other sign.                                    *)
ClockBehind(d) == now - Skew[d]

Clock(d) == now + Skew[d]

(* uniqfile=t_<datestamp>_<host>_<pid>                                     *)
MyLock(d) == [stamp |-> stamp[d], who |-> d]

(* Mutant: sorted by host and pid only.                                    *)
BeforeByHost(k, l) == k.who < l.who

(* The order of `sort`: the stamp first, host and pid break the tie.       *)
Before(k, l) ==
    \/ k.stamp < l.stamp
    \/ k.stamp = l.stamp /\ k.who < l.who

(* get_first prints the first name of the sorted listing, or nothing.      *)
GetFirst == {l \in locks : \A k \in locks : k = l \/ Before(l, k)}

(* Mutant: stands back for any other lock file.                            *)
IAmAlone(d) == locks = {MyLock(d)}

IAmFirst(d) == MyLock(d) \in GetFirst

(* `set : $(get_first)`: the positional parameters, one word after the ":" *)
(* when there is a lock file.                                              *)
Positional ==
    IF locks = {} THEN <<":">>
    ELSE <<":", CHOOSE l \in locks : l \in GetFirst>>

(* Mutant: first_file=$2, the first word of the listing.                   *)
FirstWord == {Positional[i] : i \in DOMAIN Positional \cap {2}}

(* first_file=$3, when there is a third parameter.                         *)
FirstFile == {Positional[i] : i \in DOMAIN Positional \cap {3}}

(* When the lock's name was stamped, in true time.                         *)
Born(l) == l.stamp - Skew[l.who]

MoveTo(d, p) == pc' = [pc EXCEPT ![d] = p]

(* ifdh rm $wprefix/lock/$uniqfile; nobody looks at its status.            *)
RemoveMyLock(d) ==
    \/ locks' = locks \ {MyLock(d)}
    \/ "rm" \in faults /\ locks' = locks

-----------------------------------------------------------------------------
(* get_lock *)

(* The first lock is looked up to be broken if it is too old.              *)
ExpiredLock(d) ==
    /\ pc[d] = "idle"
    /\ locks' = locks \ {l \in FirstFile : Clock(d) - l.stamp > Expiry}
    /\ MoveTo(d, "stamping")
    /\ UNCHANGED <<now, stamp, since, inflight, trapped, obtained>>

(* The name is made and the upload started in the background.              *)
Stamp(d) ==
    /\ pc[d] = "stamping"
    /\ stamp' = [stamp EXCEPT ![d] = Clock(d)]
    /\ inflight' = inflight \union {[stamp |-> Clock(d), who |-> d]}
    /\ trapped' = trapped \ {d}
    /\ MoveTo(d, "placing")
    /\ UNCHANGED <<now, since, locks, obtained>>

(* The file shows up in the lock directory, whatever became of the daemon. *)
Land(l) ==
    /\ l \in inflight
    /\ now - Born(l) <= MaxLag
    /\ inflight' = inflight \ {l}
    /\ locks' = locks \union {l}
    /\ UNCHANGED <<now, pc, stamp, since, trapped, obtained>>

Lose(l) ==
    /\ "lost" \in faults
    /\ l \in inflight
    /\ inflight' = inflight \ {l}
    /\ UNCHANGED <<now, pc, stamp, since, locks, trapped, obtained>>

(* Mutant: does not wait for the upload.                                   *)
NotWaiting(d) == TRUE

(* run_with_timeout is back: the copy ended, well or not, or was killed.   *)
UploadOver(d) ==
    \/ MyLock(d) \notin inflight
    \/ now - Born(MyLock(d)) >= CpTimeout

(* One `if i_am_first`: on to p, or to the message that someone else is    *)
(* copying; a listing that fails is an empty one.                          *)
LookIfFirst(d, p) ==
    \/ IAmFirst(d) /\ MoveTo(d, p)
    \/ (~IAmFirst(d) \/ "list" \in faults) /\ MoveTo(d, "yielding")

FirstLook(d) ==
    /\ pc[d] = "placing"
    /\ UploadOver(d)
    /\ LookIfFirst(d, "sleeping")
    /\ since' = IF pc'[d] = "sleeping" THEN [since EXCEPT ![d] = now] ELSE since
    /\ UNCHANGED <<now, stamp, inflight, locks, trapped, obtained>>

(* Mutant: goes to work after the sleep without the second look.           *)
SleepOnly(d) ==
    /\ pc[d] = "sleeping"
    /\ now - since[d] >= Recheck
    /\ MoveTo(d, "holding")
    /\ since' = [since EXCEPT ![d] = 0]
    /\ obtained' = obtained \union {d}
    /\ UNCHANGED <<now, stamp, inflight, locks, trapped>>

SecondLook(d) ==
    /\ pc[d] = "sleeping"
    /\ now - since[d] >= Recheck
    /\ LookIfFirst(d, "holding")
    /\ since' = [since EXCEPT ![d] = 0]
    /\ obtained' = IF pc'[d] = "holding" THEN obtained \union {d} ELSE obtained
    /\ UNCHANGED <<now, stamp, inflight, locks, trapped>>

(* The lock is given up at once; get_lock fails and the loop ends.         *)
Yield(d) ==
    /\ pc[d] = "yielding"
    /\ RemoveMyLock(d)
    /\ MoveTo(d, "leaving")
    /\ UNCHANGED <<now, stamp, since, inflight, trapped, obtained>>

-----------------------------------------------------------------------------
(* copy_daemon: while get_lock && have_queue *)

(* The queue was copied: clean_lock, and round again.                      *)
Again(d) ==
    /\ pc[d] = "holding"
    /\ RemoveMyLock(d)
    /\ MoveTo(d, "idle")
    /\ UNCHANGED <<now, stamp, since, inflight, trapped, obtained>>

(* have_queue finds nothing and the loop ends.                             *)
Finish(d) ==
    /\ pc[d] = "holding"
    /\ MoveTo(d, "leaving")
    /\ UNCHANGED <<now, stamp, since, inflight, locks, trapped, obtained>>

(* The last clean_lock, then the traps are lifted.                         *)
Leave(d) ==
    /\ pc[d] = "leaving"
    /\ RemoveMyLock(d)
    /\ MoveTo(d, "done")
    /\ UNCHANGED <<now, stamp, since, inflight, trapped, obtained>>

(* trap clean_lock 1 2 3 ...: the lock goes and the script carries on.     *)
Trap(d) ==
    /\ "trap" \in faults
    /\ pc[d] \notin {"done", "dead"}
    /\ MyLock(d) \in locks
    /\ locks' = locks \ {MyLock(d)}
    /\ trapped' = trapped \union {d}
    /\ UNCHANGED <<now, pc, stamp, since, inflight, obtained>>

Crash(d) ==
    /\ "crash" \in faults
    /\ pc[d] \notin {"done", "dead"}
    /\ MoveTo(d, "dead")
    /\ UNCHANGED <<now, stamp, since, inflight, locks, trapped, obtained>>

Tick ==
    /\ now < MaxTime
    /\ "lost" \in faults \/ \A l \in inflight : now - Born(l) < MaxLag
    /\ now' = now + 1
    /\ UNCHANGED <<pc, stamp, since, inflight, locks, trapped, obtained>>

Step(d) ==
    \/ ExpiredLock(d) \/ Stamp(d) \/ FirstLook(d) \/ SecondLook(d)
    \/ Yield(d) \/ Again(d) \/ Finish(d) \/ Leave(d)
    \/ Trap(d) \/ Crash(d)

Next ==
    /\ UNCHANGED faults
    /\ \/ \E d \in Daemons : Step(d)
       \/ \E l \in inflight : Land(l) \/ Lose(l)
       \/ Tick

Spec == Init /\ [][Next]_vars

-----------------------------------------------------------------------------
(* Properties *)

(* The daemons inside copy_files.                                          *)
Holders == {d \in Daemons : pc[d] = "holding"}

(* Those of them whose lock no signal has removed.                         *)
Working == Holders \ trapped

(* Lag and skew together are shorter than the sleep: what the choice of    *)
(* `sleep 10` relies on.  An upload that lands does so before it is killed.*)
Timely == MaxLag + MaxSkew < Recheck /\ MaxLag < CpTimeout

(* Of the daemons that still own their lock at most one is copying: the    *)
(* point of get_lock, whatever the faults.                                *)
MutualExclusion == \A d, e \in Working : d = e

(* Nobody who looks at the directory while a daemon works sees any lock    *)
(* sorting before that daemon's: late files and fast clocks included.      *)
FirstWhileWorking == \A d \in Working : IAmFirst(d)

(* When nothing fails a daemon says "someone else is already copying"      *)
(* only if the directory holds a lock of someone else that sorts before    *)
(* its own.                                                                *)
GiveUpMeansAnother ==
    [][\A d \in Daemons :
         faults = {} /\ pc[d] # "yielding" /\ pc'[d] = "yielding" =>
            \E l \in locks : l.who # d /\ Before(l, MyLock(d))]_vars

(* The daemons do not all stand back for one another: when nothing fails   *)
(* and every one has ended, some daemon did get the lock                   *)
(* (tests/test_multi_stageout.sh counts the "Obtained lock" lines).        *)
SomeoneObtains ==
    faults = {} /\ (\A d \in Daemons : pc[d] = "done") => N = 0 \/ obtained # {}

(* "if the lock is over 4 hours old, we consider it dead": after           *)
(* expired_lock the first lock in the directory is not over-age.           *)
DeadLockIsBroken ==
    [][\A d \in Daemons :
         pc[d] = "idle" /\ pc'[d] = "stamping" =>
            \A l \in GetFirst : Clock(d) - l.stamp > Expiry => l \notin locks']_vars

-----------------------------------------------------------------------------
(* CopybackLock implements CopybackMutex. *)

AbstractPhase(d) ==
    CASE pc[d] \in {"idle", "stamping"} -> "out"
      [] pc[d] \in {"placing", "sleeping"} -> "contending"
      [] pc[d] = "holding" -> IF d \in trapped THEN "unlocked" ELSE "working"
      [] pc[d] \in {"yielding", "leaving"} -> "leaving"
      [] OTHER -> "gone"

Mutex == INSTANCE CopybackMutex WITH
            phase  <- [d \in Daemons |-> AbstractPhase(d)],
            listed <- {l.who : l \in locks},
            first  <- {l.who : l \in GetFirst}

MutexSpec == Mutex!Spec

=============================================================================
