---------------------------- MODULE CopybackMutex ----------------------------
(***************************************************************************)
(* What the lock of ifdh_copyback.sh promises its callers: a daemon        *)
(* contends for the stage area and is let in or refused, the one whose     *)
(* lock file sorts first is let in, and while a daemon that still owns its *)
(* lock file is at work its file stays the first.  Time, stamps and file   *)
(* names are left to CopybackLock, which implements this module.           *)
(***************************************************************************)

CONSTANTS
    Daemons,    \* the processes running ifdh_copyback.sh on one stage area
    FaultSets   \* the combinations of faults a behaviour may have

VARIABLES
    phase,      \* how far each daemon has got
    listed,     \* the daemons that have a lock file in the lock directory
    first,      \* the one whose file sorts first (empty if there is none)
    faults      \* the kinds of fault that may happen in this behaviour

vars == <<phase, listed, first, faults>>

(* "unlocked" is a daemon at work whose lock the signal trap has removed;  *)
(* "leaving" one that was refused or has found the queue empty.            *)
Phases == {"out", "contending", "working", "unlocked", "leaving", "gone"}

Working == {d \in Daemons : phase[d] = "working"}

(* Type invariant of the lock seen as a mutex.                             *)
TypeOK ==
    /\ phase \in [Daemons -> Phases]
    /\ listed \subseteq Daemons
    /\ first \subseteq listed
    /\ faults \in FaultSets

Init ==
    /\ phase = [d \in Daemons |-> "out"]
    /\ listed = {}
    /\ first = {}
    /\ faults \in FaultSets

-----------------------------------------------------------------------------

MoveTo(d, p) == phase' = [phase EXCEPT ![d] = p]

(* d's file goes; if it was the first another one is.                      *)
Unlist(d) ==
    /\ listed' = listed \ {d}
    /\ IF d \in first
       THEN \/ listed' = {} /\ first' = {}
            \/ \E e \in listed' : first' = {e}
       ELSE first' = first

(* `ifdh rm` of the lock, whose failure nobody notices.                    *)
RemoveLock(d) ==
    \/ Unlist(d)
    \/ "rm" \in faults /\ UNCHANGED <<listed, first>>

-----------------------------------------------------------------------------

Contend(d) ==
    /\ phase[d] = "out"
    /\ MoveTo(d, "contending")
    /\ UNCHANGED <<listed, first>>

(* A lock file shows up, if need be long after it was sent, but not before *)
(* that of a daemon at work.                                               *)
Appear(d) ==
    /\ listed' = listed \union {d}
    /\ \/ first # {} /\ first' = first
       \/ Working = {} /\ first' = {d}
    /\ UNCHANGED phase

Acquire(d) ==
    /\ phase[d] = "contending"
    /\ first = {d}
    /\ MoveTo(d, "working")
    /\ UNCHANGED <<listed, first>>

(* Without a fault a daemon is refused only for the lock of another.       *)
Refuse(d) ==
    /\ phase[d] = "contending"
    /\ \/ d \in listed /\ \E e \in first : e # d
       \/ faults # {}
    /\ MoveTo(d, "leaving")
    /\ UNCHANGED <<listed, first>>

(* The queue was copied: the lock goes, and the daemon comes round again.  *)
Release(d) ==
    /\ phase[d] \in {"working", "unlocked"}
    /\ MoveTo(d, "out")
    /\ RemoveLock(d)

(* The queue is found empty.                                               *)
Finish(d) ==
    /\ phase[d] \in {"working", "unlocked"}
    /\ MoveTo(d, "leaving")
    /\ UNCHANGED <<listed, first>>

Leave(d) ==
    /\ phase[d] = "leaving"
    /\ MoveTo(d, "gone")
    /\ RemoveLock(d)

(* A lock file only goes when its daemon is not at work under it.          *)
Vanish(d) ==
    /\ phase[d] # "working"
    /\ RemoveLock(d)
    /\ UNCHANGED phase

Trap(d) ==
    /\ "trap" \in faults
    /\ phase[d] = "working"
    /\ MoveTo(d, "unlocked")
    /\ RemoveLock(d)

Crash(d) ==
    /\ "crash" \in faults
    /\ phase[d] # "gone"
    /\ MoveTo(d, "gone")
    /\ UNCHANGED <<listed, first>>

Step(d) ==
    \/ Contend(d) \/ Appear(d) \/ Acquire(d) \/ Refuse(d)
    \/ Release(d) \/ Finish(d) \/ Leave(d) \/ Vanish(d)
    \/ Trap(d) \/ Crash(d)

Next == UNCHANGED faults /\ \E d \in Daemons : Step(d)

Spec == Init /\ [][Next]_vars

=============================================================================
