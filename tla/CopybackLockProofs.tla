-------------------------- MODULE CopybackLockProofs --------------------------
(***************************************************************************)
(* Proofs about CopybackLock, for any number of daemons, any skews and any *)
(* combination of faults.                                                  *)
(*                                                                         *)
(* FirstWhileWorking is not inductive: that no earlier lock file can still *)
(* arrive when a daemon goes to work follows from how long ago its own     *)
(* name was made, which StampedInThePast, SleptSinceStamp and              *)
(* HeldAfterRecheck carry from the stamping to the second look.            *)
(*                                                                         *)
(* SomeoneObtains is about all daemons together: by BeatenInv each that    *)
(* gave up lost to an earlier name, and one name is the first.             *)
(***************************************************************************)
EXTENDS CopybackLock, WellFoundedInduction, TLAPS

LEMMA SkewType ==
  /\ MaxSkew \in Nat
  /\ \A d \in Daemons : Skew[d] \in Nat /\ Skew[d] <= MaxSkew
  BY ConstantsAssumption

(* The values the types give to the derived notions.                       *)
LEMMA ClockType == ASSUME TypeOK, NEW d \in Daemons PROVE Clock(d) \in Nat
  BY SkewType DEF TypeOK, Clock

LEMMA MyLockType == ASSUME TypeOK, NEW d \in Daemons PROVE MyLock(d) \in LockFiles
  BY DEF TypeOK, MyLock, LockFiles

(* get_first prints one word at most, so that there is never a third       *)
(* parameter and expired_lock removes nothing.                             *)
LEMMA NoFirstFile == FirstFile = {}
<1>1. DOMAIN Positional \subseteq 1 .. 2
  BY DEF Positional
<1> QED
  BY <1>1 DEF FirstFile

LEMMA ExpiredLockKeepsLocks ==
  ASSUME NEW d \in Daemons, ExpiredLock(d) PROVE locks' = locks
  BY NoFirstFile DEF ExpiredLock

-----------------------------------------------------------------------------

(* Every variable keeps its type, whatever the faults.                     *)
THEOREM TypeCorrect == Spec => []TypeOK
<1>1. Init => TypeOK
  BY DEF Init, TypeOK, Places
<1>2. TypeOK /\ [Next]_vars => TypeOK'
  <2> SUFFICES ASSUME TypeOK, [Next]_vars PROVE TypeOK'
    OBVIOUS
  <2>1. CASE UNCHANGED vars
    BY <2>1 DEF vars, TypeOK
  <2>2. ASSUME UNCHANGED faults, NEW d \in Daemons, Step(d) PROVE TypeOK'
    <3>1. CASE ExpiredLock(d)
      BY <2>2, <3>1, ExpiredLockKeepsLocks DEF ExpiredLock, MoveTo, TypeOK, Places
    <3>2. CASE Stamp(d)
      <4>1. Clock(d) \in Nat
        BY ClockType
      <4>2. pc' \in [Daemons -> Places] /\ stamp' \in [Daemons -> Nat]
        BY <3>2, <4>1 DEF Stamp, MoveTo, TypeOK, Places
      <4>3. inflight' \subseteq LockFiles
        BY <3>2, <4>1 DEF Stamp, TypeOK, LockFiles
      <4> QED
        BY <2>2, <3>2, <4>2, <4>3 DEF Stamp, TypeOK
    <3>3. CASE FirstLook(d)
      <4>1. pc' \in [Daemons -> Places] /\ since' \in [Daemons -> Nat]
        BY <3>3 DEF FirstLook, LookIfFirst, MoveTo, TypeOK, Places
      <4> QED
        BY <2>2, <3>3, <4>1 DEF FirstLook, TypeOK
    <3>4. CASE SecondLook(d)
      <4>1. pc' \in [Daemons -> Places] /\ since' \in [Daemons -> Nat]
        BY <3>4 DEF SecondLook, LookIfFirst, MoveTo, TypeOK, Places
      <4>2. obtained' \subseteq Daemons
        BY <3>4 DEF SecondLook, TypeOK
      <4> QED
        BY <2>2, <3>4, <4>1, <4>2 DEF SecondLook, TypeOK
    <3>5. CASE Yield(d)
      BY <2>2, <3>5 DEF Yield, RemoveMyLock, MoveTo, TypeOK, Places
    <3>6. CASE Again(d)
      BY <2>2, <3>6 DEF Again, RemoveMyLock, MoveTo, TypeOK, Places
    <3>7. CASE Finish(d)
      BY <2>2, <3>7 DEF Finish, MoveTo, TypeOK, Places
    <3>8. CASE Leave(d)
      BY <2>2, <3>8 DEF Leave, RemoveMyLock, MoveTo, TypeOK, Places
    <3>9. CASE Trap(d)
      BY <2>2, <3>9 DEF Trap, TypeOK
    <3>10. CASE Crash(d)
      BY <2>2, <3>10 DEF Crash, MoveTo, TypeOK, Places
    <3> QED
      BY <2>2, <3>1, <3>2, <3>3, <3>4, <3>5, <3>6, <3>7, <3>8, <3>9, <3>10 DEF Step
  <2>3. ASSUME UNCHANGED faults, NEW l \in inflight, Land(l) \/ Lose(l) PROVE TypeOK'
    BY <2>3 DEF Land, Lose, TypeOK
  <2>4. CASE UNCHANGED faults /\ Tick
    BY <2>4 DEF Tick, TypeOK
  <2> QED
    BY <2>1, <2>2, <2>3, <2>4 DEF Next
<1> QED
  BY <1>1, <1>2, PTL DEF Spec
-----------------------------------------------------------------------------
(* Mutual exclusion *)

(* A daemon's lock is named before it is looked for.                       *)
StampedInThePast ==
    \A d \in Daemons :
        pc[d] \in {"placing", "sleeping", "holding"} => Born(MyLock(d)) <= now

SleptSinceStamp ==
    \A d \in Daemons : pc[d] = "sleeping" => Born(MyLock(d)) <= since[d]

HeldAfterRecheck ==
    \A d \in Daemons : pc[d] = "holding" => Born(MyLock(d)) + Recheck <= now

LockInv ==
    /\ TypeOK
    /\ StampedInThePast
    /\ SleptSinceStamp
    /\ HeldAfterRecheck
    /\ FirstWhileWorking

(* Two daemons cannot both be first.                                       *)
LEMMA FirstIsUnique ==
  ASSUME TypeOK, NEW d \in Daemons, NEW e \in Daemons, IAmFirst(d), IAmFirst(e)
  PROVE  d = e
<1>1. MyLock(d) = MyLock(e) \/ Before(MyLock(d), MyLock(e))
  BY DEF IAmFirst, GetFirst
<1>2. MyLock(d) = MyLock(e) \/ Before(MyLock(e), MyLock(d))
  BY DEF IAmFirst, GetFirst
<1>3. /\ stamp[d] \in Nat /\ stamp[e] \in Nat
      /\ d \in Int /\ e \in Int
  BY ConstantsAssumption DEF TypeOK, Daemons
<1> QED
  BY <1>1, <1>2, <1>3 DEF Before, MyLock

(* A step that neither stamps nor starts waiting nor adds a lock file, and *)
(* takes nobody's lock away while he works, keeps the invariant.           *)
LEMMA Retreat ==
  ASSUME LockInv, TypeOK', UNCHANGED <<now, stamp, since>>, locks' \subseteq locks,
         \A d \in Daemons : pc'[d] \in {"placing", "sleeping", "holding"} =>
            /\ pc'[d] = pc[d]
            /\ pc[d] = "holding" /\ d \notin trapped' =>
                  d \notin trapped /\ (MyLock(d) \in locks => MyLock(d) \in locks')
  PROVE  LockInv'
<1>1. \A d \in Daemons : MyLock(d)' = MyLock(d) /\ Born(MyLock(d))' = Born(MyLock(d))
  BY DEF MyLock, Born
<1>2. StampedInThePast' /\ SleptSinceStamp' /\ HeldAfterRecheck'
  BY <1>1 DEF LockInv, StampedInThePast, SleptSinceStamp, HeldAfterRecheck
<1>3. FirstWhileWorking'
  BY <1>1 DEF LockInv, FirstWhileWorking, IAmFirst, GetFirst, Working, Holders
<1> QED
  BY <1>2, <1>3 DEF LockInv

(* clean_lock takes away no lock file but the daemon's own.                *)
LEMMA RemovesOnlyMine ==
  ASSUME NEW d \in Daemons, RemoveMyLock(d)
  PROVE  /\ locks' \subseteq locks
         /\ \A l \in locks : l.who # d => l \in locks'
  BY DEF RemoveMyLock, MyLock

(* A lock file that arrives while a daemon works sorts after that daemon's.*)
LEMMA LateSortsAfter ==
  ASSUME Timely, TypeOK, HeldAfterRecheck,
         NEW d \in Working, NEW l \in inflight, now - Born(l) <= MaxLag
  PROVE  Before(MyLock(d), l)
<1>1. /\ now \in Nat /\ stamp[d] \in Nat /\ l.stamp \in Nat
      /\ d \in Daemons /\ l.who \in Daemons
  BY DEF TypeOK, LockFiles, Working, Holders
<1>2. /\ Skew[d] \in Nat /\ Skew[l.who] \in Nat /\ Skew[d] <= MaxSkew
      /\ MaxLag \in Nat /\ MaxSkew \in Nat /\ Recheck \in Nat
  BY <1>1, SkewType, ConstantsAssumption
<1>3. stamp[d] - Skew[d] + Recheck <= now
  BY <1>1 DEF HeldAfterRecheck, Working, Holders, Born, MyLock
<1>4. now - (l.stamp - Skew[l.who]) <= MaxLag
  BY DEF Born
<1>5. stamp[d] < l.stamp
  BY <1>1, <1>2, <1>3, <1>4 DEF Timely
<1> QED
  BY <1>5 DEF Before, MyLock

LEMMA LockInvStep ==
  ASSUME Timely, LockInv, TypeOK', [Next]_vars PROVE LockInv'
<1> USE DEF LockInv
<1>1. CASE UNCHANGED vars
  BY <1>1, Retreat DEF vars
<1>2. ASSUME NEW d \in Daemons, Step(d) PROVE LockInv'
  <2>1. CASE ExpiredLock(d)
    <3>1. locks' = locks
      BY <2>1, ExpiredLockKeepsLocks
    <3> QED
      BY <2>1, <3>1, Retreat DEF ExpiredLock, MoveTo, TypeOK
  <2>2. CASE Stamp(d)
    <3>1. \A e \in Daemons : e # d =>
            /\ pc'[e] = pc[e] /\ MyLock(e)' = MyLock(e)
            /\ Born(MyLock(e))' = Born(MyLock(e))
            /\ e \in trapped' <=> e \in trapped
      BY <2>2 DEF Stamp, MoveTo, TypeOK, MyLock, Born
    <3>2. pc'[d] = "placing" /\ Born(MyLock(d))' = now
      BY <2>2, SkewType DEF Stamp, MoveTo, TypeOK, MyLock, Born, Clock
    <3>3. now' = now /\ since' = since /\ locks' = locks /\ now \in Nat
      BY <2>2 DEF Stamp, TypeOK
    <3>4. StampedInThePast' /\ SleptSinceStamp' /\ HeldAfterRecheck'
      BY <3>1, <3>2, <3>3 DEF StampedInThePast, SleptSinceStamp, HeldAfterRecheck
    <3>5. FirstWhileWorking'
      BY <3>1, <3>2, <3>3 DEF FirstWhileWorking, IAmFirst, GetFirst, Working, Holders
    <3> QED
      BY <3>4, <3>5
  <2>3. CASE FirstLook(d)
    <3>1. /\ pc[d] = "placing"
          /\ pc'[d] = "sleeping" => since'[d] = now
          /\ pc'[d] \in {"sleeping", "yielding"}
      BY <2>3 DEF FirstLook, LookIfFirst, MoveTo, TypeOK
    <3>2. \A e \in Daemons : e # d => pc'[e] = pc[e] /\ since'[e] = since[e]
      BY <2>3 DEF FirstLook, LookIfFirst, MoveTo, TypeOK
    <3>3. /\ now' = now /\ locks' = locks /\ trapped' = trapped
          /\ \A e \in Daemons :
                MyLock(e)' = MyLock(e) /\ Born(MyLock(e))' = Born(MyLock(e))
      BY <2>3 DEF FirstLook, MyLock, Born
    <3>4. StampedInThePast' /\ SleptSinceStamp' /\ HeldAfterRecheck'
      BY <3>1, <3>2, <3>3 DEF StampedInThePast, SleptSinceStamp, HeldAfterRecheck
    <3>5. FirstWhileWorking'
      BY <3>1, <3>2, <3>3 DEF FirstWhileWorking, IAmFirst, GetFirst, Working, Holders
    <3> QED
      BY <3>4, <3>5
  <2>4. CASE SecondLook(d)
    <3>1. /\ pc[d] = "sleeping" /\ now - since[d] >= Recheck
          /\ pc'[d] = "holding" => IAmFirst(d)
          /\ pc'[d] \in {"holding", "yielding"}
      BY <2>4 DEF SecondLook, LookIfFirst, MoveTo, TypeOK
    <3>2. \A e \in Daemons : e # d => pc'[e] = pc[e] /\ since'[e] = since[e]
      BY <2>4 DEF SecondLook, LookIfFirst, MoveTo, TypeOK
    <3>3. /\ now' = now /\ locks' = locks /\ trapped' = trapped
          /\ \A e \in Daemons :
                MyLock(e)' = MyLock(e) /\ Born(MyLock(e))' = Born(MyLock(e))
      BY <2>4 DEF SecondLook, MyLock, Born
    <3>4. Born(MyLock(d)) + Recheck <= now
      <4>1. /\ Born(MyLock(d)) \in Int /\ since[d] \in Nat
            /\ now \in Nat /\ Recheck \in Nat
        BY SkewType, ConstantsAssumption DEF TypeOK, Born, MyLock
      <4> QED
        BY <3>1, <4>1 DEF SleptSinceStamp
    <3>5. StampedInThePast' /\ SleptSinceStamp' /\ HeldAfterRecheck'
      BY <3>1, <3>2, <3>3, <3>4 DEF StampedInThePast, SleptSinceStamp, HeldAfterRecheck
    <3>6. FirstWhileWorking'
      BY <3>1, <3>2, <3>3 DEF FirstWhileWorking, IAmFirst, GetFirst, Working, Holders
    <3> QED
      BY <3>5, <3>6
  <2>5. CASE Yield(d) \/ Again(d) \/ Leave(d)
    <3>1. /\ RemoveMyLock(d)
          /\ UNCHANGED <<now, stamp, since, trapped>>
          /\ pc'[d] \in {"leaving", "idle", "done"}
          /\ \A e \in Daemons : e # d => pc'[e] = pc[e]
      BY <2>5 DEF Yield, Again, Leave, MoveTo, TypeOK
    <3>2. \A e \in Daemons : e # d /\ MyLock(e) \in locks => MyLock(e) \in locks'
      BY <3>1, RemovesOnlyMine DEF MyLock
    <3> QED
      BY <3>1, <3>2, RemovesOnlyMine, Retreat
  <2>6. CASE Finish(d)
    BY <2>6, Retreat DEF Finish, MoveTo, TypeOK
  <2>7. CASE Trap(d)
    <3>1. \A e \in Daemons : e # d /\ MyLock(e) \in locks => MyLock(e) \in locks'
      BY <2>7 DEF Trap, MyLock
    <3> QED
      BY <2>7, <3>1, Retreat DEF Trap
  <2>8. CASE Crash(d)
    BY <2>8, Retreat DEF Crash, MoveTo, TypeOK
  <2> QED
    BY <1>2, <2>1, <2>2, <2>3, <2>4, <2>5, <2>6, <2>7, <2>8 DEF Step
<1>3. ASSUME NEW l \in inflight, Land(l) PROVE LockInv'
  <2>1. /\ UNCHANGED <<now, pc, stamp, since, trapped>>
        /\ locks' = locks \union {l}
    BY <1>3 DEF Land
  <2>2. \A d \in Daemons : MyLock(d)' = MyLock(d) /\ Born(MyLock(d))' = Born(MyLock(d))
    BY <2>1 DEF MyLock, Born
  <2>3. StampedInThePast' /\ SleptSinceStamp' /\ HeldAfterRecheck'
    BY <2>1, <2>2 DEF StampedInThePast, SleptSinceStamp, HeldAfterRecheck
  <2>4. \A d \in Working : Before(MyLock(d), l)
    BY <1>3, LateSortsAfter DEF Land
  <2>5. FirstWhileWorking'
    BY <2>1, <2>2, <2>4 DEF FirstWhileWorking, IAmFirst, GetFirst, Working, Holders
  <2> QED
    BY <2>3, <2>5
<1>4. ASSUME NEW l \in inflight, Lose(l) PROVE LockInv'
  BY <1>4, Retreat DEF Lose
<1>5. CASE Tick
  <2>1. UNCHANGED <<pc, stamp, since, locks, trapped>> /\ now' = now + 1
    BY <1>5 DEF Tick
  <2>2. \A d \in Daemons :
          /\ MyLock(d)' = MyLock(d)
          /\ Born(MyLock(d))' = Born(MyLock(d))
          /\ Born(MyLock(d)) \in Int
    BY <2>1, SkewType DEF MyLock, Born, TypeOK
  <2>3. StampedInThePast' /\ SleptSinceStamp' /\ HeldAfterRecheck'
    BY <2>1, <2>2, ConstantsAssumption
    DEF StampedInThePast, SleptSinceStamp, HeldAfterRecheck, TypeOK
  <2>4. FirstWhileWorking'
    BY <2>1, <2>2 DEF FirstWhileWorking, IAmFirst, GetFirst, Working, Holders
  <2> QED
    BY <2>3, <2>4
<1> QED
  BY <1>1, <1>2, <1>3, <1>4, <1>5 DEF Next

LEMMA LockInvariant == ASSUME Timely PROVE Spec => []LockInv
<1>1. Init => LockInv
  BY DEF Init, LockInv, TypeOK, Places, StampedInThePast, SleptSinceStamp,
         HeldAfterRecheck, FirstWhileWorking, Working, Holders
<1>2. LockInv /\ TypeOK' /\ [Next]_vars => LockInv'
  BY LockInvStep
<1> QED
  BY <1>1, <1>2, TypeCorrect, PTL DEF Spec

(* Uploads that are late and clocks that differ by less than the sleep     *)
(* together: whatever fails, nobody sees a lock file sorting before that   *)
(* of a daemon that works under its lock ...                               *)
THEOREM WorkerStaysFirst == ASSUME Timely PROVE Spec => []FirstWhileWorking
  BY LockInvariant, PTL DEF LockInv

(* ... and two daemons never work under their locks at the same time.      *)
THEOREM OnlyOneWorks == ASSUME Timely PROVE Spec => []MutualExclusion
<1>1. LockInv => MutualExclusion
  BY FirstIsUnique DEF LockInv, FirstWhileWorking, MutualExclusion, Working, Holders
<1> QED
  BY <1>1, LockInvariant, PTL

-----------------------------------------------------------------------------
(* Lock files when nothing fails *)

(* A daemon has no lock file but the one it has named last, and none when  *)
(* it comes round again.                                                   *)
OwnFiles ==
    \A l \in inflight \union locks :
        /\ l = MyLock(l.who)
        /\ pc[l.who] \in {"placing", "sleeping", "holding", "yielding", "leaving"}

(* An upload is not overtaken by its own time limit.                       *)
InTime ==
    \A l \in inflight :
        /\ pc[l.who] = "placing"
        /\ l \notin locks
        /\ now - Born(l) <= MaxLag

Placed ==
    \A d \in Daemons :
        /\ pc[d] = "placing" => MyLock(d) \in inflight \union locks
        /\ pc[d] \in {"sleeping", "holding", "yielding"} => MyLock(d) \in locks

FaultlessInv == TypeOK /\ (faults = {} => OwnFiles /\ InTime /\ Placed)

(* A daemon that looks has its lock file in the directory.                 *)
LEMMA LooksAfterLanding ==
  ASSUME Timely, TypeOK, InTime, Placed,
         NEW d \in Daemons, pc[d] = "placing", UploadOver(d)
  PROVE  MyLock(d) \in locks /\ MyLock(d) \notin inflight
<1>1. ASSUME MyLock(d) \in inflight PROVE FALSE
  <2>1. now - Born(MyLock(d)) >= CpTimeout /\ now - Born(MyLock(d)) <= MaxLag
    BY <1>1 DEF UploadOver, InTime
  <2>2. /\ now - Born(MyLock(d)) \in Int
        /\ MaxLag \in Nat /\ CpTimeout \in Nat /\ MaxLag < CpTimeout
    BY SkewType, ConstantsAssumption DEF TypeOK, Born, MyLock, Timely
  <2> QED
    BY <2>1, <2>2
<1> QED
  BY <1>1 DEF Placed

LEMMA FaultlessInvStep ==
  ASSUME Timely, FaultlessInv, TypeOK', [Next]_vars PROVE FaultlessInv'
<1> SUFFICES ASSUME faults' = {} PROVE OwnFiles' /\ InTime' /\ Placed'
  BY DEF FaultlessInv
<1>1. faults = {}
  BY DEF Next, vars
<1>2. TypeOK /\ OwnFiles /\ InTime /\ Placed
  BY <1>1 DEF FaultlessInv
<1>3. \A l \in inflight \union locks : l.who \in Daemons
  BY <1>2 DEF TypeOK, LockFiles
<1>4. CASE UNCHANGED vars
  BY <1>2, <1>4 DEF vars, OwnFiles, InTime, Placed, MyLock, Born
<1>5. ASSUME NEW d \in Daemons, Step(d) PROVE OwnFiles' /\ InTime' /\ Placed'
  <2>1. CASE ExpiredLock(d)
    <3>1. locks' = locks
      BY <2>1, ExpiredLockKeepsLocks
    <3>2. pc[d] = "idle" /\ pc' = [pc EXCEPT ![d] = "stamping"]
      BY <2>1 DEF ExpiredLock, MoveTo
    <3>3. UNCHANGED <<now, stamp, inflight>>
      BY <2>1 DEF ExpiredLock
    <3> QED
      BY <1>2, <1>3, <3>1, <3>2, <3>3 DEF OwnFiles, InTime, Placed, MyLock, Born, TypeOK
  <2>2. CASE Stamp(d)
    <3> DEFINE new == [stamp |-> Clock(d), who |-> d]
    <3>1. pc[d] = "stamping" /\ UNCHANGED <<now, locks>>
      BY <2>2 DEF Stamp
    <3>2. inflight' = inflight \union {new}
      BY <2>2 DEF Stamp
    <3>3. pc'[d] = "placing" /\ MyLock(d)' = new /\ new.who = d
      BY <1>2, <2>2 DEF Stamp, MoveTo, MyLock, TypeOK
    <3>4. \A e \in Daemons : e # d => pc'[e] = pc[e] /\ MyLock(e)' = MyLock(e)
      BY <1>2, <2>2 DEF Stamp, MoveTo, MyLock, TypeOK
    <3>5. \A l \in inflight \union locks : l.who # d
      BY <1>2, <3>1 DEF OwnFiles
    <3>6. now - Born(new) = 0 /\ 0 <= MaxLag
      BY <1>2, SkewType, ConstantsAssumption DEF TypeOK, Born, Clock
    <3>7. OwnFiles'
      BY <1>2, <1>3, <3>1, <3>2, <3>3, <3>4, <3>5 DEF OwnFiles
    <3>8. InTime'
      <4>1. SUFFICES ASSUME NEW l \in inflight'
                     PROVE  /\ pc'[l.who] = "placing"
                            /\ l \notin locks
                            /\ now - Born(l) <= MaxLag
        BY <3>1 DEF InTime, Born
      <4>2. CASE l = new
        BY <3>3, <3>5, <3>6, <4>2
      <4>3. CASE l \in inflight
        BY <1>2, <1>3, <3>4, <3>5, <4>3 DEF InTime
      <4> QED
        BY <3>2, <4>1, <4>2, <4>3
    <3>9. Placed'
      BY <1>2, <3>1, <3>2, <3>3, <3>4 DEF Placed
    <3> QED
      BY <3>7, <3>8, <3>9
  <2>3. CASE FirstLook(d)
    <3>1. pc[d] = "placing" /\ MyLock(d) \in locks /\ MyLock(d) \notin inflight
      BY <1>2, <2>3, LooksAfterLanding DEF FirstLook
    <3>2. \A l \in inflight : l.who # d
      BY <1>2, <3>1 DEF OwnFiles
    <3>3. /\ pc'[d] \in {"sleeping", "yielding"}
          /\ \A e \in Daemons : e # d => pc'[e] = pc[e]
      BY <1>2, <2>3 DEF FirstLook, LookIfFirst, MoveTo, TypeOK
    <3>4. UNCHANGED <<now, stamp, inflight, locks>>
      BY <2>3 DEF FirstLook
    <3> QED
      BY <1>2, <1>3, <3>1, <3>2, <3>3, <3>4 DEF OwnFiles, InTime, Placed, MyLock, Born
  <2>4. CASE SecondLook(d)
    <3>1. pc[d] = "sleeping"
      BY <2>4 DEF SecondLook
    <3>2. /\ pc'[d] \in {"holding", "yielding"}
          /\ \A e \in Daemons : e # d => pc'[e] = pc[e]
      BY <1>2, <2>4 DEF SecondLook, LookIfFirst, MoveTo, TypeOK
    <3>3. UNCHANGED <<now, stamp, inflight, locks>>
      BY <2>4 DEF SecondLook
    <3> QED
      BY <1>2, <1>3, <3>1, <3>2, <3>3 DEF OwnFiles, InTime, Placed, MyLock, Born
  <2>5. CASE Yield(d) \/ Again(d) \/ Leave(d)
    <3>1. locks' = locks \ {MyLock(d)}
      BY <1>1, <2>5 DEF Yield, Again, Leave, RemoveMyLock
    <3>2. /\ pc[d] \in {"yielding", "holding", "leaving"}
          /\ pc'[d] \in {"leaving", "idle", "done"}
          /\ \A e \in Daemons : e # d => pc'[e] = pc[e]
      BY <1>2, <2>5 DEF Yield, Again, Leave, MoveTo, TypeOK
    <3>3. UNCHANGED <<now, stamp, inflight>>
      BY <2>5 DEF Yield, Again, Leave
    <3>4. \A e \in Daemons : MyLock(e)' = MyLock(e) /\ (e # d => MyLock(e) # MyLock(d))
      BY <3>3 DEF MyLock
    <3>5. \A l \in inflight \union locks' : l \in inflight \union locks /\ l.who # d
      BY <1>2, <3>1, <3>2 DEF OwnFiles, InTime
    <3>6. OwnFiles'
      BY <1>2, <1>3, <3>2, <3>3, <3>4, <3>5 DEF OwnFiles
    <3>7. InTime'
      BY <1>2, <1>3, <3>1, <3>2, <3>3, <3>5 DEF InTime, Born
    <3>8. Placed'
      BY <1>2, <3>1, <3>2, <3>3, <3>4 DEF Placed
    <3> QED
      BY <3>6, <3>7, <3>8
  <2>6. CASE Finish(d)
    <3>1. pc[d] = "holding" /\ pc' = [pc EXCEPT ![d] = "leaving"]
      BY <2>6 DEF Finish, MoveTo
    <3>2. UNCHANGED <<now, stamp, inflight, locks>>
      BY <2>6 DEF Finish
    <3> QED
      BY <1>2, <1>3, <3>1, <3>2 DEF OwnFiles, InTime, Placed, MyLock, Born, TypeOK
  <2>7. CASE Trap(d) \/ Crash(d)
    BY <1>1, <2>7 DEF Trap, Crash
  <2> QED
    BY <1>5, <2>1, <2>2, <2>3, <2>4, <2>5, <2>6, <2>7 DEF Step
<1>6. ASSUME NEW l \in inflight, Land(l) PROVE OwnFiles' /\ InTime' /\ Placed'
  BY <1>2, <1>6 DEF Land, OwnFiles, InTime, Placed, MyLock, Born
<1>7. ASSUME NEW l \in inflight, Lose(l) PROVE FALSE
  BY <1>1, <1>7 DEF Lose
<1>8. CASE Tick
  <2>1. UNCHANGED <<pc, stamp, inflight, locks>> /\ now' = now + 1
    BY <1>8 DEF Tick
  <2>2. \A l \in inflight : now' - Born(l) <= MaxLag
    <3>1. SUFFICES ASSUME NEW l \in inflight PROVE now' - Born(l) <= MaxLag
      OBVIOUS
    <3>2. now - Born(l) < MaxLag
      BY <1>1, <1>8 DEF Tick
    <3>3. now \in Nat /\ Born(l) \in Int /\ MaxLag \in Nat
      BY <1>2, SkewType, ConstantsAssumption DEF TypeOK, LockFiles, Born
    <3> QED
      BY <2>1, <3>2, <3>3
  <2> QED
    <3>1. OwnFiles' /\ Placed'
      BY <1>2, <2>1 DEF OwnFiles, Placed, MyLock
    <3>2. InTime'
      BY <1>2, <2>1, <2>2 DEF InTime, Born
    <3> QED
      BY <3>1, <3>2
<1> QED
  BY <1>4, <1>5, <1>6, <1>7, <1>8 DEF Next

LEMMA FaultlessInvariant == ASSUME Timely PROVE Spec => []FaultlessInv
<1>1. Init => FaultlessInv
  BY DEF Init, FaultlessInv, TypeOK, Places, OwnFiles, InTime, Placed
<1>2. FaultlessInv /\ TypeOK' /\ [Next]_vars => FaultlessInv'
  BY FaultlessInvStep
<1> QED
  BY <1>1, <1>2, TypeCorrect, PTL DEF Spec

(* A daemon whose file is listed and not the first has another daemon's    *)
(* before it.                                                              *)
LEMMA NotFirstMeansAnother ==
  ASSUME TypeOK, OwnFiles,
         NEW d \in Daemons, MyLock(d) \in locks, ~IAmFirst(d)
  PROVE  \E l \in locks : l.who # d /\ Before(l, MyLock(d))
<1>1. PICK l \in locks : l # MyLock(d) /\ ~Before(MyLock(d), l)
  BY DEF IAmFirst, GetFirst
<1>2. l.who # d
  BY <1>1 DEF OwnFiles
<1>3. l.stamp \in Nat /\ l.who \in Daemons /\ stamp[d] \in Nat
  BY DEF TypeOK, LockFiles
<1>4. l.who \in Int /\ d \in Int
  BY <1>3, ConstantsAssumption DEF Daemons
<1> QED
  BY <1>1, <1>2, <1>3, <1>4 DEF Before, MyLock

(* When nothing fails, and uploads end before they are killed, a daemon    *)
(* gives up only for a lock file of another daemon that sorts before its   *)
(* own.                                                                    *)
THEOREM GivesUpForAnother == ASSUME Timely PROVE Spec => GiveUpMeansAnother
<1> DEFINE GivesUp ==
      \A d \in Daemons :
         faults = {} /\ pc[d] # "yielding" /\ pc'[d] = "yielding" =>
            \E l \in locks : l.who # d /\ Before(l, MyLock(d))
<1>1. FaultlessInv /\ [Next]_vars => [GivesUp]_vars
  <2> SUFFICES ASSUME FaultlessInv, Next,
                      NEW d \in Daemons,
                      faults = {}, pc[d] # "yielding", pc'[d] = "yielding"
               PROVE  \E l \in locks : l.who # d /\ Before(l, MyLock(d))
    OBVIOUS
  <2>1. TypeOK /\ OwnFiles /\ InTime /\ Placed
    BY DEF FaultlessInv
  <2>2. FirstLook(d) \/ SecondLook(d)
    BY <2>1 DEF Next, Step, ExpiredLock, Stamp, Land, Lose, FirstLook, SecondLook,
                LookIfFirst, Yield, Again, Finish, Leave, Trap, Crash, Tick,
                MoveTo, TypeOK
  <2>3. MyLock(d) \in locks
    BY <2>1, <2>2, LooksAfterLanding DEF FirstLook, SecondLook, Placed
  <2>4. ~IAmFirst(d)
    BY <2>1, <2>2 DEF FirstLook, SecondLook, LookIfFirst, MoveTo, TypeOK
  <2> QED
    BY <2>1, <2>3, <2>4, NotFirstMeansAnother
<1> QED
  BY <1>1, FaultlessInvariant, PTL DEF Spec, GiveUpMeansAnother

-----------------------------------------------------------------------------
(* Who gives up when nothing fails *)

Stamped(d) == pc[d] \notin {"idle", "stamping"}

GaveUp(d) == pc[d] \in {"yielding", "leaving", "done"}

(* Until somebody gets the lock nobody names a second file, and each one   *)
(* that has given up did so for a name before its own.                     *)
BeatenInv ==
    faults = {} /\ obtained = {} =>
        \A d \in Daemons :
            /\ pc[d] \notin {"holding", "dead"}
            /\ GaveUp(d) => \E e \in Daemons : Stamped(e) /\ Before(MyLock(e), MyLock(d))

LEMMA BeatenStep ==
  ASSUME Timely, FaultlessInv, BeatenInv, [Next]_vars PROVE BeatenInv'
<1> SUFFICES ASSUME faults' = {}, obtained' = {},
                    NEW d \in Daemons
             PROVE  /\ pc'[d] \notin {"holding", "dead"}
                    /\ GaveUp(d)' => \E e \in Daemons :
                                        Stamped(e)' /\ Before(MyLock(e)', MyLock(d)')
  BY DEF BeatenInv, Before
<1>1. faults = {} /\ TypeOK /\ OwnFiles /\ InTime /\ Placed
  BY DEF Next, vars, FaultlessInv
<1>2. CASE UNCHANGED <<pc, stamp, obtained>>
  BY <1>1, <1>2 DEF BeatenInv, GaveUp, Stamped, MyLock
<1>3. ASSUME NEW c \in Daemons, Step(c)
      PROVE  /\ pc'[d] \notin {"holding", "dead"}
             /\ GaveUp(d)' => \E e \in Daemons :
                                 Stamped(e)' /\ Before(MyLock(e)', MyLock(d)')
  <2> USE DEF MoveTo
  <2>1. obtained = {}
    BY <1>3 DEF Step, ExpiredLock, Stamp, FirstLook, SecondLook, Yield, Again, Finish,
                Leave, Trap, Crash
  <2>2. pc[c] \notin {"holding", "dead"} /\ pc[d] \notin {"holding", "dead"}
    BY <1>1, <2>1 DEF BeatenInv
  <2>3. pc'[c] \notin {"holding", "dead"} /\ \A e \in Daemons \ {c} : pc'[e] = pc[e]
    <3>1. CASE SecondLook(c)
      BY <1>1, <3>1 DEF SecondLook, LookIfFirst, TypeOK
    <3>2. CASE ~SecondLook(c)
      BY <1>1, <1>3, <2>2, <3>2 DEF Step, ExpiredLock, Stamp, FirstLook, LookIfFirst, Yield,
         Again, Finish, Leave, Trap, Crash, TypeOK
    <3> QED
      BY <3>1, <3>2
  <2>4. ASSUME NEW e \in Daemons, Stamped(e) PROVE Stamped(e)' /\ MyLock(e)' = MyLock(e)
    <3>1. CASE e = c
      <4>1. ~ExpiredLock(c) /\ ~Stamp(c) /\ ~Again(c)
        BY <2>2, <2>4, <3>1 DEF ExpiredLock, Stamp, Again, Stamped
      <4> QED
        BY <1>1, <1>3, <2>4, <3>1, <4>1 DEF Step, FirstLook, SecondLook, LookIfFirst, Yield,
           Finish, Leave, Trap, Crash, TypeOK, Stamped, MyLock
    <3>2. CASE e # c
      <4>1. stamp'[e] = stamp[e]
        BY <1>1, <1>3, <3>2 DEF Step, ExpiredLock, Stamp, FirstLook, SecondLook, Yield, Again,
           Finish, Leave, Trap, Crash, TypeOK
      <4> QED
        BY <2>3, <2>4, <3>2, <4>1 DEF Stamped, MyLock
    <3> QED
      BY <3>1, <3>2
  <2>5. ASSUME GaveUp(d)
        PROVE  \E e \in Daemons : Stamped(e)' /\ Before(MyLock(e)', MyLock(d)')
    <3>1. PICK e \in Daemons : Stamped(e) /\ Before(MyLock(e), MyLock(d))
      BY <1>1, <2>1, <2>5 DEF BeatenInv
    <3>2. Stamped(d)
      BY <2>5 DEF GaveUp, Stamped
    <3> QED
      BY <2>4, <3>1, <3>2
  <2>6. ASSUME ~GaveUp(d), GaveUp(d)'
        PROVE  \E e \in Daemons : Stamped(e)' /\ Before(MyLock(e)', MyLock(d)')
    <3>1. d = c /\ (FirstLook(d) \/ SecondLook(d)) /\ pc'[d] = "yielding"
      <4>1. d = c
        BY <2>3, <2>6 DEF GaveUp
      <4> QED
        BY <1>1, <1>3, <2>2, <2>6, <4>1 DEF GaveUp, Step, ExpiredLock, Stamp, FirstLook,
           SecondLook, LookIfFirst, Yield, Again, Finish, Leave, Trap, Crash, TypeOK
    <3>2. MyLock(d) \in locks
      BY <1>1, <3>1, LooksAfterLanding DEF FirstLook, SecondLook, Placed
    <3>3. ~IAmFirst(d)
      BY <1>1, <3>1 DEF FirstLook, SecondLook, LookIfFirst, TypeOK
    <3>4. PICK l \in locks : l.who # d /\ Before(l, MyLock(d))
      BY <1>1, <3>2, <3>3, NotFirstMeansAnother
    <3>5. l.who \in Daemons /\ l = MyLock(l.who) /\ Stamped(l.who)
      BY <1>1, <3>4 DEF OwnFiles, Stamped, TypeOK, LockFiles
    <3>6. Stamped(d)
      BY <3>1 DEF FirstLook, SecondLook, Stamped
    <3> QED
      BY <2>4, <3>4, <3>5, <3>6
  <2> QED
    BY <2>2, <2>3, <2>5, <2>6
<1>4. CASE \E l \in inflight : Land(l) \/ Lose(l)
  BY <1>2, <1>4 DEF Land, Lose
<1>5. CASE Tick
  BY <1>2, <1>5 DEF Tick
<1> QED
  BY <1>2, <1>3, <1>4, <1>5 DEF Next, vars

LEMMA LeastNatural ==
  ASSUME NEW T, T \subseteq Nat, T # {} PROVE \E x \in T : \A y \in T : x <= y
<1> DEFINE R == {ss \in Nat \X Nat : ss[1] < ss[2]}
<1>1. IsWellFoundedOn(R, Nat)
  BY NatLessThanWellFounded DEF OpToRel
<1>2. PICK x \in T : \A y \in T : ~ (<<y, x>> \in R)
  BY <1>1, WFMin
<1>3. ASSUME NEW y \in T PROVE ~(y < x)
  BY <1>2
<1> QED
  BY <1>2, <1>3

(* Of any names there is a first one.                                      *)
LEMMA FirstOfAll ==
  ASSUME TypeOK, Daemons # {}
  PROVE  \E d \in Daemons : \A e \in Daemons : ~Before(MyLock(e), MyLock(d))
<1>1. PICK x \in {stamp[d] : d \in Daemons} : \A y \in {stamp[d] : d \in Daemons} : x <= y
  <2>1. {stamp[d] : d \in Daemons} \subseteq Nat /\ {stamp[d] : d \in Daemons} # {}
    BY DEF TypeOK
  <2> QED
    BY <2>1, LeastNatural
<1>2. PICK d \in {e \in Daemons : stamp[e] = x} :
        \A e \in {a \in Daemons : stamp[a] = x} : d <= e
  <2>1. {e \in Daemons : stamp[e] = x} \subseteq Nat
    BY ConstantsAssumption DEF Daemons
  <2>2. {e \in Daemons : stamp[e] = x} # {}
    BY <1>1
  <2> QED
    BY <2>1, <2>2, LeastNatural
<1>3. ASSUME NEW e \in Daemons PROVE ~Before(MyLock(e), MyLock(d))
  <2>1. stamp[d] = x /\ x <= stamp[e] /\ (stamp[e] = x => d <= e)
    BY <1>1, <1>2
  <2>2. stamp[e] \in Nat /\ stamp[d] \in Nat /\ d \in Nat /\ e \in Nat
    BY <1>2, ConstantsAssumption DEF TypeOK, Daemons
  <2> QED
    BY <2>1, <2>2 DEF Before, MyLock
<1> QED
  BY <1>2, <1>3

(* When nothing fails the daemons do not all stand back for one another:   *)
(* the one whose name comes first had nobody to stand back for.            *)
THEOREM OneObtains == ASSUME Timely PROVE Spec => []SomeoneObtains
<1>1. Init => BeatenInv
  BY DEF Init, BeatenInv, GaveUp
<1>2. TypeOK /\ BeatenInv => SomeoneObtains
  <2> SUFFICES ASSUME TypeOK, BeatenInv, faults = {}, obtained = {}, N # 0,
                      \A d \in Daemons : pc[d] = "done"
               PROVE  FALSE
    BY DEF SomeoneObtains
  <2>1. 1 \in Daemons
    BY ConstantsAssumption DEF Daemons
  <2>2. PICK d \in Daemons : \A e \in Daemons : ~Before(MyLock(e), MyLock(d))
    BY <2>1, FirstOfAll
  <2> QED
    BY <2>2 DEF BeatenInv, GaveUp
<1> QED
  BY <1>1, <1>2, TypeCorrect, FaultlessInvariant, BeatenStep, PTL DEF Spec

=============================================================================
