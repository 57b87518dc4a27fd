------------------------- MODULE CopybackLockRefinement ------------------------
(***************************************************************************)
(* CopybackLock implements CopybackMutex, for any number of daemons, any   *)
(* skews and any combination of faults.                                    *)
(*                                                                         *)
(* The abstract lock knows a daemon's file by its owner, the concrete one  *)
(* by a name made anew in every round.  That the removal of one name is    *)
(* the removal of the owner's file needs to be known of the names that may *)
(* be about: NamesInv.                                                     *)
(***************************************************************************)
EXTENDS CopybackLockProofs, FiniteSetTheorems

Outside(d) == pc[d] \in {"idle", "stamping"}

(* No name is newer than its owner's last, and what a daemon stamps next   *)
(* is newer than all of its names.                                         *)
NamesGrow ==
    \A l \in inflight \union locks :
        /\ l.stamp <= stamp[l.who]
        /\ Outside(l.who) => Born(l) < now

(* A file of an earlier round that has not landed will not.                *)
Abandoned ==
    \A l \in inflight :
        l # MyLock(l.who) \/ Outside(l.who) => now - Born(l) > MaxLag

(* A file of an earlier round is still there because its removal failed.   *)
Leftover ==
    \A l \in locks :
        l # MyLock(l.who) \/ Outside(l.who) => "rm" \in faults

LandsOnce == inflight \cap locks = {}

TrappedGone == \A d \in trapped : MyLock(d) \notin inflight \union locks

NamesInv ==
    /\ LockInv
    /\ IsFiniteSet(locks)
    /\ NamesGrow
    /\ Abandoned
    /\ Leftover
    /\ LandsOnce
    /\ TrappedGone

-----------------------------------------------------------------------------
(* The first of a set of lock files *)

LeastIn(L) == {l \in L : \A k \in L : k = l \/ Before(l, k)}

LEMMA BeforeIsAnOrder ==
  ASSUME NEW k \in LockFiles, NEW l \in LockFiles, NEW m \in LockFiles
  PROVE  /\ ~Before(k, k)
         /\ Before(k, l) /\ Before(l, m) => Before(k, m)
         /\ k = l \/ Before(k, l) \/ Before(l, k)
<1>1. /\ k.stamp \in Nat /\ l.stamp \in Nat /\ m.stamp \in Nat
      /\ k.who \in Daemons /\ l.who \in Daemons /\ m.who \in Daemons
      /\ (k.stamp = l.stamp /\ k.who = l.who => k = l)
  BY DEF LockFiles
<1>2. k.who \in Int /\ l.who \in Int /\ m.who \in Int
  BY <1>1, ConstantsAssumption DEF Daemons
<1> QED
  BY <1>1, <1>2 DEF Before

LEMMA LeastIs ==
  ASSUME NEW L \in SUBSET LockFiles, NEW l \in LeastIn(L) PROVE LeastIn(L) = {l}
<1>1. SUFFICES ASSUME NEW k \in LeastIn(L) PROVE k = l
  OBVIOUS
<1>2. k \in LockFiles /\ l \in LockFiles
  BY DEF LeastIn
<1>3. (k = l \/ Before(l, k)) /\ (k = l \/ Before(k, l))
  BY DEF LeastIn
<1> QED
  BY <1>2, <1>3, BeforeIsAnOrder

(* A set of lock files has a first: of the sets of files sorting before    *)
(* one of them some set has no smaller one, and that set is empty.         *)
LEMMA LeastExists ==
  ASSUME NEW L \in SUBSET LockFiles, IsFiniteSet(L), L # {}
  PROVE  \E l \in L : LeastIn(L) = {l}
<1> DEFINE Below(l) == {k \in L : Before(k, l)}
           T == {Below(l) : l \in L}
           R == StrictSubsetOrdering(L)
<1>1. IsWellFoundedOn(R, FiniteSubsetsOf(L))
  BY FS_StrictSubsetOrderingWellFounded
<1>2. FiniteSubsetsOf(L) = SUBSET L
  BY FS_FiniteSubsetsOfFinite
<1>3. T \subseteq SUBSET L /\ T # {}
  OBVIOUS
<1>4. PICK x \in T : \A y \in T : ~(<<y, x>> \in R)
  <2> HIDE DEF T, R
  <2> QED
    BY <1>1, <1>2, <1>3, WFMin
<1>5. PICK l \in L : x = Below(l)
  BY <1>4
<1>6. ASSUME NEW k \in Below(l) PROVE FALSE
  <2>1. k \in L /\ Before(k, l)
    OBVIOUS
  <2>2. Below(k) \subseteq Below(l) /\ k \notin Below(k)
    BY <2>1, BeforeIsAnOrder
  <2>3. Below(k) \in T /\ Below(k) \in SUBSET L /\ Below(l) \in SUBSET L
    BY <2>1
  <2>4. <<Below(k), Below(l)>> \in R
    BY <1>6, <2>2, <2>3 DEF StrictSubsetOrdering
  <2> QED
    BY <1>4, <1>5, <2>3, <2>4
<1>7. l \in LeastIn(L)
  BY <1>6, BeforeIsAnOrder DEF LeastIn
<1> QED
  BY <1>7, LeastIs

-----------------------------------------------------------------------------
(* The invariant on names *)

LEMMA BornType ==
  ASSUME TypeOK, NEW l \in inflight \union locks
  PROVE  /\ Born(l) \in Int /\ l.stamp \in Nat /\ l.who \in Daemons /\ stamp[l.who] \in Nat
         /\ Skew[l.who] \in Nat /\ now \in Nat
         /\ MaxLag \in Nat /\ Recheck \in Nat
  BY SkewType, ConstantsAssumption DEF TypeOK, LockFiles, Born

(* A step that makes no name, ends no round and lets no file arrive.       *)
LEMMA NamesKept ==
  ASSUME NamesInv, LockInv', UNCHANGED <<stamp, faults>>, now' \in {now, now + 1},
         inflight' \subseteq inflight, locks' \subseteq locks,
         \A d \in Daemons : Outside(d)' => Outside(d),
         \A d \in trapped' : d \in trapped \/ MyLock(d) \notin inflight \union locks'
  PROVE  NamesInv'
<1> USE DEF NamesInv
<1>1. \A d \in Daemons : MyLock(d)' = MyLock(d)
  BY DEF MyLock
<1>2. \A l \in inflight' \union locks' :
        /\ l \in inflight \union locks
        /\ l.who \in Daemons /\ Born(l) \in Int /\ now \in Nat /\ MaxLag \in Nat
  BY BornType DEF LockInv
<1>3. NamesGrow'
  <2>1. SUFFICES ASSUME NEW l \in inflight' \union locks'
                 PROVE  /\ l.stamp <= stamp[l.who]
                        /\ Outside(l.who)' => Born(l) < now'
    BY DEF NamesGrow, Outside
  <2>2. l.stamp <= stamp[l.who] /\ (Outside(l.who)' => Born(l) < now)
    BY <1>2 DEF NamesGrow
  <2> QED
    BY <1>2, <2>2
<1>4. Abandoned'
  <2>1. SUFFICES ASSUME NEW l \in inflight', l # MyLock(l.who) \/ Outside(l.who)'
                 PROVE  now' - Born(l) > MaxLag
    BY <1>1, <1>2 DEF Abandoned, Outside
  <2>2. now - Born(l) > MaxLag
    BY <1>2, <2>1 DEF Abandoned
  <2> QED
    BY <1>2, <2>2
<1>5. Leftover'
  BY <1>1, <1>2 DEF Leftover, Outside
<1>6. IsFiniteSet(locks')
  BY FS_Subset
<1>7. LandsOnce' /\ TrappedGone'
  BY <1>1 DEF LandsOnce, TrappedGone, LockInv, TypeOK
<1> QED
  BY <1>3, <1>4, <1>5, <1>6, <1>7

LEMMA StampKeepsNames ==
  ASSUME NamesInv, LockInv', UNCHANGED faults, NEW d \in Daemons, Stamp(d)
  PROVE  NamesInv'
<1> DEFINE new == [stamp |-> Clock(d), who |-> d]
<1>1. TypeOK /\ NamesGrow /\ Abandoned /\ Leftover /\ LandsOnce /\ TrappedGone
  BY DEF NamesInv, LockInv
<1>2. /\ Outside(d) /\ inflight' = inflight \union {new}
      /\ trapped' = trapped \ {d}
      /\ UNCHANGED <<now, locks>>
  BY DEF Stamp, Outside
<1>3. /\ MyLock(d)' = new /\ new.who = d /\ new.stamp = Clock(d)
      /\ stamp'[d] = Clock(d) /\ ~Outside(d)'
  BY <1>1 DEF Stamp, MyLock, Outside, MoveTo, TypeOK
<1>4. \A e \in Daemons : e # d =>
        /\ MyLock(e)' = MyLock(e) /\ stamp'[e] = stamp[e]
        /\ (Outside(e)' <=> Outside(e))
  BY <1>1 DEF Stamp, MyLock, Outside, MoveTo, TypeOK
<1>5. \A l \in inflight \union locks : l.who \in Daemons /\ (l.who = d => l.stamp < Clock(d))
  <2>1. SUFFICES ASSUME NEW l \in inflight \union locks, l.who = d PROVE l.stamp < Clock(d)
    BY <1>1, BornType
  <2>2. Born(l) < now
    BY <1>1, <1>2, <2>1 DEF NamesGrow
  <2> QED
    BY <1>1, <2>1, <2>2, BornType DEF Born, Clock
<1>6. Clock(d) \in Nat
  BY <1>1, ClockType
<1>7. NamesGrow'
  <2>1. SUFFICES ASSUME NEW l \in inflight' \union locks
                 PROVE  l.stamp <= stamp'[l.who] /\ (Outside(l.who)' => Born(l) < now)
    BY <1>2 DEF NamesGrow, Outside
  <2>2. CASE l = new
    BY <1>3, <1>6, <2>2
  <2>3. CASE l \in inflight \union locks /\ l.who = d
    BY <1>1, <1>3, <1>5, <1>6, <2>3, BornType
  <2>4. CASE l \in inflight \union locks /\ l.who # d
    BY <1>1, <1>4, <1>5, <2>4 DEF NamesGrow
  <2> QED
    BY <1>2, <2>2, <2>3, <2>4
<1>8. Abandoned'
  <2>1. SUFFICES ASSUME NEW l \in inflight', l # MyLock(l.who)' \/ Outside(l.who)'
                 PROVE  now - Born(l) > MaxLag
    BY <1>2 DEF Abandoned, Outside
  <2>2. l # new
    BY <1>3, <2>1
  <2> QED
    BY <1>1, <1>2, <1>4, <1>5, <2>1, <2>2 DEF Abandoned
<1>9. Leftover'
  BY <1>1, <1>2, <1>4, <1>5 DEF Leftover, Outside
<1>10. LandsOnce'
  BY <1>1, <1>2, <1>3, <1>5, <1>6 DEF LandsOnce
<1>11. TrappedGone'
  <2>1. trapped \subseteq Daemons
    BY <1>1 DEF TypeOK
  <2>2. \A e \in Daemons : e # d => MyLock(e) # new
    BY DEF MyLock
  <2> QED
    BY <1>1, <1>2, <1>4, <2>1, <2>2 DEF TrappedGone
<1> QED
  BY <1>2, <1>7, <1>8, <1>9, <1>10, <1>11 DEF NamesInv

LEMMA AgainKeepsNames ==
  ASSUME Timely, NamesInv, LockInv', UNCHANGED faults, NEW d \in Daemons, Again(d)
  PROVE  NamesInv'
<1>1. /\ TypeOK /\ NamesGrow /\ Abandoned /\ Leftover /\ LandsOnce /\ TrappedGone
      /\ HeldAfterRecheck /\ IsFiniteSet(locks)
  BY DEF NamesInv, LockInv
<1>2. /\ pc[d] = "holding" /\ RemoveMyLock(d)
      /\ UNCHANGED <<now, stamp, inflight, trapped>>
      /\ \A e \in Daemons : MyLock(e)' = MyLock(e) /\ (e # d => (Outside(e)' <=> Outside(e)))
  BY <1>1 DEF Again, MoveTo, MyLock, Outside, TypeOK
<1>3. locks' \subseteq locks
  BY <1>2, RemovesOnlyMine
<1>4. Born(MyLock(d)) + Recheck <= now
  BY <1>1, <1>2 DEF HeldAfterRecheck
<1>5. \A l \in inflight \union locks : l.who \in Daemons
  BY <1>1, BornType
<1>6. \A l \in inflight \union locks : l.who = d => Born(l) + MaxLag < now
  <2>1. SUFFICES ASSUME NEW l \in inflight \union locks, l.who = d
                 PROVE  Born(l) + MaxLag < now
    OBVIOUS
  <2>2. Born(l) <= Born(MyLock(d))
    BY <1>1, <2>1, BornType DEF NamesGrow, Born, MyLock
  <2>3. /\ Recheck \in Nat /\ MaxLag \in Nat /\ MaxSkew \in Nat
        /\ MaxLag + MaxSkew < Recheck
    BY ConstantsAssumption DEF Timely
  <2>4. Born(l) \in Int /\ Born(MyLock(d)) \in Int /\ now \in Nat
    BY <1>1, SkewType, BornType DEF Born, MyLock, TypeOK
  <2> QED
    BY <1>4, <2>2, <2>3, <2>4
<1>7. NamesGrow'
  <2>1. SUFFICES ASSUME NEW l \in inflight \union locks
                 PROVE  l.stamp <= stamp[l.who] /\ (Outside(l.who)' => Born(l) < now)
    BY <1>2, <1>3 DEF NamesGrow, Outside
  <2>2. l.who = d => Born(l) < now
    BY <1>1, <1>6, BornType
  <2> QED
    BY <1>1, <1>2, <1>5, <2>2 DEF NamesGrow
<1>8. Abandoned'
  <2>1. SUFFICES ASSUME NEW l \in inflight, l # MyLock(l.who) \/ Outside(l.who)'
                 PROVE  now - Born(l) > MaxLag
    BY <1>2, <1>5 DEF Abandoned, Outside
  <2>2. CASE l.who = d
    <3>1. Born(l) + MaxLag < now
      BY <1>6, <2>2
    <3> QED
      BY <1>1, <3>1, BornType
  <2> QED
    BY <1>1, <1>2, <1>5, <2>1, <2>2 DEF Abandoned
<1>9. Leftover'
  <2>1. SUFFICES ASSUME NEW l \in locks', l # MyLock(l.who) \/ Outside(l.who)'
                 PROVE  "rm" \in faults
    BY <1>2, <1>3, <1>5 DEF Leftover, Outside
  <2>2. CASE l = MyLock(d)
    BY <1>2, <2>1, <2>2 DEF RemoveMyLock
  <2>3. CASE l.who = d /\ l # MyLock(d)
    BY <1>1, <1>3, <2>3 DEF Leftover
  <2>4. CASE l.who # d
    BY <1>1, <1>2, <1>3, <1>5, <2>1, <2>4 DEF Leftover
  <2> QED
    BY <2>2, <2>3, <2>4
<1>10. IsFiniteSet(locks')
  BY <1>1, <1>3, FS_Subset
<1>11. LandsOnce' /\ TrappedGone'
  <2>1. trapped \subseteq Daemons
    BY <1>1 DEF TypeOK
  <2> QED
    BY <1>1, <1>2, <1>3, <2>1 DEF LandsOnce, TrappedGone
<1> QED
  BY <1>7, <1>8, <1>9, <1>10, <1>11 DEF NamesInv

LEMMA LandKeepsNames ==
  ASSUME NamesInv, LockInv', UNCHANGED faults, NEW l \in inflight, Land(l)
  PROVE  NamesInv'
<1>1. /\ TypeOK /\ NamesGrow /\ Abandoned /\ Leftover /\ LandsOnce /\ TrappedGone
      /\ IsFiniteSet(locks)
  BY DEF NamesInv, LockInv
<1>2. /\ UNCHANGED <<now, pc, stamp, trapped>>
      /\ inflight' = inflight \ {l} /\ locks' = locks \union {l}
      /\ now - Born(l) <= MaxLag
  BY DEF Land
<1>3. /\ \A d \in Daemons : MyLock(d)' = MyLock(d) /\ (Outside(d)' <=> Outside(d))
      /\ \A k \in inflight \union locks : k.who \in Daemons
  BY <1>1, <1>2, BornType DEF MyLock, Outside
<1>4. l = MyLock(l.who) /\ ~Outside(l.who)
  <2>1. ~(now - Born(l) > MaxLag)
    BY <1>1, <1>2, BornType
  <2> QED
    BY <1>1, <2>1 DEF Abandoned
<1>5. NamesGrow' /\ Abandoned'
  BY <1>1, <1>2, <1>3 DEF NamesGrow, Abandoned, Born
<1>6. Leftover'
  BY <1>1, <1>2, <1>3, <1>4 DEF Leftover
<1>7. IsFiniteSet(locks')
  BY <1>1, <1>2, FS_AddElement
<1>8. LandsOnce' /\ TrappedGone'
  <2>1. trapped \subseteq Daemons
    BY <1>1 DEF TypeOK
  <2> QED
    BY <1>1, <1>2, <1>3, <2>1 DEF LandsOnce, TrappedGone
<1> QED
  BY <1>5, <1>6, <1>7, <1>8 DEF NamesInv

LEMMA NamesInvStep ==
  ASSUME Timely, NamesInv, LockInv', [Next]_vars PROVE NamesInv'
<1>1. TypeOK
  BY DEF NamesInv, LockInv
<1>2. CASE UNCHANGED vars
  BY <1>1, <1>2, NamesKept DEF vars, Outside, TypeOK
<1>3. ASSUME NEW d \in Daemons, UNCHANGED faults, Step(d) PROVE NamesInv'
  <2>1. CASE ExpiredLock(d)
    <3>1. locks' = locks
      BY <2>1, ExpiredLockKeepsLocks
    <3>2. \A e \in Daemons : Outside(e)' => Outside(e)
      BY <1>1, <2>1 DEF ExpiredLock, MoveTo, Outside, TypeOK
    <3> QED
      BY <1>3, <2>1, <3>1, <3>2, NamesKept DEF ExpiredLock
  <2>2. CASE Stamp(d)
    BY <1>3, <2>2, StampKeepsNames
  <2>3. CASE FirstLook(d) \/ SecondLook(d)
    <3>1. \A e \in Daemons : Outside(e)' => Outside(e)
      BY <1>1, <2>3 DEF FirstLook, SecondLook, LookIfFirst, MoveTo, Outside, TypeOK
    <3>2. UNCHANGED <<now, stamp, inflight, locks, trapped>>
      BY <2>3 DEF FirstLook, SecondLook
    <3> QED
      BY <1>3, <3>1, <3>2, NamesKept
  <2>4. CASE Yield(d) \/ Leave(d)
    <3>1. \A e \in Daemons : Outside(e)' => Outside(e)
      BY <1>1, <2>4 DEF Yield, Leave, MoveTo, Outside, TypeOK
    <3>2. UNCHANGED <<now, stamp, inflight, trapped>> /\ locks' \subseteq locks
      BY <2>4, RemovesOnlyMine DEF Yield, Leave
    <3> QED
      BY <1>3, <3>1, <3>2, NamesKept
  <2>5. CASE Again(d)
    BY <1>3, <2>5, AgainKeepsNames
  <2>6. CASE Finish(d) \/ Crash(d)
    <3>1. \A e \in Daemons : Outside(e)' => Outside(e)
      BY <1>1, <2>6 DEF Finish, Crash, MoveTo, Outside, TypeOK
    <3>2. UNCHANGED <<now, stamp, inflight, locks, trapped>>
      BY <2>6 DEF Finish, Crash
    <3> QED
      BY <1>3, <3>1, <3>2, NamesKept
  <2>7. CASE Trap(d)
    <3>1. UNCHANGED <<now, pc, stamp, inflight>> /\ locks' \subseteq locks
      BY <2>7 DEF Trap
    <3>2. \A e \in trapped' : e \in trapped \/ MyLock(e) \notin inflight \union locks'
      BY <2>7 DEF Trap, NamesInv, LandsOnce
    <3> QED
      BY <1>3, <3>1, <3>2, NamesKept DEF Outside
  <2> QED
    BY <1>3, <2>1, <2>2, <2>3, <2>4, <2>5, <2>6, <2>7 DEF Step
<1>4. ASSUME NEW l \in inflight, UNCHANGED faults, Land(l) PROVE NamesInv'
  BY <1>4, LandKeepsNames
<1>5. ASSUME NEW l \in inflight, UNCHANGED faults, Lose(l) PROVE NamesInv'
  <2>1. UNCHANGED <<now, pc, stamp, locks, trapped>> /\ inflight' \subseteq inflight
    BY <1>5 DEF Lose
  <2> QED
    BY <1>5, <2>1, NamesKept DEF Outside
<1>6. CASE UNCHANGED faults /\ Tick
  <2>1. UNCHANGED <<pc, stamp, inflight, locks, trapped>> /\ now' = now + 1
    BY <1>6 DEF Tick
  <2> QED
    BY <1>6, <2>1, NamesKept DEF Outside
<1> QED
  BY <1>2, <1>3, <1>4, <1>5, <1>6 DEF Next

LEMMA NamesInvariant == ASSUME Timely PROVE Spec => []NamesInv
<1>1. Init /\ LockInv => NamesInv
  BY FS_EmptySet DEF Init, NamesInv, NamesGrow, Abandoned, Leftover, LandsOnce, TrappedGone
<1>2. NamesInv /\ LockInv' /\ [Next]_vars => NamesInv'
  BY NamesInvStep
<1> QED
  BY <1>1, <1>2, LockInvariant, PTL DEF Spec

-----------------------------------------------------------------------------
(* The refinement *)

Phase == [d \in Daemons |-> AbstractPhase(d)]
Listed == {l.who : l \in locks}
First == {l.who : l \in GetFirst}

LEMMA FirstOf ==
  ASSUME TypeOK, IsFiniteSet(locks)
  PROVE  \/ locks = {} /\ GetFirst = {}
         \/ \E l \in locks : GetFirst = {l} /\ First = {l.who}
<1>1. GetFirst = LeastIn(locks) /\ locks \in SUBSET LockFiles
  BY DEF GetFirst, LeastIn, TypeOK
<1>2. CASE locks = {}
  BY <1>2 DEF GetFirst
<1>3. CASE locks # {}
  <2>1. PICK l \in locks : LeastIn(locks) = {l}
    BY <1>1, <1>3, LeastExists
  <2> QED
    BY <1>1, <2>1 DEF First
<1> QED
  BY <1>2, <1>3

(* The removal of the file named last is that of the owner's only file, or *)
(* changes nothing for the other daemons because an older one is left.     *)
LEMMA RemovalRefines ==
  ASSUME NamesInv, NamesInv', UNCHANGED faults, NEW d \in Daemons, RemoveMyLock(d)
  PROVE  Mutex!RemoveLock(d)
<1>1. /\ TypeOK /\ TypeOK' /\ IsFiniteSet(locks) /\ IsFiniteSet(locks')
      /\ NamesGrow /\ Leftover
  BY DEF NamesInv, LockInv
<1>2. SUFFICES \/ /\ Listed' = Listed \ {d}
                  /\ IF d \in First
                     THEN \/ Listed' = {} /\ First' = {}
                          \/ \E e \in Listed' : First' = {e}
                     ELSE First' = First
               \/ "rm" \in faults /\ Listed' = Listed /\ First' = First
  BY DEF Mutex!RemoveLock, Mutex!Unlist, Listed, First
<1>3. CASE locks' = locks /\ "rm" \in faults
  <2>1. Listed' = Listed /\ First' = First
    BY <1>3 DEF Listed, First, GetFirst
  <2> QED
    BY <1>3, <2>1
<1>4. CASE locks' = locks \ {MyLock(d)}
  <2>1. GetFirst = LeastIn(locks) /\ GetFirst' = LeastIn(locks')
    BY DEF GetFirst, LeastIn
  <2>2. locks' \in SUBSET LockFiles /\ locks \in SUBSET LockFiles
    BY <1>1 DEF TypeOK
  <2>3. ASSUME NEW l \in locks', l \in GetFirst PROVE First' = First
    <3>1. l \in LeastIn(locks) /\ l \in LeastIn(locks')
      BY <1>4, <2>1, <2>3 DEF LeastIn
    <3>2. LeastIn(locks) = {l} /\ LeastIn(locks') = {l}
      BY <2>2, <3>1, LeastIs
    <3> QED
      BY <2>1, <3>2 DEF First
  <2>4. CASE \E k \in locks : k.who = d /\ k # MyLock(d)
    <3>1. PICK k \in locks : k.who = d /\ k # MyLock(d)
      BY <2>4
    <3>2. "rm" \in faults /\ k \in locks'
      BY <1>1, <1>4, <3>1 DEF Leftover
    <3>3. Listed' = Listed
      BY <1>4, <3>1, <3>2 DEF Listed, MyLock
    <3>4. Before(k, MyLock(d)) /\ k \in LockFiles /\ MyLock(d) \in LockFiles
      <4>1. /\ k \in LockFiles /\ MyLock(d) \in LockFiles
            /\ k.stamp \in Nat /\ stamp[d] \in Nat /\ k.stamp <= stamp[d]
        BY <1>1, <3>1, MyLockType DEF NamesGrow, TypeOK, LockFiles
      <4>2. k.stamp # stamp[d]
        BY <3>1, <4>1 DEF MyLock, LockFiles
      <4> QED
        BY <4>1, <4>2 DEF Before, MyLock
    <3>5. MyLock(d) \notin GetFirst
      BY <3>1, <3>4, BeforeIsAnOrder DEF GetFirst
    <3>6. PICK l \in locks : GetFirst = {l}
      BY <1>1, <3>1, FirstOf
    <3>7. First' = First
      BY <1>4, <2>3, <3>5, <3>6
    <3> QED
      BY <3>2, <3>3, <3>7
  <2>5. CASE ~\E k \in locks : k.who = d /\ k # MyLock(d)
    <3>1. Listed' = Listed \ {d}
      BY <1>4, <2>5 DEF Listed, MyLock
    <3>2. CASE d \in First
      <4>1. CASE locks' = {}
        BY <3>1, <3>2, <4>1 DEF Listed, First, GetFirst
      <4>2. CASE locks' # {}
        <5>1. PICK l \in locks' : LeastIn(locks') = {l}
          BY <1>1, <2>2, <4>2, LeastExists
        <5>2. l.who \in Listed' /\ First' = {l.who}
          BY <2>1, <5>1 DEF Listed, First
        <5> QED
          BY <3>1, <3>2, <5>2
      <4> QED
        BY <4>1, <4>2
    <3>3. CASE d \notin First
      <4>1. CASE locks = {}
        BY <1>4, <3>1, <3>3, <4>1 DEF First, GetFirst
      <4>2. CASE locks # {}
        <5>1. PICK l \in locks : GetFirst = {l} /\ First = {l.who}
          BY <1>1, <4>2, FirstOf
        <5>2. l \in locks'
          BY <1>4, <3>3, <5>1 DEF MyLock
        <5> QED
          BY <2>3, <3>1, <3>3, <5>1, <5>2
      <4> QED
        BY <4>1, <4>2
    <3> QED
      BY <3>2, <3>3
  <2> QED
    BY <2>4, <2>5
<1> QED
  BY <1>3, <1>4 DEF RemoveMyLock

(* A daemon at work keeps the others out of the first place.               *)
LEMMA ArrivalRefines ==
  ASSUME Timely, NamesInv, NamesInv', NEW l \in inflight, Land(l)
  PROVE  Mutex!Appear(l.who)
<1>1. TypeOK /\ TypeOK' /\ IsFiniteSet(locks) /\ HeldAfterRecheck /\ FirstWhileWorking
  BY DEF NamesInv, LockInv
<1>2. locks' = locks \union {l} /\ l.who \in Daemons /\ UNCHANGED <<pc, trapped>>
  BY <1>1, BornType DEF Land
<1>3. Phase' = Phase
  BY <1>2 DEF Phase, AbstractPhase
<1>4. Listed' = Listed \union {l.who}
  BY <1>2 DEF Listed
<1>5. GetFirst' = LeastIn(locks') /\ GetFirst = LeastIn(locks) /\ locks' \in SUBSET LockFiles
  BY <1>1 DEF GetFirst, LeastIn, TypeOK
<1>6. {d \in Daemons : Phase[d] = "working"} = Working
  BY DEF Phase, AbstractPhase, Working, Holders
<1>7. SUFFICES \/ First # {} /\ First' = First
               \/ Working = {} /\ First' = {l.who}
  BY <1>3, <1>4, <1>6 DEF Mutex!Appear, Mutex!Working, Phase, Listed, First
<1>8. CASE \E k \in locks : k \in GetFirst /\ (k = l \/ Before(k, l))
  <2>1. PICK k \in locks : k \in GetFirst /\ (k = l \/ Before(k, l))
    BY <1>8
  <2>2. k \in LeastIn(locks') /\ k \in LeastIn(locks)
    BY <1>2, <1>5, <2>1 DEF LeastIn
  <2>3. LeastIn(locks') = {k} /\ LeastIn(locks) = {k}
    BY <1>1, <1>5, <2>2, LeastIs DEF TypeOK
  <2> QED
    BY <1>5, <2>3 DEF First
<1>9. CASE ~\E k \in locks : k \in GetFirst /\ (k = l \/ Before(k, l))
  <2>1. l \in LeastIn(locks')
    <3>1. SUFFICES ASSUME NEW k \in locks, k # l PROVE Before(l, k)
      BY <1>2 DEF LeastIn
    <3>2. PICK f \in locks : GetFirst = {f}
      BY <1>1, FirstOf
    <3>3. f = k \/ Before(f, k)
      BY <3>2 DEF GetFirst
    <3>4. f \in LockFiles /\ k \in LockFiles /\ l \in LockFiles
      BY <1>1 DEF TypeOK
    <3>5. Before(l, f)
      BY <1>9, <3>2, <3>4, BeforeIsAnOrder
    <3> QED
      BY <3>3, <3>4, <3>5, BeforeIsAnOrder
  <2>2. LeastIn(locks') = {l}
    BY <1>5, <2>1, LeastIs
  <2>3. First' = {l.who}
    BY <1>5, <2>2 DEF First
  <2>4. Working = {}
    <3>1. SUFFICES ASSUME NEW d \in Working PROVE FALSE
      OBVIOUS
    <3>2. MyLock(d) \in GetFirst
      BY <1>1 DEF FirstWhileWorking, IAmFirst
    <3>3. Before(MyLock(d), l)
      BY <1>1, LateSortsAfter DEF Land
    <3> QED
      BY <1>9, <3>2, <3>3 DEF GetFirst
  <2> QED
    BY <2>3, <2>4
<1> QED
  BY <1>8, <1>9

LEMMA InitRefines == Init => Mutex!Init
  BY DEF Init, Mutex!Init, AbstractPhase, GetFirst

LEMMA StutterRefines ==
  ASSUME Phase' = Phase, locks' = locks, UNCHANGED faults
  PROVE  UNCHANGED Mutex!vars
  BY DEF Mutex!vars, Phase, GetFirst

LEMMA DaemonStepRefines ==
  ASSUME Timely, NamesInv, NamesInv', FaultlessInv, UNCHANGED faults,
         NEW d \in Daemons, Step(d)
  PROVE  Mutex!Step(d) \/ UNCHANGED Mutex!vars
<1>1. TypeOK /\ TrappedGone
  BY DEF NamesInv, LockInv
<1>2. CASE ExpiredLock(d)
  <2>1. locks' = locks
    BY <1>2, ExpiredLockKeepsLocks
  <2>2. Phase' = Phase
    BY <1>1, <1>2 DEF ExpiredLock, MoveTo, Phase, AbstractPhase, TypeOK
  <2> QED
    BY <2>1, <2>2, StutterRefines
<1>3. CASE Stamp(d)
  <2>1. /\ Phase[d] = "out" /\ Phase' = [Phase EXCEPT ![d] = "contending"]
        /\ UNCHANGED <<Listed, First>>
    BY <1>1, <1>3 DEF Stamp, MoveTo, Phase, AbstractPhase, TypeOK, Listed, First, GetFirst
  <2>2. Mutex!Contend(d)
    BY <2>1 DEF Mutex!Contend, Mutex!MoveTo, Phase, Listed, First
  <2> QED
    BY <2>2 DEF Mutex!Step
<1>4. CASE FirstLook(d) /\ pc'[d] = "sleeping"
  <2>1. Phase' = Phase /\ locks' = locks
    BY <1>1, <1>4 DEF FirstLook, LookIfFirst, MoveTo, Phase, AbstractPhase, TypeOK
  <2> QED
    BY <2>1, StutterRefines
<1>5. CASE (FirstLook(d) \/ SecondLook(d)) /\ pc'[d] = "yielding"
  <2>1. /\ Phase[d] = "contending" /\ Phase' = [Phase EXCEPT ![d] = "leaving"]
        /\ UNCHANGED <<Listed, First>>
    BY <1>1, <1>5 DEF FirstLook, SecondLook, LookIfFirst, MoveTo, Phase, AbstractPhase,
                      TypeOK, Listed, First, GetFirst
  <2>2. ASSUME faults = {} PROVE d \in Listed /\ \E e \in First : e # d
    <3>1. TypeOK /\ OwnFiles /\ InTime /\ Placed /\ IsFiniteSet(locks)
      BY <2>2 DEF FaultlessInv, NamesInv
    <3>2. MyLock(d) \in locks
      BY <1>5, <3>1, LooksAfterLanding DEF FirstLook, SecondLook, Placed
    <3>3. ~IAmFirst(d)
      BY <1>5, <2>2, <3>1 DEF FirstLook, SecondLook, LookIfFirst, MoveTo, TypeOK
    <3>4. PICK l \in locks : GetFirst = {l} /\ First = {l.who}
      BY <3>1, <3>2, FirstOf
    <3>5. l.who # d
      BY <3>1, <3>3, <3>4 DEF OwnFiles, IAmFirst
    <3>6. d \in Listed
      BY <3>2 DEF Listed, MyLock
    <3> QED
      BY <3>4, <3>5, <3>6
  <2>3. Mutex!Refuse(d)
    BY <2>1, <2>2 DEF Mutex!Refuse, Mutex!MoveTo, Phase, Listed, First
  <2> QED
    BY <2>3 DEF Mutex!Step
<1>6. CASE SecondLook(d) /\ pc'[d] = "holding"
  <2>1. IAmFirst(d) /\ pc[d] = "sleeping" /\ UNCHANGED <<locks, trapped>>
    BY <1>1, <1>6 DEF SecondLook, LookIfFirst, MoveTo, TypeOK
  <2>2. MyLock(d) \in locks /\ d \notin trapped
    BY <1>1, <2>1 DEF IAmFirst, GetFirst, TrappedGone
  <2>3. First = {d}
    <3>1. PICK l \in locks : GetFirst = {l} /\ First = {l.who}
      BY <1>1, <2>2, FirstOf DEF NamesInv
    <3>2. l = MyLock(d)
      BY <2>1, <3>1 DEF IAmFirst
    <3> QED
      BY <3>1, <3>2 DEF MyLock
  <2>4. /\ Phase[d] = "contending" /\ Phase' = [Phase EXCEPT ![d] = "working"]
        /\ UNCHANGED <<Listed, First>>
    BY <1>1, <1>6, <2>1, <2>2
    DEF SecondLook, LookIfFirst, MoveTo, Phase, AbstractPhase, TypeOK, Listed, First, GetFirst
  <2>5. Mutex!Acquire(d)
    BY <2>3, <2>4 DEF Mutex!Acquire, Mutex!MoveTo, Phase, Listed, First
  <2> QED
    BY <2>5 DEF Mutex!Step
<1>7. CASE Yield(d)
  <2>1. Phase' = Phase /\ Phase[d] # "working"
    BY <1>1, <1>7 DEF Yield, MoveTo, Phase, AbstractPhase, TypeOK
  <2>2. Mutex!Vanish(d)
    BY <1>7, <2>1, RemovalRefines DEF Yield, Mutex!Vanish, Phase
  <2> QED
    BY <2>2 DEF Mutex!Step
<1>8. CASE Again(d)
  <2>1. /\ Phase[d] \in {"working", "unlocked"}
        /\ Phase' = [Phase EXCEPT ![d] = "out"]
    BY <1>1, <1>8 DEF Again, MoveTo, Phase, AbstractPhase, TypeOK
  <2>2. Mutex!Release(d)
    BY <1>8, <2>1, RemovalRefines DEF Again, Mutex!Release, Mutex!MoveTo, Phase
  <2> QED
    BY <2>2 DEF Mutex!Step
<1>9. CASE Finish(d)
  <2>1. /\ Phase[d] \in {"working", "unlocked"}
        /\ Phase' = [Phase EXCEPT ![d] = "leaving"]
        /\ UNCHANGED <<Listed, First>>
    BY <1>1, <1>9 DEF Finish, MoveTo, Phase, AbstractPhase, TypeOK, Listed, First, GetFirst
  <2>2. Mutex!Finish(d)
    BY <2>1 DEF Mutex!Finish, Mutex!MoveTo, Phase, Listed, First
  <2> QED
    BY <2>2 DEF Mutex!Step
<1>10. CASE Leave(d)
  <2>1. Phase[d] = "leaving" /\ Phase' = [Phase EXCEPT ![d] = "gone"]
    BY <1>1, <1>10 DEF Leave, MoveTo, Phase, AbstractPhase, TypeOK
  <2>2. Mutex!Leave(d)
    BY <1>10, <2>1, RemovalRefines DEF Leave, Mutex!Leave, Mutex!MoveTo, Phase
  <2> QED
    BY <2>2 DEF Mutex!Step
<1>11. CASE Trap(d)
  <2>1. RemoveMyLock(d) /\ "trap" \in faults /\ d \notin trapped
    BY <1>1, <1>11 DEF Trap, RemoveMyLock, TrappedGone
  <2>2. CASE pc[d] = "holding"
    <3>1. Phase[d] = "working" /\ Phase' = [Phase EXCEPT ![d] = "unlocked"]
      BY <1>1, <1>11, <2>1, <2>2 DEF Trap, Phase, AbstractPhase, TypeOK
    <3>2. Mutex!Trap(d)
      BY <2>1, <3>1, RemovalRefines DEF Mutex!Trap, Mutex!MoveTo, Phase
    <3> QED
      BY <3>2 DEF Mutex!Step
  <2>3. CASE pc[d] # "holding"
    <3>1. Phase[d] # "working" /\ Phase' = Phase
      BY <1>1, <1>11, <2>3 DEF Trap, Phase, AbstractPhase, TypeOK
    <3>2. Mutex!Vanish(d)
      BY <2>1, <3>1, RemovalRefines DEF Mutex!Vanish, Phase
    <3> QED
      BY <3>2 DEF Mutex!Step
  <2> QED
    BY <2>2, <2>3
<1>12. CASE Crash(d)
  <2>1. /\ "crash" \in faults /\ Phase[d] # "gone"
        /\ Phase' = [Phase EXCEPT ![d] = "gone"]
        /\ UNCHANGED <<Listed, First>>
    BY <1>1, <1>12 DEF Crash, MoveTo, Phase, AbstractPhase, TypeOK, Places,
                       Listed, First, GetFirst
  <2>2. Mutex!Crash(d)
    BY <2>1 DEF Mutex!Crash, Mutex!MoveTo, Phase, Listed, First
  <2> QED
    BY <2>2 DEF Mutex!Step
<1>13. /\ FirstLook(d) => pc'[d] \in {"sleeping", "yielding"}
       /\ SecondLook(d) => pc'[d] \in {"holding", "yielding"}
  BY <1>1 DEF FirstLook, SecondLook, LookIfFirst, MoveTo, TypeOK
<1> QED
  BY <1>2, <1>3, <1>4, <1>5, <1>6, <1>7, <1>8, <1>9, <1>10, <1>11, <1>12, <1>13 DEF Step

LEMMA StepRefines ==
  ASSUME Timely, NamesInv, NamesInv', FaultlessInv, [Next]_vars
  PROVE  [Mutex!Next]_Mutex!vars
<1>1. CASE UNCHANGED vars
  <2>1. Phase' = Phase
    BY <1>1 DEF vars, Phase, AbstractPhase
  <2> QED
    BY <1>1, <2>1, StutterRefines DEF vars
<1>2. ASSUME UNCHANGED faults, NEW d \in Daemons, Step(d)
      PROVE  [Mutex!Next]_Mutex!vars
  BY <1>2, DaemonStepRefines DEF Mutex!Next
<1>3. ASSUME UNCHANGED faults, NEW l \in inflight, Land(l)
      PROVE  [Mutex!Next]_Mutex!vars
  <2>1. l.who \in Daemons
    BY BornType DEF NamesInv, LockInv
  <2>2. Mutex!Step(l.who)
    BY <1>3, ArrivalRefines DEF Mutex!Step
  <2> QED
    BY <1>3, <2>1, <2>2 DEF Mutex!Next
<1>4. ASSUME UNCHANGED faults, UNCHANGED <<pc, locks, trapped>>
      PROVE  [Mutex!Next]_Mutex!vars
  <2>1. Phase' = Phase
    BY <1>4 DEF Phase, AbstractPhase
  <2> QED
    BY <1>4, <2>1, StutterRefines
<1> QED
  BY <1>1, <1>2, <1>3, <1>4 DEF Next, Lose, Tick

(* Uploads that are late and clocks that differ by less than the sleep     *)
(* together: what the daemons do to the lock directory is what the         *)
(* abstract lock allows, whatever fails.                                   *)
THEOREM LockRefinesMutex == ASSUME Timely PROVE Spec => MutexSpec
<1>1. Init => Mutex!Init
  BY InitRefines
<1>2. NamesInv /\ NamesInv' /\ FaultlessInv /\ [Next]_vars => [Mutex!Next]_Mutex!vars
  BY StepRefines
<1> QED
  BY <1>1, <1>2, NamesInvariant, FaultlessInvariant, PTL DEF Spec, MutexSpec, Mutex!Spec

=============================================================================
