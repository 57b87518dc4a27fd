---------------------------- MODULE JobFilesProofs ----------------------------
(***************************************************************************)
(* Proofs about JobFiles, for any processes, outputs, inputs and settings. *)
(*                                                                         *)
(* Made is about mkdir_p: what the way up has left below the place it is   *)
(* at.  Named is about the names that anybody has in hand: a unique string *)
(* is in one name only, so that nobody overwrites a file that another is   *)
(* to copy (Copies).  Order, Lines and Kept are about the log, whose       *)
(* lines are in a renaming process while it renames (Book).                *)
(***************************************************************************)
EXTENDS JobFiles, SequenceTheorems, TLAPS

(* A name has one unique string at most.                                   *)
Uuids == {<<>>} \union {<<k>> : k \in Nat}

NameType == [dir : STRING, base : STRING, uuid : Uuids]

LineType == [file : NameType, in : Inputs \union {None}]

CopyType == [from : NameType, out : Outputs \union {None}]

(* mkdir_p goes up and down between its path and the destination itself.   *)
Paths == {<<>>} \union {<<"h", b>> : b \in STRING \union {"u"}}

MkType ==
    {m \in [path : Paths, level : 0 .. 2, second : BOOLEAN, try : {1, 2}, exists : BOOLEAN] :
        m.level <= Len(m.path)}

Copying(p) == pc[p] \in {"args", "mkdir", "cp", "copied"}

(* What a process has in hand where it is, and that it may be there.       *)
InHand(p) ==
    /\ pc[p] = "append" => arg[p] \in Outputs /\ "add" \in calls[p]
    /\ pc[p] = "rename" => done[p] \in Seq(LineType) /\ how[p] \in calls[p]
    /\ Copying(p) => done[p] \in Seq(CopyType)

TypeOK ==
    /\ setting \in Settings
    /\ pc \in [Procs -> {"idle", "append", "rename", "args", "mkdir", "cp", "copied", "dead"}]
    /\ left \in [Procs -> Nat]
    /\ input \in [Procs -> Inputs \union {None}]
    /\ arg \in [Procs -> Outputs \union {None}]
    /\ how \in [Procs -> Renames]
    /\ todo \in [Procs -> Seq(LineType)]
    /\ done \in [Procs -> Seq(LineType) \union Seq(CopyType)]
    /\ rres \in [Procs -> {0, 1}]
    /\ mk \in [Procs -> MkType]
    /\ hasLog \in BOOLEAN /\ hasNew \in BOOLEAN
    /\ log \in Seq(LineType)
    /\ DOMAIN disk \subseteq NameType /\ \A n \in DOMAIN disk : disk[n] \in Outputs
    /\ uuids \in Nat
    /\ added \subseteq Outputs
    /\ \A p \in Procs : InHand(p)

Act(p) ==
    \/ FetchInput(p) \/ AddCheck(p) \/ AddAppend(p)
    \/ RenameStart(p, "unique") \/ RenameStart(p, "substitute")
    \/ RenameOne(p) \/ RenameEnd(p)
    \/ CopyStart(p) \/ CopyArgs(p) \/ StartCp(p) \/ CopyOne(p) \/ CopyEnd(p) \/ Return(p)
    \/ TryMkdir(p) \/ Cleanup(p) \/ Crash(p)

LEMMA OneActs == Next => \E p \in Procs : Act(p)
  BY DEF Next, Step, Act

LEMMA SettingStays == [Next]_vars => setting' = setting
<1>1. ASSUME NEW p \in Procs, Act(p) PROVE setting' = setting
  BY <1>1 DEF Act, FetchInput, AddCheck, AddAppend, RenameStart, RenameOne, RenameEnd,
     CopyStart, CopyArgs, StartCp, CopyOne, CopyEnd, Return, TryMkdir, Cleanup, Crash
<1> QED
  BY <1>1, OneActs DEF vars

(* The constants.                                                          *)
LEMMA SettingIs ==
  ASSUME TypeOK
  PROVE  /\ place \in [Outputs -> [dir : STRING, base : STRING]]
         /\ calls \in [Procs -> SUBSET CallKinds]
         /\ left \in [Procs -> Nat]
         /\ setting.hash \in BOOLEAN
         /\ faults \subseteq FaultKinds
         /\ \A a, b \in Outputs : place[a] = place[b] => a = b
  BY ConstantsAssumption DEF TypeOK, SettingType, place, calls, faults

LEMMA FirstNameIs ==
  ASSUME TypeOK, NEW o \in Outputs
  PROVE  /\ FirstName(o) \in NameType /\ FirstName(o).uuid = <<>>
         /\ FirstName(o).base = place[o].base
         /\ \A a \in Outputs : FirstName(a) = FirstName(o) => a = o
<1>1. place[o] \in [dir : STRING, base : STRING]
  BY SettingIs
<1>2. \A a \in Outputs : FirstName(a) = FirstName(o) => a = o
  <2> SUFFICES ASSUME NEW a \in Outputs, FirstName(a) = FirstName(o) PROVE a = o
    OBVIOUS
  <2>1. place[a] \in [dir : STRING, base : STRING]
    BY SettingIs
  <2>2. place[a].dir = place[o].dir /\ place[a].base = place[o].base
    BY DEF FirstName, Name
  <2> QED
    BY <1>1, <2>1, <2>2, SettingIs
<1> QED
  BY <1>1, <1>2 DEF FirstName, Name, NameType, Uuids

LEMMA UniqueIs ==
  ASSUME TypeOK, NEW n \in NameType
  PROVE  /\ Unique(n) = Name(n.dir, n.base, <<uuids + 1>>)
         /\ Unique(n) \in NameType
<1>1. uuids + 1 \in Nat
  BY DEF TypeOK
<1>2. (IF n.uuid = <<>> THEN <<>> ELSE Tail(n.uuid)) = <<>>
  <2>1. CASE n.uuid = <<>>
    BY <2>1
  <2>2. CASE n.uuid # <<>>
    <3>1. PICK k \in Nat : n.uuid = <<k>>
      BY <2>2 DEF NameType, Uuids
    <3> QED
      BY <2>2, <3>1
  <2> QED
    BY <2>1, <2>2
<1>3. <<>> \o <<uuids + 1>> = <<uuids + 1>>
  BY <1>1
<1>4. Unique(n) = [n EXCEPT !.uuid = <<uuids + 1>>]
  BY <1>2, <1>3 DEF Unique
<1> QED
  BY <1>1, <1>4 DEF Name, NameType, Uuids

(* A renamed file has a new unique string, or the name of an input, or its *)
(* own name.                                                               *)
LEMMA NewNameIs ==
  ASSUME TypeOK, NEW p \in Procs, NEW line \in LineType
  PROVE  /\ NewName(p, line) \in NameType
         /\ \/ /\ how[p] = "unique"
               /\ NewName(p, line) = Name(line.file.dir, line.file.base, <<uuids + 1>>)
            \/ /\ how[p] = "substitute" /\ line.in = None
               /\ NewName(p, line) = line.file
            \/ /\ how[p] = "substitute" /\ line.in \in Inputs
               /\ NewName(p, line) = Name(line.file.dir, line.in, <<>>)
<1>1. line.file \in NameType /\ line.in \in Inputs \union {None}
  BY DEF LineType
<1>2. how[p] \in {"unique", "substitute"}
  BY DEF TypeOK, Renames
<1>3. CASE how[p] = "unique"
  BY <1>1, <1>3, UniqueIs DEF NewName
<1>4. CASE how[p] = "substitute" /\ line.in = None
  BY <1>1, <1>4 DEF NewName, Substitute
<1>5. CASE how[p] = "substitute" /\ line.in \in Inputs
  <2>1. line.in \in STRING /\ line.in # None
    BY <1>5, ConstantsAssumption
  <2>2. NewName(p, line) = Name(line.file.dir, line.in, <<>>)
    BY <1>5, <2>1 DEF NewName, Substitute
  <2> QED
    BY <1>1, <1>5, <2>1, <2>2 DEF Name, NameType, Uuids
<1> QED
  BY <1>1, <1>2, <1>3, <1>4, <1>5

-----------------------------------------------------------------------------
(* What an action of p leaves alone.                                       *)
LEMMA OthersStay ==
  ASSUME TypeOK, NEW p \in Procs, Act(p), NEW q \in Procs, q # p
  PROVE  /\ pc'[q] = pc[q] /\ left'[q] = left[q] /\ input'[q] = input[q]
         /\ arg'[q] = arg[q] /\ how'[q] = how[q] /\ todo'[q] = todo[q]
         /\ done'[q] = done[q] /\ rres'[q] = rres[q] /\ mk'[q] = mk[q]
<1> USE DEF TypeOK, MoveTo, Calls, procVars
<1>1. CASE FetchInput(p) \/ AddCheck(p) \/ AddAppend(p) \/ Cleanup(p) \/ Crash(p)
  BY <1>1 DEF FetchInput, AddCheck, AddAppend, Cleanup, Crash
<1>2. ASSUME NEW h, RenameStart(p, h)
      PROVE  /\ pc'[q] = pc[q] /\ left'[q] = left[q] /\ input'[q] = input[q]
             /\ arg'[q] = arg[q] /\ how'[q] = how[q] /\ todo'[q] = todo[q]
             /\ done'[q] = done[q] /\ rres'[q] = rres[q] /\ mk'[q] = mk[q]
  BY <1>2 DEF RenameStart
<1>3. CASE RenameOne(p) \/ RenameEnd(p)
  BY <1>3 DEF RenameOne, RenameEnd
<1>4. CASE CopyStart(p) \/ CopyArgs(p) \/ StartCp(p) \/ CopyEnd(p) \/ Return(p)
  BY <1>4 DEF CopyStart, CopyArgs, StartCp, CopyEnd, Return
<1>5. CASE CopyOne(p)
  BY <1>5 DEF CopyOne
<1>6. CASE TryMkdir(p)
  <2>1. PICK exists \in BOOLEAN, m \in {0, 1} :
            \/ mk' = [mk EXCEPT ![p].try = 2, ![p].exists = exists] /\ UNCHANGED pc
            \/ MakeNext(p, m, exists)
    BY <1>6 DEF TryMkdir
  <2>2. mk'[q] = mk[q] /\ pc'[q] = pc[q]
    BY <2>1 DEF MakeNext
  <2> QED
    BY <1>6, <2>2 DEF TryMkdir
<1> QED
  BY <1>1, <1>2, <1>3, <1>4, <1>5, <1>6 DEF Act

-----------------------------------------------------------------------------
(* Directories.                                                            *)
LEMMA HashDirIs ==
  ASSUME TypeOK, NEW n \in NameType
  PROVE  /\ HashDir(n) \in Paths
         /\ setting.hash => \E b \in STRING \union {"u"} : HashDir(n) = <<"h", b>>
         /\ ~setting.hash => HashDir(n) = <<>>
<1>1. n.base \in STRING
  BY DEF NameType
<1> QED
  BY <1>1 DEF HashDir, Paths

LEMMA PathIs ==
  ASSUME NEW path \in Paths, path # <<>>
  PROVE  /\ Len(path) = 2
         /\ SubSeq(path, 1, 0) = <<>>
         /\ SubSeq(path, 1, 2) = path
         /\ \A level \in 1 .. 2 :
               /\ SubSeq(path, 1, level) # <<>>
               /\ Front(SubSeq(path, 1, level)) = SubSeq(path, 1, level - 1)
<1>1. PICK b : path = <<"h", b>>
  BY DEF Paths
<1> DEFINE S == {"h", b}
<1>2. path \in Seq(S) /\ Len(path) = 2 /\ path[1] = "h" /\ path[2] = b
  BY <1>1
<1>3. <<"h">> \in Seq(S) /\ Len(<<"h">>) = 1 /\ <<"h">>[1] = "h" /\ <<>> \in Seq(S)
  OBVIOUS
<1>4. SubSeq(path, 1, 0) = <<>> /\ SubSeq(<<"h">>, 1, 0) = <<>>
  BY SubSeqEmpty
<1>5. SubSeq(path, 1, 2) = path
  BY <1>2, SubSeqFull
<1>6. SubSeq(path, 1, 1) = <<"h">>
  <2>1. \A i \in 1 .. 1 : path[i] \in S
    BY <1>2
  <2>2. /\ SubSeq(path, 1, 1) \in Seq(S)
        /\ Len(SubSeq(path, 1, 1)) = 1
        /\ SubSeq(path, 1, 1)[1] = path[1]
    BY <2>1, SubSeqProperties
  <2>3. \A i \in 1 .. 1 : SubSeq(path, 1, 1)[i] = <<"h">>[i]
    BY <1>2, <1>3, <2>2
  <2> HIDE DEF S
  <2>4. Len(SubSeq(path, 1, 1)) = Len(<<"h">>)
    BY <1>3, <2>2
  <2> QED
    BY Zenon, <1>3, <2>2, <2>3, <2>4, SeqEqual
<1>7. Front(<<"h">>) = <<>> /\ Front(path) = <<"h">>
  BY <1>2, <1>3, <1>4, <1>6 DEF Front
<1>8. \A level \in 1 .. 2 : level = 1 \/ level = 2
  OBVIOUS
<1>9. <<"h">> # <<>> /\ path # <<>>
  BY <1>2, <1>3
<1>10. SubSeq(path, 1, 1 - 1) = <<>> /\ SubSeq(path, 1, 2 - 1) = <<"h">>
  BY <1>4, <1>6
<1>11. ASSUME NEW level \in 1 .. 2
       PROVE  /\ SubSeq(path, 1, level) # <<>>
              /\ Front(SubSeq(path, 1, level)) = SubSeq(path, 1, level - 1)
  <2>1. CASE level = 1
    BY Zenon, <1>6, <1>7, <1>9, <1>10, <2>1
  <2>2. CASE level = 2
    BY Zenon, <1>5, <1>7, <1>9, <1>10, <2>2
  <2> QED
    BY <2>1, <2>2
<1> QED
  BY <1>2, <1>4, <1>5, <1>11

LEMMA MkIs ==
  ASSUME NEW path \in Paths, NEW level \in 0 .. 2, NEW second \in BOOLEAN,
         level <= Len(path)
  PROVE  \E new \in MkType :
            /\ new = [NotMaking EXCEPT !.path = path, !.level = level, !.second = second]
            /\ new.path = path /\ new.level = level /\ new.second = second
            /\ new.try = 1 /\ new.exists = FALSE
<1>1. PICK new : new = [NotMaking EXCEPT !.path = path, !.level = level, !.second = second]
  OBVIOUS
<1>2. new = [path |-> path, level |-> level, second |-> second, try |-> 1, exists |-> FALSE]
  BY <1>1 DEF NotMaking
<1>3. new \in MkType
  BY <1>2 DEF MkType
<1>4. /\ new.path = path /\ new.level = level /\ new.second = second
      /\ new.try = 1 /\ new.exists = FALSE
  BY <1>2
<1> QED
  BY Zenon, <1>1, <1>3, <1>4

(* What mkdir_p does with a result: it is through, goes down, or goes up.  *)
GoesOn(p, m, exists, new) ==
    \/ /\ pc' = [pc EXCEPT ![p] = "args"]
       /\ mk[p].second \/ m = 0 \/ exists
       /\ mk[p].level = Len(mk[p].path)
    \/ /\ pc' = pc
       /\ new.path = mk[p].path /\ new.try = 1 /\ new.exists = FALSE
       /\ \/ /\ mk[p].second \/ m = 0 \/ exists
             /\ new.level = mk[p].level + 1 /\ new.second = TRUE
          \/ /\ mk[p].level # 0
             /\ new.level = mk[p].level - 1 /\ new.second = FALSE
          \/ new.level = 0 /\ new.second = TRUE

LEMMA MakesNext ==
  ASSUME TypeOK, NEW p \in Procs, NEW m \in {0, 1}, NEW exists \in BOOLEAN,
         MakeNext(p, m, exists)
  PROVE  \E new \in MkType : mk' = [mk EXCEPT ![p] = new] /\ GoesOn(p, m, exists, new)
<1> USE DEF GoesOn
<1>1. PICK path \in Paths, level \in 0 .. 2, second \in BOOLEAN :
        /\ path = mk[p].path /\ level = mk[p].level /\ second = mk[p].second
        /\ level <= Len(path)
  <2>1. mk[p] \in MkType
    BY DEF TypeOK
  <2> QED
    BY <2>1 DEF MkType
<1>2. PICK len \in {0, 2} : len = Len(path) /\ level <= len
  <2>1. Len(path) \in {0, 2}
    BY PathIs
  <2> QED
    BY <1>1, <2>1
<1>3. CASE (second \/ m = 0 \/ exists) /\ level = Len(path)
  <2>1. mk' = [mk EXCEPT ![p] = NotMaking] /\ pc' = [pc EXCEPT ![p] = "args"]
    BY <1>1, <1>3 DEF MakeNext, MoveTo
  <2>2. NotMaking \in MkType
    BY DEF NotMaking, MkType, Paths
  <2> QED
    BY <1>1, <1>3, <2>1, <2>2
<1>4. CASE (second \/ m = 0 \/ exists) /\ level # Len(path)
  <2>0. level # len
    BY Zenon, <1>2, <1>4
  <2>1. level + 1 \in 0 .. 2 /\ level + 1 <= len
    BY <1>2, <2>0
  <2>2. PICK new \in MkType :
          /\ new = [NotMaking EXCEPT !.path = path, !.level = level + 1, !.second = TRUE]
          /\ new.path = path /\ new.level = level + 1 /\ new.second = TRUE
          /\ new.try = 1 /\ new.exists = FALSE
    BY <1>2, <2>1, MkIs, ZenonT(60)
  <2>3. mk' = [mk EXCEPT ![p] = new] /\ pc' = pc
    <3>1. mk' = [mk EXCEPT ![p] = [NotMaking EXCEPT !.path = mk[p].path,
                     !.level = mk[p].level + 1, !.second = TRUE]] /\ pc' = pc
      BY <1>1, <1>4 DEF MakeNext
    <3> QED
      BY Zenon, <1>1, <2>2, <3>1
  <2> QED
    BY <1>1, <1>4, <2>2, <2>3
<1>5. CASE ~second /\ m = 1 /\ ~exists /\ level = 0
  <2>1. 0 \in 0 .. 2 /\ 0 <= Len(path)
    BY <1>2, <1>5
  <2>b. TRUE \in BOOLEAN
    OBVIOUS
  <2>2. PICK new \in MkType :
          /\ new = [NotMaking EXCEPT !.path = path, !.level = 0, !.second = TRUE]
          /\ new.path = path /\ new.level = 0 /\ new.second = TRUE
          /\ new.try = 1 /\ new.exists = FALSE
    BY <2>1, <2>b, MkIs, ZenonT(60)
  <2>3. mk' = [mk EXCEPT ![p] = new] /\ pc' = pc
    <3>1. /\ mk' = [mk EXCEPT ![p] = [NotMaking EXCEPT !.path = mk[p].path,
                       !.level = IF mk[p].level = 0 THEN 0 ELSE mk[p].level - 1,
                       !.second = (mk[p].level = 0)]]
          /\ pc' = pc
      BY <1>1, <1>5 DEF MakeNext
    <3>2. (mk[p].level = 0) = TRUE
      BY <1>1, <1>5
    <3>3. (IF mk[p].level = 0 THEN 0 ELSE mk[p].level - 1) = 0
      BY <1>1, <1>5
    <3> QED
      BY Zenon, <1>1, <2>2, <3>1, <3>2, <3>3
  <2> QED
    BY <1>1, <1>5, <2>2, <2>3
<1>6. CASE ~second /\ m = 1 /\ ~exists /\ level # 0
  <2>1. level - 1 \in 0 .. 2 /\ level - 1 <= Len(path)
    BY <1>2, <1>6
  <2>b. FALSE \in BOOLEAN
    OBVIOUS
  <2>2. PICK new \in MkType :
          /\ new = [NotMaking EXCEPT !.path = path, !.level = level - 1, !.second = FALSE]
          /\ new.path = path /\ new.level = level - 1 /\ new.second = FALSE
          /\ new.try = 1 /\ new.exists = FALSE
    BY <2>1, <2>b, MkIs, ZenonT(60)
  <2>3. mk' = [mk EXCEPT ![p] = new] /\ pc' = pc
    <3>1. /\ mk' = [mk EXCEPT ![p] = [NotMaking EXCEPT !.path = mk[p].path,
                       !.level = IF mk[p].level = 0 THEN 0 ELSE mk[p].level - 1,
                       !.second = (mk[p].level = 0)]]
          /\ pc' = pc
      BY <1>1, <1>6 DEF MakeNext
    <3>2. (mk[p].level = 0) = FALSE
      BY <1>1, <1>6
    <3>3. (IF mk[p].level = 0 THEN 0 ELSE mk[p].level - 1) = level - 1
      BY <1>1, <1>6
    <3> QED
      BY Zenon, <1>1, <2>2, <3>1, <3>2, <3>3
  <2> QED
    BY <1>1, <1>6, <2>2, <2>3
<1> QED
  BY <1>1, <1>3, <1>4, <1>5, <1>6

(* A try: mkdir makes a directory only with its parent there, and without  *)
(* a fault then it does.                                                   *)
LEMMA Mkdirs ==
  ASSUME TypeOK, NEW p \in Procs, TryMkdir(p)
  PROVE  \E m \in {0, 1}, made \in BOOLEAN, exists \in BOOLEAN :
            /\ pc[p] = "mkdir"
            /\ made => Target(p) \notin dirs /\ HasParent(Target(p))
            /\ m = 0 => made
            /\ "mkdir" \notin faults /\ m = 1 => Target(p) \in dirs \/ ~HasParent(Target(p))
            /\ exists = (mk[p].exists \/ Target(p) \in dirs)
            /\ dirs' = IF made THEN dirs \union {Target(p)} ELSE dirs
            /\ \/ /\ m = 1 /\ mk[p].try = 1 /\ pc' = pc
                  /\ mk' = [mk EXCEPT ![p] = [@ EXCEPT !.try = 2, !.exists = exists]]
               \/ MakeNext(p, m, exists)
            /\ UNCHANGED <<setting, left, input, arg, how, todo, done, rres, fetched,
                           logVars, disk, dest, uuids, added>>
<1>1. PICK m \in {0, 1}, made \in BOOLEAN :
        LET ok == Target(p) \notin dirs /\ HasParent(Target(p))
            exists == mk[p].exists \/ Target(p) \in dirs
        IN  /\ made => ok
            /\ m = 0 => made
            /\ (m = 0) # ok => "mkdir" \in faults
            /\ dirs' = IF made THEN dirs \union {Target(p)} ELSE dirs
            /\ IF m = 1 /\ mk[p].try = 1
               THEN /\ mk' = [mk EXCEPT ![p].try = 2, ![p].exists = exists]
                    /\ UNCHANGED pc
               ELSE MakeNext(p, m, exists)
  BY Zenon DEF TryMkdir
<1>2. PICK exists \in BOOLEAN : exists = (mk[p].exists \/ Target(p) \in dirs)
  BY Zenon
<1>3. mk[p] \in MkType /\ p \in DOMAIN mk
  BY DEF TypeOK
<1>4. [mk EXCEPT ![p].try = 2, ![p].exists = exists]
        = [mk EXCEPT ![p] = [@ EXCEPT !.try = 2, !.exists = exists]]
  BY <1>3 DEF MkType
<1> HIDE DEF MakeNext
<1>5. /\ pc[p] = "mkdir"
      /\ UNCHANGED <<setting, left, input, arg, how, todo, done, rres, fetched,
                     logVars, disk, dest, uuids, added>>
  BY DEF TryMkdir
<1>6. /\ made => Target(p) \notin dirs /\ HasParent(Target(p))
      /\ m = 0 => made
      /\ dirs' = IF made THEN dirs \union {Target(p)} ELSE dirs
  BY <1>1
<1>7. "mkdir" \notin faults /\ m = 1 => Target(p) \in dirs \/ ~HasParent(Target(p))
  BY <1>1
<1>8. \/ /\ m = 1 /\ mk[p].try = 1 /\ pc' = pc
         /\ mk' = [mk EXCEPT ![p] = [@ EXCEPT !.try = 2, !.exists = exists]]
      \/ MakeNext(p, m, exists)
  BY <1>1, <1>2, <1>4
<1> QED
  BY <1>2, <1>5, <1>6, <1>7, <1>8

-----------------------------------------------------------------------------
(* Types.                                                                  *)
LEMMA InitType == Init => TypeOK
<1> SUFFICES ASSUME Init PROVE TypeOK
  OBVIOUS
<1>0. setting \in Settings /\ setting \in SettingType
  BY ConstantsAssumption DEF Init
<1>1. left \in [Procs -> Nat]
  BY <1>0, ConstantsAssumption DEF Init, SettingType
<1>2. \A o \in Outputs : FirstName(o) \in NameType
  BY <1>0 DEF SettingType, FirstName, Name, place, NameType, Uuids
<1>3. DOMAIN disk \subseteq NameType /\ \A n \in DOMAIN disk : disk[n] \in Outputs
  <2>1. disk = [n \in {FirstName(o) : o \in Outputs} |->
                    CHOOSE o \in Outputs : FirstName(o) = n]
    BY DEF Init
  <2> QED
    BY <1>2, <2>1
<1>4. NotMaking \in MkType
  BY DEF NotMaking, MkType, Paths
<1>5. \A p \in Procs : InHand(p)
  BY DEF Init, InHand, Copying
<1>6. <<>> \in Seq(LineType)
  OBVIOUS
<1>7. /\ pc \in [Procs -> {"idle", "append", "rename", "args", "mkdir", "cp", "copied", "dead"}]
      /\ input \in [Procs -> Inputs \union {None}]
      /\ arg \in [Procs -> Outputs \union {None}]
      /\ how \in [Procs -> Renames]
      /\ rres \in [Procs -> {0, 1}]
      /\ hasLog \in BOOLEAN /\ hasNew \in BOOLEAN
      /\ uuids \in Nat /\ added \subseteq Outputs
  BY DEF Init, Renames
<1>8. /\ mk \in [Procs -> MkType] /\ log \in Seq(LineType)
      /\ todo \in [Procs -> Seq(LineType)]
      /\ done \in [Procs -> Seq(LineType) \union Seq(CopyType)]
  BY <1>4, <1>6 DEF Init
<1> QED
  BY <1>0, <1>1, <1>3, <1>5, <1>7, <1>8 DEF TypeOK

(* A rename on the disk.                                                   *)
LEMMA DiskMoves ==
  ASSUME TypeOK, NEW n \in NameType, NEW new \in NameType,
         disk' = IF IsFile(n) THEN With(Without(disk, n), new, disk[n]) ELSE disk
  PROVE  /\ DOMAIN disk' \subseteq NameType
         /\ \A m \in DOMAIN disk' : disk'[m] \in Outputs
         /\ ~IsFile(n) => disk' = disk
         /\ IsFile(n) =>
               /\ DOMAIN disk' = (DOMAIN disk \ {n}) \union {new}
               /\ disk'[new] = disk[n]
               /\ \A m \in DOMAIN disk \ {n, new} : disk'[m] = disk[m]
<1>1. CASE ~IsFile(n)
  BY <1>1 DEF TypeOK
<1>2. CASE IsFile(n)
  <2>1. disk[n] \in Outputs
    BY <1>2 DEF TypeOK, IsFile
  <2>2. disk' = [y \in (DOMAIN disk \ {n}) \union {new} |->
                    IF y = new THEN disk[n] ELSE [z \in DOMAIN disk \ {n} |-> disk[z]][y]]
    BY <1>2 DEF With, Without
  <2> QED
    BY <1>2, <2>1, <2>2 DEF TypeOK
<1> QED
  BY <1>1, <1>2

(* What RenameOne does.                                                    *)
LEMMA RenamesOne ==
  ASSUME TypeOK, NEW p \in Procs, RenameOne(p)
  PROVE  \E line \in LineType, new \in LineType :
            /\ pc[p] = "rename" /\ todo[p] # <<>> /\ line = Head(todo[p])
            /\ done[p] \in Seq(LineType) /\ how[p] \in calls[p]
            /\ new.file = NewName(p, line)
            /\ \/ /\ how[p] = "unique" /\ new.in = line.in
                  /\ new.file = Name(line.file.dir, line.file.base, <<uuids + 1>>)
               \/ /\ how[p] = "substitute" /\ line.in = None
                  /\ new.in = None /\ new.file = line.file
               \/ /\ how[p] = "substitute" /\ line.in \in Inputs
                  /\ new.in = line.in
                  /\ new.file = Name(line.file.dir, line.in, <<>>)
            /\ disk' = IF IsFile(line.file)
                       THEN With(Without(disk, line.file), new.file, disk[line.file])
                       ELSE disk
            /\ done' = [done EXCEPT ![p] = Append(done[p], new)]
            /\ todo' = [todo EXCEPT ![p] = Tail(todo[p])]
            /\ uuids' = uuids + 1
            /\ UNCHANGED <<setting, pc, left, input, arg, how, rres, mk, fetched, logVars,
                           destVars, added>>
<1>1. PICK line \in LineType : line = Head(todo[p])
  BY DEF TypeOK, RenameOne
<1>2. PICK name : name = NewName(p, line)
  OBVIOUS
<1>3. line.file \in NameType /\ line.in \in Inputs \union {None} /\ name \in NameType
  BY <1>2, NewNameIs DEF LineType
<1>4. PICK in : in = IF how[p] = "unique" \/ line.in = None THEN line.in ELSE name.base
  OBVIOUS
<1>5. PICK new : new = Line(name, in)
  OBVIOUS
<1>6. \/ how[p] = "unique" /\ name = Name(line.file.dir, line.file.base, <<uuids + 1>>)
      \/ how[p] = "substitute" /\ line.in = None /\ name = line.file
      \/ /\ how[p] = "substitute" /\ line.in \in Inputs
         /\ name = Name(line.file.dir, line.in, <<>>)
  BY <1>2, NewNameIs
<1>7. in = line.in
  <2>1. CASE how[p] = "unique" \/ line.in = None
    BY <1>4, <2>1
  <2>2. CASE how[p] # "unique" /\ line.in # None
    BY <1>4, <1>6, <2>2 DEF Name
  <2> QED
    BY <2>1, <2>2
<1>8. new \in LineType /\ new.file = name /\ new.in = line.in
  BY <1>3, <1>5, <1>7 DEF Line, LineType
<1>9. /\ pc[p] = "rename" /\ todo[p] # <<>>
      /\ disk' = IF IsFile(line.file)
                 THEN With(Without(disk, line.file), new.file, disk[line.file])
                 ELSE disk
      /\ todo' = [todo EXCEPT ![p] = Tail(todo[p])]
      /\ uuids' = uuids + 1
      /\ UNCHANGED <<setting, pc, left, input, arg, how, rres, mk, fetched, logVars,
                     destVars, added>>
  BY <1>1, <1>2, <1>8 DEF RenameOne
<1>10. done' = [done EXCEPT ![p] = Append(done[p], new)]
  BY <1>1, <1>2, <1>4, <1>5 DEF RenameOne
<1>11. done[p] \in Seq(LineType) /\ how[p] \in calls[p]
  BY <1>9 DEF TypeOK, InHand
<1> QED
  BY <1>1, <1>2, <1>6, <1>8, <1>9, <1>10, <1>11

LEMMA TypePreserved == TypeOK /\ [Next]_vars => TypeOK'
<1> SUFFICES ASSUME TypeOK, [Next]_vars PROVE TypeOK'
  OBVIOUS
<1>0. setting' = setting
  BY SettingStays
<1>1. CASE UNCHANGED vars
  BY <1>1 DEF vars, procVars, logVars, destVars, TypeOK, InHand, Copying, calls
<1>2. ASSUME NEW p \in Procs, Act(p) PROVE TypeOK'
  <2>1. SUFFICES /\ pc' \in [Procs -> {"idle", "append", "rename", "args", "mkdir", "cp",
                                       "copied", "dead"}]
                 /\ left' \in [Procs -> Nat]
                 /\ input' \in [Procs -> Inputs \union {None}]
                 /\ arg' \in [Procs -> Outputs \union {None}]
                 /\ how' \in [Procs -> Renames]
                 /\ todo' \in [Procs -> Seq(LineType)]
                 /\ done' \in [Procs -> Seq(LineType) \union Seq(CopyType)]
                 /\ rres' \in [Procs -> {0, 1}]
                 /\ mk' \in [Procs -> MkType]
                 /\ hasLog' \in BOOLEAN /\ hasNew' \in BOOLEAN
                 /\ log' \in Seq(LineType)
                 /\ DOMAIN disk' \subseteq NameType
                 /\ \A n \in DOMAIN disk' : disk'[n] \in Outputs
                 /\ uuids' \in Nat
                 /\ added' \subseteq Outputs
                 /\ InHand(p)'
    <3>1. ASSUME NEW q \in Procs, q # p PROVE InHand(q)'
      <4>1. pc'[q] = pc[q] /\ arg'[q] = arg[q] /\ how'[q] = how[q] /\ done'[q] = done[q]
        BY <1>2, <3>1, OthersStay
      <4> QED
        BY <1>0, <4>1 DEF TypeOK, InHand, Copying, calls
    <3> QED
      BY <1>0, <3>1 DEF TypeOK
  <2> USE DEF MoveTo, Calls, procVars, logVars, destVars
  <2>2. InHand(p) /\ pc[p] \in {"idle", "append", "rename", "args", "mkdir", "cp", "copied", "dead"}
    BY DEF TypeOK
  <2>3. \A i \in Inputs, n \in NameType : Line(n, i) \in LineType /\ Line(n, None) \in LineType
    BY DEF Line, LineType
  <2>4. CASE FetchInput(p) \/ Cleanup(p)
    <3>1. UNCHANGED <<pc, arg, how, todo, done, rres, mk, disk, uuids>>
      BY <2>4 DEF FetchInput, Cleanup
    <3>2. left' \in [Procs -> Nat]
      <4>1. left[p] > 0 /\ left' = [left EXCEPT ![p] = left[p] - 1]
        BY <2>4 DEF FetchInput, Cleanup
      <4> QED
        BY <4>1 DEF TypeOK
    <3>3. input' \in [Procs -> Inputs \union {None}]
      <4>1. CASE FetchInput(p)
        BY <4>1 DEF FetchInput, TypeOK
      <4>2. CASE Cleanup(p)
        <5>1. input' = input
          BY <4>2 DEF Cleanup
        <5> QED
          BY <5>1 DEF TypeOK
      <4> QED
        BY <2>4, <4>1, <4>2
    <3>4. <<>> \in Seq(LineType)
      OBVIOUS
    <3>5. /\ hasLog' \in BOOLEAN /\ hasNew' \in BOOLEAN /\ log' \in Seq(LineType)
          /\ added' \subseteq Outputs
      <4>1. CASE FetchInput(p)
        BY <4>1 DEF FetchInput, TypeOK
      <4>2. CASE Cleanup(p)
        BY <3>4, <4>2 DEF Cleanup
      <4> QED
        BY <2>4, <4>1, <4>2
    <3> QED
      BY <1>0, <2>2, <3>1, <3>2, <3>3, <3>5 DEF TypeOK, InHand, Copying, calls
  <2>5. CASE AddCheck(p)
    <3>1. /\ left' \in [Procs -> Nat]
          /\ UNCHANGED <<input, how, todo, done, rres, mk, logVars, disk, uuids, added>>
          /\ "add" \in calls[p] /\ pc[p] = "idle"
      BY <2>5 DEF AddCheck, TypeOK
    <3>2. CASE pc' = pc /\ arg' = arg
      BY <1>0, <2>2, <3>1, <3>2 DEF TypeOK, InHand, Copying, calls
    <3>3. CASE \E o \in Outputs : pc' = [pc EXCEPT ![p] = "append"] /\ arg' = [arg EXCEPT ![p] = o]
      BY <1>0, <2>2, <3>1, <3>3 DEF TypeOK, InHand, Copying, calls
    <3> QED
      BY <2>5, <3>2, <3>3 DEF AddCheck
  <2>6. CASE AddAppend(p)
    <3>1. arg[p] \in Outputs
      BY <2>2, <2>6 DEF AddAppend, InHand
    <3>2. Line(FirstName(arg[p]), input[p]) \in LineType
      BY <2>3, <3>1, FirstNameIs DEF TypeOK, Line, LineType
    <3>3. log' \in Seq(LineType)
      BY <2>6, <3>2 DEF AddAppend, TypeOK
    <3> QED
      BY <1>0, <2>2, <2>6, <3>1, <3>3 DEF AddAppend, TypeOK, InHand, Copying, calls
  <2>7. CASE \E h \in Renames : RenameStart(p, h)
    <3>1. PICK h \in Renames : RenameStart(p, h)
      BY <2>7
    <3>2. <<>> \in Seq(LineType)
      OBVIOUS
    <3>3. /\ h \in calls[p] /\ left' \in [Procs -> Nat] /\ how' = [how EXCEPT ![p] = h]
          /\ hasNew' \in BOOLEAN
          /\ UNCHANGED <<input, arg, rres, mk, hasLog, disk, uuids, added>>
      BY <3>1 DEF RenameStart, TypeOK
    <3>4. log' = log \/ log' = <<>>
      BY <3>1 DEF RenameStart
    <3>5. log' \in Seq(LineType) /\ how' \in [Procs -> Renames] /\ how'[p] = h
      BY <3>2, <3>3, <3>4 DEF TypeOK
    <3>6. CASE UNCHANGED <<pc, todo, done>>
      <4>1. pc[p] = "idle"
        BY <3>1 DEF RenameStart
      <4> QED
        BY <1>0, <2>2, <3>3, <3>5, <3>6, <4>1 DEF TypeOK, InHand, Copying, calls
    <3>7. CASE /\ pc' = [pc EXCEPT ![p] = "rename"] /\ todo' = [todo EXCEPT ![p] = log]
               /\ done' = [done EXCEPT ![p] = <<>>]
      <4>1. /\ pc' \in [Procs -> {"idle", "append", "rename", "args", "mkdir", "cp", "copied",
                                  "dead"}]
            /\ pc'[p] = "rename" /\ todo' \in [Procs -> Seq(LineType)]
        BY <3>7 DEF TypeOK
      <4>2. /\ done' \in [Procs -> Seq(LineType) \union Seq(CopyType)]
            /\ done'[p] \in Seq(LineType)
        BY <3>2, <3>7 DEF TypeOK
      <4> QED
        BY <1>0, <3>3, <3>5, <4>1, <4>2 DEF TypeOK, InHand, Copying, calls
    <3> QED
      BY <3>1, <3>6, <3>7 DEF RenameStart
  <2>8. CASE RenameOne(p)
    <3>1. PICK line \in LineType, new \in LineType :
            /\ pc[p] = "rename" /\ todo[p] # <<>> /\ how[p] \in calls[p]
            /\ done[p] \in Seq(LineType)
            /\ disk' = IF IsFile(line.file)
                       THEN With(Without(disk, line.file), new.file, disk[line.file])
                       ELSE disk
            /\ done' = [done EXCEPT ![p] = Append(done[p], new)]
            /\ todo' = [todo EXCEPT ![p] = Tail(todo[p])]
            /\ uuids' = uuids + 1
            /\ UNCHANGED <<setting, pc, left, input, arg, how, rres, mk, fetched, logVars,
                           destVars, added>>
      BY <2>8, RenamesOne
    <3>2. DOMAIN disk' \subseteq NameType /\ \A n \in DOMAIN disk' : disk'[n] \in Outputs
      <4>1. line.file \in NameType /\ new.file \in NameType
        BY DEF LineType
      <4> QED
        BY Zenon, <3>1, <4>1, DiskMoves
    <3>3. Append(done[p], new) \in Seq(LineType)
      BY <3>1
    <3>4. todo' \in [Procs -> Seq(LineType)]
      BY <3>1 DEF TypeOK
    <3>5. done' \in [Procs -> Seq(LineType) \union Seq(CopyType)] /\ done'[p] \in Seq(LineType)
      BY <3>1, <3>3 DEF TypeOK
    <3> QED
      BY <1>0, <3>1, <3>2, <3>4, <3>5 DEF TypeOK, InHand, Copying, calls
  <2>9. CASE RenameEnd(p)
    <3>1. done[p] \in Seq(LineType) /\ <<>> \in Seq(LineType)
      BY <2>2, <2>9 DEF RenameEnd, InHand
    <3> QED
      BY <1>0, <2>2, <2>9, <3>1 DEF RenameEnd, TypeOK, InHand, Copying, calls
  <2>10. CASE CopyStart(p)
    <3>1. <<>> \in Seq(LineType) /\ <<>> \in Seq(CopyType)
      OBVIOUS
    <3>2. /\ left' \in [Procs -> Nat] /\ rres' \in [Procs -> {0, 1}]
          /\ pc[p] = "idle"
          /\ UNCHANGED <<input, arg, how, mk, logVars, disk, uuids, added>>
      BY <2>10 DEF CopyStart, TypeOK
    <3>3. /\ done' \in [Procs -> Seq(LineType) \union Seq(CopyType)]
          /\ done'[p] \in Seq(CopyType)
      BY <2>10, <3>1 DEF CopyStart, TypeOK
    <3>4. CASE UNCHANGED <<pc, todo>>
      BY <1>0, <3>2, <3>3, <3>4 DEF TypeOK, InHand, Copying
    <3>5. CASE pc' = [pc EXCEPT ![p] = "args"] /\ todo' = [todo EXCEPT ![p] = log]
      <4>1. /\ pc' \in [Procs -> {"idle", "append", "rename", "args", "mkdir", "cp", "copied",
                                  "dead"}]
            /\ pc'[p] = "args" /\ todo' \in [Procs -> Seq(LineType)]
        BY <3>5 DEF TypeOK
      <4> QED
        BY <1>0, <3>2, <3>3, <4>1 DEF TypeOK, InHand, Copying
    <3> QED
      BY <2>10, <3>4, <3>5 DEF CopyStart
  <2>11. CASE CopyArgs(p)
    <3>1. PICK n \in NameType : n = Head(todo[p]).file
      <4>1. Head(todo[p]) \in LineType
        BY <2>11 DEF CopyArgs, TypeOK
      <4> QED
        BY <4>1 DEF LineType
    <3>2. PICK c : c = [from |-> n, out |-> IF IsFile(n) THEN disk[n] ELSE None]
      OBVIOUS
    <3>3. c \in CopyType
      BY <3>1, <3>2 DEF CopyType, IsFile, TypeOK
    <3>4. done[p] \in Seq(CopyType) /\ pc[p] = "args" /\ todo[p] # <<>>
      BY <2>2, <2>11 DEF CopyArgs, InHand, Copying
    <3>5. done' = [done EXCEPT ![p] = Append(done[p], c)]
      BY <2>11, <3>1, <3>2 DEF CopyArgs
    <3>6. done' \in [Procs -> Seq(LineType) \union Seq(CopyType)] /\ done'[p] \in Seq(CopyType)
      <4>1. Append(done[p], c) \in Seq(CopyType)
        BY <3>3, <3>4
      <4> QED
        BY <3>5, <4>1 DEF TypeOK
    <3>7. mk' \in [Procs -> MkType]
      <4>1. PICK path \in Paths : path = HashDir(n)
        BY <3>1, HashDirIs
      <4>2. Len(path) \in 0 .. 2 /\ Len(path) <= Len(path)
        BY PathIs
      <4>3. PICK new \in MkType :
              new = [NotMaking EXCEPT !.path = path, !.level = Len(path)]
        <5>1. PICK new : new = [NotMaking EXCEPT !.path = path, !.level = Len(path)]
          OBVIOUS
        <5>2. new = [path |-> path, level |-> Len(path), second |-> FALSE, try |-> 1,
                     exists |-> FALSE]
          BY <5>1 DEF NotMaking
        <5> QED
          BY <4>2, <5>1, <5>2 DEF MkType
      <4>4. mk' = [mk EXCEPT ![p] = [NotMaking EXCEPT !.path = path, !.level = Len(path)]]
        BY <2>11, <3>1, <4>1 DEF CopyArgs
      <4> QED
        BY <4>3, <4>4 DEF TypeOK
    <3>8. /\ pc' \in [Procs -> {"idle", "append", "rename", "args", "mkdir", "cp", "copied",
                                "dead"}]
          /\ pc'[p] \in {"args", "mkdir"}
      BY <2>11, <3>4 DEF CopyArgs, TypeOK
    <3>9. todo' \in [Procs -> Seq(LineType)]
      BY <2>11, <3>4 DEF CopyArgs, TypeOK
    <3> QED
      BY <1>0, <2>11, <3>6, <3>7, <3>8, <3>9 DEF CopyArgs, TypeOK, InHand, Copying
  <2>12. CASE StartCp(p) \/ CopyEnd(p) \/ Crash(p)
    BY <1>0, <2>2, <2>12 DEF StartCp, CopyEnd, Crash, TypeOK, InHand, Copying, calls
  <2>13. CASE CopyOne(p)
    <3>1. PICK j \in Nat : j = Len(todo[p]) + 1
      BY DEF TypeOK
    <3>2. pc[p] = "cp" /\ j <= Len(done[p]) /\ done[p] \in Seq(CopyType)
      BY <2>2, <2>13, <3>1 DEF CopyOne, InHand, Copying
    <3>3. done[p][j].from \in NameType
      <4>1. j \in 1 .. Len(done[p])
        BY <3>1, <3>2 DEF TypeOK
      <4>2. done[p][j] \in CopyType
        BY <3>2, <4>1
      <4> QED
        BY <4>2 DEF CopyType
    <3>4. Line(done[p][j].from, None) \in LineType
      BY <3>3 DEF Line, LineType
    <3>5. todo' = [todo EXCEPT ![p] = Append(todo[p], Line(done[p][j].from, None))]
      BY <2>13, <3>1 DEF CopyOne
    <3>6. todo' \in [Procs -> Seq(LineType)]
      BY <3>4, <3>5 DEF TypeOK
    <3>7. rres' = [rres EXCEPT ![p] = 1] \/ rres' = rres
      BY <2>13 DEF CopyOne
    <3>8. rres' \in [Procs -> {0, 1}]
      BY <3>7 DEF TypeOK
    <3>9. UNCHANGED <<setting, pc, left, input, arg, how, done, mk, fetched, logVars, disk,
                      dirs, uuids, added>>
      BY <2>13 DEF CopyOne
    <3> QED
      BY <1>0, <2>2, <3>6, <3>8, <3>9 DEF TypeOK, InHand, Copying, calls
  <2>14. CASE Return(p)
    <3>1. <<>> \in Seq(LineType)
      OBVIOUS
    <3> QED
      BY <1>0, <2>2, <2>14, <3>1 DEF Return, TypeOK, InHand, Copying, calls
  <2>15. CASE TryMkdir(p)
    <3>1. PICK m \in {0, 1}, exists \in BOOLEAN :
            /\ pc[p] = "mkdir"
            /\ \/ /\ pc' = pc
                  /\ mk' = [mk EXCEPT ![p] = [@ EXCEPT !.try = 2, !.exists = exists]]
               \/ MakeNext(p, m, exists)
            /\ UNCHANGED <<setting, left, input, arg, how, todo, done, rres, fetched,
                           logVars, disk, dest, uuids, added>>
      BY Zenon, <2>15, Mkdirs
    <3>2. mk' \in [Procs -> MkType] /\ (pc' = pc \/ pc' = [pc EXCEPT ![p] = "args"])
      <4>1. CASE /\ pc' = pc
                 /\ mk' = [mk EXCEPT ![p] = [@ EXCEPT !.try = 2, !.exists = exists]]
        <5>1. [mk[p] EXCEPT !.try = 2, !.exists = exists] \in MkType
          <6>1. mk[p] \in MkType
            BY DEF TypeOK
          <6> QED
            BY <3>1, <6>1 DEF MkType
        <5> QED
          BY <4>1, <5>1 DEF TypeOK
      <4>2. CASE MakeNext(p, m, exists)
        <5>1. PICK new \in MkType :
                /\ mk' = [mk EXCEPT ![p] = new]
                /\ pc' = pc \/ pc' = [pc EXCEPT ![p] = "args"]
          BY Zenon, <3>1, <4>2, MakesNext DEF GoesOn
        <5> QED
          BY <5>1 DEF TypeOK
      <4> QED
        BY <3>1, <4>1, <4>2
    <3>3. /\ pc'[p] \in {"args", "mkdir"}
          /\ pc' \in [Procs -> {"idle", "append", "rename", "args", "mkdir", "cp", "copied",
                                "dead"}]
      BY <3>1, <3>2 DEF TypeOK
    <3>4. done[p] \in Seq(CopyType)
      BY <2>2, <3>1 DEF InHand, Copying
    <3> QED
      BY <1>0, <3>1, <3>2, <3>3, <3>4 DEF TypeOK, InHand, Copying
  <2> QED
    BY <1>2, <2>4, <2>5, <2>6, <2>7, <2>8, <2>9, <2>10, <2>11, <2>12, <2>13, <2>14, <2>15
       DEF Act, Renames
<1> QED
  BY <1>1, <1>2, OneActs

-----------------------------------------------------------------------------
(* mkdir_p.  While it makes the path of the last copy, a directory it goes *)
(* down to has its parent, and "File exists" has been said of one that is  *)
(* there.                                                                  *)
DirThere(p, i) == HashDir(done[p][i].from) \in dirs

Making(p) ==
    /\ setting.hash
    /\ done[p] # <<>>
    /\ mk[p].path = HashDir(done[p][Len(done[p])].from)
    /\ mk[p].second => HasParent(Target(p))
    /\ mk[p].exists => Target(p) \in dirs
    /\ \A i \in 1 .. Len(done[p]) - 1 : DirThere(p, i)

MadeBy(p) ==
    /\ pc[p] = "mkdir" => Making(p)
    /\ pc[p] \in {"args", "cp"} => \A i \in 1 .. Len(done[p]) : DirThere(p, i)

Made ==
    "mkdir" \notin faults =>
        /\ ~setting.hash => <<>> \in dirs
        /\ \A p \in Procs : MadeBy(p)

(* Directories stay.                                                       *)
LEMMA DirsGrow == TypeOK /\ [Next]_vars => dirs \subseteq dirs'
<1> SUFFICES ASSUME TypeOK, [Next]_vars PROVE dirs \subseteq dirs'
  OBVIOUS
<1>1. CASE UNCHANGED vars
  BY <1>1 DEF vars, destVars
<1>2. ASSUME NEW p \in Procs, Act(p) PROVE dirs \subseteq dirs'
  <2>1. CASE TryMkdir(p)
    BY <2>1 DEF TryMkdir
  <2>2. CASE ~TryMkdir(p)
    <3>1. UNCHANGED dirs
      BY <1>2, <2>2 DEF Act, destVars, FetchInput, AddCheck, AddAppend, RenameStart,
         RenameOne, RenameEnd, CopyStart, CopyArgs, StartCp, CopyOne, CopyEnd, Return,
         Cleanup, Crash
    <3> QED
      BY <3>1
  <2> QED
    BY <2>1, <2>2
<1> QED
  BY <1>1, <1>2, OneActs

(* So what is true of a process stays true while others act.               *)
LEMMA MadeByStays ==
  ASSUME TypeOK, NEW p \in Procs, MadeBy(p), setting' = setting, dirs \subseteq dirs',
         mk'[p] = mk[p], done'[p] = done[p], pc'[p] = pc[p]
  PROVE  MadeBy(p)'
<1>1. \A i : DirThere(p, i) => DirThere(p, i)'
  BY DEF DirThere, HashDir
<1>2. Making(p) => Making(p)'
  <2> SUFFICES ASSUME Making(p) PROVE Making(p)'
    OBVIOUS
  <2>1. Target(p)' = Target(p)
    BY DEF Target
  <2>2. \A d : HasParent(d) => HasParent(d)'
    BY DEF HasParent
  <2> QED
    BY <1>1, <2>1, <2>2 DEF Making, HashDir
<1> QED
  BY <1>1, <1>2 DEF MadeBy

(* The end of a mkdir_p.                                                   *)
LEMMA MkdirKeepsMade ==
  ASSUME TypeOK, TypeOK', NEW p \in Procs, TryMkdir(p), "mkdir" \notin faults, MadeBy(p)
  PROVE  MadeBy(p)'
<1>1. PICK m \in {0, 1}, made \in BOOLEAN, exists \in BOOLEAN :
        /\ pc[p] = "mkdir"
        /\ made => Target(p) \notin dirs /\ HasParent(Target(p))
        /\ m = 0 => made
        /\ "mkdir" \notin faults /\ m = 1 => Target(p) \in dirs \/ ~HasParent(Target(p))
        /\ exists = (mk[p].exists \/ Target(p) \in dirs)
        /\ dirs' = IF made THEN dirs \union {Target(p)} ELSE dirs
        /\ \/ /\ m = 1 /\ mk[p].try = 1 /\ pc' = pc
              /\ mk' = [mk EXCEPT ![p] = [@ EXCEPT !.try = 2, !.exists = exists]]
           \/ MakeNext(p, m, exists)
        /\ UNCHANGED <<setting, left, input, arg, how, todo, done, rres, fetched,
                       logVars, disk, dest, uuids, added>>
  BY Zenon, Mkdirs
<1>2. Making(p)
  BY <1>1 DEF MadeBy
<1>10. /\ made => Target(p) \in dirs'
       /\ m = 0 => made
       /\ m = 1 => Target(p) \in dirs \/ ~HasParent(Target(p))
       /\ exists = (mk[p].exists \/ Target(p) \in dirs)
       /\ dirs \subseteq dirs'
  <2>1. /\ m = 0 => made
        /\ m = 1 => Target(p) \in dirs \/ ~HasParent(Target(p))
        /\ exists = (mk[p].exists \/ Target(p) \in dirs)
        /\ dirs' = IF made THEN dirs \union {Target(p)} ELSE dirs
    BY Zenon, <1>1
  <2> QED
    BY Zenon, <2>1
<1>3. PICK path \in Paths, level \in 0 .. 2, last \in 1 .. Len(done[p]) :
        /\ path = mk[p].path /\ level = mk[p].level /\ level <= Len(path)
        /\ last = Len(done[p]) /\ path = HashDir(done[p][last].from) /\ path # <<>>
  <2>1. mk[p] \in MkType
    BY DEF TypeOK
  <2>2. done[p] \in Seq(CopyType) /\ done[p] # <<>>
    BY <1>1, <1>2 DEF TypeOK, InHand, Copying, Making
  <2>3. Len(done[p]) \in 1 .. Len(done[p])
    BY <2>2
  <2>4. mk[p].path = HashDir(done[p][Len(done[p])].from) /\ mk[p].path # <<>>
    <3>1. PICK c \in CopyType : c = done[p][Len(done[p])]
      BY <2>2, <2>3
    <3>2. PICK n \in NameType : n = done[p][Len(done[p])].from
      BY <3>1 DEF CopyType
    <3>3. mk[p].path = HashDir(n) /\ setting.hash
      BY <1>2, <3>2 DEF Making
    <3>4. PICK b : HashDir(n) = <<"h", b>>
      BY <3>2, <3>3, HashDirIs
    <3>5. <<"h", b>> # <<>>
      OBVIOUS
    <3> QED
      BY <3>2, <3>3, <3>4, <3>5
  <2> QED
    BY <2>1, <2>3, <2>4 DEF MkType
<1>4. dirs \subseteq dirs' /\ setting' = setting /\ done' = done
  BY <1>1
<1>5. \A i \in 1 .. Len(done[p]) - 1 : DirThere(p, i)'
  BY <1>2, <1>4 DEF Making, DirThere, HashDir
<1>6. /\ Target(p) = SubSeq(path, 1, level)
      /\ exists => Target(p) \in dirs
  <2>1. exists => Target(p) \in dirs
    BY Zenon, <1>2, <1>10 DEF Making
  <2> QED
    BY <1>3, <2>1 DEF Target
<1>7. m = 0 \/ exists \/ mk[p].second => Target(p) \in dirs'
  <2>1. m = 0 => Target(p) \in dirs'
    BY Zenon, <1>10
  <2>2. exists => Target(p) \in dirs'
    BY <1>6, <1>10
  <2>3. mk[p].second /\ m = 1 => Target(p) \in dirs'
    <3>1. mk[p].second => HasParent(Target(p))
      BY <1>2 DEF Making
    <3> QED
      BY <1>10, <3>1
  <2>4. m = 0 \/ m = 1
    BY <1>1
  <2> QED
    BY Zenon, <2>1, <2>2, <2>3, <2>4
<1>8. CASE /\ m = 1 /\ mk[p].try = 1 /\ pc' = pc
           /\ mk' = [mk EXCEPT ![p] = [@ EXCEPT !.try = 2, !.exists = exists]]
  <2>1. /\ mk'[p].path = mk[p].path /\ mk'[p].level = mk[p].level
        /\ mk'[p].second = mk[p].second /\ mk'[p].exists = exists
    <3>1. mk[p] \in MkType
      BY DEF TypeOK
    <3>2. mk'[p] = [mk[p] EXCEPT !.try = 2, !.exists = exists]
      BY <1>8 DEF TypeOK
    <3> QED
      BY <3>1, <3>2 DEF MkType
  <2>2. Target(p)' = Target(p)
    BY <2>1 DEF Target
  <2>3. mk[p].second => HasParent(Target(p))'
    BY <1>2, <1>4, <2>2 DEF Making, HasParent
  <2>4. mk'[p].exists => Target(p)' \in dirs'
    BY Zenon, <1>6, <1>10, <2>1, <2>2
  <2>5. mk'[p].path = HashDir(done[p][Len(done[p])].from)'
    BY <1>2, <1>4, <2>1 DEF Making, HashDir
  <2>6. Making(p)'
    BY <1>2, <1>4, <1>5, <2>1, <2>3, <2>4, <2>5 DEF Making
  <2> QED
    BY <1>1, <1>8, <2>6 DEF MadeBy
<1>9. CASE MakeNext(p, m, exists)
  <2>1. PICK new \in MkType : mk' = [mk EXCEPT ![p] = new] /\ GoesOn(p, m, exists, new)
    BY Zenon, <1>1, <1>9, MakesNext
  <2>2. mk'[p] = new
    BY <2>1 DEF TypeOK
  <2>3. CASE /\ pc' = [pc EXCEPT ![p] = "args"]
             /\ mk[p].second \/ m = 0 \/ exists
             /\ mk[p].level = Len(mk[p].path)
    <3>1. SubSeq(path, 1, level) = path
      BY <1>3, <2>3, PathIs
    <3>2. DirThere(p, last)'
      <4>1. path \in dirs'
        BY <1>6, <1>7, <2>3, <3>1
      <4>2. HashDir(done[p][last].from)' = path
        BY <1>3, <1>4 DEF HashDir
      <4> QED
        BY <4>1, <4>2 DEF DirThere
    <3>3. \A i \in 1 .. Len(done'[p]) : DirThere(p, i)'
      <4>1. Len(done[p]) \in Nat
        BY DEF TypeOK
      <4>2. \A i \in 1 .. Len(done[p]) : i = last \/ i \in 1 .. Len(done[p]) - 1
        BY <1>3, <4>1
      <4> QED
        BY <1>4, <1>5, <3>2, <4>2
    <3>4. pc'[p] = "args"
      BY <2>3 DEF TypeOK
    <3> QED
      BY <3>3, <3>4 DEF MadeBy
  <2>4. CASE pc' = pc /\ new.path = mk[p].path /\ new.exists = FALSE
    <3>1. Target(p)' = SubSeq(path, 1, new.level)
      BY <1>3, <2>2, <2>4 DEF Target
    <3>2. CASE ~new.second
      <4>1. Making(p)'
        BY <1>2, <1>4, <1>5, <2>2, <2>4, <3>2 DEF Making, HashDir
      <4> QED
        BY <1>1, <2>4, <4>1 DEF MadeBy
    <3>3. CASE new.second
      <4>1. HasParent(Target(p))'
        <5>1. CASE new.level = 0
          BY <1>3, <3>1, <5>1, PathIs DEF HasParent
        <5>2. CASE new.level # 0
          <6>1. /\ mk[p].second \/ m = 0 \/ exists
                /\ new.level = level + 1 /\ new.level \in 1 .. 2
            <7>1. new.level \in 0 .. 2
              BY <2>1 DEF MkType
            <7>2. /\ mk[p].second \/ m = 0 \/ exists
                  /\ new.level = mk[p].level + 1
              <8>1. pc'[p] # "args"
                BY <1>1, <2>4
              <8>2. ~(pc' = [pc EXCEPT ![p] = "args"])
                BY <8>1 DEF TypeOK
              <8> QED
                BY Zenon, <2>1, <3>3, <5>2, <8>2 DEF GoesOn
            <7> QED
              BY <1>3, <5>2, <7>1, <7>2
          <6>2. SubSeq(path, 1, level) \in dirs'
            BY <1>6, <1>7, <6>1
          <6>3. Front(SubSeq(path, 1, new.level)) = SubSeq(path, 1, new.level - 1)
            BY <1>3, <6>1, PathIs
          <6>4. new.level - 1 = level
            BY <6>1
          <6> QED
            BY <3>1, <6>2, <6>3, <6>4 DEF HasParent
        <5> QED
          BY <5>1, <5>2
      <4>2. Making(p)'
        BY <1>2, <1>4, <1>5, <2>2, <2>4, <4>1 DEF Making, HashDir
      <4> QED
        BY <1>1, <2>4, <4>2 DEF MadeBy
    <3> QED
      BY <3>2, <3>3
  <2> QED
    BY <2>1, <2>3, <2>4 DEF GoesOn
<1> QED
  BY <1>1, <1>8, <1>9

LEMMA MadePreserved == TypeOK /\ TypeOK' /\ Made /\ [Next]_vars => Made'
<1> SUFFICES ASSUME TypeOK, TypeOK', Made, [Next]_vars, "mkdir" \notin faults
             PROVE  Made'
  <2>1. ASSUME "mkdir" \in faults, [Next]_vars PROVE Made'
    BY <2>1, SettingStays DEF Made, faults
  <2> QED
    BY <2>1
<1>1. setting' = setting /\ faults' = faults /\ dirs \subseteq dirs'
  BY SettingStays, DirsGrow DEF faults
<1>2. /\ ~setting.hash => <<>> \in dirs
      /\ \A p \in Procs : MadeBy(p)
  BY DEF Made
<1>3. SUFFICES \A p \in Procs : MadeBy(p)'
  BY <1>1, <1>2 DEF Made
<1>4. CASE UNCHANGED vars
  BY <1>1, <1>2, <1>4, MadeByStays DEF vars, procVars
<1>5. ASSUME NEW p \in Procs, Act(p) PROVE \A q \in Procs : MadeBy(q)'
  <2>1. \A q \in Procs \ {p} : MadeBy(q)'
    BY <1>1, <1>2, <1>5, MadeByStays, OthersStay
  <2>2. SUFFICES MadeBy(p)'
    BY <2>1
  <2>3. MadeBy(p) /\ InHand(p)
    BY <1>2 DEF TypeOK
  <2> USE DEF MoveTo, Calls, procVars
  <2>4. CASE \/ FetchInput(p) \/ AddCheck(p) \/ AddAppend(p)
             \/ RenameStart(p, "unique") \/ RenameStart(p, "substitute")
             \/ RenameOne(p) \/ RenameEnd(p)
             \/ CopyEnd(p) \/ Return(p) \/ Cleanup(p) \/ Crash(p)
    <3>1. pc'[p] \in {"idle", "append", "rename", "copied", "dead"}
      BY <2>4 DEF FetchInput, AddCheck, AddAppend, RenameStart, RenameOne, RenameEnd,
         CopyEnd, Return, Cleanup, Crash, TypeOK
    <3> QED
      BY <3>1 DEF MadeBy
  <2>5. CASE CopyStart(p)
    <3>1. done'[p] = <<>> /\ pc'[p] # "mkdir"
      BY <2>5 DEF CopyStart, TypeOK
    <3>2. 1 .. Len(done'[p]) = {}
      BY <3>1
    <3> QED
      BY <3>1, <3>2 DEF MadeBy
  <2>6. CASE StartCp(p)
    <3>1. UNCHANGED <<done, dirs>> /\ pc[p] = "args" /\ pc'[p] = "cp"
      BY <2>6 DEF StartCp, destVars, TypeOK
    <3> QED
      BY <1>1, <2>3, <3>1 DEF MadeBy, DirThere, HashDir
  <2>7. CASE CopyOne(p)
    <3>1. UNCHANGED <<pc, done, dirs>> /\ pc[p] = "cp"
      BY <2>7 DEF CopyOne
    <3> QED
      BY <1>1, <2>3, <3>1 DEF MadeBy, DirThere, HashDir
  <2>8. CASE TryMkdir(p)
    BY <2>3, <2>8, MkdirKeepsMade
  <2>9. CASE CopyArgs(p)
    <3>1. PICK n \in NameType : n = Head(todo[p]).file
      <4>1. Head(todo[p]) \in LineType
        BY <2>9 DEF CopyArgs, TypeOK
      <4> QED
        BY <4>1 DEF LineType
    <3>2. PICK c \in CopyType : c.from = n /\ done' = [done EXCEPT ![p] = Append(done[p], c)]
      <4>1. PICK c : c = [from |-> n, out |-> IF IsFile(n) THEN disk[n] ELSE None]
        OBVIOUS
      <4>2. c \in CopyType /\ c.from = n
        BY <3>1, <4>1 DEF CopyType, IsFile, TypeOK
      <4>3. done' = [done EXCEPT ![p] = Append(done[p], c)]
        BY <2>9, <3>1, <4>1 DEF CopyArgs
      <4> QED
        BY <4>2, <4>3
    <3>3. /\ pc[p] = "args" /\ UNCHANGED dirs
          /\ pc'[p] = IF setting.hash THEN "mkdir" ELSE "args"
      BY <2>9 DEF CopyArgs, destVars, TypeOK
    <3>4. PICK len \in Nat : len = Len(done[p])
      BY <2>3, <3>3 DEF InHand, Copying
    <3>5. /\ Len(done'[p]) = len + 1 /\ done'[p][len + 1] = c /\ done'[p] # <<>>
          /\ \A i \in 1 .. len : done'[p][i] = done[p][i]
      <4>1. done[p] \in Seq(CopyType) /\ done'[p] = Append(done[p], c)
        BY <2>3, <3>2, <3>3 DEF InHand, Copying, TypeOK
      <4> QED
        BY <3>4, <4>1
    <3>6. \A i \in 1 .. len : DirThere(p, i)'
      BY <1>1, <2>3, <3>3, <3>4, <3>5 DEF MadeBy, DirThere, HashDir
    <3>7. CASE setting.hash
      <4>1. /\ mk'[p].path = HashDir(n) /\ mk'[p].second = FALSE /\ mk'[p].exists = FALSE
        <5>1. mk'[p] = [NotMaking EXCEPT !.path = HashDir(n), !.level = Len(HashDir(n))]
          BY <2>9, <3>1 DEF CopyArgs, TypeOK
        <5> QED
          BY <5>1 DEF NotMaking
      <4>2. len + 1 - 1 = len
        BY <3>4
      <4>3. Making(p)'
        BY <1>1, <3>2, <3>5, <3>6, <3>7, <4>1, <4>2 DEF Making, HashDir
      <4> QED
        BY <3>3, <3>7, <4>3 DEF MadeBy
    <3>8. CASE ~setting.hash
      <4>1. DirThere(p, len + 1)'
        BY <1>1, <1>2, <3>2, <3>3, <3>5, <3>8 DEF DirThere, HashDir
      <4>2. \A i \in 1 .. Len(done'[p]) : DirThere(p, i)'
        <5>1. \A i \in 1 .. len + 1 : i = len + 1 \/ i \in 1 .. len
          BY <3>4
        <5> QED
          BY <3>5, <3>6, <4>1, <5>1
      <4> QED
        BY <3>3, <3>8, <4>2 DEF MadeBy
    <3> QED
      BY <3>7, <3>8
  <2> QED
    BY <1>5, <2>4, <2>5, <2>6, <2>7, <2>8, <2>9 DEF Act
<1> QED
  BY <1>4, <1>5, OneActs

(* All types are right.                                                    *)
LEMMA TypeCorrect == Spec => []TypeOK
<1> QED
  BY InitType, TypePreserved, PTL DEF Spec

(* mkdir_p has made every directory when the copies start, for any number  *)
(* of processes, unless a mkdir fails for a reason of its own.             *)
THEOREM DirsAreMade == Spec => []DirsMade
<1>1. Init => Made
  <2> SUFFICES ASSUME Init PROVE Made
    OBVIOUS
  <2>1. \A p \in Procs : pc[p] = "idle"
    BY DEF Init
  <2>2. ~setting.hash => <<>> \in dirs
    BY DEF Init
  <2> QED
    BY <2>1, <2>2 DEF Made, MadeBy
<1>2. TypeOK /\ Made => DirsMade
  <2> SUFFICES ASSUME TypeOK, Made, "mkdir" \notin faults, NEW p \in Procs, pc[p] = "cp"
               PROVE  \A i \in DOMAIN done[p] : HashDir(done[p][i].from) \in dirs
    BY DEF DirsMade
  <2>1. done[p] \in Seq(CopyType)
    BY DEF TypeOK, InHand, Copying
  <2>2. DOMAIN done[p] = 1 .. Len(done[p])
    BY <2>1
  <2> QED
    BY <2>2 DEF Made, MadeBy, DirThere
<1> QED
  BY InitType, TypePreserved, <1>1, MadePreserved, <1>2, PTL DEF Spec

-----------------------------------------------------------------------------
(* Names.  Those in use are the ones on the disk, in the log, and in what  *)
(* a process has read and written.  A name with a unique string is the only*)
(* one with it; one without, unless there are substitutions, is an output's*)
(* first name.                                                             *)
FileIn(s, n) == \E i \in DOMAIN s : s[i].file = n

FromIn(s, n) == \E i \in DOMAIN s : s[i].from = n

InUseBy(p, n) ==
    \/ FileIn(todo[p], n)
    \/ pc[p] = "rename" /\ FileIn(done[p], n)
    \/ Copying(p) /\ FromIn(done[p], n)

InUse(n) == IsFile(n) \/ FileIn(log, n) \/ \E p \in Procs : InUseBy(p, n)

NoSubst == \A p \in Procs : "substitute" \notin calls[p]

Plain(n) == n.uuid = <<>> /\ (NoSubst => \E o \in Outputs : n = FirstName(o))

Named ==
    \A n \in NameType : InUse(n) =>
        /\ Plain(n) \/ \E k \in 1 .. uuids : n.uuid = <<k>>
        /\ n.uuid # <<>> => \A m \in NameType : InUse(m) /\ m.uuid = n.uuid => m = n

LEMMA FilesOf ==
  ASSUME NEW S, NEW s \in Seq(S), NEW n
  PROVE  /\ FileIn(s, n) <=> \E i \in 1 .. Len(s) : s[i].file = n
         /\ FromIn(s, n) <=> \E i \in 1 .. Len(s) : s[i].from = n
         /\ \A x \in S : /\ FileIn(Append(s, x), n) => FileIn(s, n) \/ x.file = n
                         /\ FromIn(Append(s, x), n) => FromIn(s, n) \/ x.from = n
         /\ s # <<>> => /\ FileIn(Tail(s), n) => FileIn(s, n)
                        /\ FileIn(s, Head(s).file)
<1>1. DOMAIN s = 1 .. Len(s) /\ Len(s) \in Nat
  OBVIOUS
<1>2. ASSUME NEW x \in S
      PROVE  /\ FileIn(Append(s, x), n) => FileIn(s, n) \/ x.file = n
             /\ FromIn(Append(s, x), n) => FromIn(s, n) \/ x.from = n
  <2>1. /\ DOMAIN Append(s, x) = 1 .. Len(s) + 1
        /\ Append(s, x)[Len(s) + 1] = x
        /\ \A i \in 1 .. Len(s) : Append(s, x)[i] = s[i]
    BY <1>1
  <2>2. \A i \in 1 .. Len(s) + 1 : i \in 1 .. Len(s) \/ i = Len(s) + 1
    BY <1>1
  <2> QED
    BY <1>1, <2>1, <2>2 DEF FileIn, FromIn
<1>3. ASSUME s # <<>>
      PROVE  /\ FileIn(Tail(s), n) => FileIn(s, n)
             /\ FileIn(s, Head(s).file)
  <2>1. /\ DOMAIN Tail(s) = 1 .. Len(s) - 1
        /\ \A i \in 1 .. Len(s) - 1 : Tail(s)[i] = s[i + 1] /\ i + 1 \in 1 .. Len(s)
        /\ Head(s) = s[1] /\ 1 \in 1 .. Len(s)
    BY <1>1, <1>3
  <2> QED
    BY <1>1, <2>1 DEF FileIn
<1> QED
  BY <1>1, <1>2, <1>3 DEF FileIn, FromIn

LEMMA NoFiles == \A n : ~FileIn(<<>>, n) /\ ~FromIn(<<>>, n)
<1>1. DOMAIN <<>> = {}
  OBVIOUS
<1> QED
  BY <1>1 DEF FileIn, FromIn

(* An action of p brings no name into use but an output's first one and    *)
(* the one that a rename gives.                                            *)
NewBy(p, n) == RenameOne(p) /\ n = NewName(p, Head(todo[p]))

LEMMA NamesStay ==
  ASSUME TypeOK, TypeOK', NEW p \in Procs, Act(p), setting' = setting,
         NEW n \in NameType, InUse(n)'
  PROVE  InUse(n) \/ (\E o \in Outputs : n = FirstName(o)) \/ NewBy(p, n)
<1> DEFINE Old == InUse(n) \/ (\E o \in Outputs : n = FirstName(o)) \/ NewBy(p, n)
<1> SUFFICES Old
  OBVIOUS
<1> USE DEF MoveTo, Calls, procVars, logVars, destVars
<1>1. \A q \in Procs \ {p} : InUseBy(q, n)' => InUse(n)
  <2>1. \A q \in Procs \ {p} : InUseBy(q, n)' => InUseBy(q, n)
    BY OthersStay DEF InUseBy, Copying, FileIn, FromIn
  <2> QED
    BY <2>1 DEF InUse
<1>2. SUFFICES ASSUME \/ IsFile(n)' /\ ~IsFile(n)
                      \/ FileIn(log', n) /\ ~FileIn(log, n)
                      \/ InUseBy(p, n)' /\ ~InUseBy(p, n)
               PROVE  Old
  BY <1>1 DEF InUse, FileIn
<1>3. InHand(p) /\ todo[p] \in Seq(LineType)
  BY DEF TypeOK
<1>4. CASE RenameOne(p)
  <2>1. PICK line \in LineType, new \in LineType :
          /\ pc[p] = "rename" /\ todo[p] # <<>> /\ line = Head(todo[p])
          /\ done[p] \in Seq(LineType) /\ new.file = NewName(p, line)
          /\ disk' = IF IsFile(line.file)
                     THEN With(Without(disk, line.file), new.file, disk[line.file])
                     ELSE disk
          /\ done' = [done EXCEPT ![p] = Append(done[p], new)]
          /\ todo' = [todo EXCEPT ![p] = Tail(todo[p])]
          /\ UNCHANGED <<pc, log>>
    BY <1>4, RenamesOne
  <2>2. CASE n = new.file
    BY <1>4, <2>1, <2>2 DEF NewBy
  <2>3. CASE n # new.file
    <3>1. IsFile(n)' => IsFile(n)
      <4>1. line.file \in NameType /\ new.file \in NameType
        BY DEF LineType
      <4> QED
        BY <2>1, <2>3, <4>1, DiskMoves DEF IsFile
    <3>2. todo'[p] = Tail(todo[p]) /\ done'[p] = Append(done[p], new) /\ pc'[p] = pc[p]
      BY <2>1 DEF TypeOK
    <3>3. FileIn(todo'[p], n) => FileIn(todo[p], n)
      BY <1>3, <2>1, <3>2, FilesOf
    <3>4. FileIn(done'[p], n) => FileIn(done[p], n)
      BY <2>1, <2>3, <3>2, FilesOf
    <3>5. InUseBy(p, n)' => InUseBy(p, n)
      BY <2>1, <3>2, <3>3, <3>4 DEF InUseBy, Copying, FileIn, FromIn
    <3> QED
      BY <1>2, <2>1, <3>1, <3>5
  <2> QED
    BY <2>2, <2>3
<1>5. CASE ~RenameOne(p)
  <2>0. UNCHANGED disk
    BY <1>5 DEF Act, FetchInput, AddCheck, AddAppend, RenameStart,
         RenameEnd, CopyStart, CopyArgs, StartCp, CopyOne, CopyEnd, Return,
         TryMkdir, Cleanup, Crash
  <2>1. ~(IsFile(n)' /\ ~IsFile(n))
    BY <2>0 DEF IsFile
  <2>2. FileIn(log, n) => Old
    BY DEF InUse
  <2>3. InUseBy(p, n) => Old
    BY DEF InUse
  <2>4. CASE FetchInput(p) \/ Cleanup(p)
    <3>1. UNCHANGED <<pc, todo, done>> /\ (log' = log \/ log' = <<>>)
      BY <2>4 DEF FetchInput, Cleanup
    <3> QED
      BY <1>2, <2>1, <3>1, NoFiles DEF InUseBy, Copying, FileIn, FromIn
  <2>5. CASE AddCheck(p) \/ StartCp(p) \/ CopyEnd(p) \/ Crash(p)
    <3>1. UNCHANGED <<todo, done, log>>
      BY <2>5 DEF AddCheck, StartCp, CopyEnd, Crash
    <3>2. /\ pc'[p] # "rename" \/ pc'[p] = pc[p]
          /\ Copying(p)' => Copying(p)
      BY <2>5 DEF AddCheck, StartCp, CopyEnd, Crash, Copying, TypeOK
    <3> QED
      BY <1>2, <2>1, <3>1, <3>2 DEF InUseBy, FileIn, FromIn
  <2>6. CASE AddAppend(p)
    <3>1. /\ UNCHANGED <<todo, done>> /\ pc'[p] = "idle"
          /\ log' = Append(log, Line(FirstName(arg[p]), input[p]))
      BY <2>6 DEF AddAppend, TypeOK
    <3>2. arg[p] \in Outputs
      BY <1>3, <2>6 DEF AddAppend, InHand
    <3>3. PICK x \in LineType : x = Line(FirstName(arg[p]), input[p])
      BY <3>2, FirstNameIs DEF TypeOK, Line, LineType
    <3>4. FileIn(log', n) => FileIn(log, n) \/ n = FirstName(arg[p])
      <4>1. x.file = FirstName(arg[p])
        BY <3>3 DEF Line
      <4>2. log \in Seq(LineType)
        BY DEF TypeOK
      <4> QED
        BY <3>1, <3>3, <4>1, <4>2, FilesOf
    <3>5. InUseBy(p, n)' => InUseBy(p, n)
      BY <3>1 DEF InUseBy, Copying, FileIn, FromIn
    <3> QED
      BY <1>2, <2>1, <3>2, <3>4, <3>5
  <2>7. CASE RenameStart(p, "unique") \/ RenameStart(p, "substitute")
    <3>1. /\ log' = log \/ log' = <<>>
          /\ pc[p] = "idle"
          /\ \/ UNCHANGED <<pc, todo, done>>
             \/ /\ pc'[p] = "rename" /\ todo'[p] = log /\ done'[p] = <<>>
      BY <2>7 DEF RenameStart, TypeOK
    <3>2. FileIn(log', n) => FileIn(log, n)
      BY <3>1, NoFiles
    <3>3. CASE UNCHANGED <<pc, todo, done>>
      BY <1>2, <2>1, <3>2, <3>3 DEF InUseBy, Copying, FileIn, FromIn
    <3>4. CASE pc'[p] = "rename" /\ todo'[p] = log /\ done'[p] = <<>>
      <4>1. InUseBy(p, n)' => FileIn(log, n)
        BY <3>4, NoFiles DEF InUseBy, Copying, FileIn, FromIn
      <4> QED
        BY <1>2, <2>1, <2>2, <3>2, <4>1
    <3> QED
      BY <3>1, <3>3, <3>4
  <2>8. CASE RenameEnd(p)
    <3>1. /\ pc[p] = "rename"
          /\ log' = log \/ log' = done[p]
          /\ pc'[p] = "idle" /\ done'[p] = <<>> /\ todo'[p] = todo[p]
      BY <2>8 DEF RenameEnd, TypeOK
    <3>2. FileIn(log', n) => FileIn(log, n) \/ InUseBy(p, n)
      BY <2>8, <3>1 DEF InUseBy, RenameEnd
    <3>3. InUseBy(p, n)' => InUseBy(p, n)
      BY <3>1 DEF InUseBy, Copying, FileIn, FromIn
    <3> QED
      BY <1>2, <2>1, <2>3, <3>2, <3>3
  <2>9. CASE CopyStart(p)
    <3>1. /\ log' = log /\ done'[p] = <<>>
          /\ \/ pc'[p] = "idle" /\ todo'[p] = todo[p]
             \/ pc'[p] = "args" /\ todo'[p] = log
      BY <2>9 DEF CopyStart, TypeOK
    <3>2. InUseBy(p, n)' => FileIn(todo[p], n) \/ FileIn(log, n)
      BY <3>1, NoFiles DEF InUseBy, Copying, FileIn, FromIn
    <3> QED
      BY <1>2, <2>1, <2>2, <3>1, <3>2 DEF InUseBy
  <2>10. CASE CopyArgs(p)
    <3>1. PICK m \in NameType : m = Head(todo[p]).file
      <4>1. Head(todo[p]) \in LineType
        BY <2>10 DEF CopyArgs, TypeOK
      <4> QED
        BY <4>1 DEF LineType
    <3>2. PICK c \in CopyType : c.from = m /\ done' = [done EXCEPT ![p] = Append(done[p], c)]
      <4>1. PICK c : c = [from |-> m, out |-> IF IsFile(m) THEN disk[m] ELSE None]
        OBVIOUS
      <4>2. c \in CopyType /\ c.from = m
        BY <3>1, <4>1 DEF CopyType, IsFile, TypeOK
      <4>3. done' = [done EXCEPT ![p] = Append(done[p], c)]
        BY <2>10, <3>1, <4>1 DEF CopyArgs
      <4> QED
        BY <4>2, <4>3
    <3>3. /\ pc[p] = "args" /\ pc'[p] \in {"args", "mkdir"} /\ log' = log
          /\ todo[p] # <<>> /\ todo'[p] = Tail(todo[p]) /\ done'[p] = Append(done[p], c)
      BY <2>10, <3>2 DEF CopyArgs, TypeOK
    <3>4. FileIn(todo'[p], n) => FileIn(todo[p], n)
      BY <1>3, <3>3, FilesOf
    <3>5. FromIn(done'[p], n) => FromIn(done[p], n) \/ n = m
      <4>1. done[p] \in Seq(CopyType)
        BY <1>3, <3>3 DEF InHand, Copying
      <4> QED
        BY <3>2, <3>3, <4>1, FilesOf
    <3>6. FileIn(todo[p], m)
      BY <1>3, <3>1, <3>3, FilesOf
    <3>7. InUseBy(p, n)' => InUseBy(p, n)
      <4>1. InUseBy(p, n)' => FileIn(todo'[p], n) \/ FromIn(done'[p], n)
        BY <3>3 DEF InUseBy, FileIn, FromIn
      <4> QED
        BY <3>3, <3>4, <3>5, <3>6, <4>1 DEF InUseBy, Copying
    <3> QED
      BY <1>2, <2>1, <3>3, <3>7
  <2>11. CASE CopyOne(p)
    <3>1. PICK j \in Nat : j = Len(todo[p]) + 1
      BY <1>3
    <3>2. /\ UNCHANGED <<pc, log, done>> /\ pc[p] = "cp" /\ j <= Len(done[p])
          /\ todo' = [todo EXCEPT ![p] = Append(todo[p], Line(done[p][j].from, None))]
      BY <2>11, <3>1 DEF CopyOne
    <3>3. PICK m \in NameType : m = done[p][j].from /\ FromIn(done[p], m)
      <4>1. done[p] \in Seq(CopyType) /\ j \in 1 .. Len(done[p])
        BY <1>3, <3>1, <3>2 DEF InHand, Copying
      <4>2. done[p][j] \in CopyType
        BY <4>1
      <4> QED
        BY <4>1, <4>2, FilesOf DEF CopyType
    <3>4. PICK x \in LineType : x = Line(m, None) /\ x.file = m
      <4>1. Line(m, None) \in LineType /\ Line(m, None).file = m
        BY <3>3 DEF Line, LineType
      <4> QED
        BY <4>1
    <3>5. todo'[p] = Append(todo[p], x)
      BY <3>2, <3>3, <3>4 DEF TypeOK
    <3>6. FileIn(todo'[p], n) => FileIn(todo[p], n) \/ n = m
      BY <1>3, <3>4, <3>5, FilesOf
    <3>7. InUseBy(p, n)' => InUseBy(p, n)
      <4>1. InUseBy(p, n)' => FileIn(todo'[p], n) \/ FromIn(done[p], n)
        BY <3>2 DEF InUseBy, FileIn, FromIn
      <4> QED
        BY <3>2, <3>3, <3>6, <4>1 DEF InUseBy, Copying
    <3> QED
      BY <1>2, <2>1, <3>2, <3>7
  <2>12. CASE Return(p)
    <3>1. todo'[p] = <<>> /\ pc'[p] = "idle" /\ log' = log
      BY <2>12 DEF Return, TypeOK
    <3>2. ~InUseBy(p, n)'
      BY <3>1, NoFiles DEF InUseBy, Copying, FileIn, FromIn
    <3> QED
      BY <1>2, <2>1, <3>1, <3>2
  <2>13. CASE TryMkdir(p)
    <3>1. UNCHANGED <<todo, done, log>> /\ pc[p] = "mkdir"
      BY <2>13 DEF TryMkdir
    <3>2. pc'[p] # "rename"
      BY <2>13, <3>1 DEF TryMkdir, MakeNext, TypeOK
    <3>3. Copying(p)
      BY <3>1 DEF Copying
    <3> QED
      BY <1>2, <2>1, <3>1, <3>2, <3>3 DEF InUseBy, FileIn, FromIn
  <2> QED
    BY <1>5, <2>4, <2>5, <2>6, <2>7, <2>8, <2>9, <2>10, <2>11, <2>12, <2>13 DEF Act
<1> QED
  BY <1>4, <1>5

LEMMA FirstNameIsPlain ==
  ASSUME TypeOK, NEW o \in Outputs PROVE Plain(FirstName(o)) /\ Plain(FirstName(o))'
  BY FirstNameIs DEF Plain, FirstName, Name

(* A name that a rename gives has the next unique string, or none, and then*)
(* there are substitutions; or the file had it.                            *)
LEMMA GivenName ==
  ASSUME TypeOK, NEW p \in Procs, NEW n \in NameType, NewBy(p, n)
  PROVE  /\ uuids' = uuids + 1
         /\ \/ n.uuid = <<uuids + 1>>
            \/ n.uuid = <<>> /\ ~NoSubst
            \/ InUse(n) /\ n = Head(todo[p]).file
<1>1. PICK line \in LineType, new \in LineType :
        /\ line = Head(todo[p]) /\ how[p] \in calls[p]
        /\ pc[p] = "rename" /\ todo[p] # <<>>
        /\ new.file = NewName(p, line)
        /\ \/ /\ how[p] = "unique" /\ new.in = line.in
              /\ new.file = Name(line.file.dir, line.file.base, <<uuids + 1>>)
           \/ /\ how[p] = "substitute" /\ line.in = None
              /\ new.in = None /\ new.file = line.file
           \/ /\ how[p] = "substitute" /\ line.in \in Inputs
              /\ new.in = line.in
              /\ new.file = Name(line.file.dir, line.in, <<>>)
        /\ uuids' = uuids + 1
  BY RenamesOne DEF NewBy
<1>2. n = new.file
  BY <1>1 DEF NewBy
<1>3. CASE how[p] = "unique" /\ new.file = Name(line.file.dir, line.file.base, <<uuids + 1>>)
  BY <1>1, <1>2, <1>3 DEF Name
<1>4. CASE how[p] = "substitute" /\ new.file = Name(line.file.dir, line.in, <<>>)
  BY <1>1, <1>2, <1>4 DEF Name, NoSubst
<1>5. CASE how[p] = "substitute" /\ new.file = line.file
  <2>1. todo[p] \in Seq(LineType)
    BY DEF TypeOK
  <2>2. FileIn(todo[p], line.file)
    BY <1>1, <2>1, FilesOf
  <2> QED
    BY <1>1, <1>2, <1>5, <2>2 DEF InUse, InUseBy
<1> QED
  BY <1>1, <1>3, <1>4, <1>5

LEMMA InUseStays ==
  ASSUME setting' = setting, UNCHANGED <<pc, todo, done, log, disk>>, NEW n
  PROVE  InUse(n)' <=> InUse(n)
  BY DEF InUse, InUseBy, IsFile, FileIn, FromIn, Copying

LEMMA NamedPreserved == TypeOK /\ TypeOK' /\ Named /\ [Next]_vars => Named'
<1> SUFFICES ASSUME TypeOK, TypeOK', Named, [Next]_vars PROVE Named'
  OBVIOUS
<1>1. setting' = setting /\ \A n : Plain(n)' <=> Plain(n)
  BY SettingStays DEF Plain, NoSubst, FirstName, Name, place, calls
<1>2. CASE UNCHANGED vars
  <2>1. uuids' = uuids /\ \A n : InUse(n)' <=> InUse(n)
    BY <1>1, <1>2, InUseStays DEF vars, procVars, logVars
  <2> QED
    BY <1>1, <2>1 DEF Named
<1>3. ASSUME NEW p \in Procs, Act(p) PROVE Named'
  <2>1. uuids \in Nat /\ (uuids' = uuids \/ uuids' = uuids + 1)
    BY <1>3 DEF TypeOK, Act, FetchInput, AddCheck, AddAppend, RenameStart, RenameOne,
       RenameEnd, CopyStart, CopyArgs, StartCp, CopyOne, CopyEnd, Return, TryMkdir, Cleanup,
       Crash
  <2>2. \A k \in 1 .. uuids : k \in 1 .. uuids' /\ k # uuids + 1
    BY <2>1
  <2>3. ASSUME NEW n \in NameType, InUse(n)'
        PROVE  InUse(n) \/ Plain(n) \/ (NewBy(p, n) /\ n.uuid = <<uuids + 1>>)
    <3>1. InUse(n) \/ (\E o \in Outputs : n = FirstName(o)) \/ NewBy(p, n)
      BY <1>1, <1>3, <2>3, NamesStay
    <3>2. ~NoSubst /\ n.uuid = <<>> => Plain(n)
      BY DEF Plain
    <3> QED
      BY <3>1, <3>2, FirstNameIsPlain, GivenName
  <2>4. ASSUME NEW n \in NameType, NewBy(p, n)
        PROVE  uuids + 1 \in 1 .. uuids'
    BY <2>1, <2>4, GivenName
  <2>5. ASSUME NEW n \in NameType, InUse(n)'
        PROVE  Plain(n) \/ \E k \in 1 .. uuids' : n.uuid = <<k>>
    BY <2>2, <2>3, <2>4, <2>5 DEF Named
  <2>6. ASSUME NEW n \in NameType, NEW m \in NameType, InUse(n)', InUse(m)',
               n.uuid # <<>>, m.uuid = n.uuid
        PROVE  m = n
    <3>1. InUse(n) \/ (NewBy(p, n) /\ n.uuid = <<uuids + 1>>)
      BY <2>3, <2>6 DEF Plain
    <3>2. InUse(m) \/ (NewBy(p, m) /\ m.uuid = <<uuids + 1>>)
      BY <2>3, <2>6 DEF Plain
    <3>3. ASSUME NEW l \in NameType, InUse(l), l.uuid # <<>> PROVE l.uuid # <<uuids + 1>>
      <4>1. PICK k \in 1 .. uuids : l.uuid = <<k>>
        BY <3>3 DEF Named, Plain
      <4>2. <<k>>[1] = k /\ <<uuids + 1>>[1] = uuids + 1
        OBVIOUS
      <4> QED
        BY <2>2, <4>1, <4>2
    <3>4. CASE InUse(n) /\ InUse(m)
      BY <2>6, <3>4 DEF Named
    <3>5. CASE NewBy(p, n) /\ NewBy(p, m)
      BY <3>5 DEF NewBy
    <3> QED
      BY <2>6, <3>1, <3>2, <3>3, <3>4, <3>5
  <2> QED
    BY <1>1, <2>5, <2>6 DEF Named
<1> QED
  BY <1>2, <1>3, OneActs

-----------------------------------------------------------------------------
(* copyBackOutput.  A name is fine when its place at the destination is its*)
(* own; then what has the name stays what it is, and is what was copied.   *)
Bases == \A a, b \in Outputs : a # b => place[a].base # place[b].base

Fine(n) == n.uuid # <<>> \/ (NoSubst /\ Bases)

CopyHeld(p, i) ==
    LET n == done[p][i].from
    IN  Fine(n) /\ IsFile(n) => disk[n] = done[p][i].out

CopyThere(p, i) ==
    LET n == done[p][i].from
    IN  Fine(n) => DestName(n) \in DOMAIN dest /\ dest[DestName(n)] = done[p][i].out

CopiedBy(p) ==
    /\ Copying(p) => \A i \in 1 .. Len(done[p]) : CopyHeld(p, i)
    /\ pc[p] \in {"cp", "copied"} =>
          /\ Len(todo[p]) <= Len(done[p])
          /\ pc[p] = "copied" => Len(todo[p]) = Len(done[p])
          /\ rres[p] = 0 => \A i \in 1 .. Len(todo[p]) : CopyThere(p, i)

Copies == \A p \in Procs : CopiedBy(p)

LEMMA FineStays ==
  ASSUME TypeOK, Named, NEW p \in Procs, Act(p), NEW n \in NameType, InUse(n), Fine(n),
         IsFile(n)'
  PROVE  IsFile(n) /\ disk'[n] = disk[n]
<1>1. CASE ~RenameOne(p)
  <2>1. UNCHANGED disk
    BY <1>1 DEF Act, FetchInput, AddCheck, AddAppend, RenameStart, RenameEnd, CopyStart,
       CopyArgs, StartCp, CopyOne, CopyEnd, Return, TryMkdir, Cleanup, Crash
  <2> QED
    BY <2>1 DEF IsFile
<1>2. CASE RenameOne(p)
  <2>1. PICK line \in LineType, new \in LineType :
          /\ line = Head(todo[p]) /\ new.file = NewName(p, line)
          /\ disk' = IF IsFile(line.file)
                     THEN With(Without(disk, line.file), new.file, disk[line.file])
                     ELSE disk
    BY <1>2, RenamesOne
  <2>2. new.file \in NameType /\ line.file \in NameType
    BY DEF LineType
  <2>3. CASE n # new.file
    BY <2>1, <2>2, <2>3, DiskMoves DEF IsFile
  <2>4. CASE n = new.file
    <3>1. NewBy(p, n)
      BY <1>2, <2>1, <2>4 DEF NewBy
    <3>2. n.uuid # <<uuids + 1>>
      <4>1. n.uuid = <<>> \/ \E k \in 1 .. uuids : n.uuid = <<k>>
        BY DEF Named, Plain
      <4>2. \A k \in 1 .. uuids : <<k>>[1] # <<uuids + 1>>[1]
        BY DEF TypeOK
      <4>3. <<>> # <<uuids + 1>>
        OBVIOUS
      <4> QED
        BY <4>1, <4>2, <4>3
    <3>3. n = line.file
      BY <2>1, <3>1, <3>2, GivenName DEF Fine
    <3> QED
      BY <2>1, <2>2, <2>4, <3>3, DiskMoves DEF IsFile
  <2> QED
    BY <2>3, <2>4
<1> QED
  BY <1>1, <1>2

LEMMA OwnPlace ==
  ASSUME TypeOK, Named, NEW n \in NameType, NEW m \in NameType, InUse(n), InUse(m), Fine(n),
         DestName(m) = DestName(n)
  PROVE  m = n
<1>1. m.base = n.base /\ m.uuid = n.uuid
  BY DEF DestName
<1>2. CASE n.uuid # <<>>
  BY <1>1, <1>2 DEF Named
<1>3. CASE n.uuid = <<>>
  <2>1. NoSubst /\ Bases
    BY <1>3 DEF Fine
  <2>2. \A k : <<k>> # <<>>
    OBVIOUS
  <2>3. Plain(n) /\ Plain(m)
    BY <1>1, <1>3, <2>2 DEF Named
  <2>4. PICK a \in Outputs, b \in Outputs : n = FirstName(a) /\ m = FirstName(b)
    BY <2>1, <2>3 DEF Plain
  <2> QED
    BY <1>1, <2>1, <2>4, FirstNameIs DEF Bases
<1> QED
  BY <1>2, <1>3

(* The names of a process's copies are in use.                             *)
LEMMA CopyNames ==
  ASSUME TypeOK, NEW p \in Procs, Copying(p), NEW i \in 1 .. Len(done[p])
  PROVE  /\ done[p] \in Seq(CopyType)
         /\ done[p][i].from \in NameType
         /\ InUse(done[p][i].from)
<1>1. done[p] \in Seq(CopyType)
  BY DEF TypeOK, InHand
<1>2. done[p][i] \in CopyType
  BY <1>1
<1>3. FromIn(done[p], done[p][i].from)
  BY <1>1, FilesOf
<1> QED
  BY <1>1, <1>2, <1>3 DEF CopyType, InUse, InUseBy

LEMMA HeldStays ==
  ASSUME TypeOK, Named, NEW p \in Procs, Act(p), setting' = setting,
         NEW q \in Procs, Copying(q), NEW i \in 1 .. Len(done[q]), CopyHeld(q, i),
         done'[q][i] = done[q][i]
  PROVE  CopyHeld(q, i)'
<1> DEFINE n == done[q][i].from
<1>1. n \in NameType /\ InUse(n)
  BY CopyNames
<1>2. Fine(n)' <=> Fine(n)
  BY DEF Fine, NoSubst, Bases, calls, place
<1>3. Fine(n) /\ IsFile(n)' => IsFile(n) /\ disk'[n] = disk[n]
  BY <1>1, FineStays
<1>4. IsFile(n)' <=> n \in DOMAIN disk'
  BY DEF IsFile
<1> QED
  BY <1>2, <1>3, <1>4 DEF CopyHeld, Fine, IsFile, NoSubst, Bases, calls, place

(* What a copy of p does.                                                  *)
LEMMA CopiesOne ==
  ASSUME TypeOK, NEW p \in Procs, CopyOne(p)
  PROVE  \E j \in 1 .. Len(done[p]) :
            /\ pc[p] = "cp" /\ j = Len(todo[p]) + 1
            /\ Len(todo'[p]) = j
            /\ \/ /\ IsFile(done[p][j].from)
                  /\ dest' = With(dest, DestName(done[p][j].from), disk[done[p][j].from])
                  /\ UNCHANGED rres
               \/ rres'[p] = 1 /\ UNCHANGED dest
            /\ UNCHANGED <<setting, pc, done, disk>>
<1>1. PICK j \in Nat : j = Len(todo[p]) + 1
  BY DEF TypeOK
<1>2. /\ UNCHANGED <<setting, pc, disk, done>> /\ pc[p] = "cp" /\ j <= Len(done[p])
      /\ todo' = [todo EXCEPT ![p] = Append(todo[p], Line(done[p][j].from, None))]
      /\ IF IsFile(done[p][j].from) /\ HashDir(done[p][j].from) \in dirs
         THEN /\ dest' = With(dest, DestName(done[p][j].from), disk[done[p][j].from])
              /\ UNCHANGED rres
         ELSE /\ rres' = [rres EXCEPT ![p] = 1]
              /\ UNCHANGED dest
  BY <1>1 DEF CopyOne
<1>3. j \in 1 .. Len(done[p])
  <2>1. done[p] \in Seq(CopyType) /\ todo[p] \in Seq(LineType)
    BY <1>2 DEF TypeOK, InHand, Copying
  <2> QED
    BY <1>1, <1>2, <2>1
<1>4. Len(todo'[p]) = j
  <2>1. todo[p] \in Seq(LineType)
    BY DEF TypeOK
  <2>2. done[p][j].from \in NameType
    BY <1>2, <1>3, CopyNames DEF Copying
  <2>3. Line(done[p][j].from, None) \in LineType
    BY <2>2 DEF Line, LineType
  <2>4. todo'[p] = Append(todo[p], Line(done[p][j].from, None))
    BY <1>2 DEF TypeOK
  <2> QED
    BY <1>1, <2>1, <2>3, <2>4
<1>5. rres' = [rres EXCEPT ![p] = 1] => rres'[p] = 1
  BY DEF TypeOK
<1> QED
  BY <1>1, <1>2, <1>3, <1>4, <1>5

LEMMA DestStays ==
  ASSUME TypeOK, NEW p \in Procs, Act(p), ~CopyOne(p)
  PROVE  UNCHANGED dest
<1>1. CASE TryMkdir(p)
  BY <1>1 DEF TryMkdir
<1> QED
  BY <1>1 DEF Act, destVars, FetchInput, AddCheck, AddAppend, RenameStart, RenameOne,
     RenameEnd, CopyStart, CopyArgs, StartCp, CopyEnd, Return, Cleanup, Crash

LEMMA ThereStays ==
  ASSUME TypeOK, Named, NEW p \in Procs, Act(p), setting' = setting,
         NEW q \in Procs, Copying(q), NEW i \in 1 .. Len(done[q]),
         CopyHeld(q, i), CopyThere(q, i), done'[q] = done[q]
  PROVE  CopyThere(q, i)'
<1> DEFINE n == done[q][i].from
<1>1. n \in NameType /\ InUse(n)
  BY CopyNames
<1>2. (Fine(n)' <=> Fine(n)) /\ DestName(n)' = DestName(n)
  BY DEF Fine, NoSubst, Bases, calls, place, DestName, HashDir
<1>3. SUFFICES ASSUME Fine(n)
               PROVE  /\ DestName(n) \in DOMAIN dest'
                      /\ dest'[DestName(n)] = done[q][i].out
  <2>1. CopyThere(q, i)' <=>
           LET m == done[q][i].from
           IN  Fine(m)' => DestName(m)' \in DOMAIN dest' /\ dest'[DestName(m)'] = done[q][i].out
    BY Zenon DEF CopyThere
  <2> QED
    BY <1>2, <2>1
<1>4. DestName(n) \in DOMAIN dest /\ dest[DestName(n)] = done[q][i].out
  BY <1>3 DEF CopyThere
<1>5. CASE ~CopyOne(p)
  BY <1>4, <1>5, DestStays
<1>6. CASE CopyOne(p)
  <2>1. PICK j \in 1 .. Len(done[p]) :
          /\ pc[p] = "cp"
          /\ \/ /\ IsFile(done[p][j].from)
                /\ dest' = With(dest, DestName(done[p][j].from), disk[done[p][j].from])
             \/ UNCHANGED dest
    BY <1>6, CopiesOne
  <2>2. PICK m \in NameType : m = done[p][j].from /\ InUse(m)
    BY <2>1, CopyNames DEF Copying
  <2>3. CASE UNCHANGED dest
    BY <1>4, <2>3
  <2>4. CASE IsFile(m) /\ dest' = With(dest, DestName(m), disk[m])
    <3>1. /\ DOMAIN dest' = DOMAIN dest \union {DestName(m)}
          /\ \A y \in DOMAIN dest' :
                dest'[y] = IF y = DestName(m) THEN disk[m] ELSE dest[y]
      BY <2>4 DEF With
    <3>2. CASE DestName(m) = DestName(n)
      <4>1. m = n
        BY <1>1, <1>3, <2>2, <3>2, OwnPlace
      <4>2. disk[n] = done[q][i].out
        BY <1>3, <2>4, <4>1 DEF CopyHeld
      <4> QED
        BY <3>1, <4>1, <4>2
    <3>3. CASE DestName(m) # DestName(n)
      BY <1>4, <3>1, <3>3
    <3> QED
      BY <3>2, <3>3
  <2> QED
    BY <2>1, <2>2, <2>3, <2>4
<1> QED
  BY <1>5, <1>6

LEMMA CopiesPreserved == TypeOK /\ TypeOK' /\ Named /\ Copies /\ [Next]_vars => Copies'
<1> SUFFICES ASSUME TypeOK, TypeOK', Named, Copies, [Next]_vars PROVE Copies'
  OBVIOUS
<1>1. setting' = setting
  BY SettingStays
<1>2. CASE UNCHANGED vars
  BY <1>2 DEF vars, procVars, destVars, Copies, CopiedBy, CopyHeld, CopyThere, Copying,
     Fine, NoSubst, Bases, IsFile, DestName, HashDir, calls, place
<1>3. ASSUME NEW p \in Procs, Act(p) PROVE Copies'
  <2>1. ASSUME NEW q \in Procs \ {p} PROVE CopiedBy(q)'
    <3>1. CopiedBy(q)
      BY DEF Copies
    <3>2. pc'[q] = pc[q] /\ todo'[q] = todo[q] /\ done'[q] = done[q] /\ rres'[q] = rres[q]
      BY <1>3, OthersStay
    <3>3. Copying(q)' <=> Copying(q)
      BY <3>2 DEF Copying
    <3>4. ASSUME Copying(q), NEW i \in 1 .. Len(done[q]) PROVE CopyHeld(q, i)'
      BY <1>1, <1>3, <3>1, <3>2, <3>4, HeldStays DEF CopiedBy
    <3>5. ASSUME pc[q] \in {"cp", "copied"}, rres[q] = 0, NEW i \in 1 .. Len(todo[q])
          PROVE  CopyThere(q, i)'
      <4>1. Copying(q)
        BY <3>5 DEF Copying
      <4>2. i \in 1 .. Len(done[q])
        <5>1. done[q] \in Seq(CopyType) /\ todo[q] \in Seq(LineType)
          BY <4>1 DEF TypeOK, InHand
        <5>2. Len(todo[q]) <= Len(done[q])
          BY <3>1, <3>5 DEF CopiedBy
        <5> QED
          BY <5>1, <5>2
      <4> QED
        BY <1>1, <1>3, <3>1, <3>2, <3>5, <4>1, <4>2, ThereStays DEF CopiedBy
    <3> QED
      BY <3>1, <3>2, <3>3, <3>4, <3>5 DEF CopiedBy
  <2>2. SUFFICES CopiedBy(p)'
    BY <2>1 DEF Copies
  <2>3. CopiedBy(p) /\ InHand(p) /\ todo[p] \in Seq(LineType)
    BY DEF Copies, TypeOK
  <2> USE DEF MoveTo, Calls, procVars
  <2>4. CASE \/ FetchInput(p) \/ AddCheck(p) \/ AddAppend(p)
             \/ RenameStart(p, "unique") \/ RenameStart(p, "substitute")
             \/ RenameOne(p) \/ RenameEnd(p) \/ Return(p) \/ Cleanup(p) \/ Crash(p)
    <3>1. pc'[p] \in {"idle", "append", "rename", "dead"}
      BY <2>4 DEF FetchInput, AddCheck, AddAppend, RenameStart, RenameOne, RenameEnd,
         Return, Cleanup, Crash, TypeOK
    <3>2. UNCHANGED pc \/ ~Copying(p)'
      BY <3>1 DEF Copying
    <3> QED
      BY <3>1 DEF CopiedBy, Copying
  <2>5. CASE CopyStart(p)
    <3>1. done'[p] = <<>> /\ pc'[p] \in {"idle", "args"}
      BY <2>5 DEF CopyStart, TypeOK
    <3>2. 1 .. Len(done'[p]) = {}
      BY <3>1
    <3> QED
      BY <3>1, <3>2 DEF CopiedBy
  <2>6. CASE CopyArgs(p)
    <3>1. PICK m \in NameType : m = Head(todo[p]).file
      <4>1. Head(todo[p]) \in LineType
        BY <2>6 DEF CopyArgs, TypeOK
      <4> QED
        BY <4>1 DEF LineType
    <3>2. PICK c \in CopyType :
            /\ c.from = m /\ (IsFile(m) => disk[m] = c.out)
            /\ done' = [done EXCEPT ![p] = Append(done[p], c)]
      <4>1. PICK c : c = [from |-> m, out |-> IF IsFile(m) THEN disk[m] ELSE None]
        OBVIOUS
      <4>2. c \in CopyType /\ c.from = m /\ (IsFile(m) => disk[m] = c.out)
        BY <3>1, <4>1 DEF CopyType, IsFile, TypeOK
      <4>3. done' = [done EXCEPT ![p] = Append(done[p], c)]
        BY <2>6, <3>1, <4>1 DEF CopyArgs
      <4> QED
        BY <4>2, <4>3
    <3>3. pc[p] = "args" /\ pc'[p] \in {"args", "mkdir"} /\ disk' = disk
      BY <2>6 DEF CopyArgs, TypeOK
    <3>4. PICK len \in Nat : len = Len(done[p])
      BY <2>3, <3>3 DEF InHand, Copying
    <3>5. /\ Len(done'[p]) = len + 1 /\ done'[p][len + 1] = c
          /\ \A i \in 1 .. len : done'[p][i] = done[p][i]
      <4>1. done[p] \in Seq(CopyType) /\ done'[p] = Append(done[p], c)
        BY <2>3, <3>2, <3>3 DEF InHand, Copying, TypeOK
      <4> QED
        BY <3>4, <4>1
    <3>6. Copying(p)
      BY <3>3 DEF Copying
    <3>7. ASSUME NEW i \in 1 .. len PROVE CopyHeld(p, i)'
      BY <1>1, <1>3, <2>3, <3>4, <3>5, <3>6, HeldStays DEF CopiedBy
    <3>8. CopyHeld(p, len + 1)'
      BY <3>2, <3>3, <3>5 DEF CopyHeld, IsFile
    <3>9. \A i \in 1 .. len + 1 : i \in 1 .. len \/ i = len + 1
      BY <3>4
    <3> QED
      BY <3>3, <3>5, <3>7, <3>8, <3>9 DEF CopiedBy
  <2>7. CASE StartCp(p)
    <3>1. /\ pc[p] = "args" /\ pc'[p] = "cp" /\ todo[p] = <<>>
          /\ UNCHANGED <<todo, done, rres>>
      BY <2>7 DEF StartCp, TypeOK
    <3>2. Len(todo'[p]) = 0 /\ 1 .. 0 = {} /\ Len(done[p]) \in Nat
      BY <2>3, <3>1 DEF InHand, Copying
    <3>3. Copying(p)
      BY <3>1 DEF Copying
    <3>4. \A i \in 1 .. Len(done[p]) : CopyHeld(p, i)'
      BY <1>1, <1>3, <2>3, <3>1, <3>3, HeldStays DEF CopiedBy
    <3> QED
      BY <3>1, <3>2, <3>4 DEF CopiedBy
  <2>8. CASE CopyOne(p)
    <3>1. PICK j \in 1 .. Len(done[p]) :
            /\ pc[p] = "cp" /\ j = Len(todo[p]) + 1
            /\ Len(todo'[p]) = j
            /\ \/ /\ IsFile(done[p][j].from)
                  /\ dest' = With(dest, DestName(done[p][j].from), disk[done[p][j].from])
                  /\ UNCHANGED rres
               \/ rres'[p] = 1 /\ UNCHANGED dest
            /\ UNCHANGED <<setting, pc, done, disk>>
      BY <2>8, CopiesOne
    <3>2. Copying(p) /\ pc'[p] = "cp"
      BY <3>1 DEF Copying
    <3>3. \A i \in 1 .. Len(done[p]) : CopyHeld(p, i)'
      BY <1>1, <1>3, <2>3, <3>1, <3>2, HeldStays DEF CopiedBy
    <3>4. Len(done[p]) \in Nat /\ Len(todo[p]) \in Nat
      BY <2>3, <3>2 DEF InHand
    <3>5. ASSUME rres'[p] = 0, NEW i \in 1 .. j PROVE CopyThere(p, i)'
      <4>1. /\ rres[p] = 0 /\ IsFile(done[p][j].from)
            /\ dest' = With(dest, DestName(done[p][j].from), disk[done[p][j].from])
        BY <3>1, <3>5
      <4>2. CASE i # j
        <5>1. i \in 1 .. Len(todo[p]) /\ i \in 1 .. Len(done[p])
          BY <3>1, <3>4, <4>2
        <5>2. CopyThere(p, i) /\ CopyHeld(p, i)
          BY <2>3, <3>1, <3>2, <4>1, <5>1 DEF CopiedBy
        <5> QED
          BY <1>1, <1>3, <3>1, <3>2, <5>1, <5>2, ThereStays
      <4>3. CASE i = j
        <5>1. CopyHeld(p, j)
          BY <2>3, <3>1, <3>2 DEF CopiedBy
        <5> DEFINE n == done[p][j].from
        <5>2. dest'[DestName(n)] = disk[n] /\ DestName(n) \in DOMAIN dest'
          BY <4>1 DEF With
        <5>3. (Fine(n)' <=> Fine(n)) /\ DestName(n)' = DestName(n)
          BY <1>1, <3>1 DEF Fine, NoSubst, Bases, calls, place, DestName, HashDir
        <5>4. Fine(n) => disk[n] = done[p][j].out
          BY <4>1, <5>1 DEF CopyHeld
        <5>5. CopyThere(p, j)' <=>
                 (Fine(n)' => DestName(n)' \in DOMAIN dest' /\ dest'[DestName(n)'] = done[p][j].out)
          BY <3>1 DEF CopyThere
        <5> QED
          BY <4>3, <5>2, <5>3, <5>4, <5>5
      <4> QED
        BY <4>2, <4>3
    <3> QED
      BY <3>1, <3>2, <3>3, <3>4, <3>5 DEF CopiedBy
  <2>9. CASE CopyEnd(p)
    <3>1. /\ pc[p] = "cp" /\ pc'[p] = "copied" /\ Len(todo[p]) = Len(done[p])
          /\ UNCHANGED <<todo, done, rres>>
      BY <2>9 DEF CopyEnd, TypeOK
    <3>2. Copying(p)
      BY <3>1 DEF Copying
    <3>3. \A i \in 1 .. Len(done[p]) : CopyHeld(p, i)'
      BY <1>1, <1>3, <2>3, <3>1, <3>2, HeldStays DEF CopiedBy
    <3>4. rres[p] = 0 => \A i \in 1 .. Len(todo[p]) : CopyThere(p, i)'
      BY <1>1, <1>3, <2>3, <3>1, <3>2, ThereStays DEF CopiedBy
    <3>5. Len(done[p]) \in Nat
      BY <2>3, <3>2 DEF InHand
    <3> QED
      BY <3>1, <3>3, <3>4, <3>5 DEF CopiedBy
  <2>10. CASE TryMkdir(p)
    <3>1. UNCHANGED <<todo, done>> /\ pc[p] = "mkdir"
      BY <2>10 DEF TryMkdir
    <3>2. pc'[p] \in {"args", "mkdir"}
      BY <2>10, <3>1 DEF TryMkdir, MakeNext, TypeOK
    <3>3. Copying(p)
      BY <3>1 DEF Copying
    <3>4. \A i \in 1 .. Len(done[p]) : CopyHeld(p, i)'
      BY <1>1, <1>3, <2>3, <3>1, <3>3, HeldStays DEF CopiedBy
    <3> QED
      BY <3>1, <3>2, <3>4 DEF CopiedBy
  <2> QED
    BY <1>3, <2>4, <2>5, <2>6, <2>7, <2>8, <2>9, <2>10 DEF Act
<1> QED
  BY <1>2, <1>3, OneActs

LEMMA InitNamed == Init => Named
<1> SUFFICES ASSUME Init PROVE Named
  OBVIOUS
<1>1. TypeOK
  BY InitType
<1>2. \A p \in Procs : pc[p] = "idle" /\ todo[p] = <<>>
  BY DEF Init
<1>3. DOMAIN disk = {FirstName(o) : o \in Outputs} /\ log = <<>>
  BY DEF Init
<1>4. ASSUME NEW n \in NameType, InUse(n) PROVE Plain(n)
  <2>1. IsFile(n)
    BY <1>2, <1>3, <1>4, NoFiles DEF InUse, InUseBy, Copying
  <2> QED
    BY <1>1, <1>3, <2>1, FirstNameIsPlain DEF IsFile
<1> QED
  BY <1>4 DEF Named, Plain

(* A copyBackOutput that returns 0 has left at the destination all that was*)
(* in the log when it read it, whatever others do to the files, the log and*)
(* the destination meanwhile.                                              *)
THEOREM AllAreCopied == Spec => []CopiedBack
<1>1. Init => Copies
  BY DEF Init, Copies, CopiedBy, Copying
<1>2. TypeOK /\ Copies => CopiedBack
  <2> SUFFICES ASSUME TypeOK, Copies, NEW p \in Procs, pc[p] = "copied", rres[p] = 0,
                      NEW i \in DOMAIN done[p], NEW n, n = done[p][i].from, Fine(n)
               PROVE  DestName(n) \in DOMAIN dest /\ dest[DestName(n)] = done[p][i].out
    BY DEF CopiedBack, Fine, NoSubst, Bases
  <2>1. done[p] \in Seq(CopyType) /\ todo[p] \in Seq(LineType)
    BY DEF TypeOK, InHand, Copying
  <2>2. i \in 1 .. Len(todo[p])
    BY <2>1 DEF Copies, CopiedBy
  <2> QED
    BY <2>2 DEF Copies, CopiedBy, CopyThere
<1> QED
  BY TypeCorrect, InitNamed, <1>1, NamedPreserved, CopiesPreserved, <1>2, PTL DEF Spec

-----------------------------------------------------------------------------
(* The log.  Without deaths, with nobody adding while another renames, and *)
(* without names that clash, one process at most renames, and then it is   *)
(* the only one that adds; nothing else touches the log but a cleanup.     *)
Calm == faults = {} /\ ~RenamesWhileAdding /\ ~Clash

RenamesAlone(p) ==
    pc[p] = "rename" =>
        /\ "add" \in calls[p]
        /\ how[p] = "unique" /\ ~hasNew => log = <<>> /\ added = {}

(* What is to be added is there, and with one that adds not in the log.    *)
Pending(p) ==
    pc[p] = "append" =>
        /\ IsFile(FirstName(arg[p]))
        /\ ~AddsTogether => ~FileIn(log, FirstName(arg[p]))

(* An output under its first name is that output.                          *)
Own == \A o \in Outputs : IsFile(FirstName(o)) => disk[FirstName(o)] = o

Order ==
    /\ hasLog \/ Renaming => \E q \in Procs : "add" \in calls[q]
    /\ ~hasLog => log = <<>>
    /\ NoSubst => Own
    /\ Calm => \A p \in Procs : RenamesAlone(p) /\ Pending(p)

LEMMA Solo ==
  ASSUME TypeOK, Calm, NEW p \in Procs, pc[p] = "rename", "add" \in calls[p],
         NEW q \in Procs \ {p}
  PROVE  "add" \notin calls[q] /\ calls[q] \cap Renames = {}
<1>1. how[p] \in calls[p] \cap Renames
  BY DEF TypeOK, InHand
<1> QED
  BY <1>1 DEF Calm, RenamesWhileAdding

(* The actions that are not about the log.                                 *)
LEMMA LogStays ==
  ASSUME TypeOK, NEW p \in Procs, Act(p), ~AddAppend(p),
         ~RenameStart(p, "unique"), ~RenameStart(p, "substitute"),
         ~RenameOne(p), ~RenameEnd(p), ~Cleanup(p)
  PROVE  /\ UNCHANGED <<hasLog, log, hasNew, disk, added>>
         /\ (pc[p] = "rename" /\ ~Crash(p)) => FALSE
         /\ pc'[p] # "rename"
<1> USE DEF TypeOK, MoveTo, Calls, procVars, logVars, destVars
<1>1. CASE FetchInput(p) \/ AddCheck(p) \/ CopyStart(p) \/ Crash(p)
  BY <1>1 DEF FetchInput, AddCheck, CopyStart, Crash
<1>2. CASE CopyArgs(p) \/ StartCp(p) \/ CopyEnd(p) \/ Return(p)
  BY <1>2 DEF CopyArgs, StartCp, CopyEnd, Return
<1>3. CASE CopyOne(p)
  BY <1>3 DEF CopyOne
<1>4. CASE TryMkdir(p)
  BY <1>4 DEF TryMkdir, MakeNext
<1> QED
  BY <1>1, <1>2, <1>3, <1>4 DEF Act

LEMMA CalmStays ==
  ASSUME setting' = setting
  PROVE  /\ Calm' <=> Calm
         /\ NoSubst' <=> NoSubst
         /\ AddsTogether' <=> AddsTogether
         /\ \A o : FirstName(o)' = FirstName(o)
  BY DEF Calm, NoSubst, AddsTogether, RenamesWhileAdding, Clash, FirstName, faults, calls,
     place

(* A rename of a file with no substitutions.                               *)
LEMMA UniqueOne ==
  ASSUME TypeOK, Named, NEW p \in Procs, RenameOne(p), NoSubst
  PROVE  \E line \in LineType, new \in LineType :
            /\ line = Head(todo[p])
            /\ ~InUse(new.file) /\ new.file.uuid # <<>>
            /\ done'[p] = Append(done[p], new) /\ todo'[p] = Tail(todo[p])
            /\ ~IsFile(line.file) => disk' = disk
            /\ IsFile(line.file) =>
                  /\ DOMAIN disk' = (DOMAIN disk \ {line.file}) \union {new.file}
                  /\ disk'[new.file] = disk[line.file]
                  /\ \A m \in DOMAIN disk \ {line.file, new.file} : disk'[m] = disk[m]
<1>1. PICK line \in LineType, new \in LineType :
        /\ line = Head(todo[p]) /\ how[p] \in calls[p]
        /\ \/ /\ how[p] = "unique"
              /\ new.file = Name(line.file.dir, line.file.base, <<uuids + 1>>)
           \/ how[p] = "substitute"
        /\ disk' = IF IsFile(line.file)
                   THEN With(Without(disk, line.file), new.file, disk[line.file])
                   ELSE disk
        /\ done' = [done EXCEPT ![p] = Append(done[p], new)]
        /\ todo' = [todo EXCEPT ![p] = Tail(todo[p])]
  BY RenamesOne
<1>2. new.file.uuid = <<uuids + 1>>
  BY <1>1 DEF NoSubst, Name
<1>3. new.file \in NameType /\ line.file \in NameType
  BY DEF LineType
<1>4. <<uuids + 1>> # <<>> /\ \A k \in 1 .. uuids : <<k>> # <<uuids + 1>>
  <2>1. \A k \in 1 .. uuids : <<k>>[1] # <<uuids + 1>>[1]
    BY DEF TypeOK
  <2> QED
    BY <2>1
<1>5. ~InUse(new.file)
  BY <1>2, <1>3, <1>4 DEF Named, Plain
<1>6. done'[p] = Append(done[p], new) /\ todo'[p] = Tail(todo[p])
  BY <1>1 DEF TypeOK
<1>7. /\ ~IsFile(line.file) => disk' = disk
      /\ IsFile(line.file) =>
            /\ DOMAIN disk' = (DOMAIN disk \ {line.file}) \union {new.file}
            /\ disk'[new.file] = disk[line.file]
            /\ \A m \in DOMAIN disk \ {line.file, new.file} : disk'[m] = disk[m]
  BY Zenon, <1>1, <1>3, DiskMoves
<1> QED
  BY <1>1, <1>2, <1>4, <1>5, <1>6, <1>7

LEMMA OrderPreserved == TypeOK /\ TypeOK' /\ Named /\ Order /\ [Next]_vars => Order'
<1> SUFFICES ASSUME TypeOK, TypeOK', Named, Order, [Next]_vars PROVE Order'
  OBVIOUS
<1>1. /\ setting' = setting /\ calls' = calls
      /\ Calm' <=> Calm
      /\ NoSubst' <=> NoSubst
      /\ AddsTogether' <=> AddsTogether
      /\ \A o : FirstName(o)' = FirstName(o)
  BY SettingStays, CalmStays DEF calls
<1>2. CASE UNCHANGED vars
  <2>1. UNCHANGED <<pc, arg, how, hasLog, log, hasNew, disk, added>>
    BY <1>2 DEF vars, procVars, logVars
  <2> QED
    BY <1>1, <2>1 DEF Order, Own, RenamesAlone, Pending, IsFile, FileIn, Renaming
<1>3. ASSUME NEW p \in Procs, Act(p) PROVE Order'
  <2> USE DEF MoveTo, Calls, procVars, logVars, destVars
  <2>1. /\ hasLog \/ Renaming => \E q \in Procs : "add" \in calls[q]
        /\ ~hasLog => log = <<>>
        /\ NoSubst => Own
        /\ Calm => \A q \in Procs : RenamesAlone(q) /\ Pending(q)
    BY DEF Order
  <2>2. \A q \in Procs \ {p} : pc'[q] = pc[q] /\ arg'[q] = arg[q] /\ how'[q] = how[q]
    BY <1>3, OthersStay
  <2>3. InHand(p)
    BY DEF TypeOK
  <2>12. pc'[p] # "rename" /\ Renaming' => Renaming
    BY <2>2 DEF Renaming
  <2>4. ASSUME UNCHANGED disk PROVE NoSubst' => Own'
    BY <1>1, <2>1, <2>4 DEF Own, IsFile
  <2>5. ASSUME Calm, NEW q \in Procs \ {p}, pc[q] = "rename"
        PROVE  "add" \notin calls[p] /\ calls[p] \cap Renames = {}
    BY <2>1, <2>5, Solo DEF RenamesAlone
  <2>6. CASE /\ ~AddAppend(p) /\ ~RenameStart(p, "unique") /\ ~RenameStart(p, "substitute")
             /\ ~RenameOne(p) /\ ~RenameEnd(p) /\ ~Cleanup(p)
    <3>1. /\ UNCHANGED <<hasLog, log, hasNew, disk, added>>
          /\ pc'[p] # "rename"
      BY <1>3, <2>6, LogStays
    <3>2. ASSUME Calm, NEW q \in Procs PROVE RenamesAlone(q)'
      BY <1>1, <2>1, <2>2, <3>1, <3>2 DEF RenamesAlone
    <3>3. ASSUME Calm, NEW q \in Procs PROVE Pending(q)'
      <4>1. CASE q # p
        BY <1>1, <2>1, <2>2, <3>1, <3>3, <4>1 DEF Pending, IsFile, FileIn
      <4>2. CASE q = p /\ AddCheck(p)
        <5>1. CASE UNCHANGED <<pc, arg>>
          BY <1>1, <2>1, <3>1, <3>3, <4>2, <5>1 DEF Pending, IsFile, FileIn
        <5>2. CASE ~UNCHANGED <<pc, arg>>
          <6>1. PICK o \in Outputs : IsFile(FirstName(o)) /\ ~Logged(FirstName(o))
                                     /\ arg' = [arg EXCEPT ![p] = o]
            BY <4>2, <5>2 DEF AddCheck
          <6>2. arg'[p] = o
            BY <6>1 DEF TypeOK
          <6> QED
            BY <1>1, <3>1, <4>2, <6>1, <6>2 DEF Pending, IsFile, FileIn, Logged
        <5> QED
          BY <5>1, <5>2
      <4>3. CASE q = p /\ ~AddCheck(p)
        <5>1. pc'[p] # "append"
          <6>1. CASE TryMkdir(p)
            BY <6>1 DEF TryMkdir, MakeNext, TypeOK
          <6>2. CASE FetchInput(p) \/ CopyStart(p) \/ CopyArgs(p) \/ StartCp(p)
            BY <6>2 DEF FetchInput, CopyStart, CopyArgs, StartCp, TypeOK
          <6>3. CASE CopyEnd(p) \/ Return(p) \/ Crash(p) \/ CopyOne(p)
            BY <6>3 DEF CopyEnd, Return, Crash, CopyOne, TypeOK
          <6> QED
            BY <1>3, <2>6, <4>3, <6>1, <6>2, <6>3 DEF Act
        <5> QED
          BY <4>3, <5>1 DEF Pending
      <4> QED
        BY <4>1, <4>2, <4>3
    <3> QED
      BY <1>1, <2>1, <2>4, <2>12, <3>1, <3>2, <3>3 DEF Order
  <2>7. CASE AddAppend(p)
    <3>1. /\ hasLog' = TRUE /\ UNCHANGED <<hasNew, disk>>
          /\ pc[p] = "append" /\ pc'[p] = "idle"
          /\ log' = Append(log, Line(FirstName(arg[p]), input[p]))
      BY <2>7 DEF AddAppend, TypeOK
    <3>2. "add" \in calls[p] /\ arg[p] \in Outputs
      BY <2>3, <3>1 DEF InHand
    <3>3. ASSUME Calm, NEW q \in Procs PROVE RenamesAlone(q)'
      BY <2>2, <2>5, <3>1, <3>2, <3>3 DEF RenamesAlone
    <3>4. ASSUME Calm, NEW q \in Procs PROVE Pending(q)'
      <4>1. CASE q = p
        BY <3>1, <4>1 DEF Pending
      <4>2. CASE q # p /\ pc[q] = "append"
        <5>1. "add" \in calls[q]
          BY <4>2 DEF TypeOK, InHand
        <5>2. AddsTogether
          BY <3>2, <4>2, <5>1 DEF AddsTogether
        <5> QED
          BY <1>1, <2>1, <2>2, <3>1, <3>4, <4>2, <5>2 DEF Pending, IsFile
      <4>3. CASE q # p /\ pc[q] # "append"
        BY <2>2, <4>3 DEF Pending
      <4> QED
        BY <4>1, <4>2, <4>3
    <3> QED
      BY <1>1, <2>4, <3>1, <3>2, <3>3, <3>4 DEF Order
  <2>8. CASE \E h \in Renames : RenameStart(p, h)
    <3>1. PICK h \in Renames :
            /\ pc[p] = "idle" /\ h \in calls[p] /\ how'[p] = h
            /\ hasNew' = (h = "unique" \/ hasNew)
            /\ UNCHANGED <<hasLog, disk, added>>
            /\ IF ~hasLog THEN UNCHANGED <<pc, log>>
               ELSE pc'[p] = "rename" /\ (log' = log \/ log' = <<>>)
      BY <2>8 DEF RenameStart, TypeOK
    <3>2. ASSUME Calm, NEW q \in Procs PROVE RenamesAlone(q)'
      <4>1. CASE q = p /\ hasLog
        <5>1. PICK r \in Procs : "add" \in calls[r]
          BY <2>1, <4>1
        <5>2. r = p
          BY <3>1, <3>2, <5>1 DEF Calm, RenamesWhileAdding
        <5> QED
          BY <1>1, <3>1, <4>1, <5>1, <5>2 DEF RenamesAlone
      <4>2. CASE q = p /\ ~hasLog
        BY <3>1, <4>2 DEF RenamesAlone
      <4>3. CASE q # p
        BY <2>2, <2>5, <3>1, <3>2, <4>3 DEF RenamesAlone
      <4> QED
        BY <4>1, <4>2, <4>3
    <3>3. ASSUME Calm, NEW q \in Procs PROVE Pending(q)'
      <4>1. CASE q = p
        BY <3>1, <4>1 DEF Pending
      <4>2. CASE q # p
        <5>1. FileIn(log', FirstName(arg[q])) => FileIn(log, FirstName(arg[q]))
          BY <3>1, NoFiles
        <5> QED
          BY <1>1, <2>1, <2>2, <3>1, <3>3, <4>2, <5>1 DEF Pending, IsFile
      <4> QED
        BY <4>1, <4>2
    <3>4. hasLog' \/ Renaming' => \E q \in Procs : "add" \in calls[q]
      <4>1. CASE hasLog
        BY <2>1, <4>1
      <4>2. CASE ~hasLog
        BY <2>1, <2>12, <3>1, <4>2
      <4> QED
        BY <4>1, <4>2
    <3> QED
      BY <1>1, <2>1, <2>4, <3>1, <3>2, <3>3, <3>4 DEF Order
  <2>9. CASE RenameOne(p)
    <3>1. /\ UNCHANGED <<pc, arg, how, hasLog, log, hasNew, added>> /\ pc[p] = "rename"
          /\ how[p] \in calls[p] /\ how[p] \in Renames
      <4>1. UNCHANGED <<pc, arg, how, hasLog, log, hasNew, added>> /\ pc[p] = "rename"
        BY <2>9 DEF RenameOne
      <4> QED
        BY <2>3, <4>1 DEF InHand, TypeOK
    <3>2. ASSUME Calm, NEW q \in Procs PROVE RenamesAlone(q)'
      BY <1>1, <2>1, <3>1, <3>2 DEF RenamesAlone
    <3>3. ASSUME Calm, NEW q \in Procs PROVE Pending(q)'
      <4>1. CASE q = p \/ pc[q] # "append"
        BY <3>1, <4>1 DEF Pending
      <4>2. CASE q # p /\ pc[q] = "append"
        <5>1. "add" \in calls[q]
          BY <4>2 DEF TypeOK, InHand
        <5> QED
          BY <3>1, <3>3, <4>2, <5>1 DEF Calm, RenamesWhileAdding
      <4> QED
        BY <4>1, <4>2
    <3>4. ASSUME NoSubst PROVE Own'
      <4>1. PICK line \in LineType, new \in LineType :
              /\ ~InUse(new.file) /\ new.file.uuid # <<>>
              /\ ~IsFile(line.file) => disk' = disk
              /\ IsFile(line.file) =>
                    /\ DOMAIN disk' = (DOMAIN disk \ {line.file}) \union {new.file}
                    /\ disk'[new.file] = disk[line.file]
                    /\ \A m \in DOMAIN disk \ {line.file, new.file} : disk'[m] = disk[m]
        BY <2>9, <3>4, UniqueOne
      <4>2. \A o \in Outputs : FirstName(o) # new.file
        BY <4>1, FirstNameIs
      <4> QED
        BY <1>1, <2>1, <3>4, <4>1, <4>2 DEF Own, IsFile
    <3> QED
      BY <1>1, <2>1, <3>1, <3>2, <3>3, <3>4 DEF Order, Renaming
  <2>10. CASE RenameEnd(p)
    <3>1. /\ pc[p] = "rename" /\ pc'[p] = "idle" /\ UNCHANGED <<disk, added>>
          /\ \/ hasLog' = TRUE
             \/ hasLog' = hasLog /\ log' = log
          /\ how[p] \in calls[p] /\ how[p] \in Renames
      <4>1. /\ pc[p] = "rename" /\ pc'[p] = "idle" /\ UNCHANGED <<disk, added>>
            /\ \/ hasLog' = TRUE
               \/ hasLog' = hasLog /\ log' = log
        BY <2>10 DEF RenameEnd, TypeOK
      <4> QED
        BY <2>3, <4>1 DEF InHand, TypeOK
    <3>2. ASSUME Calm, NEW q \in Procs PROVE RenamesAlone(q)'
      BY <2>2, <2>5, <3>1, <3>2 DEF RenamesAlone
    <3>3. ASSUME Calm, NEW q \in Procs PROVE Pending(q)'
      <4>1. CASE q = p
        BY <3>1, <4>1 DEF Pending
      <4>2. CASE q # p
        <5>1. CASE pc[q] = "append"
          <6>1. "add" \in calls[q]
            BY <5>1 DEF TypeOK, InHand
          <6> QED
            BY <3>1, <3>3, <4>2, <6>1 DEF Calm, RenamesWhileAdding
        <5>2. CASE pc[q] # "append"
          BY <2>2, <4>2, <5>2 DEF Pending
        <5> QED
          BY <5>1, <5>2
      <4> QED
        BY <4>1, <4>2
    <3>4. \E q \in Procs : "add" \in calls[q]
      BY <2>1, <3>1 DEF Renaming
    <3> QED
      BY <1>1, <2>1, <2>4, <3>1, <3>2, <3>3, <3>4 DEF Order
  <2>11. CASE Cleanup(p)
    <3>1. /\ hasLog' = FALSE /\ log' = <<>> /\ hasNew' = FALSE /\ added' = {}
          /\ UNCHANGED <<pc, arg, how, disk>>
      BY <2>11 DEF Cleanup
    <3> QED
      BY <1>1, <2>1, <2>4, <3>1, NoFiles DEF Order, RenamesAlone, Pending, IsFile, Renaming
  <2> QED
    BY <2>6, <2>7, <2>8, <2>9, <2>10, <2>11 DEF Renames
<1> QED
  BY <1>2, <1>3, OneActs

LEMMA InitOrder == Init => Order
<1> SUFFICES ASSUME Init PROVE Order
  OBVIOUS
<1>1. TypeOK
  BY InitType
<1>2. /\ \A p \in Procs : pc[p] = "idle"
      /\ hasLog = FALSE /\ log = <<>>
      /\ disk = [n \in {FirstName(o) : o \in Outputs} |->
                     CHOOSE o \in Outputs : FirstName(o) = n]
  BY DEF Init
<1>3. ASSUME NEW o \in Outputs PROVE disk[FirstName(o)] = o
  <2>1. disk[FirstName(o)] = CHOOSE a \in Outputs : FirstName(a) = FirstName(o)
    BY <1>2
  <2>2. \A a \in Outputs : FirstName(a) = FirstName(o) => a = o
    BY <1>1, FirstNameIs
  <2> QED
    BY <2>1, <2>2
<1>4. Own
  BY <1>3 DEF Own
<1> QED
  BY <1>2, <1>4 DEF Order, RenamesAlone, Pending, Renaming

(* While a process renames, the log is what it has written and what it has *)
(* yet to read.                                                            *)
Book(p) == done[p] \o todo[p]

(* In place of a line there is another.                                    *)
Replaced(s, k, line, new, r) ==
    /\ s \in Seq(LineType) /\ r \in Seq(LineType) /\ Len(r) = Len(s)
    /\ k \in 1 .. Len(s) /\ s[k] = line /\ r[k] = new
    /\ \A i \in 1 .. Len(s) : i # k => r[i] = s[i]

LEMMA BookOne ==
  ASSUME NEW d \in Seq(LineType), NEW t \in Seq(LineType), t # <<>>, NEW x \in LineType
  PROVE  Replaced(d \o t, Len(d) + 1, Head(t), x, Append(d, x) \o Tail(t))
<1> DEFINE S == LineType
<1> HIDE DEF S
<1> SUFFICES ASSUME d \in Seq(S), t \in Seq(S), x \in S
             PROVE  /\ d \o t \in Seq(S) /\ Append(d, x) \o Tail(t) \in Seq(S)
                    /\ Len(Append(d, x) \o Tail(t)) = Len(d \o t)
                    /\ Len(d) + 1 \in 1 .. Len(d \o t)
                    /\ (d \o t)[Len(d) + 1] = Head(t)
                    /\ (Append(d, x) \o Tail(t))[Len(d) + 1] = x
                    /\ \A i \in 1 .. Len(d \o t) :
                          i # Len(d) + 1 => (Append(d, x) \o Tail(t))[i] = (d \o t)[i]
  BY DEF S, Replaced
<1>1. /\ Len(t) \in Nat /\ Len(t) > 0 /\ Len(d) \in Nat
      /\ Tail(t) \in Seq(S) /\ Len(Tail(t)) = Len(t) - 1
      /\ \A i \in 1 .. Len(Tail(t)) : Tail(t)[i] = t[i + 1]
      /\ Append(d, x) \in Seq(S) /\ Len(Append(d, x)) = Len(d) + 1
      /\ Append(d, x)[Len(d) + 1] = x
      /\ \A i \in 1 .. Len(d) : Append(d, x)[i] = d[i]
      /\ Head(t) = t[1]
  OBVIOUS
<1>2. /\ d \o t \in Seq(S) /\ Len(d \o t) = Len(d) + Len(t)
      /\ \A i \in 1 .. Len(d) + Len(t) :
            (d \o t)[i] = IF i <= Len(d) THEN d[i] ELSE t[i - Len(d)]
  BY ConcatProperties
<1>3. DEFINE a == Append(d, x)
             b == Tail(t)
<1>4. /\ a \o b \in Seq(S) /\ Len(a \o b) = Len(a) + Len(b)
      /\ \A i \in 1 .. Len(a) + Len(b) :
            (a \o b)[i] = IF i <= Len(a) THEN a[i] ELSE b[i - Len(a)]
  BY <1>1, ConcatProperties
<1>5. Len(a) + Len(b) = Len(d) + Len(t)
  BY <1>1
<1>6. ASSUME NEW i \in 1 .. Len(d) + Len(t), i # Len(d) + 1
      PROVE  (a \o b)[i] = (d \o t)[i]
  <2>1. CASE i <= Len(d)
    BY <1>1, <1>2, <1>4, <1>5, <2>1
  <2>2. CASE i > Len(d) + 1
    <3>1. (a \o b)[i] = b[i - Len(a)]
      BY <1>1, <1>4, <1>5, <2>2
    <3>2. b[i - Len(a)] = t[i - Len(a) + 1]
      BY <1>1, <2>2
    <3>3. (d \o t)[i] = t[i - Len(d)]
      BY <1>1, <1>2, <2>2
    <3>4. i - Len(a) + 1 = i - Len(d)
      BY <1>1
    <3> QED
      BY <3>1, <3>2, <3>3, <3>4
  <2> QED
    BY <1>1, <1>6, <2>1, <2>2
<1>7. (a \o b)[Len(d) + 1] = x /\ (d \o t)[Len(d) + 1] = Head(t)
  BY <1>1, <1>2, <1>4, <1>5
<1> QED
  BY <1>1, <1>2, <1>4, <1>5, <1>6, <1>7

(* Of the lines, with one process that adds.  A line whose output has been *)
(* given the input's name keeps it; two lines have one name only if both   *)
(* have.                                                                   *)
Settled(l) == ~NoSubst /\ (l.in = None \/ l.file = Name(l.file.dir, l.in, <<>>))

Known(l) == NoSubst \/ Settled(l) \/ l.file.base \notin Inputs

Good(s) ==
    /\ \A i \in 1 .. Len(s) : IsFile(s[i].file) /\ Known(s[i])
    /\ \A i, j \in 1 .. Len(s) :
          i # j /\ s[i].file = s[j].file => Settled(s[i]) /\ Settled(s[j])

Lines ==
    Calm /\ ~AddsTogether =>
        /\ Renaming \/ Good(log)
        /\ \A p \in Procs : pc[p] = "rename" => Good(Book(p))

(* Of the outputs: where each is in the log.                               *)
In(o, s) == \E i \in 1 .. Len(s) : IsFile(s[i].file) /\ disk[s[i].file] = o

Kept ==
    Calm /\ NoSubst =>
        /\ Renaming \/ \A o \in added : In(o, log)
        /\ \A p \in Procs : pc[p] = "rename" => \A o \in added : In(o, Book(p))

(* One line renamed: the k-th of the book.                                 *)
OneLine(p, k, line, new) ==
    /\ Replaced(Book(p), k, line, new, Book(p)')
    /\ \/ how[p] = "unique"
       \/ line.in = None /\ new.in = None /\ new.file = line.file
       \/ /\ line.in \in Inputs /\ new.in = line.in
          /\ new.file = Name(line.file.dir, line.in, <<>>)
    /\ ~IsFile(line.file) => disk' = disk
    /\ IsFile(line.file) =>
          /\ DOMAIN disk' = (DOMAIN disk \ {line.file}) \union {new.file}
          /\ disk'[new.file] = disk[line.file]
          /\ \A m \in DOMAIN disk \ {line.file, new.file} : disk'[m] = disk[m]

LEMMA BooksOne ==
  ASSUME TypeOK, Named, NEW p \in Procs, RenameOne(p)
  PROVE  \E k \in 1 .. Len(Book(p)), line \in LineType, new \in LineType :
            /\ OneLine(p, k, line, new)
            /\ NoSubst => ~InUse(new.file)
<1>1. PICK line \in LineType, new \in LineType :
        /\ todo[p] # <<>> /\ line = Head(todo[p]) /\ done[p] \in Seq(LineType)
        /\ \/ how[p] = "unique"
           \/ line.in = None /\ new.in = None /\ new.file = line.file
           \/ /\ line.in \in Inputs /\ new.in = line.in
              /\ new.file = Name(line.file.dir, line.in, <<>>)
        /\ disk' = IF IsFile(line.file)
                   THEN With(Without(disk, line.file), new.file, disk[line.file])
                   ELSE disk
        /\ done' = [done EXCEPT ![p] = Append(done[p], new)]
        /\ todo' = [todo EXCEPT ![p] = Tail(todo[p])]
  BY RenamesOne
<1>2. done'[p] = Append(done[p], new) /\ todo'[p] = Tail(todo[p]) /\ todo[p] \in Seq(LineType)
  BY <1>1 DEF TypeOK
<1> DEFINE a == done[p] \o todo[p]
           b == Append(done[p], new) \o Tail(todo[p])
           k == Len(done[p]) + 1
<1>3. Book(p)' = b /\ Book(p) = a
  BY <1>2 DEF Book
<1>4. Replaced(a, k, line, new, b)
  <2>1. /\ done[p] \in Seq(LineType) /\ todo[p] \in Seq(LineType) /\ todo[p] # <<>>
        /\ line = Head(todo[p]) /\ new \in LineType
    BY <1>1, <1>2
  <2> QED
    BY Zenon, <2>1, BookOne
<1>5. line.file \in NameType /\ new.file \in NameType
  BY DEF LineType
<1>6. /\ ~IsFile(line.file) => disk' = disk
      /\ IsFile(line.file) =>
            /\ DOMAIN disk' = (DOMAIN disk \ {line.file}) \union {new.file}
            /\ disk'[new.file] = disk[line.file]
            /\ \A m \in DOMAIN disk \ {line.file, new.file} : disk'[m] = disk[m]
  BY Zenon, <1>1, <1>5, DiskMoves
<1>7. ASSUME NoSubst PROVE ~InUse(new.file)
  <2>1. PICK x \in LineType : ~InUse(x.file) /\ done'[p] = Append(done[p], x)
    BY <1>7, UniqueOne
  <2>2. Append(done[p], x)[k] = x /\ Append(done[p], new)[k] = new
    BY <1>1
  <2> QED
    BY <1>2, <2>1, <2>2
<1> HIDE DEF a, b, k
<1>8. OneLine(p, k, line, new)
  BY <1>1, <1>3, <1>4, <1>6 DEF OneLine
<1>9. k \in 1 .. Len(Book(p))
  BY <1>3, <1>4 DEF Replaced
<1> QED
  BY <1>7, <1>8, <1>9

LEMMA OfEither ==
  ASSUME NEW d \in Seq(LineType), NEW t \in Seq(LineType), NEW i \in 1 .. Len(d \o t)
  PROVE  /\ (d \o t)[i] \in LineType
         /\ \/ \E j \in 1 .. Len(d) : d[j] = (d \o t)[i]
            \/ \E j \in 1 .. Len(t) : t[j] = (d \o t)[i]
<1>1. /\ d \o t \in Seq(LineType) /\ Len(d \o t) = Len(d) + Len(t)
      /\ \A k \in 1 .. Len(d) + Len(t) :
            (d \o t)[k] = IF k <= Len(d) THEN d[k] ELSE t[k - Len(d)]
  BY ConcatProperties
<1>2. Len(d) \in Nat /\ Len(t) \in Nat
  OBVIOUS
<1>3. i \in 1 .. Len(d) + Len(t)
  BY <1>1
<1>4. CASE i <= Len(d)
  BY <1>1, <1>2, <1>3, <1>4
<1>5. CASE i > Len(d)
  <2>1. i - Len(d) \in 1 .. Len(t)
    BY <1>2, <1>3, <1>5
  <2>2. (d \o t)[i] = t[i - Len(d)]
    BY <1>1, <1>2, <1>3, <1>5
  <2>3. t[i - Len(d)] \in LineType
    BY <2>1
  <2> QED
    BY <2>1, <2>2, <2>3
<1> QED
  BY <1>2, <1>3, <1>4, <1>5

(* The names in a process's book are in use.                               *)
LEMMA BookNames ==
  ASSUME TypeOK, NEW p \in Procs, pc[p] = "rename"
  PROVE  /\ Book(p) \in Seq(LineType)
         /\ \A i \in 1 .. Len(Book(p)) :
               Book(p)[i] \in LineType /\ InUse(Book(p)[i].file)
<1>1. done[p] \in Seq(LineType) /\ todo[p] \in Seq(LineType)
  BY DEF TypeOK, InHand
<1>2. Book(p) \in Seq(LineType)
  BY <1>1 DEF Book
<1>3. ASSUME NEW i \in 1 .. Len(Book(p))
      PROVE  Book(p)[i] \in LineType /\ InUse(Book(p)[i].file)
  <2>4. i \in 1 .. Len(done[p] \o todo[p]) /\ Book(p) = done[p] \o todo[p]
    BY <1>3 DEF Book
  <2>5. PICK l : l = (done[p] \o todo[p])[i]
    OBVIOUS
  <2>1. /\ l \in LineType
        /\ \/ \E j \in 1 .. Len(done[p]) : done[p][j] = l
           \/ \E j \in 1 .. Len(todo[p]) : todo[p][j] = l
    BY Zenon, <1>1, <2>4, <2>5, OfEither
  <2>2. FileIn(done[p], l.file) \/ FileIn(todo[p], l.file)
    BY <1>1, <2>1, FilesOf
  <2>3. InUse(l.file)
    BY <2>2 DEF InUse, InUseBy
  <2> QED
    BY <2>1, <2>3, <2>4, <2>5
<1> QED
  BY <1>2, <1>3

(* A line more, of a file that has none.                                   *)
LEMMA GoodAppend ==
  ASSUME NEW s \in Seq(LineType), Good(s), NEW x \in LineType,
         IsFile(x.file), Known(x), ~FileIn(s, x.file)
  PROVE  Good(Append(s, x))
<1>1. /\ Len(Append(s, x)) = Len(s) + 1 /\ Len(s) \in Nat
      /\ Append(s, x)[Len(s) + 1] = x
      /\ \A i \in 1 .. Len(s) : Append(s, x)[i] = s[i]
  OBVIOUS
<1>2. \A i \in 1 .. Len(s) : s[i].file # x.file
  BY FilesOf
<1>3. \A i \in 1 .. Len(s) + 1 : i \in 1 .. Len(s) \/ i = Len(s) + 1
  BY <1>1
<1>4. \A i \in 1 .. Len(s) + 1 :
        IsFile(Append(s, x)[i].file) /\ Known(Append(s, x)[i])
  BY <1>1, <1>3 DEF Good
<1>5. ASSUME NEW i \in 1 .. Len(s) + 1, NEW j \in 1 .. Len(s) + 1, i # j,
             Append(s, x)[i].file = Append(s, x)[j].file
      PROVE  Settled(Append(s, x)[i]) /\ Settled(Append(s, x)[j])
  <2>1. i \in 1 .. Len(s) /\ j \in 1 .. Len(s)
    BY <1>1, <1>2, <1>3, <1>5
  <2> QED
    BY <1>1, <1>5, <2>1 DEF Good
<1> QED
  BY <1>1, <1>4, <1>5 DEF Good

LEMMA GoodStays ==
  ASSUME setting' = setting, UNCHANGED disk, NEW s
  PROVE  (Good(s) <=> (Good(s))') /\ \A o : In(o, s) <=> (In(o, s))'
<1>1. (NoSubst' <=> NoSubst) /\ \A l : (Settled(l))' <=> Settled(l)
  BY CalmStays DEF Settled
<1> QED
  BY <1>1 DEF Good, In, Known, IsFile

(* A rename without substitutions leaves the lines good, ...               *)
LEMMA GoodUnique ==
  ASSUME TypeOK, Named, NEW p \in Procs, RenameOne(p), NoSubst, Good(Book(p))
  PROVE  (Good(Book(p)))'
<1>1. PICK k \in 1 .. Len(Book(p)), line \in LineType, new \in LineType :
        OneLine(p, k, line, new) /\ ~InUse(new.file)
  BY BooksOne
<1>2. /\ Len(Book(p)') = Len(Book(p))
      /\ Book(p)[k] = line /\ Book(p)'[k] = new
      /\ \A i \in 1 .. Len(Book(p)) : i # k => Book(p)'[i] = Book(p)[i]
  BY <1>1 DEF OneLine, Replaced
<1>3. pc[p] = "rename"
  BY DEF RenameOne
<1>4. /\ ~IsFile(line.file) => disk' = disk
      /\ IsFile(line.file) =>
            /\ DOMAIN disk' = (DOMAIN disk \ {line.file}) \union {new.file}
            /\ disk'[new.file] = disk[line.file]
            /\ \A m \in DOMAIN disk \ {line.file, new.file} : disk'[m] = disk[m]
  BY <1>1 DEF OneLine
<1>5. NoSubst'
  BY CalmStays DEF RenameOne
<1>6. IsFile(line.file)
  BY <1>2, <1>4 DEF Good
<1>7. \A i \in 1 .. Len(Book(p)) : InUse(Book(p)[i].file) /\ Book(p)[i].file # new.file
  BY <1>1, <1>3, BookNames
<1>8. \A i \in 1 .. Len(Book(p)) : i # k => Book(p)[i].file # line.file
  BY <1>2, <1>4 DEF Good, Settled
<1>9. \A i \in 1 .. Len(Book(p)) : Book(p)'[i].file \in DOMAIN disk'
  <2>1. ASSUME NEW i \in 1 .. Len(Book(p)), i # k PROVE Book(p)'[i].file \in DOMAIN disk'
    <3>1. Book(p)[i].file \in DOMAIN disk
      BY <2>1 DEF Good, IsFile
    <3>2. Book(p)[i].file # line.file /\ Book(p)'[i] = Book(p)[i]
      BY <1>2, <1>8, <2>1
    <3> QED
      BY <1>4, <1>6, <3>1, <3>2 DEF IsFile
  <2> QED
    BY <1>1, <1>2, <1>4, <1>6, <2>1
<1>10. \A i, j \in 1 .. Len(Book(p)) : i # j => Book(p)'[i].file # Book(p)'[j].file
  <2>1. \A i, j \in 1 .. Len(Book(p)) : i # j => Book(p)[i].file # Book(p)[j].file
    BY DEF Good, Settled
  <2> QED
    BY <1>2, <1>4, <1>7, <2>1
<1> QED
  BY <1>2, <1>5, <1>9, <1>10 DEF Good, Known, IsFile

(* ... and keeps every output in them, ...                                 *)
LEMMA KeptUnique ==
  ASSUME TypeOK, Named, NEW p \in Procs, RenameOne(p), NoSubst, NEW o, In(o, Book(p))
  PROVE  (In(o, Book(p)))'
<1>1. PICK k \in 1 .. Len(Book(p)), line \in LineType, new \in LineType :
        OneLine(p, k, line, new) /\ ~InUse(new.file)
  BY BooksOne
<1>2. /\ Len(Book(p)') = Len(Book(p))
      /\ Book(p)[k] = line /\ Book(p)'[k] = new
      /\ \A i \in 1 .. Len(Book(p)) : i # k => Book(p)'[i] = Book(p)[i]
  BY <1>1 DEF OneLine, Replaced
<1>3. pc[p] = "rename"
  BY DEF RenameOne
<1>4. /\ ~IsFile(line.file) => disk' = disk
      /\ IsFile(line.file) =>
            /\ DOMAIN disk' = (DOMAIN disk \ {line.file}) \union {new.file}
            /\ disk'[new.file] = disk[line.file]
            /\ \A m \in DOMAIN disk \ {line.file, new.file} : disk'[m] = disk[m]
  BY <1>1 DEF OneLine
<1>5. PICK i \in 1 .. Len(Book(p)) :
        Book(p)[i].file \in DOMAIN disk /\ disk[Book(p)[i].file] = o
  BY DEF In, IsFile
<1>6. Book(p)[i].file # new.file
  BY <1>1, <1>3, BookNames
<1>7. CASE Book(p)[i].file = line.file
  BY <1>1, <1>2, <1>4, <1>5, <1>7 DEF In, IsFile
<1>8. CASE Book(p)[i].file # line.file
  <2>1. i # k /\ Book(p)'[i] = Book(p)[i]
    BY <1>2, <1>5, <1>8
  <2>2. Book(p)[i].file \in DOMAIN disk' /\ disk'[Book(p)[i].file] = o
    BY <1>4, <1>5, <1>6, <1>8 DEF IsFile
  <2> QED
    BY <1>2, <2>1, <2>2 DEF In, IsFile
<1> QED
  BY <1>7, <1>8

(* ... and a substitution leaves them good when no names clash.            *)
LEMMA GoodSubstitute ==
  ASSUME TypeOK, Named, NEW p \in Procs, RenameOne(p), ~NoSubst, Calm, Good(Book(p))
  PROVE  (Good(Book(p)))'
<1>1. how[p] \in calls[p] /\ pc[p] = "rename" /\ setting' = setting
  BY DEF RenameOne, TypeOK, InHand
<1>2. how[p] # "unique"
  BY <1>1 DEF Calm, Clash, NoSubst
<1>13. PICK k \in 1 .. Len(Book(p)), line \in LineType, new \in LineType :
          OneLine(p, k, line, new)
  BY BooksOne
<1>3. /\ Book(p) \in Seq(LineType)
      /\ Len(Book(p)') = Len(Book(p))
      /\ Book(p)[k] = line /\ Book(p)'[k] = new
      /\ \A i \in 1 .. Len(Book(p)) : i # k => Book(p)'[i] = Book(p)[i]
      /\ \/ line.in = None /\ new.in = None /\ new.file = line.file
         \/ /\ line.in \in Inputs /\ new.in = line.in
            /\ new.file = Name(line.file.dir, line.in, <<>>)
  BY <1>2, <1>13 DEF OneLine, Replaced
<1>4. line.file \in NameType /\ new.file \in NameType
  BY DEF LineType
<1>5. IsFile(line.file)
  BY <1>3 DEF Good
<1>6. DOMAIN disk' = (DOMAIN disk \ {line.file}) \union {new.file}
  BY <1>5, <1>13 DEF OneLine
<1>7. NoSubst' = FALSE /\ \A l : (Settled(l))' <=> Settled(l)
  <2>1. NoSubst' <=> NoSubst
    BY <1>1, CalmStays
  <2> QED
    BY <2>1 DEF Settled
<1>8. Settled(new)
  BY <1>3, <1>4 DEF Settled, Name, NameType
<1>9. ASSUME NEW i \in 1 .. Len(Book(p)), i # k
      PROVE  /\ Book(p)[i].file \in DOMAIN disk'
             /\ Book(p)[i].file = new.file => Settled(Book(p)[i])
  <2>1. Book(p)[i] \in LineType /\ IsFile(Book(p)[i].file) /\ Known(Book(p)[i])
    BY <1>3 DEF Good
  <2>2. CASE Book(p)[i].file = line.file
    <3>1. Settled(line) /\ Settled(Book(p)[i])
      BY <1>3, <1>9, <2>2 DEF Good
    <3>2. new.file = line.file
      BY <1>3, <3>1, ConstantsAssumption DEF Settled
    <3> QED
      BY <1>6, <2>2, <3>1, <3>2
  <2>3. CASE Book(p)[i].file # line.file /\ Book(p)[i].file = new.file
    <3>1. new.file.base \in Inputs
      BY <1>3, <2>3 DEF Name
    <3> QED
      BY <1>6, <2>1, <2>3, <3>1 DEF Known
  <2>4. CASE Book(p)[i].file # line.file /\ Book(p)[i].file # new.file
    BY <1>6, <2>1, <2>4 DEF IsFile
  <2> QED
    BY <2>2, <2>3, <2>4
<1>10. ASSUME NEW i \in 1 .. Len(Book(p))
       PROVE  Book(p)'[i].file \in DOMAIN disk' /\ Known(Book(p)'[i])
  <2>1. CASE i = k
    BY <1>3, <1>6, <1>7, <1>8, <2>1 DEF Known
  <2>2. CASE i # k
    <3>1. Known(Book(p)[i])
      BY DEF Good
    <3> QED
      BY <1>3, <1>7, <1>9, <2>2, <3>1 DEF Known
  <2> QED
    BY <2>1, <2>2
<1>11. ASSUME NEW i \in 1 .. Len(Book(p)), NEW j \in 1 .. Len(Book(p)), i # j,
              Book(p)'[i].file = Book(p)'[j].file
       PROVE  Settled(Book(p)'[i]) /\ Settled(Book(p)'[j])
  <2>1. CASE i = k
    BY <1>3, <1>8, <1>9, <1>11, <2>1
  <2>2. CASE j = k
    BY <1>3, <1>8, <1>9, <1>11, <2>2
  <2>3. CASE i # k /\ j # k
    BY <1>3, <1>11, <2>3 DEF Good
  <2> QED
    BY <2>1, <2>2, <2>3
<1> DEFINE b == Book(p)'
           S(l) == l.in = None \/ l.file = Name(l.file.dir, l.in, <<>>)
<1>12. /\ \A i \in 1 .. Len(b) :
             b[i].file \in DOMAIN disk' /\ (S(b[i]) \/ b[i].file.base \notin Inputs)
       /\ \A i, j \in 1 .. Len(b) : i # j /\ b[i].file = b[j].file => S(b[i]) /\ S(b[j])
  BY <1>3, <1>10, <1>11 DEF Known, Settled
<1> QED
  BY <1>7, <1>12 DEF Good, Known, Settled, IsFile

LEMMA LinesPreserved ==
  TypeOK /\ TypeOK' /\ Named /\ Order /\ Lines /\ Kept /\ [Next]_vars => Lines' /\ Kept'
<1> SUFFICES ASSUME TypeOK, TypeOK', Named, Order, Lines, Kept, [Next]_vars
             PROVE  Lines' /\ Kept'
  OBVIOUS
<1>1. /\ setting' = setting /\ calls' = calls
      /\ Calm' <=> Calm
      /\ NoSubst' <=> NoSubst
      /\ AddsTogether' <=> AddsTogether
      /\ \A o : FirstName(o)' = FirstName(o)
  BY SettingStays, CalmStays DEF calls
<1>2. CASE UNCHANGED vars
  <2>1. UNCHANGED <<setting, pc, todo, done, log, disk, added>>
    BY <1>2 DEF vars, procVars, logVars
  <2>2. \A p : Book(p)' = Book(p)
    BY <2>1 DEF Book
  <2>3. \A s : (Good(s) <=> (Good(s))') /\ \A o : In(o, s) <=> (In(o, s))'
    BY <2>1, GoodStays
  <2>4. Good(log)' <=> Good(log)
    BY <2>1, <2>3
  <2>5. \A p : (Good(Book(p)))' <=> Good(Book(p))
    BY <2>1, <2>2, <2>3 DEF Good, In, Known, Settled, IsFile, NoSubst, calls
  <2>6. \A p, o : (In(o, Book(p)))' <=> In(o, Book(p))
    BY <2>1, <2>2 DEF In, IsFile
  <2>7. \A o : (In(o, log))' <=> In(o, log)
    BY <2>1 DEF In, IsFile
  <2>8. (Renaming' <=> Renaming) /\ added' = added /\ pc' = pc
    BY <2>1 DEF Renaming
  <2> QED
    BY <1>1, <2>4, <2>5, <2>6, <2>7, <2>8 DEF Lines, Kept
<1>3. ASSUME NEW p \in Procs, Act(p), Calm
      PROVE  /\ ~AddsTogether => Renaming' \/ Good(log)'
             /\ ~AddsTogether => \A q \in Procs : pc'[q] = "rename" => Good(Book(q))'
             /\ NoSubst => Renaming' \/ \A o \in added' : In(o, log)'
             /\ NoSubst => \A q \in Procs :
                             pc'[q] = "rename" => \A o \in added' : In(o, Book(q))'
  <2> USE DEF MoveTo, Calls, procVars, logVars, destVars
  <2>1. \A q \in Procs \ {p} : pc'[q] = pc[q] /\ Book(q)' = Book(q)
    BY <1>3, OthersStay DEF Book
  <2>2. /\ ~AddsTogether => Renaming \/ Good(log)
        /\ ~AddsTogether => \A q \in Procs : pc[q] = "rename" => Good(Book(q))
        /\ NoSubst => Renaming \/ \A o \in added : In(o, log)
        /\ NoSubst => \A q \in Procs : pc[q] = "rename" => \A o \in added : In(o, Book(q))
    BY <1>3 DEF Lines, Kept
  <2>3. \A q \in Procs : RenamesAlone(q) /\ Pending(q)
    BY <1>3 DEF Order
  <2>4. InHand(p)
    BY DEF TypeOK
  <2>5. ASSUME NEW q \in Procs \ {p}, pc[q] = "rename"
        PROVE  "add" \notin calls[p] /\ calls[p] \cap Renames = {}
    BY <1>3, <2>3, <2>5, Solo DEF RenamesAlone
  <2>6. ASSUME UNCHANGED disk
        PROVE  \A s : (Good(s) <=> (Good(s))') /\ \A o : In(o, s) <=> (In(o, s))'
    BY <1>1, <2>6, GoodStays
  <2>7. ASSUME UNCHANGED disk, added' \subseteq added, NEW q \in Procs \ {p}, pc'[q] = "rename"
        PROVE  /\ ~AddsTogether => Good(Book(q))'
               /\ NoSubst => \A o \in added' : In(o, Book(q))'
    <3>1. pc[q] = "rename" /\ Book(q)' = Book(q)
      BY <2>1, <2>7
    <3>2. ASSUME ~AddsTogether PROVE Good(Book(q))'
      <4>1. Good(Book(q))
        BY <2>2, <3>1, <3>2
      <4> QED
        BY <1>1, <2>7, <3>1, <4>1 DEF Good, Known, Settled, IsFile
    <3>3. ASSUME NoSubst, NEW o \in added' PROVE In(o, Book(q))'
      <4>1. In(o, Book(q))
        BY <2>2, <2>7, <3>1, <3>3
      <4> QED
        BY <2>7, <3>1, <4>1 DEF In, IsFile
    <3> QED
      BY <3>2, <3>3
  <2>8. CASE /\ ~AddAppend(p) /\ ~RenameStart(p, "unique") /\ ~RenameStart(p, "substitute")
             /\ ~RenameOne(p) /\ ~RenameEnd(p) /\ ~Cleanup(p)
    <3>1. /\ UNCHANGED <<log, disk, added>>
          /\ (pc[p] = "rename" /\ ~Crash(p)) => FALSE
          /\ pc'[p] # "rename"
      BY <1>3, <2>8, LogStays
    <3>2. pc[p] # "rename"
      BY <1>3, <3>1 DEF Crash, Calm
    <3>3. Renaming' <=> Renaming
      BY <2>1, <3>1, <3>2 DEF Renaming
    <3>4. (Good(log)' <=> Good(log)) /\ \A o : In(o, log)' <=> In(o, log)
      BY <1>1, <3>1 DEF Good, In, Known, Settled, IsFile
    <3> QED
      BY <2>2, <2>7, <3>1, <3>3, <3>4
  <2>9. CASE AddAppend(p)
    <3>1. /\ UNCHANGED disk /\ pc[p] = "append" /\ pc'[p] = "idle"
          /\ log' = Append(log, Line(FirstName(arg[p]), input[p]))
          /\ added' = added \union {arg[p]}
      BY <2>9 DEF AddAppend, TypeOK
    <3>2. "add" \in calls[p] /\ arg[p] \in Outputs
      BY <2>4, <3>1 DEF InHand
    <3>3. ~Renaming
      BY <2>5, <3>1, <3>2 DEF Renaming
    <3>4. ~Renaming'
      BY <2>1, <3>1, <3>3 DEF Renaming
    <3> DEFINE x == Line(FirstName(arg[p]), input[p])
    <3>5. x \in LineType /\ x.file = FirstName(arg[p]) /\ log \in Seq(LineType)
      BY <3>2, FirstNameIs DEF LineType, Line, TypeOK
    <3>6. IsFile(x.file)
      BY <2>3, <3>1, <3>5 DEF Pending
    <3>7. ASSUME ~AddsTogether PROVE Good(log)'
      <4>1. Good(log) /\ ~FileIn(log, x.file)
        BY <2>2, <2>3, <3>1, <3>3, <3>5, <3>7 DEF Pending
      <4>2. Known(x)
        BY <1>3, <3>2, <3>5, FirstNameIs DEF Known, Calm, Clash, NoSubst
      <4>3. Good(log')
        BY <3>1, <3>5, <3>6, <4>1, <4>2, GoodAppend
      <4> QED
        BY <1>1, <3>1, <4>3 DEF Good, Known, Settled, IsFile
    <3>8. ASSUME NoSubst, NEW o \in added' PROVE In(o, log)'
      <4>1. /\ Len(log') = Len(log) + 1 /\ Len(log) \in Nat
            /\ log'[Len(log) + 1] = x
            /\ \A i \in 1 .. Len(log) : log'[i] = log[i]
        BY <3>1, <3>5
      <4>2. CASE o = arg[p]
        <5>1. disk[x.file] = o
          BY <3>2, <3>5, <3>6, <3>8, <4>2 DEF Order, Own
        <5> QED
          BY <3>1, <3>6, <4>1, <5>1 DEF In, IsFile
      <4>3. CASE o \in added
        <5>1. PICK i \in 1 .. Len(log) : IsFile(log[i].file) /\ disk[log[i].file] = o
          BY <2>2, <3>3, <3>8, <4>3 DEF In
        <5>2. i \in 1 .. Len(log') /\ log'[i] = log[i]
          BY <4>1
        <5> QED
          BY <3>1, <5>1, <5>2 DEF In, IsFile
      <4> QED
        BY <3>1, <4>2, <4>3
    <3> QED
      BY <3>4, <3>7, <3>8 DEF Renaming
  <2>10. CASE \E h \in Renames : RenameStart(p, h)
    <3>1. PICK h \in Renames :
            /\ h \in calls[p]
            /\ UNCHANGED <<disk, added>>
            /\ IF ~hasLog THEN UNCHANGED <<pc, todo, done, log>>
               ELSE pc'[p] = "rename" /\ todo'[p] = log /\ done'[p] = <<>>
      BY <2>10 DEF RenameStart, TypeOK
    <3>2. pc[p] = "idle"
      BY <2>10 DEF RenameStart
    <3>3. ~Renaming
      BY <2>5, <3>1, <3>2 DEF Renaming
    <3>4. CASE ~hasLog
      <4>1. /\ UNCHANGED <<pc, log, disk, added>> /\ ~Renaming'
        BY <3>1, <3>3, <3>4 DEF Renaming
      <4>2. (Good(log)' <=> Good(log)) /\ \A o : In(o, log)' <=> In(o, log)
        BY <1>1, <4>1 DEF Good, In, Known, Settled, IsFile
      <4> QED
        BY <2>2, <3>3, <4>1, <4>2 DEF Renaming
    <3>5. CASE hasLog
      <4>1. Book(p)' = log
        <5>1. log \in Seq(LineType)
          BY DEF TypeOK
        <5>2. <<>> \o log = log
          BY <5>1, ConcatEmptySeq
        <5> QED
          BY <3>1, <3>5, <5>2 DEF Book
      <4>2. ~AddsTogether => Good(Book(p))'
        <5>1. ~AddsTogether => Good(log)
          BY <2>2, <3>3
        <5> QED
          BY <1>1, <3>1, <4>1, <5>1 DEF Good, Known, Settled, IsFile
      <4>3. NoSubst => \A o \in added' : In(o, Book(p))'
        <5>1. NoSubst => \A o \in added : In(o, log)
          BY <2>2, <3>3
        <5> QED
          BY <3>1, <4>1, <5>1 DEF In, IsFile
      <4>4. Renaming'
        BY <3>1, <3>5 DEF Renaming
      <4> QED
        BY <2>7, <3>1, <4>2, <4>3, <4>4
    <3> QED
      BY <3>4, <3>5
  <2>11. CASE RenameOne(p)
    <3>1. pc[p] = "rename" /\ pc' = pc /\ added' = added /\ how[p] \in calls[p] \cap Renames
      <4>1. pc[p] = "rename" /\ pc' = pc /\ added' = added
        BY <2>11 DEF RenameOne
      <4> QED
        BY <2>4, <4>1 DEF InHand, TypeOK
    <3>2. \A q \in Procs \ {p} : pc'[q] # "rename"
      BY <2>5, <3>1
    <3>3. Renaming'
      BY <3>1 DEF Renaming
    <3>4. ~AddsTogether => Good(Book(p))'
      BY <1>3, <2>2, <2>11, <3>1, GoodUnique, GoodSubstitute
    <3>5. ASSUME NoSubst, NEW o \in added PROVE In(o, Book(p))'
      BY <2>2, <2>11, <3>1, <3>5, KeptUnique
    <3> QED
      BY <3>1, <3>2, <3>3, <3>4, <3>5
  <2>12. CASE RenameEnd(p)
    <3>1. /\ pc[p] = "rename" /\ pc'[p] = "idle" /\ todo[p] = <<>> /\ UNCHANGED <<disk, added>>
          /\ log' = IF (IF how[p] = "unique" THEN hasNew ELSE hasLog) THEN done[p] ELSE log
      BY <2>12 DEF RenameEnd, TypeOK
    <3>2. done[p] \in Seq(LineType) /\ how[p] \in calls[p] \cap Renames
      BY <2>4, <3>1 DEF InHand, TypeOK
    <3>3. \A q \in Procs : pc'[q] # "rename"
      BY <2>1, <2>5, <3>1, <3>2
    <3>4. Book(p) = done[p]
      BY <3>1, <3>2, ConcatEmptySeq DEF Book
    <3>5. CASE log' = done[p]
      <4>1. ASSUME ~AddsTogether PROVE Good(log)'
        <5>1. Good(done[p])
          BY <2>2, <3>1, <3>4, <4>1
        <5> QED
          BY <1>1, <3>1, <3>5, <5>1 DEF Good, Known, Settled, IsFile
      <4>2. ASSUME NoSubst, NEW o \in added' PROVE In(o, log)'
        <5>1. In(o, done[p])
          BY <2>2, <3>1, <3>4, <4>2
        <5> QED
          BY <3>1, <3>5, <5>1 DEF In, IsFile
      <4> QED
        BY <3>3, <4>1, <4>2
    <3>6. CASE log' # done[p]
      <4>1. log' = log /\ log = <<>> /\ (NoSubst => added = {})
        <5>1. CASE how[p] = "unique"
          BY <2>3, <3>1, <3>6, <5>1 DEF RenamesAlone
        <5>2. CASE how[p] # "unique"
          <6>1. how[p] = "substitute" /\ ~NoSubst
            BY <3>2, <5>2 DEF Renames, NoSubst
          <6>2. ~hasLog /\ log' = log
            BY <3>1, <3>6, <6>1
          <6> QED
            BY <6>1, <6>2 DEF Order
        <5> QED
          BY <5>1, <5>2
      <4>2. Len(log') = 0
        BY <4>1
      <4>3. Good(log)'
        BY <4>2 DEF Good
      <4> QED
        BY <3>1, <3>3, <4>1, <4>3
    <3> QED
      BY <3>5, <3>6
  <2>13. CASE Cleanup(p)
    <3>1. pc[p] = "idle" /\ log' = <<>> /\ added' = {} /\ UNCHANGED <<pc, disk>>
      BY <2>13 DEF Cleanup
    <3>2. Len(log') = 0
      BY <3>1
    <3>3. Good(log)'
      BY <3>2 DEF Good
    <3> QED
      BY <2>7, <3>1, <3>3
  <2> QED
    BY <2>8, <2>9, <2>10, <2>11, <2>12, <2>13 DEF Renames
<1> QED
  BY <1>1, <1>2, <1>3, OneActs DEF Lines, Kept

LEMMA UuidsAreShort == \A u \in Uuids : Len(u) <= 1
<1>1. \A k \in Nat : Len(<<k>>) = 1
  OBVIOUS
<1>2. Len(<<>>) = 0
  OBVIOUS
<1> QED
  <2> SUFFICES ASSUME NEW u \in Uuids PROVE Len(u) <= 1
    OBVIOUS
  <2>1. CASE u = <<>>
    BY <1>2, <2>1
  <2>2. CASE \E k \in Nat : u = <<k>>
    BY <1>1, <2>2
  <2> QED
    BY <2>1, <2>2 DEF Uuids

LEMMA InitLines == Init => Lines /\ Kept
<1> SUFFICES ASSUME Init PROVE Lines /\ Kept
  OBVIOUS
<1>1. log = <<>> /\ added = {} /\ \A p \in Procs : pc[p] = "idle"
  BY DEF Init
<1>2. Good(log)
  BY <1>1 DEF Good
<1> QED
  BY <1>1, <1>2 DEF Lines, Kept

(* Every line of the log is of a file that is there, when one process adds *)
(* and no other renames meanwhile: whatever it renames, cleans up or copies*)
(* and however often, and whatever the others read.                        *)
THEOREM LinesAreOfFiles == Spec => []LinesAreFiles
<1>1. TypeOK /\ Lines => LinesAreFiles
  <2> SUFFICES ASSUME TypeOK, Lines, Calm, ~AddsTogether, ~Renaming, NEW i \in DOMAIN log
               PROVE  IsFile(log[i].file) /\ Len(log[i].file.uuid) <= 1
    BY DEF LinesAreFiles, Calm
  <2>1. i \in 1 .. Len(log) /\ log[i] \in LineType
    BY DEF TypeOK
  <2>2. IsFile(log[i].file)
    BY <2>1 DEF Lines, Good
  <2>3. log[i].file.uuid \in Uuids
    BY <2>1 DEF LineType, NameType
  <2>4. Len(log[i].file.uuid) <= 1
    BY <2>3, UuidsAreShort
  <2> QED
    BY <2>2, <2>4
<1> QED
  BY InitNamed, InitOrder, InitLines, <1>1, TypeCorrect, NamedPreserved, OrderPreserved, LinesPreserved, PTL DEF Spec

(* Every output that was added is in the log under the name it has, when no*)
(* process renames while another adds.                                     *)
THEOREM NoneIsForgotten == Spec => []Remembered
<1>1. TypeOK /\ Kept => Remembered
  <2> SUFFICES ASSUME TypeOK, Kept, Calm, NoSubst, ~Renaming, NEW o \in added
               PROVE  \E i \in DOMAIN log : IsFile(log[i].file) /\ disk[log[i].file] = o
    BY DEF Remembered, Calm, Clash, NoSubst
  <2>1. In(o, log) /\ DOMAIN log = 1 .. Len(log)
    BY DEF Kept, TypeOK
  <2> QED
    BY <2>1 DEF In
<1> QED
  BY InitNamed, InitOrder, InitLines, <1>1, TypeCorrect, NamedPreserved, OrderPreserved, LinesPreserved, PTL DEF Spec

=============================================================================
