------------------------------- MODULE JobFiles -------------------------------
(***************************************************************************)
(* The files of a job: the data directory its commands share, the inputs   *)
(* fetched into it, and the log of its outputs, which addOutputFile        *)
(* appends to, renameOutput rewrites, and copyBackOutput goes through.     *)
(*                                                                         *)
(* Every command is a process of its own, and all processes of the group   *)
(* have the same data directory.                                           *)
(***************************************************************************)
EXTENDS Naturals, FiniteSets, SequencesExt

CONSTANTS
    Procs,      \* the processes of the job
    Outputs,    \* the outputs it makes, told apart by their contents
    Inputs,     \* the names of its input files
    None,       \* stands for: no output, no input
    Settings,   \* what varies from behaviour to behaviour
    MaxCalls    \* how many commands a process runs at most

(* renameOutput's "unique", and its substitutions, which perl carries out. *)
CallKinds == {"fetch", "add", "unique", "substitute", "copy", "cleanup"}

(* A process dies; mkdir fails, with or without having made the directory. *)
FaultKinds == {"crash", "mkdir"}

(* Where the outputs are made, what each process calls and how often,      *)
(* whether the copy goes to hashed directories, and the faults there are.  *)
SettingType ==
    [place : [Outputs -> [dir : STRING, base : STRING]],
     calls : [Procs -> SUBSET CallKinds], most : [Procs -> 0 .. MaxCalls],
     hash : BOOLEAN, faults : SUBSET FaultKinds]

ASSUME ConstantsAssumption ==
    /\ Inputs \subseteq STRING /\ None \notin Outputs \union Inputs
    /\ MaxCalls \in Nat
    /\ Settings \subseteq SettingType
    /\ \A s \in Settings : \A a, b \in Outputs : s.place[a] = s.place[b] => a = b

VARIABLES
    setting,
    pc,         \* what each process does
    left,       \* how many commands it has left to run
    input,      \* its _lastinput
    arg,        \* the output it is adding
    how,        \* how it is renaming
    todo,       \* the lines of the log it has read and not yet dealt with
    done,       \* the lines it has written, or the copies it has to make
    rres,       \* the result of its cp
    mk,         \* where it is in mkdir_p
    fetched,    \* the data directory: the inputs in it
    hasLog,     \* whether output_files is there
    log,        \* the lines of output_files
    hasNew,     \* whether output_files.new is there
    disk,       \* the outputs under their names
    dirs,       \* the directories at the destination
    dest,       \* the copies at the destination
    uuids,      \* how many unique strings have been made
    added       \* the outputs added since the last cleanup

place == setting.place
calls == setting.calls
faults == setting.faults

procVars == <<input, arg, how, todo, done, rres, mk>>
logVars == <<hasLog, log, hasNew>>
destVars == <<dirs, dest>>
vars == <<setting, pc, left, procVars, fetched, logVars, disk, destVars, uuids, added>>

(* A name: its directory, its base and the unique strings in it.           *)
Name(d, b, u) == [dir |-> d, base |-> b, uuid |-> u]

FirstName(o) == Name(place[o].dir, place[o].base, <<>>)

Line(file, in) == [file |-> file, in |-> in]

IsFile(n) == n \in DOMAIN disk

Without(f, x) == [y \in DOMAIN f \ {x} |-> f[y]]

With(f, x, v) == [y \in DOMAIN f \union {x} |-> IF y = x THEN v ELSE f[y]]

NotMaking == [path |-> <<>>, level |-> 0, second |-> FALSE, try |-> 1, exists |-> FALSE]

Init ==
    /\ setting \in Settings
    /\ pc = [p \in Procs |-> "idle"]
    /\ left = setting.most
    /\ input = [p \in Procs |-> None]
    /\ arg = [p \in Procs |-> None]
    /\ how = [p \in Procs |-> "unique"]
    /\ todo = [p \in Procs |-> <<>>]
    /\ done = [p \in Procs |-> <<>>]
    /\ rres = [p \in Procs |-> 0]
    /\ mk = [p \in Procs |-> NotMaking]
    /\ fetched = {}
    /\ hasLog = FALSE /\ log = <<>> /\ hasNew = FALSE
    /\ disk = [n \in {FirstName(o) : o \in Outputs} |->
                   CHOOSE o \in Outputs : FirstName(o) = n]
    /\ dirs = IF setting.hash THEN {} ELSE {<<>>}
    /\ dest = <<>>
    /\ uuids = 0
    /\ added = {}

MoveTo(p, l) == pc' = [pc EXCEPT ![p] = l]

Calls(p, kind) ==
    /\ pc[p] = "idle"
    /\ kind \in calls[p]
    /\ left[p] > 0
    /\ left' = [left EXCEPT ![p] = @ - 1]

-----------------------------------------------------------------------------
(* fetchInput: a copy to localPath; without one there is an exception.  An *)
(* xrootd url that is passed through changes nothing, _lastinput neither.  *)
FetchInput(p) ==
    /\ Calls(p, "fetch")
    /\ \E i \in Inputs :
         /\ fetched' = fetched \union {i}
         /\ input' = [input EXCEPT ![p] = i]
    /\ UNCHANGED <<setting, pc, arg, how, todo, done, rres, mk, logVars, disk, destVars,
                   uuids, added>>

-----------------------------------------------------------------------------
(* addOutputFile *)

Logged(n) == \E i \in DOMAIN log : log[i].file = n

(* Mutant: it is not looked for in the log.                                *)
AddUnseen(p) ==
    /\ Calls(p, "add")
    /\ \E o \in Outputs :
         IF IsFile(FirstName(o))
         THEN MoveTo(p, "append") /\ arg' = [arg EXCEPT ![p] = o]
         ELSE UNCHANGED <<pc, arg>>
    /\ UNCHANGED <<setting, input, how, todo, done, rres, mk, fetched, logVars, disk,
                   destVars, uuids, added>>

(* An exception when it is not there or in the log already.                *)
AddCheck(p) ==
    /\ Calls(p, "add")
    /\ \E o \in Outputs :
         IF IsFile(FirstName(o)) /\ ~Logged(FirstName(o))
         THEN MoveTo(p, "append") /\ arg' = [arg EXCEPT ![p] = o]
         ELSE UNCHANGED <<pc, arg>>
    /\ UNCHANGED <<setting, input, how, todo, done, rres, mk, fetched, logVars, disk,
                   destVars, uuids, added>>

AddAppend(p) ==
    /\ pc[p] = "append"
    /\ MoveTo(p, "idle")
    /\ hasLog' = TRUE
    /\ log' = Append(log, Line(FirstName(arg[p]), input[p]))
    /\ added' = added \union {arg[p]}
    /\ UNCHANGED <<setting, left, procVars, fetched, hasNew, disk, destVars, uuids>>

-----------------------------------------------------------------------------
(* renameOutput *)

(* A uuid in the name is trimmed out before the new one is added.          *)
Unique(n) ==
    [n EXCEPT !.uuid = (IF @ = <<>> THEN <<>> ELSE Tail(@)) \o <<uuids + 1>>]

(* A line without an input is left as it is.                               *)
Substitute(line) ==
    IF line.in = None THEN line.file ELSE Name(line.file.dir, line.in, <<>>)

NewName(p, line) ==
    IF how[p] = "unique" THEN Unique(line.file) ELSE Substitute(line)

(* "unique" opens output_files.new, finds no log and returns, or reads it; *)
(* perl -pi puts an empty log in its place.                                *)
RenameStart(p, h) ==
    /\ Calls(p, h)
    /\ how' = [how EXCEPT ![p] = h]
    /\ hasNew' = (h = "unique" \/ hasNew)
    /\ IF ~hasLog
       THEN UNCHANGED <<pc, todo, done, log>>
       ELSE /\ MoveTo(p, "rename")
            /\ todo' = [todo EXCEPT ![p] = log]
            /\ done' = [done EXCEPT ![p] = <<>>]
            /\ log' = IF h = "unique" THEN log ELSE <<>>
    /\ UNCHANGED <<setting, input, arg, rres, mk, fetched, hasLog, disk, destVars, uuids,
                   added>>

(* Mutant: the name before goes into the new log.                          *)
RenameUnlogged(p) ==
    /\ pc[p] = "rename" /\ todo[p] # <<>>
    /\ LET line == Head(todo[p])
           new == NewName(p, line)
       IN  /\ disk' = IF IsFile(line.file)
                      THEN With(Without(disk, line.file), new, disk[line.file])
                      ELSE disk
           /\ done' = [done EXCEPT ![p] = Append(@, line)]
    /\ uuids' = uuids + 1
    /\ todo' = [todo EXCEPT ![p] = Tail(@)]
    /\ UNCHANGED <<setting, pc, left, input, arg, how, rres, mk, fetched, logVars,
                   destVars, added>>

(* One line; nobody looks whether the rename worked.                       *)
RenameOne(p) ==
    /\ pc[p] = "rename" /\ todo[p] # <<>>
    /\ LET line == Head(todo[p])
           new == NewName(p, line)
       IN  /\ disk' = IF IsFile(line.file)
                      THEN With(Without(disk, line.file), new, disk[line.file])
                      ELSE disk
           /\ done' = [done EXCEPT ![p] =
                           Append(@, Line(new, IF how[p] = "unique" \/ line.in = None
                                               THEN line.in ELSE new.base))]
    /\ uuids' = uuids + 1
    /\ todo' = [todo EXCEPT ![p] = Tail(@)]
    /\ UNCHANGED <<setting, pc, left, input, arg, how, rres, mk, fetched, logVars,
                   destVars, added>>

(* output_files.new takes the log's place, unless a cleanup has removed it;*)
(* what perl writes goes over what was appended to its new log.            *)
RenameEnd(p) ==
    /\ pc[p] = "rename" /\ todo[p] = <<>>
    /\ MoveTo(p, "idle")
    /\ done' = [done EXCEPT ![p] = <<>>]
    /\ LET there == IF how[p] = "unique" THEN hasNew ELSE hasLog
       IN  /\ log' = IF there THEN done[p] ELSE log
           /\ hasLog' = (hasLog \/ there)
           /\ hasNew' = (hasNew /\ how[p] # "unique")
    /\ UNCHANGED <<setting, left, input, arg, how, todo, rres, mk, fetched, disk,
                   destVars, uuids, added>>

-----------------------------------------------------------------------------
(* copyBackOutput *)

(* get_hashdir, two levels deep: files that differ in their last part may  *)
(* have any of their directories in common.                                *)
HashDir(n) ==
    IF setting.hash THEN <<"h", IF n.uuid = <<>> THEN n.base ELSE "u">> ELSE <<>>

DestName(n) == [dir |-> HashDir(n), base |-> n.base, uuid |-> n.uuid]

(* 0 when there is no log.  Every copy is to be of what is there now.      *)
CopyStart(p) ==
    /\ Calls(p, "copy")
    /\ IF hasLog
       THEN /\ MoveTo(p, "args")
            /\ todo' = [todo EXCEPT ![p] = log]
       ELSE UNCHANGED <<pc, todo>>
    /\ done' = [done EXCEPT ![p] = <<>>]
    /\ rres' = [rres EXCEPT ![p] = 0]
    /\ UNCHANGED <<setting, input, arg, how, mk, fetched, logVars, disk, destVars, uuids,
                   added>>

(* A line's arguments for cp, and before that its directory.               *)
CopyArgs(p) ==
    /\ pc[p] = "args" /\ todo[p] # <<>>
    /\ LET n == Head(todo[p]).file
       IN  /\ done' = [done EXCEPT ![p] = Append(@,
                           [from |-> n, out |-> IF IsFile(n) THEN disk[n] ELSE None])]
           /\ mk' = [mk EXCEPT ![p] = [NotMaking EXCEPT !.path = HashDir(n),
                                                        !.level = Len(HashDir(n))]]
    /\ todo' = [todo EXCEPT ![p] = Tail(@)]
    /\ IF setting.hash THEN MoveTo(p, "mkdir") ELSE UNCHANGED pc
    /\ UNCHANGED <<setting, left, input, arg, how, rres, fetched, logVars, disk, destVars,
                   uuids, added>>

StartCp(p) ==
    /\ pc[p] = "args" /\ todo[p] = <<>>
    /\ MoveTo(p, "cp")
    /\ UNCHANGED <<setting, left, procVars, fetched, logVars, disk, destVars, uuids,
                   added>>

(* Mutant: the result of the last copy is cp's.                            *)
CopyLastResult(p) ==
    LET i == Len(todo[p]) + 1
    IN  /\ pc[p] = "cp" /\ i <= Len(done[p])
        /\ LET from == done[p][i].from
               ok == IsFile(from) /\ HashDir(from) \in dirs
           IN  /\ dest' = IF ok THEN With(dest, DestName(from), disk[from]) ELSE dest
               /\ rres' = [rres EXCEPT ![p] = IF ok THEN 0 ELSE 1]
        /\ todo' = [todo EXCEPT ![p] = Append(@, Line(done[p][i].from, None))]
        /\ UNCHANGED <<setting, pc, left, input, arg, how, done, mk, fetched, logVars, disk,
                       dirs, uuids, added>>

(* One copy: dd's, or one that is forced, overwrites what is there.  One   *)
(* that fails is remembered.                                               *)
CopyOne(p) ==
    LET i == Len(todo[p]) + 1
    IN  /\ pc[p] = "cp" /\ i <= Len(done[p])
        /\ LET from == done[p][i].from
           IN  IF IsFile(from) /\ HashDir(from) \in dirs
               THEN /\ dest' = With(dest, DestName(from), disk[from])
                    /\ UNCHANGED rres
               ELSE /\ rres' = [rres EXCEPT ![p] = 1]
                    /\ UNCHANGED dest
        /\ todo' = [todo EXCEPT ![p] = Append(@, Line(done[p][i].from, None))]
        /\ UNCHANGED <<setting, pc, left, input, arg, how, done, mk, fetched, logVars, disk,
                       dirs, uuids, added>>

CopyEnd(p) ==
    /\ pc[p] = "cp" /\ Len(todo[p]) = Len(done[p])
    /\ MoveTo(p, "copied")
    /\ UNCHANGED <<setting, left, procVars, fetched, logVars, disk, destVars, uuids,
                   added>>

Return(p) ==
    /\ pc[p] = "copied"
    /\ MoveTo(p, "idle")
    /\ todo' = [todo EXCEPT ![p] = <<>>]
    /\ done' = [done EXCEPT ![p] = <<>>]
    /\ UNCHANGED <<setting, left, input, arg, how, rres, mk, fetched, logVars, disk,
                   destVars, uuids, added>>

-----------------------------------------------------------------------------
(* mkdir_p, from the directory itself up to the first one that is there or *)
(* can be made, and down again.                                            *)

Target(p) == SubSeq(mk[p].path, 1, mk[p].level)

(* The parent of the destination directory is there.                       *)
HasParent(d) == d = <<>> \/ Front(d) \in dirs

(* Mutant: on the way down only the directory that was asked for is made.  *)
MakeOnlyTop(p, m, exists) ==
    IF mk[p].second \/ m = 0 \/ exists
    THEN IF mk[p].level = Len(mk[p].path)
         THEN MoveTo(p, "args") /\ mk' = [mk EXCEPT ![p] = NotMaking]
         ELSE /\ mk' = [mk EXCEPT ![p] = [NotMaking EXCEPT !.path = mk[p].path,
                            !.level = Len(mk[p].path), !.second = TRUE]]
              /\ UNCHANGED pc
    ELSE /\ mk' = [mk EXCEPT ![p] = [NotMaking EXCEPT !.path = mk[p].path,
                       !.level = IF mk[p].level = 0 THEN 0 ELSE mk[p].level - 1,
                       !.second = (mk[p].level = 0)]]
         /\ UNCHANGED pc

(* What mkdir_p does with the result of a mkdir.  The first one of a level *)
(* succeeds too if it says "File exists", and otherwise the parent is made *)
(* before the second; what the second returns, nobody above looks at.      *)
MakeNext(p, m, exists) ==
    IF mk[p].second \/ m = 0 \/ exists
    THEN IF mk[p].level = Len(mk[p].path)
         THEN MoveTo(p, "args") /\ mk' = [mk EXCEPT ![p] = NotMaking]
         ELSE /\ mk' = [mk EXCEPT ![p] = [NotMaking EXCEPT !.path = mk[p].path,
                            !.level = mk[p].level + 1, !.second = TRUE]]
              /\ UNCHANGED pc
    ELSE /\ mk' = [mk EXCEPT ![p] = [NotMaking EXCEPT !.path = mk[p].path,
                       !.level = IF mk[p].level = 0 THEN 0 ELSE mk[p].level - 1,
                       !.second = (mk[p].level = 0)]]
         /\ UNCHANGED pc

(* One of the two tries of retry_system in mkdir; the text of the first    *)
(* stays in _errortxt.                                                     *)
TryMkdir(p) ==
    /\ pc[p] = "mkdir"
    /\ \E m \in {0, 1}, made \in BOOLEAN :
         LET ok == Target(p) \notin dirs /\ HasParent(Target(p))
             exists == mk[p].exists \/ Target(p) \in dirs
         IN  /\ made => ok
             /\ m = 0 => made
             /\ (m = 0) # ok => "mkdir" \in faults
             /\ dirs' = IF made THEN dirs \union {Target(p)} ELSE dirs
             /\ IF m = 1 /\ mk[p].try = 1
                THEN /\ mk' = [mk EXCEPT ![p].try = 2, ![p].exists = exists]
                     /\ UNCHANGED pc
                ELSE MakeNext(p, m, exists)
    /\ UNCHANGED <<setting, left, input, arg, how, todo, done, rres, fetched, logVars, disk,
                   dest, uuids, added>>

-----------------------------------------------------------------------------
(* cleanup; endProcess does the same before its request.                   *)
Cleanup(p) ==
    /\ Calls(p, "cleanup")
    /\ fetched' = {}
    /\ hasLog' = FALSE /\ log' = <<>> /\ hasNew' = FALSE
    /\ added' = {}
    /\ UNCHANGED <<setting, pc, procVars, disk, destVars, uuids>>

Crash(p) ==
    /\ "crash" \in faults
    /\ pc[p] # "dead"
    /\ MoveTo(p, "dead")
    /\ UNCHANGED <<setting, left, procVars, fetched, logVars, disk, destVars, uuids,
                   added>>

Step(p) ==
    \/ AddAppend(p) \/ RenameOne(p) \/ RenameEnd(p)
    \/ CopyArgs(p) \/ StartCp(p) \/ CopyOne(p) \/ CopyEnd(p) \/ Return(p)
    \/ TryMkdir(p)

Next == \E p \in Procs :
    \/ FetchInput(p) \/ AddCheck(p)
    \/ \E h \in {"unique", "substitute"} : RenameStart(p, h)
    \/ CopyStart(p) \/ Cleanup(p) \/ Step(p) \/ Crash(p)

Spec == Init /\ [][Next]_vars

-----------------------------------------------------------------------------
(* Properties *)

Renames == {"unique", "substitute"}

Renaming == \E p \in Procs : pc[p] = "rename"

RenamesWhileAdding ==
    \E p, q \in Procs : p # q /\ calls[p] \cap Renames # {} /\ "add" \in calls[q]

(* A substitution gives an output a name that it, or another, has already,  *)
(* or that a unique string is added to.                                     *)
Clash ==
    /\ \E p \in Procs : "substitute" \in calls[p]
    /\ \/ \E p \in Procs : "unique" \in calls[p]
       \/ \E o \in Outputs : place[o].base \in Inputs

AddsTogether == \E p, q \in Procs : p # q /\ "add" \in calls[p] \cap calls[q]

(* An output that was added stays in the log under the name it has, until  *)
(* a cleanup: so that copyBackOutput will find it, however many commands   *)
(* there are before it and whatever runs beside it.  Not so when one       *)
(* process adds while another renames, when one dies renaming, and when a  *)
(* substitution gives two outputs one name.                                *)
Remembered ==
    faults = {} /\ ~RenamesWhileAdding /\ (\A p \in Procs : "substitute" \notin calls[p]) =>
        Renaming \/ \A o \in added : \E i \in DOMAIN log :
                        IsFile(log[i].file) /\ disk[log[i].file] = o

(* Every line of the log is of a file that is there, with one process that *)
(* adds: a line too many makes copyBackOutput fail for good.  However often*)
(* a file is renamed, its name has one unique string at most.              *)
LinesAreFiles ==
    faults = {} /\ ~RenamesWhileAdding /\ ~AddsTogether /\ ~Clash =>
        Renaming \/ \A i \in DOMAIN log :
                        IsFile(log[i].file) /\ Len(log[i].file.uuid) <= 1

(* When copyBackOutput returns 0, all that was in the log when it was      *)
(* called is at the destination, each under its name; after a renameOutput *)
(* ("give output files ... a unique name") even if two outputs had the     *)
(* same last component.                                                    *)
CopiedBack ==
    \A p \in Procs : pc[p] = "copied" /\ rres[p] = 0 =>
        \A i \in DOMAIN done[p] :
            LET n == done[p][i].from
            IN  \/ n.uuid = <<>>
                   /\ \/ \E q \in Procs : "substitute" \in calls[q]
                      \/ \E a, b \in Outputs : a # b /\ place[a].base = place[b].base
                \/ DestName(n) \in DOMAIN dest /\ dest[DestName(n)] = done[p][i].out

(* Before the copies start their directories are there, although mkdir_p   *)
(* takes a "File exists" at its second try for a failure and others make   *)
(* directories at the same time.                                           *)
DirsMade ==
    "mkdir" \notin faults =>
        \A p \in Procs : pc[p] = "cp" =>
            \A i \in DOMAIN done[p] : HashDir(done[p][i].from) \in dirs

=============================================================================
