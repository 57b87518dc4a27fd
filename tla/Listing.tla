------------------------------- MODULE Listing --------------------------------
(***************************************************************************)
(* lss and what is built on it, findMatchingFiles; and how the directory   *)
(* operations read the exit status of their commands.                      *)
(*                                                                         *)
(* A tree has a set of directories and a set of files, each a sequence of  *)
(* parts.  An entry of a listing is such a path, and a directory's has a   *)
(* last part "": "/a/d/" is <<"", "a", "d", "">>.                          *)
(***************************************************************************)
EXTENDS Integers, SequencesExt

(* The path without the slash at its end, and with one.                    *)
Bare(e) == IF Last(e) = "" THEN Front(e) ELSE e
Slashed(e) == Append(Bare(e), "")

IsDirEntry(e) == Last(e) = ""

Children(tree, d) == {p \in tree.dirs \union tree.files : Len(p) > 1 /\ Front(p) = d}

(* A name as the command prints it, and whether it is a directory's.       *)
Printed(tree, p) == [name |-> Last(p), dir |-> p \in tree.dirs]

(* What lss reads out of the lines of its command: the names in a          *)
(* directory, or that of a file.                                           *)
LssLines(tree, loc) ==
    IF Bare(loc) \in tree.files THEN {Printed(tree, Bare(loc))}
    ELSE {Printed(tree, p) : p \in Children(tree, Bare(loc))}

(* More than one line, a directory's, or one of another name: what was     *)
(* asked for is a directory.  Some commands list it too.                   *)
IsDirListing(tree, loc, listsDir) ==
    LET lines == LssLines(tree, loc)
        own == IF listsDir /\ Bare(loc) \in tree.dirs THEN 1 ELSE 0
    IN  \/ Cardinality(lines) + own > 1 \/ own = 1
        \/ \E l \in lines : l.dir \/ l.name # Last(Bare(loc))

Entry(prefix, l) == Append(prefix, l.name) \o (IF l.dir THEN <<"">> ELSE <<>>)

(* One listing, with its names completed; that of nothing is of the        *)
(* directory itself if the command succeeds.                               *)
OneListing(tree, loc, listsDir) ==
    LET lines == LssLines(tree, loc)
    IN  IF IsDirListing(tree, loc, listsDir)
        THEN {Slashed(loc)} \union {Entry(Bare(loc), l) : l \in lines}
        ELSE IF lines = {} /\ Bare(loc) \in tree.dirs \ tree.failing
        THEN {Slashed(loc)}
        ELSE {Entry(Front(Bare(loc)), l) : l \in lines}

(* Mutant: the last level is not gone into.                                *)
RelistShallow(tree, loc, depth, listsDir, deeper) ==
    LET one == OneListing(tree, loc, listsDir)
        inner == {e \in one : IsDirEntry(e) /\ e # Slashed(loc)}
    IN  IF Bare(loc) \in tree.failing THEN one
        ELSE IF depth = 0 /\ Slashed(loc) \in one THEN {Slashed(loc)}
        ELSE IF depth <= 2 THEN one
        ELSE (one \ inner) \union UNION {deeper[e] : e \in inner}

(* A listing, given those of the directories in it.  The directory that    *)
(* was asked for, first in the sorted list, is not gone into again, and    *)
(* depth 0 leaves only it.  A command that fails ends this: what it        *)
(* printed is the answer.                                                  *)
Relist(tree, loc, depth, listsDir, deeper) ==
    LET one == OneListing(tree, loc, listsDir)
        inner == {e \in one : IsDirEntry(e) /\ e # Slashed(loc)}
    IN  IF Bare(loc) \in tree.failing THEN one
        ELSE IF depth = 0 /\ Slashed(loc) \in one THEN {Slashed(loc)}
        ELSE IF depth <= 1 THEN one
        ELSE (one \ inner) \union UNION {deeper[e] : e \in inner}

(* What can be listed when this is: it, and what the tree has.             *)
Listable(tree, loc) ==
    {loc} \union tree.dirs \union tree.files \union {Slashed(d) : d \in tree.dirs}

Lss(tree, loc, depth, listsDir) ==
    LET listed[d \in 0 .. depth] ==
            [l \in Listable(tree, loc) |-> Relist(tree, l, d, listsDir, listed[d - 1])]
    IN  listed[depth][loc]

-----------------------------------------------------------------------------
(* findMatchingFiles *)

(* The pieces of a path list between colons: a protocol's name, one that   *)
(* begins with a port, or another.  The urls among them are put together   *)
(* again.                                                                  *)
IsProto(pieces, i) == i \in DOMAIN pieces /\ pieces[i].kind = "proto"

Joined(pieces) ==
    LET Add(st, i) ==
            LET with == st.prefix \o pieces[i].text
            IN  IF IsProto(pieces, i - 1) /\ i < Len(pieces) /\ pieces[i + 1].kind = "port"
                THEN [st EXCEPT !.prefix = with]
                ELSE IF IsProto(pieces, i) THEN [st EXCEPT !.prefix = pieces[i].text]
                ELSE [prefix |-> <<>>, dirs |-> Append(st.dirs, with)]
    IN  FoldLeft(Add, [prefix |-> <<>>, dirs |-> <<>>], [i \in DOMAIN pieces |-> i]).dirs

(* A part of a glob: the names it matches, whether it has a wildcard and   *)
(* whether that is a star at its end, which matches slashes too.           *)
Constants(parts) == SelectSeq(parts, LAMBDA p : ~p.wild)

(* The number of the last part with a wildcard, or 1.                      *)
GlobSlice(parts) ==
    LET wild == {i \in DOMAIN parts : parts[i].wild}
    IN  IF wild = {} THEN 1 ELSE CHOOSE i \in wild : \A j \in wild : j <= i

(* The parts without wildcards go to the directories, wherever they are.   *)
SearchDir(dir, parts) ==
    dir \o [i \in DOMAIN Constants(parts) |-> CHOOSE n \in Constants(parts)[i].names : TRUE]

(* glob_2_re: anywhere in the path, the remaining parts after a slash, and *)
(* then its end.                                                           *)
MatchesGlob(entry, parts, slice) ==
    LET rest == SubSeq(parts, slice, Len(parts))
    IN  \E at \in 2 .. Len(entry) :
            /\ at + Len(rest) - 1 <= Len(entry)
            /\ \A i \in DOMAIN rest : entry[at + i - 1] \in rest[i].names
            /\ at + Len(rest) - 1 = Len(entry) \/ Last(rest).open

(* The second loop over the directories goes to the number of pieces,      *)
(* which is past their end when there was a url.                           *)
Overruns(pieces, parts) == Constants(parts) # <<>> /\ Len(Joined(pieces)) < Len(pieces)

FindMatchingFiles(tree, pieces, parts, depth, listsDir) ==
    UNION {{e \in Lss(tree, SearchDir(Joined(pieces)[i], parts), depth, listsDir) :
                MatchesGlob(e, parts, GlobSlice(parts))} : i \in DOMAIN Joined(pieces)}

-----------------------------------------------------------------------------
(* Exit statuses.  retry_system returns the command's own, 0 .. 255, or -1 *)
(* when a signal ended it, and its callers take that for a wait status.    *)

Killed == -1
Throws == -2

Low(s) == s % 128

IfSignaled(s) == s # Killed /\ Low(s) \in 1 .. 126

IfExited(s) == s # Killed /\ Low(s) = 0

ExitStatus(s) == IF s = Killed THEN 255 ELSE s \div 256

Failing(s) == IfExited(s) /\ ExitStatus(s) # 0

(* An operation returns 1 when its protocol has no command for it.         *)
Outcome(known, raises, result) ==
    IF ~known THEN 1 ELSE IF raises THEN Throws ELSE result

Rm(known, s) == Outcome(known, IfSignaled(s) \/ Failing(s), 0)

Rmdir(known, s) == Outcome(known, IfSignaled(s) \/ Failing(s), 0)

Chmod(known, s) == Outcome(known, IfSignaled(s) \/ Failing(s), ExitStatus(s))

(* mkdir does nothing where directories come by themselves; a signal is no *)
(* exception there.                                                        *)
Mkdir(known, auto, s) ==
    IF auto THEN 0
    ELSE Outcome(known, FALSE, IF IfSignaled(s) THEN -1 ELSE ExitStatus(s))

(* Mutant: whether a signal ended the command is not looked at.            *)
RenameExit(known, same, s) ==
    IF ~same THEN Throws ELSE Outcome(known, FALSE, ExitStatus(s))

(* Both names must have the same protocol.                                 *)
Rename(known, same, s) ==
    IF ~same THEN Throws ELSE Outcome(known, IfSignaled(s), ExitStatus(s))

Ll(known, s) == Outcome(known, IfSignaled(s), ExitStatus(s))

(* What one of them answers.  "auto" is mkdir's, "same" rename's.          *)
Operation(op, o) ==
    CASE op = "rm" -> Rm(o.known, o.status)
      [] op = "rmdir" -> Rmdir(o.known, o.status)
      [] op = "chmod" -> Chmod(o.known, o.status)
      [] op = "mkdir" -> Mkdir(o.known, o.auto, o.status)
      [] op = "rename" -> Rename(o.known, o.same, o.status)
      [] op = "ll" -> Ll(o.known, o.status)

=============================================================================
