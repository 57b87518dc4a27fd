------------------------------- MODULE Lookups --------------------------------
(***************************************************************************)
(* Questions to the parts of the library that compute: a configuration is  *)
(* loaded, and then what Config, Paths and Listing answer is compared with *)
(* what they should.                                                       *)
(***************************************************************************)
EXTENDS Paths, Listing

CONSTANTS
    Files,      \* configuration files, sequences of lines
    Options,    \* the sections and options that are asked for
    Spellings,  \* the ways to write one path, sets of paths
    Ends,       \* pairs of paths to copy between
    Forces,     \* values of --force and of IFDH_FORCE
    Commands,   \* arguments of cp and mv
    Vias,       \* values of IFDH_STAGE_VIA, with the host
    Trees,      \* file systems
    Searches,   \* paths and globs
    Users,      \* environments and groups of a process
    MaxDepth    \* how deep a listing goes

ASSUME FilesAssumption == Files \subseteq Seq(Line)

ASSUME ViasAssumption ==
    \A v \in Vias :
        /\ v.alts \in Seq([star : BOOLEAN, labels : Seq(STRING), via : STRING])
        /\ v.ended \in BOOLEAN /\ v.host \in Seq(STRING)

ASSUME DepthAssumption == MaxDepth \in Nat

(* Everything below a directory.                                           *)
Below(tree, d) == {p \in tree.dirs \union tree.files : Len(p) > Len(d) /\ SubSeq(p, 1, Len(d)) = d}

(* A file system: nothing is below a file, and below a directory there are *)
(* all the directories on the way.                                         *)
IsTree(t) ==
    /\ t.dirs \union t.files \subseteq Seq(Word) /\ t.dirs \intersect t.files = {}
    /\ \A p \in t.dirs \union t.files : p # <<>> /\ Last(p) # ""
    /\ \A f \in t.files : Below(t, f) = {}
    /\ \A d \in t.dirs : \A p \in Below(t, d) : \A n \in Len(d) .. Len(p) - 1 :
           SubSeq(p, 1, n) \in t.dirs

ASSUME TreesAssumption == \A t \in Trees : IsTree(t)

(* What a search says of itself: its directories, those of its list that   *)
(* are there, and that the parts without wildcards, names, come first.     *)
IsSearch(s) ==
    LET fixed == Len(Constants(s.parts))
    IN  /\ s.dirs \subseteq Range(Joined(s.pieces)) /\ s.dirs \subseteq Seq(Word) \ {<<>>}
        /\ s.parts \in Seq([wild : BOOLEAN, names : SUBSET Word, open : BOOLEAN]) \ {<<>>}
        /\ s.leading =>
               /\ fixed \in 0 .. Len(s.parts) /\ Len(s.parts) - fixed <= MaxDepth
               /\ \A i \in DOMAIN s.parts : s.parts[i].wild <=> i > fixed
               /\ DOMAIN Constants(s.parts) = 1 .. fixed
               /\ \A i \in 1 .. fixed :
                      /\ Constants(s.parts)[i] = s.parts[i]
                      /\ \E n \in s.parts[i].names : s.parts[i].names = {n}

ASSUME SearchesAssumption ==
    \A s \in Searches :
        IsSearch(s) /\ \A t \in Trees, d \in s.dirs : d \in t.dirs \/ Below(t, d) = {}

(* The pairs that arguments name: every file that another one follows      *)
(* before the next separator, with the last one before it.                 *)
SourcesIn(args) ==
    {i \in DOMAIN args : i < Len(args) /\ args[i].kind = "path" /\ args[i + 1] # Sep}

DestAfter(args, i) ==
    Min({j \in DOMAIN args : j > i /\ (j = Len(args) \/ args[j + 1] = Sep)})

Said(args) ==
    FlattenSeq([i \in DOMAIN args |->
        IF i \in SourcesIn(args)
        THEN <<<<args[i].path, args[DestAfter(args, i)].path>>>> ELSE <<>>])

(* The pairs that the lines of a list name.                                *)
Named(list) ==
    FlattenSeq([n \in DOMAIN list |->
        IF Len(list[n]) = 2 THEN <<<<list[n][1], list[n][2]>>>> ELSE <<>>])

(* What a command says of itself: whether the destinations are directories *)
(* (-D), whether there is a list (-f), and which pairs they all name.      *)
IsCommand(c) ==
    \E n \in 0 .. Len(c.args) :
        LET rest == SubSeq(c.args, n + 1 + (IF c.list THEN 2 ELSE 0), Len(c.args))
            list == ListFiles[c.args[n + 2].path]
        IN  /\ c.args \in Seq(Arg)
            /\ \A i \in 1 .. n : c.args[i].kind = "opt" /\ c.args[i] # Opt("-f")
            /\ c.isdir <=> Opt("-D") \in {c.args[i] : i \in 1 .. n}
            /\ \A i \in DOMAIN rest : rest[i].kind # "opt"
            /\ c.list => /\ n + 2 \in DOMAIN c.args
                         /\ c.args[n + 1] = Opt("-f") /\ c.args[n + 2].path \in DOMAIN ListFiles
                         /\ c.whole => list.complete
            /\ c.pairs = (IF c.list THEN Named(list.lines) ELSE <<>>) \o Said(rest)

ASSUME CommandsAssumption == \A c \in Commands : IsCommand(c)

VARIABLES
    lines,      \* the file that is loaded
    next,       \* the number of its next line
    cfg,        \* the parser's state
    asked,      \* the question
    answer

vars == <<lines, next, cfg, asked, answer>>

NoQuestion == [kind |-> "none"]

Init ==
    /\ lines \in Files
    /\ next = 1
    /\ cfg = Start
    /\ asked = NoQuestion
    /\ answer = <<>>

ReadNext ==
    /\ next <= Len(lines)
    /\ cfg' = ReadLine(cfg, lines[next])
    /\ next' = next + 1
    /\ UNCHANGED <<lines, asked, answer>>

EndOfFile ==
    /\ next = Len(lines) + 1
    /\ cfg' = Configured(cfg)
    /\ next' = next + 1
    /\ UNCHANGED <<lines, asked, answer>>

(* One question is asked, once the configuration is there.                 *)
Ready == next = Len(lines) + 2 /\ asked = NoQuestion /\ cfg.ok

(* All but the first need the stanza that has the prefixes.                *)
HasPrefixes == Ready /\ HasSection(cfg.data, General)

Ask(question, reply) ==
    /\ asked' = question
    /\ answer' = reply
    /\ UNCHANGED <<lines, next, cfg>>

AskOption == Ready /\ \E o \in Options :
    Ask([kind |-> "get", section |-> o[1], option |-> o[2]], Get(cfg.data, o[1], o[2]))

(* The url for a protocol of the location, and the one for that url.       *)
AskUrl == HasPrefixes /\ \E s \in Spellings, f \in Forces : \E p, q \in s :
    /\ LookupLoc(cfg.data, p).location # ""
    /\ LET first == PickProtoPath(cfg.data, p, f)
       IN  Ask([kind |-> "url", path |-> p, other |-> q, force |-> f],
               [one |-> first, other |-> PickProtoPath(cfg.data, q, f),
                again |-> PickProtoPath(cfg.data, first.url, "")])

AskProto == HasPrefixes /\ \E e \in Ends, f \in Forces :
    LET src == LookupLoc(cfg.data, e[1])
        dst == LookupLoc(cfg.data, e[2])
    IN  /\ src.location # "" /\ dst.location # ""
        /\ Ask([kind |-> "proto", src |-> src, dst |-> dst, force |-> f],
               PickProto(cfg.data, src, dst, f))

AskCp == HasPrefixes /\ \E c \in Commands, f, env \in Forces :
    LET parsed == ParseOpts(c.args)
    IN  /\ \A i \in DOMAIN parsed.args : IsFileArg(parsed.args[i]) =>
               LookupLoc(cfg.data, MakeCanonical(parsed.args[i].path)).location # ""
        /\ Ask([kind |-> "cp", command |-> c, force |-> f, env |-> env],
               [pairs |-> HandleArgs(cfg.data, parsed.args, "-D" \in parsed.opts, f, env),
                removed |-> Removed(c.args)])

AskVia == HasPrefixes /\ \E v \in Vias :
    Ask([kind |-> "via", v |-> v],
        [cp |-> StageViaOf(v.alts, v.ended, v.host), copyback |-> CopybackViaOf(v.alts, v.host)])

AskList == HasPrefixes /\ \E t \in Trees, listsDir \in BOOLEAN, d \in 0 .. MaxDepth :
    \E loc \in t.dirs \union t.files :
        Ask([kind |-> "list", tree |-> t, loc |-> loc, depth |-> d, own |-> listsDir],
            Lss(t, loc, d, listsDir))

AskFind == HasPrefixes /\ \E t \in Trees, s \in Searches, listsDir \in BOOLEAN :
    /\ ~Overruns(s.pieces, s.parts)
    /\ Ask([kind |-> "find", tree |-> t, search |-> s, own |-> listsDir],
           FindMatchingFiles(t, s.pieces, s.parts, MaxDepth, listsDir))

AskStatus == HasPrefixes /\ \E op \in {"rm", "rmdir", "chmod", "rename", "mkdir", "ll"} :
    \E o \in [known : BOOLEAN, auto : BOOLEAN, same : BOOLEAN, status : -1 .. 255] :
        Ask([kind |-> "status", op |-> op, of |-> o], Operation(op, o))

AskExperiment == HasPrefixes /\ \E u \in Users :
    Ask([kind |-> "experiment", user |-> u], Experiment(cfg.data, u))

Next ==
    \/ ReadNext \/ EndOfFile
    \/ AskOption \/ AskUrl \/ AskProto \/ AskCp \/ AskVia
    \/ AskList \/ AskFind \/ AskStatus \/ AskExperiment

Spec == Init /\ [][Next]_vars

-----------------------------------------------------------------------------
(* What the configuration file says *)

(* The section that a line of a file is in.                                *)
SectionAt(file, i) ==
    LET before == {j \in 1 .. i : file[j].kind = "section"}
    IN  IF before = {} THEN <<"", "">> ELSE file[Max(before)].name

PairsIn(file, s) == {i \in DOMAIN file : file[i].kind = "pair" /\ SectionAt(file, i) = s}

(* The lines i + 1 to j all go on with the value in line i.                *)
GoesOn(file, i, j) == \A k \in i + 1 .. j : file[k].kind \in {"more", "comment"}

EndOf(file, i) ==
    LET more == {j \in DOMAIN file : j > i /\ GoesOn(file, i, j)}
    IN  IF more = {} THEN i ELSE Max(more)

(* What a line adds to the value that it goes on with.                     *)
Further(line) == IF line.kind = "more" THEN <<NewLine>> \o line.val ELSE <<>>

ValueTo(file, i, end) == file[i].val \o FlattenSeq([k \in 1 .. end - i |-> Further(file[i + k])])

(* The first value written for an option, with its further lines.          *)
FirstIn(file, s, o) ==
    LET at == {i \in PairsIn(file, s) : file[i].key = o}
    IN  IF at = {} THEN <<>> ELSE ValueTo(file, Min(at), EndOf(file, Min(at)))

Written(s, o) == FirstIn(lines, s, o)

(* What a reference stands for, if its macro is in the file.               *)
MacroOf(piece) ==
    IF piece \in DOMAIN RefTo THEN Written(<<"macros", "">>, RefTo[piece]) ELSE <<>>

(* With every macro replaced, those in the macros' own values too.         *)
Spelled(v) ==
    LET Spell(w, text) ==
            FlattenSeq([i \in DOMAIN w |->
                IF MacroOf(w[i]) # <<>> THEN text[w[i]] ELSE <<w[i]>>])
        spelling[p \in DOMAIN RefTo] == Spell(MacroOf(p), spelling)
    IN  Spell(v, spelling)

RenamedBy(c, kind) ==
    NamesIn(Split(Spelled(Written(<<"conditional", c>>, kind[1])), Blank))

(* The section that has taken the place of s: of a conditional that holds, *)
(* or of an alias.                                                         *)
Behind(s) ==
    LET held == {c \in Holds : \E k \in Range(RenameKinds) :
                    k[2] = s[1] /\ Len(RenamedBy(c, k)) > 1 /\ s[2] \in Range(RenamedBy(c, k))}
        c == CHOOSE c \in held : TRUE
        k == CHOOSE k \in Range(RenameKinds) : k[2] = s[1]
    IN  IF held = {} THEN s
        ELSE IF RenamedBy(c, k)[2] = s[2] THEN <<s[1], RenamedBy(c, k)[1]>> ELSE <<"gone", "">>

AliasOf(s) == Spelled(Written(Behind(s), "alias"))

Meant(s) ==
    IF s[1] = "protocol" /\ AliasOf(s) # <<>> THEN Behind(<<"protocol", AliasOf(s)[1]>>)
    ELSE Behind(s)

-----------------------------------------------------------------------------
(* Properties *)

(* The experiments whose list of groups in the file has this one.          *)
GroupsIn(e) == Range(NamesIn(Split(Spelled(Written(GidExp, "gids_" \o e)), Blank)))

FirstOf(gid) ==
    LET list == NamesIn(Split(Spelled(Written(GidExp, "gidexplist")), Blank))
        listed == {i \in DOMAIN list : gid \in GroupsIn(list[i])}
    IN  IF listed = {} THEN Unset ELSE list[Min(listed)]

(* A section has the options that the file gives it and no others.         *)
AsInFile(data, s) ==
    LET keys == {lines[i].key : i \in {j \in DOMAIN lines : lines[j].kind = "pair"}}
        own == IF s \in DOMAIN data THEN DOMAIN data[s] ELSE {}
    IN  \A o \in keys \union own : Rawget(data, s, o) = Written(s, o)

Sections(data) == {SectionAt(lines, i) : i \in DOMAIN lines} \union DOMAIN data

(* After the last line of a file each section has the options that the     *)
(* file gives it, each with the first value written for it and the lines   *)
(* that continue that.  Conditionals and aliases then leave alone all but  *)
(* the protocols, the locations and the rotations.                         *)
ReadAsWritten ==
    /\ next = Len(lines) + 1 /\ cfg.ok =>
           \A s \in Sections(cfg.data) : AsInFile(Flush(cfg).data, s)
    /\ next = Len(lines) + 2 /\ cfg.ok /\ asked = NoQuestion =>
           \A s \in Sections(cfg.data) :
               (\A k \in DOMAIN RenameKinds : s[1] # RenameKinds[k][2]) => AsInFile(cfg.data, s)

(* What get answers is what the file says: the value of the option with    *)
(* its macros replaced, in the section itself or the one a conditional or  *)
(* an alias has put in its place.                                          *)
GivenAsWritten ==
    asked.kind = "get" => answer = Spelled(Written(Meant(asked.section), asked.option))

(* The experiment, when nothing in the environment names it, is the first  *)
(* one the file gives the group to; except that two blanks in a list give  *)
(* the group 0 to it.                                                      *)
ExperimentAsWritten ==
    asked.kind = "experiment" /\ asked.user.gid # "0" =>
        LET env == {asked.user.experiment, asked.user.sam, asked.user.upload} \ {Unset}
        IN  IF env # {} THEN answer \in env
            ELSE FirstOf(asked.user.gid) # Unset => answer = FirstOf(asked.user.gid)

(* The force is taken, and no second step.                                 *)
Takes(question, pick) ==
    question.force # "" /\ pick.proto = ForceOf(question.force) /\ pick.proto2 = ""

ListedAt(data, loc) == Range(Names(data, <<"location", loc.location>>, "protocols"))

(* A force that both ends have is taken.                                   *)
Forced(data, question, pick) ==
    /\ Takes(question, pick)
    /\ \A loc \in {question.src, question.dst} : pick.proto \in ListedAt(data, loc)

(* A force is taken that an end does not have: it is only part of what the *)
(* end has, as "ftp:" of "gsiftp:".  The comment at the test says that     *)
(* source and destination must both have it.                               *)
Mistaken(data, question, pick) ==
    /\ Takes(question, pick)
    /\ \E loc \in {question.src, question.dst} : pick.proto \notin ListedAt(data, loc)
    /\ \A loc \in {question.src, question.dst} : FoundAt(data, loc, pick.proto)

(* A protocol that suits both ends, or if there is none the first of each. *)
FitsEnds(slist, dlist, src, dst, pick) ==
    LET At(list, loc, p) == \E i \in Usable(list, loc) : list[i] = p
        Suits(p) == \/ At(slist, src, p) /\ At(dlist, dst, p)
                    \/ At(slist, src, FileProto) /\ At(dlist, dst, p)
                    \/ At(slist, src, p) /\ At(dlist, dst, FileProto)
    IN  \/ Suits(pick.proto) /\ pick.proto2 = ""
        \/ /\ ~\E p \in Range(slist) \union Range(dlist) : Suits(p)
           /\ pick.proto = slist[1]
           /\ pick.proto2 = IF dlist[1] = slist[1] THEN "" ELSE dlist[1]

(* The ways to write a path lead to one url, and that url, which recursive *)
(* listings and stage lists hand to the library again, leads to itself.    *)
UrlNamesFile ==
    asked.kind = "url" =>
        /\ IsUrl(answer.one.url) /\ answer.one.url[1] # FileProto => answer.again.url = answer.one.url
        /\ answer.one.proto = answer.other.proto => answer.one.url = answer.other.url

(* The protocol a copy goes by has a command, unless a force that is       *)
(* unknown, which the library says it ignores, is taken all the same: one  *)
(* that both ends list, or that is part of what they list.                 *)
ProtocolKnown ==
    asked.kind = "proto" =>
        \/ Forced(cfg.data, asked, answer) \/ Mistaken(cfg.data, asked, answer)
        \/ Known(cfg.data, answer.proto)

(* What is asked of a configuration has its answer in the file: the value  *)
(* of an option, the experiment of a group, the url of a path and a        *)
(* protocol that can copy it.                                              *)
FileAnswers == GivenAsWritten /\ ExperimentAsWritten /\ UrlNamesFile /\ ProtocolKnown

(* A copy goes by a protocol that suits both ends, in one step whenever    *)
(* there is one, and otherwise by the first of each end, in one step if    *)
(* they are the same; or by the one that is forced, if both have it.  Only *)
(* a force that is part of what an end has is mistaken for it.             *)
ProtocolSuits ==
    asked.kind = "proto" =>
        \/ Forced(cfg.data, asked, answer) \/ Mistaken(cfg.data, asked, answer)
        \/ FitsEnds(ProtosAt(cfg.data, asked.src), ProtosAt(cfg.data, asked.dst),
                    asked.src, asked.dst, answer)

(* cp copies every pair its arguments or its list name, in their order and *)
(* nothing else, and mv removes the sources; except that the last line of  *)
(* a list without a newline is lost, and mv -f leaves the sources.         *)
PairsAsAsked ==
    asked.kind = "cp" /\ asked.command.whole =>
        LET Loc(p) == LookupLoc(cfg.data, MakeCanonical(p))
            c == asked.command
            Dst(src, dst) == IF c.isdir
                             THEN [Loc(dst) EXCEPT !.path = Append(@, Last(src))] ELSE Loc(dst)
        IN  /\ [i \in DOMAIN answer.pairs |-> <<answer.pairs[i].src, answer.pairs[i].dst>>]
                   = [i \in DOMAIN c.pairs |-> <<Loc(c.pairs[i][1]), Dst(c.pairs[i][1], c.pairs[i][2])>>]
            /\ ~c.list => answer.removed = {c.pairs[i][1] : i \in DOMAIN c.pairs}

(* Where cp stages its files copyback looks for them, when every pattern   *)
(* has a star and its labels are nowhere but at the end of the host.       *)
ViaAgree ==
    asked.kind = "via" /\ answer.cp # "" /\
    (\A i \in DOMAIN asked.v.alts :
        LET a == asked.v.alts[i]
        IN  a.star /\ (Within(a.labels, asked.v.host) => EndsWith(asked.v.host, a.labels)))
        => answer.copyback = answer.cp

AsEntry(tree, p) == IF p \in tree.dirs THEN Slashed(p) ELSE p

(* What a listing is to have: all that is there down to its depth.         *)
Reached(tree, loc, depth) ==
    {AsEntry(tree, p) : p \in {loc} \union {q \in Below(tree, loc) : Len(q) <= Len(loc) + depth}}

(* What a search is to find: the files that the glob matches.              *)
Matching(tree, search) ==
    {p \in tree.files : \E d \in search.dirs :
        /\ Len(p) = Len(d) + Len(search.parts)
        /\ SubSeq(p, 1, Len(d)) = d
        /\ \A i \in DOMAIN search.parts : p[Len(d) + i] \in search.parts[i].names}

(* A directory whose only entry is a file of its name cannot be told from  *)
(* a file by commands that do not list it itself.                          *)
Ambiguous(tree, d) ==
    \E p \in tree.files : Children(tree, d) = {p} /\ Last(p) = Last(d)

Clear(tree, listsDir) ==
    tree.failing = {} /\ (listsDir \/ \A d \in tree.dirs : ~Ambiguous(tree, d))

(* A listing has all that is there down to its depth and nothing else, and *)
(* a search finds every file the glob matches.                             *)
ListsAll ==
    /\ asked.kind = "list" /\ Clear(asked.tree, asked.own) =>
          answer = Reached(asked.tree, asked.loc, asked.depth)
    /\ asked.kind = "find" /\ Clear(asked.tree, asked.own) /\ asked.search.leading =>
          Matching(asked.tree, asked.search) \subseteq answer

(* An operation that has no command, cannot be done or whose command fails *)
(* does not return 0, except for statuses 127, 128 and 255, and for rm and *)
(* rmdir a signal.                                                         *)
FailureTold ==
    asked.kind = "status" /\ answer = 0 /\ ~(asked.op = "mkdir" /\ asked.of.auto) =>
        /\ asked.of.known
        /\ asked.op = "rename" => asked.of.same
        /\ \/ asked.of.status \in {0, 127, 128, 255}
           \/ asked.of.status = Killed /\ asked.op \in {"rm", "rmdir"}

=============================================================================
