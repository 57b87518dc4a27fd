-------------------------------- MODULE Paths ---------------------------------
(***************************************************************************)
(* How cp, mv and the directory operations make out of their arguments     *)
(* which files are meant: the location a path is in, the url for a         *)
(* protocol, the protocol for two ends, the pairs of files to copy.        *)
(*                                                                         *)
(* A path or url is the sequence of its parts between slashes: "/a/b" is   *)
(* <<"", "a", "b">>, "root://h/a" is <<"root:", "", "h", "a">>.            *)
(***************************************************************************)
EXTENDS Config

CONSTANTS
    Protocols,  \* "root:" and so on
    PartOf,     \* pairs of words of which the first is only part of the second
    PartsOf,    \* the parts of a word of the configuration that is a path
    PatternOf,  \* for a prefix of "prefixes" and each of its parts the parts it matches
    Cwd,        \* the current working directory, a path
    Groups,     \* the table of groups in getexperiment: for a group its experiment
    Exists,     \* the directories that can be seen on this host, paths
    ListFiles   \* for a path the lines of the file there, for cp -f

(* The file: protocol is what a host can see.                              *)
FileProto == "file:"

IsUrl(u) == Len(u) >= 3 /\ u[1] \in Protocols /\ u[2] = ""

(* getint, for one digit: a slashstrip has no more.                        *)
Atoi(v) ==
    LET digits == {n \in 0 .. 9 : v # <<>> /\ ToString(n) = v[1]}
    IN  IF digits = {} THEN 0 ELSE Min(digits)

(* The concatenation of two strings, by their parts.                       *)
Glue(a, b) == Front(a) \o <<Last(a) \o Head(b)>> \o Tail(b)

-----------------------------------------------------------------------------
(* utils *)

Absolute(p) == IF Len(p) > 1 /\ p[1] = "" THEN p ELSE <<"">> \o p

ParentDir(p) ==
    LET trimmed == IF Last(p) = "" /\ Len(p) > 2 THEN Front(p) ELSE p
    IN  IF Len(trimmed) <= 2 THEN <<"", "">> ELSE Front(trimmed)

(* The first directory of a path, for the loop over urls never runs.       *)
MountDir(p) ==
    LET a == Absolute(p) IN IF Len(a) > 2 THEN SubSeq(a, 1, 2) ELSE <<"", "">>

(* Mutant: every doubled slash goes, that after the host too.              *)
FenceBefore(a) == 3

(* The parts before this one keep their slashes.                           *)
Fence(a) == IF IsUrl(a) THEN 4 ELSE 1

MakeCanonical(p) ==
    LET a == IF p[1] = "" \/ p[1] \in Protocols THEN p ELSE Cwd \o p
        Kept(j) == j <= Fence(a) \/ a[j] # "" \/ j = Len(a)
    IN  FlattenSeq([j \in DOMAIN a |-> IF Kept(j) THEN <<a[j]>> ELSE <<>>])

(* The experiment of a process: of EXPERIMENT, SAM_EXPERIMENT or the upload *)
(* area CONDOR_TMP is in; then of the lists of groups in the configuration *)
(* and of the table; then the group's name unless it is the user's.        *)
Unset == "unset"
GidExp == <<"gid_exp", "">>

(* atoi, for an empty word.                                                *)
GidOf(word) == IF word = "" THEN "0" ELSE word

HasGid(data, e, gid) ==
    \E i \in DOMAIN Names(data, GidExp, "gids_" \o e) :
        GidOf(Names(data, GidExp, "gids_" \o e)[i]) = gid

Experiment(data, u) ==
    LET list == Names(data, GidExp, "gidexplist")
        listed == {i \in DOMAIN list : HasGid(data, list[i], u.gid)}
    IN  IF u.experiment # Unset THEN u.experiment
        ELSE IF u.sam # Unset THEN u.sam
        ELSE IF u.upload # Unset THEN u.upload
        ELSE IF listed # {} THEN list[Min(listed)]
        ELSE IF u.gid \in DOMAIN Groups THEN Groups[u.gid]
        ELSE IF Unset \notin {u.group, u.user} /\ u.group # u.user THEN u.group
        ELSE "fermilab"

-----------------------------------------------------------------------------
(* lookup_loc and locpath *)

NoLocation == [location |-> "", path |-> <<"">>, proto |-> ""]

Begins(url, pattern) ==
    /\ Len(url) >= Len(pattern)
    /\ \A i \in 1 .. Len(pattern) - 1 : url[i] \in pattern[i]

(* A prefix needs a stanza that names a location.                          *)
Applies(data, prefix, url) ==
    /\ prefix # ""
    /\ Begins(url, PatternOf[prefix])
    /\ HasSection(data, <<"prefix", prefix>>)
    /\ Get(data, <<"prefix", prefix>>, "location") # <<>>

(* slashstrip: that many parts, if there are more.                         *)
Strip(url, n) == SubSeq(url, IF n < Len(url) THEN n + 1 ELSE Len(url), Len(url))

LookupLoc(data, url) ==
    LET list == NamesIn(Split(Rawget(data, General, "prefixes"), Blank))
        able == {i \in DOMAIN list : Applies(data, list[i], url)}
    IN  IF able = {} THEN NoLocation
        ELSE LET section == <<"prefix", list[Min(able)]>>
             IN  [location |-> Get(data, section, "location")[1],
                  path |-> Strip(url, Atoi(Get(data, section, "slashstrip"))),
                  proto |-> IF IsUrl(url) THEN url[1] ELSE ""]

(* The options "can_stat_root", "prefix_root" keep the colon here.         *)
LocPath(data, loc, proto) ==
    LET section == <<"location", loc.location>>
        can == Get(data, section, "can_stat_" \o proto)
        pre == Get(data, section, "prefix_" \o proto)
        used == IF can # <<>> /\ Absolute(ParentDir(loc.path)) \in Exists THEN can ELSE pre
    IN  Glue(IF used = <<>> THEN <<"">> ELSE PartsOf[used[1]], loc.path)

-----------------------------------------------------------------------------
(* pick_proto and pick_proto_path *)

Synonyms ==
    [s \in {"srmcp", "gridftp", "expftp", "expgridftp", "cp", "dd", "xroot", "xrootd"} |->
        CASE s = "srmcp" -> "srm" [] s \in {"cp", "dd"} -> "file"
          [] s \in {"xroot", "xrootd"} -> "root" [] OTHER -> "gsiftp"]

(* What --force=f or IFDH_FORCE=f stands for.                              *)
ForceOf(f) ==
    LET g == IF f \in DOMAIN Synonyms THEN Synonyms[f] ELSE f
    IN  IF g = "" THEN "" ELSE IF g \in Protocols THEN g ELSE g \o ":"

Known(data, proto) == Get(data, <<"protocol", proto>>, "cp_cmd") # <<>>

ProtosAt(data, loc) ==
    IF loc.proto # "" /\ Get(data, <<"location", loc.location>>, "ignore_url_proto")
                             \in {<<>>, <<"false">>}
    THEN <<loc.proto>>
    ELSE Names(data, <<"location", loc.location>>, "protocols")

Visible(loc) == MountDir(loc.path) \in Exists

(* file: only where it can be seen, or at the end of the list.             *)
Usable(list, loc) ==
    {i \in DOMAIN list :
        list[i] # "" /\ (list[i] = FileProto /\ ~Visible(loc) => i = Len(list))}

Agree(a, b) == a = b \/ a = FileProto \/ b = FileProto

(* Mutant: the destination's order counts.                                 *)
FirstByDestination(slist, dlist, src, dst) ==
    LET at == {x \in Usable(slist, src) \X Usable(dlist, dst) : Agree(slist[x[1]], dlist[x[2]])}
    IN  IF at = {} THEN [proto |-> slist[1], proto2 |-> ""]
        ELSE LET f == CHOOSE x \in at : \A y \in at :
                          x[2] < y[2] \/ (x[2] = y[2] /\ x[1] <= y[1])
             IN  [proto |-> slist[f[1]], proto2 |-> ""]

(* The first of the source's protocols that agrees with one of the         *)
(* destination's; with none the copy takes two steps.                      *)
FirstCommon(slist, dlist, src, dst) ==
    LET at == {x \in Usable(slist, src) \X Usable(dlist, dst) : Agree(slist[x[1]], dlist[x[2]])}
    IN  IF at = {}
        THEN [proto |-> slist[1], proto2 |-> IF dlist[1] # slist[1] THEN dlist[1] ELSE ""]
        ELSE LET f == CHOOSE x \in at : \A y \in at :
                          x[1] < y[1] \/ (x[1] = y[1] /\ x[2] <= y[2])
                 s == slist[f[1]]
                 d == dlist[f[2]]
             IN  [proto |-> IF s = d \/ d = FileProto THEN s ELSE d, proto2 |-> ""]

(* --force=f is in force, and without it what IFDH_FORCE is set to.        *)
InForce(f, env) == IF f = "" THEN env ELSE f

(* Every pick with a force that has no command clears IFDH_FORCE.          *)
EnvAfter(data, f, env) ==
    IF InForce(f, env) # "" /\ ~Known(data, ForceOf(InForce(f, env))) THEN "" ELSE env

(* The force is looked for in the text of a list: "ftp:" is found in one   *)
(* that has "gsiftp:".                                                     *)
FoundAt(data, loc, force) ==
    \E word \in Range(Names(data, <<"location", loc.location>>, "protocols")) :
        word = force \/ <<force, word>> \in PartOf

(* A force that is found at both ends is taken, even one that is unknown:  *)
(* the pick without it, made when it is announced as ignored, is written   *)
(* over.                                                                   *)
PickProto(data, src, dst, f) ==
    IF f # "" /\ FoundAt(data, src, ForceOf(f)) /\ FoundAt(data, dst, ForceOf(f))
    THEN [proto |-> ForceOf(f), proto2 |-> ""]
    ELSE FirstCommon(ProtosAt(data, src), ProtosAt(data, dst), src, dst)

(* For one path; a force that has a command is taken whatever the location *)
(* has, another counts as none.                                            *)
PickProtoPath(data, path, f) ==
    LET loc == LookupLoc(data, MakeCanonical(path))
        force == ForceOf(f)
        list == Names(data, <<"location", loc.location>>, "protocols")
        protos == IF list = <<>> THEN <<FileProto, "gsiftp:">> ELSE list
        proto == IF force # "" /\ Known(data, force) THEN force
                 ELSE IF loc.proto # "" THEN loc.proto
                 ELSE IF protos[1] = FileProto /\ ~Visible(loc) /\ Len(protos) > 1
                      THEN protos[2]
                 ELSE protos[1]
    IN  [proto |-> proto, url |-> LocPath(data, loc, proto)]

-----------------------------------------------------------------------------
(* The arguments of cp *)

Sep == [kind |-> "sep"]
File(p) == [kind |-> "path", path |-> p]
Opt(o) == [kind |-> "opt", opt |-> o]

IsFileArg(a) == a.kind = "path"

Path == Seq(Word) \ {<<>>}

Arg == [kind : {"sep"}] \union [kind : {"path"}, path : Path] \union [kind : {"opt"}, opt : Word]

(* A list has lines of two names at most.                                  *)
ASSUME ListsAssumption ==
    \A p \in DOMAIN ListFiles :
        /\ ListFiles[p].lines \in Seq(Seq(Path)) /\ ListFiles[p].complete \in BOOLEAN
        /\ \A n \in DOMAIN ListFiles[p].lines : Len(ListFiles[p].lines[n]) <= 2

ASSUME CwdAssumption == Cwd \in Path

TwoFiles(line) == IF Len(line) < 2 THEN <<>> ELSE <<File(line[1]), File(line[2])>>

(* Mutant: nothing is between one line and the next.                       *)
ExpandNoSep(lines) == FlattenSeq([n \in DOMAIN lines |-> TwoFiles(lines[n])])

(* A line of two names is a copy, a line of one nothing but a separator;   *)
(* blank ones are skipped.                                                 *)
ExpandLines(lines) ==
    LET First(n) == \A i \in 1 .. n - 1 : lines[i] = <<>>
    IN  FlattenSeq([n \in DOMAIN lines |->
            (IF First(n) \/ lines[n] = <<>> THEN <<>> ELSE <<Sep>>) \o TwoFiles(lines[n])])

(* The last line is lost without a newline at its end.  What comes after   *)
(* the name of the list follows.                                           *)
ExpandFile(list, after) ==
    ExpandLines(IF list.complete \/ list.lines = <<>> THEN list.lines ELSE Front(list.lines))
        \o (IF after = <<>> THEN <<>> ELSE <<Sep>> \o after)

(* parse_opts: the options up to the first argument that is none or to the *)
(* name of a list.  What that expands to begins with a file or a separator *)
(* if with anything, so that no option after it is looked at.              *)
ParseOpts(args) ==
    LET stops == {i \in DOMAIN args : args[i].kind # "opt" \/ args[i] = Opt("-f")}
        end == IF stops = {} THEN Len(args) + 1 ELSE Min(stops)
        rest == SubSeq(args, end + 2, Len(args))
    IN  [opts |-> {args[j].opt : j \in 1 .. end - 1},
         args |-> IF end \in stops /\ args[end] = Opt("-f")
                  THEN ExpandFile(ListFiles[args[end + 1].path], rest)
                  ELSE SubSeq(args, end, Len(args))]

DestFile(src, dir) == Append(dir, Last(src))

(* handle_args: sources wait until their destination comes.                *)
PairArgs(data, args, isdir) ==
    LET Canon(i) == LookupLoc(data, MakeCanonical(args[i].path))
        IsDest(i) == i = Len(args) \/ args[i + 1] = Sep
        To(src, dst) == IF isdir THEN [dst EXCEPT !.path = DestFile(src.path, @)] ELSE dst
        Pair(src, dst) == [src |-> src, dst |-> To(src, dst)]
        One(st, i) ==
            IF args[i] = Sep THEN st
            ELSE IF IsDest(i)
            THEN [done |-> st.done \o [k \in DOMAIN st.wait |-> Pair(st.wait[k], Canon(i))],
                  wait |-> <<>>]
            ELSE [st EXCEPT !.wait = Append(@, Canon(i))]
        handled[n \in 0 .. Len(args)] ==
            IF n = 0 THEN [done |-> <<>>, wait |-> <<>>] ELSE One(handled[n - 1], n)
    IN  handled[Len(args)].done

(* A protocol is picked for one pair after the other, and an IFDH_FORCE    *)
(* that is unknown is gone after the first.                                *)
HandleArgs(data, args, isdir, f, env) ==
    LET pairs == PairArgs(data, args, isdir)
        Force(i) == InForce(f, IF i = 1 THEN env ELSE EnvAfter(data, f, env))
        Via(i) == PickProto(data, pairs[i].src, pairs[i].dst, Force(i))
    IN  [i \in DOMAIN pairs |-> [src |-> pairs[i].src, dst |-> pairs[i].dst, via |-> Via(i)]]

(* What mv removes once all is copied: every argument that is neither an   *)
(* option nor the last nor before a separator.                             *)
Removed(args) ==
    {args[i].path : i \in {i \in 1 .. Len(args) - 1 : IsFileArg(args[i]) /\ args[i + 1] # Sep}}

-----------------------------------------------------------------------------
(* IFDH_STAGE_VIA: hosts and what to stage through for them.  A host is    *)
(* its name's labels; a pattern may have a star before them.               *)

Within(labels, host) ==
    \E i \in 0 .. Len(host) - Len(labels) : SubSeq(host, i + 1, i + Len(labels)) = labels

EndsWith(host, labels) ==
    \E i \in 0 .. Len(host) : SubSeq(host, i + 1, Len(host)) = labels

(* Mutant: the last alternative that matches.                              *)
LastOf(alts, ended, host) ==
    LET able == {i \in DOMAIN alts : Within(alts[i].labels, host)}
    IN  IF able = {} THEN "" ELSE alts[Max(able)].via

(* parse_ifdh_stage_via: what follows the star is anywhere in the name,    *)
(* and the last alternative counts only if ";;" ends it.                   *)
StageViaOf(alts, ended, host) ==
    LET able == {i \in DOMAIN alts :
                    (ended \/ i < Len(alts)) /\ Within(alts[i].labels, host)}
    IN  IF able = {} THEN "" ELSE alts[Min(able)].via

(* ifdh_copyback.sh makes a case statement of it.                          *)
CopybackViaOf(alts, host) ==
    LET Is(a) == IF a.star THEN EndsWith(host, a.labels) ELSE host = a.labels
        able == {i \in DOMAIN alts : Is(alts[i])}
    IN  IF able = {} THEN "" ELSE alts[Min(able)].via

=============================================================================
