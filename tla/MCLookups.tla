------------------------------ MODULE MCLookups -------------------------------
(* Lookups with files like ifdh.cfg and questions about them, for TLC.       *)
EXTENDS Lookups

S(kind, name) == [kind |-> "section", name |-> <<kind, name>>]
P(key, val) == [kind |-> "pair", key |-> key, val |-> val]
More(val) == [kind |-> "more", val |-> val]
Comment == [kind |-> "comment"]
Blanks == [kind |-> "blanks"]
Junk == [kind |-> "other"]

(* The words of a list, with blanks between them.                            *)
List(words) == Tail(FlattenSeq([i \in DOMAIN words |-> <<Blank, words[i]>>]))

MCMacros == <<"a", "b">>
MCRefTo == "%(a)s" :> "a" @@ "%(b)s" :> "b"

-----------------------------------------------------------------------------
(* Small files: values in several lines, written twice, with macros; blanks; *)
(* conditionals and aliases.                                                 *)
Values ==
    <<S("macros", ""), P("a", <<"x", "%(b)s">>), P("b", <<"y">>), Comment,
      S("location", "l1"), P("o", <<"v", Blank, "%(a)s", Blank, Blank, "%(a)s">>),
      More(<<"w">>), Comment, More(<<"%(b)s">>), P("o", <<"second">>), Junk,
      More(<<"lost">>), S("location", "l2"), P("o", <<"z">>),
      S("location", "l1"), P("o", <<"third">>), P("q", <<"fourth">>)>>

Conditionals ==
    <<S("general", ""), P("conditionals", List(<<"yes", "no">>)),
      P("protocols", List(<<"root:", "xroot:", "https:", "http:">>)),
      S("conditional", "yes"), P("rename_proto", List(<<"s3:", "https:">>)),
      S("conditional", "no"), P("rename_loc", List(<<"l2", "l1">>)),
      S("protocol", "root:"), P("o", <<"root">>), S("protocol", "xroot:"), P("alias", <<"root:">>),
      S("protocol", "https:"), P("o", <<"https">>), S("protocol", "s3:"), P("o", <<"s3">>),
      S("protocol", "http:"), P("alias", <<"https:">>),
      S("location", "l1"), P("o", <<"l1">>), S("location", "l2"), P("o", <<"l2">>),
     S("macros", ""), P("a", <<"9010">>), P("b", <<"des">>),
     S("gid_exp", ""), P("gidexplist", List(<<"dune", "%(b)s", "lbne">>)),
     P("gids_des", <<"9620", Blank, Blank, "%(a)s">>), P("gids_dune", List(<<"9660">>)),
     P("gids_dune", <<"9257">>), P("gids_lbne", <<"9660">>)>>

NoTarget == <<S("general", ""), P("conditionals", <<"yes">>),
              S("conditional", "yes"), P("rename_loc", List(<<"l1", "l3">>)),
              S("location", "l1"), P("o", <<"l1">>)>>

LocationToo == <<S("general", ""), P("conditionals", <<"yes">>),
                 S("conditional", "yes"), P("rename_loc", List(<<"l1", "l2">>)),
                 S("location", "l1"), P("o", <<"l1">>), S("location", "l2"), P("o", <<"l2">>)>>

WithBlanks == <<S("location", "l1"), Blanks, P("o", <<"l1">>)>>

(* Every file of four of these lines, after a macro.                         *)
SmallLines ==
    {S("location", "l1"), S("location", "l2"), P("o", <<"x", "%(a)s">>), P("o", <<"y">>),
     P("q", <<"%(a)s">>), More(<<"%(a)s", "w">>), Comment, Junk}

SmallFiles == {<<S("macros", ""), P("a", <<"v">>), S("location", "l3")>> \o f : f \in [1 .. 4 -> SmallLines]}

MCOptions ==
    ({<<"location", l>> : l \in {"l1", "l2", "l3"}} \X {"o", "q"}) \union
    ({<<"protocol", p>> : p \in {"root:", "xroot:", "https:", "http:", "s3:"}} \X {"o", "alias"})

-----------------------------------------------------------------------------
(* Parts of ifdh.cfg *)

Stken == "https://fndcadoor.fnal.gov:2880/pnfs/fnal.gov/usr/"
StkenShort == "https://fndca1.fnal.gov:2880/pnfs/"

PrefixList == <<"/pnfs/fnal.gov/usr/%(EXPERIMENT)s/", "/pnfs/", "/eos/", "/scratch/users/",
              "root://eospublic.cern.ch//eos/", "gsiftp://eospublicftp.cern.ch//eos/",
              "gsiftp://fg-bestman1.fnal.gov:2811/", StkenShort, Stken, "https://",
              "s3://", "gsiftp://", "root://", "i://", "file:///", "/">>

MCPatternOf ==
    "/pnfs/fnal.gov/usr/%(EXPERIMENT)s/" :>
        <<{""}, {"pnfs"}, {"fnal.gov"}, {"usr"}, {"minos", "nova"}, {""}>> @@
    "/pnfs/" :> <<{""}, {"pnfs"}, {""}>> @@ "/eos/" :> <<{""}, {"eos"}, {""}>> @@
    "/scratch/users/" :> <<{""}, {"scratch"}, {"users"}, {""}>> @@
    "root://eospublic.cern.ch//eos/" :> <<{"root:"}, {""}, {"eospublic"}, {""}, {"eos"}, {""}>> @@
    "gsiftp://eospublicftp.cern.ch//eos/" :>
        <<{"gsiftp:"}, {""}, {"eospublicftp"}, {""}, {"eos"}, {""}>> @@
    "gsiftp://fg-bestman1.fnal.gov:2811/" :> <<{"gsiftp:"}, {""}, {"fg-bestman1:2811"}, {""}>> @@
    StkenShort :> <<{"https:"}, {""}, {"fndca1:2880"}, {"pnfs"}, {""}>> @@
    Stken :> <<{"https:"}, {""}, {"fndcadoor:2880"}, {"pnfs"}, {"fnal.gov"}, {"usr"}, {""}>> @@
    "https://" :> <<{"https:"}, {""}, {""}>> @@ "s3://" :> <<{"s3:"}, {""}, {""}>> @@
    "gsiftp://" :> <<{"gsiftp:"}, {""}, {""}>> @@ "root://" :> <<{"root:"}, {""}, {""}>> @@
    "i://" :> <<{"i:"}, {""}, {""}>> @@ "file:///" :> <<{"file:"}, {""}, {""}, {""}>> @@
    "/" :> <<{""}, {""}>>

MCPartsOf ==
    "/" :> <<"", "">> @@ "/pnfs/" :> <<"", "pnfs", "">> @@
    "file:///" :> <<"file:", "", "", "">> @@ "file:////" :> <<"file:", "", "", "", "">> @@
    "gsiftp://fndca1/usr/" :> <<"gsiftp:", "", "fndca1", "pnfs", "fnal.gov", "usr", "">> @@
    "root://fndcadoor/usr/" :> <<"root:", "", "fndcadoor:1094", "pnfs", "fnal.gov", "usr", "">> @@
    "https://fndcadoor/" :> <<"https:", "", "fndcadoor:2880", "">> @@
    "root://eospublic//" :> <<"root:", "", "eospublic", "", "">> @@
    "gsiftp://eospublicftp//" :> <<"gsiftp:", "", "eospublicftp", "", "">> @@
    "gsiftp://mfosgse" :> <<"gsiftp:", "", "mfosgse">>

Stanza(prefix, location, strip) ==
    <<S("prefix", prefix), P("location", <<location>>), P("slashstrip", <<strip>>)>>

Proto(p) == <<S("protocol", p), P("cp_cmd", <<"cmd">>)>>

IfdhCfg ==
    <<S("general", ""), P("conditionals", List(<<"macos", "smu_onsite">>)),
      P("protocols", List(<<"file:", "https:", "ucondb:", "gsiftp:", "i:", "s3:", "root:", "xroot:">>)),
      P("prefixes", List(PrefixList)),
      S("conditional", "smu_onsite"), P("rename_loc", List(<<"smuscratch-onsite", "smuscratch">>))>> \o
    FlattenSeq([i \in 1 .. 6 |->
        Proto(<<"file:", "https:", "gsiftp:", "i:", "s3:", "root:">>[i])]) \o
    <<S("protocol", "xroot:"), P("alias", <<"root:">>), S("protocol", "ucondb:"), P("cp_cmd", <<>>)>> \o
    Stanza("/pnfs/fnal.gov/usr/%(EXPERIMENT)s/", "dcache_stken", "4") \o
    Stanza("/pnfs/", "dcache_stken", "2") \o Stanza("/eos/", "cern_eos", "1") \o
    Stanza("/scratch/users/", "smuscratch", "0") \o
    Stanza("root://eospublic.cern.ch//eos/", "cern_eos", "4") \o
    Stanza("gsiftp://eospublicftp.cern.ch//eos/", "cern_eos", "4") \o
    Stanza("gsiftp://fg-bestman1.fnal.gov:2811/", "redo_bluearc", "3") \o
    Stanza(StkenShort, "dcache_stken", "4") \o Stanza(Stken, "dcache_stken", "6") \o
    Stanza("https://", "generic_http", "0") \o Stanza("s3://", "amazon_s3", "0") \o
    Stanza("gsiftp://", "generic_gridftp", "0") \o Stanza("root://", "generic_root", "0") \o
    Stanza("file:///", "local_fs_1", "2") \o Stanza("/", "local_fs_1", "0") \o
    <<S("location", "redo_bluearc"), P("ignore_url_proto", <<"true">>), P("protocols", <<"file:">>),
      P("prefix_file:", <<"/">>), P("prefix_gsiftp:", <<"file:////">>),
      P("can_stat_gsiftp:", <<"file:////">>), P("can_stat_file:", <<"/">>),
      S("location", "local_fs_1"),
      P("protocols", List(<<"file:", "gsiftp:", "https:", "s3:", "ucondb:", "root:">>)),
      P("prefix_gsiftp:", <<"file:///">>), P("can_stat_gsiftp:", <<"file:///">>),
      S("location", "smuscratch-onsite"), P("protocols", <<"gsiftp:">>),
      P("prefix_gsiftp:", <<"gsiftp://mfosgse">>),
      S("location", "smuscratch"), P("protocols", <<"file:">>),
      S("location", "cern_eos"), P("protocols", List(<<"root:", "gsiftp:">>)),
      P("prefix_gsiftp:", <<"gsiftp://eospublicftp//">>), P("prefix_root:", <<"root://eospublic//">>),
      S("location", "dcache_stken"), P("protocols", List(<<"https:", "gsiftp:", "root:">>)),
      P("prefix_file:", <<"/pnfs/">>), P("prefix_gsiftp:", <<"gsiftp://fndca1/usr/">>),
      P("prefix_root:", <<"root://fndcadoor/usr/">>), P("prefix_https:", <<"https://fndcadoor/">>),
      S("location", "amazon_s3"), P("protocols", <<"s3:">>),
      S("location", "generic_root"), P("protocols", <<"root:">>),
      S("location", "generic_http"), P("protocols", List(<<"http:", "https:">>)),
      S("location", "generic_gridftp"), P("protocols", <<"gsiftp:">>),
      S("gid_exp", ""), P("gidexplist", List(<<"des", "dune", "uboone">>)),
      P("gids_des", <<"9620">>), P("gids_dune", List(<<"9010", "9660">>)),
      P("gids_uboone", List(<<"9257", "9258">>))>>

(* Groups with an experiment in the lists, in the table, in both, in none.   *)
MCGroups == "9660" :> "lbne" @@ "9620" :> "des" @@ "9209" :> "minosplus"

MCUsers ==
    [experiment : {Unset, "nova"}, sam : {Unset, "minos"}, upload : {Unset, "mu2e"},
     gid : {"0", "9010", "9258", "9660", "9620", "9209", "1234"},
     group : {Unset, "gm2", "me"}, user : {Unset, "me"}]

MCFiles == {Values, Conditionals, NoTarget, LocationToo, WithBlanks, IfdhCfg} \union SmallFiles

MCHolds == {"yes", "smu_onsite"}

MCProtocols == {"file:", "https:", "gsiftp:", "i:", "s3:", "ucondb:", "root:", "xroot:"}

MCCwd == <<"", "w">>

MCExists == {<<"", "tmp">>, <<"", "w">>, <<"", "scratch">>, <<"", "">>}

-----------------------------------------------------------------------------
(* Paths *)

Tmp == <<"", "tmp", "x">>
Pnfs == <<"", "pnfs", "minos", "x">>
Eos == <<"", "eos", "a", "x">>
EosRoot == <<"root:", "", "eospublic", "", "eos", "a", "x">>
Bluearc == <<"gsiftp:", "", "fg-bestman1:2811", "minos", "y">>
Scratch == <<"", "scratch", "users", "z">>
Bucket == <<"s3:", "", "b", "x">>
Door == <<"https:", "", "fndcadoor:2880", "pnfs", "fnal.gov", "usr", "minos", "x">>

MCSpellings ==
    {{Pnfs, <<"", "pnfs", "", "minos", "", "x">>, Door,
      <<"", "pnfs", "fnal.gov", "usr", "minos", "x">>,
      <<"https:", "", "fndca1:2880", "pnfs", "minos", "x">>},
     {Eos, EosRoot, <<"root:", "", "eospublic", "", "eos", "", "a", "x">>,
      <<"gsiftp:", "", "eospublicftp", "", "eos", "a", "x">>},
     {Tmp, <<"file:", "", "", "tmp", "x">>, <<"", "", "tmp", "x">>},
     {<<"", "w", "x">>, <<"x">>}, {Bluearc}, {Scratch}, {Bucket}}

MCEnds == LET all == {Tmp, Pnfs, Eos, EosRoot, Bluearc, Scratch, Bucket, Door} IN all \X all

MCForces == {"", "root", "gridftp", "bogus", "ucondb", "cp", "ftp"}

(* Of the words that are asked for, "root:" is part of "xroot:", and "ftp:", *)
(* which is no protocol, part of "gsiftp:".                                  *)
PartOfWord(a, b) == \E i \in 1 .. Len(b) - Len(a) + 1 : a # b /\ SubSeq(b, i, i + Len(a) - 1) = a

MCPartOf ==
    {w \in {ForceOf(f) : f \in MCForces} \X (MCProtocols \union {"http:"}) : PartOfWord(w[1], w[2])}

(* Groups of sources with their destination, or a list of pairs.             *)
Group(srcs, dst) == [srcs |-> srcs, dst |-> dst]

ArgsOf(groups) ==
    Tail(FlattenSeq([g \in DOMAIN groups |->
        <<Sep>> \o [i \in DOMAIN groups[g].srcs |-> File(groups[g].srcs[i])] \o <<File(groups[g].dst)>>]))

PairsOf(groups) ==
    FlattenSeq([g \in DOMAIN groups |->
        [i \in DOMAIN groups[g].srcs |-> <<groups[g].srcs[i], groups[g].dst>>]])

Cmd(groups, isdir) ==
    [args |-> (IF isdir THEN <<Opt("-D")>> ELSE <<>>) \o ArgsOf(groups), pairs |-> PairsOf(groups),
     isdir |-> isdir, list |-> FALSE, whole |-> TRUE]

ListPath(n) == <<"", "lists", n>>

Lists ==
    [l1 |-> [lines |-> << <<Tmp, Pnfs>>, <<>>, <<Eos, Bucket>> >>, complete |-> TRUE],
     l2 |-> [lines |-> << <<Tmp, Pnfs>>, <<Eos, Bucket>> >>, complete |-> FALSE],
     l3 |-> [lines |-> << <<Tmp>>, <<Eos, Bucket>> >>, complete |-> TRUE],
     l4 |-> [lines |-> <<>>, complete |-> TRUE]]

MCListFiles == [p \in {ListPath(n) : n \in DOMAIN Lists} |-> Lists[p[3]]]

LinePairs(l) == SelectSeq(l.lines, LAMBDA x : Len(x) = 2)

Listed(n, groups, isdir) ==
    [args |-> (IF isdir THEN <<Opt("-D")>> ELSE <<>>) \o <<Opt("-f"), File(ListPath(n))>> \o
                  (IF groups = <<>> THEN <<>> ELSE <<Sep>> \o ArgsOf(groups)),
     pairs |-> LinePairs(Lists[n]) \o PairsOf(groups), isdir |-> isdir, list |-> TRUE,
     whole |-> Lists[n].complete]

MCCommands ==
    {Cmd(<<Group(<<Tmp>>, Pnfs)>>, FALSE), Cmd(<<Group(<<Tmp>>, Pnfs), Group(<<Eos>>, Tmp)>>, FALSE),
     Cmd(<<Group(<<Tmp, Eos>>, Pnfs), Group(<<Bucket>>, Scratch)>>, TRUE),
     Cmd(<<Group(<<Tmp>>, Pnfs), Group(<<Eos, Bucket, Scratch>>, Tmp)>>, TRUE),
     [args |-> <<File(Eos), Sep, Sep, File(Tmp), File(Pnfs), Sep>>, pairs |-> <<<<Tmp, Pnfs>>>>,
      isdir |-> FALSE, list |-> FALSE, whole |-> TRUE]} \union
    {Listed(n, g, d) : n \in DOMAIN Lists, d \in BOOLEAN,
                       g \in {<<>>, <<Group(<<Scratch>>, Bucket)>>}}

-----------------------------------------------------------------------------
(* Staging areas, trees and searches *)

Alt(star, labels, via) == [star |-> star, labels |-> labels, via |-> via]

MCVias ==
    [alts : {<<a, b>> : a \in {Alt(TRUE, <<"fnal", "gov">>, "v1"), Alt(FALSE, <<"n", "fnal", "gov">>, "v2"),
                               Alt(TRUE, <<"n">>, "v3")},
                        b \in {Alt(TRUE, <<>>, "v4"), Alt(TRUE, <<"gov">>, "v5")}},
     ended : BOOLEAN,
     host : {<<"n", "fnal", "gov">>, <<"m", "fnal", "gov">>, <<"n", "smu", "edu">>}]

Tree(dirs, files, failing) == [dirs |-> dirs, files |-> files, failing |-> failing]

A == <<"", "a">>
B == <<"", "b">>
Url == <<"root:", "", "h", "1094", "a">>

Plain == Tree({A, A \o <<"d">>, A \o <<"d", "e">>, B, Url, A \o <<"empty">>},
              {A \o <<"f">>, A \o <<"d", "f">>, A \o <<"d", "e", "f">>, A \o <<"d", "e", "h">>,
               B \o <<"f">>, B \o <<"g">>, Url \o <<"f">>, Url \o <<"g">>}, {})

Namesake == Tree({A, A \o <<"x">>}, {A \o <<"x", "x">>, A \o <<"f">>}, {})

MCTrees == {Plain, Namesake, [Plain EXCEPT !.failing = {A \o <<"d">>}]}

Piece(kind, text) == [kind |-> kind, text |-> text]
Part(wild, names, open) == [wild |-> wild, names |-> names, open |-> open]

LocalPieces == <<Piece("plain", A), Piece("plain", B)>>
UrlPieces == <<Piece("proto", <<"root:">>), Piece("host", <<"", "h">>), Piece("port", <<"1094", "a">>),
               Piece("plain", B)>>

AnyF == Part(TRUE, {"f"}, FALSE)
StarredF == Part(TRUE, {"f", "d", "x", "e", "g", "h"}, TRUE)
TheD == Part(FALSE, {"d"}, FALSE)

Search(pieces, dirs, parts, leading) ==
    [pieces |-> pieces, dirs |-> dirs, parts |-> parts, leading |-> leading]

MCSearches ==
    {Search(LocalPieces, {A, B}, parts, TRUE) :
        parts \in {<<AnyF>>, <<TheD, AnyF>>, <<StarredF>>, <<StarredF, AnyF>>, <<TheD>>}} \union
    {Search(LocalPieces, {A, B}, <<StarredF, TheD, AnyF>>, FALSE),
     Search(UrlPieces, {Url, B}, <<AnyF>>, TRUE), Search(UrlPieces, {Url, B}, <<TheD, AnyF>>, TRUE)}

=============================================================================
