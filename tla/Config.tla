-------------------------------- MODULE Config --------------------------------
(***************************************************************************)
(* WimpyConfigParser: ifdh.cfg as getdefault makes it out of lines, and    *)
(* what get and getlist answer from it.                                    *)
(*                                                                         *)
(* A value is a sequence of pieces: words, blanks, and references to       *)
(* macros.  A section's name has its kind apart: <<"protocol", "root:">>.  *)
(***************************************************************************)
EXTENDS Naturals, SequencesExt

CONSTANTS
    Macros,     \* the names of macros, in their order in the map
    RefTo,      \* the macro that each piece that is a reference refers to
    Holds       \* the conditionals whose test succeeds on this host

Blank == " "
NewLine == "\n"

General == <<"general", "">>

ASSUME MacrosAssumption ==
    /\ Macros \in Seq(STRING) /\ IsInjective(Macros)
    /\ DOMAIN RefTo \subseteq STRING /\ \A r \in DOMAIN RefTo : RefTo[r] \in Range(Macros)

With(f, x, v) == [y \in DOMAIN f \union {x} |-> IF y = x THEN v ELSE f[y]]

Without(f, x) == [y \in DOMAIN f \ {x} |-> f[y]]

(* A piece of a value, a name: none, a blank and an end of a line too.     *)
Word == STRING \union {"", Blank, NewLine}

Value == Seq(Word)
SectionName == Word \X Word

Line ==
    [kind : {"section"}, name : SectionName] \union
    [kind : {"pair"}, key : Word, val : Value] \union [kind : {"more"}, val : Value] \union
    [kind : {"comment", "blanks", "other"}]

-----------------------------------------------------------------------------
(* The parser's state.  A line of blanks makes it throw, and renaming to a *)
(* section that is not there erases the end of a map: not ok.              *)

NoData == [s \in {} |-> [o \in {} |-> <<>>]]

Start == [data |-> With(NoData, <<"", "">>, [o \in {} |-> <<>>]), section |-> <<"", "">>,
          key |-> "", val |-> <<>>, partial |-> FALSE, ok |-> TRUE]

AddSection(data, s) == IF s \in DOMAIN data THEN data ELSE With(data, s, [o \in {} |-> <<>>])

(* Mutant: the last value wins.                                            *)
Overwrite(data, s, o, v) == [data EXCEPT ![s] = With(@, o, v)]

(* insert: the first value wins.                                           *)
SetOption(data, s, o, v) ==
    IF s \notin DOMAIN data \/ o \in DOMAIN data[s] THEN data
    ELSE [data EXCEPT ![s] = With(@, o, v)]

(* The option read so far is set once the next one or a section begins.    *)
Flush(st) ==
    IF st.partial
    THEN [st EXCEPT !.data = SetOption(@, st.section, st.key, st.val),
                    !.key = "", !.val = <<>>, !.partial = FALSE]
    ELSE st

(* One line of readfp's loop; nothing is read after an exception.          *)
ReadLine(st, line) ==
    IF ~st.ok THEN st
    ELSE CASE line.kind = "comment" -> st
           [] line.kind = "blanks" -> [st EXCEPT !.ok = FALSE]
           [] line.kind = "section" ->
                 [Flush(st) EXCEPT !.section = line.name, !.data = AddSection(@, line.name)]
           [] line.kind = "more" -> [st EXCEPT !.val = @ \o <<NewLine>> \o line.val]
           [] line.kind = "pair" ->
                 [Flush(st) EXCEPT !.key = line.key, !.val = line.val, !.partial = TRUE]
           [] line.kind = "other" -> Flush(st)

-----------------------------------------------------------------------------
(* Answers *)

Rawget(data, s, o) ==
    IF s \in DOMAIN data /\ o \in DOMAIN data[s] THEN data[s][o] ELSE <<>>

HasSection(data, s) == s \in DOMAIN data

Replace(v, i, w) == SubSeq(v, 1, i - 1) \o w \o SubSeq(v, i + 1, Len(v))

RefsIn(v, m) == {i \in DOMAIN v : v[i] \in DOMAIN RefTo /\ RefTo[v[i]] = m}

(* Mutant: one reference to a macro is enough.                             *)
ExpandFirst(v, m, w) ==
    IF RefsIn(v, m) = {} THEN v
    ELSE Replace(v, CHOOSE i \in RefsIn(v, m) : \A j \in RefsIn(v, m) : i <= j, w)

(* Every reference to one macro; a macro that refers to itself would go on *)
(* for ever.                                                               *)
ExpandAll(v, m, w) ==
    FlattenSeq([i \in DOMAIN v |-> IF i \in RefsIn(v, m) THEN w ELSE <<v[i]>>])

Expand(data, v) ==
    LET macros == <<"macros", "">>
        One(r, m) == IF macros \in DOMAIN data /\ m \in DOMAIN data[macros]
                     THEN ExpandAll(r, m, data[macros][m])
                     ELSE r
        expanded[k \in 0 .. Len(Macros)] ==
            IF k = 0 THEN v ELSE One(expanded[k - 1], Macros[k])
    IN  expanded[Len(Macros)]

Get(data, s, o) == Expand(data, Rawget(data, s, o))

(* utils split, with neither quotes nor runs: two blanks make an empty     *)
(* word, which is here the empty sequence.                                 *)
Split(v, sep) ==
    IF v = <<>> THEN <<>>
    ELSE LET Add(words, p) ==
                 IF p = sep THEN Append(words, <<>>)
                 ELSE Append(Front(words), Append(Last(words), p))
             words[k \in 0 .. Len(v)] == IF k = 0 THEN << <<>> >> ELSE Add(words[k - 1], v[k])
         IN  words[Len(v)]

GetList(data, s, o) == Split(Get(data, s, o), Blank)

(* Words of one piece, as names are.                                       *)
NamesIn(list) ==
    [i \in DOMAIN list |-> IF list[i] = <<>> THEN "" ELSE list[i][1]]

Names(data, s, o) == NamesIn(GetList(data, s, o))

-----------------------------------------------------------------------------
(* getdefault: the conditionals and the aliases *)

RenameSection(st, s1, s2, copy) ==
    IF ~st.ok \/ s1 \notin DOMAIN st.data THEN st
    ELSE IF s2 \notin DOMAIN st.data THEN [st EXCEPT !.ok = FALSE]
    ELSE LET renamed == [st EXCEPT !.data = With(@, s2, st.data[s1])]
         IN  IF copy THEN renamed ELSE [renamed EXCEPT !.data = Without(@, s1)]

(* Of rename_proto, rename_loc and rename_rot the first with two names.    *)
RenameKinds == << <<"rename_proto", "protocol">>, <<"rename_loc", "location">>,
                  <<"rename_rot", "rotation">> >>

Conditional(st, c) ==
    LET section == <<"conditional", c>>
        able == {i \in DOMAIN RenameKinds :
                    Len(Names(st.data, section, RenameKinds[i][1])) > 1}
    IN  IF c = "" \/ c \notin Holds \/ ~st.ok THEN st
        ELSE IF able = {} THEN [st EXCEPT !.ok = FALSE]
        ELSE LET kind == RenameKinds[Min(able)]
                 names == Names(st.data, section, kind[1])
             IN  RenameSection(st, <<kind[2], names[1]>>, <<kind[2], names[2]>>, FALSE)

Alias(st, p) ==
    LET av == Names(st.data, <<"protocol", p>>, "alias")
    IN  IF ~st.ok \/ av = <<>> THEN st
        ELSE RenameSection(st, <<"protocol", av[1]>>, <<"protocol", p>>, TRUE)

(* What is left to do when all lines are read.                             *)
Configured(st) ==
    LET read == Flush(st)
        tests == Names(read.data, General, "conditionals")
        renamed[k \in 0 .. Len(tests)] ==
            IF k = 0 THEN read ELSE Conditional(renamed[k - 1], tests[k])
        before == renamed[Len(tests)]
        protocols == Names(before.data, General, "protocols")
        aliased[k \in 0 .. Len(protocols)] ==
            IF k = 0 THEN before ELSE Alias(aliased[k - 1], protocols[k])
    IN  aliased[Len(protocols)]

=============================================================================
