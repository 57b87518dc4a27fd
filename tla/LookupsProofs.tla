---------------------------- MODULE LookupsProofs -----------------------------
(***************************************************************************)
(* Proofs about Lookups: what the parts of the library that compute answer *)
(* for every configuration file, every tree and every question.            *)
(***************************************************************************)
EXTENDS Lookups, SequenceTheorems, FiniteSetTheorems, WellFoundedInduction, TLAPS

-----------------------------------------------------------------------------
(* Numbers and recursive functions *)

(* A set of numbers that is not empty has a least one, and Min is it.      *)
LEMMA LeastIsMin ==
  ASSUME NEW T \in SUBSET Nat, T # {}
  PROVE  Min(T) \in T /\ \A y \in T : Min(T) <= y
<1> DEFINE R == {ss \in Nat \X Nat : ss[1] < ss[2]}
<1>1. IsWellFoundedOn(R, Nat)
  BY NatLessThanWellFounded DEF OpToRel
<1>2. PICK x \in T : \A y \in T : ~(<<y, x>> \in R)
  BY <1>1, WFMin
<1>3. ASSUME NEW y \in T PROVE ~(y < x)
  BY <1>2
<1>4. \A y \in T : x <= y
  BY <1>3
<1> QED
  BY <1>4 DEF Min

(* A function defined by steps from the one before exists.                 *)
LEMMA Iterates ==
  ASSUME NEW S, NEW base \in S, NEW n \in Nat, NEW step \in [1 .. n -> [S -> S]]
  PROVE  \E f \in [0 .. n -> S] :
            f[0] = base /\ \A k \in 1 .. n : f[k] = step[k][f[k - 1]]
<1> DEFINE Goes(f, m) == f[0] = base /\ \A k \in 1 .. m : f[k] = step[k][f[k - 1]]
           Stuck == {m \in 0 .. n : ~\E f \in [0 .. m -> S] : Goes(f, m)}
<1>1. SUFFICES ASSUME n \in Stuck PROVE FALSE
  OBVIOUS
<1>2. Min(Stuck) \in Stuck /\ \A y \in Stuck : Min(Stuck) <= y
  <2>1. Stuck \in SUBSET Nat /\ Stuck # {}
    BY <1>1
  <2> HIDE DEF Stuck
  <2> QED
    BY <2>1, LeastIsMin
<1>3. PICK m \in Stuck : \A y \in Stuck : m <= y
  BY <1>2
<1>4. m # 0
  <2>1. [k \in 0 .. 0 |-> base] \in [0 .. 0 -> S] /\ Goes([k \in 0 .. 0 |-> base], 0)
    OBVIOUS
  <2> QED
    BY <2>1
<1>5. m - 1 \in 0 .. n /\ m - 1 \notin Stuck
  BY <1>3, <1>4
<1>6. PICK f \in [0 .. m - 1 -> S] : Goes(f, m - 1)
  BY <1>5
<1> DEFINE g == [k \in 0 .. m |-> IF k = m THEN step[m][f[m - 1]] ELSE f[k]]
<1>7. m \in 1 .. n /\ m - 1 \in 0 .. m - 1 /\ f[m - 1] \in S
  BY <1>3, <1>4, <1>6
<1>8. step[m][f[m - 1]] \in S
  BY <1>7
<1>9. g \in [0 .. m -> S]
  BY <1>7, <1>8
<1>10. Goes(g, m)
  <2>1. g[0] = base
    BY <1>4, <1>6, <1>7
  <2>2. ASSUME NEW k \in 1 .. m PROVE g[k] = step[k][g[k - 1]]
    <3>1. CASE k = m
      BY <3>1, <1>7
    <3>2. CASE k # m
      <4>1. k \in 1 .. m - 1 /\ k - 1 \in 0 .. m - 1 /\ k - 1 # m /\ k - 1 \in 0 .. m
        BY <3>2, <1>7
      <4> QED
        BY <1>6, <3>2, <4>1
    <3> QED
      BY <3>1, <3>2
  <2> QED
    BY <2>1, <2>2
<1> QED
  BY <1>3, <1>9, <1>10

Steps(n, S) == [1 .. n -> [S -> S]]

Leads(S, base, n, step) ==
    \E f \in [0 .. n -> S] : f[0] = base /\ \A k \in 1 .. n : f[k] = step[k][f[k - 1]]

LEMMA IteratesBy ==
  ASSUME NEW S, NEW base \in S, NEW n \in Nat, NEW step \in Steps(n, S)
  PROVE  Leads(S, base, n, step)
BY Iterates DEF Steps, Leads

(* Induction, for the set of the numbers that have a property.             *)
LEMMA UpTo ==
  ASSUME NEW n \in Nat, NEW T, 0 \in T, \A k \in 1 .. n : k - 1 \in T => k \in T
  PROVE  0 .. n \subseteq T
<1> DEFINE Bad == (0 .. n) \ T
<1>1. SUFFICES ASSUME Bad # {} PROVE FALSE
  OBVIOUS
<1>2. Bad \in SUBSET Nat
  OBVIOUS
<1>3. PICK m \in Bad : \A y \in Bad : m <= y
  <2> HIDE DEF Bad
  <2> QED
    BY <1>1, <1>2, LeastIsMin
<1>4. m \in 0 .. n /\ m \notin T
  OBVIOUS
<1>5. m \in 1 .. n
  BY <1>4
<1>6. m - 1 \in 0 .. n /\ m - 1 \notin T
  BY <1>4, <1>5
<1> QED
  BY <1>3, <1>6, <1>5

-----------------------------------------------------------------------------
(* Sequences *)

LEMMA OneLess ==
  ASSUME NEW n \in Nat, NEW k \in 1 .. n
  PROVE  /\ k \in 0 .. n /\ k - 1 \in 0 .. n /\ k # 0 /\ n # 0
         /\ k = 1 => k - 1 = 0
         /\ k # 1 => k - 1 \in 1 .. n /\ k - 1 # 0
OBVIOUS

LEMMA NotNone ==
  ASSUME NEW n \in Nat PROVE 0 \in 0 .. n /\ n \in 0 .. n /\ (n # 0 => n \in 1 .. n)
OBVIOUS

LEMMA Joining ==
  ASSUME NEW S, NEW s \in Seq(S), NEW t \in Seq(S)
  PROVE  s \o t \in Seq(S) /\ <<>> \o t = t /\ s \o <<>> = s
BY ConcatProperties, ConcatEmptySeq

LEMMA Member ==
  ASSUME NEW S, NEW s \in Seq(S)
  PROVE  /\ Len(s) \in Nat /\ DOMAIN s = 1 .. Len(s) /\ \A i \in 1 .. Len(s) : s[i] \in S
         /\ Len(s) = 0 <=> s = <<>>
BY LenProperties, ElementOfSeq, EmptySeq

LEMMA Accumulates ==
  ASSUME NEW S, NEW Q, Q = Seq(S), NEW seqs \in Seq(Q)
  PROVE  \E e \in [0 .. Len(seqs) -> Q] :
            e[0] = <<>> /\ \A k \in 1 .. Len(seqs) : e[k] = e[k - 1] \o seqs[k]
<1>n. PICK n : n = Len(seqs)
  OBVIOUS
<1>8. n \in Nat /\ \A k \in 1 .. n : seqs[k] \in Q
  BY Zenon, <1>n, Member
<1>9. n \in Nat
  BY Zenon, <1>8
<1>1. Q = Seq(S)
  OBVIOUS
<1>2. PICK b : b = <<>>
  OBVIOUS
<1>3. PICK step : step = [k \in 1 .. n |-> [x \in Q |-> x \o seqs[k]]]
  OBVIOUS
<1>4. b \in Q
  BY Zenon, <1>1, <1>2, EmptySeq
<1>5. step \in [1 .. n -> [Q -> Q]]
  <2>1. \A k \in 1 .. n : \A x \in Q : x \o seqs[k] \in Q
    BY Zenon, <1>1, <1>8, Joining
  <2> QED
    BY Zenon, <1>3, <2>1
<1>6. PICK e \in [0 .. n -> Q] : e[0] = b /\ \A k \in 1 .. n : e[k] = step[k][e[k - 1]]
  <2>1. step \in Steps(n, Q)
    BY Zenon, <1>5 DEF Steps
  <2>2. Leads(Q, b, n, step)
    BY Zenon, <1>4, <1>9, <2>1, IteratesBy
  <2> QED
    BY Zenon, <2>2 DEF Leads
<1>7. \A k \in 1 .. n : k - 1 \in 0 .. n
  BY Zenon, <1>8, OneLess
<1> QED
  BY Zenon, <1>n, <1>1, <1>2, <1>3, <1>6, <1>7

(* FlattenSeq puts its sequences one after the other.                      *)
LEMMA FlattenIs ==
  ASSUME NEW S, NEW seqs \in Seq(Seq(S))
  PROVE  \E f \in [0 .. Len(seqs) -> Seq(S)] :
            /\ f[0] = <<>>
            /\ \A k \in 1 .. Len(seqs) : f[k] = f[k - 1] \o seqs[k]
            /\ FlattenSeq(seqs) = f[Len(seqs)]
<1>1. Len(seqs) \in Nat /\ \A k \in 1 .. Len(seqs) : seqs[k] \in Seq(S)
  BY Zenon, Member
<1>3. \E e \in [0 .. Len(seqs) -> Seq(S)] :
         e[0] = <<>> /\ \A k \in 1 .. Len(seqs) : e[k] = e[k - 1] \o seqs[k]
  BY Zenon, Accumulates
<1> DEFINE n == Len(seqs)
           Eq(g) == g = [i \in 1 .. n |-> IF i = 1 THEN seqs[i] ELSE g[i - 1] \o seqs[i]]
           h == CHOOSE g : Eq(g)
           f == [k \in 0 .. n |-> IF k = 0 THEN <<>> ELSE h[k]]
<1>2. n \in Nat /\ \A k \in 1 .. n : seqs[k] \in Seq(S)
  BY Zenon, <1>1
<1>11. PICK e \in [0 .. n -> Seq(S)] : e[0] = <<>> /\ \A k \in 1 .. n : e[k] = e[k - 1] \o seqs[k]
  BY Zenon, <1>3
<1>0. /\ 0 \in 0 .. n /\ n \in 0 .. n /\ (n # 0 => n \in 1 .. n)
      /\ \A k \in 1 .. n : /\ k \in 0 .. n /\ k - 1 \in 0 .. n /\ k # 0
                           /\ k = 1 => k - 1 = 0
                           /\ k # 1 => k - 1 \in 1 .. n /\ k - 1 # 0
  BY Zenon, <1>2, NotNone, OneLess
<1> HIDE DEF n
<1>4. e[0] = <<>> /\ \A k \in 1 .. n : e[k] = e[k - 1] \o seqs[k]
  BY Zenon, <1>11
<1>5. Eq([k \in 1 .. n |-> e[k]])
  <2>1. ASSUME NEW i \in 1 .. n
        PROVE  e[i] = IF i = 1 THEN seqs[i] ELSE [k \in 1 .. n |-> e[k]][i - 1] \o seqs[i]
    <3>1. CASE i = 1
      <4>1. e[i] = <<>> \o seqs[i]
        BY Zenon, <1>0, <1>4, <3>1
      <4> QED
        BY Zenon, <1>2, <3>1, <4>1, Joining
    <3>2. CASE i # 1
      BY Zenon, <1>0, <1>4, <3>2
    <3> QED
      BY <3>1, <3>2
  <2>2. [i \in 1 .. n |-> e[i]]
          = [i \in 1 .. n |-> IF i = 1 THEN seqs[i] ELSE [k \in 1 .. n |-> e[k]][i - 1] \o seqs[i]]
    BY Zenon, <2>1
  <2> QED
    BY Zenon, <2>2
<1>6. Eq(h)
  BY Zenon, <1>5
<1>7. \A k \in 1 .. n : h[k] = IF k = 1 THEN seqs[k] ELSE h[k - 1] \o seqs[k]
  BY Zenon, <1>6
<1> HIDE DEF h
<1>f. f[0] = <<>> /\ \A k \in 1 .. n : f[k] = h[k]
  BY Zenon, <1>0
<1>8. \A k \in 1 .. n : f[k] = f[k - 1] \o seqs[k]
  <2> SUFFICES ASSUME NEW k \in 1 .. n PROVE f[k] = f[k - 1] \o seqs[k]
    OBVIOUS
  <2> HIDE DEF f
  <2>1. CASE k = 1
    <3>1. f[k] = seqs[k] /\ f[k - 1] = <<>>
      BY Zenon, <1>0, <1>7, <1>f, <2>1
    <3> QED
      BY Zenon, <1>2, <3>1, Joining
  <2>2. CASE k # 1
    BY Zenon, <1>0, <1>7, <1>f, <2>2
  <2> QED
    BY <2>1, <2>2
<1> USE DEF f
<1>g. f = [k \in 0 .. n |-> f[k]]
  BY Zenon
<1> HIDE DEF f
<1>9. f \in [0 .. n -> Seq(S)]
  <2> DEFINE T == {k \in 0 .. n : f[k] \in Seq(S)}
  <2>1. 0 \in T
    BY Zenon, <1>0, <1>f, EmptySeq
  <2>2. ASSUME NEW k \in 1 .. n, k - 1 \in T PROVE k \in T
    <3>1. f[k - 1] \in Seq(S) /\ seqs[k] \in Seq(S)
      BY Zenon, <1>2, <2>2
    <3>2. f[k - 1] \o seqs[k] \in Seq(S)
      BY Zenon, <3>1, Joining
    <3>3. f[k] = f[k - 1] \o seqs[k]
      BY Zenon, <1>8
    <3> QED
      BY Zenon, <1>0, <3>2, <3>3
  <2>3. 0 .. n \subseteq T
    <3> HIDE DEF T
    <3> QED
      BY <1>2, <2>1, <2>2, UpTo
  <2> QED
    BY Zenon, <1>g, <2>3
<1>10. FlattenSeq(seqs) = f[n]
  <2>1. CASE n = 0
    BY Zenon, <2>1, <1>f, Member DEF FlattenSeq, n
  <2>2. CASE n # 0
    <3>1. FlattenSeq(seqs) = h[n]
      BY Zenon, <2>2 DEF FlattenSeq, h, n
    <3> QED
      BY Zenon, <1>0, <1>f, <2>2, <3>1
  <2> QED
    BY <2>1, <2>2
<1> QED
  BY Zenon, <1>f, <1>8, <1>9, <1>10 DEF n

-----------------------------------------------------------------------------
(* What the parser keeps *)

Partial(D, R) == UNION {[S -> R] : S \in SUBSET D}

Options0 == Partial(Word, Value)

Data == Partial(SectionName, Options0)

Parser == [data : Data, section : SectionName, key : Word, val : Value,
           partial : BOOLEAN, ok : BOOLEAN]

LEMMA PartialIs ==
  ASSUME NEW D, NEW R, NEW f
  PROVE  f \in Partial(D, R) <=>
            DOMAIN f \subseteq D /\ f = [x \in DOMAIN f |-> f[x]] /\ \A x \in DOMAIN f : f[x] \in R
BY DEF Partial

LEMMA WithPartial ==
  ASSUME NEW D, NEW R, NEW f \in Partial(D, R), NEW x \in D, NEW v \in R
  PROVE  With(f, x, v) \in Partial(D, R)
BY PartialIs DEF With

LEMMA WithoutPartial ==
  ASSUME NEW D, NEW R, NEW f \in Partial(D, R), NEW x
  PROVE  Without(f, x) \in Partial(D, R)
BY PartialIs DEF Without

LEMMA ExceptPartial ==
  ASSUME NEW D, NEW R, NEW f \in Partial(D, R), NEW x, NEW v \in R
  PROVE  [f EXCEPT ![x] = v] \in Partial(D, R)
BY PartialIs

LEMMA NonePartial ==
  ASSUME NEW D, NEW R, NEW v
  PROVE  [x \in {} |-> v] \in Partial(D, R)
<1>1. [x \in {} |-> v] \in [{} -> R] /\ {} \in SUBSET D
  OBVIOUS
<1> QED
  BY Zenon, <1>1 DEF Partial

LEMMA Words == "" \in Word /\ NewLine \in Word /\ <<>> \in Value /\ <<NewLine>> \in Value
BY DEF Word, Value, NewLine

LEMMA StartTyped == Start \in Parser
<1>1. [o \in {} |-> <<>>] \in Options0
  BY NonePartial DEF Options0
<1>2. NoData \in Data
  BY NonePartial DEF NoData, Data
<1>3. <<"", "">> \in SectionName
  BY Words DEF SectionName
<1>4. With(NoData, <<"", "">>, [o \in {} |-> <<>>]) \in Data
  BY <1>1, <1>2, <1>3, WithPartial DEF Data
<1>5. <<>> \in Value /\ "" \in Word
  BY Words
<1> QED
  BY <1>3, <1>4, <1>5 DEF Start, Parser

LEMMA ParserIs ==
  ASSUME NEW data \in Data, NEW section \in SectionName, NEW key \in Word, NEW val \in Value,
         NEW partial \in BOOLEAN, NEW ok \in BOOLEAN
  PROVE  [data |-> data, section |-> section, key |-> key, val |-> val, partial |-> partial, ok |-> ok]
            \in Parser
BY DEF Parser

LEMMA SetOptionTyped ==
  ASSUME NEW data \in Data, NEW s, NEW o \in Word, NEW v \in Value
  PROVE  SetOption(data, s, o, v) \in Data
<1>1. CASE s \notin DOMAIN data \/ o \in DOMAIN data[s]
  BY <1>1 DEF SetOption
<1>2. CASE s \in DOMAIN data /\ o \notin DOMAIN data[s]
  <2>1. data[s] \in Partial(Word, Value)
    BY <1>2, PartialIs DEF Data, Options0
  <2>2. With(data[s], o, v) \in Options0
    BY <2>1, WithPartial DEF Options0
  <2>3. SetOption(data, s, o, v) = [data EXCEPT ![s] = With(data[s], o, v)]
    BY <1>2 DEF SetOption
  <2> QED
    <3>1. data \in Partial(SectionName, Options0)
      BY DEF Data
    <3>2. [data EXCEPT ![s] = With(data[s], o, v)] \in Partial(SectionName, Options0)
      BY Zenon, <2>2, <3>1, ExceptPartial
    <3> QED
      BY Zenon, <2>3, <3>2 DEF Data
<1> QED
  BY <1>1, <1>2

LEMMA AddSectionTyped ==
  ASSUME NEW data \in Data, NEW s \in SectionName
  PROVE  AddSection(data, s) \in Data
<1>1. [o \in {} |-> <<>>] \in Options0
  BY NonePartial DEF Options0
<1>2. With(data, s, [o \in {} |-> <<>>]) \in Data
  BY <1>1, WithPartial DEF Data
<1> QED
  BY <1>2 DEF AddSection

LEMMA FlushTyped ==
  ASSUME NEW st \in Parser
  PROVE  Flush(st) \in Parser
<1>1. CASE ~st.partial
  BY <1>1 DEF Flush
<1>2. CASE st.partial
  <2>1. st.data \in Data /\ st.key \in Word /\ st.val \in Value
    BY DEF Parser
  <2>2. SetOption(st.data, st.section, st.key, st.val) \in Data
    BY <2>1, SetOptionTyped
  <2>3. Flush(st) = [data |-> SetOption(st.data, st.section, st.key, st.val),
                     section |-> st.section, key |-> "", val |-> <<>>, partial |-> FALSE, ok |-> st.ok]
    BY <1>2 DEF Flush, Parser
  <2>4. <<>> \in Value /\ "" \in Word
    BY Words
  <2>5. st.section \in SectionName /\ st.ok \in BOOLEAN
    BY DEF Parser
  <2> QED
    BY Zenon, <2>2, <2>3, <2>4, <2>5, ParserIs
<1> QED
  BY <1>1, <1>2

LEMMA LineIs ==
  ASSUME NEW line \in Line
  PROVE  /\ line.kind \in {"section", "pair", "more", "comment", "blanks", "other"}
         /\ line.kind = "section" => line.name \in SectionName
         /\ line.kind = "pair" => line.key \in Word /\ line.val \in Value
         /\ line.kind = "more" => line.val \in Value
BY DEF Line

LEMMA ReadLineTyped ==
  ASSUME NEW st \in Parser, NEW line \in Line
  PROVE  ReadLine(st, line) \in Parser
<1>1. Flush(st) \in Parser
  BY FlushTyped
<1>2. CASE ~st.ok \/ line.kind = "comment"
  <2>1. ReadLine(st, line) = st
    BY <1>2 DEF ReadLine
  <2> QED
    BY <2>1
<1>3. CASE st.ok /\ line.kind = "blanks"
  <2>1. ReadLine(st, line) = [st EXCEPT !.ok = FALSE]
    BY <1>3 DEF ReadLine
  <2> QED
    BY <2>1 DEF Parser
<1>4. CASE st.ok /\ line.kind = "section"
  <2>1. ReadLine(st, line) = [Flush(st) EXCEPT !.section = line.name,
                                               !.data = AddSection(Flush(st).data, line.name)]
    BY <1>4 DEF ReadLine
  <2>2. line.name \in SectionName /\ Flush(st).data \in Data
    BY <1>1, <1>4, LineIs DEF Parser
  <2>3. AddSection(Flush(st).data, line.name) \in Data
    BY <2>2, AddSectionTyped
  <2> QED
    BY <1>1, <2>1, <2>2, <2>3 DEF Parser
<1>5. CASE st.ok /\ line.kind = "more"
  <2>1. ReadLine(st, line) = [st EXCEPT !.val = st.val \o <<NewLine>> \o line.val]
    BY <1>5 DEF ReadLine
  <2>2. line.val \in Value /\ st.val \in Value
    BY <1>5, LineIs DEF Parser
  <2>3. st.val \o <<NewLine>> \o line.val \in Value
    BY Zenon, <2>2, Words, Joining DEF Value
  <2> QED
    BY <2>1, <2>3 DEF Parser
<1>6. CASE st.ok /\ line.kind = "pair"
  <2>1. ReadLine(st, line) = [Flush(st) EXCEPT !.key = line.key, !.val = line.val, !.partial = TRUE]
    BY <1>6 DEF ReadLine
  <2>2. line.val \in Value /\ line.key \in Word
    BY <1>6, LineIs
  <2> QED
    BY <1>1, <2>1, <2>2 DEF Parser
<1>7. CASE st.ok /\ line.kind = "other"
  BY <1>1, <1>7 DEF ReadLine
<1> QED
  BY <1>2, <1>3, <1>4, <1>5, <1>6, <1>7, LineIs DEF Parser

LEMMA IsSeq ==
  ASSUME NEW R, NEW n \in Nat, NEW f \in [1 .. n -> R]
  PROVE  f \in Seq(R) /\ Len(f) = n /\ DOMAIN f = 1 .. n
OBVIOUS

(* The values of a function that is defined by steps.                      *)
LEMMA Stepped ==
  ASSUME NEW S, NEW n \in Nat, NEW h, h[0] \in S,
         \A k \in 1 .. n : h[k - 1] \in S => h[k] \in S
  PROVE  \A k \in 0 .. n : h[k] \in S
<1> DEFINE T == {k \in 0 .. n : h[k] \in S}
<1>1. 0 \in T
  OBVIOUS
<1>2. ASSUME NEW k \in 1 .. n, k - 1 \in T PROVE k \in T
  BY <1>2
<1>3. 0 .. n \subseteq T
  <2> HIDE DEF T
  <2> QED
    BY <1>1, <1>2, UpTo
<1> QED
  BY <1>3

LEMMA ExpandAllTyped ==
  ASSUME NEW v \in Value, NEW m, NEW w \in Value
  PROVE  ExpandAll(v, m, w) \in Value
<1> DEFINE seqs == [i \in DOMAIN v |-> IF i \in RefsIn(v, m) THEN w ELSE <<v[i]>>]
<1>1. Len(v) \in Nat /\ DOMAIN v = 1 .. Len(v) /\ \A i \in 1 .. Len(v) : v[i] \in Word
  BY Zenon, Member DEF Value
<1>2. \A i \in 1 .. Len(v) : <<v[i]>> \in Value
  BY <1>1 DEF Value
<1>3. seqs \in [1 .. Len(v) -> Value]
  BY Zenon, <1>1, <1>2
<1>4. seqs \in Seq(Value)
  BY Zenon, <1>1, <1>3, IsSeq
<1> HIDE DEF seqs
<1>5. Len(seqs) \in 0 .. Len(seqs)
  BY Zenon, <1>4, Member, NotNone
<1>6. \E f \in [0 .. Len(seqs) -> Value] : FlattenSeq(seqs) = f[Len(seqs)]
  BY Zenon, <1>4, FlattenIs DEF Value
<1>7. FlattenSeq(seqs) \in Value
  BY Zenon, <1>5, <1>6
<1> QED
  BY Zenon, <1>7 DEF ExpandAll, seqs

MacroSection == <<"macros", "">>

(* What Expand does for one macro.                                         *)
ExpandOne(data, r, m) ==
    IF MacroSection \in DOMAIN data /\ m \in DOMAIN data[MacroSection]
    THEN ExpandAll(r, m, data[MacroSection][m])
    ELSE r

LEMMA OptionTyped ==
  ASSUME NEW data \in Data, NEW s \in DOMAIN data, NEW o \in DOMAIN data[s]
  PROVE  data[s][o] \in Value
BY PartialIs DEF Data, Options0

LEMMA ExpandOneTyped ==
  ASSUME NEW data \in Data, NEW r \in Value, NEW m
  PROVE  ExpandOne(data, r, m) \in Value
BY Zenon, OptionTyped, ExpandAllTyped DEF ExpandOne

(* Expand goes through the macros, from the first to the last.             *)
LEMMA ExpandIs ==
  ASSUME NEW data \in Data, NEW v \in Value
  PROVE  \E f \in [0 .. Len(Macros) -> Value] :
            /\ f[0] = v
            /\ \A k \in 1 .. Len(Macros) : f[k] = ExpandOne(data, f[k - 1], Macros[k])
            /\ Expand(data, v) = f[Len(Macros)]
<1>1. PICK n : n = Len(Macros)
  OBVIOUS
<1>2. n \in Nat
  BY <1>1, MacrosAssumption
<1>3. n \in 0 .. n /\ \A k \in 1 .. n : k \in 0 .. n /\ k - 1 \in 0 .. n /\ k # 0
  BY <1>2
<1>4. 0 \in 0 .. n
  BY <1>2
<1> DEFINE step == [k \in 1 .. n |-> [r \in Value |-> ExpandOne(data, r, Macros[k])]]
           Eq(g) == g = [k \in 0 .. n |-> IF k = 0 THEN v ELSE ExpandOne(data, g[k - 1], Macros[k])]
           h == CHOOSE g : Eq(g)
<1>5. PICK e \in [0 .. n -> Value] : e[0] = v /\ \A k \in 1 .. n : e[k] = ExpandOne(data, e[k - 1], Macros[k])
  <2>1. step \in Steps(n, Value)
    BY Zenon, ExpandOneTyped DEF Steps
  <2>2. Leads(Value, v, n, step)
    BY Zenon, <1>2, <2>1, IteratesBy
  <2>3. PICK e \in [0 .. n -> Value] : e[0] = v /\ \A k \in 1 .. n : e[k] = step[k][e[k - 1]]
    BY Zenon, <2>2 DEF Leads
  <2> QED
    BY Zenon, <1>3, <2>3
<1>6. Eq(e)
  <2>1. \A k \in 0 .. n : e[k] = IF k = 0 THEN v ELSE ExpandOne(data, e[k - 1], Macros[k])
    BY <1>2, <1>5
  <2> QED
    BY Zenon, <2>1
<1>7. Eq(h)
  BY Zenon, <1>6
<1> HIDE DEF h
<1>8. h[0] = v /\ \A k \in 1 .. n : h[k] = ExpandOne(data, h[k - 1], Macros[k])
  BY Zenon, <1>3, <1>4, <1>7
<1>9. \A k \in 1 .. n : h[k - 1] \in Value => h[k] \in Value
  BY Zenon, <1>8, ExpandOneTyped
<1>10. \A k \in 0 .. n : h[k] \in Value
  BY Zenon, <1>2, <1>8, <1>9, Stepped
<1>11. h \in [0 .. n -> Value]
  BY Zenon, <1>7, <1>10
<1>12. Expand(data, v) = h[n]
  BY Zenon, <1>1 DEF Expand, h, ExpandOne, MacroSection
<1> QED
  BY Zenon, <1>1, <1>8, <1>11, <1>12

LEMMA ExpandTyped ==
  ASSUME NEW data \in Data, NEW v \in Value
  PROVE  Expand(data, v) \in Value
<1>1. Len(Macros) \in 0 .. Len(Macros)
  BY MacrosAssumption
<1>2. PICK f \in [0 .. Len(Macros) -> Value] : Expand(data, v) = f[Len(Macros)]
  BY Zenon, ExpandIs
<1> QED
  BY Zenon, <1>1, <1>2

LEMMA GetTyped ==
  ASSUME NEW data \in Data, NEW s, NEW o
  PROVE  Rawget(data, s, o) \in Value /\ Get(data, s, o) \in Value
BY Zenon, OptionTyped, ExpandTyped, Words DEF Rawget, Get

(* What Split does for one piece.                                          *)
SplitOne(words, p, sep) ==
    IF p = sep THEN Append(words, <<>>)
    ELSE Append(Front(words), Append(Last(words), p))

WordLists == Seq(Value) \ {<<>>}

LEMMA FrontLast ==
  ASSUME NEW S, NEW s \in Seq(S), s # <<>>
  PROVE  Front(s) \in Seq(S) /\ Last(s) \in S /\ Len(Front(s)) = Len(s) - 1
<1>1. Len(s) \in Nat /\ Len(s) # 0 /\ s \in [1 .. Len(s) -> S]
  OBVIOUS
<1>2. Len(s) \in 1 .. Len(s) /\ Len(s) - 1 \in Nat /\ 1 .. Len(s) - 1 \subseteq 1 .. Len(s)
  BY <1>1
<1>3. Front(s) = [i \in 1 .. Len(s) - 1 |-> s[i]]
  BY <1>1, <1>2 DEF Front
<1>4. Front(s) \in [1 .. Len(s) - 1 -> S]
  BY Zenon, <1>1, <1>2, <1>3
<1>5. Front(s) \in Seq(S) /\ Len(Front(s)) = Len(s) - 1
  BY Zenon, <1>2, <1>4, IsSeq
<1> QED
  BY <1>1, <1>2, <1>5 DEF Last

LEMMA Single ==
  ASSUME NEW S, NEW x \in S PROVE <<x>> \in Seq(S) /\ <<x>> # <<>>
OBVIOUS

LEMMA SplitOneTyped ==
  ASSUME NEW words \in WordLists, NEW p \in Word, NEW sep
  PROVE  SplitOne(words, p, sep) \in WordLists
<1>1. words \in Seq(Value) /\ words # <<>>
  BY Zenon DEF WordLists
<1>2. Last(words) \in Value /\ Front(words) \in Seq(Value)
  BY Zenon, <1>1, FrontLast
<1>3. Append(Last(words), p) \in Value
  BY Zenon, <1>2, AppendProperties DEF Value
<1>4. ASSUME NEW l \in Seq(Value), NEW e \in Value PROVE Append(l, e) \in WordLists
  BY Zenon, AppendProperties DEF WordLists
<1> QED
  BY Zenon, <1>1, <1>2, <1>3, <1>4, Words DEF SplitOne

(* Split goes through the pieces, from the first to the last.              *)
LEMMA SplitIs ==
  ASSUME NEW v \in Value, NEW sep, v # <<>>
  PROVE  \E f \in [0 .. Len(v) -> WordLists] :
            /\ f[0] = << <<>> >>
            /\ \A k \in 1 .. Len(v) : f[k] = SplitOne(f[k - 1], v[k], sep)
            /\ Split(v, sep) = f[Len(v)]
<1>1. PICK n : n = Len(v)
  OBVIOUS
<1>2. n \in Nat /\ \A k \in 1 .. n : v[k] \in Word
  BY Zenon, <1>1, Member DEF Value
<1>0. n \in Nat
  BY <1>2
<1>3. n \in 0 .. n /\ \A k \in 1 .. n : k \in 0 .. n /\ k - 1 \in 0 .. n /\ k # 0
  BY <1>0
<1>4. 0 \in 0 .. n
  BY <1>0
<1>b. PICK base : base = << <<>> >>
  OBVIOUS
<1>c. base \in WordLists
  BY Zenon, <1>b, Words, Single DEF WordLists
<1> DEFINE step == [k \in 1 .. n |-> [r \in WordLists |-> SplitOne(r, v[k], sep)]]
           Eq(g) == g = [k \in 0 .. n |-> IF k = 0 THEN base ELSE SplitOne(g[k - 1], v[k], sep)]
           h == CHOOSE g : Eq(g)
<1>5. PICK e \in [0 .. n -> WordLists] : e[0] = base /\ \A k \in 1 .. n : e[k] = SplitOne(e[k - 1], v[k], sep)
  <2>1. step \in Steps(n, WordLists)
    BY Zenon, <1>2, SplitOneTyped DEF Steps
  <2>2. Leads(WordLists, base, n, step)
    BY Zenon, <1>0, <1>c, <2>1, IteratesBy
  <2>3. PICK e \in [0 .. n -> WordLists] : e[0] = base /\ \A k \in 1 .. n : e[k] = step[k][e[k - 1]]
    BY Zenon, <2>2 DEF Leads
  <2> QED
    BY Zenon, <1>3, <2>3
<1>6. Eq(e)
  <2>1. \A k \in 0 .. n : k = 0 \/ k \in 1 .. n
    BY <1>0
  <2>2. \A k \in 0 .. n : e[k] = IF k = 0 THEN base ELSE SplitOne(e[k - 1], v[k], sep)
    BY Zenon, <1>5, <2>1
  <2> QED
    BY Zenon, <2>2
<1>7. Eq(h)
  BY Zenon, <1>6
<1> HIDE DEF h
<1>8. h[0] = base /\ \A k \in 1 .. n : h[k] = SplitOne(h[k - 1], v[k], sep)
  BY Zenon, <1>3, <1>4, <1>7
<1>9. \A k \in 1 .. n : h[k - 1] \in WordLists => h[k] \in WordLists
  BY Zenon, <1>2, <1>8, SplitOneTyped
<1>10. \A k \in 0 .. n : h[k] \in WordLists
  BY Zenon, <1>0, <1>8, <1>9, <1>c, Stepped
<1>11. h \in [0 .. n -> WordLists]
  BY Zenon, <1>7, <1>10
<1>12. Split(v, sep) = h[n]
  BY Zenon, <1>1, <1>b DEF Split, h, SplitOne
<1> QED
  BY Zenon, <1>1, <1>8, <1>11, <1>12, <1>b

(* Splitting makes a list of values, and never an empty one of something.  *)
LEMMA SplitTyped ==
  ASSUME NEW v \in Value, NEW sep
  PROVE  Split(v, sep) \in Seq(Value) /\ (v # <<>> => Split(v, sep) # <<>>)
<1>1. CASE v = <<>>
  BY Zenon, <1>1, EmptySeq DEF Split
<1>2. CASE v # <<>>
  <2>1. Len(v) \in 0 .. Len(v)
    BY Zenon, Member, NotNone DEF Value
  <2>2. PICK f \in [0 .. Len(v) -> WordLists] : Split(v, sep) = f[Len(v)]
    BY Zenon, <1>2, SplitIs
  <2> QED
    BY Zenon, <2>1, <2>2 DEF WordLists
<1> QED
  BY <1>1, <1>2

LEMMA NamesTyped ==
  ASSUME NEW data \in Data, NEW s, NEW o
  PROVE  /\ Names(data, s, o) \in Seq(Word)
         /\ Names(data, s, o) = <<>> <=> Get(data, s, o) = <<>>
<1> DEFINE list == GetList(data, s, o)
<1>1. list \in Seq(Value) /\ (Get(data, s, o) # <<>> => list # <<>>)
  BY Zenon, GetTyped, SplitTyped DEF GetList
<1>2. Get(data, s, o) = <<>> => list = <<>>
  BY Zenon DEF GetList, Split
<1> HIDE DEF list
<1>3. Len(list) \in Nat /\ DOMAIN list = 1 .. Len(list) /\ \A i \in 1 .. Len(list) : list[i] \in Value
  BY Zenon, <1>1, Member
<1>0. Len(list) \in Nat
  BY <1>3
<1>4. ASSUME NEW w \in Value, w # <<>> PROVE w[1] \in Word
  BY <1>4 DEF Value
<1>5. \A i \in 1 .. Len(list) : (IF list[i] = <<>> THEN "" ELSE list[i][1]) \in Word
  BY Zenon, <1>3, <1>4, Words
<1>6. NamesIn(list) \in [1 .. Len(list) -> Word]
  BY Zenon, <1>3, <1>5 DEF NamesIn
<1>7. NamesIn(list) \in Seq(Word) /\ Len(NamesIn(list)) = Len(list)
  BY Zenon, <1>0, <1>6, IsSeq
<1>8. NamesIn(list) = <<>> <=> list = <<>>
  BY Zenon, <1>1, <1>7, Member
<1> QED
  BY Zenon, <1>1, <1>2, <1>7, <1>8 DEF Names, list

LEMMA ParserParts ==
  ASSUME NEW st \in Parser
  PROVE  /\ st.data \in Data /\ st.section \in SectionName /\ st.key \in Word /\ st.val \in Value
         /\ st.partial \in BOOLEAN /\ st.ok \in BOOLEAN
BY DEF Parser

LEMMA NewDataTyped ==
  ASSUME NEW st \in Parser, NEW d \in Data
  PROVE  [st EXCEPT !.data = d] \in Parser /\ [st EXCEPT !.ok = FALSE] \in Parser
         /\ [st EXCEPT !.data = d].data = d
BY DEF Parser

LEMMA RenameSectionTyped ==
  ASSUME NEW st \in Parser, NEW s1, NEW s2, NEW copy
  PROVE  RenameSection(st, s1, s2, copy) \in Parser
<1>1. CASE ~st.ok \/ s1 \notin DOMAIN st.data
  BY Zenon, <1>1 DEF RenameSection
<1>2. CASE ~(~st.ok \/ s1 \notin DOMAIN st.data) /\ s2 \notin DOMAIN st.data
  <2>1. RenameSection(st, s1, s2, copy) = [st EXCEPT !.ok = FALSE]
    BY Zenon, <1>2 DEF RenameSection
  <2> QED
    BY Zenon, <2>1, NewDataTyped, ParserParts
<1>3. CASE ~(~st.ok \/ s1 \notin DOMAIN st.data) /\ s2 \in DOMAIN st.data
  <2> DEFINE d == With(st.data, s2, st.data[s1])
             renamed == [st EXCEPT !.data = d]
  <2>1. st.data \in Partial(SectionName, Options0)
    BY Zenon, ParserParts DEF Data
  <2>0. s2 \in SectionName
    BY Zenon, <1>3, <2>1, PartialIs
  <2>2. st.data[s1] \in Options0
    BY Zenon, <1>3, <2>1, PartialIs
  <2>3. d \in Data
    BY Zenon, <2>0, <2>1, <2>2, WithPartial DEF Data
  <2>4. renamed \in Parser /\ renamed.data = d
    BY Zenon, <2>3, NewDataTyped
  <2>5. Without(d, s1) \in Data
    BY Zenon, <2>3, WithoutPartial DEF Data
  <2>6. RenameSection(st, s1, s2, copy)
          = IF copy THEN renamed ELSE [renamed EXCEPT !.data = Without(renamed.data, s1)]
    BY Zenon, <1>3 DEF RenameSection
  <2> HIDE DEF renamed, d
  <2>7. [renamed EXCEPT !.data = Without(d, s1)] \in Parser
    BY Zenon, <2>4, <2>5, NewDataTyped
  <2> QED
    BY Zenon, <2>4, <2>6, <2>7
<1> QED
  BY Zenon, <1>1, <1>2, <1>3

LEMMA ConditionalTyped ==
  ASSUME NEW st \in Parser, NEW c
  PROVE  Conditional(st, c) \in Parser
BY Zenon, RenameSectionTyped, NewDataTyped, ParserParts DEF Conditional

LEMMA AliasTyped ==
  ASSUME NEW st \in Parser, NEW p
  PROVE  Alias(st, p) \in Parser
BY Zenon, RenameSectionTyped DEF Alias

(* A state that is changed by one name after the other.                    *)
LEMMA ConfiguredStays ==
  ASSUME NEW st \in Parser, NEW S \in SUBSET Parser, Flush(st) \in S,
         \A x \in S : \A c : Conditional(x, c) \in S /\ Alias(x, c) \in S
  PROVE  Configured(st) \in S
<1> DEFINE tests == Names(Flush(st).data, General, "conditionals")
           n == Len(tests)
           Eq(g) == g = [k \in 0 .. n |-> IF k = 0 THEN Flush(st) ELSE Conditional(g[k - 1], tests[k])]
           renamed == CHOOSE g : Eq(g)
           before == renamed[n]
           protocols == Names(before.data, General, "protocols")
           m == Len(protocols)
           Eq2(g) == g = [k \in 0 .. m |-> IF k = 0 THEN before ELSE Alias(g[k - 1], protocols[k])]
           aliased == CHOOSE g : Eq2(g)
<1>1. Flush(st) \in S /\ Flush(st).data \in Data
  BY Zenon, FlushTyped, ParserParts
<1>2. n \in Nat
  BY Zenon, <1>1, NamesTyped, Member
<1> HIDE DEF tests, n
<1>3. PICK step : step = [k \in 1 .. n |-> [x \in S |-> Conditional(x, tests[k])]]
  OBVIOUS
<1>4. Leads(S, Flush(st), n, step)
  <2>1. step \in Steps(n, S)
    BY Zenon, <1>3 DEF Steps
  <2> QED
    BY Zenon, <1>1, <1>2, <2>1, IteratesBy
<1>5. PICK e \in [0 .. n -> S] : e[0] = Flush(st) /\ \A k \in 1 .. n : e[k] = step[k][e[k - 1]]
  BY Zenon, <1>4 DEF Leads
<1>6. /\ 0 \in 0 .. n /\ n \in 0 .. n /\ \A k \in 0 .. n : k = 0 \/ k \in 1 .. n
      /\ \A k \in 1 .. n : k \in 0 .. n /\ k - 1 \in 0 .. n /\ k # 0
  BY <1>2
<1>7. Eq(e)
  <2>1. \A k \in 0 .. n : e[k] = IF k = 0 THEN Flush(st) ELSE Conditional(e[k - 1], tests[k])
    BY Zenon, <1>3, <1>5, <1>6
  <2> QED
    BY Zenon, <2>1
<1>8. Eq(renamed)
  BY Zenon, <1>7
<1> HIDE DEF renamed
<1>9. renamed[0] = Flush(st) /\ \A k \in 1 .. n : renamed[k] = Conditional(renamed[k - 1], tests[k])
  BY Zenon, <1>6, <1>8
<1>10. \A k \in 0 .. n : renamed[k] \in S
  <2>1. renamed[0] \in S /\ \A k \in 1 .. n : renamed[k - 1] \in S => renamed[k] \in S
    BY Zenon, <1>1, <1>9
  <2> QED
    BY Zenon, <1>2, <2>1, Stepped
<1>11. before \in S /\ before.data \in Data
  BY Zenon, <1>6, <1>10, ParserParts
<1> HIDE DEF before
<1>12. m \in Nat
  BY Zenon, <1>11, NamesTyped, Member
<1> HIDE DEF protocols, m
<1>13. PICK step2 : step2 = [k \in 1 .. m |-> [x \in S |-> Alias(x, protocols[k])]]
  OBVIOUS
<1>14. Leads(S, before, m, step2)
  <2>1. step2 \in Steps(m, S)
    BY Zenon, <1>13 DEF Steps
  <2> QED
    BY Zenon, <1>11, <1>12, <2>1, IteratesBy
<1>15. PICK e2 \in [0 .. m -> S] : e2[0] = before /\ \A k \in 1 .. m : e2[k] = step2[k][e2[k - 1]]
  BY Zenon, <1>14 DEF Leads
<1>16. /\ 0 \in 0 .. m /\ m \in 0 .. m /\ \A k \in 0 .. m : k = 0 \/ k \in 1 .. m
       /\ \A k \in 1 .. m : k \in 0 .. m /\ k - 1 \in 0 .. m /\ k # 0
  BY <1>12
<1>17. Eq2(e2)
  <2>1. \A k \in 0 .. m : e2[k] = IF k = 0 THEN before ELSE Alias(e2[k - 1], protocols[k])
    BY Zenon, <1>13, <1>15, <1>16
  <2> QED
    BY Zenon, <2>1
<1>18. Eq2(aliased)
  BY Zenon, <1>17
<1> HIDE DEF aliased
<1>19. aliased[0] = before /\ \A k \in 1 .. m : aliased[k] = Alias(aliased[k - 1], protocols[k])
  BY Zenon, <1>16, <1>18
<1>20. \A k \in 0 .. m : aliased[k] \in S
  <2>1. aliased[0] \in S /\ \A k \in 1 .. m : aliased[k - 1] \in S => aliased[k] \in S
    BY Zenon, <1>11, <1>19
  <2> QED
    BY Zenon, <1>12, <2>1, Stepped
<1>21. Configured(st) = aliased[m]
  BY Zenon DEF Configured, aliased, m, protocols, before, renamed, n, tests
<1> QED
  BY Zenon, <1>16, <1>20, <1>21

LEMMA ConfiguredTyped ==
  ASSUME NEW st \in Parser
  PROVE  Configured(st) \in Parser
<1>1. Flush(st) \in Parser /\ Parser \in SUBSET Parser
  BY Zenon, FlushTyped
<1>2. \A x \in Parser : \A c : Conditional(x, c) \in Parser /\ Alias(x, c) \in Parser
  BY Zenon, ConditionalTyped, AliasTyped
<1> QED
  BY Zenon, <1>1, <1>2, ConfiguredStays

-----------------------------------------------------------------------------
(* The operations *)

(* Every operation tells the caller when its command failed, as            *)
(* FailureTold says.                                                       *)
LEMMA OperationTells ==
  ASSUME NEW op \in {"rm", "rmdir", "chmod", "rename", "mkdir", "ll"},
         NEW o \in [known : BOOLEAN, auto : BOOLEAN, same : BOOLEAN, status : -1 .. 255],
         Operation(op, o) = 0, ~(op = "mkdir" /\ o.auto)
  PROVE  /\ o.known
         /\ op = "rename" => o.same
         /\ \/ o.status \in {0, 127, 128, 255}
            \/ o.status = Killed /\ op \in {"rm", "rmdir"}
<1> DEFINE s == o.status
<1>1. s \in -1 .. 255 /\ o.known \in BOOLEAN /\ o.same \in BOOLEAN /\ o.auto \in BOOLEAN
  OBVIOUS
<1>2. /\ s # Killed => s \in 0 .. 255 /\ s \div 256 = 0
      /\ IfSignaled(s) \in BOOLEAN /\ IfExited(s) \in BOOLEAN /\ Failing(s) \in BOOLEAN
  BY <1>1 DEF Killed, IfSignaled, IfExited, Failing
<1>3. s # Killed /\ s % 128 \notin 1 .. 126 => s \in {0, 127, 128, 255}
  BY <1>1 DEF Killed
<1>4. ~IfSignaled(s) /\ s # Killed => s \in {0, 127, 128, 255}
  BY <1>3 DEF IfSignaled, Low
<1>5. ExitStatus(s) = IF s = Killed THEN 255 ELSE 0
  BY <1>2 DEF ExitStatus
<1>6. ASSUME NEW raises \in BOOLEAN, NEW result, Outcome(o.known, raises, result) = 0
      PROVE  o.known /\ ~raises /\ result = 0
  BY <1>1, <1>6 DEF Outcome, Throws
<1> HIDE DEF s
<1>7. CASE op \in {"rm", "rmdir"}
  <2>1. Outcome(o.known, IfSignaled(s) \/ Failing(s), 0) = 0
    BY <1>7 DEF Operation, Rm, Rmdir, s
  <2>2. o.known /\ ~IfSignaled(s)
    BY <1>2, <1>6, <2>1
  <2> QED
    BY <1>4, <1>7, <2>2 DEF s
<1>8. CASE op \in {"chmod", "ll"}
  <2>1. o.known /\ ~IfSignaled(s) /\ ExitStatus(s) = 0
    <3>1. CASE op = "chmod"
      <4>1. Outcome(o.known, IfSignaled(s) \/ Failing(s), ExitStatus(s)) = 0
        BY <3>1 DEF Operation, Chmod, s
      <4> QED
        BY <1>2, <1>6, <4>1
    <3>2. CASE op = "ll"
      <4>1. Outcome(o.known, IfSignaled(s), ExitStatus(s)) = 0
        BY <3>2 DEF Operation, Ll, s
      <4> QED
        BY <1>2, <1>6, <4>1
    <3> QED
      BY <1>8, <3>1, <3>2
  <2> QED
    BY <1>4, <1>5, <1>8, <2>1 DEF s
<1>9. CASE op = "rename"
  <2>1. o.same
    BY <1>1, <1>9 DEF Operation, Rename, Throws
  <2>2. Outcome(o.known, IfSignaled(s), ExitStatus(s)) = 0
    BY <1>9, <2>1 DEF Operation, Rename, s
  <2>3. o.known /\ ~IfSignaled(s) /\ ExitStatus(s) = 0
    BY <1>2, <1>6, <2>2
  <2> QED
    BY <1>4, <1>5, <1>9, <2>1, <2>3 DEF s
<1>10. CASE op = "mkdir"
  <2>1. Outcome(o.known, FALSE, IF IfSignaled(s) THEN -1 ELSE ExitStatus(s)) = 0
    BY <1>1, <1>10 DEF Operation, Mkdir, s
  <2>2. o.known /\ (IF IfSignaled(s) THEN -1 ELSE ExitStatus(s)) = 0
    BY <1>6, <2>1
  <2>3. ~IfSignaled(s) /\ ExitStatus(s) = 0
    BY <1>2, <2>2
  <2> QED
    BY <1>4, <1>5, <1>10, <2>2, <2>3 DEF s
<1> QED
  BY <1>7, <1>8, <1>9, <1>10

(* A question of one kind is put by one action, and the answer stays.      *)
LEMMA AskFrame ==
  ASSUME NEW q, NEW r, Ask(q, r)
  PROVE  cfg' = cfg /\ lines' = lines /\ next' = next /\ asked' = q /\ answer' = r
BY DEF Ask

LEMMA OneAsks ==
  ASSUME [Next]_vars
  PROVE  \/ UNCHANGED <<asked, answer>>
         \/ cfg' = cfg /\ lines' = lines /\ next' = next /\
               \/ AskOption /\ asked'.kind = "get"
               \/ AskUrl /\ asked'.kind = "url"
               \/ AskProto /\ asked'.kind = "proto"
               \/ AskCp /\ asked'.kind = "cp"
               \/ AskVia /\ asked'.kind = "via"
               \/ AskList /\ asked'.kind = "list"
               \/ AskFind /\ asked'.kind = "find"
               \/ AskStatus /\ asked'.kind = "status"
               \/ AskExperiment /\ asked'.kind = "experiment"
<1> DEFINE Puts(kind) == \E q, r : q.kind = kind /\ Ask(q, r)
<1>0. ReadNext \/ EndOfFile \/ UNCHANGED vars => UNCHANGED <<asked, answer>>
  BY DEF ReadNext, EndOfFile, vars
<1>a. ASSUME NEW kind, Puts(kind)
      PROVE  cfg' = cfg /\ lines' = lines /\ next' = next /\ asked'.kind = kind
  BY <1>a, AskFrame
<1>1. AskOption => Puts("get")
  BY DEF AskOption
<1>2. AskUrl => Puts("url")
  BY DEF AskUrl
<1>3. AskProto => Puts("proto")
  BY DEF AskProto
<1>4. AskCp => Puts("cp")
  BY DEF AskCp
<1>5. AskVia => Puts("via")
  BY DEF AskVia
<1>6. AskList => Puts("list")
  BY DEF AskList
<1>7. AskFind => Puts("find")
  BY DEF AskFind
<1>8. AskStatus => Puts("status")
  BY DEF AskStatus
<1>9. AskExperiment => Puts("experiment")
  BY DEF AskExperiment
<1> HIDE DEF Puts
<1> QED
  BY <1>0, <1>a, <1>1, <1>2, <1>3, <1>4, <1>5, <1>6, <1>7, <1>8, <1>9 DEF Next

(* An operation that has no command, cannot be done or whose command fails *)
(* tells its caller.                                                       *)
THEOREM FailureIsTold == Spec => []FailureTold
<1>1. Init => FailureTold
  BY DEF Init, NoQuestion, FailureTold
<1>2. FailureTold /\ [Next]_vars => FailureTold'
  <2> SUFFICES ASSUME FailureTold, [Next]_vars PROVE FailureTold'
    OBVIOUS
  <2>1. CASE UNCHANGED <<asked, answer>>
    BY <2>1 DEF FailureTold
  <2>2. CASE asked'.kind # "status"
    BY <2>2 DEF FailureTold
  <2>3. CASE AskStatus
    <3>1. PICK op \in {"rm", "rmdir", "chmod", "rename", "mkdir", "ll"},
               o \in [known : BOOLEAN, auto : BOOLEAN, same : BOOLEAN, status : -1 .. 255] :
             Ask([kind |-> "status", op |-> op, of |-> o], Operation(op, o))
      BY <2>3 DEF AskStatus
    <3>2. asked' = [kind |-> "status", op |-> op, of |-> o] /\ answer' = Operation(op, o)
      BY <3>1, AskFrame
    <3>4. asked'.kind = "status" /\ asked'.op = op /\ asked'.of = o
      BY <3>2
    <3>3. FailureTold' <=>
             (answer' = 0 /\ ~(op = "mkdir" /\ o.auto) =>
                 /\ o.known
                 /\ op = "rename" => o.same
                 /\ \/ o.status \in {0, 127, 128, 255}
                    \/ o.status = Killed /\ op \in {"rm", "rmdir"})
      BY <3>4 DEF FailureTold
    <3> QED
      BY <3>2, <3>3, OperationTells
  <2> QED
    BY <2>1, <2>2, <2>3, OneAsks
<1> QED
  BY <1>1, <1>2, PTL DEF Spec

-----------------------------------------------------------------------------
(* The parser's state is what Config says of it, whatever the file. *)

ParserTyped ==
    /\ lines \in Seq(Line) /\ next \in Nat \ {0} /\ cfg \in Parser
    /\ asked.kind = "none" \/ next = Len(lines) + 2

LEMMA ParserIsTyped == Spec => []ParserTyped
<1>1. Init => ParserTyped
  <2> SUFFICES ASSUME Init PROVE ParserTyped
    OBVIOUS
  <2>1. lines \in Seq(Line)
    BY Zenon, FilesAssumption DEF Init
  <2>2. next \in Nat \ {0}
    BY DEF Init
  <2>3. asked.kind = "none"
    BY DEF Init, NoQuestion
  <2> QED
    BY Zenon, <2>1, <2>2, <2>3, StartTyped DEF Init, ParserTyped
<1>2. ParserTyped /\ [Next]_vars => ParserTyped'
  <2> SUFFICES ASSUME ParserTyped, [Next]_vars PROVE ParserTyped'
    OBVIOUS
  <2>1. CASE ReadNext
    <3>1. next \in 1 .. Len(lines)
      BY <2>1 DEF ParserTyped, ReadNext
    <3>2. lines[next] \in Line
      BY Zenon, <3>1, Member DEF ParserTyped
    <3>3. cfg' \in Parser
      BY Zenon, <2>1, <3>2, ReadLineTyped DEF ParserTyped, ReadNext
    <3>4. next' \in Nat \ {0} /\ next # Len(lines) + 2
      BY <2>1, <3>1 DEF ParserTyped, ReadNext
    <3> QED
      BY Zenon, <2>1, <3>3, <3>4 DEF ParserTyped, ReadNext
  <2>2. CASE EndOfFile
    <3>1. cfg' \in Parser
      BY Zenon, <2>2, ConfiguredTyped DEF ParserTyped, EndOfFile
    <3>2. Len(lines) \in Nat
      BY Zenon, Member DEF ParserTyped
    <3>3. next' \in Nat \ {0} /\ next' = Len(lines) + 2
      BY <2>2, <3>2 DEF ParserTyped, EndOfFile
    <3> QED
      BY Zenon, <2>2, <3>1, <3>3 DEF ParserTyped, EndOfFile
  <2>3. CASE UNCHANGED vars
    BY Zenon, <2>3 DEF ParserTyped, vars
  <2>4. CASE next = Len(lines) + 2 /\ UNCHANGED <<lines, next, cfg>>
    BY Zenon, <2>4 DEF ParserTyped
  <2> QED
    BY Zenon, <2>1, <2>2, <2>3, <2>4
       DEF Next, AskOption, AskUrl, AskProto, AskCp, AskVia, AskList, AskFind, AskStatus,
           AskExperiment, Ask, HasPrefixes, Ready
<1> QED
  BY <1>1, <1>2, PTL DEF Spec

-----------------------------------------------------------------------------
(* What is read of a file *)

(* The pair that the next line can go on with, and those that are over.    *)
Open(file, n) == {p \in 1 .. n : file[p].kind = "pair" /\ GoesOn(file, p, n)}

Done(file, n) == {i \in 1 .. n : file[i].kind = "pair"} \ Open(file, n)

At(file, done, s, o) == {i \in done : SectionAt(file, i) = s /\ file[i].key = o}

(* The data have, of some of the pairs, the first one of each option.      *)
First(file, done, data, s, o) ==
    LET at == At(file, done, s, o)
    IN  /\ o \in DOMAIN data[s] <=> at # {}
        /\ at # {} => data[s][o] = ValueTo(file, Min(at), EndOf(file, Min(at)))

HasFirst(file, done, data) == \A s \in DOMAIN data : \A o : First(file, done, data, s, o)

ReadSoFar(file, st, n) ==
    /\ st.section = SectionAt(file, n)
    /\ DOMAIN st.data = {SectionAt(file, j) : j \in 0 .. n}
    /\ st.partial = (Open(file, n) # {})
    /\ \A p \in Open(file, n) : st.key = file[p].key /\ st.val = ValueTo(file, p, n)
    /\ HasFirst(file, Done(file, n), st.data)

LEMMA SectionNext ==
  ASSUME NEW file, NEW n \in Nat
  PROVE  /\ file[n + 1].kind = "section" => SectionAt(file, n + 1) = file[n + 1].name
         /\ file[n + 1].kind # "section" => SectionAt(file, n + 1) = SectionAt(file, n)
<1> DEFINE B(m) == {j \in 1 .. m : file[j].kind = "section"}
<1>1. CASE file[n + 1].kind = "section"
  <2>1. n + 1 \in B(n + 1) /\ \A y \in B(n + 1) : n + 1 >= y
    BY <1>1
  <2>2. \A x \in B(n + 1) : (\A y \in B(n + 1) : x >= y) => x = n + 1
    BY <2>1
  <2> HIDE DEF B
  <2>3. Max(B(n + 1)) = n + 1
    BY Zenon, <2>1, <2>2 DEF Max
  <2>4. SectionAt(file, n + 1) = file[Max(B(n + 1))].name
    BY Zenon, <2>1 DEF SectionAt, B
  <2> QED
    BY Zenon, <1>1, <2>3, <2>4
<1>2. CASE file[n + 1].kind # "section"
  <2>1. B(n + 1) = B(n)
    BY <1>2
  <2> QED
    BY Zenon, <1>2, <2>1 DEF SectionAt
<1> QED
  BY <1>1, <1>2

LEMMA GoesOnNext ==
  ASSUME NEW file, NEW n \in Nat, NEW p \in 1 .. n
  PROVE  GoesOn(file, p, n + 1) <=> GoesOn(file, p, n) /\ file[n + 1].kind \in {"more", "comment"}
<1>1. p + 1 .. n + 1 = (p + 1 .. n) \union {n + 1}
  OBVIOUS
<1> QED
  BY Zenon, <1>1 DEF GoesOn

LEMMA OpenNext ==
  ASSUME NEW file, NEW n \in Nat
  PROVE  /\ file[n + 1].kind \in {"more", "comment"} =>
               Open(file, n + 1) = Open(file, n) /\ Done(file, n + 1) = Done(file, n)
         /\ file[n + 1].kind \notin {"more", "comment"} =>
               Done(file, n + 1) = Done(file, n) \union Open(file, n)
         /\ file[n + 1].kind = "pair" => Open(file, n + 1) = {n + 1}
         /\ file[n + 1].kind \notin {"more", "comment", "pair"} => Open(file, n + 1) = {}
<1>1. 1 .. n + 1 = (1 .. n) \union {n + 1} /\ n + 1 \notin 1 .. n
  OBVIOUS
<1>2. GoesOn(file, n + 1, n + 1)
  <2>1. n + 1 + 1 .. n + 1 = {}
    OBVIOUS
  <2> QED
    BY Zenon, <2>1 DEF GoesOn
<1>3. \A p \in 1 .. n :
         GoesOn(file, p, n + 1) <=> GoesOn(file, p, n) /\ file[n + 1].kind \in {"more", "comment"}
  BY GoesOnNext
<1> DEFINE k == file[n + 1].kind
           Pair(m) == {i \in 1 .. m : file[i].kind = "pair"}
<1>4. k \in {"more", "comment"} => k # "pair"
  OBVIOUS
<1>5. Pair(n + 1) = Pair(n) \union {i \in {n + 1} : k = "pair"}
  BY Zenon, <1>1
<1>6. Open(file, n) \subseteq Pair(n) /\ n + 1 \notin Pair(n)
  BY Zenon, <1>1 DEF Open
<1>7. CASE k \in {"more", "comment"}
  <2>1. Open(file, n + 1) = Open(file, n)
    BY Zenon, <1>1, <1>3, <1>4, <1>7 DEF Open
  <2>2. Pair(n + 1) = Pair(n)
    BY Zenon, <1>4, <1>5, <1>7
  <2> QED
    BY Zenon, <1>4, <1>7, <2>1, <2>2 DEF Done
<1>8. CASE k \notin {"more", "comment"}
  <2>1. Open(file, n + 1) = {i \in {n + 1} : k = "pair"}
    BY Zenon, <1>1, <1>2, <1>3, <1>8 DEF Open
  <2>2. Done(file, n + 1) = Pair(n)
    BY Zenon, <1>5, <1>6, <2>1 DEF Done
  <2>3. Pair(n) = Done(file, n) \union Open(file, n)
    BY Zenon, <1>6 DEF Done
  <2> QED
    BY Zenon, <1>8, <2>1, <2>2, <2>3
<1> QED
  BY <1>7, <1>8

(* There is one pair that can go on; it is the last, and in the section    *)
(* that is read.                                                           *)
LEMMA OpenIsLast ==
  ASSUME NEW file, NEW n \in Nat, NEW p \in Open(file, n)
  PROVE  /\ p \in 1 .. n /\ Open(file, n) = {p}
         /\ \A i \in Done(file, n) : i \in 1 .. n /\ i < p
         /\ SectionAt(file, p) = SectionAt(file, n)
<1>1. p \in 1 .. n /\ file[p].kind = "pair" /\ \A k \in p + 1 .. n : file[k].kind \in {"more", "comment"}
  BY Zenon DEF Open, GoesOn
<1>2. \A k \in p + 1 .. n : file[k].kind # "pair" /\ file[k].kind # "section"
  BY <1>1
<1>3. \A i \in 1 .. n : file[i].kind = "pair" => i <= p
  BY <1>1, <1>2
<1>4. ASSUME NEW q \in Open(file, n) PROVE q = p
  <2>1. q \in 1 .. n /\ file[q].kind = "pair" /\ \A k \in q + 1 .. n : file[k].kind \in {"more", "comment"}
    BY Zenon, <1>4 DEF Open, GoesOn
  <2>2. q <= p /\ p \notin q + 1 .. n
    BY <1>1, <1>3, <2>1
  <2> QED
    BY <1>1, <2>1, <2>2
<1>5. Open(file, n) = {p}
  BY Zenon, <1>4
<1>6. \A i \in Done(file, n) : i \in 1 .. n /\ file[i].kind = "pair" /\ i # p
  BY Zenon DEF Done
<1>7. {j \in 1 .. p : file[j].kind = "section"} = {j \in 1 .. n : file[j].kind = "section"}
  BY <1>1, <1>2
<1>8. SectionAt(file, p) = SectionAt(file, n)
  BY Zenon, <1>7 DEF SectionAt
<1>9. \A i \in Done(file, n) : i \in 1 .. n /\ i < p
  BY <1>1, <1>3, <1>6
<1> QED
  BY Zenon, <1>1, <1>5, <1>8, <1>9

(* Where the lines stop that go on with it.                                *)
LEMMA EndIs ==
  ASSUME NEW len \in Nat, NEW file, DOMAIN file = 1 .. len, NEW n \in 0 .. len,
         NEW p \in Open(file, n),
         n = len \/ file[n + 1].kind \notin {"more", "comment"}
  PROVE  EndOf(file, p) = n
<1> DEFINE more == {j \in DOMAIN file : j > p /\ GoesOn(file, p, j)}
<1>1. p \in 1 .. n /\ \A k \in p + 1 .. n : file[k].kind \in {"more", "comment"}
  BY Zenon DEF Open, GoesOn
<1>0. n \in Nat /\ p \in Nat
  BY <1>1
<1>2. more = p + 1 .. n
  <2>1. ASSUME NEW j \in p + 1 .. n PROVE j \in more
    <3>1. j \in 1 .. len /\ j > p /\ \A k \in p + 1 .. j : k \in p + 1 .. n
      BY <1>0, <1>1
    <3> QED
      BY Zenon, <1>1, <3>1 DEF GoesOn
  <2>2. ASSUME NEW j \in more, j \notin p + 1 .. n PROVE FALSE
    <3>1. j \in 1 .. len /\ j > n
      BY <1>1, <2>2
    <3>2. n + 1 \in p + 1 .. j /\ n # len
      BY <1>1, <3>1
    <3>3. file[n + 1].kind \in {"more", "comment"}
      BY Zenon, <3>2 DEF GoesOn
    <3> QED
      BY Zenon, <3>2, <3>3
  <2> QED
    BY Zenon, <2>1, <2>2
<1> HIDE DEF more
<1>3. CASE p = n
  <2>1. more = {}
    BY <1>1, <1>2, <1>3
  <2> QED
    BY Zenon, <1>3, <2>1 DEF EndOf, more
<1>4. CASE p # n
  <2>1. n \in more /\ \A y \in more : n >= y
    BY <1>1, <1>2, <1>4
  <2>2. \A x \in more : (\A y \in more : x >= y) => x = n
    BY <1>1, <1>2, <2>1
  <2>3. Max(more) = n
    BY Zenon, <2>1, <2>2 DEF Max
  <2> QED
    BY Zenon, <2>1, <2>3 DEF EndOf, more
<1> QED
  BY <1>3, <1>4

(* A sequence more, put together.                                          *)
Lengthens(S, m, g) ==
    /\ FlattenSeq([k \in 1 .. m |-> g[k]]) \in Seq(S)
    /\ FlattenSeq([k \in 1 .. m + 1 |-> g[k]]) = FlattenSeq([k \in 1 .. m |-> g[k]]) \o g[m + 1]
    /\ m = 0 => FlattenSeq([k \in 1 .. m |-> g[k]]) = <<>>

LEMMA FlattenNext ==
  ASSUME NEW S, NEW m \in Nat, NEW g, \A k \in 1 .. m + 1 : g[k] \in Seq(S)
  PROVE  Lengthens(S, m, g)
<1>r. PICK r : r = m + 1
  OBVIOUS
<1> DEFINE a == [k \in 1 .. r |-> g[k]]
           b == [k \in 1 .. m |-> g[k]]
<1>1. /\ r \in Nat /\ r \in 1 .. r /\ r - 1 = m
      /\ m \in 0 .. m /\ 0 \in 0 .. m
      /\ \A k \in 1 .. m : k \in 1 .. r /\ k - 1 \in 0 .. m /\ k \in 0 .. m
  BY <1>r
<1>2. PICK Q : Q = Seq(S)
  OBVIOUS
<1>3. a \in [1 .. r -> Q] /\ b \in [1 .. m -> Q]
  BY Zenon, <1>r, <1>1, <1>2
<1> HIDE DEF a, b
<1>4. a \in Seq(Q) /\ Len(a) = r /\ b \in Seq(Q) /\ Len(b) = m
  BY Zenon, <1>1, <1>3, IsSeq
<1>5. PICK f \in [0 .. r -> Seq(S)] :
         /\ f[0] = <<>> /\ FlattenSeq(a) = f[r]
         /\ \A k \in 1 .. r : f[k] = f[k - 1] \o a[k]
  BY Zenon, <1>2, <1>4, FlattenIs
<1>6. PICK h \in [0 .. m -> Seq(S)] :
         /\ h[0] = <<>> /\ FlattenSeq(b) = h[m]
         /\ \A k \in 1 .. m : h[k] = h[k - 1] \o b[k]
  BY Zenon, <1>2, <1>4, FlattenIs
<1> DEFINE T == {k \in 0 .. m : f[k] = h[k]}
<1>7. 0 \in T
  BY Zenon, <1>1, <1>5, <1>6
<1>8. \A k \in 1 .. m : k - 1 \in T => k \in T
  <2> SUFFICES ASSUME NEW k \in 1 .. m, k - 1 \in T PROVE k \in T
    OBVIOUS
  <2>1. a[k] = b[k]
    BY Zenon, <1>1 DEF a, b
  <2>2. f[k] = f[k - 1] \o a[k] /\ h[k] = h[k - 1] \o b[k] /\ f[k - 1] = h[k - 1]
    BY Zenon, <1>1, <1>5, <1>6
  <2> QED
    BY Zenon, <1>1, <2>1, <2>2
<1>9. 0 .. m \subseteq T
  <2> HIDE DEF T
  <2> QED
    BY Zenon, <1>7, <1>8, UpTo
<1>10. f[m] = h[m]
  BY Zenon, <1>1, <1>9
<1>11. f[r] = f[m] \o g[r]
  <2>1. f[r] = f[r - 1] \o a[r]
    BY Zenon, <1>1, <1>5
  <2> QED
    BY Zenon, <1>1, <2>1 DEF a
<1>12. FlattenSeq(a) = FlattenSeq(b) \o g[r]
  BY Zenon, <1>5, <1>6, <1>10, <1>11
<1>13. h[m] \in Seq(S)
  BY Zenon, <1>1, <1>6
<1> QED
  BY Zenon, <1>r, <1>6, <1>12, <1>13 DEF a, b, Lengthens

Grouped(s, t, u) == (s \o t) \o u = s \o (t \o u)

LEMMA Regroup ==
  ASSUME NEW S, NEW s \in Seq(S), NEW t \in Seq(S), NEW u \in Seq(S)
  PROVE  Grouped(s, t, u)
BY ConcatAssociative DEF Grouped

LEMMA FurtherTyped ==
  ASSUME NEW line \in Line
  PROVE  /\ Further(line) \in Value
         /\ line.kind = "comment" => Further(line) = <<>>
<1>1. CASE line.kind = "more"
  <2>1. line.val \in Value /\ <<NewLine>> \in Value
    BY <1>1, LineIs, Words
  <2>2. <<NewLine>> \o line.val \in Value
    BY Zenon, <2>1, Joining DEF Value
  <2> QED
    BY Zenon, <1>1, <2>2 DEF Further
<1>2. CASE line.kind # "more"
  BY Zenon, <1>2, Words DEF Further
<1>3. "comment" # "more"
  OBVIOUS
<1> QED
  BY Zenon, <1>1, <1>2, <1>3 DEF Further

LEMMA Ahead ==
  ASSUME NEW len \in Nat, NEW n \in 1 .. len, NEW p \in 1 .. n
  PROVE  /\ n - p \in Nat /\ p \in 1 .. len /\ (n + 1) - p = (n - p) + 1
         /\ p + ((n - p) + 1) = n + 1
         /\ \A k \in 1 .. (n - p) + 1 : p + k \in 1 .. n + 1
         /\ p = n => n - p = 0
OBVIOUS

(* A value with one line more.                                             *)
LEMMA ValueNext ==
  ASSUME NEW file \in Seq(Line), NEW len \in Nat, len = Len(file), NEW n \in 1 .. len,
         NEW p \in 1 .. n, file[p].kind = "pair"
  PROVE  /\ ValueTo(file, p, n) \in Value
         /\ p = n => ValueTo(file, p, n) = file[p].val
         /\ n + 1 \in 1 .. len =>
               ValueTo(file, p, n + 1) = ValueTo(file, p, n) \o Further(file[n + 1])
<1>1. \A i \in 1 .. len : file[i] \in Line
  BY Zenon, Member
<1>2. PICK m \in Nat : m = n - p
  BY Ahead
<1>3. file[p].val \in Value
  BY Zenon, <1>1, Ahead, LineIs
<1>4. \A k \in 1 .. m : p + k \in 1 .. len
  BY <1>2
<1>5. n + 1 \in 1 .. len => \A k \in 1 .. m + 1 : p + k \in 1 .. len
  BY <1>2
<1> DEFINE g == [k \in 1 .. m + 1 |-> IF p + k \in 1 .. len THEN Further(file[p + k]) ELSE <<>>]
           v == FlattenSeq([k \in 1 .. m |-> g[k]])
<1>6. \A k \in 1 .. m + 1 : g[k] \in Value
  BY Zenon, <1>1, FurtherTyped, Words
<1>7. \A k \in 1 .. m : k \in 1 .. m + 1
  BY <1>2
<1>8. [k \in 1 .. n - p |-> Further(file[p + k])] = [k \in 1 .. m |-> g[k]]
  BY Zenon, <1>2, <1>4, <1>7
<1>9. n + 1 \in 1 .. len =>
         /\ [k \in 1 .. (n + 1) - p |-> Further(file[p + k])] = [k \in 1 .. m + 1 |-> g[k]]
         /\ g[m + 1] = Further(file[n + 1])
  <2>1. (n + 1) - p = m + 1 /\ p + (m + 1) = n + 1 /\ m + 1 \in 1 .. m + 1
    BY <1>2
  <2> QED
    BY Zenon, <1>5, <2>1
<1> HIDE DEF g
<1>10. /\ v \in Value
       /\ FlattenSeq([k \in 1 .. m + 1 |-> g[k]]) = v \o g[m + 1]
       /\ m = 0 => v = <<>>
  <2>1. \A k \in 1 .. m + 1 : g[k] \in Seq(Word)
    BY Zenon, <1>6 DEF Value
  <2>2. Lengthens(Word, m, g)
    BY Zenon, <2>1, FlattenNext
  <2> QED
    BY Zenon, <2>2 DEF Lengthens, Value
<1> HIDE DEF v
<1>11. ValueTo(file, p, n) = file[p].val \o v
  BY Zenon, <1>8 DEF ValueTo, v
<1>12. file[p].val \o v \in Value /\ file[p].val \o <<>> = file[p].val
  BY Zenon, <1>3, <1>10, Joining DEF Value
<1>13. ASSUME n + 1 \in 1 .. len
       PROVE  ValueTo(file, p, n + 1) = ValueTo(file, p, n) \o Further(file[n + 1])
  <2>1. ValueTo(file, p, n + 1) = file[p].val \o (v \o g[m + 1])
    BY Zenon, <1>9, <1>10, <1>13 DEF ValueTo, v
  <2>2. m + 1 \in 1 .. m + 1
    OBVIOUS
  <2>3. g[m + 1] \in Value
    BY Zenon, <1>6, <2>2
  <2>4. file[p].val \o (v \o g[m + 1]) = (file[p].val \o v) \o g[m + 1]
    <3>1. Grouped(file[p].val, v, g[m + 1])
      BY Zenon, <1>3, <1>10, <2>3, Regroup DEF Value
    <3> QED
      BY Zenon, <3>1 DEF Grouped
  <2> QED
    BY Zenon, <1>9, <1>11, <1>13, <2>1, <2>4
<1>14. p = n => m = 0
  BY <1>2
<1> QED
  BY Zenon, <1>10, <1>11, <1>12, <1>13, <1>14

LEMMA LaterMin ==
  ASSUME NEW A \in SUBSET Nat, NEW p \in Nat, \A i \in A : i < p
  PROVE  /\ A # {} => Min(A \union {p}) = Min(A)
         /\ Min({p}) = p
<1>1. ASSUME NEW B \in SUBSET Nat, NEW m \in B, \A y \in B : m <= y PROVE Min(B) = m
  <2>1. Min(B) \in B /\ \A y \in B : Min(B) <= y
    BY Zenon, <1>1, LeastIsMin
  <2>2. PICK x : x = Min(B)
    OBVIOUS
  <2>3. x \in Nat /\ m \in Nat /\ x <= m /\ m <= x
    BY Zenon, <1>1, <2>1, <2>2
  <2> QED
    BY <2>2, <2>3
<1>2. Min({p}) = p
  <2>1. {p} \in SUBSET Nat /\ p \in {p} /\ \A y \in {p} : p <= y
    OBVIOUS
  <2> QED
    BY Zenon, <1>1, <2>1
<1>3. ASSUME A # {} PROVE Min(A \union {p}) = Min(A)
  <2>1. PICK x \in A : x = Min(A) /\ \A y \in A : x <= y
    BY Zenon, <1>3, LeastIsMin
  <2>2. A \union {p} \in SUBSET Nat /\ x \in A \union {p} /\ \A y \in A \union {p} : x <= y
    BY <2>1
  <2> QED
    BY Zenon, <1>1, <2>1, <2>2
<1> QED
  BY <1>2, <1>3

(* An option that is set is the first of its name or is not taken.         *)
LEMMA SetsFirst ==
  ASSUME NEW file, NEW n \in Nat, NEW st, ReadSoFar(file, st, n), NEW p \in Open(file, n),
         EndOf(file, p) = n
  PROVE  /\ HasFirst(file, Done(file, n) \union {p},
                     SetOption(st.data, st.section, st.key, st.val))
         /\ DOMAIN SetOption(st.data, st.section, st.key, st.val) = DOMAIN st.data
<1> DEFINE data == st.data
           sec == st.section
           key == st.key
           new == SetOption(data, sec, key, st.val)
           done == Done(file, n)
<1>1. /\ sec = SectionAt(file, p) /\ key = file[p].key /\ st.val = ValueTo(file, p, EndOf(file, p))
      /\ p \in Nat /\ done \in SUBSET Nat /\ \A i \in done : i < p
  <2>1. p \in 1 .. n /\ SectionAt(file, p) = SectionAt(file, n) /\ \A i \in done : i \in 1 .. n /\ i < p
    BY Zenon, OpenIsLast
  <2>2. p \in Nat /\ done \in SUBSET Nat
    BY <2>1
  <2> QED
    BY Zenon, <2>1, <2>2 DEF ReadSoFar
<1>2. \A s \in DOMAIN data : \A o : First(file, done, data, s, o)
  BY Zenon DEF ReadSoFar, HasFirst
<1>3. sec \in DOMAIN data
  <2>1. n \in 0 .. n
    OBVIOUS
  <2> QED
    BY Zenon, <2>1 DEF ReadSoFar
<1>4. /\ key \in DOMAIN data[sec] => new = data
      /\ key \notin DOMAIN data[sec] => new = [data EXCEPT ![sec] = With(data[sec], key, st.val)]
  BY Zenon, <1>3 DEF SetOption
<1>5. /\ DOMAIN new = DOMAIN data
      /\ \A s \in DOMAIN data : s # sec => new[s] = data[s]
      /\ key \in DOMAIN data[sec] => new[sec] = data[sec]
      /\ key \notin DOMAIN data[sec] => new[sec] = With(data[sec], key, st.val)
  BY Zenon, <1>3, <1>4
<1> HIDE DEF new, done, data, sec, key
<1>6. ASSUME NEW s \in DOMAIN data, NEW o PROVE First(file, done \union {p}, new, s, o)
  <2> DEFINE at == At(file, done, s, o)
             more == At(file, done \union {p}, s, o)
  <2>1. /\ o \in DOMAIN data[s] <=> at # {}
        /\ at # {} => data[s][o] = ValueTo(file, Min(at), EndOf(file, Min(at)))
    BY Zenon, <1>2 DEF First
  <2>2. CASE s # sec \/ o # key
    <3>1. more = at
      BY Zenon, <1>1, <2>2 DEF At
    <3>2. (o \in DOMAIN new[s] <=> o \in DOMAIN data[s]) /\ (o \in DOMAIN data[s] => new[s][o] = data[s][o])
      BY Zenon, <1>5, <2>2 DEF With
    <3> QED
      BY Zenon, <2>1, <3>1, <3>2 DEF First
  <2>3. CASE s = sec /\ o = key
    <3>1. more = at \union {p}
      BY Zenon, <1>1, <2>3 DEF At
    <3>2. at \in SUBSET Nat /\ \A i \in at : i < p
      BY Zenon, <1>1 DEF At
    <3>3. CASE o \in DOMAIN data[s]
      <4>1. Min(more) = Min(at) /\ more # {}
        BY Zenon, <1>1, <2>1, <3>1, <3>2, <3>3, LaterMin
      <4>2. new[s] = data[s]
        BY Zenon, <1>5, <2>3, <3>3
      <4> HIDE DEF at
      <4> QED
        BY Zenon, <2>1, <3>3, <4>1, <4>2 DEF First
    <3>4. CASE o \notin DOMAIN data[s]
      <4>1. more = {p}
        BY Zenon, <2>1, <3>1, <3>4
      <4>2. Min(more) = p
        BY Zenon, <1>1, <4>1, <3>2, LaterMin
      <4>3. new[s] = With(data[s], o, st.val)
        BY Zenon, <1>5, <2>3, <3>4
      <4>4. o \in DOMAIN new[s] /\ new[s][o] = st.val
        BY Zenon, <4>3 DEF With
      <4>5. p \in more
        BY Zenon, <4>1
      <4> HIDE DEF more
      <4> QED
        BY Zenon, <1>1, <4>2, <4>4, <4>5 DEF First, more
    <3> QED
      BY Zenon, <3>3, <3>4
  <2> QED
    BY Zenon, <2>2, <2>3
<1>7. HasFirst(file, done \union {p}, new)
  BY Zenon, <1>5, <1>6 DEF HasFirst
<1> QED
  BY Zenon, <1>5, <1>7 DEF new, done, data, sec, key

(* A section that is added has no options.                                 *)
LEMMA AddsNone ==
  ASSUME NEW file, NEW done, NEW data, HasFirst(file, done, data),
         \A i \in done : SectionAt(file, i) \in DOMAIN data, NEW s
  PROVE  HasFirst(file, done, AddSection(data, s)) /\ DOMAIN AddSection(data, s) = DOMAIN data \union {s}
<1>1. CASE s \in DOMAIN data
  BY Zenon, <1>1 DEF AddSection
<1>2. CASE s \notin DOMAIN data
  <2> DEFINE none == [o \in {} |-> <<>>]
             new == AddSection(data, s)
  <2>1. new = With(data, s, none)
    BY Zenon, <1>2 DEF AddSection
  <2>2. DOMAIN new = DOMAIN data \union {s} /\ new[s] = none /\ \A t \in DOMAIN data : new[t] = data[t]
    BY Zenon, <1>2, <2>1 DEF With
  <2> HIDE DEF new
  <2>3. ASSUME NEW t \in DOMAIN new, NEW o PROVE First(file, done, new, t, o)
    <3>1. CASE t \in DOMAIN data
      <4>1. First(file, done, data, t, o) /\ new[t] = data[t]
        BY Zenon, <2>2, <3>1 DEF HasFirst
      <4> QED
        BY Zenon, <4>1 DEF First
    <3>2. CASE t = s
      <4>1. At(file, done, t, o) = {}
        BY Zenon, <1>2, <3>2 DEF At
      <4>2. o \notin DOMAIN new[t]
        BY Zenon, <2>2, <3>2
      <4> QED
        BY Zenon, <4>1, <4>2 DEF First
    <3> QED
      BY Zenon, <2>2, <3>1, <3>2
  <2> QED
    BY Zenon, <2>2, <2>3 DEF HasFirst, new
<1> QED
  BY <1>1, <1>2

LEMMA FlushParts ==
  ASSUME NEW st \in Parser
  PROVE  /\ Flush(st).section = st.section /\ Flush(st).partial = FALSE /\ Flush(st).ok = st.ok
         /\ st.partial => Flush(st).data = SetOption(st.data, st.section, st.key, st.val)
         /\ ~st.partial => Flush(st).data = st.data
<1>1. CASE ~st.partial
  <2>1. Flush(st) = st
    BY Zenon, <1>1 DEF Flush
  <2>2. st.partial \in BOOLEAN
    BY DEF Parser
  <2> QED
    BY <1>1, <2>1, <2>2
<1>2. CASE st.partial
  <2>1. PICK d : d = SetOption(st.data, st.section, st.key, st.val)
    OBVIOUS
  <2>2. Flush(st) = [st EXCEPT !.data = d, !.key = "", !.val = <<>>, !.partial = FALSE]
    BY <1>2, <2>1 DEF Flush
  <2>3. /\ Flush(st).data = d /\ Flush(st).section = st.section /\ Flush(st).partial = FALSE
        /\ Flush(st).ok = st.ok
    BY <2>2 DEF Parser
  <2> QED
    BY Zenon, <1>2, <2>1, <2>3
<1> QED
  BY <1>1, <1>2

LEMMA LineReads ==
  ASSUME NEW st \in Parser, st.ok, NEW line \in Line
  PROVE  /\ line.kind = "comment" => ReadLine(st, line) = st
         /\ line.kind = "blanks" => ~ReadLine(st, line).ok
         /\ line.kind = "more" => ReadLine(st, line) = [st EXCEPT !.val = @ \o <<NewLine>> \o line.val]
         /\ line.kind = "section" =>
               /\ ReadLine(st, line).section = line.name
               /\ ReadLine(st, line).data = AddSection(Flush(st).data, line.name)
               /\ ReadLine(st, line).partial = FALSE
         /\ line.kind = "pair" =>
               /\ ReadLine(st, line).section = st.section /\ ReadLine(st, line).data = Flush(st).data
               /\ ReadLine(st, line).key = line.key /\ ReadLine(st, line).val = line.val
               /\ ReadLine(st, line).partial = TRUE
         /\ line.kind = "other" => ReadLine(st, line) = Flush(st)
<1>1. PICK f \in Parser : f = Flush(st)
  BY Zenon, FlushTyped
<1>2. PICK d : d = AddSection(f.data, line.name)
  OBVIOUS
<1>3. PICK v : v = st.val \o <<NewLine>> \o line.val
  OBVIOUS
<1>4. f.section = st.section /\ f.partial = FALSE
  BY Zenon, <1>1, FlushParts
<1>5. CASE line.kind = "comment"
  BY <1>5 DEF ReadLine
<1>6. CASE line.kind = "blanks"
  <2>1. ReadLine(st, line) = [st EXCEPT !.ok = FALSE]
    BY <1>6 DEF ReadLine
  <2> QED
    BY <1>6, <2>1 DEF Parser
<1>7. CASE line.kind = "more"
  <2>1. ReadLine(st, line) = [st EXCEPT !.val = v]
    BY <1>3, <1>7 DEF ReadLine
  <2> QED
    BY <1>3, <1>7, <2>1
<1>8. CASE line.kind = "section"
  <2>1. ReadLine(st, line) = [f EXCEPT !.section = line.name, !.data = d]
    BY <1>1, <1>2, <1>8 DEF ReadLine
  <2>2. /\ ReadLine(st, line).section = line.name /\ ReadLine(st, line).data = d
        /\ ReadLine(st, line).partial = f.partial
    BY <2>1 DEF Parser
  <2> QED
    BY <1>1, <1>2, <1>4, <1>8, <2>2
<1>9. CASE line.kind = "pair"
  <2>1. ReadLine(st, line) = [f EXCEPT !.key = line.key, !.val = line.val, !.partial = TRUE]
    BY <1>1, <1>9 DEF ReadLine
  <2>2. /\ ReadLine(st, line).section = f.section /\ ReadLine(st, line).data = f.data
        /\ ReadLine(st, line).key = line.key /\ ReadLine(st, line).val = line.val
        /\ ReadLine(st, line).partial = TRUE
    BY <2>1 DEF Parser
  <2> QED
    BY <1>1, <1>4, <1>9, <2>2
<1>10. CASE line.kind = "other"
  BY <1>10 DEF ReadLine
<1> QED
  BY <1>5, <1>6, <1>7, <1>8, <1>9, <1>10, LineIs

(* What has been read, when the option is set that the next line ends.     *)
LEMMA FlushReads ==
  ASSUME NEW file, NEW n \in Nat, NEW st \in Parser, ReadSoFar(file, st, n),
         \A p \in Open(file, n) : EndOf(file, p) = n
  PROVE  /\ HasFirst(file, Done(file, n) \union Open(file, n), Flush(st).data)
         /\ DOMAIN Flush(st).data = {SectionAt(file, j) : j \in 0 .. n}
<1>1. CASE st.partial
  <2>1. PICK p \in Open(file, n) : TRUE
    BY Zenon, <1>1 DEF ReadSoFar
  <2>2. Open(file, n) = {p}
    BY Zenon, OpenIsLast
  <2>3. Flush(st).data = SetOption(st.data, st.section, st.key, st.val)
    BY Zenon, <1>1, FlushParts
  <2>4. /\ HasFirst(file, Done(file, n) \union {p},
                    SetOption(st.data, st.section, st.key, st.val))
        /\ DOMAIN SetOption(st.data, st.section, st.key, st.val) = DOMAIN st.data
    BY Zenon, SetsFirst
  <2> QED
    BY Zenon, <2>2, <2>3, <2>4 DEF ReadSoFar
<1>2. CASE ~st.partial
  <2>1. Open(file, n) = {} /\ Flush(st).data = st.data
    BY Zenon, <1>2, FlushParts DEF ReadSoFar
  <2>2. Done(file, n) \union {} = Done(file, n)
    BY Zenon
  <2> QED
    BY Zenon, <2>1, <2>2 DEF ReadSoFar
<1> QED
  BY Zenon, <1>1, <1>2

(* One line more is read.                                                  *)
LEMMA ReadsNext ==
  ASSUME NEW file \in Seq(Line), NEW len \in Nat, len = Len(file), NEW n \in 0 .. len,
         n + 1 \in 1 .. len, NEW st \in Parser, st.ok, ReadSoFar(file, st, n),
         ReadLine(st, file[n + 1]).ok
  PROVE  ReadSoFar(file, ReadLine(st, file[n + 1]), n + 1)
<1> DEFINE line == file[n + 1]
           st2 == ReadLine(st, line)
           kind == line.kind
<1>1. /\ n \in Nat /\ n + 1 \in Nat /\ 0 .. n + 1 = (0 .. n) \union {n + 1} /\ n \in 0 .. n
      /\ n + 1 \in 1 .. n + 1 /\ \A p \in 1 .. n : n \in 1 .. len /\ p \in 0 .. n
  OBVIOUS
<1>2. DOMAIN file = 1 .. len /\ line \in Line
  BY Zenon, Member
<1>3. kind \in {"section", "pair", "more", "comment", "blanks", "other"}
  BY Zenon, <1>2, LineIs
<1> DEFINE SectionsTo(m) == {SectionAt(file, j) : j \in 0 .. m}
<1>4. SectionsTo(n + 1) = SectionsTo(n) \union {SectionAt(file, n + 1)} /\ SectionAt(file, n) \in SectionsTo(n)
  BY Zenon, <1>1
<1>5. \A i \in Done(file, n) \union Open(file, n) : SectionAt(file, i) \in SectionsTo(n)
  BY Zenon, <1>1 DEF Done, Open
<1>6. st.section = SectionAt(file, n) /\ DOMAIN st.data = SectionsTo(n)
  BY Zenon DEF ReadSoFar
<1> HIDE DEF SectionsTo
<1>7. CASE kind \in {"more", "comment"}
  <2>1. kind # "section"
    BY <1>7
  <2>2. SectionAt(file, n + 1) = SectionAt(file, n)
    BY Zenon, <1>1, <2>1, SectionNext
  <2>3. SectionsTo(n + 1) = SectionsTo(n)
    BY Zenon, <1>4, <2>2
  <2>4. Open(file, n + 1) = Open(file, n) /\ Done(file, n + 1) = Done(file, n)
    BY Zenon, <1>1, <1>7, OpenNext
  <2>5. /\ st2.section = st.section /\ st2.data = st.data /\ st2.partial = st.partial
        /\ st2.key = st.key
    <3>1. CASE kind = "comment"
      BY Zenon, <1>2, <3>1, LineReads
    <3>2. CASE kind = "more"
      <4>1. PICK v : v = st.val \o <<NewLine>> \o line.val
        OBVIOUS
      <4>2. st2 = [st EXCEPT !.val = v]
        BY Zenon, <1>2, <3>2, <4>1, LineReads
      <4> HIDE DEF st2
      <4> QED
        BY <4>2 DEF Parser
    <3> QED
      BY <1>7, <3>1, <3>2
  <2>6. ASSUME NEW p \in Open(file, n + 1)
        PROVE  st2.key = file[p].key /\ st2.val = ValueTo(file, p, n + 1)
    <3>1. p \in Open(file, n) /\ p \in 1 .. n /\ file[p].kind = "pair" /\ n \in 1 .. len
      BY Zenon, <1>1, <2>4 DEF Open
    <3>2. st.key = file[p].key /\ st.val = ValueTo(file, p, n)
      BY Zenon, <3>1 DEF ReadSoFar
    <3>3. ValueTo(file, p, n + 1) = ValueTo(file, p, n) \o Further(line) /\ ValueTo(file, p, n) \in Value
      BY Zenon, <3>1, ValueNext
    <3>4. st2.val = st.val \o Further(line)
      <4>1. CASE kind = "comment"
        <5>1. Further(line) = <<>>
          BY Zenon, <1>2, <4>1, FurtherTyped
        <5>2. st.val \o <<>> = st.val
          BY Zenon, <3>2, <3>3, Joining DEF Value
        <5> QED
          BY Zenon, <1>2, <4>1, <5>1, <5>2, LineReads
      <4>2. CASE kind = "more"
        <5>1. PICK v : v = st.val \o <<NewLine>> \o line.val
          OBVIOUS
        <5>2. st2 = [st EXCEPT !.val = v]
          BY Zenon, <1>2, <4>2, <5>1, LineReads
        <5>3. st2.val = v
          <6> HIDE DEF st2
          <6> QED
            BY <5>2 DEF Parser
        <5>4. line.val \in Value /\ <<NewLine>> \in Value
          BY Zenon, <1>2, <4>2, LineIs, Words
        <5>5. Grouped(st.val, <<NewLine>>, line.val)
          BY Zenon, <3>2, <3>3, <5>4, Regroup DEF Value
        <5>6. Further(line) = <<NewLine>> \o line.val
          BY Zenon, <4>2 DEF Further
        <5> QED
          BY Zenon, <5>1, <5>3, <5>5, <5>6 DEF Grouped
      <4> QED
        BY <1>7, <4>1, <4>2
    <3> QED
      BY Zenon, <2>5, <3>2, <3>3, <3>4
  <2> QED
    BY Zenon, <1>6, <2>2, <2>3, <2>4, <2>5, <2>6 DEF ReadSoFar, SectionsTo
<1>8. CASE kind \notin {"more", "comment"}
  <2> DEFINE done == Done(file, n) \union Open(file, n)
             f == Flush(st)
  <2>1. \A p \in Open(file, n) : EndOf(file, p) = n
    BY Zenon, <1>2, <1>8, EndIs
  <2>2. HasFirst(file, done, f.data) /\ DOMAIN f.data = SectionsTo(n)
    BY Zenon, <1>1, <2>1, FlushReads DEF SectionsTo
  <2>3. Done(file, n + 1) = done
    BY Zenon, <1>1, <1>8, OpenNext
  <2>4. f.section = st.section /\ f.partial = FALSE
    BY Zenon, FlushParts
  <2> HIDE DEF done, f
  <2>5. CASE kind = "blanks"
    BY Zenon, <1>2, <2>5, LineReads
  <2>6. CASE kind = "section"
    <3>1. Open(file, n + 1) = {}
      <4>1. kind \notin {"more", "comment", "pair"}
        BY <2>6
      <4> QED
        BY Zenon, <1>1, <4>1, OpenNext
    <3>2. SectionAt(file, n + 1) = line.name
      BY Zenon, <1>1, <2>6, SectionNext
    <3>3. st2.section = line.name /\ st2.data = AddSection(f.data, line.name) /\ st2.partial = FALSE
      BY Zenon, <1>2, <2>6, LineReads DEF f
    <3>4. HasFirst(file, done, st2.data) /\ DOMAIN st2.data = SectionsTo(n) \union {line.name}
      <4>1. \A i \in done : SectionAt(file, i) \in DOMAIN f.data
        BY Zenon, <1>5, <2>2 DEF done
      <4>2. HasFirst(file, done, AddSection(f.data, line.name))
        BY Zenon, <2>2, <4>1, AddsNone
      <4>3. DOMAIN AddSection(f.data, line.name) = DOMAIN f.data \union {line.name}
        BY Zenon DEF AddSection, With
      <4> QED
        BY Zenon, <2>2, <3>3, <4>2, <4>3
    <3> HIDE DEF st2
    <3>5. st2.partial = (Open(file, n + 1) # {})
      BY Zenon, <3>1, <3>3
    <3> QED
      BY Zenon, <1>4, <2>3, <3>1, <3>2, <3>3, <3>4, <3>5 DEF ReadSoFar, SectionsTo, st2
  <2>7. CASE kind \in {"pair", "other"}
    <3>1. SectionAt(file, n + 1) = SectionAt(file, n)
      <4>1. kind # "section"
        BY <2>7
      <4> QED
        BY Zenon, <1>1, <4>1, SectionNext
    <3>2. SectionsTo(n + 1) = SectionsTo(n)
      BY Zenon, <1>4, <3>1
    <3>3. CASE kind = "pair"
      <4>1. Open(file, n + 1) = {n + 1}
        BY Zenon, <1>1, <3>3, OpenNext
      <4>2. /\ st2.section = st.section /\ st2.data = f.data
            /\ st2.key = line.key /\ st2.val = line.val /\ st2.partial = TRUE
        BY Zenon, <1>2, <3>3, LineReads DEF f
      <4>3. ValueTo(file, n + 1, n + 1) = line.val
        BY Zenon, <1>1, <3>3, ValueNext
      <4> HIDE DEF st2
      <4>4. st2.partial = (Open(file, n + 1) # {})
        BY Zenon, <4>1, <4>2
      <4> QED
        BY Zenon, <1>6, <2>2, <2>3, <3>1, <3>2, <4>1, <4>2, <4>3, <4>4 DEF ReadSoFar, SectionsTo, st2
    <3>4. CASE kind = "other"
      <4>1. Open(file, n + 1) = {}
        <5>1. kind \notin {"more", "comment", "pair"}
          BY <3>4
        <5> QED
          BY Zenon, <1>1, <5>1, OpenNext
      <4>2. st2 = f
        BY Zenon, <1>2, <3>4, LineReads DEF f
      <4> HIDE DEF st2
      <4>3. st2.partial = (Open(file, n + 1) # {})
        BY Zenon, <2>4, <4>1, <4>2
      <4> QED
        BY Zenon, <1>6, <2>2, <2>3, <2>4, <3>1, <3>2, <4>1, <4>2, <4>3 DEF ReadSoFar, SectionsTo, st2
    <3> QED
      BY <2>7, <3>3, <3>4
  <2> QED
    BY <1>3, <1>8, <2>5, <2>6, <2>7
<1> QED
  BY <1>7, <1>8

(* Nothing is read of an empty file but the section that has no name.      *)
LEMMA StartReads == ASSUME NEW file PROVE ReadSoFar(file, Start, 0)
<1>1. 0 .. 0 = {0} /\ 1 .. 0 = {}
  OBVIOUS
<1>2. SectionAt(file, 0) = <<"", "">> /\ Open(file, 0) = {} /\ Done(file, 0) = {}
  BY Zenon, <1>1 DEF SectionAt, Open, Done
<1> DEFINE none == [o \in {} |-> <<>>]
           d == With(NoData, <<"", "">>, none)
<1>3. PICK data : data = d
  OBVIOUS
<1>4. DOMAIN data = {<<"", "">>} /\ data[<<"", "">>] = none
  BY Zenon, <1>3 DEF With, NoData
<1>5. Start.data = data /\ Start.section = <<"", "">> /\ Start.partial = FALSE
  <2>1. Start = [data |-> data, section |-> <<"", "">>, key |-> "", val |-> <<>>,
                 partial |-> FALSE, ok |-> TRUE]
    BY Zenon, <1>3 DEF Start
  <2> QED
    BY <2>1
<1>6. HasFirst(file, {}, data)
  BY Zenon, <1>4 DEF HasFirst, First, At
<1>7. Start.partial = (Open(file, 0) # {})
  BY Zenon, <1>2, <1>5
<1>8. {SectionAt(file, j) : j \in 0 .. 0} = {<<"", "">>}
  BY Zenon, <1>1, <1>2
<1>9. HasFirst(file, Done(file, 0), Start.data)
  BY Zenon, <1>2, <1>5, <1>6
<1> QED
  BY Zenon, <1>2, <1>4, <1>5, <1>7, <1>8, <1>9 DEF ReadSoFar

(* When all is read the data have the first value of each option.          *)
LEMMA AllRead ==
  ASSUME NEW file \in Seq(Line), NEW len \in Nat, len = Len(file), NEW st \in Parser,
         ReadSoFar(file, st, len), NEW s, NEW o
  PROVE  Rawget(Flush(st).data, s, o) = FirstIn(file, s, o)
<1>1. DOMAIN file = 1 .. len
  BY Zenon, Member
<1>2. len \in 0 .. len /\ \A i \in 1 .. len : i \in 0 .. len
  OBVIOUS
<1> DEFINE done == Done(file, len) \union Open(file, len)
           data == Flush(st).data
           at == At(file, done, s, o)
<1>3. HasFirst(file, done, data) /\ DOMAIN data = {SectionAt(file, j) : j \in 0 .. len}
  <2>1. \A p \in Open(file, len) : EndOf(file, p) = len
    BY Zenon, <1>1, <1>2, EndIs
  <2> QED
    BY Zenon, <2>1, FlushReads
<1>4. done = {i \in DOMAIN file : file[i].kind = "pair"}
  BY Zenon, <1>1 DEF Done, Open
<1>5. at = {i \in PairsIn(file, s) : file[i].key = o}
  BY Zenon, <1>4 DEF At, PairsIn
<1>6. FirstIn(file, s, o) = IF at = {} THEN <<>> ELSE ValueTo(file, Min(at), EndOf(file, Min(at)))
  BY Zenon, <1>5 DEF FirstIn
<1>7. CASE s \in DOMAIN data
  <2> HIDE DEF done, data
  <2>1. /\ o \in DOMAIN data[s] <=> at # {}
        /\ at # {} => data[s][o] = ValueTo(file, Min(at), EndOf(file, Min(at)))
    BY Zenon, <1>3, <1>7 DEF HasFirst, First
  <2> HIDE DEF at
  <2> QED
    BY Zenon, <1>6, <1>7, <2>1 DEF Rawget, data
<1>8. CASE s \notin DOMAIN data
  <2>1. at = {}
    BY Zenon, <1>1, <1>2, <1>3, <1>5, <1>8 DEF PairsIn
  <2> HIDE DEF done, data
  <2> QED
    BY Zenon, <1>6, <1>8, <2>1 DEF Rawget, data
<1> QED
  BY Zenon, <1>7, <1>8

(* Conditionals and aliases change protocols, locations and rotations only. *)
Aside(s) == \A k \in DOMAIN RenameKinds : s[1] # RenameKinds[k][2]

Kept(data, old) == \A s : Aside(s) => \A o : Rawget(data, s, o) = Rawget(old, s, o)

LEMMA RenameKeeps ==
  ASSUME NEW st \in Parser, NEW old, st.ok => Kept(st.data, old),
         NEW s1, NEW s2, ~Aside(s1), ~Aside(s2), NEW copy
  PROVE  /\ RenameSection(st, s1, s2, copy).ok => st.ok
         /\ RenameSection(st, s1, s2, copy).ok => Kept(RenameSection(st, s1, s2, copy).data, old)
<1> DEFINE new == RenameSection(st, s1, s2, copy)
<1>1. CASE ~st.ok \/ s1 \notin DOMAIN st.data
  BY Zenon, <1>1 DEF RenameSection
<1>2. CASE st.ok /\ s1 \in DOMAIN st.data /\ s2 \notin DOMAIN st.data
  <2>1. new = [st EXCEPT !.ok = FALSE]
    BY Zenon, <1>2 DEF RenameSection
  <2> HIDE DEF new
  <2>2. ~new.ok
    BY <2>1 DEF Parser
  <2> QED
    BY Zenon, <2>2 DEF new
<1>3. CASE st.ok /\ s1 \in DOMAIN st.data /\ s2 \in DOMAIN st.data
  <2>1. PICK d : d = With(st.data, s2, st.data[s1])
    OBVIOUS
  <2>2. new = IF copy THEN [st EXCEPT !.data = d]
              ELSE [[st EXCEPT !.data = d] EXCEPT !.data = Without(d, s1)]
    <3>1. PICK r : r = [st EXCEPT !.data = d]
      OBVIOUS
    <3>2. r.data = d
      BY <3>1 DEF Parser
    <3> QED
      BY Zenon, <1>3, <2>1, <3>1, <3>2 DEF RenameSection
  <2>3. PICK w : w = Without(d, s1)
    OBVIOUS
  <2> HIDE DEF new
  <2>4. new.data = d \/ new.data = w
    <3>1. CASE copy
      <4>1. new = [st EXCEPT !.data = d]
        BY Zenon, <2>2, <3>1
      <4> QED
        BY <4>1 DEF Parser
    <3>2. CASE ~copy
      <4>1. new = [[st EXCEPT !.data = d] EXCEPT !.data = w]
        BY Zenon, <2>2, <2>3, <3>2
      <4> QED
        BY <4>1 DEF Parser
    <3> QED
      BY Zenon, <3>1, <3>2
  <2>5. ASSUME NEW s, Aside(s), NEW o PROVE Rawget(new.data, s, o) = Rawget(st.data, s, o)
    <3>1. s # s1 /\ s # s2
      BY Zenon, <2>5
    <3>2. /\ s \in DOMAIN d <=> s \in DOMAIN st.data
          /\ s \in DOMAIN st.data => d[s] = st.data[s]
      BY Zenon, <2>1, <3>1 DEF With
    <3>3. /\ s \in DOMAIN w <=> s \in DOMAIN d
          /\ s \in DOMAIN d => w[s] = d[s]
      BY Zenon, <2>3, <3>1 DEF Without
    <3> QED
      BY Zenon, <2>4, <3>2, <3>3 DEF Rawget
  <2> QED
    BY Zenon, <1>3, <2>5 DEF Kept, new
<1> QED
  BY Zenon, <1>1, <1>2, <1>3

LEMMA KindsAreNot ==
  /\ \A i \in DOMAIN RenameKinds : \A x : ~Aside(<<RenameKinds[i][2], x>>)
  /\ \A x : ~Aside(<<"protocol", x>>)
  /\ \A A \in SUBSET DOMAIN RenameKinds : A # {} => Min(A) \in A
<1>1. ASSUME NEW i \in DOMAIN RenameKinds, NEW x PROVE ~Aside(<<RenameKinds[i][2], x>>)
  <2>1. PICK y : y = <<RenameKinds[i][2], x>>
    OBVIOUS
  <2>2. y[1] = RenameKinds[i][2]
    BY <2>1
  <2> QED
    BY Zenon, <2>1, <2>2 DEF Aside
<1>2. DOMAIN RenameKinds = 1 .. 3 /\ 1 \in 1 .. 3 /\ RenameKinds[1][2] = "protocol"
  BY DEF RenameKinds
<1>3. \A x : ~Aside(<<"protocol", x>>)
  BY Zenon, <1>1, <1>2
<1>4. ASSUME NEW A \in SUBSET DOMAIN RenameKinds, A # {} PROVE Min(A) \in A
  <2>1. A \in SUBSET Nat
    BY <1>2, <1>4
  <2> QED
    BY Zenon, <1>4, <2>1, LeastIsMin
<1> QED
  BY Zenon, <1>1, <1>3, <1>4

LEMMA ConditionalKeeps ==
  ASSUME NEW st \in Parser, NEW old, st.ok => Kept(st.data, old), NEW c
  PROVE  /\ Conditional(st, c).ok => st.ok
         /\ Conditional(st, c).ok => Kept(Conditional(st, c).data, old)
<1> DEFINE section == <<"conditional", c>>
           able == {i \in DOMAIN RenameKinds : Len(Names(st.data, section, RenameKinds[i][1])) > 1}
           new == Conditional(st, c)
<1>1. CASE c = "" \/ c \notin Holds \/ ~st.ok
  BY Zenon, <1>1 DEF Conditional
<1>2. CASE ~(c = "" \/ c \notin Holds \/ ~st.ok) /\ able = {}
  <2>1. new = [st EXCEPT !.ok = FALSE]
    BY Zenon, <1>2 DEF Conditional
  <2> HIDE DEF new
  <2>2. ~new.ok
    BY <2>1 DEF Parser
  <2> QED
    BY Zenon, <2>2 DEF new
<1>3. CASE ~(c = "" \/ c \notin Holds \/ ~st.ok) /\ able # {}
  <2>1. PICK i \in DOMAIN RenameKinds : i = Min(able)
    BY Zenon, <1>3, KindsAreNot
  <2>2. \E x, y : new = RenameSection(st, <<RenameKinds[i][2], x>>, <<RenameKinds[i][2], y>>, FALSE)
    BY Zenon, <1>3, <2>1 DEF Conditional
  <2>3. PICK x, y : new = RenameSection(st, <<RenameKinds[i][2], x>>, <<RenameKinds[i][2], y>>, FALSE)
    BY Zenon, <2>2
  <2>4. ~Aside(<<RenameKinds[i][2], x>>) /\ ~Aside(<<RenameKinds[i][2], y>>)
    BY Zenon, KindsAreNot
  <2> HIDE DEF new
  <2>5. (new.ok => st.ok) /\ (new.ok => Kept(new.data, old))
    BY Zenon, <2>3, <2>4, RenameKeeps
  <2> QED
    BY Zenon, <2>5 DEF new
<1> QED
  BY Zenon, <1>1, <1>2, <1>3

LEMMA AliasKeeps ==
  ASSUME NEW st \in Parser, NEW old, st.ok => Kept(st.data, old), NEW p
  PROVE  /\ Alias(st, p).ok => st.ok
         /\ Alias(st, p).ok => Kept(Alias(st, p).data, old)
<1> DEFINE av == Names(st.data, <<"protocol", p>>, "alias")
           new == Alias(st, p)
<1>1. CASE ~st.ok \/ av = <<>>
  BY Zenon, <1>1 DEF Alias
<1>2. CASE ~(~st.ok \/ av = <<>>)
  <2>1. PICK x : new = RenameSection(st, <<"protocol", x>>, <<"protocol", p>>, TRUE)
    BY Zenon, <1>2 DEF Alias
  <2>2. ~Aside(<<"protocol", x>>) /\ ~Aside(<<"protocol", p>>)
    BY Zenon, KindsAreNot
  <2> HIDE DEF new
  <2>3. (new.ok => st.ok) /\ (new.ok => Kept(new.data, old))
    BY Zenon, <2>1, <2>2, RenameKeeps
  <2> QED
    BY Zenon, <2>3 DEF new
<1> QED
  BY Zenon, <1>1, <1>2

LEMMA ConfiguredKeeps ==
  ASSUME NEW st \in Parser
  PROVE  /\ Configured(st).ok => st.ok
         /\ Configured(st).ok => Kept(Configured(st).data, Flush(st).data)
<1> DEFINE old == Flush(st).data
           S == {x \in Parser : x.ok => st.ok /\ Kept(x.data, old)}
<1>1. Flush(st) \in S
  BY Zenon, FlushTyped, FlushParts DEF Kept
<1>2. ASSUME NEW x \in S, NEW c PROVE Conditional(x, c) \in S /\ Alias(x, c) \in S
  <2>1. x \in Parser /\ (x.ok => st.ok) /\ (x.ok => Kept(x.data, old))
    OBVIOUS
  <2> HIDE DEF old
  <2>2. /\ Conditional(x, c).ok => x.ok /\ Kept(Conditional(x, c).data, old)
        /\ Alias(x, c).ok => x.ok /\ Kept(Alias(x, c).data, old)
    BY Zenon, <2>1, ConditionalKeeps, AliasKeeps
  <2>3. Conditional(x, c) \in Parser /\ Alias(x, c) \in Parser
    BY Zenon, <2>1, ConditionalTyped, AliasTyped
  <2> QED
    BY Zenon, <2>1, <2>2, <2>3
<1>3. Configured(st) \in S
  <2>1. S \in SUBSET Parser
    OBVIOUS
  <2> HIDE DEF S
  <2> QED
    BY Zenon, <1>1, <1>2, <2>1, ConfiguredStays
<1> QED
  BY Zenon, <1>3

(* What has been read, as long as nothing was thrown.                      *)
Reading ==
    next - 1 \in 0 .. Len(lines) /\ cfg.ok => ReadSoFar(lines, cfg, next - 1)

LEMMA IsReading == Spec => []Reading
<1>1. Init => Reading
  <2> SUFFICES ASSUME Init PROVE Reading
    OBVIOUS
  <2>1. next - 1 = 0 /\ cfg = Start
    BY DEF Init
  <2> QED
    BY Zenon, <2>1, StartReads DEF Reading
<1>2. ParserTyped /\ ParserTyped' /\ Reading /\ [Next]_vars => Reading'
  <2> SUFFICES ASSUME ParserTyped, ParserTyped', Reading, [Next]_vars PROVE Reading'
    OBVIOUS
  <2>1. PICK len \in Nat : len = Len(lines)
    BY Zenon, Member DEF ParserTyped
  <2>2. CASE ReadNext
    <3>1. PICK n : n = next - 1
      OBVIOUS
    <3>2. n \in 0 .. len /\ n + 1 \in 1 .. len /\ next = n + 1 /\ next' - 1 = n + 1
      BY <2>1, <2>2, <3>1 DEF ReadNext, ParserTyped
    <3>3. cfg' = ReadLine(cfg, lines[n + 1]) /\ lines' = lines
      BY Zenon, <2>2, <3>2 DEF ReadNext
    <3>4. cfg'.ok => cfg.ok
      BY Zenon, <3>3 DEF ReadLine
    <3>5. cfg'.ok => ReadSoFar(lines, cfg, n)
      BY Zenon, <2>1, <3>1, <3>2, <3>4 DEF Reading
    <3>6. cfg'.ok => ReadSoFar(lines, ReadLine(cfg, lines[n + 1]), n + 1)
      BY Zenon, <2>1, <3>2, <3>3, <3>4, <3>5, ReadsNext DEF ParserTyped
    <3> QED
      BY Zenon, <3>2, <3>3, <3>6 DEF Reading
  <2>3. CASE next' - 1 \notin 0 .. Len(lines)'
    BY Zenon, <2>3 DEF Reading
  <2>4. CASE EndOfFile
    <3>1. lines' = lines /\ next' - 1 = len + 1 /\ len + 1 \notin 0 .. len
      BY <2>1, <2>4 DEF EndOfFile
    <3> QED
      BY Zenon, <2>1, <2>3, <3>1
  <2>5. CASE UNCHANGED <<lines, next, cfg>>
    BY Zenon, <2>5 DEF Reading
  <2> QED
    BY Zenon, <2>2, <2>4, <2>5
       DEF Next, AskOption, AskUrl, AskProto, AskCp, AskVia, AskList, AskFind, AskStatus,
           AskExperiment, Ask, HasPrefixes, Ready, vars
<1> QED
  BY <1>1, <1>2, ParserIsTyped, PTL DEF Spec

(* What is there once the conditionals and the aliases are done.           *)
Loaded ==
    next = Len(lines) + 2 /\ cfg.ok =>
        \A s : Aside(s) => \A o : Rawget(cfg.data, s, o) = Written(s, o)

LEMMA IsLoaded == Spec => []Loaded
<1>1. Init /\ ParserTyped => Loaded
  <2> SUFFICES ASSUME Init, ParserTyped PROVE Loaded
    OBVIOUS
  <2>1. PICK len \in Nat : len = Len(lines)
    BY Zenon, Member DEF ParserTyped
  <2>2. next # len + 2
    BY DEF Init
  <2> QED
    BY Zenon, <2>1, <2>2 DEF Loaded
<1>2. ParserTyped /\ Reading /\ Loaded /\ [Next]_vars => Loaded'
  <2> SUFFICES ASSUME ParserTyped, Reading, Loaded, [Next]_vars PROVE Loaded'
    OBVIOUS
  <2>1. PICK len \in Nat : len = Len(lines)
    BY Zenon, Member DEF ParserTyped
  <2>2. CASE ReadNext
    <3>1. lines' = lines /\ next' # len + 2
      BY <2>1, <2>2 DEF ReadNext, ParserTyped
    <3> QED
      BY Zenon, <2>1, <3>1 DEF Loaded
  <2>3. CASE EndOfFile
    <3>1. lines' = lines /\ cfg' = Configured(cfg)
      BY Zenon, <2>3 DEF EndOfFile
    <3>2. next - 1 = len /\ len \in 0 .. len
      BY <2>1, <2>3 DEF EndOfFile, ParserTyped
    <3>3. cfg'.ok => cfg.ok /\ Kept(cfg'.data, Flush(cfg).data)
      BY Zenon, <3>1, ConfiguredKeeps DEF ParserTyped
    <3>4. cfg'.ok => ReadSoFar(lines, cfg, len)
      BY Zenon, <2>1, <3>2, <3>3 DEF Reading
    <3>5. cfg'.ok => \A s, o : Rawget(Flush(cfg).data, s, o) = FirstIn(lines, s, o)
      BY Zenon, <2>1, <3>4, AllRead DEF ParserTyped
    <3> QED
      BY Zenon, <3>1, <3>3, <3>5 DEF Loaded, Kept, Written
  <2>4. CASE UNCHANGED <<lines, next, cfg>>
    BY Zenon, <2>4 DEF Loaded, Written
  <2> QED
    BY Zenon, <2>2, <2>3, <2>4
       DEF Next, AskOption, AskUrl, AskProto, AskCp, AskVia, AskList, AskFind, AskStatus,
           AskExperiment, Ask, HasPrefixes, Ready, vars
<1> QED
  BY <1>1, <1>2, ParserIsTyped, IsReading, PTL DEF Spec

(* After the last line of a file each section has the options that the     *)
(* file gives it, each with the first value written for it and the lines   *)
(* that continue that.  Conditionals and aliases then leave alone all but  *)
(* the protocols, the locations and the rotations.                         *)
THEOREM ReadsAsWritten == Spec => []ReadAsWritten
<1>1. ParserTyped /\ Reading /\ Loaded => ReadAsWritten
  <2> SUFFICES ASSUME ParserTyped, Reading, Loaded PROVE ReadAsWritten
    OBVIOUS
  <2>1. PICK len \in Nat : len = Len(lines)
    BY Zenon, Member DEF ParserTyped
  <2>2. ASSUME next = Len(lines) + 1, cfg.ok, NEW s, NEW o
        PROVE  Rawget(Flush(cfg).data, s, o) = Written(s, o)
    <3>1. next - 1 = len /\ len \in 0 .. len
      BY <2>1, <2>2
    <3>2. ReadSoFar(lines, cfg, len)
      BY Zenon, <2>1, <2>2, <3>1 DEF Reading
    <3>3. lines \in Seq(Line) /\ cfg \in Parser
      BY Zenon DEF ParserTyped
    <3>4. Rawget(Flush(cfg).data, s, o) = FirstIn(lines, s, o)
      BY <2>1, <3>2, <3>3, AllRead
    <3> QED
      BY Zenon, <3>4 DEF Written
  <2>3. next = Len(lines) + 2 /\ cfg.ok =>
           \A s : Aside(s) => \A o : Rawget(cfg.data, s, o) = Written(s, o)
    BY Zenon DEF Loaded
  <2> QED
    BY Zenon, <2>2, <2>3 DEF ReadAsWritten, AsInFile, Aside
<1> QED
  BY <1>1, ParserIsTyped, IsReading, IsLoaded, PTL

-----------------------------------------------------------------------------
(* The protocol of a copy *)

(* The first pair of numbers.                                              *)
LEMMA FirstPair ==
  ASSUME NEW A \in SUBSET (Nat \X Nat), A # {}
  PROVE  \E x \in A : \A y \in A : x[1] < y[1] \/ (x[1] = y[1] /\ x[2] <= y[2])
<1> DEFINE One == {x[1] : x \in A}
<1>1. One \in SUBSET Nat /\ One # {}
  OBVIOUS
<1>2. Min(One) \in One /\ \A y \in One : Min(One) <= y
  <2> HIDE DEF One
  <2> QED
    BY <1>1, LeastIsMin
<1>3. PICK a \in A : \A y \in A : a[1] <= y[1]
  BY <1>2
<1> DEFINE Two == {x[2] : x \in {y \in A : y[1] = a[1]}}
<1>4. Two \in SUBSET Nat /\ Two # {}
  OBVIOUS
<1>5. Min(Two) \in Two /\ \A y \in Two : Min(Two) <= y
  <2> HIDE DEF Two
  <2> QED
    BY <1>4, LeastIsMin
<1>6. PICK b \in A : b[1] = a[1] /\ \A y \in A : y[1] = a[1] => b[2] <= y[2]
  BY <1>5
<1>7. ASSUME NEW y \in A PROVE b[1] < y[1] \/ (b[1] = y[1] /\ b[2] <= y[2])
  <2>1. a[1] <= y[1] /\ a[1] \in Nat /\ y[1] \in Nat
    BY <1>3
  <2> QED
    BY <1>6, <2>1
<1> QED
  BY <1>7

LEMMA ProtosTyped ==
  ASSUME NEW data \in Data, NEW loc
  PROVE  \E n \in Nat : DOMAIN ProtosAt(data, loc) = 1 .. n
<1>1. \A s, o : \E n \in Nat : DOMAIN Names(data, s, o) = 1 .. n
  BY Zenon, NamesTyped, Member
<1>2. DOMAIN <<loc.proto>> = 1 .. 1
  OBVIOUS
<1>3. 1 \in Nat
  OBVIOUS
<1> QED
  BY Zenon, <1>1, <1>2, <1>3 DEF ProtosAt

(* What FirstCommon answers, of two lists that it can go through.          *)
LEMMA FirstCommonSuits ==
  ASSUME NEW s, NEW d, NEW src, NEW dst, NEW n \in Nat, NEW m \in Nat,
         DOMAIN s = 1 .. n, DOMAIN d = 1 .. m
  PROVE  FitsEnds(s, d, src, dst, FirstCommon(s, d, src, dst))
<1> USE DEF FitsEnds
<1> DEFINE HasProto(l, loc, p) == \E i \in Usable(l, loc) : l[i] = p
           Suits(p) == \/ HasProto(s, src, p) /\ HasProto(d, dst, p)
                       \/ HasProto(s, src, FileProto) /\ HasProto(d, dst, p)
                       \/ HasProto(s, src, p) /\ HasProto(d, dst, FileProto)
           pick == FirstCommon(s, d, src, dst)
           at == {x \in Usable(s, src) \X Usable(d, dst) : Agree(s[x[1]], d[x[2]])}
<1>1. CASE at = {}
  <2>0. PICK two : two = IF d[1] # s[1] THEN d[1] ELSE ""
    OBVIOUS
  <2>1. pick = [proto |-> s[1], proto2 |-> two]
    BY Zenon, <1>1, <2>0 DEF FirstCommon
  <2>2. \A i \in Usable(s, src), j \in Usable(d, dst) : ~Agree(s[i], d[j])
    <3>1. ASSUME NEW i \in Usable(s, src), NEW j \in Usable(d, dst), Agree(s[i], d[j]) PROVE FALSE
      <4>1. <<i, j>> \in at
        BY <3>1
      <4> QED
        BY <1>1, <4>1
    <3> QED
      BY <3>1
  <2>3. ~\E p : Suits(p)
    BY Zenon, <2>2 DEF Agree
  <2>4. pick.proto = s[1] /\ pick.proto2 = two
    <3> HIDE DEF pick
    <3> QED
      BY <2>1
  <2> QED
    BY Zenon, <2>0, <2>3, <2>4
<1>2. CASE at # {}
  <2> DEFINE Least(x) == \A y \in at : x[1] < y[1] \/ (x[1] = y[1] /\ x[2] <= y[2])
             f == CHOOSE x \in at : Least(x)
             a == s[f[1]]
             b == d[f[2]]
  <2>1. at \in SUBSET (Nat \X Nat)
    <3>1. Usable(s, src) \subseteq Nat /\ Usable(d, dst) \subseteq Nat
      <4>1. 1 .. n \subseteq Nat /\ 1 .. m \subseteq Nat
        OBVIOUS
      <4> QED
        BY Zenon, <4>1 DEF Usable
    <3> HIDE DEF Least, f, a, b, pick, HasProto, Suits
    <3> QED
      BY <3>1
  <2>2. \E x \in at : Least(x)
    <3> HIDE DEF at
    <3> QED
      BY <1>2, <2>1, FirstPair
  <2>3. f \in at
    <3> HIDE DEF at, Least
    <3> QED
      BY Zenon, <2>2
  <2>4. f[1] \in Usable(s, src) /\ f[2] \in Usable(d, dst) /\ Agree(a, b)
    <3> HIDE DEF f
    <3> QED
      BY <2>3
  <2>0. PICK c : c = IF a = b \/ b = FileProto THEN a ELSE b
    <3> HIDE DEF a, b
    <3> QED
      OBVIOUS
  <2>5. pick = [proto |-> c, proto2 |-> ""]
    BY Zenon, <1>2, <2>0 DEF FirstCommon
  <2> HIDE DEF f, at
  <2>6. pick.proto = c /\ pick.proto2 = ""
    <3> HIDE DEF pick
    <3> QED
      BY <2>5
  <2>7. Suits(pick.proto)
    BY Zenon, <2>0, <2>4, <2>6 DEF Agree
  <2> QED
    BY Zenon, <2>6, <2>7
<1> QED
  BY Zenon, <1>1, <1>2

(* Once there is a question the configuration stays.                       *)
LEMMA AskedStays ==
  ASSUME ParserTyped, [Next]_vars, UNCHANGED <<asked, answer>>
  PROVE  asked'.kind = "none" \/ cfg' = cfg
<1>1. CASE ReadNext \/ EndOfFile
  <2>1. Len(lines) \in Nat
    BY Zenon, Member DEF ParserTyped
  <2>2. next # Len(lines) + 2
    BY <1>1, <2>1 DEF ReadNext, EndOfFile
  <2> QED
    BY Zenon, <2>2 DEF ParserTyped
<1>2. CASE UNCHANGED cfg
  BY <1>2
<1>3. ReadNext \/ EndOfFile \/ UNCHANGED cfg
  BY Zenon, OneAsks, AskFrame DEF Next, vars, AskOption, AskUrl, AskProto, AskCp, AskVia,
                        AskList, AskFind, AskStatus, AskExperiment
<1> QED
  BY <1>1, <1>2, <1>3

(* A copy goes by a protocol that suits both ends, in one step whenever    *)
(* there is one, or by the force that is found at both ends, whatever the  *)
(* configuration and the two ends: pick_proto.                             *)
THEOREM ProtocolsSuit == Spec => []ProtocolSuits
<1>1. Init => ProtocolSuits
  <2>1. Init => asked.kind # "proto"
    BY DEF Init, NoQuestion
  <2> QED
    BY Zenon, <2>1 DEF ProtocolSuits
<1>2. ParserTyped /\ ProtocolSuits /\ [Next]_vars => ProtocolSuits'
  <2> SUFFICES ASSUME ParserTyped, ProtocolSuits, [Next]_vars PROVE ProtocolSuits'
    OBVIOUS
  <2>2. CASE asked'.kind # "proto"
    BY Zenon, <2>2 DEF ProtocolSuits
  <2>3. CASE AskProto
    <3>1. PICK q, f : Ask([kind |-> "proto", src |-> q[1], dst |-> q[2], force |-> f],
                          PickProto(cfg.data, q[1], q[2], f))
      <4>1. PICK e \in Ends, g \in Forces :
               Ask([kind |-> "proto", src |-> LookupLoc(cfg.data, e[1]), dst |-> LookupLoc(cfg.data, e[2]),
                    force |-> g],
                   PickProto(cfg.data, LookupLoc(cfg.data, e[1]), LookupLoc(cfg.data, e[2]), g))
        BY Zenon, <2>3 DEF AskProto
      <4>2. PICK q : q = <<LookupLoc(cfg.data, e[1]), LookupLoc(cfg.data, e[2])>>
        OBVIOUS
      <4>3. q[1] = LookupLoc(cfg.data, e[1]) /\ q[2] = LookupLoc(cfg.data, e[2])
        BY <4>2
      <4> QED
        BY Zenon, <4>1, <4>3
    <3> DEFINE src == q[1]
               dst == q[2]
               s == ProtosAt(cfg.data, src)
               d == ProtosAt(cfg.data, dst)
    <3>2. /\ asked' = [kind |-> "proto", src |-> src, dst |-> dst, force |-> f]
          /\ answer' = PickProto(cfg.data, src, dst, f) /\ cfg' = cfg
      BY Zenon, <3>1, AskFrame
    <3>3. asked'.src = src /\ asked'.dst = dst /\ asked'.force = f
      BY <3>2
    <3> DEFINE Found == f # "" /\ FoundAt(cfg.data, src, ForceOf(f))
                               /\ FoundAt(cfg.data, dst, ForceOf(f))
    <3>4. CASE Found
      <4>1. answer' = [proto |-> ForceOf(f), proto2 |-> ""]
        BY Zenon, <3>2, <3>4 DEF PickProto
      <4>2. answer'.proto = ForceOf(f) /\ answer'.proto2 = ""
        BY <4>1
      <4>3. \A loc \in {src, dst} : FoundAt(cfg.data, loc, ForceOf(f))
        BY Zenon, <3>4
      <4>4. Takes(asked', answer')
        BY Zenon, <3>3, <3>4, <4>2 DEF Takes
      <4>5. CASE \A loc \in {src, dst} : ForceOf(f) \in ListedAt(cfg.data, loc)
        <5>1. Forced(cfg.data, asked', answer')
          BY Zenon, <3>3, <4>2, <4>4, <4>5 DEF Forced
        <5> QED
          BY Zenon, <3>2, <5>1 DEF ProtocolSuits, Forced, Takes
      <4>6. CASE \E loc \in {src, dst} : ForceOf(f) \notin ListedAt(cfg.data, loc)
        <5>1. Mistaken(cfg.data, asked', answer')
          BY Zenon, <3>3, <4>2, <4>3, <4>4, <4>6 DEF Mistaken
        <5> QED
          BY Zenon, <3>2, <5>1 DEF ProtocolSuits, Mistaken, Takes
      <4> QED
        BY Zenon, <4>5, <4>6
    <3>5. CASE ~Found
      <4>1. answer' = FirstCommon(s, d, src, dst)
        BY Zenon, <3>2, <3>5 DEF PickProto
      <4>2. cfg.data \in Data
        BY Zenon, ParserParts DEF ParserTyped
      <4>3. PICK n \in Nat : DOMAIN s = 1 .. n
        BY Zenon, <4>2, ProtosTyped
      <4>4. PICK m \in Nat : DOMAIN d = 1 .. m
        BY Zenon, <4>2, ProtosTyped
      <4> HIDE DEF s, d
      <4>5. FitsEnds(s, d, src, dst, FirstCommon(s, d, src, dst))
        BY Zenon, <4>3, <4>4, FirstCommonSuits
      <4> QED
        BY Zenon, <3>2, <3>3, <4>1, <4>5 DEF ProtocolSuits, FitsEnds, s, d
    <3> QED
      BY <3>4, <3>5
  <2>4. CASE UNCHANGED <<asked, answer>>
    <3>1. asked'.kind = "none" \/ (asked' = asked /\ answer' = answer /\ cfg' = cfg)
      BY Zenon, <2>4, AskedStays
    <3>2. CASE asked'.kind = "none"
      BY <2>2, <3>2
    <3>3. CASE asked' = asked /\ answer' = answer /\ cfg' = cfg
      BY <3>3 DEF ProtocolSuits, Forced, Mistaken, Takes
    <3> QED
      BY <3>1, <3>2, <3>3
  <2> QED
    BY <2>2, <2>3, <2>4, OneAsks
<1> QED
  BY <1>1, <1>2, ParserIsTyped, PTL DEF Spec

-----------------------------------------------------------------------------
(* Listings *)

LEMMA AppendEnd ==
  ASSUME NEW S, NEW p \in Seq(S), NEW e \in S
  PROVE  /\ Append(p, e) \in Seq(S) /\ Append(p, e) # <<>>
         /\ Last(Append(p, e)) = e /\ Front(Append(p, e)) = p /\ p \o <<e>> = Append(p, e)
<1>1. /\ Append(p, e) \in Seq(S) /\ Append(p, e) # <<>> /\ Len(Append(p, e)) = Len(p) + 1
      /\ \A i \in 1 .. Len(p) : Append(p, e)[i] = p[i]
      /\ Append(p, e)[Len(p) + 1] = e
  BY AppendProperties
<1>2. Len(p) \in Nat /\ Len(p) + 1 - 1 = Len(p)
  OBVIOUS
<1>3. Front(Append(p, e)) = SubSeq(Append(p, e), 1, Len(p))
  <2>1. Len(Append(p, e)) - 1 = Len(p)
    BY <1>1, <1>2
  <2> QED
    BY Zenon, <2>1 DEF Front
<1>4. SubSeq(Append(p, e), 1, Len(p)) = p
  OBVIOUS
<1>5. p \o <<e>> = Append(p, e)
  OBVIOUS
<1> QED
  BY Zenon, <1>1, <1>3, <1>4, <1>5 DEF Last

LEMMA PathEnds ==
  ASSUME NEW p \in Seq(Word), p # <<>>
  PROVE  /\ Append(p, "") \in Seq(Word) /\ Append(p, "") # <<>>
         /\ Last(Append(p, "")) = "" /\ Front(Append(p, "")) = p
         /\ p = Append(Front(p), Last(p)) /\ Front(p) \in Seq(Word) /\ Last(p) \in Word
         /\ Len(p) \in Nat \ {0} /\ Len(Front(p)) = Len(p) - 1
<1>1. "" \in Word
  BY Words
<1>2. /\ Append(p, "") \in Seq(Word) /\ Append(p, "") # <<>>
      /\ Last(Append(p, "")) = "" /\ Front(Append(p, "")) = p
  BY Zenon, <1>1, AppendEnd
<1>5. p = Append(Front(p), Last(p))
  BY DEF Last, Front
<1>6. Front(p) \in Seq(Word) /\ Last(p) \in Word /\ Len(Front(p)) = Len(p) - 1
  BY Zenon, FrontLast
<1>7. Len(p) \in Nat \ {0}
  OBVIOUS
<1> QED
  BY Zenon, <1>2, <1>5, <1>6, <1>7

(* A path, and the directory's entry that is made of it.                   *)
LEMMA BareIs ==
  ASSUME NEW p \in Seq(Word), p # <<>>, Last(p) # ""
  PROVE  /\ Bare(p) = p /\ Slashed(p) = Append(p, "") /\ Bare(Slashed(p)) = p
         /\ Slashed(Slashed(p)) = Slashed(p) /\ IsDirEntry(Slashed(p)) /\ ~IsDirEntry(p)
BY Zenon, PathEnds DEF Bare, Slashed, IsDirEntry

LEMMA TreePath ==
  ASSUME NEW tree, IsTree(tree), NEW p \in tree.dirs \union tree.files
  PROVE  p \in Seq(Word) /\ p # <<>> /\ Last(p) # ""
BY Zenon DEF IsTree

LEMMA SlashedOnce ==
  ASSUME NEW tree, IsTree(tree), NEW p \in tree.dirs, NEW q \in tree.dirs, Slashed(p) = Slashed(q)
  PROVE  p = q
BY Zenon, TreePath, BareIs

(* What is in a directory is what is one part longer.                      *)
LEMMA ChildrenAre ==
  ASSUME NEW tree, IsTree(tree), NEW d \in tree.dirs
  PROVE  Children(tree, d) = {p \in Below(tree, d) : Len(p) = Len(d) + 1}
<1>1. d \in Seq(Word) /\ d # <<>>
  BY Zenon, TreePath
<1>2. ASSUME NEW p \in tree.dirs \union tree.files
      PROVE  Len(p) > 1 /\ Front(p) = d <=>
                Len(p) > Len(d) /\ SubSeq(p, 1, Len(d)) = d /\ Len(p) = Len(d) + 1
  <2>1. p \in Seq(Word) /\ p # <<>>
    BY Zenon, TreePath
  <2>2. Len(p) \in Nat \ {0} /\ Len(d) \in Nat \ {0} /\ Len(Front(p)) = Len(p) - 1
    BY Zenon, <1>1, <2>1, PathEnds
  <2>3. Len(p) - 1 = Len(d) => Front(p) = SubSeq(p, 1, Len(d))
    BY Zenon DEF Front
  <2>4. Front(p) = d => Len(p) = Len(d) + 1 /\ Len(p) - 1 = Len(d) /\ Len(p) > 1 /\ Len(p) > Len(d)
    BY <2>2
  <2>5. Len(p) = Len(d) + 1 => Len(p) - 1 = Len(d) /\ Len(p) > 1
    BY <2>2
  <2> QED
    BY Zenon, <2>3, <2>4, <2>5
<1> QED
  BY Zenon, <1>2 DEF Children, Below

LEMMA EntryIs ==
  ASSUME NEW tree, IsTree(tree), NEW d, NEW p \in Children(tree, d)
  PROVE  Entry(d, Printed(tree, p)) = AsEntry(tree, p)
<1>1. p \in tree.dirs \union tree.files /\ Front(p) = d
  BY Zenon DEF Children
<1>2. p \in Seq(Word) /\ p # <<>> /\ Last(p) # ""
  BY Zenon, <1>1, TreePath
<1>3. Append(d, Last(p)) = p
  BY Zenon, <1>1, <1>2, PathEnds
<1>4. p \o <<>> = p /\ p \o <<"">> = Append(p, "")
  BY Zenon, <1>2, AppendEnd, Words, ConcatEmptySeq
<1>5. Slashed(p) = Append(p, "")
  BY Zenon, <1>2, BareIs
<1>6. Printed(tree, p).name = Last(p) /\ (Printed(tree, p).dir <=> p \in tree.dirs)
  BY DEF Printed
<1> QED
  BY Zenon, <1>3, <1>4, <1>5, <1>6 DEF Entry, AsEntry

(* One listing of a directory, however it is written, has the directory    *)
(* and what is in it.                                                      *)
LEMMA OneListingDir ==
  ASSUME NEW tree, IsTree(tree), NEW own, Clear(tree, own), NEW d \in tree.dirs,
         NEW l \in {d, Slashed(d)}
  PROVE  OneListing(tree, l, own) = {AsEntry(tree, p) : p \in {d} \union Children(tree, d)}
<1>1. d \in Seq(Word) /\ d # <<>> /\ Last(d) # "" /\ d \notin tree.files
  BY Zenon, TreePath DEF IsTree
<1>2. Bare(l) = d /\ Slashed(l) = Slashed(d)
  BY Zenon, <1>1, BareIs
<1> DEFINE ls == {Printed(tree, p) : p \in Children(tree, d)}
<1>3. LssLines(tree, l) = ls
  BY Zenon, <1>1, <1>2 DEF LssLines
<1>4. {Entry(d, x) : x \in ls} = {AsEntry(tree, p) : p \in Children(tree, d)}
  BY Zenon, EntryIs
<1>5. AsEntry(tree, d) = Slashed(d)
  BY Zenon DEF AsEntry
<1>6. ASSUME ~IsDirListing(tree, l, own) PROVE Children(tree, d) = {}
  <2>1. ASSUME own PROVE FALSE
    <3>1. (IF own /\ Bare(l) \in tree.dirs THEN 1 ELSE 0) = 1
      BY <1>2, <2>1
    <3> QED
      BY Zenon, <1>6, <3>1 DEF IsDirListing
  <2>2. \A x \in ls : ~x.dir /\ x.name = Last(d)
    BY Zenon, <1>2, <1>3, <1>6 DEF IsDirListing
  <2>3. \A p \in Children(tree, d) : p \in tree.files /\ Last(p) = Last(d)
    <3>1. ASSUME NEW p \in Children(tree, d) PROVE p \in tree.files /\ Last(p) = Last(d)
      <4>1. ~Printed(tree, p).dir /\ Printed(tree, p).name = Last(d)
        BY Zenon, <2>2
      <4> QED
        BY <4>1 DEF Printed, Children
    <3> QED
      BY <3>1
  <2>4. \A p, q \in Children(tree, d) : p = q
    <3>1. ASSUME NEW p \in Children(tree, d) PROVE p = Append(d, Last(d))
      BY Zenon, <2>3, TreePath, PathEnds DEF Children
    <3> QED
      BY Zenon, <3>1
  <2>5. \A p \in Children(tree, d) : Children(tree, d) = {p}
    BY Zenon, <2>4
  <2>6. \A p \in Children(tree, d) : Ambiguous(tree, d)
    BY Zenon, <2>3, <2>5 DEF Ambiguous
  <2> QED
    BY Zenon, <2>1, <2>6 DEF Clear
<1> HIDE DEF ls
<1>7. CASE IsDirListing(tree, l, own)
  <2>1. OneListing(tree, l, own) = {Slashed(d)} \union {AsEntry(tree, p) : p \in Children(tree, d)}
    BY Zenon, <1>2, <1>3, <1>4, <1>7 DEF OneListing
  <2> QED
    BY Zenon, <1>5, <2>1
<1>8. CASE ~IsDirListing(tree, l, own)
  <2>1. ls = {} /\ Children(tree, d) = {} /\ tree.failing = {}
    BY Zenon, <1>6, <1>8 DEF ls, Clear
  <2>2. OneListing(tree, l, own) = {Slashed(d)}
    BY Zenon, <1>2, <1>3, <1>8, <2>1 DEF OneListing
  <2> QED
    BY Zenon, <1>5, <2>1, <2>2
<1> QED
  BY <1>7, <1>8

(* One listing of a file has the file.                                     *)
LEMMA OneListingFile ==
  ASSUME NEW tree, IsTree(tree), NEW own, NEW f \in tree.files
  PROVE  OneListing(tree, f, own) = {f} /\ f \notin tree.dirs
<1>1. f \in Seq(Word) /\ f # <<>> /\ Last(f) # "" /\ f \notin tree.dirs
  BY Zenon, TreePath DEF IsTree
<1>2. Bare(f) = f
  BY Zenon, <1>1, BareIs
<1>3. LssLines(tree, f) = {Printed(tree, f)}
  BY Zenon, <1>2 DEF LssLines
<1>4. Printed(tree, f).name = Last(f) /\ ~Printed(tree, f).dir
  BY <1>1 DEF Printed
<1>5. ~IsDirListing(tree, f, own)
  <2>1. Cardinality({Printed(tree, f)}) = 1
    BY FS_Singleton
  <2>2. (IF own /\ Bare(f) \in tree.dirs THEN 1 ELSE 0) = 0
    BY <1>1, <1>2
  <2>3. ~(1 + 0 > 1) /\ 0 # 1
    OBVIOUS
  <2> QED
    BY Zenon, <1>2, <1>3, <1>4, <2>1, <2>2, <2>3 DEF IsDirListing
<1>6. Entry(Front(f), Printed(tree, f)) = f
  <2>1. Append(Front(f), Last(f)) = f
    BY Zenon, <1>1, PathEnds
  <2>2. f \o <<>> = f
    BY Zenon, <1>1, ConcatEmptySeq
  <2> QED
    BY Zenon, <1>4, <2>1, <2>2 DEF Entry
<1>7. LssLines(tree, f) # {}
  BY Zenon, <1>3
<1>8. OneListing(tree, f, own) = {Entry(Front(f), l) : l \in LssLines(tree, f)}
  BY Zenon, <1>2, <1>5, <1>7 DEF OneListing
<1> QED
  BY Zenon, <1>1, <1>3, <1>6, <1>8

(* What is below a directory: what is in it, and what is below that.       *)
LEMMA BelowSplits ==
  ASSUME NEW tree, IsTree(tree), NEW d \in tree.dirs, NEW k \in Nat, k >= 1
  PROVE  /\ {q \in Below(tree, d) : Len(q) <= Len(d) + 1} = Children(tree, d)
         /\ {q \in Below(tree, d) : Len(q) <= Len(d) + (k + 1)}
              = Children(tree, d) \union
                UNION {{q \in Below(tree, p) : Len(q) <= Len(p) + k} : p \in Children(tree, d) \intersect tree.dirs}
<1>1. d \in Seq(Word) /\ d # <<>> /\ Len(d) \in Nat
  BY Zenon, TreePath, PathEnds DEF IsTree
<1>2. ASSUME NEW q \in Below(tree, d)
      PROVE  /\ q \in Seq(Word) /\ Len(q) \in Nat /\ Len(q) > Len(d) /\ q \in tree.dirs \union tree.files
             /\ q \in Children(tree, d) <=> Len(q) = Len(d) + 1
  <2>1. q \in tree.dirs \union tree.files /\ Len(q) > Len(d)
    BY Zenon DEF Below
  <2>2. q \in Seq(Word)
    BY Zenon, <2>1, TreePath
  <2>3. Len(q) \in Nat
    BY Zenon, <2>2, Member
  <2>4. q \in Children(tree, d) <=> Len(q) = Len(d) + 1
    BY Zenon, ChildrenAre
  <2> QED
    BY Zenon, <2>1, <2>2, <2>3, <2>4
<1>3. ASSUME NEW q \in Below(tree, d)
      PROVE  (Len(q) <= Len(d) + 1) <=> Len(q) = Len(d) + 1
  <2>1. Len(q) \in Nat /\ Len(q) > Len(d) /\ Len(d) \in Nat
    BY Zenon, <1>1, <1>2
  <2> QED
    BY <2>1
<1>4. Children(tree, d) \subseteq Below(tree, d)
  BY Zenon, ChildrenAre
<1>5. {q \in Below(tree, d) : Len(q) <= Len(d) + 1} = Children(tree, d)
  BY Zenon, <1>2, <1>3, <1>4
<1>6. ASSUME NEW q \in Below(tree, d), Len(q) <= Len(d) + (k + 1), q \notin Children(tree, d)
      PROVE  \E p \in Children(tree, d) \intersect tree.dirs : q \in Below(tree, p) /\ Len(q) <= Len(p) + k
  <2> DEFINE p == SubSeq(q, 1, Len(d) + 1)
  <2>1. Len(q) \in Nat /\ Len(q) > Len(d) /\ Len(q) # Len(d) + 1 /\ Len(d) \in Nat
    BY Zenon, <1>1, <1>2, <1>6
  <2>2. Len(d) + 1 \in Len(d) .. Len(q) - 1
    BY <2>1
  <2>3. p \in tree.dirs
    BY Zenon, <2>2 DEF IsTree
  <2>4. q \in Seq(Word)
    BY Zenon, <1>2
  <2>5. Len(p) = Len(d) + 1 /\ SubSeq(p, 1, Len(d)) = SubSeq(q, 1, Len(d)) /\ SubSeq(q, 1, Len(p)) = p
    BY <2>1, <2>4
  <2>6. SubSeq(q, 1, Len(d)) = d
    BY Zenon DEF Below
  <2> HIDE DEF p
  <2>7. Len(p) > Len(d) /\ Len(q) > Len(p) /\ Len(q) <= Len(p) + k
    BY <1>6, <2>1, <2>5
  <2>8. p \in Below(tree, d)
    BY Zenon, <2>3, <2>5, <2>6, <2>7 DEF Below
  <2>9. p \in Children(tree, d)
    BY Zenon, <1>2, <2>5, <2>8
  <2>10. q \in Below(tree, p)
    BY Zenon, <1>2, <2>5, <2>7 DEF Below
  <2> QED
    BY Zenon, <2>3, <2>7, <2>9, <2>10
<1>7. ASSUME NEW p \in Children(tree, d), p \in tree.dirs, NEW q \in Below(tree, p), Len(q) <= Len(p) + k
      PROVE  q \in Below(tree, d) /\ Len(q) <= Len(d) + (k + 1)
  <2>1. p \in Seq(Word) /\ Len(p) = Len(d) + 1 /\ SubSeq(p, 1, Len(d)) = d
    BY Zenon, <1>2, <1>4 DEF Below
  <2>2. q \in tree.dirs \union tree.files /\ Len(q) > Len(p) /\ SubSeq(q, 1, Len(p)) = p
    BY Zenon DEF Below
  <2>3. q \in Seq(Word) /\ Len(q) \in Nat /\ Len(p) \in Nat
    BY Zenon, <2>1, <2>2, TreePath, Member
  <2>4. SubSeq(SubSeq(q, 1, Len(p)), 1, Len(d)) = SubSeq(q, 1, Len(d))
    BY <1>1, <2>1, <2>2, <2>3
  <2>5. Len(q) > Len(d) /\ Len(q) <= Len(d) + (k + 1)
    BY <1>1, <1>7, <2>1, <2>2, <2>3
  <2> QED
    BY Zenon, <2>1, <2>2, <2>4, <2>5 DEF Below
<1>8. ASSUME NEW p \in Children(tree, d) PROVE p \in Below(tree, d) /\ Len(p) <= Len(d) + (k + 1)
  <2>1. Len(p) = Len(d) + 1 /\ Len(d) \in Nat
    BY Zenon, <1>1, <1>2, <1>4
  <2>2. Len(p) <= Len(d) + (k + 1)
    BY <2>1
  <2> QED
    BY Zenon, <1>4, <2>2
<1> DEFINE Near(p) == {q \in Below(tree, p) : Len(q) <= Len(p) + k}
           Sub == Children(tree, d) \intersect tree.dirs
           all == {q \in Below(tree, d) : Len(q) <= Len(d) + (k + 1)}
<1>9. all \subseteq Children(tree, d) \union UNION {Near(p) : p \in Sub}
  <2>1. ASSUME NEW q \in all, q \notin Children(tree, d) PROVE \E p \in Sub : q \in Near(p)
    BY Zenon, <1>6, <2>1
  <2> QED
    BY Zenon, <2>1
<1>10. UNION {Near(p) : p \in Sub} \subseteq all
  <2>1. ASSUME NEW p \in Sub, NEW q \in Near(p) PROVE q \in all
    BY Zenon, <1>7
  <2> QED
    BY Zenon, <2>1
<1>11. Children(tree, d) \subseteq all
  BY Zenon, <1>8
<1> HIDE DEF all
<1>12. all = Children(tree, d) \union UNION {Near(p) : p \in Sub}
  BY Zenon, <1>9, <1>10, <1>11
<1> QED
  BY Zenon, <1>5, <1>12 DEF all

LEMMA ReachedNow ==
  ASSUME NEW tree, IsTree(tree), NEW loc \in tree.dirs \union tree.files
  PROVE  Reached(tree, loc, 0) = {AsEntry(tree, loc)}
<1>1. ASSUME NEW q \in Below(tree, loc) PROVE ~(Len(q) <= Len(loc) + 0)
  <2>1. Len(q) > Len(loc) /\ Len(q) \in Nat /\ Len(loc) \in Nat
    BY Zenon, TreePath, Member DEF Below
  <2> QED
    BY <2>1
<1> QED
  BY Zenon, <1>1 DEF Reached

LEMMA ReachedFile ==
  ASSUME NEW tree, IsTree(tree), NEW f \in tree.files, NEW k
  PROVE  Reached(tree, f, k) = {f}
BY Zenon DEF Reached, IsTree, AsEntry

(* One level of a listing, when those of the next are right.               *)
LEMMA RelistDir ==
  ASSUME NEW tree, IsTree(tree), NEW own, Clear(tree, own), NEW d \in tree.dirs,
         NEW l \in {d, Slashed(d)}, NEW k \in Nat, NEW deeper,
         k >= 2 => \A p \in tree.dirs : deeper[Slashed(p)] = Reached(tree, p, k - 1)
  PROVE  Relist(tree, l, k, own, deeper) = Reached(tree, d, k)
<1> DEFINE C == Children(tree, d)
           one == {AsEntry(tree, p) : p \in {d} \union C}
           inner == {e \in one : IsDirEntry(e) /\ e # Slashed(d)}
<1>1. d \in Seq(Word) /\ d # <<>> /\ Last(d) # "" /\ d \notin tree.files
  BY Zenon, TreePath DEF IsTree
<1>2. Bare(l) = d /\ Slashed(l) = Slashed(d)
  BY Zenon, <1>1, BareIs
<1>3. OneListing(tree, l, own) = one
  BY Zenon, OneListingDir
<1>4. AsEntry(tree, d) = Slashed(d)
  BY Zenon DEF AsEntry
<1>5. Slashed(d) \in one /\ d \notin tree.failing
  BY Zenon, <1>4 DEF Clear
<1>6. CASE k = 0
  <2>1. Relist(tree, l, k, own, deeper) = {Slashed(d)}
    BY Zenon, <1>2, <1>3, <1>5, <1>6 DEF Relist
  <2> QED
    BY Zenon, <1>4, <1>6, <2>1, ReachedNow
<1>7. CASE k = 1
  <2>1. k # 0 /\ k <= 1 /\ 1 \in Nat /\ 1 >= 1
    BY <1>7
  <2>2. Relist(tree, l, k, own, deeper) = one
    BY Zenon, <1>2, <1>3, <1>5, <2>1 DEF Relist
  <2>3. {q \in Below(tree, d) : Len(q) <= Len(d) + 1} = C
    BY Zenon, <2>1, BelowSplits
  <2> QED
    BY Zenon, <1>7, <2>2, <2>3 DEF Reached
<1>8. CASE k \notin {0, 1}
  <2>0. PICK j \in Nat : j = k - 1
    BY <1>8
  <2>1. k # 0 /\ ~(k <= 1) /\ k >= 2 /\ j >= 1 /\ k = j + 1
    BY <1>8, <2>0
  <2>2. Relist(tree, l, k, own, deeper) = (one \ inner) \union UNION {deeper[e] : e \in inner}
    BY Zenon, <1>2, <1>3, <1>5, <2>1 DEF Relist
  <2> DEFINE D == C \intersect tree.dirs
             Inside(p) == {q \in Below(tree, p) : Len(q) <= Len(p) + j}
  <2>3. \A p \in C : p \in tree.dirs \union tree.files /\ p # d
    <3>1. ASSUME NEW p \in C PROVE p \in tree.dirs \union tree.files /\ p # d
      <4>1. p \in Seq(Word) /\ p # <<>> /\ Front(p) = d /\ p \in tree.dirs \union tree.files
        BY Zenon, TreePath DEF Children
      <4>2. Len(p) \in Nat \ {0} /\ Len(d) = Len(p) - 1
        BY Zenon, <4>1, PathEnds
      <4>3. Len(d) # Len(p)
        BY <4>2
      <4> QED
        BY Zenon, <4>1, <4>3
    <3> QED
      BY Zenon, <3>1
  <2>4. inner = {Slashed(p) : p \in D}
    <3>1. ASSUME NEW p \in D PROVE Slashed(p) \in inner
      <4>1. AsEntry(tree, p) = Slashed(p) /\ p \in tree.dirs
        BY Zenon DEF AsEntry
      <4>2. IsDirEntry(Slashed(p)) /\ Slashed(p) # Slashed(d)
        BY Zenon, <2>3, <4>1, TreePath, BareIs, SlashedOnce
      <4> QED
        BY Zenon, <4>1, <4>2
    <3>2. ASSUME NEW e \in inner PROVE \E p \in D : e = Slashed(p)
      <4>1. PICK p \in {d} \union C : e = AsEntry(tree, p)
        BY Zenon
      <4>2. p # d
        BY Zenon, <1>4, <4>1
      <4>3. p \in tree.dirs
        <5>1. CASE p \notin tree.dirs
          <6>1. e = p
            BY Zenon, <4>1, <5>1 DEF AsEntry
          <6> QED
            BY Zenon, <2>3, <4>2, <6>1, TreePath, BareIs
        <5> QED
          BY <5>1
      <4> QED
        BY Zenon, <4>1, <4>2, <4>3 DEF AsEntry
    <3> QED
      BY Zenon, <3>1, <3>2
  <2>5. one \ inner = {AsEntry(tree, p) : p \in {d} \union (C \ D)}
    <3>1. ASSUME NEW p \in C \ D PROVE AsEntry(tree, p) \notin inner
      <4>1. AsEntry(tree, p) = p /\ p \in tree.files
        BY Zenon, <2>3 DEF AsEntry
      <4> QED
        BY Zenon, <4>1, TreePath, BareIs
    <3>2. AsEntry(tree, d) \notin inner
      BY Zenon, <1>4
    <3>3. ASSUME NEW p \in D PROVE AsEntry(tree, p) \in inner
      BY Zenon, <2>4 DEF AsEntry
    <3> QED
      BY Zenon, <3>1, <3>2, <3>3
  <2>6. \A p \in D : deeper[Slashed(p)] = {AsEntry(tree, q) : q \in {p} \union Inside(p)}
    BY Zenon, <2>0, <2>1 DEF Reached
  <2>7. UNION {deeper[e] : e \in inner} = {AsEntry(tree, q) : q \in D \union UNION {Inside(p) : p \in D}}
    <3>1. UNION {deeper[e] : e \in inner} = UNION {deeper[Slashed(p)] : p \in D}
      BY Zenon, <2>4
    <3> HIDE DEF inner, one, C, D, Inside
    <3>2. ASSUME NEW x \in UNION {deeper[Slashed(p)] : p \in D}
          PROVE  \E q \in D \union UNION {Inside(p) : p \in D} : x = AsEntry(tree, q)
      <4>1. PICK p \in D : x \in deeper[Slashed(p)]
        BY Zenon
      <4>2. PICK q \in {p} \union Inside(p) : x = AsEntry(tree, q)
        BY Zenon, <2>6, <4>1
      <4> QED
        BY Zenon, <4>2
    <3>3. ASSUME NEW q \in D \union UNION {Inside(p) : p \in D}
          PROVE  AsEntry(tree, q) \in UNION {deeper[Slashed(p)] : p \in D}
      <4>1. PICK p \in D : q \in {p} \union Inside(p)
        BY Zenon
      <4>2. AsEntry(tree, q) \in deeper[Slashed(p)]
        BY Zenon, <2>6, <4>1
      <4> QED
        BY Zenon, <4>2
    <3> QED
      BY Zenon, <3>1, <3>2, <3>3
  <2>8. {q \in Below(tree, d) : Len(q) <= Len(d) + k} = C \union UNION {Inside(p) : p \in D}
    <3>1. {q \in Below(tree, d) : Len(q) <= Len(d) + (j + 1)} = C \union UNION {Inside(p) : p \in D}
      BY <2>1, BelowSplits
    <3> QED
      BY Zenon, <2>1, <3>1
  <2>9. Reached(tree, d, k) = {AsEntry(tree, q) : q \in {d} \union C \union UNION {Inside(p) : p \in D}}
    BY Zenon, <2>8 DEF Reached
  <2> HIDE DEF inner, one, C, Inside
  <2> QED
    BY Zenon, <2>2, <2>5, <2>7, <2>9
<1> QED
  BY <1>6, <1>7, <1>8

LEMMA RelistFile ==
  ASSUME NEW tree, IsTree(tree), NEW own, Clear(tree, own), NEW f \in tree.files,
         NEW k \in Nat, NEW deeper
  PROVE  Relist(tree, f, k, own, deeper) = Reached(tree, f, k)
<1>1. f \in Seq(Word) /\ f # <<>> /\ Last(f) # ""
  BY Zenon, TreePath
<1>2. OneListing(tree, f, own) = {f}
  BY OneListingFile
<1>3. Bare(f) = f /\ ~IsDirEntry(f) /\ Slashed(f) # f
  BY Zenon, <1>1, BareIs
<1>4. {e \in {f} : IsDirEntry(e) /\ e # Slashed(f)} = {}
  BY Zenon, <1>3
<1>5. f \notin tree.failing
  BY Zenon DEF Clear
<1>6. Relist(tree, f, k, own, deeper) = {f}
  BY Zenon, <1>2, <1>3, <1>4, <1>5 DEF Relist
<1> QED
  BY Zenon, <1>6, ReachedFile

(* A listing has what is there, down to any depth.                         *)
LEMMA LssIs ==
  ASSUME NEW tree, IsTree(tree), NEW own, Clear(tree, own), NEW loc \in tree.dirs \union tree.files,
         NEW depth \in Nat
  PROVE  Lss(tree, loc, depth, own) = Reached(tree, loc, depth)
<1> DEFINE L == Listable(tree, loc)
           Is(l, k) == IF l \in tree.dirs \union tree.files THEN Reached(tree, l, k)
                       ELSE Reached(tree, Bare(l), k)
           Eq(g) == g = [k \in 0 .. depth |-> [l \in L |-> Relist(tree, l, k, own, g[k - 1])]]
           h == CHOOSE g : Eq(g)
           e == [k \in 0 .. depth |-> [l \in L |-> Is(l, k)]]
<1>1. /\ depth \in 0 .. depth /\ 0 \in 0 .. depth
      /\ \A k \in 0 .. depth : k \in Nat /\ (k >= 2 => k - 1 \in 0 .. depth)
      /\ \A k \in 1 .. depth : k - 1 \in 0 .. depth /\ k \in 0 .. depth /\ k \in Nat
  OBVIOUS
<1>2. \A p \in tree.dirs : Slashed(p) \in L /\ \A k : Is(Slashed(p), k) = Reached(tree, p, k)
  <2>1. ASSUME NEW p \in tree.dirs
        PROVE  Slashed(p) \in L /\ \A k : Is(Slashed(p), k) = Reached(tree, p, k)
    <3>1. p \in Seq(Word) /\ p # <<>> /\ Last(p) # ""
      BY Zenon, TreePath
    <3>2. Bare(Slashed(p)) = p /\ IsDirEntry(Slashed(p))
      BY Zenon, <3>1, BareIs
    <3>3. Slashed(p) \notin tree.dirs \union tree.files
      BY Zenon, <3>2, TreePath DEF IsDirEntry
    <3> QED
      BY Zenon, <3>2, <3>3 DEF Listable
  <2> QED
    BY Zenon, <2>1
<1>3. ASSUME NEW k \in Nat, NEW deeper, NEW l \in L,
             k >= 2 => \A p \in tree.dirs : deeper[Slashed(p)] = Reached(tree, p, k - 1)
      PROVE  Relist(tree, l, k, own, deeper) = Is(l, k)
  <2>1. CASE l \in tree.files
    BY <1>3, <2>1, RelistFile
  <2>2. CASE l \in tree.dirs
    <3>1. Relist(tree, l, k, own, deeper) = Reached(tree, l, k)
      BY <1>3, <2>2, RelistDir
    <3> QED
      BY <2>2, <3>1
  <2>3. CASE \E d \in tree.dirs : l = Slashed(d)
    <3>1. PICK d \in tree.dirs : l = Slashed(d)
      BY <2>3
    <3>2. Relist(tree, l, k, own, deeper) = Reached(tree, d, k)
      BY <1>3, <3>1, RelistDir
    <3> QED
      BY Zenon, <1>2, <3>1, <3>2
  <2> QED
    BY Zenon, <2>1, <2>2, <2>3 DEF Listable
<1> HIDE DEF Is, L
<1>4. Eq(e)
  <2>1. ASSUME NEW k \in 0 .. depth, NEW l \in L
        PROVE  Relist(tree, l, k, own, e[k - 1]) = Is(l, k)
    <3>1. k >= 2 => \A p \in tree.dirs : e[k - 1][Slashed(p)] = Reached(tree, p, k - 1)
      BY Zenon, <1>1, <1>2
    <3> QED
      BY Zenon, <1>1, <1>3, <3>1
  <2> QED
    BY Zenon, <2>1
<1>5. Eq(h)
  BY Zenon, <1>4
<1> HIDE DEF h
<1>6. \A k \in 0 .. depth : \A l \in L : h[k][l] = Relist(tree, l, k, own, h[k - 1])
  <2>1. h = [k \in 0 .. depth |-> [l \in L |-> Relist(tree, l, k, own, h[k - 1])]]
    BY <1>5
  <2>2. \A k \in 0 .. depth : h[k] = [l \in L |-> Relist(tree, l, k, own, h[k - 1])]
    BY Zenon, <2>1
  <2>3. ASSUME NEW k \in 0 .. depth, NEW l \in L
        PROVE  h[k][l] = Relist(tree, l, k, own, h[k - 1])
    BY Zenon, <2>2
  <2> QED
    BY Zenon, <2>3
<1> DEFINE T == {k \in 0 .. depth : \A l \in L : h[k][l] = Is(l, k)}
<1>7. 0 \in T
  <2>1. 0 \in Nat /\ ~(0 >= 2)
    OBVIOUS
  <2> QED
    BY Zenon, <1>1, <1>3, <1>6, <2>1
<1>8. ASSUME NEW k \in 1 .. depth, k - 1 \in T PROVE k \in T
  <2>1. \A p \in tree.dirs : h[k - 1][Slashed(p)] = Reached(tree, p, k - 1)
    BY Zenon, <1>2, <1>8
  <2>2. k \in 0 .. depth /\ k \in Nat
    BY Zenon, <1>1
  <2>3. ASSUME NEW l \in L PROVE h[k][l] = Is(l, k)
    <3>1. Relist(tree, l, k, own, h[k - 1]) = Is(l, k)
      BY Zenon, <1>3, <2>1, <2>2
    <3> QED
      BY Zenon, <1>6, <2>2, <3>1
  <2> QED
    BY Zenon, <2>2, <2>3
<1>9. 0 .. depth \subseteq T
  <2> HIDE DEF T
  <2> QED
    BY <1>7, <1>8, UpTo
<1>10. loc \in L
  BY Zenon DEF L, Listable
<1>11. h[depth][loc] = Is(loc, depth)
  BY Zenon, <1>1, <1>9, <1>10
<1>12. Lss(tree, loc, depth, own) = h[depth][loc]
  BY Zenon DEF Lss, h, L
<1> QED
  BY Zenon, <1>11, <1>12 DEF Is

(* The end of a sequence is a sequence, and what is in it.                 *)
LEMMA Tails ==
  ASSUME NEW R, NEW p \in Seq(R), NEW n \in 1 .. Len(p)
  PROVE  /\ Len(SubSeq(p, n, Len(p))) = Len(p) - n + 1
         /\ DOMAIN SubSeq(p, n, Len(p)) = 1 .. Len(p) - n + 1
         /\ \A i \in 1 .. Len(p) - n + 1 : SubSeq(p, n, Len(p))[i] = p[n + i - 1]
OBVIOUS

Continues(p, d, m, e) ==
    /\ SubSeq(p, 1, Len(d)) = d /\ Len(d) + m <= Len(p)
    /\ \A i \in 1 .. m : e[i] = p[Len(d) + i]

StartsWith(p, d, m, e) == d \o e = SubSeq(p, 1, Len(d) + m)

LEMMA Prefixed ==
  ASSUME NEW R, NEW p \in Seq(R), NEW d \in Seq(R), NEW m \in Nat,
         NEW e \in [1 .. m -> R], Continues(p, d, m, e)
  PROVE  StartsWith(p, d, m, e)
<1>1. /\ SubSeq(p, 1, Len(d)) = d /\ Len(d) + m <= Len(p)
      /\ \A i \in 1 .. m : e[i] = p[Len(d) + i]
  BY DEF Continues
<1>4. e \in Seq(R) /\ Len(e) = m
  BY Zenon, IsSeq
<1>5. d \o e \in Seq(R) /\ Len(d \o e) = Len(d) + m
  BY Zenon, <1>4, ConcatProperties
<1>6. SubSeq(p, 1, Len(d) + m) \in Seq(R) /\ Len(SubSeq(p, 1, Len(d) + m)) = Len(d) + m
  BY <1>1, <1>4
<1>7. ASSUME NEW i \in 1 .. Len(d) + m PROVE (d \o e)[i] = SubSeq(p, 1, Len(d) + m)[i]
  <2>1. CASE i <= Len(d)
    <3>1. d[i] = SubSeq(p, 1, Len(d))[i]
      BY <1>1
    <3>2. d[i] = p[i]
      BY <1>1, <2>1, <3>1
    <3> QED
      BY <1>1, <1>4, <2>1, <3>2
  <2>2. CASE i > Len(d)
    <3>1. i - Len(d) \in 1 .. m
      BY <2>2
    <3>2. e[i - Len(d)] = p[i]
      BY <1>1, <3>1
    <3> QED
      BY <1>1, <1>4, <2>2, <3>1, <3>2
  <2> QED
    BY <2>1, <2>2
<1> QED
  BY <1>5, <1>6, <1>7, SeqEqual DEF StartsWith

(* The pattern made of a glob whose wildcards come last matches what the   *)
(* parts match.                                                            *)
LEMMA GlobMatches ==
  ASSUME NEW parts \in Seq([wild : BOOLEAN, names : SUBSET Word, open : BOOLEAN]) \ {<<>>},
         NEW fixed \in 0 .. Len(parts), \A i \in DOMAIN parts : parts[i].wild <=> i > fixed,
         NEW p \in Seq(Word), NEW n \in Nat \ {0}, Len(p) = n + Len(parts),
         \A i \in DOMAIN parts : p[n + i] \in parts[i].names
  PROVE  MatchesGlob(p, parts, GlobSlice(parts))
<1> DEFINE R == [wild : BOOLEAN, names : SUBSET Word, open : BOOLEAN]
           slice == GlobSlice(parts)
           rest == SubSeq(parts, slice, Len(parts))
           wild == {i \in DOMAIN parts : parts[i].wild}
<1>1. parts \in Seq(R) /\ Len(parts) \in Nat \ {0} /\ DOMAIN parts = 1 .. Len(parts)
  <2>1. parts \in Seq(R) /\ parts # <<>>
    OBVIOUS
  <2> HIDE DEF R
  <2> QED
    BY <2>1
<1> HIDE DEF R
<1>2. slice = 1 \/ slice = Len(parts)
  <2>1. CASE wild = {}
    BY Zenon, <2>1 DEF GlobSlice
  <2>2. CASE wild # {}
    <3>1. wild = {i \in DOMAIN parts : i > fixed}
      BY Zenon
    <3>2. Len(parts) \in wild
      BY <1>1, <2>2, <3>1
    <3>3. \A j \in wild : j <= Len(parts)
      BY <1>1, <3>1
    <3>4. slice = CHOOSE i \in wild : \A j \in wild : j <= i
      BY Zenon, <2>2 DEF GlobSlice
    <3>5. slice \in wild /\ \A j \in wild : j <= slice
      <4> HIDE DEF wild, slice
      <4> QED
        BY Zenon, <3>2, <3>3, <3>4
    <3>6. slice \in 1 .. Len(parts) /\ Len(parts) <= slice
      BY <1>1, <3>1, <3>2, <3>5
    <3> QED
      BY <1>1, <3>6
  <2> QED
    BY <2>1, <2>2
<1>3. slice \in 1 .. Len(parts)
  BY <1>1, <1>2
<1> HIDE DEF slice, wild
<1>4. /\ Len(rest) = Len(parts) - slice + 1 /\ DOMAIN rest = 1 .. Len(parts) - slice + 1
      /\ \A i \in 1 .. Len(parts) - slice + 1 : rest[i] = parts[slice + i - 1]
  BY <1>1, <1>3, Tails
<1> HIDE DEF rest
<1> DEFINE at == n + slice
<1>5. at \in 2 .. Len(p) /\ at + Len(rest) - 1 = Len(p)
  BY <1>1, <1>3, <1>4
<1>6. ASSUME NEW i \in DOMAIN rest PROVE p[at + i - 1] \in rest[i].names
  <2>1. slice + i - 1 \in 1 .. Len(parts) /\ at + i - 1 = n + (slice + i - 1)
    BY <1>1, <1>3, <1>4
  <2>2. p[n + (slice + i - 1)] \in parts[slice + i - 1].names
    BY Zenon, <1>1, <2>1
  <2>3. rest[i] = parts[slice + i - 1]
    BY Zenon, <1>4
  <2> QED
    BY Zenon, <2>1, <2>2, <2>3
<1>7. Len(p) <= Len(p)
  OBVIOUS
<1> HIDE DEF at
<1>8. MatchesGlob(p, parts, slice)
  BY Zenon, <1>5, <1>6, <1>7 DEF MatchesGlob, rest
<1> QED
  BY Zenon, <1>8 DEF slice

(* A search finds every file that its glob matches.                        *)
LEMMA FindHas ==
  ASSUME NEW tree, IsTree(tree), NEW own, Clear(tree, own), NEW s, IsSearch(s), s.leading,
         \A d \in s.dirs : d \in tree.dirs \/ Below(tree, d) = {}
  PROVE  Matching(tree, s) \subseteq FindMatchingFiles(tree, s.pieces, s.parts, MaxDepth, own)
<1> SUFFICES ASSUME NEW p \in Matching(tree, s)
             PROVE  p \in FindMatchingFiles(tree, s.pieces, s.parts, MaxDepth, own)
  OBVIOUS
<1> DEFINE R == [wild : BOOLEAN, names : SUBSET Word, open : BOOLEAN]
           parts == s.parts
           const == Constants(parts)
           fixed == Len(const)
<1>1. /\ s.dirs \subseteq Range(Joined(s.pieces)) /\ s.dirs \subseteq Seq(Word) \ {<<>>}
      /\ parts \in Seq(R) \ {<<>>} /\ fixed \in 0 .. Len(parts) /\ Len(parts) - fixed <= MaxDepth
      /\ \A i \in DOMAIN parts : parts[i].wild <=> i > fixed
      /\ DOMAIN const = 1 .. fixed
      /\ \A i \in 1 .. fixed : /\ const[i] = parts[i]
                               /\ \E n \in parts[i].names : parts[i].names = {n}
  BY Zenon DEF IsSearch
<1>2. PICK d \in s.dirs : /\ Len(p) = Len(d) + Len(parts) /\ SubSeq(p, 1, Len(d)) = d
                          /\ \A i \in DOMAIN parts : p[Len(d) + i] \in parts[i].names
  BY Zenon DEF Matching
<1>3. p \in tree.files /\ p \in Seq(Word)
  BY Zenon, TreePath DEF Matching
<1>4. /\ Len(parts) \in Nat \ {0} /\ DOMAIN parts = 1 .. Len(parts) /\ Len(p) \in Nat
      /\ d \in Seq(Word) /\ Len(d) \in Nat \ {0} /\ fixed \in Nat /\ fixed <= Len(parts)
  <2>1. parts \in Seq(R) /\ parts # <<>> /\ d \in Seq(Word) /\ d # <<>>
    BY Zenon, <1>1, <1>2
  <2> HIDE DEF R, parts, const
  <2>2. Len(parts) \in Nat \ {0} /\ DOMAIN parts = 1 .. Len(parts)
    BY <2>1
  <2>3. d \in Seq(Word) /\ Len(d) \in Nat \ {0} /\ Len(p) \in Nat
    BY <2>1, <1>3
  <2>4. fixed \in 0 .. Len(parts)
    BY Zenon, <1>1
  <2> QED
    BY <2>2, <2>3, <2>4
<1> HIDE DEF R, parts, const
<1>5. PICK i \in DOMAIN Joined(s.pieces) : Joined(s.pieces)[i] = d
  BY Zenon, <1>1, <1>2 DEF Range
<1>6. PICK n \in Nat : n = Len(d) + fixed
  BY <1>4
<1>7. SearchDir(d, parts) = SubSeq(p, 1, n)
  <2> DEFINE e == [j \in 1 .. fixed |-> CHOOSE x \in const[j].names : TRUE]
  <2>1. SearchDir(d, parts) = d \o e
    BY Zenon, <1>1 DEF SearchDir, const
  <2>2. ASSUME NEW j \in 1 .. fixed PROVE e[j] = p[Len(d) + j]
    <3>1. j \in DOMAIN parts
      BY <1>4
    <3>2. PICK x : parts[j].names = {x}
      BY Zenon, <1>1
    <3>3. p[Len(d) + j] = x
      BY Zenon, <1>2, <3>1, <3>2
    <3>4. const[j].names = {x}
      BY Zenon, <1>1, <3>2
    <3>5. (CHOOSE y \in const[j].names : TRUE) = x
      BY Zenon, <3>4
    <3> QED
      BY Zenon, <3>3, <3>5
  <2>3. e \in [1 .. fixed -> Word]
    <3>1. \A j \in 1 .. fixed : Len(d) + j \in 1 .. Len(p)
      BY <1>2, <1>4
    <3>2. \A j \in 1 .. fixed : p[Len(d) + j] \in Word
      BY Zenon, <1>3, <3>1, ElementOfSeq
    <3> QED
      BY Zenon, <2>2, <3>2
  <2> HIDE DEF e, fixed
  <2>4. Len(d) + fixed <= Len(p)
    BY <1>2, <1>4
  <2>5. SubSeq(p, 1, Len(d)) = d /\ p \in Seq(Word) /\ d \in Seq(Word) /\ fixed \in Nat
    BY Zenon, <1>2, <1>3, <1>4
  <2>6. StartsWith(p, d, fixed, e)
    <3>1. Continues(p, d, fixed, e)
      BY Zenon, <2>2, <2>4, <2>5 DEF Continues
    <3> QED
      BY Zenon, <2>3, <2>5, <3>1, Prefixed
  <2> QED
    BY Zenon, <1>6, <2>1, <2>6 DEF StartsWith
<1>8. p \in Below(tree, d)
  <2>1. Len(p) > Len(d)
    BY <1>2, <1>4
  <2> QED
    BY Zenon, <1>2, <1>3, <2>1 DEF Below
<1>9. d \in tree.dirs
  BY Zenon, <1>2, <1>8
<1>10. p \in Lss(tree, SubSeq(p, 1, n), MaxDepth, own)
  <2>1. MaxDepth \in Nat
    BY DepthAssumption
  <2>2. AsEntry(tree, p) = p
    BY Zenon, <1>3 DEF AsEntry, IsTree
  <2>3. CASE fixed = Len(parts)
    <3>1. SubSeq(p, 1, n) = p
      <4>1. n = Len(p)
        BY <1>2, <1>6, <2>3
      <4> QED
        BY <1>3, <4>1
    <3>2. Lss(tree, p, MaxDepth, own) = Reached(tree, p, MaxDepth)
      BY Zenon, <1>3, <2>1, LssIs
    <3> QED
      BY Zenon, <2>2, <3>1, <3>2 DEF Reached
  <2>4. CASE fixed < Len(parts)
    <3> DEFINE b == SubSeq(p, 1, n)
    <3>1. n \in Len(d) .. Len(p) - 1 /\ n <= Len(p) /\ n \in Nat
      BY <1>2, <1>4, <1>6, <2>4
    <3>2. b \in tree.dirs
      BY Zenon, <1>8, <1>9, <3>1 DEF IsTree
    <3>3. Len(b) = n
      BY <1>3, <3>1
    <3>4. Len(p) > Len(b) /\ Len(p) <= Len(b) + MaxDepth
      <4>1. Len(parts) - fixed <= MaxDepth
        BY Zenon, <1>1
      <4> HIDE DEF b
      <4> QED
        BY <1>2, <1>4, <1>6, <2>1, <2>4, <3>3, <4>1
    <3>5. SubSeq(p, 1, Len(b)) = b
      BY Zenon, <3>3
    <3>6. p \in Below(tree, b)
      BY Zenon, <1>3, <3>4, <3>5 DEF Below
    <3>7. Lss(tree, b, MaxDepth, own) = Reached(tree, b, MaxDepth)
      BY Zenon, <2>1, <3>2, LssIs
    <3> QED
      BY Zenon, <2>2, <3>4, <3>6, <3>7 DEF Reached
  <2> QED
    BY <1>4, <2>3, <2>4
<1>11. MatchesGlob(p, parts, GlobSlice(parts))
  BY Zenon, <1>1, <1>2, <1>3, <1>4, GlobMatches DEF R
<1>12. p \in {e \in Lss(tree, SearchDir(Joined(s.pieces)[i], s.parts), MaxDepth, own) :
                  MatchesGlob(e, s.parts, GlobSlice(s.parts))}
  BY Zenon, <1>5, <1>7, <1>10, <1>11 DEF parts
<1> QED
  BY Zenon, <1>12 DEF FindMatchingFiles

(* A listing has all that is there down to its depth and nothing else, and *)
(* a search finds every file the glob matches.                             *)
THEOREM ListsEverything == Spec => []ListsAll
<1>1. Init => ListsAll
  <2>1. Init => asked.kind = "none"
    BY DEF Init, NoQuestion
  <2> QED
    BY <2>1 DEF ListsAll
<1>2. ListsAll /\ [Next]_vars => ListsAll'
  <2> SUFFICES ASSUME ListsAll, [Next]_vars PROVE ListsAll'
    OBVIOUS
  <2>1. CASE UNCHANGED <<asked, answer>>
    BY <2>1 DEF ListsAll
  <2>2. CASE asked'.kind \notin {"list", "find"}
    BY <2>2 DEF ListsAll
  <2>3. CASE AskList
    <3>1. PICK t \in Trees, own \in BOOLEAN, k \in 0 .. MaxDepth :
             \E loc \in t.dirs \union t.files :
                Ask([kind |-> "list", tree |-> t, loc |-> loc, depth |-> k, own |-> own],
                    Lss(t, loc, k, own))
      BY <2>3 DEF AskList
    <3>2. PICK loc \in t.dirs \union t.files :
             Ask([kind |-> "list", tree |-> t, loc |-> loc, depth |-> k, own |-> own],
                 Lss(t, loc, k, own))
      BY <3>1
    <3>3. /\ asked' = [kind |-> "list", tree |-> t, loc |-> loc, depth |-> k, own |-> own]
          /\ answer' = Lss(t, loc, k, own)
      BY Zenon, <3>2, AskFrame
    <3>4. /\ asked'.kind = "list" /\ asked'.tree = t /\ asked'.loc = loc
          /\ asked'.depth = k /\ asked'.own = own
      BY <3>3
    <3>5. IsTree(t) /\ k \in Nat
      BY TreesAssumption, DepthAssumption
    <3>6. Clear(t, own) => Lss(t, loc, k, own) = Reached(t, loc, k)
      BY Zenon, <3>5, LssIs
    <3>7. "list" # "find"
      OBVIOUS
    <3> QED
      BY Zenon, <3>3, <3>4, <3>6, <3>7 DEF ListsAll
  <2>4. CASE AskFind
    <3>1. PICK t \in Trees, s \in Searches, own \in BOOLEAN :
             Ask([kind |-> "find", tree |-> t, search |-> s, own |-> own],
                 FindMatchingFiles(t, s.pieces, s.parts, MaxDepth, own))
      BY <2>4 DEF AskFind
    <3>2. /\ asked' = [kind |-> "find", tree |-> t, search |-> s, own |-> own]
          /\ answer' = FindMatchingFiles(t, s.pieces, s.parts, MaxDepth, own)
      BY Zenon, <3>1, AskFrame
    <3>3. asked'.kind = "find" /\ asked'.tree = t /\ asked'.search = s /\ asked'.own = own
      BY <3>2
    <3>4. IsTree(t) /\ IsSearch(s) /\ \A d \in s.dirs : d \in t.dirs \/ Below(t, d) = {}
      BY Zenon, TreesAssumption, SearchesAssumption
    <3>5. Clear(t, own) /\ s.leading =>
             Matching(t, s) \subseteq FindMatchingFiles(t, s.pieces, s.parts, MaxDepth, own)
      BY Zenon, <3>4, FindHas
    <3>6. "list" # "find"
      OBVIOUS
    <3> QED
      BY Zenon, <3>2, <3>3, <3>5, <3>6 DEF ListsAll
  <2> QED
    BY <2>1, <2>2, <2>3, <2>4, OneAsks
<1> QED
  BY <1>1, <1>2, PTL DEF Spec

-----------------------------------------------------------------------------
(* IFDH_STAGE_VIA *)

(* The labels at the end of a host's name are in it.                       *)
LEMMA EndIsWithin ==
  ASSUME NEW host \in Seq(STRING), NEW labels \in Seq(STRING), EndsWith(host, labels)
  PROVE  Within(labels, host)
<1>1. PICK i \in 0 .. Len(host) : SubSeq(host, i + 1, Len(host)) = labels
  BY DEF EndsWith
<1>2. Len(host) \in Nat /\ Len(labels) = Len(host) - i
  BY <1>1
<1>3. i \in 0 .. Len(host) - Len(labels) /\ i + Len(labels) = Len(host)
  BY <1>2
<1> QED
  BY <1>1, <1>3 DEF Within

LEMMA LastOrLess ==
  ASSUME NEW n \in Nat PROVE \A i \in 1 .. n : i < n \/ i = n
OBVIOUS

(* Only the last of them may be missing from the first.                    *)
LEMMA SameFirst ==
  ASSUME NEW n \in Nat, NEW C \in SUBSET (1 .. n), NEW H \in SUBSET C, H # {},
         \A i \in C : i \in H \/ i = n
  PROVE  C # {} /\ Min(C) = Min(H)
<1>1. /\ Min(H) \in H /\ \A y \in H : Min(H) <= y
      /\ Min(C) \in C /\ \A y \in C : Min(C) <= y
  <2>1. H \in SUBSET Nat /\ C \in SUBSET Nat
    OBVIOUS
  <2>2. C # {}
    BY Zenon
  <2> QED
    BY <2>1, <2>2, LeastIsMin
<1>2. PICK h \in H, c \in C : h = Min(H) /\ c = Min(C) /\ c <= h
  BY <1>1
<1>3. h \in 1 .. n /\ c \in 1 .. n
  OBVIOUS
<1>4. CASE c \in H
  BY <1>1, <1>2, <1>3, <1>4
<1>5. CASE c = n
  BY <1>2, <1>3, <1>5
<1> QED
  BY <1>2, <1>4, <1>5

(* The first alternative that can match is the same for both readers.      *)
LEMMA SameVia ==
  ASSUME NEW alts \in Seq([star : BOOLEAN, labels : Seq(STRING), via : STRING]),
         NEW ended \in BOOLEAN, NEW host \in Seq(STRING)
  PROVE  (\A i \in DOMAIN alts :
             alts[i].star /\ (Within(alts[i].labels, host) => EndsWith(host, alts[i].labels)))
         /\ StageViaOf(alts, ended, host) # ""
            => CopybackViaOf(alts, host) = StageViaOf(alts, ended, host)
<1> DEFINE Counts(i) == ended \/ i < Len(alts)
           In(i) == Within(alts[i].labels, host)
           AtEnd(i) == EndsWith(host, alts[i].labels)
           Hits == {i \in DOMAIN alts : Counts(i) /\ In(i)}
           Cases == {i \in DOMAIN alts : IF alts[i].star THEN AtEnd(i) ELSE host = alts[i].labels}
<1>1. DOMAIN alts = 1 .. Len(alts) /\ Len(alts) \in Nat
  OBVIOUS
<1>2. \A i \in DOMAIN alts : AtEnd(i) => In(i)
  <2>1. ASSUME NEW a \in [star : BOOLEAN, labels : Seq(STRING), via : STRING]
        PROVE  a.labels \in Seq(STRING)
    OBVIOUS
  <2> QED
    BY Zenon, <1>1, <2>1, ElementOfSeq, EndIsWithin
<1>3. StageViaOf(alts, ended, host) = IF Hits = {} THEN "" ELSE alts[Min(Hits)].via
  BY Zenon DEF StageViaOf
<1>4. CopybackViaOf(alts, host) = IF Cases = {} THEN "" ELSE alts[Min(Cases)].via
  BY Zenon DEF CopybackViaOf
<1>5. \A i \in 1 .. Len(alts) : Counts(i) \/ i = Len(alts)
  <2>1. \A i \in 1 .. Len(alts) : i < Len(alts) \/ i = Len(alts)
    BY Zenon, <1>1, LastOrLess
  <2> QED
    BY Zenon, <2>1
<1> HIDE DEF Counts, In, AtEnd
<1>6. SUFFICES ASSUME \A i \in DOMAIN alts : alts[i].star /\ (In(i) => AtEnd(i)),
                      StageViaOf(alts, ended, host) # ""
               PROVE  CopybackViaOf(alts, host) = StageViaOf(alts, ended, host)
  BY Zenon DEF In, AtEnd
<1>7. Cases = {i \in DOMAIN alts : In(i)}
  BY Zenon, <1>2, <1>6
<1>8. Hits \subseteq Cases /\ Hits # {}
  BY Zenon, <1>3, <1>6, <1>7
<1>9. \A i \in Cases : i \in Hits \/ i = Len(alts)
  BY Zenon, <1>1, <1>5, <1>7
<1>10. Cases \subseteq 1 .. Len(alts)
  BY Zenon, <1>1
<1> HIDE DEF Hits, Cases
<1>11. Cases # {} /\ Min(Cases) = Min(Hits)
  BY Zenon, <1>1, <1>8, <1>9, <1>10, SameFirst
<1> QED
  BY Zenon, <1>3, <1>4, <1>8, <1>11

(* Where cp stages its files copyback looks for them, when every pattern   *)
(* has a star and its labels are nowhere but at the end of the host.       *)
THEOREM ViasAgree == Spec => []ViaAgree
<1>1. Init => ViaAgree
  <2>1. Init => asked.kind # "via"
    BY DEF Init, NoQuestion
  <2> QED
    BY Zenon, <2>1 DEF ViaAgree
<1>2. ViaAgree /\ [Next]_vars => ViaAgree'
  <2> SUFFICES ASSUME ViaAgree, [Next]_vars PROVE ViaAgree'
    OBVIOUS
  <2>1. CASE UNCHANGED <<asked, answer>>
    BY <2>1 DEF ViaAgree
  <2>2. CASE asked'.kind # "via"
    BY <2>2 DEF ViaAgree
  <2>3. CASE AskVia
    <3>1. PICK v \in Vias :
             Ask([kind |-> "via", v |-> v],
                 [cp |-> StageViaOf(v.alts, v.ended, v.host),
                  copyback |-> CopybackViaOf(v.alts, v.host)])
      BY <2>3 DEF AskVia
    <3>2. /\ asked' = [kind |-> "via", v |-> v]
          /\ answer' = [cp |-> StageViaOf(v.alts, v.ended, v.host),
                        copyback |-> CopybackViaOf(v.alts, v.host)]
      BY <3>1, AskFrame
    <3>3. /\ asked'.v = v
          /\ answer'.cp = StageViaOf(v.alts, v.ended, v.host)
          /\ answer'.copyback = CopybackViaOf(v.alts, v.host)
      BY <3>2
    <3>4. /\ v.alts \in Seq([star : BOOLEAN, labels : Seq(STRING), via : STRING])
          /\ v.ended \in BOOLEAN /\ v.host \in Seq(STRING)
      BY ViasAssumption
    <3> QED
      BY <3>3, <3>4, SameVia DEF ViaAgree
  <2> QED
    BY <2>1, <2>2, <2>3, OneAsks
<1> QED
  BY <1>1, <1>2, PTL DEF Spec

-----------------------------------------------------------------------------
(* The arguments of cp *)

LEMMA ArgIs ==
  ASSUME NEW a \in Arg, a.kind # "opt"
  PROVE  /\ a = Sep \/ (a.kind = "path" /\ a.path \in Path /\ a # Sep /\ a = File(a.path))
         /\ a = Sep => a.kind # "path"
BY DEF Arg, Sep, File

(* Arguments without options: names and separators.                        *)
IsWords(args) == args \in Seq(Arg) /\ \A i \in DOMAIN args : args[i].kind # "opt"

LEMMA WordIs ==
  ASSUME NEW args, IsWords(args)
  PROVE  /\ Len(args) \in Nat /\ DOMAIN args = 1 .. Len(args)
         /\ \A i \in 1 .. Len(args) :
               /\ args[i] = Sep \/ (args[i].kind = "path" /\ args[i].path \in Path /\ args[i] # Sep)
               /\ args[i] = Sep => args[i].kind # "path"
<1>1. /\ Len(args) \in Nat /\ DOMAIN args = 1 .. Len(args)
      /\ \A i \in 1 .. Len(args) : args[i] \in Arg
  BY Zenon, Member DEF IsWords
<1> QED
  BY Zenon, <1>1, ArgIs DEF IsWords

(* The destination of the source at one place, and whether it is reached.  *)
LEMMA DestIs ==
  ASSUME NEW args, IsWords(args), NEW i \in Nat, i < Len(args), args[i + 1] # Sep
  PROVE  /\ DestAfter(args, i) \in i + 1 .. Len(args)
         /\ args[DestAfter(args, i)] # Sep
         /\ i + 1 = Len(args) \/ args[i + 2] = Sep => DestAfter(args, i) = i + 1
         /\ i + 1 # Len(args) /\ args[i + 2] # Sep => DestAfter(args, i) = DestAfter(args, i + 1)
<1>1. PICK len \in Nat : len = Len(args) /\ DOMAIN args = 1 .. len
  BY WordIs
<1> DEFINE Set(k) == {j \in 1 .. len : j > k /\ (j = len \/ args[j + 1] = Sep)}
<1>2. \A k : DestAfter(args, k) = Min(Set(k))
  BY <1>1 DEF DestAfter
<1>3. len \in Set(i) /\ Set(i) \in SUBSET Nat /\ i < len /\ len \in Nat
  BY <1>1
<1>4. PICK m : m = Min(Set(i))
  OBVIOUS
<1>5. m \in Set(i) /\ \A y \in Set(i) : m <= y
  <2> HIDE DEF Set
  <2> QED
    BY <1>3, <1>4, LeastIsMin
<1>6. m \in i + 1 .. len
  BY <1>3, <1>5
<1>7. args[m] # Sep
  <2> SUFFICES ASSUME args[m] = Sep PROVE FALSE
    OBVIOUS
  <2>1. m # i + 1
    OBVIOUS
  <2>2. m - 1 \in Set(i)
    BY <1>3, <1>6, <2>1
  <2> QED
    BY <1>5, <1>6, <2>2
<1>8. i + 1 = len \/ args[i + 2] = Sep => m = i + 1
  <2>1. ASSUME i + 1 = len \/ args[i + 2] = Sep PROVE i + 1 \in Set(i)
    <3>1. i + 1 \in 1 .. len /\ (i + 1) + 1 = i + 2
      BY <1>3
    <3> QED
      BY <2>1, <3>1
  <2> QED
    BY <1>5, <1>6, <2>1
<1>9. i + 1 # len /\ args[i + 2] # Sep => Set(i) = Set(i + 1)
  <2>1. ASSUME i + 1 # len, args[i + 2] # Sep PROVE i + 1 \notin Set(i)
    <3>1. (i + 1) + 1 = i + 2
      OBVIOUS
    <3> QED
      BY <2>1, <3>1
  <2>2. \A j \in 1 .. len : j > i /\ j # i + 1 <=> j > i + 1
    OBVIOUS
  <2> QED
    BY <2>1, <2>2
<1> HIDE DEF Set
<1> QED
  BY Zenon, <1>1, <1>2, <1>4, <1>6, <1>7, <1>8, <1>9

(* A command line taken apart: what PairArgs and Said do with it.          *)
Loc(data, p) == LookupLoc(data, MakeCanonical(p))

ToDst(isdir, src, dst) ==
    IF isdir THEN [dst EXCEPT !.path = DestFile(src.path, @)] ELSE dst

CpPair(data, isdir, src, dst) ==
    LET to == ToDst(isdir, src, dst)
    IN  [src |-> src, dst |-> to]

Pending(data, isdir, wait, dst) ==
    [k \in DOMAIN wait |-> CpPair(data, isdir, wait[k], dst)]

Handle(data, args, isdir, st, i) ==
    LET here == Loc(data, args[i].path)
    IN  IF args[i] = Sep THEN st
        ELSE IF i = Len(args) \/ args[i + 1] = Sep
        THEN [done |-> st.done \o Pending(data, isdir, st.wait, here), wait |-> <<>>]
        ELSE [st EXCEPT !.wait = Append(@, here)]

Locs(data, args) == {Loc(data, args[i].path) : i \in DOMAIN args}

CpPairs(data, args, isdir) ==
    {CpPair(data, isdir, q[1], q[2]) : q \in Locs(data, args) \X Locs(data, args)}

StatesOf(X, Y) == [done : Seq(X), wait : Seq(Y)]

HandleStates(data, args, isdir) ==
    StatesOf(CpPairs(data, args, isdir), Locs(data, args))

LEMMA JoinTyped ==
  ASSUME NEW S, NEW s \in Seq(S), NEW t \in Seq(S) PROVE s \o t \in Seq(S)
BY Joining

LEMMA StateParts ==
  ASSUME NEW X, NEW Y, NEW st \in StatesOf(X, Y)
  PROVE  st.done \in Seq(X) /\ st.wait \in Seq(Y)
BY DEF StatesOf

LEMMA Settles ==
  ASSUME NEW X, NEW Y, NEW st \in StatesOf(X, Y), NEW q \in Seq(X)
  PROVE  [done |-> st.done \o q, wait |-> <<>>] \in StatesOf(X, Y)
<1>1. st.done \o q \in Seq(X) /\ <<>> \in Seq(Y)
  BY StateParts
<1> QED
  BY Zenon, <1>1 DEF StatesOf

LEMMA ExceptWait ==
  ASSUME NEW Q, NEW R, NEW st \in [done : Q, wait : R], NEW w \in R
  PROVE  /\ [st EXCEPT !.wait = w] \in [done : Q, wait : R]
         /\ [st EXCEPT !.wait = w].done = st.done /\ [st EXCEPT !.wait = w].wait = w
OBVIOUS

WaitsToo(X, Y, st, y) ==
    LET more == [st EXCEPT !.wait = Append(@, y)]
    IN  more \in StatesOf(X, Y) /\ more.done = st.done /\ more.wait = Append(st.wait, y)

LEMMA Waits ==
  ASSUME NEW X, NEW Y, NEW st \in StatesOf(X, Y), NEW y \in Y
  PROVE  WaitsToo(X, Y, st, y)
<1>0. PICK w : w = Append(st.wait, y)
  OBVIOUS
<1>1. w \in Seq(Y)
  BY Zenon, <1>0, StateParts, AppendProperties
<1>2. /\ [st EXCEPT !.wait = w] \in StatesOf(X, Y)
      /\ [st EXCEPT !.wait = w].done = st.done /\ [st EXCEPT !.wait = w].wait = w
  BY Zenon, <1>1, ExceptWait DEF StatesOf
<1> QED
  BY Zenon, <1>0, <1>1, <1>2 DEF WaitsToo

LEMMA PendingTyped ==
  ASSUME NEW data, NEW args, NEW isdir, NEW wait \in Seq(Locs(data, args)),
         NEW dst \in Locs(data, args)
  PROVE  Pending(data, isdir, wait, dst) \in Seq(CpPairs(data, args, isdir))
<1>1. Len(wait) \in Nat /\ DOMAIN wait = 1 .. Len(wait)
      /\ \A k \in 1 .. Len(wait) : wait[k] \in Locs(data, args)
  BY Zenon, Member
<1>2. \A s \in Locs(data, args) :
         CpPair(data, isdir, s, dst) \in CpPairs(data, args, isdir)
  <2> SUFFICES ASSUME NEW s \in Locs(data, args)
               PROVE  CpPair(data, isdir, s, dst) \in CpPairs(data, args, isdir)
    OBVIOUS
  <2>1. PICK q : q = <<s, dst>>
    OBVIOUS
  <2>2. q \in Locs(data, args) \X Locs(data, args) /\ q[1] = s /\ q[2] = dst
    BY <2>1
  <2> QED
    BY Zenon, <2>2 DEF CpPairs
<1>3. Pending(data, isdir, wait, dst) \in [1 .. Len(wait) -> CpPairs(data, args, isdir)]
  BY Zenon, <1>1, <1>2 DEF Pending
<1> QED
  BY Zenon, <1>1, <1>3, IsSeq

LEMMA HandleTyped ==
  ASSUME NEW data, NEW args, NEW isdir,
         NEW st \in HandleStates(data, args, isdir), NEW i \in DOMAIN args
  PROVE  Handle(data, args, isdir, st, i) \in HandleStates(data, args, isdir)
<1>1. PICK here : here = Loc(data, args[i].path) /\ here \in Locs(data, args)
  BY Zenon DEF Locs
<1>2. st.wait \in Seq(Locs(data, args))
  BY Zenon, StateParts DEF HandleStates
<1>3. Pending(data, isdir, st.wait, here) \in Seq(CpPairs(data, args, isdir))
  BY Zenon, <1>1, <1>2, PendingTyped
<1>4. /\ [done |-> st.done \o Pending(data, isdir, st.wait, here), wait |-> <<>>]
            \in HandleStates(data, args, isdir)
      /\ [st EXCEPT !.wait = Append(@, here)] \in HandleStates(data, args, isdir)
  BY Zenon, <1>1, <1>3, Settles, Waits DEF HandleStates, WaitsToo
<1> QED
  BY Zenon, <1>1, <1>4 DEF Handle

(* PairArgs goes through the arguments, from the first to the last.        *)
Handles(data, args, isdir, n) ==
    \E h \in [0 .. n -> HandleStates(data, args, isdir)] :
        /\ h[0] = [done |-> <<>>, wait |-> <<>>]
        /\ \A k \in 1 .. n : h[k] = Handle(data, args, isdir, h[k - 1], k)
        /\ PairArgs(data, args, isdir) = h[n].done

LEMMA HandleIs ==
  ASSUME NEW data, NEW args, IsWords(args), NEW isdir
  PROVE  Handles(data, args, isdir, Len(args))
<1>0. Len(args) \in Nat /\ DOMAIN args = 1 .. Len(args)
  BY Zenon, WordIs
<1>1. PICK n : n = Len(args)
  OBVIOUS
<1>2. n \in Nat /\ DOMAIN args = 1 .. n
  BY Zenon, <1>0, <1>1
<1>3. n \in 0 .. n /\ 0 \in 0 .. n
      /\ \A k \in 1 .. n : k \in 0 .. n /\ k - 1 \in 0 .. n /\ k # 0
  BY <1>2
<1>b. PICK base : base = [done |-> <<>>, wait |-> <<>>]
  OBVIOUS
<1> DEFINE States == HandleStates(data, args, isdir)
<1>c. base \in States
  <2>1. \A X, Y : [done |-> <<>>, wait |-> <<>>] \in [done : Seq(X), wait : Seq(Y)]
    OBVIOUS
  <2> QED
    BY Zenon, <1>b, <2>1 DEF HandleStates, StatesOf
<1> DEFINE One(r, k) == Handle(data, args, isdir, r, k)
<1>d. \A r \in States : \A k \in 1 .. n : One(r, k) \in States
  BY Zenon, <1>2, HandleTyped
<1> HIDE DEF States
<1> DEFINE step == [k \in 1 .. n |-> [r \in States |-> One(r, k)]]
           Eq(g) == g = [k \in 0 .. n |-> IF k = 0 THEN base ELSE One(g[k - 1], k)]
           h == CHOOSE g : Eq(g)
<1>5. PICK e \in [0 .. n -> States] : e[0] = base /\ \A k \in 1 .. n : e[k] = One(e[k - 1], k)
  <2>1. step \in Steps(n, States)
    BY Zenon, <1>d DEF Steps
  <2>2. Leads(States, base, n, step)
    BY Zenon, <1>2, <1>c, <2>1, IteratesBy
  <2>3. PICK e \in [0 .. n -> States] : e[0] = base /\ \A k \in 1 .. n : e[k] = step[k][e[k - 1]]
    BY Zenon, <2>2 DEF Leads
  <2> QED
    BY Zenon, <1>3, <2>3
<1>6. Eq(e)
  <2>1. \A k \in 0 .. n : k = 0 \/ k \in 1 .. n
    BY <1>2
  <2>2. \A k \in 0 .. n : e[k] = IF k = 0 THEN base ELSE One(e[k - 1], k)
    BY Zenon, <1>5, <2>1
  <2> QED
    BY Zenon, <2>2
<1>7. Eq(h)
  BY Zenon, <1>6
<1>12. PairArgs(data, args, isdir) = h[n].done
  BY Zenon, <1>1, <1>b DEF PairArgs, Handle, Pending, CpPair, ToDst, Loc
<1> HIDE DEF h
<1>8. h[0] = base /\ \A k \in 1 .. n : h[k] = One(h[k - 1], k)
  BY Zenon, <1>3, <1>7
<1>9. \A k \in 1 .. n : h[k - 1] \in States => h[k] \in States
  BY Zenon, <1>8, <1>d
<1>10. \A k \in 0 .. n : h[k] \in States
  BY Zenon, <1>2, <1>8, <1>9, <1>c, Stepped
<1>11. h \in [0 .. n -> States]
  BY Zenon, <1>7, <1>10
<1> QED
  BY Zenon, <1>1, <1>8, <1>11, <1>12, <1>b DEF States, Handles

(* FlattenSeq, over the first of the sequences in g.                       *)
Flat(g, m) == FlattenSeq([k \in 1 .. m |-> g[k]])

Flattens(S, g, n) ==
    /\ \A m \in 0 .. n : Flat(g, m) \in Seq(S)
    /\ \A m \in 0 .. n - 1 : Flat(g, m + 1) = Flat(g, m) \o g[m + 1]
    /\ Flat(g, 0) = <<>>

LEMMA FlatNext ==
  ASSUME NEW S, NEW n \in Nat, NEW g, \A k \in 1 .. n : g[k] \in Seq(S)
  PROVE  Flattens(S, g, n)
<1>1. ASSUME NEW m \in 0 .. n - 1 PROVE Lengthens(S, m, g)
  <2>1. m \in Nat /\ \A k \in 1 .. m + 1 : k \in 1 .. n
    OBVIOUS
  <2> QED
    BY Zenon, <2>1, FlattenNext
<1>2. Flat(g, 0) = <<>>
  <2>1. FlattenSeq([k \in 1 .. 0 |-> g[k]]) = FlattenSeq([k \in 1 .. 0 |-> <<>>])
    <3>1. [k \in 1 .. 0 |-> g[k]] = [k \in 1 .. 0 |-> <<>>]
      OBVIOUS
    <3> QED
      BY Zenon, <3>1
  <2> DEFINE e == [k \in 1 .. 1 |-> <<>>]
  <2>2. \A k \in 1 .. 0 + 1 : e[k] \in Seq(S)
    OBVIOUS
  <2>3. 0 \in Nat
    OBVIOUS
  <2>4. [k \in 1 .. 0 |-> e[k]] = [k \in 1 .. 0 |-> <<>>]
    OBVIOUS
  <2> HIDE DEF e
  <2>5. Lengthens(S, 0, e)
    BY Zenon, <2>2, <2>3, FlattenNext
  <2> QED
    BY Zenon, <2>1, <2>4, <2>5 DEF Lengthens, Flat
<1>3. \A m \in 0 .. n : m \in 0 .. n - 1 \/ m = 0 \/ (m - 1 \in 0 .. n - 1 /\ (m - 1) + 1 = m)
  OBVIOUS
<1>4. \A m \in 0 .. n - 1 : Flat(g, m) \in Seq(S) /\ Flat(g, m + 1) = Flat(g, m) \o g[m + 1]
  BY Zenon, <1>1 DEF Lengthens, Flat
<1>5. ASSUME NEW m \in 0 .. n PROVE Flat(g, m) \in Seq(S)
  <2>1. CASE m \in 0 .. n - 1
    BY Zenon, <1>4, <2>1
  <2>2. CASE m = 0
    BY Zenon, <1>2, <2>2, EmptySeq
  <2>3. CASE m - 1 \in 0 .. n - 1 /\ (m - 1) + 1 = m
    <3>1. PICK r \in 0 .. n - 1 : r + 1 = m
      BY <2>3
    <3>2. r + 1 \in 1 .. n
      BY <3>1
    <3>3. Flat(g, r) \in Seq(S) /\ g[r + 1] \in Seq(S)
      BY Zenon, <1>4, <3>2
    <3>4. Flat(g, r) \o g[r + 1] \in Seq(S)
      BY Zenon, <3>3, Joining
    <3> QED
      BY Zenon, <1>4, <3>1, <3>4
  <2> QED
    BY <1>3, <2>1, <2>2, <2>3
<1> QED
  BY <1>2, <1>4, <1>5 DEF Flattens

Pieces(args) ==
    [i \in DOMAIN args |->
        IF i \in SourcesIn(args) THEN <<<<args[i].path, args[DestAfter(args, i)].path>>>> ELSE <<>>]

Pairs == Path \X Path

LEMMA OnePair ==
  ASSUME NEW p \in Path, NEW q \in Path
  PROVE  <<<<p, q>>>> \in Seq(Pairs)
BY Zenon, Single DEF Pairs

LEMMA PiecesTyped ==
  ASSUME NEW args, IsWords(args)
  PROVE  /\ \A i \in 1 .. Len(args) : Pieces(args)[i] \in Seq(Pairs)
         /\ Said(args) = Flat(Pieces(args), Len(args))
         /\ Said(args) \in Seq(Pairs)
<1>1. PICK len \in Nat : len = Len(args) /\ DOMAIN args = 1 .. len
  BY Zenon, WordIs
<1>2. ASSUME NEW i \in 1 .. len PROVE Pieces(args)[i] \in Seq(Pairs)
  <2>1. CASE i \in SourcesIn(args)
    <3>1. i \in Nat /\ i < Len(args) /\ args[i + 1] # Sep /\ args[i].kind = "path"
      BY <1>1, <2>1 DEF SourcesIn
    <3>2. DestAfter(args, i) \in i + 1 .. Len(args) /\ args[DestAfter(args, i)] # Sep
      BY Zenon, <3>1, DestIs
    <3>3. DestAfter(args, i) \in 1 .. Len(args)
      BY <1>1, <3>2
    <3>4. args[i].path \in Path /\ args[DestAfter(args, i)].path \in Path
      BY Zenon, <1>1, <3>1, <3>2, <3>3, WordIs
    <3>5. <<<<args[i].path, args[DestAfter(args, i)].path>>>> \in Seq(Pairs)
      BY Zenon, <3>4, OnePair
    <3> QED
      BY Zenon, <1>1, <2>1, <3>5 DEF Pieces
  <2>2. CASE i \notin SourcesIn(args)
    BY Zenon, <1>1, <2>2, EmptySeq DEF Pieces
  <2> QED
    BY <2>1, <2>2
<1>3. [k \in 1 .. len |-> Pieces(args)[k]] = Pieces(args)
  BY Zenon, <1>1 DEF Pieces
<1>4. Said(args) = Flat(Pieces(args), Len(args))
  BY Zenon, <1>1, <1>3 DEF Said, Flat, Pieces
<1>5. Len(args) \in 0 .. Len(args)
  BY <1>1
<1>6. Flat(Pieces(args), Len(args)) \in Seq(Pairs)
  <2>1. Flattens(Pairs, Pieces(args), len)
    BY Zenon, <1>2, FlatNext
  <2> QED
    BY Zenon, <1>1, <1>5, <2>1 DEF Flattens
<1> QED
  BY Zenon, <1>1, <1>2, <1>4, <1>6

(* What is copied is what was asked for.                                   *)
Fits(data, isdir, x, q) ==
    x.src = Loc(data, q[1]) /\ x.dst = ToDst(isdir, Loc(data, q[1]), Loc(data, q[2]))

Match(data, isdir, s, p) ==
    Len(s) = Len(p) /\ \A k \in 1 .. Len(s) : Fits(data, isdir, s[k], p[k])

LEMMA MatchJoin ==
  ASSUME NEW data, NEW isdir, NEW X, NEW s \in Seq(X), NEW t \in Seq(X),
         NEW Y, NEW p \in Seq(Y), NEW q \in Seq(Y),
         Match(data, isdir, s, p), Match(data, isdir, t, q)
  PROVE  Match(data, isdir, s \o t, p \o q)
<1>1. /\ Len(s) \in Nat /\ Len(t) \in Nat /\ Len(s) = Len(p) /\ Len(t) = Len(q)
      /\ Len(s \o t) = Len(s) + Len(t) /\ Len(p \o q) = Len(s) + Len(t)
  BY DEF Match
<1>2. PICK a \in Nat : a = Len(s)
  BY <1>1
<1>3. PICK b \in Nat : b = Len(t)
  BY <1>1
<1>4. ASSUME NEW k \in 1 .. a + b PROVE Fits(data, isdir, (s \o t)[k], (p \o q)[k])
  <2>1. CASE k <= a
    <3>1. k \in 1 .. a /\ (s \o t)[k] = s[k] /\ (p \o q)[k] = p[k]
      BY <1>1, <1>2, <1>3, <2>1
    <3> QED
      BY Zenon, <1>2, <3>1 DEF Match
  <2>2. CASE k > a
    <3>1. k - a \in 1 .. b /\ (s \o t)[k] = t[k - a] /\ (p \o q)[k] = q[k - a]
      BY <1>1, <1>2, <1>3, <2>2
    <3> QED
      BY Zenon, <1>3, <3>1 DEF Match
  <2>3. k <= a \/ k > a
    OBVIOUS
  <2> QED
    BY Zenon, <2>1, <2>2, <2>3
<1> QED
  BY Zenon, <1>1, <1>2, <1>3, <1>4 DEF Match

LEMMA MatchNone ==
  ASSUME NEW data, NEW isdir PROVE Match(data, isdir, <<>>, <<>>)
BY DEF Match

LEMMA MatchOne ==
  ASSUME NEW data, NEW isdir, NEW p, NEW q
  PROVE  Match(data, isdir, <<CpPair(data, isdir, Loc(data, p), Loc(data, q))>>, <<<<p, q>>>>)
<1>1. PICK x : x = CpPair(data, isdir, Loc(data, p), Loc(data, q))
  OBVIOUS
<1>2. x.src = Loc(data, p) /\ x.dst = ToDst(isdir, Loc(data, p), Loc(data, q))
  BY <1>1 DEF CpPair
<1>3. PICK y : y = <<p, q>>
  OBVIOUS
<1>4. y[1] = p /\ y[2] = q
  BY <1>3
<1>5. Fits(data, isdir, x, y)
  BY Zenon, <1>2, <1>4 DEF Fits
<1>6. Len(<<x>>) = 1 /\ Len(<<y>>) = 1 /\ <<x>>[1] = x /\ <<y>>[1] = y /\ \A k \in 1 .. 1 : k = 1
  OBVIOUS
<1> QED
  BY Zenon, <1>1, <1>3, <1>5, <1>6 DEF Match

(* One more that waits.                                                    *)
PendsToo(data, isdir, wait, src, dst) ==
    Pending(data, isdir, Append(wait, src), dst)
        = Pending(data, isdir, wait, dst) \o <<CpPair(data, isdir, src, dst)>>

LEMMA PendingNext ==
  ASSUME NEW data, NEW args, NEW isdir, NEW wait \in Seq(Locs(data, args)),
         NEW src \in Locs(data, args), NEW dst
  PROVE  PendsToo(data, isdir, wait, src, dst)
<1> DEFINE P(w) == CpPair(data, isdir, w, dst)
<1>1. PICK n \in Nat : n = Len(wait) /\ DOMAIN wait = 1 .. n
  BY Zenon, Member
<1>2. PICK more : more = Append(wait, src)
  OBVIOUS
<1>3. /\ DOMAIN more = 1 .. n + 1 /\ more[n + 1] = src
      /\ \A k \in 1 .. n : more[k] = wait[k]
  BY <1>1, <1>2
<1> HIDE DEF P
<1>4. [k \in 1 .. n + 1 |-> P(more[k])] = [k \in 1 .. n |-> P(wait[k])] \o <<P(src)>>
  <2> DEFINE l == [k \in 1 .. n |-> P(wait[k])]
  <2>1. l \in Seq({P(wait[k]) : k \in 1 .. n} \union {P(src)}) /\ Len(l) = n
    OBVIOUS
  <2>2. Len(l \o <<P(src)>>) = n + 1 /\ DOMAIN (l \o <<P(src)>>) = 1 .. n + 1
    BY <2>1
  <2>3. \A k \in 1 .. n + 1 : (l \o <<P(src)>>)[k] = P(more[k])
    BY <1>3, <2>1
  <2> QED
    BY <2>1, <2>2, <2>3
<1>5. Pending(data, isdir, more, dst)
         = Pending(data, isdir, wait, dst) \o <<CpPair(data, isdir, src, dst)>>
  BY Zenon, <1>1, <1>3, <1>4 DEF Pending, P
<1> QED
  BY Zenon, <1>2, <1>5 DEF PendsToo

(* After n arguments: what is done, and what waits for the next            *)
(* destination, is what the sources among them ask for.                    *)
Settled(data, args, isdir, st, n) ==
    /\ st.wait # <<>> => n < Len(args) /\ args[n + 1] # Sep
    /\ Match(data, isdir,
             st.done \o Pending(data, isdir, st.wait, Loc(data, args[DestAfter(args, n)].path)),
             Flat(Pieces(args), n))

LEMMA HandleNext ==
  ASSUME NEW data, NEW args, IsWords(args), NEW isdir,
         NEW n \in Nat, n < Len(args),
         NEW st \in HandleStates(data, args, isdir), Settled(data, args, isdir, st, n)
  PROVE  Settled(data, args, isdir, Handle(data, args, isdir, st, n + 1), n + 1)
<1>1. PICK len \in Nat : len = Len(args) /\ DOMAIN args = 1 .. len
  BY Zenon, WordIs
<1>2. PICK r : r = n + 1
  OBVIOUS
<1>3. r \in 1 .. len /\ n \in 0 .. len - 1 /\ r \in Nat /\ r - 1 = n
  BY <1>1, <1>2
<1>m. PICK then : then = Handle(data, args, isdir, st, r)
  OBVIOUS
<1> DEFINE Path0(i) == Loc(data, args[i].path)
           P == Flat(Pieces(args), n)
           Wait(d) == Pending(data, isdir, st.wait, d)
           X == CpPairs(data, args, isdir)
           Y == Locs(data, args)
<1>4. /\ P \in Seq(Pairs) /\ Pieces(args)[r] \in Seq(Pairs)
      /\ Flat(Pieces(args), r) = P \o Pieces(args)[r]
  <2>1. \A k \in 1 .. len : Pieces(args)[k] \in Seq(Pairs)
    BY Zenon, <1>1, PiecesTyped
  <2>2. n \in 0 .. len
    BY <1>3
  <2>3. Flattens(Pairs, Pieces(args), len)
    BY Zenon, <2>1, FlatNext
  <2> QED
    BY Zenon, <1>2, <1>3, <2>1, <2>2, <2>3 DEF Flattens
<1>5. st.done \in Seq(X) /\ st.wait \in Seq(Y)
  BY Zenon, StateParts DEF HandleStates
<1>6. \A i \in 1 .. len : Path0(i) \in Y
  BY Zenon, <1>1 DEF Locs
<1>7. \A d \in Y : Wait(d) \in Seq(X)
  BY Zenon, <1>5, PendingTyped
<1>8. st.wait # <<>> => DestAfter(args, n) \in 1 .. len
  <2>1. ASSUME st.wait # <<>> PROVE DestAfter(args, n) \in 1 .. len
    <3>1. args[n + 1] # Sep
      BY Zenon, <2>1 DEF Settled
    <3>2. DestAfter(args, n) \in n + 1 .. Len(args)
      BY Zenon, <3>1, DestIs
    <3> QED
      BY <1>1, <3>2
  <2> QED
    BY <2>1
<1>n. \A d : st.wait = <<>> => Wait(d) = <<>>
  <2>1. \A w, d : w = <<>> => Pending(data, isdir, w, d) = <<>>
    BY DEF Pending
  <2> QED
    BY Zenon, <2>1
<1>9. /\ st.wait # <<>> => args[r] # Sep
      /\ Match(data, isdir, st.done \o Wait(Path0(DestAfter(args, n))), P)
  BY Zenon, <1>2 DEF Settled
<1>10. CASE args[r] = Sep
  <2>1. st.wait = <<>> /\ then = st
    BY Zenon, <1>m, <1>9, <1>10 DEF Handle
  <2>2. Pieces(args)[r] = <<>>
    <3>1. r \notin SourcesIn(args)
      BY Zenon, <1>1, <1>3, <1>10, WordIs DEF SourcesIn
    <3> QED
      BY Zenon, <1>1, <1>3, <3>1 DEF Pieces
  <2>3. Flat(Pieces(args), r) = P
    BY Zenon, <1>4, <2>2, Joining
  <2>4. Wait(Path0(DestAfter(args, r))) = Wait(Path0(DestAfter(args, n)))
    BY Zenon, <1>n, <2>1
  <2> QED
    BY Zenon, <1>m, <1>2, <1>9, <2>1, <2>3, <2>4 DEF Settled
<1>11. CASE args[r] # Sep /\ (r = len \/ args[r + 1] = Sep)
  <2>1. then = [done |-> st.done \o Wait(Path0(r)), wait |-> <<>>]
    BY Zenon, <1>m, <1>1, <1>11 DEF Handle
  <2>2. then.done = st.done \o Wait(Path0(r)) /\ then.wait = <<>>
    <3>1. \A x, y : [done |-> x, wait |-> y].done = x /\ [done |-> x, wait |-> y].wait = y
      OBVIOUS
    <3> QED
      BY Zenon, <2>1, <3>1
  <2>3. Pieces(args)[r] = <<>>
    <3>1. ~(r < len /\ args[r + 1] # Sep)
      BY <1>3, <1>11
    <3>2. r \notin SourcesIn(args)
      BY Zenon, <1>1, <3>1 DEF SourcesIn
    <3> QED
      BY Zenon, <1>1, <1>3, <3>2 DEF Pieces
  <2>4. Flat(Pieces(args), r) = P
    BY Zenon, <1>4, <2>3, Joining
  <2>5. DestAfter(args, n) = r
    <3>1. n + 1 = Len(args) \/ args[n + 2] = Sep
      <4>1. r + 1 = n + 2
        BY <1>2
      <4> QED
        BY Zenon, <1>1, <1>2, <1>11, <4>1
    <3> QED
      BY Zenon, <1>2, <1>11, <3>1, DestIs
  <2>6. Pending(data, isdir, then.wait, Path0(DestAfter(args, r))) = <<>>
    <3>1. \A w, d : w = <<>> => Pending(data, isdir, w, d) = <<>>
      BY DEF Pending
    <3> QED
      BY Zenon, <2>2, <3>1
  <2>7. then.done \in Seq(X)
    <3>1. Wait(Path0(r)) \in Seq(X)
      BY Zenon, <1>3, <1>6, <1>7
    <3> HIDE DEF Wait, Path0, X, Y
    <3>2. st.done \o Wait(Path0(r)) \in Seq(X)
      BY Zenon, <1>5, <3>1, JoinTyped
    <3> QED
      BY Zenon, <2>2, <3>2
  <2>8. then.done \o <<>> = then.done
    BY Zenon, <2>7, Joining
  <2> HIDE DEF Wait, Path0, P, X, Y
  <2>9. Match(data, isdir, then.done \o Pending(data, isdir, then.wait, Path0(DestAfter(args, r))),
                Flat(Pieces(args), r))
    BY Zenon, <1>9, <2>2, <2>4, <2>5, <2>6, <2>8
  <2> QED
    BY Zenon, <1>m, <1>2, <2>2, <2>9 DEF Settled, Path0
<1>12. CASE args[r] # Sep /\ ~(r = len \/ args[r + 1] = Sep)
  <2>1. then = [st EXCEPT !.wait = Append(@, Path0(r))]
    BY Zenon, <1>m, <1>1, <1>12 DEF Handle
  <2>2. then.done = st.done /\ then.wait = Append(st.wait, Path0(r))
    <3>1. WaitsToo(X, Y, st, Path0(r))
      BY Zenon, <1>3, <1>6, Waits DEF HandleStates
    <3> QED
      BY Zenon, <2>1, <3>1 DEF WaitsToo
  <2>3. r < len /\ args[r + 1] # Sep
    BY <1>3, <1>12
  <2>4. Pieces(args)[r] = <<<<args[r].path, args[DestAfter(args, r)].path>>>>
    <3>1. r \in SourcesIn(args)
      BY Zenon, <1>1, <1>3, <1>12, <2>3, WordIs DEF SourcesIn
    <3> QED
      BY Zenon, <1>1, <1>3, <3>1 DEF Pieces
  <2>5. DestAfter(args, r) \in 1 .. len
    <3>1. DestAfter(args, r) \in r + 1 .. Len(args)
      BY Zenon, <1>1, <1>3, <2>3, DestIs
    <3> QED
      BY <1>1, <1>3, <3>1
  <2> DEFINE d == Path0(DestAfter(args, r))
             x == CpPair(data, isdir, Path0(r), d)
  <2>6. st.wait # <<>> => DestAfter(args, n) = DestAfter(args, r)
    <3>1. n + 1 # Len(args) /\ args[n + 2] # Sep
      <4>1. r + 1 = n + 2
        BY <1>2
      <4> QED
        BY Zenon, <1>1, <1>2, <1>12, <4>1
    <3> QED
      BY Zenon, <1>2, <1>12, <3>1, DestIs
  <2>7. Wait(Path0(DestAfter(args, n))) = Wait(d)
    BY Zenon, <1>n, <2>6
  <2>8. Pending(data, isdir, then.wait, d) = Wait(d) \o <<x>>
    <3>1. PendsToo(data, isdir, st.wait, Path0(r), d)
      <4>1. Path0(r) \in Y
        BY Zenon, <1>3, <1>6
      <4> QED
        BY Zenon, <1>5, <4>1, PendingNext
    <3> QED
      BY Zenon, <2>2, <3>1 DEF PendsToo
  <2>9. d \in Y /\ Path0(r) \in Y
    BY Zenon, <1>3, <1>6, <2>5
  <2>10. <<x>> \in Seq(X)
    <3>1. x \in X
      <4>1. PICK q : q = <<Path0(r), d>>
        OBVIOUS
      <4>2. q \in Y \X Y /\ q[1] = Path0(r) /\ q[2] = d
        BY <2>9, <4>1
      <4> QED
        BY Zenon, <4>2 DEF CpPairs
    <3> QED
      BY Zenon, <3>1, Single
  <2>11. Wait(d) \in Seq(X)
    BY Zenon, <1>7, <2>9
  <2>12. Match(data, isdir, <<x>>, Pieces(args)[r])
    BY Zenon, <2>4, MatchOne
  <2> HIDE DEF Wait, Path0, P, X, Y, d, x
  <2>13. then.done \o (Wait(d) \o <<x>>) = (st.done \o Wait(d)) \o <<x>>
    <3>1. Grouped(st.done, Wait(d), <<x>>)
      BY Zenon, <1>5, <2>10, <2>11, Regroup
    <3> QED
      BY Zenon, <2>2, <3>1 DEF Grouped
  <2>14. st.done \o Wait(d) \in Seq(X)
    BY Zenon, <1>5, <2>11, Joining
  <2>15. Match(data, isdir, (st.done \o Wait(d)) \o <<x>>, P \o Pieces(args)[r])
    BY Zenon, <1>4, <1>9, <2>7, <2>10, <2>12, <2>14, MatchJoin
  <2>16. Match(data, isdir, then.done \o Pending(data, isdir, then.wait, d), Flat(Pieces(args), r))
    BY Zenon, <1>4, <2>8, <2>13, <2>15
  <2> QED
    BY Zenon, <1>m, <1>1, <1>2, <2>3, <2>16 DEF Settled, Path0, d
<1> QED
  BY <1>10, <1>11, <1>12

LEMMA HandlesSaid ==
  ASSUME NEW data, NEW args, IsWords(args), NEW isdir
  PROVE  Match(data, isdir, PairArgs(data, args, isdir), Said(args))
<1>1. PICK len \in Nat : len = Len(args) /\ DOMAIN args = 1 .. len
  BY Zenon, WordIs
<1>2. PICK h \in [0 .. len -> HandleStates(data, args, isdir)] :
         /\ h[0] = [done |-> <<>>, wait |-> <<>>]
         /\ \A k \in 1 .. len : h[k] = Handle(data, args, isdir, h[k - 1], k)
         /\ PairArgs(data, args, isdir) = h[len].done
  <2>1. Handles(data, args, isdir, len)
    BY Zenon, <1>1, HandleIs
  <2> QED
    BY Zenon, <2>1 DEF Handles
<1> DEFINE T == {k \in 0 .. len : Settled(data, args, isdir, h[k], k)}
<1>n. \A w, d : w = <<>> => Pending(data, isdir, w, d) = <<>>
  BY DEF Pending
<1>3. 0 \in T
  <2>1. h[0].done = <<>> /\ h[0].wait = <<>> /\ <<>> \o <<>> = <<>>
    BY <1>2
  <2>2. Flat(Pieces(args), 0) = <<>>
    <3>1. \A k \in 1 .. len : Pieces(args)[k] \in Seq(Pairs)
      BY Zenon, <1>1, PiecesTyped
    <3>2. Flattens(Pairs, Pieces(args), len)
      BY Zenon, <3>1, FlatNext
    <3> QED
      BY Zenon, <3>2 DEF Flattens
  <2>3. Settled(data, args, isdir, h[0], 0)
    BY Zenon, <1>n, <2>1, <2>2, MatchNone DEF Settled
  <2>4. 0 \in 0 .. len
    OBVIOUS
  <2> QED
    BY Zenon, <2>3, <2>4
<1>4. \A k \in 1 .. len : k - 1 \in T => k \in T
  <2> SUFFICES ASSUME NEW k \in 1 .. len, k - 1 \in T PROVE k \in T
    OBVIOUS
  <2>1. PICK n : n = k - 1
    OBVIOUS
  <2>2. n \in Nat /\ n < len /\ n + 1 = k /\ k \in 0 .. len /\ n \in 0 .. len
    BY <2>1
  <2>3. Settled(data, args, isdir, h[n], n)
    BY Zenon, <2>1
  <2>4. h[n] \in HandleStates(data, args, isdir)
    BY Zenon, <1>2, <2>2
  <2>5. Settled(data, args, isdir, Handle(data, args, isdir, h[n], n + 1), n + 1)
    BY Zenon, <1>1, <2>2, <2>3, <2>4, HandleNext
  <2> QED
    BY Zenon, <1>2, <2>1, <2>2, <2>5
<1>5. len \in T
  <2>1. len \in 0 .. len
    OBVIOUS
  <2> HIDE DEF T
  <2> QED
    BY Zenon, <1>3, <1>4, <2>1, UpTo
<1>6. h[len].wait = <<>>
  <2>1. ~(len < len)
    OBVIOUS
  <2> QED
    BY Zenon, <1>1, <1>5, <2>1 DEF Settled
<1>7. h[len].done \o <<>> = h[len].done
  <2>1. len \in 0 .. len
    OBVIOUS
  <2>2. h[len].done \in Seq(CpPairs(data, args, isdir))
    BY Zenon, <1>2, <2>1, StateParts DEF HandleStates
  <2> QED
    BY Zenon, <2>2, Joining
<1>8. Said(args) = Flat(Pieces(args), len)
  BY Zenon, <1>1, PiecesTyped
<1> QED
  BY Zenon, <1>n, <1>2, <1>5, <1>6, <1>7, <1>8 DEF Settled

(* The least of a set.                                                     *)
LEMMA MinIs ==
  ASSUME NEW T \in SUBSET Nat, NEW m \in T, \A y \in T : m <= y
  PROVE  Min(T) = m
<1>1. Min(T) \in T /\ \A y \in T : Min(T) <= y
  BY LeastIsMin
<1>2. Min(T) \in Nat /\ m \in Nat /\ Min(T) <= m /\ m <= Min(T)
  BY <1>1
<1> QED
  BY <1>2

(* Two sequences of sequences with nothing between them.                   *)
JoinsFlat(g, gx, a, gy, b) == Flat(g, (a + 1) + b) = Flat(gx, a) \o Flat(gy, b)

LEMMA FlatJoin ==
  ASSUME NEW S, NEW a \in Nat, NEW b \in Nat, NEW g, NEW gx, NEW gy,
         \A k \in 1 .. a : g[k] = gx[k] /\ gx[k] \in Seq(S),
         g[a + 1] = <<>>,
         \A j \in 1 .. b : g[(a + 1) + j] = gy[j] /\ gy[j] \in Seq(S)
  PROVE  JoinsFlat(g, gx, a, gy, b)
<1>1. PICK c \in Nat : c = (a + 1) + b
  OBVIOUS
<1>2. \A k \in 1 .. c : k \in 1 .. a \/ k = a + 1 \/ (k - (a + 1) \in 1 .. b /\ k = (a + 1) + (k - (a + 1)))
  BY <1>1
<1>3. \A k \in 1 .. c : g[k] \in Seq(S)
  BY Zenon, <1>2, EmptySeq
<1>4. Flattens(S, g, c) /\ Flattens(S, gy, b) /\ Flattens(S, gx, a)
  BY Zenon, <1>3, FlatNext
<1>5. Flat(g, a) = Flat(gx, a)
  <2>1. [k \in 1 .. a |-> g[k]] = [k \in 1 .. a |-> gx[k]]
    BY Zenon
  <2> QED
    BY Zenon, <2>1 DEF Flat
<1> DEFINE x == Flat(gx, a)
<1>6. x \in Seq(S)
  <2>1. a \in 0 .. a
    OBVIOUS
  <2> QED
    BY Zenon, <1>4, <2>1 DEF Flattens
<1>7. Flat(g, a + 1) = x
  <2>1. a \in 0 .. c - 1
    BY <1>1
  <2>2. Flat(g, a + 1) = Flat(g, a) \o g[a + 1]
    BY Zenon, <1>4, <2>1 DEF Flattens
  <2> QED
    BY Zenon, <1>5, <1>6, <2>2, Joining
<1> HIDE DEF x
<1> DEFINE T == {j \in 0 .. b : Flat(g, (a + 1) + j) = x \o Flat(gy, j)}
<1>8. 0 \in T
  <2>1. (a + 1) + 0 = a + 1 /\ 0 \in 0 .. b
    OBVIOUS
  <2>2. x \o Flat(gy, 0) = x
    BY Zenon, <1>4, <1>6, Joining DEF Flattens
  <2> QED
    BY Zenon, <1>7, <2>1, <2>2
<1>9. \A j \in 1 .. b : j - 1 \in T => j \in T
  <2> SUFFICES ASSUME NEW j \in 1 .. b, j - 1 \in T PROVE j \in T
    OBVIOUS
  <2>1. PICK i : i = j - 1
    OBVIOUS
  <2>2. PICK k : k = (a + 1) + i
    OBVIOUS
  <2>3. /\ i \in 0 .. b - 1 /\ i \in 0 .. b /\ i + 1 = j /\ k \in 0 .. c - 1 /\ k + 1 = (a + 1) + j
        /\ j \in 0 .. b
    BY <1>1, <2>1, <2>2
  <2>4. Flat(g, k) = x \o Flat(gy, i)
    BY Zenon, <2>1, <2>2
  <2>5. Flat(g, k + 1) = Flat(g, k) \o g[k + 1] /\ Flat(gy, i + 1) = Flat(gy, i) \o gy[i + 1]
        /\ Flat(gy, i) \in Seq(S)
    BY Zenon, <1>4, <2>3 DEF Flattens
  <2>0. g[(a + 1) + j] = gy[j] /\ gy[j] \in Seq(S)
    BY Zenon
  <2>6. g[k + 1] = gy[i + 1] /\ gy[i + 1] \in Seq(S)
    BY Zenon, <2>0, <2>3
  <2>7. Grouped(x, Flat(gy, i), gy[i + 1])
    BY Zenon, <1>6, <2>5, <2>6, Regroup
  <2> QED
    BY Zenon, <2>3, <2>4, <2>5, <2>6, <2>7 DEF Grouped
<1>10. b \in T
  <2>1. b \in 0 .. b
    OBVIOUS
  <2> HIDE DEF T
  <2> QED
    BY Zenon, <1>8, <1>9, <2>1, UpTo
<1> QED
  BY Zenon, <1>10 DEF JoinsFlat, x

(* Two parts with a separator between them.                                *)
Both(x, y) == x \o (<<Sep>> \o y)

IsBoth(z, x, a, y, b) ==
    /\ IsWords(z) /\ Len(z) = (a + 1) + b
    /\ \A i \in 1 .. a : z[i] = x[i]
    /\ z[a + 1] = Sep
    /\ \A j \in 1 .. b : z[(a + 1) + j] = y[j]

LEMMA BothIs ==
  ASSUME NEW x, IsWords(x), NEW y, IsWords(y),
         NEW a \in Nat, a = Len(x), NEW b \in Nat, b = Len(y)
  PROVE  IsBoth(Both(x, y), x, a, y, b)
<1>1. x \in Seq(Arg) /\ y \in Seq(Arg)
  BY DEF IsWords
<1>2. Sep \in Arg /\ Sep.kind # "opt"
  BY DEF Sep, Arg
<1>3. PICK S : S = Arg
  OBVIOUS
<1>4. PICK e : e = Sep
  OBVIOUS
<1>5. PICK z : z = x \o (<<e>> \o y)
  OBVIOUS
<1>6. x \in Seq(S) /\ y \in Seq(S) /\ e \in S
  BY Zenon, <1>1, <1>2, <1>3, <1>4
<1>7. /\ z \in Seq(S) /\ Len(z) = (a + 1) + b
      /\ \A i \in 1 .. a : z[i] = x[i]
      /\ z[a + 1] = e
      /\ \A j \in 1 .. b : z[(a + 1) + j] = y[j]
  <2>1. PICK w : w = <<e>> \o y
    OBVIOUS
  <2>2. w \in Seq(S) /\ Len(w) = 1 + b /\ w[1] = e /\ \A j \in 1 .. b : w[1 + j] = y[j]
    BY <1>6, <2>1
  <2>3. z = x \o w
    BY <1>5, <2>1
  <2>4. z \in Seq(S) /\ Len(z) = (a + 1) + b /\ \A i \in 1 .. a : z[i] = x[i]
    <3>1. z \in Seq(S) /\ Len(z) = Len(x) + Len(w)
      BY Zenon, <1>6, <2>2, <2>3, ConcatProperties
    <3>2. Len(z) = (a + 1) + b
      BY <2>2, <3>1
    <3>3. \A i \in 1 .. a : z[i] = x[i]
      BY <1>6, <2>2, <2>3
    <3> QED
      BY <3>1, <3>2, <3>3
  <2>5. \A j \in 1 .. 1 + b : z[a + j] = w[j]
    BY <1>6, <2>2, <2>3
  <2>6. \A j \in 1 .. b : (a + 1) + j = a + (1 + j) /\ 1 + j \in 1 .. 1 + b
    OBVIOUS
  <2>7. 1 \in 1 .. 1 + b
    OBVIOUS
  <2> QED
    BY Zenon, <2>2, <2>4, <2>5, <2>6, <2>7
<1>8. \A k \in 1 .. (a + 1) + b :
         k \in 1 .. a \/ k = a + 1 \/ (k - (a + 1) \in 1 .. b /\ k = (a + 1) + (k - (a + 1)))
  OBVIOUS
<1>9. \A k \in DOMAIN z : z[k].kind # "opt"
  <2>1. DOMAIN z = 1 .. (a + 1) + b /\ DOMAIN x = 1 .. a /\ DOMAIN y = 1 .. b
    BY <1>6, <1>7
  <2>2. (\A i \in 1 .. a : x[i].kind # "opt") /\ (\A j \in 1 .. b : y[j].kind # "opt")
    BY Zenon, <2>1 DEF IsWords
  <2> SUFFICES ASSUME NEW k \in 1 .. (a + 1) + b PROVE z[k].kind # "opt"
    BY Zenon, <2>1
  <2>3. CASE k \in 1 .. a
    BY Zenon, <1>7, <2>2, <2>3
  <2>4. CASE k = a + 1
    BY Zenon, <1>2, <1>4, <1>7, <2>4
  <2>5. CASE k - (a + 1) \in 1 .. b /\ k = (a + 1) + (k - (a + 1))
    <3>1. PICK j \in 1 .. b : k = (a + 1) + j
      BY Zenon, <2>5
    <3> QED
      BY Zenon, <1>7, <2>2, <3>1
  <2> QED
    BY Zenon, <1>8, <2>3, <2>4, <2>5
<1>10. z = Both(x, y)
  BY Zenon, <1>4, <1>5 DEF Both
<1> QED
  BY Zenon, <1>3, <1>4, <1>7, <1>9, <1>10 DEF IsWords, IsBoth

(* The places from which a source's destination is the least.              *)
Ends0(args, len, i) == {j \in 1 .. len : j > i /\ (j = len \/ args[j + 1] = Sep)}

LEMMA EndsLeast ==
  ASSUME NEW args, IsWords(args), NEW len \in Nat, len = Len(args), NEW i \in 1 .. len, i < len
  PROVE  /\ DestAfter(args, i) = Min(Ends0(args, len, i))
         /\ Ends0(args, len, i) \in SUBSET Nat
         /\ DestAfter(args, i) \in Ends0(args, len, i)
         /\ \A j \in Ends0(args, len, i) : DestAfter(args, i) <= j
<1>1. DestAfter(args, i) = Min(Ends0(args, len, i))
  BY Zenon, WordIs DEF DestAfter, Ends0
<1>2. len \in Ends0(args, len, i) /\ Ends0(args, len, i) \in SUBSET Nat
  BY DEF Ends0
<1>3. Min(Ends0(args, len, i)) \in Ends0(args, len, i)
      /\ \A j \in Ends0(args, len, i) : Min(Ends0(args, len, i)) <= j
  BY <1>2, LeastIsMin
<1> QED
  BY Zenon, <1>1, <1>2, <1>3

LEMMA PieceIs ==
  ASSUME NEW args, IsWords(args), NEW len \in Nat, len = Len(args), NEW i \in 1 .. len
  PROVE  /\ i < len /\ args[i].kind = "path" /\ args[i + 1] # Sep =>
                Pieces(args)[i] = <<<<args[i].path, args[DestAfter(args, i)].path>>>>
         /\ ~(i < len /\ args[i].kind = "path" /\ args[i + 1] # Sep) => Pieces(args)[i] = <<>>
<1>1. DOMAIN args = 1 .. len
  BY Zenon, WordIs
<1>2. i \in SourcesIn(args) <=> i < len /\ args[i].kind = "path" /\ args[i + 1] # Sep
  BY Zenon, <1>1 DEF SourcesIn
<1> QED
  BY Zenon, <1>1, <1>2 DEF Pieces

LEMMA SaidJoins ==
  ASSUME NEW x, IsWords(x), NEW y, IsWords(y)
  PROVE  Said(Both(x, y)) = Said(x) \o Said(y)
<1>1. PICK a \in Nat : a = Len(x)
  BY Zenon, WordIs
<1>2. PICK b \in Nat : b = Len(y)
  BY Zenon, WordIs
<1>3. PICK z : z = Both(x, y)
  OBVIOUS
<1>4. PICK c \in Nat : c = (a + 1) + b
  OBVIOUS
<1>5. /\ IsWords(z) /\ Len(z) = c
      /\ \A i \in 1 .. a : z[i] = x[i]
      /\ z[a + 1] = Sep
      /\ \A j \in 1 .. b : z[(a + 1) + j] = y[j]
  <2>1. IsBoth(z, x, a, y, b)
    BY Zenon, <1>1, <1>2, <1>3, BothIs
  <2> QED
    BY Zenon, <1>4, <2>1 DEF IsBoth
<1>6. \A i \in 1 .. a : Pieces(z)[i] = Pieces(x)[i]
  <2> SUFFICES ASSUME NEW i \in 1 .. a PROVE Pieces(z)[i] = Pieces(x)[i]
    OBVIOUS
  <2>1. i \in 1 .. c /\ i < c /\ i + 1 \in 1 .. c
    BY <1>4
  <2>2. z[i] = x[i]
    BY Zenon, <1>5
  <2>3. CASE i < a /\ x[i].kind = "path" /\ x[i + 1] # Sep
    <3>1. i + 1 \in 1 .. a
      BY <2>3
    <3>2. z[i + 1] = x[i + 1]
      BY Zenon, <1>5, <3>1
    <3> DEFINE m == DestAfter(x, i)
    <3>3. m \in Ends0(x, a, i) /\ \A j \in Ends0(x, a, i) : m <= j
      BY Zenon, <1>1, <2>3, EndsLeast
    <3>4. DestAfter(z, i) = Min(Ends0(z, c, i)) /\ Ends0(z, c, i) \in SUBSET Nat
      BY Zenon, <1>5, <2>1, EndsLeast
    <3> HIDE DEF m
    <3>5. m \in 1 .. a /\ m > i /\ (m = a \/ x[m + 1] = Sep)
      BY <3>3 DEF Ends0
    <3>6. m \in Ends0(z, c, i)
      <4>1. z[m + 1] = Sep
        <5>1. CASE m = a
          BY <1>5, <5>1
        <5>2. CASE m # a
          <6>1. m + 1 \in 1 .. a /\ x[m + 1] = Sep
            BY <3>5, <5>2
          <6> QED
            BY Zenon, <1>5, <6>1
        <5> QED
          BY <5>1, <5>2
      <4>2. m \in 1 .. c
        BY <1>4, <3>5
      <4> QED
        BY <3>5, <4>1, <4>2 DEF Ends0
    <3>7. \A j \in Ends0(z, c, i) : m <= j
      <4> SUFFICES ASSUME NEW j \in Ends0(z, c, i) PROVE m <= j
        OBVIOUS
      <4>1. j \in 1 .. c /\ j > i /\ (j = c \/ z[j + 1] = Sep)
        BY DEF Ends0
      <4>2. CASE j > a
        BY <3>5, <4>1, <4>2
      <4>3. CASE j = a
        BY <3>5, <4>3
      <4>4. CASE j < a
        <5>1. j \in 1 .. a /\ j # c /\ j + 1 \in 1 .. a
          BY <1>4, <4>1, <4>4
        <5>2. z[j + 1] = x[j + 1]
          BY Zenon, <1>5, <5>1
        <5>3. j \in Ends0(x, a, i)
          BY <4>1, <5>1, <5>2 DEF Ends0
        <5> QED
          BY <3>3, <5>3
      <4> QED
        BY <4>1, <4>2, <4>3, <4>4
    <3>8. Min(Ends0(z, c, i)) = m
      BY Zenon, <3>4, <3>6, <3>7, MinIs
    <3>9. z[m] = x[m]
      BY Zenon, <1>5, <3>5
    <3>10. Pieces(x)[i] = <<<<x[i].path, x[m].path>>>>
      BY Zenon, <1>1, <2>3, PieceIs DEF m
    <3>11. Pieces(z)[i] = <<<<z[i].path, z[m].path>>>>
      <4>1. i < c /\ z[i].kind = "path" /\ z[i + 1] # Sep
        BY Zenon, <2>1, <2>2, <2>3, <3>2
      <4>2. Pieces(z)[i] = <<<<z[i].path, z[DestAfter(z, i)].path>>>>
        BY Zenon, <1>5, <2>1, <4>1, PieceIs
      <4> QED
        BY Zenon, <3>4, <3>8, <4>2
    <3> QED
      BY Zenon, <2>2, <3>9, <3>10, <3>11
  <2>4. CASE ~(i < a /\ x[i].kind = "path" /\ x[i + 1] # Sep)
    <3>1. Pieces(x)[i] = <<>>
      BY Zenon, <1>1, <2>4, PieceIs
    <3>2. ~(i < c /\ z[i].kind = "path" /\ z[i + 1] # Sep)
      <4>1. CASE i = a
        BY <1>5, <4>1
      <4>2. CASE i # a
        <5>1. i < a /\ i + 1 \in 1 .. a
          BY <4>2
        <5>2. z[i + 1] = x[i + 1]
          BY Zenon, <1>5, <5>1
        <5> QED
          BY Zenon, <2>2, <2>4, <5>1, <5>2
      <4> QED
        BY <4>1, <4>2
    <3>3. Pieces(z)[i] = <<>>
      BY Zenon, <1>5, <2>1, <3>2, PieceIs
    <3> QED
      BY Zenon, <3>1, <3>3
  <2> QED
    BY <2>3, <2>4
<1>7. Pieces(z)[a + 1] = <<>>
  <2>1. a + 1 \in 1 .. c
    BY <1>4
  <2>2. z[a + 1].kind # "path"
    BY <1>5 DEF Sep
  <2> QED
    BY Zenon, <1>5, <2>1, <2>2, PieceIs
<1>8. \A j \in 1 .. b : Pieces(z)[(a + 1) + j] = Pieces(y)[j]
  <2> SUFFICES ASSUME NEW j \in 1 .. b PROVE Pieces(z)[(a + 1) + j] = Pieces(y)[j]
    OBVIOUS
  <2>1. PICK i : i = (a + 1) + j
    OBVIOUS
  <2>2. i \in 1 .. c /\ (i < c <=> j < b) /\ i + 1 = (a + 1) + (j + 1)
    BY <1>4, <2>1
  <2>3. z[i] = y[j]
    BY Zenon, <1>5, <2>1
  <2>4. j < b => z[i + 1] = y[j + 1]
    <3>1. PICK l : l = j + 1
      OBVIOUS
    <3>2. j < b => l \in 1 .. b
      BY <3>1
    <3>3. j < b => z[(a + 1) + l] = y[l]
      BY Zenon, <1>5, <3>2
    <3> QED
      BY Zenon, <2>2, <3>1, <3>3
  <2>5. CASE j < b /\ y[j].kind = "path" /\ y[j + 1] # Sep
    <3> DEFINE m == DestAfter(y, j)
    <3>1. m \in Ends0(y, b, j) /\ \A k \in Ends0(y, b, j) : m <= k
      BY Zenon, <1>2, <2>5, EndsLeast
    <3>2. DestAfter(z, i) = Min(Ends0(z, c, i)) /\ Ends0(z, c, i) \in SUBSET Nat
      BY Zenon, <1>5, <2>2, <2>5, EndsLeast
    <3> HIDE DEF m
    <3>3. m \in 1 .. b /\ m > j /\ (m = b \/ y[m + 1] = Sep)
      BY <3>1 DEF Ends0
    <3>4. PICK n : n = (a + 1) + m
      OBVIOUS
    <3>5. n \in 1 .. c /\ n > i /\ (n = c <=> m = b) /\ n + 1 = (a + 1) + (m + 1)
      BY <1>4, <2>1, <3>3, <3>4
    <3>6. n \in Ends0(z, c, i)
      <4>1. CASE m = b
        BY <3>5, <4>1 DEF Ends0
      <4>2. CASE m # b
        <5>1. m + 1 \in 1 .. b /\ y[m + 1] = Sep
          BY <3>3, <4>2
        <5>2. z[n + 1] = Sep
          BY Zenon, <1>5, <3>5, <5>1
        <5> QED
          BY <3>5, <5>2 DEF Ends0
      <4> QED
        BY <4>1, <4>2
    <3>7. \A k \in Ends0(z, c, i) : n <= k
      <4> SUFFICES ASSUME NEW k \in Ends0(z, c, i) PROVE n <= k
        OBVIOUS
      <4>1. k \in 1 .. c /\ k > i /\ (k = c \/ z[k + 1] = Sep)
        BY DEF Ends0
      <4>2. PICK l : l = k - (a + 1)
        OBVIOUS
      <4>3. l \in 1 .. b /\ l > j /\ (k = c <=> l = b) /\ k = (a + 1) + l /\ k + 1 = (a + 1) + (l + 1)
        BY <1>4, <2>1, <4>1, <4>2
      <4>4. l \in Ends0(y, b, j)
        <5>1. CASE l = b
          BY <4>3, <5>1 DEF Ends0
        <5>2. CASE l # b
          <6>1. l + 1 \in 1 .. b
            BY <4>3, <5>2
          <6>2. y[l + 1] = Sep
            BY Zenon, <1>5, <4>1, <4>3, <5>2, <6>1
          <6> QED
            BY <4>3, <6>2 DEF Ends0
        <5> QED
          BY <5>1, <5>2
      <4>5. m <= l
        BY Zenon, <3>1, <4>4
      <4> QED
        BY <3>3, <3>4, <4>3, <4>5
    <3>8. Min(Ends0(z, c, i)) = n
      BY Zenon, <3>2, <3>6, <3>7, MinIs
    <3>9. z[n] = y[m]
      BY Zenon, <1>5, <3>3, <3>4
    <3>10. Pieces(y)[j] = <<<<y[j].path, y[m].path>>>>
      BY Zenon, <1>2, <2>5, PieceIs DEF m
    <3>11. Pieces(z)[i] = <<<<z[i].path, z[n].path>>>>
      <4>1. i < c /\ z[i].kind = "path" /\ z[i + 1] # Sep
        BY Zenon, <2>2, <2>3, <2>4, <2>5
      <4>2. Pieces(z)[i] = <<<<z[i].path, z[DestAfter(z, i)].path>>>>
        BY Zenon, <1>5, <2>2, <4>1, PieceIs
      <4> QED
        BY Zenon, <3>2, <3>8, <4>2
    <3> QED
      BY Zenon, <2>1, <2>3, <3>9, <3>10, <3>11
  <2>6. CASE ~(j < b /\ y[j].kind = "path" /\ y[j + 1] # Sep)
    <3>1. Pieces(y)[j] = <<>>
      BY Zenon, <1>2, <2>6, PieceIs
    <3>2. ~(i < c /\ z[i].kind = "path" /\ z[i + 1] # Sep)
      BY Zenon, <2>2, <2>3, <2>4, <2>6
    <3>3. Pieces(z)[i] = <<>>
      BY Zenon, <1>5, <2>2, <3>2, PieceIs
    <3> QED
      BY Zenon, <2>1, <3>1, <3>3
  <2> QED
    BY <2>5, <2>6
<1>9. JoinsFlat(Pieces(z), Pieces(x), a, Pieces(y), b)
  <2>1. \A i \in 1 .. a : Pieces(x)[i] \in Seq(Pairs)
    BY Zenon, <1>1, PiecesTyped
  <2>2. \A j \in 1 .. b : Pieces(y)[j] \in Seq(Pairs)
    BY Zenon, <1>2, PiecesTyped
  <2> QED
    BY Zenon, <1>6, <1>7, <1>8, <2>1, <2>2, FlatJoin
<1>10. Said(z) = Flat(Pieces(z), c) /\ Said(x) = Flat(Pieces(x), a) /\ Said(y) = Flat(Pieces(y), b)
  BY Zenon, <1>1, <1>2, <1>5, PiecesTyped
<1> QED
  BY Zenon, <1>3, <1>4, <1>9, <1>10 DEF JoinsFlat

LEMMA SaidNone == IsWords(<<>>) /\ Said(<<>>) = <<>>
<1>1. IsWords(<<>>)
  BY DEF IsWords
<1>2. Said(<<>>) = Flat(Pieces(<<>>), 0)
  <2>1. Len(<<>>) = 0
    OBVIOUS
  <2> QED
    BY Zenon, <1>1, <2>1, PiecesTyped
<1>3. \A k \in 1 .. 0 : Pieces(<<>>)[k] \in Seq(Pairs)
  OBVIOUS
<1>4. 0 \in Nat
  OBVIOUS
<1>5. Flattens(Pairs, Pieces(<<>>), 0)
  BY Zenon, <1>3, <1>4, FlatNext
<1> QED
  BY Zenon, <1>1, <1>2, <1>5 DEF Flattens

LEMMA SaidTwo ==
  ASSUME NEW p \in Path, NEW q \in Path
  PROVE  IsWords(<<File(p), File(q)>>) /\ Said(<<File(p), File(q)>>) = <<<<p, q>>>>
<1>1. PICK z : z = <<File(p), File(q)>>
  OBVIOUS
<1>2. /\ z[1].kind = "path" /\ z[2].kind = "path" /\ z[1].path = p /\ z[2].path = q
      /\ z[2] # Sep /\ DOMAIN z = {1, 2} /\ Len(z) = 2
  BY <1>1 DEF File, Sep
<1>3. IsWords(z)
  <2>1. File(p) \in Arg /\ File(q) \in Arg
    BY DEF File, Arg
  <2>2. z \in Seq(Arg)
    BY <1>1, <2>1
  <2>3. \A i \in {1, 2} : z[i].kind # "opt"
    BY <1>2
  <2> QED
    BY Zenon, <1>2, <2>2, <2>3 DEF IsWords
<1>4. 1 \in 1 .. 2 /\ 2 \in 1 .. 2 /\ 1 < 2 /\ ~(2 < 2) /\ 1 + 1 = 2 /\ 2 \in Nat /\ 0 \in 0 .. 2 - 1
      /\ 1 \in 0 .. 2 - 1 /\ 0 + 1 = 1 /\ \A i \in 1 .. 2 : i = 1 \/ i = 2
  OBVIOUS
<1>5. DestAfter(z, 1) = 2
  <2>1. 1 \in Nat /\ 1 < Len(z) /\ z[1 + 1] # Sep /\ 1 + 1 = Len(z)
    BY <1>2
  <2>2. DestAfter(z, 1) = 1 + 1
    BY Zenon, <1>3, <2>1, DestIs
  <2> QED
    BY <2>2
<1>6. Pieces(z)[1] = <<<<p, q>>>>
  <2>1. 1 < 2 /\ z[1].kind = "path" /\ z[1 + 1] # Sep
    BY Zenon, <1>2, <1>4
  <2>2. Pieces(z)[1] = <<<<z[1].path, z[DestAfter(z, 1)].path>>>>
    BY Zenon, <1>2, <1>3, <1>4, <2>1, PieceIs
  <2> QED
    BY Zenon, <1>2, <1>5, <2>2
<1>7. Pieces(z)[2] = <<>>
  BY Zenon, <1>2, <1>3, <1>4, PieceIs
<1>8. <<<<p, q>>>> \in Seq(Pairs)
  BY Zenon, OnePair
<1>9. Flattens(Pairs, Pieces(z), 2)
  <2>1. \A k \in 1 .. 2 : Pieces(z)[k] \in Seq(Pairs)
    BY Zenon, <1>2, <1>3, PiecesTyped
  <2> QED
    BY Zenon, <1>4, <2>1, FlatNext
<1>10. Flat(Pieces(z), 1) = <<<<p, q>>>>
  <2>1. Flat(Pieces(z), 0 + 1) = Flat(Pieces(z), 0) \o Pieces(z)[0 + 1] /\ Flat(Pieces(z), 0) = <<>>
    BY Zenon, <1>4, <1>9 DEF Flattens
  <2>2. <<>> \o <<<<p, q>>>> = <<<<p, q>>>>
    BY Zenon, <1>8, Joining
  <2> QED
    BY Zenon, <1>4, <1>6, <2>1, <2>2
<1>11. Flat(Pieces(z), 2) = <<<<p, q>>>>
  <2>1. Flat(Pieces(z), 1 + 1) = Flat(Pieces(z), 1) \o Pieces(z)[1 + 1]
    BY Zenon, <1>4, <1>9 DEF Flattens
  <2>2. <<<<p, q>>>> \o <<>> = <<<<p, q>>>>
    BY Zenon, <1>8, Joining
  <2> QED
    BY Zenon, <1>4, <1>7, <1>10, <2>1, <2>2
<1>12. Said(z) = Flat(Pieces(z), 2)
  BY Zenon, <1>2, <1>3, PiecesTyped
<1> QED
  BY Zenon, <1>1, <1>3, <1>11, <1>12

(* Lines of a list, each of two names at most.                             *)
IsList(list) == list \in Seq(Seq(Path)) /\ \A n \in DOMAIN list : Len(list[n]) <= 2

NamedBy(line) == IF Len(line) = 2 THEN <<<<line[1], line[2]>>>> ELSE <<>>

LEMMA OneLine ==
  ASSUME NEW line \in Seq(Path), Len(line) <= 2
  PROVE  /\ IsWords(TwoFiles(line)) /\ Said(TwoFiles(line)) = NamedBy(line)
         /\ NamedBy(line) \in Seq(Pairs)
         /\ line = <<>> => TwoFiles(line) = <<>> /\ NamedBy(line) = <<>>
<1>0. Len(line) \in Nat /\ \A k \in 1 .. Len(line) : line[k] \in Path
  BY Zenon, Member
<1>1. CASE Len(line) = 2
  <2>0. 1 \in 1 .. 2 /\ 2 \in 1 .. 2 /\ ~(2 < 2) /\ Len(<<>>) # 2
    OBVIOUS
  <2>1. line[1] \in Path /\ line[2] \in Path /\ ~(Len(line) < 2) /\ line # <<>>
    BY Zenon, <1>0, <1>1, <2>0
  <2>2. TwoFiles(line) = <<File(line[1]), File(line[2])>> /\ NamedBy(line) = <<<<line[1], line[2]>>>>
    BY Zenon, <1>1, <2>1 DEF TwoFiles, NamedBy
  <2>3. IsWords(TwoFiles(line)) /\ Said(TwoFiles(line)) = <<<<line[1], line[2]>>>>
    BY Zenon, <2>1, <2>2, SaidTwo
  <2>4. <<<<line[1], line[2]>>>> \in Seq(Pairs)
    BY Zenon, <2>1, OnePair
  <2> QED
    BY Zenon, <2>1, <2>2, <2>3, <2>4
<1>2. CASE Len(line) # 2
  <2>0. PICK n \in Nat : n = Len(line)
    BY Zenon, <1>0
  <2>1. n <= 2 /\ n # 2
    BY Zenon, <1>2, <2>0
  <2>3. n < 2
    BY <2>1
  <2>2. TwoFiles(line) = <<>> /\ NamedBy(line) = <<>>
    BY Zenon, <1>2, <2>0, <2>3 DEF TwoFiles, NamedBy
  <2> QED
    BY Zenon, <2>2, SaidNone, EmptySeq
<1> QED
  BY <1>1, <1>2

(* The arguments that one line of a list stands for.                       *)
LineArgs(list, n) ==
    (IF (\A i \in 1 .. n - 1 : list[i] = <<>>) \/ list[n] = <<>> THEN <<>> ELSE <<Sep>>)
        \o TwoFiles(list[n])

LEMMA LineArgsAre ==
  ASSUME NEW list, IsList(list), NEW n \in 1 .. Len(list)
  PROVE  /\ LineArgs(list, n) \in Seq(Arg)
         /\ list[n] = <<>> => LineArgs(list, n) = <<>> /\ NamedBy(list[n]) = <<>>
         /\ list[n] # <<>> /\ (\A i \in 1 .. n - 1 : list[i] = <<>>) =>
                LineArgs(list, n) = TwoFiles(list[n])
         /\ list[n] # <<>> /\ ~(\A i \in 1 .. n - 1 : list[i] = <<>>) =>
                LineArgs(list, n) = <<Sep>> \o TwoFiles(list[n])
         /\ IsWords(TwoFiles(list[n])) /\ Said(TwoFiles(list[n])) = NamedBy(list[n])
         /\ NamedBy(list[n]) \in Seq(Pairs)
<1>1. list[n] \in Seq(Path) /\ Len(list[n]) <= 2
  <2>1. DOMAIN list = 1 .. Len(list) /\ \A k \in 1 .. Len(list) : list[k] \in Seq(Path)
    BY Zenon, Member DEF IsList
  <2> QED
    BY Zenon, <2>1 DEF IsList
<1>2. PICK two : two = TwoFiles(list[n])
  OBVIOUS
<1>3. /\ IsWords(two) /\ Said(two) = NamedBy(list[n]) /\ NamedBy(list[n]) \in Seq(Pairs)
      /\ list[n] = <<>> => two = <<>> /\ NamedBy(list[n]) = <<>>
  BY Zenon, <1>1, <1>2, OneLine
<1>4. two \in Seq(Arg) /\ <<Sep>> \in Seq(Arg)
  <2>1. Sep \in Arg
    BY DEF Sep, Arg
  <2> QED
    BY Zenon, <1>3, <2>1, Single DEF IsWords
<1>5. <<>> \o two = two
  BY Zenon, <1>4, Joining
<1>6. <<Sep>> \o two \in Seq(Arg)
  BY Zenon, <1>4, JoinTyped
<1> QED
  BY Zenon, <1>2, <1>3, <1>4, <1>5, <1>6 DEF LineArgs

LEMMA ListSaid ==
  ASSUME NEW list, IsList(list)
  PROVE  IsWords(ExpandLines(list)) /\ Said(ExpandLines(list)) = Named(list)
<1>1. PICK len \in Nat : len = Len(list) /\ DOMAIN list = 1 .. len
  BY Zenon, Member DEF IsList
<1> DEFINE e == [n \in DOMAIN list |-> LineArgs(list, n)]
           q == [n \in DOMAIN list |-> NamedBy(list[n])]
<1>2. \A n \in 1 .. len : e[n] = LineArgs(list, n) /\ q[n] = NamedBy(list[n])
  BY Zenon, <1>1
<1>3. ExpandLines(list) = Flat(e, len) /\ Named(list) = Flat(q, len)
  <2>1. [n \in 1 .. len |-> e[n]] = e /\ [n \in 1 .. len |-> q[n]] = q
    BY Zenon, <1>1
  <2>2. ExpandLines(list) = FlattenSeq(e)
    BY Zenon DEF ExpandLines, LineArgs
  <2>3. Named(list) = FlattenSeq(q)
    BY Zenon DEF Named, NamedBy
  <2> QED
    BY Zenon, <2>1, <2>2, <2>3 DEF Flat
<1> HIDE DEF e, q
<1>4. Flattens(Arg, e, len) /\ Flattens(Pairs, q, len)
  <2>1. \A n \in 1 .. len : e[n] \in Seq(Arg) /\ q[n] \in Seq(Pairs)
    BY Zenon, <1>1, <1>2, LineArgsAre
  <2> QED
    BY Zenon, <2>1, FlatNext
<1> DEFINE T == {n \in 0 .. len :
                    /\ IsWords(Flat(e, n)) /\ Said(Flat(e, n)) = Flat(q, n)
                    /\ (\A i \in 1 .. n : list[i] = <<>>) => Flat(e, n) = <<>>}
<1>5. 0 \in T
  <2>1. 0 \in 0 .. len
    OBVIOUS
  <2>2. Flat(e, 0) = <<>> /\ Flat(q, 0) = <<>>
    BY Zenon, <1>4 DEF Flattens
  <2> QED
    BY Zenon, <2>1, <2>2, SaidNone
<1>6. \A k \in 1 .. len : k - 1 \in T => k \in T
  <2> SUFFICES ASSUME NEW k \in 1 .. len, k - 1 \in T PROVE k \in T
    OBVIOUS
  <2>1. PICK m : m = k - 1
    OBVIOUS
  <2>2. m \in 0 .. len - 1 /\ m + 1 = k /\ k \in 0 .. len /\ m \in 0 .. len
        /\ k \in 1 .. k /\ \A i \in 1 .. k : i \in 1 .. m \/ i = k
    BY <2>1
  <2>3. PICK x : x = Flat(e, m)
    OBVIOUS
  <2>4. PICK s : s = Flat(q, m)
    OBVIOUS
  <2>5. /\ IsWords(x) /\ Said(x) = s
        /\ (\A i \in 1 .. m : list[i] = <<>>) => x = <<>>
        /\ x \in Seq(Arg) /\ s \in Seq(Pairs)
    BY Zenon, <1>4, <2>1, <2>2, <2>3, <2>4 DEF Flattens
  <2>6. Flat(e, k) = x \o LineArgs(list, k) /\ Flat(q, k) = s \o NamedBy(list[k])
    BY Zenon, <1>2, <1>4, <2>2, <2>3, <2>4 DEF Flattens
  <2>7. PICK two : two = TwoFiles(list[k])
    OBVIOUS
  <2>8. /\ list[k] = <<>> => LineArgs(list, k) = <<>> /\ NamedBy(list[k]) = <<>>
        /\ list[k] # <<>> /\ (\A i \in 1 .. m : list[i] = <<>>) => LineArgs(list, k) = two
        /\ list[k] # <<>> /\ ~(\A i \in 1 .. m : list[i] = <<>>) => LineArgs(list, k) = <<Sep>> \o two
        /\ IsWords(two) /\ Said(two) = NamedBy(list[k]) /\ NamedBy(list[k]) \in Seq(Pairs)
        /\ two \in Seq(Arg)
    BY Zenon, <1>1, <2>1, <2>7, LineArgsAre DEF IsWords
  <2>9. IsWords(Flat(e, k)) /\ Said(Flat(e, k)) = Flat(q, k)
        /\ ((\A i \in 1 .. k : list[i] = <<>>) => Flat(e, k) = <<>>)
    <3>1. CASE list[k] = <<>>
      <4>1. x \o <<>> = x /\ s \o <<>> = s
        BY Zenon, <2>5, Joining
      <4>2. Flat(e, k) = x /\ Flat(q, k) = s
        BY Zenon, <2>6, <2>8, <3>1, <4>1
      <4>3. (\A i \in 1 .. k : list[i] = <<>>) => (\A i \in 1 .. m : list[i] = <<>>)
        BY <2>1
      <4> QED
        BY Zenon, <2>5, <4>2, <4>3
    <3>2. CASE list[k] # <<>> /\ (\A i \in 1 .. m : list[i] = <<>>)
      <4>1. x = <<>> /\ s = <<>>
        BY Zenon, <2>5, <3>2, SaidNone
      <4>2. <<>> \o two = two /\ <<>> \o NamedBy(list[k]) = NamedBy(list[k])
        BY Zenon, <2>8, Joining
      <4>3. Flat(e, k) = two /\ Flat(q, k) = NamedBy(list[k])
        BY Zenon, <2>6, <2>8, <3>2, <4>1, <4>2
      <4> QED
        BY Zenon, <2>2, <2>8, <3>2, <4>3
    <3>3. CASE list[k] # <<>> /\ ~(\A i \in 1 .. m : list[i] = <<>>)
      <4>1. Flat(e, k) = Both(x, two)
        BY Zenon, <2>6, <2>8, <3>3 DEF Both
      <4>2. Said(Both(x, two)) = Said(x) \o Said(two)
        BY Zenon, <2>5, <2>8, SaidJoins
      <4>3. IsWords(Both(x, two))
        <5>1. Len(x) \in Nat /\ Len(two) \in Nat
          BY Zenon, <2>5, <2>8, WordIs
        <5> QED
          BY Zenon, <2>5, <2>8, <5>1, BothIs DEF IsBoth
      <4> QED
        BY Zenon, <2>2, <2>5, <2>6, <2>8, <3>3, <4>1, <4>2, <4>3
    <3> QED
      BY <3>1, <3>2, <3>3
  <2> QED
    BY Zenon, <2>2, <2>9
<1>7. len \in T
  <2>1. len \in 0 .. len
    OBVIOUS
  <2> HIDE DEF T
  <2> QED
    BY Zenon, <1>5, <1>6, <2>1, UpTo
<1> QED
  BY Zenon, <1>3, <1>7

(* A list that ends its last line, and what comes after its name.          *)
LEMMA FileSaid ==
  ASSUME NEW list, IsList(list.lines), list.complete, NEW after, IsWords(after)
  PROVE  IsWords(ExpandFile(list, after)) /\ Said(ExpandFile(list, after)) = Named(list.lines) \o Said(after)
<1>1. PICK x : x = ExpandLines(list.lines)
  OBVIOUS
<1>2. IsWords(x) /\ Said(x) = Named(list.lines)
  BY Zenon, <1>1, ListSaid
<1>3. x \in Seq(Arg) /\ Said(x) \in Seq(Pairs)
  BY Zenon, <1>2, PiecesTyped DEF IsWords
<1>4. CASE after = <<>>
  <2>1. x \o <<>> = x /\ Said(x) \o <<>> = Said(x)
    BY Zenon, <1>3, Joining
  <2>2. ExpandFile(list, after) = x
    BY Zenon, <1>1, <1>4, <2>1 DEF ExpandFile
  <2> QED
    BY Zenon, <1>2, <1>4, <2>1, <2>2, SaidNone
<1>5. CASE after # <<>>
  <2>1. ExpandFile(list, after) = Both(x, after)
    BY Zenon, <1>1, <1>5 DEF ExpandFile, Both
  <2>2. Said(Both(x, after)) = Said(x) \o Said(after)
    BY Zenon, <1>2, SaidJoins
  <2>3. IsWords(Both(x, after))
    <3>1. Len(x) \in Nat /\ Len(after) \in Nat
      BY Zenon, <1>2, WordIs
    <3> QED
      BY Zenon, <1>2, <3>1, BothIs DEF IsBoth
  <2> QED
    BY Zenon, <1>2, <2>1, <2>2, <2>3
<1> QED
  BY Zenon, <1>4, <1>5

(* The name of a path stays its last part.                                 *)
LEMMA LastIs ==
  ASSUME NEW p \in Path
  PROVE  Len(p) \in Nat \ {0} /\ Last(p) = p[Len(p)] /\ p \in Seq(Word) /\ p # <<>>
<1>1. p \in Seq(Word) /\ p # <<>>
  BY DEF Path
<1>2. Len(p) \in Nat \ {0}
  BY Zenon, <1>1, PathEnds
<1> QED
  BY Zenon, <1>1, <1>2 DEF Last

LEMMA CanonicalEnd ==
  ASSUME NEW p \in Path
  PROVE  MakeCanonical(p) \in Path /\ Last(MakeCanonical(p)) = Last(p)
<1>1. PICK a : a = IF p[1] = "" \/ p[1] \in Protocols THEN p ELSE Cwd \o p
  OBVIOUS
<1>2. PICK S : S = Word
  OBVIOUS
<1>3. p \in Seq(S) /\ p # <<>> /\ Cwd \in Seq(S) /\ Cwd # <<>>
  BY Zenon, <1>2, LastIs, CwdAssumption
<1>4. PICK len \in Nat : len = Len(a) /\ DOMAIN a = 1 .. len /\ len # 0 /\ a[len] = Last(p)
                         /\ \A k \in 1 .. len : a[k] \in S
  <2>1. Last(p) = p[Len(p)]
    BY Zenon, LastIs
  <2>2. CASE a = p
    BY <1>3, <2>1, <2>2
  <2>3. CASE a = Cwd \o p
    <3>1. PICK n \in Nat : n = Len(Cwd)
      BY <1>3
    <3>2. PICK m \in Nat : m = Len(p)
      BY <1>3
    <3>3. Len(a) = n + m /\ m # 0 /\ a[n + m] = p[m] /\ DOMAIN a = 1 .. n + m
          /\ \A k \in 1 .. n + m : a[k] \in S
      BY <1>3, <2>3, <3>1, <3>2
    <3> QED
      BY <2>1, <3>2, <3>3
  <2> QED
    BY Zenon, <1>1, <2>2, <2>3
<1> DEFINE Stays(j) == j <= Fence(a) \/ a[j] # "" \/ j = Len(a)
           g == [j \in DOMAIN a |-> IF Stays(j) THEN <<a[j]>> ELSE <<>>]
<1>5. MakeCanonical(p) = Flat(g, len)
  <2>1. [k \in 1 .. len |-> g[k]] = g
    BY Zenon, <1>4
  <2> QED
    BY Zenon, <1>1, <2>1 DEF MakeCanonical, Flat
<1>6. \A k \in 1 .. len : g[k] \in Seq(S)
  <2> SUFFICES ASSUME NEW k \in 1 .. len PROVE g[k] \in Seq(S)
    OBVIOUS
  <2>1. <<a[k]>> \in Seq(S) /\ <<>> \in Seq(S)
    BY Zenon, <1>4, Single, EmptySeq
  <2> QED
    BY Zenon, <1>4, <2>1
<1>7. PICK m : m = len - 1
  OBVIOUS
<1>8. m \in 0 .. len - 1 /\ m \in 0 .. len /\ m + 1 = len /\ len \in 1 .. len
  BY <1>4, <1>7
<1>9. g[len] = <<a[len]>>
  BY Zenon, <1>4, <1>8
<1> HIDE DEF g, Stays
<1>10. Flat(g, m) \in Seq(S) /\ Flat(g, len) = Flat(g, m) \o <<a[len]>>
  <2>1. Flattens(S, g, len)
    BY Zenon, <1>6, FlatNext
  <2> QED
    BY Zenon, <1>8, <1>9, <2>1 DEF Flattens
<1>11. a[len] \in S
  BY Zenon, <1>4, <1>8
<1>12. /\ Append(Flat(g, m), a[len]) \in Seq(S) /\ Append(Flat(g, m), a[len]) # <<>>
       /\ Last(Append(Flat(g, m), a[len])) = a[len]
       /\ Flat(g, m) \o <<a[len]>> = Append(Flat(g, m), a[len])
  BY Zenon, <1>10, <1>11, AppendEnd
<1>13. MakeCanonical(p) = Append(Flat(g, m), a[len])
  BY Zenon, <1>5, <1>10, <1>12
<1>14. MakeCanonical(p) \in Seq(Word) /\ MakeCanonical(p) # <<>>
  BY Zenon, <1>2, <1>12, <1>13
<1> QED
  BY Zenon, <1>4, <1>12, <1>13, <1>14 DEF Path

LEMMA StripEnd ==
  ASSUME NEW p \in Path, NEW n \in Nat
  PROVE  Last(Strip(p, n)) = Last(p)
<1>1. PICK len \in Nat : len = Len(p) /\ len # 0
  BY Zenon, LastIs
<1>2. PICK m : m = IF n < len THEN n + 1 ELSE len
  OBVIOUS
<1>3. m \in 1 .. len
  BY <1>1, <1>2
<1>4. Strip(p, n) = SubSeq(p, m, len)
  BY Zenon, <1>1, <1>2 DEF Strip
<1>5. PICK S : S = Word
  OBVIOUS
<1>6. p \in Seq(S)
  BY Zenon, <1>5, LastIs
<1>7. PICK s : s = SubSeq(p, m, len)
  OBVIOUS
<1>8. Len(s) = len - m + 1 /\ s[len - m + 1] = p[len]
  BY <1>1, <1>3, <1>6, <1>7
<1> QED
  BY Zenon, <1>1, <1>4, <1>7, <1>8, LastIs DEF Last

LEMMA AtoiTyped == \A v : Atoi(v) \in Nat
<1> SUFFICES ASSUME NEW v PROVE Atoi(v) \in Nat
  OBVIOUS
<1> DEFINE digits == {n \in 0 .. 9 : v # <<>> /\ ToString(n) = v[1]}
<1>1. digits \in SUBSET Nat /\ 0 \in Nat
  OBVIOUS
<1>2. Atoi(v) = IF digits = {} THEN 0 ELSE Min(digits)
  BY Zenon DEF Atoi
<1> HIDE DEF digits
<1>3. digits # {} => Min(digits) \in Nat
  BY <1>1, LeastIsMin
<1> QED
  BY Zenon, <1>1, <1>2, <1>3

LEMMA LocatedEnd ==
  ASSUME NEW data, NEW p \in Path, Loc(data, p).location # ""
  PROVE  Last(Loc(data, p).path) = Last(p)
<1>1. PICK url \in Path : url = MakeCanonical(p) /\ Last(url) = Last(p)
  BY Zenon, CanonicalEnd
<1>2. LookupLoc(data, url).location # ""
  BY Zenon, <1>1 DEF Loc
<1>3. NoLocation.location = ""
  BY DEF NoLocation
<1> DEFINE list == NamesIn(Split(Rawget(data, General, "prefixes"), Blank))
           able == {i \in DOMAIN list : Applies(data, list[i], url)}
           section == <<"prefix", list[Min(able)]>>
<1>4. able # {}
  BY Zenon, <1>2, <1>3 DEF LookupLoc
<1>5. LookupLoc(data, url) = [location |-> Get(data, section, "location")[1],
                              path |-> Strip(url, Atoi(Get(data, section, "slashstrip"))),
                              proto |-> IF IsUrl(url) THEN url[1] ELSE ""]
  BY Zenon, <1>4 DEF LookupLoc
<1> HIDE DEF section
<1>p. PICK stripped : stripped = Strip(url, Atoi(Get(data, section, "slashstrip")))
  OBVIOUS
<1>6. LookupLoc(data, url).path = stripped
  <2>1. PICK x, z : LookupLoc(data, url) = [location |-> x, path |-> stripped, proto |-> z]
    BY Zenon, <1>5, <1>p
  <2>2. PICK loc : loc = LookupLoc(data, url)
    OBVIOUS
  <2>3. loc = [location |-> x, path |-> stripped, proto |-> z]
    BY Zenon, <2>1, <2>2
  <2>4. loc.path = stripped
    BY <2>3
  <2> QED
    BY Zenon, <2>2, <2>4
<1>7. Last(Strip(url, Atoi(Get(data, section, "slashstrip")))) = Last(url)
  BY Zenon, StripEnd, AtoiTyped
<1> QED
  BY Zenon, <1>1, <1>p, <1>6, <1>7 DEF Loc

(* Every source among the arguments is the first of a pair, and no other.  *)
SourcePaths(args) == {args[i].path : i \in SourcesIn(args)}

Firsts(s) == {s[k][1] : k \in DOMAIN s}

LEMMA FirstsJoin ==
  ASSUME NEW s \in Seq(Pairs), NEW t \in Seq(Pairs)
  PROVE  Firsts(s \o t) = Firsts(s) \union Firsts(t)
<1>1. PICK S : S = Pairs
  OBVIOUS
<1>2. s \in Seq(S) /\ t \in Seq(S)
  BY Zenon, <1>1
<1>3. PICK a \in Nat : a = Len(s) /\ DOMAIN s = 1 .. a
  BY <1>2
<1>4. PICK b \in Nat : b = Len(t) /\ DOMAIN t = 1 .. b
  BY <1>2
<1>5. PICK z : z = s \o t
  OBVIOUS
<1>6. /\ DOMAIN z = 1 .. a + b /\ \A k \in 1 .. a : z[k] = s[k]
      /\ \A k \in 1 .. b : z[a + k] = t[k]
  BY <1>2, <1>3, <1>4, <1>5
<1>7. /\ \A k \in 1 .. a + b : k \in 1 .. a \/ (k - a \in 1 .. b /\ k = a + (k - a))
      /\ \A k \in 1 .. a : k \in 1 .. a + b
      /\ \A k \in 1 .. b : a + k \in 1 .. a + b
  OBVIOUS
<1>8. Firsts(z) \subseteq Firsts(s) \union Firsts(t)
  <2> SUFFICES ASSUME NEW k \in 1 .. a + b PROVE z[k][1] \in Firsts(s) \union Firsts(t)
    BY Zenon, <1>6 DEF Firsts
  <2>1. CASE k \in 1 .. a
    BY Zenon, <1>3, <1>6, <2>1 DEF Firsts
  <2>2. CASE k - a \in 1 .. b /\ k = a + (k - a)
    <3>1. PICK j \in 1 .. b : k = a + j
      BY Zenon, <2>2
    <3> QED
      BY Zenon, <1>4, <1>6, <3>1 DEF Firsts
  <2> QED
    BY Zenon, <1>7, <2>1, <2>2
<1>9. Firsts(s) \subseteq Firsts(z)
  <2> SUFFICES ASSUME NEW k \in 1 .. a PROVE s[k][1] \in Firsts(z)
    BY Zenon, <1>3 DEF Firsts
  <2> QED
    BY Zenon, <1>6, <1>7 DEF Firsts
<1>10. Firsts(t) \subseteq Firsts(z)
  <2> SUFFICES ASSUME NEW k \in 1 .. b PROVE t[k][1] \in Firsts(z)
    BY Zenon, <1>4 DEF Firsts
  <2>1. PICK j : j = a + k
    OBVIOUS
  <2>2. j \in 1 .. a + b /\ z[j] = t[k]
    BY Zenon, <1>6, <1>7, <2>1
  <2> QED
    BY Zenon, <1>6, <2>2 DEF Firsts
<1> QED
  BY Zenon, <1>5, <1>8, <1>9, <1>10

LEMMA SourcesSaid ==
  ASSUME NEW args, IsWords(args)
  PROVE  Firsts(Said(args)) = SourcePaths(args)
<1>1. PICK len \in Nat : len = Len(args) /\ DOMAIN args = 1 .. len
  BY Zenon, WordIs
<1> DEFINE g == Pieces(args)
           Sources(n) == {args[i].path : i \in {i \in SourcesIn(args) : i \in 1 .. n}}
           T == {n \in 0 .. len : Firsts(Flat(g, n)) = Sources(n)}
<1>2. \A k \in 1 .. len : g[k] \in Seq(Pairs)
  BY Zenon, <1>1, PiecesTyped
<1> HIDE DEF g
<1>3. Flattens(Pairs, g, len)
  BY Zenon, <1>2, FlatNext
<1>4. 0 \in T
  <2>1. Flat(g, 0) = <<>>
    BY Zenon, <1>3 DEF Flattens
  <2>2. Firsts(<<>>) = {}
    BY DEF Firsts
  <2>3. Sources(0) = {}
    OBVIOUS
  <2>4. 0 \in 0 .. len
    OBVIOUS
  <2> QED
    BY Zenon, <2>1, <2>2, <2>3, <2>4
<1>5. \A k \in 1 .. len : k - 1 \in T => k \in T
  <2> SUFFICES ASSUME NEW k \in 1 .. len, k - 1 \in T PROVE k \in T
    OBVIOUS
  <2>1. PICK m : m = k - 1
    OBVIOUS
  <2>2. m \in 0 .. len - 1 /\ m \in 0 .. len /\ m + 1 = k /\ k \in 0 .. len
        /\ \A i : i \in 1 .. k <=> i \in 1 .. m \/ i = k
    BY <2>1
  <2>3. Firsts(Flat(g, m)) = Sources(m)
    BY Zenon, <2>1
  <2>4. Flat(g, m) \in Seq(Pairs) /\ Flat(g, k) = Flat(g, m) \o g[k] /\ g[k] \in Seq(Pairs)
    BY Zenon, <1>2, <1>3, <2>2 DEF Flattens
  <2>5. Firsts(Flat(g, k)) = Sources(m) \union Firsts(g[k])
    BY Zenon, <2>3, <2>4, FirstsJoin
  <2>6. CASE k \in SourcesIn(args)
    <3>1. PICK q : q = args[DestAfter(args, k)].path
      OBVIOUS
    <3>2. g[k] = <<<<args[k].path, q>>>>
      BY Zenon, <1>1, <2>6, <3>1 DEF g, Pieces
    <3>3. \A p : Firsts(<<<<p, q>>>>) = {p}
      BY DEF Firsts
    <3>4. Sources(k) = Sources(m) \union {args[k].path}
      BY Zenon, <2>2, <2>6
    <3> QED
      BY Zenon, <2>2, <2>5, <3>2, <3>3, <3>4
  <2>7. CASE k \notin SourcesIn(args)
    <3>1. g[k] = <<>>
      BY Zenon, <1>1, <2>7 DEF g, Pieces
    <3>2. Firsts(<<>>) = {}
      BY DEF Firsts
    <3>3. Sources(k) = Sources(m)
      BY Zenon, <2>2, <2>7
    <3>4. Firsts(Flat(g, k)) = Sources(m)
      BY Zenon, <2>5, <3>1, <3>2
    <3> QED
      BY Zenon, <2>2, <3>3, <3>4
  <2> QED
    BY <2>6, <2>7
<1>6. Firsts(Flat(g, len)) = Sources(len)
  <2>1. len \in 0 .. len
    OBVIOUS
  <2> HIDE DEF T
  <2>2. len \in T
    BY Zenon, <1>4, <1>5, <2>1, UpTo
  <2> QED
    BY Zenon, <2>2 DEF T
<1>7. Sources(len) = SourcePaths(args)
  BY Zenon, <1>1 DEF SourcePaths, SourcesIn
<1> QED
  BY Zenon, <1>1, <1>6, <1>7, PiecesTyped DEF g

(* The part of the arguments from one place on.                            *)
RestIs(rest, args, n) ==
    /\ rest \in Seq(Arg) /\ Len(rest) = Len(args) - n
    /\ \A j \in 1 .. Len(args) - n : rest[j] = args[n + j]

LEMMA RestOf ==
  ASSUME NEW args \in Seq(Arg), NEW n \in 0 .. Len(args)
  PROVE  RestIs(SubSeq(args, n + 1, Len(args)), args, n)
<1>1. PICK S : S = Arg
  OBVIOUS
<1>2. args \in Seq(S)
  BY Zenon, <1>1
<1>3. PICK len \in Nat : len = Len(args)
  BY <1>2
<1>4. PICK r : r = SubSeq(args, n + 1, len)
  OBVIOUS
<1>5. r \in Seq(S) /\ Len(r) = len - n /\ \A j \in 1 .. len - n : r[j] = args[n + j]
  BY <1>2, <1>3, <1>4
<1> QED
  BY Zenon, <1>1, <1>3, <1>4, <1>5 DEF RestIs

(* A command: where its options end, and what they leave.                  *)
Stops(args) == {i \in DOMAIN args : args[i].kind # "opt" \/ args[i] = Opt("-f")}

StopOf(args) == IF Stops(args) = {} THEN Len(args) + 1 ELSE Min(Stops(args))

LEMMA StopIs ==
  ASSUME NEW args \in Seq(Arg), NEW n \in 0 .. Len(args),
         \A i \in 1 .. n : args[i].kind = "opt" /\ args[i] # Opt("-f"),
         n < Len(args) => args[n + 1].kind # "opt" \/ args[n + 1] = Opt("-f")
  PROVE  StopOf(args) = n + 1 /\ (n + 1 \in Stops(args) <=> n < Len(args))
<1>1. PICK len \in Nat : len = Len(args) /\ DOMAIN args = 1 .. len
  BY Zenon, Member
<1>2. \A i \in Stops(args) : i \in 1 .. len /\ n + 1 <= i
  <2> SUFFICES ASSUME NEW i \in Stops(args) PROVE i \in 1 .. len /\ n + 1 <= i
    OBVIOUS
  <2>1. i \in 1 .. len /\ (args[i].kind # "opt" \/ args[i] = Opt("-f"))
    BY Zenon, <1>1 DEF Stops
  <2>2. i \notin 1 .. n
    BY Zenon, <2>1
  <2>3. n \in 0 .. len
    BY Zenon, <1>1
  <2> QED
    BY <2>1, <2>2, <2>3
<1>3. n \in 0 .. len /\ Stops(args) \in SUBSET Nat
  BY <1>1, <1>2
<1>4. CASE n < len
  <2>1. n + 1 \in 1 .. len
    BY <1>3, <1>4
  <2>2. n + 1 \in Stops(args)
    BY Zenon, <1>1, <1>4, <2>1 DEF Stops
  <2>3. Min(Stops(args)) = n + 1
    BY Zenon, <1>2, <1>3, <2>2, MinIs
  <2> QED
    BY Zenon, <1>1, <1>4, <2>2, <2>3 DEF StopOf
<1>5. CASE ~(n < len)
  <2>1. n = len
    BY <1>3, <1>5
  <2>2. Stops(args) = {}
    BY <1>2, <1>3, <2>1
  <2> QED
    BY Zenon, <1>1, <1>5, <2>1, <2>2 DEF StopOf
<1> QED
  BY <1>4, <1>5

LEMMA OptIs ==
  ASSUME NEW a \in Arg, a.kind = "opt", NEW o
  PROVE  a = Opt(o) <=> a.opt = o
<1>1. a \in [kind : {"opt"}, opt : Word]
  BY DEF Arg
<1>2. a = [kind |-> "opt", opt |-> a.opt]
  BY <1>1
<1> QED
  BY <1>2 DEF Opt

LEMMA DashD ==
  ASSUME NEW args \in Seq(Arg), NEW n \in 0 .. Len(args),
         \A i \in 1 .. n : args[i].kind = "opt"
  PROVE  "-D" \in {args[j].opt : j \in 1 .. n} <=> Opt("-D") \in {args[i] : i \in 1 .. n}
<1>1. PICK len \in Nat : len = Len(args) /\ \A k \in 1 .. len : args[k] \in Arg
  BY Zenon, Member
<1>2. \A i \in 1 .. n : i \in 1 .. len
  BY <1>1
<1>3. \A i \in 1 .. n : args[i] = Opt("-D") <=> args[i].opt = "-D"
  BY Zenon, <1>1, <1>2, OptIs
<1> QED
  BY Zenon, <1>3

(* What parse_opts makes of a command.                                     *)
Parsed(c) ==
    /\ IsWords(ParseOpts(c.args).args) /\ Said(ParseOpts(c.args).args) = c.pairs
    /\ "-D" \in ParseOpts(c.args).opts <=> c.isdir
    /\ ~c.list => Removed(c.args) = SourcePaths(ParseOpts(c.args).args)

LEMMA CommandParsed ==
  ASSUME NEW c, IsCommand(c), c.whole
  PROVE  Parsed(c)
<1>1. PICK args : args = c.args
  OBVIOUS
<1>2. PICK n \in 0 .. Len(args) :
        LET rest == SubSeq(args, n + 1 + (IF c.list THEN 2 ELSE 0), Len(args))
            list == ListFiles[args[n + 2].path]
        IN  /\ args \in Seq(Arg)
            /\ \A i \in 1 .. n : args[i].kind = "opt" /\ args[i] # Opt("-f")
            /\ c.isdir <=> Opt("-D") \in {args[i] : i \in 1 .. n}
            /\ \A i \in DOMAIN rest : rest[i].kind # "opt"
            /\ c.list => /\ n + 2 \in DOMAIN args
                         /\ args[n + 1] = Opt("-f") /\ args[n + 2].path \in DOMAIN ListFiles
                         /\ c.whole => list.complete
            /\ c.pairs = (IF c.list THEN Named(list.lines) ELSE <<>>) \o Said(rest)
  BY Zenon, <1>1 DEF IsCommand
<1>3. PICK len \in Nat : len = Len(args) /\ DOMAIN args = 1 .. len
                         /\ \A k \in 1 .. len : args[k] \in Arg
  BY Zenon, <1>2, Member
<1>4. n \in 0 .. len /\ n \in Nat
  BY <1>3
<1> DEFINE parsed == ParseOpts(args)
           list == ListFiles[args[n + 2].path]
<1>5. CASE c.list
  <2>1. n + 2 \in 1 .. len /\ n < len /\ n + 2 \in 0 .. len /\ n + 2 \in Nat
    BY <1>2, <1>3, <1>4, <1>5
  <2>2. StopOf(args) = n + 1 /\ n + 1 \in Stops(args)
    BY Zenon, <1>2, <1>3, <1>5, <2>1, StopIs
  <2>3. (n + 1) - 1 = n /\ (n + 1) + 2 = (n + 2) + 1 /\ n + 1 + 2 = (n + 2) + 1 /\ (n + 1) + 1 = n + 2
    OBVIOUS
  <2>4. PICK rest : rest = SubSeq(args, (n + 2) + 1, len)
    OBVIOUS
  <2>5. rest = SubSeq(args, n + 1 + (IF c.list THEN 2 ELSE 0), Len(args))
    BY Zenon, <1>3, <1>5, <2>3, <2>4
  <2>6. /\ \A i \in DOMAIN rest : rest[i].kind # "opt"
        /\ list.complete /\ c.pairs = Named(list.lines) \o Said(rest)
        /\ args[n + 1] = Opt("-f") /\ args[n + 2].path \in DOMAIN ListFiles
    BY Zenon, <1>2, <1>5, <2>5
  <2>7. parsed = [opts |-> {args[j].opt : j \in 1 .. n}, args |-> ExpandFile(list, rest)]
    BY Zenon, <1>3, <2>2, <2>3, <2>4, <2>6 DEF ParseOpts, Stops, StopOf
  <2>8. parsed.opts = {args[j].opt : j \in 1 .. n} /\ parsed.args = ExpandFile(list, rest)
    <3>1. PICK o, x : o = {args[j].opt : j \in 1 .. n} /\ x = ExpandFile(list, rest)
      BY Zenon
    <3>2. PICK r : r = parsed
      BY Zenon
    <3>3. r = [opts |-> o, args |-> x]
      BY Zenon, <2>7, <3>1, <3>2
    <3>4. r.opts = o /\ r.args = x
      BY <3>3
    <3> QED
      BY Zenon, <3>1, <3>2, <3>4
  <2>9. IsWords(rest)
    <3>1. RestIs(rest, args, n + 2)
      BY Zenon, <1>2, <1>3, <2>1, <2>4, RestOf
    <3> QED
      BY Zenon, <2>6, <3>1 DEF IsWords, RestIs
  <2>10. IsList(list.lines)
    BY Zenon, <2>6, ListsAssumption DEF IsList
  <2>11. IsWords(parsed.args) /\ Said(parsed.args) = c.pairs
    BY Zenon, <2>6, <2>8, <2>9, <2>10, FileSaid
  <2>12. "-D" \in parsed.opts <=> c.isdir
    BY Zenon, <1>2, <1>3, <2>8, DashD
  <2> QED
    BY Zenon, <1>1, <1>5, <2>11, <2>12 DEF Parsed
<1>6. CASE ~c.list
  <2>3. (n + 1) - 1 = n /\ n + 1 + 0 = n + 1
    BY <1>4
  <2>4. PICK rest : rest = SubSeq(args, n + 1, len)
    OBVIOUS
  <2>5. rest = SubSeq(args, n + 1 + (IF c.list THEN 2 ELSE 0), Len(args))
    BY Zenon, <1>3, <1>6, <2>3, <2>4
  <2>6. /\ \A i \in DOMAIN rest : rest[i].kind # "opt" /\ c.pairs = <<>> \o Said(rest)
    BY Zenon, <1>2, <1>6, <2>5
  <2>7. RestIs(rest, args, n)
    BY Zenon, <1>2, <1>3, <1>4, <2>4, RestOf
  <2>8. IsWords(rest) /\ Len(rest) = len - n /\ \A j \in 1 .. len - n : rest[j] = args[n + j]
    BY Zenon, <1>3, <2>6, <2>7 DEF IsWords, RestIs
  <2>9. DOMAIN rest = 1 .. len - n
    BY Zenon, <2>8, WordIs
  <2>10. n < len => args[n + 1].kind # "opt"
    <3>1. n < len => 1 \in 1 .. len - n
      BY <1>4
    <3> QED
      BY Zenon, <2>6, <2>8, <2>9, <3>1
  <2>11. StopOf(args) = n + 1 /\ args[n + 1] = Opt("-f") => n + 1 \notin Stops(args)
    <3>1. Opt("-f").kind = "opt"
      BY DEF Opt
    <3> QED
      BY Zenon, <1>2, <1>3, <2>10, <3>1, StopIs
  <2>s. StopOf(args) = n + 1
    BY Zenon, <1>2, <1>3, <2>10, StopIs
  <2>12. parsed = [opts |-> {args[j].opt : j \in 1 .. n}, args |-> rest]
    BY Zenon, <1>3, <2>s, <2>3, <2>4, <2>11 DEF ParseOpts, Stops, StopOf
  <2>13. parsed.opts = {args[j].opt : j \in 1 .. n} /\ parsed.args = rest
    <3>1. PICK o : o = {args[j].opt : j \in 1 .. n}
      BY Zenon
    <3>2. PICK r : r = parsed
      BY Zenon
    <3>3. r = [opts |-> o, args |-> rest]
      BY Zenon, <2>12, <3>1, <3>2
    <3>4. r.opts = o /\ r.args = rest
      BY <3>3
    <3> QED
      BY Zenon, <3>1, <3>2, <3>4
  <2>14. Said(parsed.args) = c.pairs
    <3>1. <<>> \o Said(rest) = Said(rest)
      BY Zenon, <2>8, PiecesTyped, Joining
    <3>2. c.pairs = <<>> \o Said(rest)
      BY Zenon, <1>2, <1>6, <2>5
    <3> QED
      BY Zenon, <2>13, <3>1, <3>2
  <2>15. "-D" \in parsed.opts <=> c.isdir
    BY Zenon, <1>2, <1>3, <2>13, DashD
  <2>16. Removed(args) = SourcePaths(rest)
    <3>1. \A i \in 1 .. len - 1 : i \notin 1 .. n => i - n \in 1 .. len - n /\ i - n < len - n
                                     /\ i - n + 1 \in 1 .. len - n
                                     /\ i = n + (i - n) /\ i + 1 = n + (i - n + 1)
      BY <1>4
    <3>2. \A j \in 1 .. len - n : j < len - n =>
             n + j \in 1 .. len - 1 /\ j + 1 \in 1 .. len - n /\ (n + j) + 1 = n + (j + 1)
      BY <1>4
    <3>3. \A i \in 1 .. n : args[i].kind # "path"
      <4>1. "opt" # "path"
        OBVIOUS
      <4> QED
        BY Zenon, <1>2, <4>1
    <3>4. ASSUME NEW i \in 1 .. len - 1, args[i].kind = "path", args[i + 1] # Sep
          PROVE  args[i].path \in SourcePaths(rest)
      <4>1. i \notin 1 .. n
        BY Zenon, <3>3, <3>4
      <4>2. PICK j : j = i - n
        OBVIOUS
      <4>3. /\ j \in 1 .. len - n /\ j < len - n /\ j + 1 \in 1 .. len - n
            /\ i = n + j /\ i + 1 = n + (j + 1)
        BY Zenon, <3>1, <4>1, <4>2
      <4>4. rest[j] = args[i] /\ rest[j + 1] = args[i + 1]
        BY Zenon, <2>8, <4>3
      <4>5. j \in SourcesIn(rest)
        BY Zenon, <2>8, <2>9, <3>4, <4>3, <4>4 DEF SourcesIn
      <4> QED
        BY Zenon, <4>4, <4>5 DEF SourcePaths
    <3>5. ASSUME NEW j \in SourcesIn(rest)
          PROVE  rest[j].path \in Removed(args)
      <4>1. j \in 1 .. len - n /\ j < len - n /\ rest[j].kind = "path" /\ rest[j + 1] # Sep
        BY Zenon, <2>8, <2>9 DEF SourcesIn
      <4>2. PICK i : i = n + j
        OBVIOUS
      <4>3. i \in 1 .. len - 1 /\ j + 1 \in 1 .. len - n /\ i + 1 = n + (j + 1)
        BY Zenon, <3>2, <4>1, <4>2
      <4>4. args[i] = rest[j] /\ args[i + 1] = rest[j + 1]
        BY Zenon, <2>8, <4>1, <4>2, <4>3
      <4> QED
        BY Zenon, <1>3, <4>1, <4>3, <4>4 DEF Removed, IsFileArg
    <3>6. Removed(args) \subseteq SourcePaths(rest)
      BY Zenon, <1>3, <3>4 DEF Removed, IsFileArg
    <3>7. SourcePaths(rest) \subseteq Removed(args)
      BY Zenon, <3>5 DEF SourcePaths
    <3> QED
      BY Zenon, <3>6, <3>7
  <2> QED
    BY Zenon, <1>1, <2>8, <2>13, <2>14, <2>15, <2>16 DEF Parsed
<1> QED
  BY <1>5, <1>6

LEMMA HandledTyped ==
  ASSUME NEW data, NEW args, IsWords(args), NEW isdir
  PROVE  PairArgs(data, args, isdir) \in Seq(CpPairs(data, args, isdir))
<1>1. PICK len \in Nat : len = Len(args)
  BY Zenon, WordIs
<1>2. PICK h \in [0 .. len -> HandleStates(data, args, isdir)] :
         PairArgs(data, args, isdir) = h[len].done
  <2>1. Handles(data, args, isdir, len)
    BY Zenon, <1>1, HandleIs
  <2> QED
    BY Zenon, <2>1 DEF Handles
<1>3. len \in 0 .. len
  OBVIOUS
<1>4. h[len] \in HandleStates(data, args, isdir)
  BY Zenon, <1>2, <1>3
<1> QED
  BY Zenon, <1>2, <1>4, StateParts DEF HandleStates

(* The pairs that a command is to copy, in their locations.                *)
DestOf(data, isdir, q) ==
    IF isdir THEN [Loc(data, q[2]) EXCEPT !.path = Append(@, Last(q[1]))] ELSE Loc(data, q[2])

Copied(data, c, pairs) ==
    [i \in DOMAIN pairs |-> <<pairs[i].src, pairs[i].dst>>]
        = [i \in DOMAIN c.pairs |-> <<Loc(data, c.pairs[i][1]), DestOf(data, c.isdir, c.pairs[i])>>]

Located(data, args) ==
    \A i \in DOMAIN args : IsFileArg(args[i]) => Loc(data, args[i].path).location # ""

(* Whatever the protocols that are picked, the pairs stay the same.        *)
SameEnds(s, pairs) ==
    /\ DOMAIN s = DOMAIN pairs
    /\ \A i \in DOMAIN pairs : s[i].src = pairs[i].src /\ s[i].dst = pairs[i].dst

LEMMA PickedPairs ==
  ASSUME NEW data, NEW args, NEW isdir, NEW f, NEW env
  PROVE  SameEnds(HandleArgs(data, args, isdir, f, env), PairArgs(data, args, isdir))
<1>1. PICK pairs : pairs = PairArgs(data, args, isdir)
  OBVIOUS
<1> DEFINE ForceAt(i) == InForce(f, IF i = 1 THEN env ELSE EnvAfter(data, f, env))
           Via(i) == PickProto(data, pairs[i].src, pairs[i].dst, ForceAt(i))
<1>2. PICK s : s = [i \in DOMAIN pairs |-> [src |-> pairs[i].src, dst |-> pairs[i].dst, via |-> Via(i)]]
  OBVIOUS
<1>3. s = HandleArgs(data, args, isdir, f, env)
  BY Zenon, <1>1, <1>2 DEF HandleArgs
<1> HIDE DEF Via
<1>4. DOMAIN s = DOMAIN pairs
      /\ \A i \in DOMAIN pairs : s[i].src = pairs[i].src /\ s[i].dst = pairs[i].dst
  BY <1>2
<1> QED
  BY Zenon, <1>1, <1>3, <1>4 DEF SameEnds

LEMMA CommandCopied ==
  ASSUME NEW data, NEW c, Parsed(c), Located(data, ParseOpts(c.args).args)
  PROVE  /\ Copied(data, c, PairArgs(data, ParseOpts(c.args).args, "-D" \in ParseOpts(c.args).opts))
         /\ ~c.list => Removed(c.args) = {c.pairs[i][1] : i \in DOMAIN c.pairs}
<1>1. PICK args : args = ParseOpts(c.args).args
  OBVIOUS
<1>2. PICK isdir : isdir = ("-D" \in ParseOpts(c.args).opts)
  OBVIOUS
<1>3. PICK q : q = c.pairs
  OBVIOUS
<1>4. IsWords(args) /\ Said(args) = q /\ (isdir <=> c.isdir)
      /\ (~c.list => Removed(c.args) = SourcePaths(args))
  BY Zenon, <1>1, <1>2, <1>3 DEF Parsed
<1>5. PICK s : s = PairArgs(data, args, isdir)
  OBVIOUS
<1>6. Match(data, isdir, s, q) /\ s \in Seq(CpPairs(data, args, isdir)) /\ q \in Seq(Pairs)
  BY Zenon, <1>4, <1>5, HandlesSaid, HandledTyped, PiecesTyped
<1>7. PICK len \in Nat : len = Len(q) /\ DOMAIN q = 1 .. len /\ \A k \in 1 .. len : q[k] \in Pairs
  BY Zenon, <1>6, Member
<1>8. DOMAIN s = 1 .. len /\ \A k \in 1 .. len : Fits(data, isdir, s[k], q[k])
  <2>1. DOMAIN s = 1 .. Len(s)
    BY Zenon, <1>6, Member
  <2> QED
    BY Zenon, <1>6, <1>7, <2>1 DEF Match
<1>9. ASSUME NEW k \in 1 .. len PROVE Last(Loc(data, q[k][1]).path) = Last(q[k][1])
  <2>1. q[k][1] \in Path
    <3>1. q[k] \in Pairs
      BY Zenon, <1>7
    <3> QED
      BY <3>1 DEF Pairs
  <2>2. q[k][1] \in SourcePaths(args)
    BY Zenon, <1>4, <1>7, SourcesSaid DEF Firsts
  <2>3. PICK i \in SourcesIn(args) : q[k][1] = args[i].path
    BY Zenon, <2>2 DEF SourcePaths
  <2>4. i \in DOMAIN args /\ IsFileArg(args[i])
    BY Zenon DEF SourcesIn, IsFileArg
  <2>5. Loc(data, q[k][1]).location # ""
    BY Zenon, <1>1, <2>3, <2>4 DEF Located
  <2> QED
    BY Zenon, <2>1, <2>5, LocatedEnd
<1>10. ASSUME NEW k \in 1 .. len
       PROVE  s[k].src = Loc(data, q[k][1]) /\ s[k].dst = DestOf(data, c.isdir, q[k])
  <2>1. s[k].src = Loc(data, q[k][1])
        /\ s[k].dst = ToDst(isdir, Loc(data, q[k][1]), Loc(data, q[k][2]))
    BY Zenon, <1>8 DEF Fits
  <2>2. Last(Loc(data, q[k][1]).path) = Last(q[k][1])
    BY Zenon, <1>9
  <2>3. CASE isdir
    BY Zenon, <1>4, <2>1, <2>2, <2>3 DEF ToDst, DestFile, DestOf
  <2>4. CASE ~isdir
    BY Zenon, <1>4, <2>1, <2>4 DEF ToDst, DestOf
  <2> QED
    BY Zenon, <2>1, <2>3, <2>4
<1>11. Copied(data, c, s)
  <2>1. [i \in 1 .. len |-> <<s[i].src, s[i].dst>>]
           = [i \in 1 .. len |-> <<Loc(data, q[i][1]), DestOf(data, c.isdir, q[i])>>]
    BY Zenon, <1>10
  <2> QED
    BY Zenon, <1>3, <1>7, <1>8, <2>1 DEF Copied
<1>12. ~c.list => Removed(c.args) = {q[i][1] : i \in DOMAIN q}
  <2>1. SourcePaths(args) = {q[i][1] : i \in DOMAIN q}
    BY Zenon, <1>4, SourcesSaid DEF Firsts
  <2> QED
    BY Zenon, <1>4, <2>1
<1> QED
  BY Zenon, <1>1, <1>2, <1>3, <1>5, <1>11, <1>12

(* cp copies every pair its arguments or its list name, in their order and *)
(* nothing else, and mv removes the sources, whatever the command line and *)
(* the list: parse_opts, expandfile, handle_args and mv.                   *)
THEOREM PairsAreAsked == Spec => []PairsAsAsked
<1>1. Init => PairsAsAsked
  <2>1. Init => asked.kind # "cp"
    BY DEF Init, NoQuestion
  <2> QED
    BY Zenon, <2>1 DEF PairsAsAsked
<1>2. ParserTyped /\ PairsAsAsked /\ [Next]_vars => PairsAsAsked'
  <2> SUFFICES ASSUME ParserTyped, PairsAsAsked, [Next]_vars PROVE PairsAsAsked'
    OBVIOUS
  <2>2. CASE asked'.kind # "cp"
    BY Zenon, <2>2 DEF PairsAsAsked
  <2>3. CASE AskCp
    <3>1. PICK c \in Commands, f, env \in Forces :
             /\ Located(cfg.data, ParseOpts(c.args).args)
             /\ Ask([kind |-> "cp", command |-> c, force |-> f, env |-> env],
                    [pairs |-> HandleArgs(cfg.data, ParseOpts(c.args).args,
                                          "-D" \in ParseOpts(c.args).opts, f, env),
                     removed |-> Removed(c.args)])
      BY Zenon, <2>3 DEF AskCp, Located, Loc
    <3>2. PICK pairs : pairs = HandleArgs(cfg.data, ParseOpts(c.args).args,
                                          "-D" \in ParseOpts(c.args).opts, f, env)
      OBVIOUS
    <3>p. PICK paired : paired = PairArgs(cfg.data, ParseOpts(c.args).args,
                                          "-D" \in ParseOpts(c.args).opts)
      OBVIOUS
    <3>3. PICK removed : removed = Removed(c.args)
      OBVIOUS
    <3>4. /\ asked' = [kind |-> "cp", command |-> c, force |-> f, env |-> env]
          /\ answer' = [pairs |-> pairs, removed |-> removed] /\ cfg' = cfg
      BY Zenon, <3>1, <3>2, <3>3, AskFrame
    <3>5. asked'.command = c /\ answer'.pairs = pairs /\ answer'.removed = removed
      BY <3>4
    <3>7. c.whole => Copied(cfg.data, c, paired)
                     /\ (~c.list => removed = {c.pairs[i][1] : i \in DOMAIN c.pairs})
      BY Zenon, <3>1, <3>p, <3>3, CommandsAssumption, CommandParsed, CommandCopied
    <3>8. [i \in DOMAIN pairs |-> <<pairs[i].src, pairs[i].dst>>]
             = [i \in DOMAIN paired |-> <<paired[i].src, paired[i].dst>>]
      <4>1. SameEnds(pairs, paired)
        BY Zenon, <3>2, <3>p, PickedPairs
      <4> QED
        BY Zenon, <4>1 DEF SameEnds
    <3>6. c.whole => Copied(cfg.data, c, pairs)
                     /\ (~c.list => removed = {c.pairs[i][1] : i \in DOMAIN c.pairs})
      BY Zenon, <3>7, <3>8 DEF Copied
    <3> QED
      BY Zenon, <3>4, <3>5, <3>6 DEF PairsAsAsked, Copied, DestOf, Loc
  <2>4. CASE UNCHANGED <<asked, answer>>
    <3>1. asked'.kind = "none" \/ (asked' = asked /\ answer' = answer /\ cfg' = cfg)
      BY Zenon, <2>4, AskedStays
    <3>2. CASE asked'.kind = "none"
      BY <2>2, <3>2
    <3>3. CASE asked' = asked /\ answer' = answer /\ cfg' = cfg
      BY <3>3 DEF PairsAsAsked
    <3> QED
      BY <3>1, <3>2, <3>3
  <2> QED
    BY <2>2, <2>3, <2>4, OneAsks
<1> QED
  BY <1>1, <1>2, ParserIsTyped, PTL DEF Spec

=============================================================================
