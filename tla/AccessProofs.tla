----------------------------- MODULE AccessProofs -----------------------------
(***************************************************************************)
(* Proofs about Access, for any processes, times and settings.             *)
(***************************************************************************)
EXTENDS Access, SequenceTheorems, TLAPS

-----------------------------------------------------------------------------
(* The types of what a process knows.                                      *)
Checking == {"proxy1", "proxy2", "kx509", "voms", "token1", "token2", "fetch", "end"}

Pcs == Checking \union {"idle", "rotate", "sleep", "gone"}

ProxyFiles == {"plain", "voms"}

Keys == (STRING \X STRING) \union {<<"", "">>}

ProcType ==
    [pc : Pcs, bearer : TokenFiles \union {Unset}, x509 : ProxyFiles \union {Unset},
     buf : Nat \union {Nothing}, tfile : TokenFiles \union {Unset},
     pfile : ProxyFiles \union {Unset}, found : BOOLEAN, checked : Nat,
     proxied : Nat \union {-1}, web : Int, first : Int, calls : Nat, tries : Nat,
     urls : Seq([kind : STRING, door : STRING]), rot : Nat \ {0}, nodes : SUBSET STRING,
     key : Keys, due : Nat, served : TokenFiles \union {Unset}]

TypesOK ==
    /\ setting \in SettingType
    /\ clock \in Nat
    /\ token \in [TokenFiles -> Tokens]
    /\ \A f \in TokenFiles : token[f].size = 0 => token[f].exp = Nothing
    /\ proxy \in [ProxyFiles -> [exp : Nat \union {Nothing}, role : BOOLEAN]]
    /\ proc \in [Procs -> ProcType]

(* Where a process can be, and the names it then has.                      *)
Placed(p) ==
    LET q == proc[p] IN
    /\ q.pc \in {"proxy1", "proxy2", "kx509", "voms"} => setting.proxies
    /\ q.pc \in {"token1", "token2", "fetch"} => setting.tokens
    /\ q.pc \in Checking => q.tfile # Unset /\ q.pfile # Unset
    /\ p \in Sessions => q.pc \notin {"idle", "rotate"}

-----------------------------------------------------------------------------
(* The token in f was good at t, or is none although it is as big as one.  *)
Good(f, t) ==
    \/ token[f].exp >= t + MinLeft
    \/ token[f].exp = Nothing /\ token[f].size > 200

(* What a process that has found credentials knows of the token; without a *)
(* ticket it may have been left where no environment names it.             *)
TokenFound(p) ==
    LET q == proc[p] IN
    /\ q.pc \in {"token2", "fetch"} /\ q.bearer = Unset => clock >= setting.ticket
    /\ ~setting.proxies /\ q.pc \in {"token1", "token2", "fetch"} => ~q.found
    /\ ~setting.proxies /\ ~setting.tokens /\ q.pc = "end" => ~q.found
    /\ setting.tokens /\ setting.up /\ q.pc = "end" => q.found
    /\ (setting.up \/ ~setting.proxies) /\ setting.tokens /\ q.pc = "end" /\ q.found =>
          /\ q.checked <= clock
          /\ Good(DefaultTokenFile(q.bearer), q.checked)
          /\ q.bearer = Unset => q.checked >= setting.ticket

(* And what it has kept of it.                                             *)
WebGood(p) ==
    LET q == proc[p] IN
    ~setting.proxies /\ q.web >= 0 => q.web >= q.first + MinLeft

(* The proxy that was found; it is the one that a renewal starts from.     *)
ProxyFound(p) ==
    LET q == proc[p] IN
    /\ q.pc = "proxy1" =>
          /\ q.proxied = -1
          /\ q.pfile = IF q.x509 = Unset THEN "plain" ELSE q.x509
    /\ q.pc \in {"proxy2", "kx509", "voms"} /\ q.proxied >= 0 => q.x509 = q.pfile
    /\ q.proxied >= 0 =>
          /\ q.proxied <= clock /\ q.x509 # Unset
          /\ proxy[q.x509].exp > q.proxied
          /\ setting.procs = {p} => proxy[q.x509].exp - q.proxied >= ProxyLeft

(* A session wakes up and comes to the end of its getToken in time.        *)
InTime(s) ==
    LET q == proc[s] IN
    s \in setting.procs /\ q.pc # "gone" =>
        /\ clock <= q.due
        /\ q.pc = "sleep" => q.due <= clock + Sleep
        /\ q.pc # "sleep" => q.due <= clock + MaxRun
        /\ setting.tokens /\ setting.up /\ q.pc = "end" => q.due <= q.checked + MaxRun

(* What it serves lasts until it is due, or nearly so.                     *)
Lasts(f, due, slack) ==
    \/ token[f].exp = Nothing /\ token[f].size > 200
    \/ token[f].exp # Nothing /\ due <= token[f].exp + slack

Served(s) ==
    LET q == proc[s] IN
    setting.tokens /\ setting.up /\ q.served # Unset /\ q.pc # "gone" =>
        /\ s \in setting.procs
        /\ Lasts(q.served, q.due, IF q.pc = "sleep" THEN MaxRun ELSE 2 * MaxRun)

-----------------------------------------------------------------------------
(* The doors that are kept are those of a rotation with this protocol and  *)
(* lookup.                                                                 *)
Offers(l, door, key) ==
    LET r == setting.rotations[l]
    IN  <<r.proto, r.lookup>> = key /\ door \in r.answer \union r.defaults

NodesOK(p) ==
    LET q == proc[p] IN
    \A d \in q.nodes : \E l \in DOMAIN setting.rotations : Offers(l, d, q.key)

UrlsOK(p) ==
    LET q == proc[p] IN
    /\ DOMAIN q.urls = DOMAIN setting.urls
    /\ \A i \in DOMAIN q.urls :
          \/ q.urls[i] = setting.urls[i]
          \/ \E k, l \in DOMAIN setting.rotations :
                /\ q.urls[i].kind \in setting.rotations[k].matches
                /\ Offers(l, q.urls[i].door,
                          <<setting.rotations[k].proto, setting.rotations[k].lookup>>)

Credentials(p) == Placed(p) /\ (setting.forks => TokenFound(p) /\ WebGood(p) /\ ProxyFound(p))

Session(s) == InTime(s) /\ (setting.forks => Served(s))

Inv ==
    /\ TypesOK
    /\ \A p \in Procs : Credentials(p) /\ NodesOK(p) /\ UrlsOK(p)
    /\ \A s \in Sessions : Session(s)

-----------------------------------------------------------------------------
(* Types                                                                   *)
LEMMA SettingTypes ==
  ASSUME TypesOK
  PROVE  /\ setting.tokens \in BOOLEAN /\ setting.proxies \in BOOLEAN
         /\ setting.forks \in BOOLEAN /\ setting.up \in BOOLEAN
         /\ setting.given \in {Unset, "job"} /\ setting.ticket \in Nat
         /\ setting.procs \subseteq Procs
         /\ setting.urls \in Seq([kind : STRING, door : STRING])
         /\ setting.token \in [TokenFiles -> Tokens]
         /\ \A f \in TokenFiles : setting.token[f].size = 0 => setting.token[f].exp = Nothing
BY DEF TypesOK, SettingType

(* What a step of a process leaves alone.                                  *)
SameToken(q, r) ==
    r.bearer = q.bearer /\ r.tfile = q.tfile /\ r.found = q.found /\ r.checked = q.checked

SameProxy(q, r) == r.x509 = q.x509 /\ r.pfile = q.pfile /\ r.proxied = q.proxied

SameUse(q, r) ==
    /\ r.web = q.web /\ r.first = q.first
    /\ r.urls = q.urls /\ r.nodes = q.nodes /\ r.key = q.key
    /\ r.due = q.due /\ r.served = q.served

(* The start of get_grid_credentials_if_needed.                            *)
Starts(q, r) ==
    /\ r.pc = (IF setting.proxies THEN "proxy1"
               ELSE IF setting.tokens THEN "token1" ELSE "end")
    /\ r.bearer = q.bearer /\ r.x509 = q.x509
    /\ r.tfile # Unset
    /\ r.pfile # Unset /\ r.pfile = (IF q.x509 = Unset THEN "plain" ELSE q.x509)
    /\ r.found = FALSE /\ r.proxied = -1

(* The names of the files are made before anything is checked.             *)
LEMMA BeginStarts ==
  ASSUME TypesOK, NEW q \in ProcType
  PROVE  Begin(q) \in ProcType /\ Starts(q, Begin(q)) /\ SameUse(q, Begin(q))
<1> DEFINE a == IF setting.proxies THEN "proxy1"
                ELSE IF setting.tokens THEN "token1" ELSE "end"
           t == IF q.bearer = Unset THEN "tmp" ELSE q.bearer
           f == IF q.x509 = Unset THEN "plain" ELSE q.x509
<1>1. a \in Pcs /\ t \in TokenFiles /\ f \in ProxyFiles
  BY DEF ProcType, Pcs, Checking, ProxyFiles, TokenFiles
<1> DEFINE b == Begin(q)
<1>2. b = [q EXCEPT !.pc = a, !.tfile = t, !.pfile = f, !.found = FALSE, !.proxied = -1]
  BY DEF Begin, AfterProxies
<1>3. Unset \notin TokenFiles \union ProxyFiles
  BY DEF Unset, TokenFiles, ProxyFiles
<1> HIDE DEF a, t, f, b
<1>4. b \in ProcType
  BY <1>1, <1>2 DEF ProcType
<1>5. /\ b.pc = a /\ b.tfile = t /\ b.pfile = f /\ b.found = FALSE /\ b.proxied = -1
      /\ b.bearer = q.bearer /\ b.x509 = q.x509
      /\ b.web = q.web /\ b.first = q.first
      /\ b.urls = q.urls /\ b.nodes = q.nodes /\ b.key = q.key
      /\ b.due = q.due /\ b.served = q.served
  BY <1>2 DEF ProcType
<1>6. Starts(q, b)
  BY <1>1, <1>3, <1>5 DEF Starts, a, f
<1>7. SameUse(q, b)
  BY <1>5 DEF SameUse
<1> QED
  BY <1>4, <1>6, <1>7 DEF b

LEMMA CheckTokensFacts ==
  ASSUME TypesOK, NEW q \in ProcType, NEW c, c = CheckTokens(q)
  PROVE  /\ c.ok \in BOOLEAN /\ c.q \in ProcType
         /\ SameProxy(q, c.q) /\ SameUse(q, c.q)
         /\ c.q.tfile = q.tfile /\ c.q.found = q.found /\ c.q.checked = q.checked
         /\ c.q.bearer = q.bearer \/ c.q.bearer = DefaultTokenFile(q.bearer)
         /\ setting.forks /\ c.ok => /\ c.q.bearer = DefaultTokenFile(q.bearer)
                                     /\ Good(c.q.bearer, clock) /\ c.q.bearer # Unset
<1> DEFINE file == DefaultTokenFile(q.bearer)
           big == token[file].size > 200
           read == IF token[file].exp = Nothing THEN q.buf ELSE token[file].exp
           x == IF big THEN file ELSE q.bearer
           y == IF setting.forks THEN read ELSE q.buf
<1>1. file \in TokenFiles /\ Unset \notin TokenFiles
  BY DEF DefaultTokenFile, ProcType, TokenFiles, Unset
<1>2. token[file].size \in Nat /\ token[file].exp \in Nat \union {Nothing}
  BY <1>1 DEF TypesOK, Tokens
<1>3. x \in TokenFiles \union {Unset} /\ y \in Nat \union {Nothing}
  BY <1>1, <1>2 DEF ProcType
<1>4. /\ c.ok = (~setting.forks \/ (big /\ ~Expired(read)))
      /\ c.q = [q EXCEPT !.bearer = x, !.buf = y]
  BY DEF CheckTokens
<1>5. ~Expired(token[file].exp) /\ token[file].exp # Nothing => token[file].exp >= clock + MinLeft
  BY <1>2, TimesAssumption DEF Expired, TypesOK, Nothing
<1>6. x = q.bearer \/ x = file
  OBVIOUS
<1>7. setting.forks /\ c.ok => x = file /\ Good(file, clock)
  BY <1>4, <1>5 DEF Good
<1> HIDE DEF file, x, y
<1>8. c.q \in ProcType /\ c.q.bearer = x
  BY <1>3, <1>4 DEF ProcType
<1>9. /\ SameProxy(q, c.q) /\ SameUse(q, c.q)
      /\ c.q.tfile = q.tfile /\ c.q.found = q.found /\ c.q.checked = q.checked
  BY <1>4 DEF ProcType, SameProxy, SameUse
<1> QED
  BY <1>1, <1>4, <1>6, <1>7, <1>8, <1>9 DEF file

LEMMA CheckProxiesFacts ==
  ASSUME TypesOK, NEW q \in ProcType, NEW c, c = CheckProxies(q)
  PROVE  /\ c.ok \in BOOLEAN /\ c.q \in ProcType
         /\ SameToken(q, c.q) /\ SameUse(q, c.q)
         /\ c.q.pfile = q.pfile
         /\ setting.forks /\ c.ok =>
               /\ c.q.x509 = (IF q.x509 = Unset THEN "plain" ELSE q.x509)
               /\ c.q.x509 # Unset /\ c.q.proxied = clock
               /\ proxy[c.q.x509].exp - clock >= ProxyLeft
         /\ ~(setting.forks /\ c.ok) => c.q.x509 = q.x509 /\ c.q.proxied = q.proxied
<1> DEFINE file == IF q.x509 = Unset THEN "plain" ELSE q.x509
           valid == setting.forks /\ proxy[file].exp - clock >= ProxyLeft
           x == IF valid THEN file ELSE q.x509
           y == IF valid THEN clock ELSE q.proxied
<1>1. file \in ProxyFiles /\ Unset \notin ProxyFiles
  BY DEF ProcType, ProxyFiles, Unset
<1>2. x \in ProxyFiles \union {Unset} /\ y \in Nat \union {-1}
  BY <1>1 DEF ProcType, TypesOK
<1>3. c.ok = (valid \/ ~setting.forks) /\ c.q = [q EXCEPT !.x509 = x, !.proxied = y]
  BY DEF CheckProxies
<1>4. /\ setting.forks /\ c.ok => x = file /\ y = clock /\ proxy[x].exp - clock >= ProxyLeft
      /\ ~(setting.forks /\ c.ok) => x = q.x509 /\ y = q.proxied
      /\ c.ok \in BOOLEAN
  BY <1>3, SettingTypes
<1> HIDE DEF x, y, valid
<1>5. c.q \in ProcType /\ c.q.x509 = x /\ c.q.proxied = y
  BY <1>2, <1>3 DEF ProcType
<1>6. SameToken(q, c.q) /\ SameUse(q, c.q) /\ c.q.pfile = q.pfile
  BY <1>3 DEF ProcType, SameToken, SameUse
<1> QED
  BY <1>1, <1>4, <1>5, <1>6

-----------------------------------------------------------------------------
(* What each step does to the process p, that knows q before and r after.  *)
Moves(p, q, r) ==
    /\ p \in setting.procs /\ p \in Procs
    /\ q = proc[p] /\ q \in ProcType /\ r \in ProcType
    /\ proc' = [proc EXCEPT ![p] = r]

LEMMA SetMoves ==
  ASSUME TypesOK, NEW p \in Procs, p \in setting.procs, NEW r \in ProcType, Set(p, r)
  PROVE  Moves(p, proc[p], r)
BY DEF TypesOK, Set, Moves

StartsCall(p, q, r) ==
    /\ q.pc \in {"idle", "rotate"} /\ p \notin Sessions
    /\ Starts(q, r)
    /\ r.web = q.web /\ r.first = q.first /\ r.nodes = q.nodes /\ r.key = q.key
    /\ r.urls = q.urls \/ r.urls = setting.urls
    /\ r.due = q.due /\ r.served = q.served

LEMMA CallMoves ==
  ASSUME TypesOK, NEW p \in Procs, Call(p)
  PROVE  \E r : Moves(p, proc[p], r) /\ StartsCall(p, proc[p], r)
<1> SUFFICES ASSUME NEW q, q = proc[p] PROVE \E r : Moves(p, q, r) /\ StartsCall(p, q, r)
  OBVIOUS
<1>1. PICK n \in Nat :
        /\ p \in setting.procs /\ p \notin Sessions /\ q.pc = "idle" /\ q \in ProcType
        /\ Set(p, Begin([q EXCEPT !.calls = n, !.tries = 0, !.urls = setting.urls]))
  <2>1. q \in ProcType
    BY DEF TypesOK
  <2>2. q.calls + 1 \in Nat
    BY <2>1 DEF ProcType
  <2> QED
    BY <2>1, <2>2 DEF Call, At
<1>2. PICK q1 : /\ q1 = [q EXCEPT !.calls = n, !.tries = 0, !.urls = setting.urls]
                /\ Set(p, Begin(q1))
  BY <1>1
<1>3. /\ q1 \in ProcType /\ q1.bearer = q.bearer /\ q1.x509 = q.x509
      /\ q1.web = q.web /\ q1.first = q.first /\ q1.nodes = q.nodes /\ q1.key = q.key
      /\ q1.urls = setting.urls /\ q1.due = q.due /\ q1.served = q.served
  BY <1>1, <1>2, SettingTypes DEF ProcType
<1>4. PICK r \in ProcType : Starts(q1, r) /\ SameUse(q1, r) /\ Set(p, r)
  BY <1>2, <1>3, BeginStarts
<1>5. StartsCall(p, q, r)
  BY <1>1, <1>3, <1>4 DEF StartsCall, Starts, SameUse
<1> QED
  BY <1>1, <1>4, <1>5, SetMoves

LEMMA CommandMoves ==
  ASSUME TypesOK, NEW p \in Procs, Command(p), Placed(p)
  PROVE  \E r : /\ Moves(p, proc[p], r)
                /\ \/ StartsCall(p, proc[p], r)
                   \/ /\ r.pc = "idle" /\ proc[p].pc = "rotate" /\ p \notin Sessions
                      /\ SameToken(proc[p], r) /\ SameProxy(proc[p], r) /\ SameUse(proc[p], r)
<1> DEFINE Stops(q, r) == /\ r.pc = "idle" /\ q.pc = "rotate" /\ p \notin Sessions
                          /\ SameToken(q, r) /\ SameProxy(q, r) /\ SameUse(q, r)
<1> SUFFICES ASSUME NEW q, q = proc[p]
             PROVE  \E r : Moves(p, q, r) /\ (StartsCall(p, q, r) \/ Stops(q, r))
  OBVIOUS
<1>1. /\ p \in setting.procs /\ q.pc = "rotate" /\ q \in ProcType /\ p \notin Sessions
      /\ \/ Set(p, [q EXCEPT !.pc = "idle"])
         \/ \E n \in Nat : Set(p, Begin([q EXCEPT !.tries = n]))
  <2>1. q \in ProcType
    BY DEF TypesOK
  <2>2. q.tries + 1 \in Nat
    BY <2>1 DEF ProcType
  <2> QED
    BY <2>1, <2>2 DEF Command, At, Placed
<1>2. CASE Set(p, [q EXCEPT !.pc = "idle"])
  <2>1. PICK r : r = [q EXCEPT !.pc = "idle"] /\ Set(p, r)
    BY <1>2
  <2>2. r \in ProcType /\ r.pc = "idle" /\ SameToken(q, r) /\ SameProxy(q, r) /\ SameUse(q, r)
    BY <1>1, <2>1 DEF ProcType, Pcs, SameToken, SameProxy, SameUse
  <2> QED
    BY <1>1, <2>1, <2>2, SetMoves
<1>3. ASSUME NEW n \in Nat, Set(p, Begin([q EXCEPT !.tries = n]))
      PROVE  \E r : Moves(p, q, r) /\ StartsCall(p, q, r)
  <2>1. PICK q1 : q1 = [q EXCEPT !.tries = n] /\ Set(p, Begin(q1))
    BY <1>3
  <2>2. /\ q1 \in ProcType /\ q1.bearer = q.bearer /\ q1.x509 = q.x509
        /\ q1.web = q.web /\ q1.first = q.first /\ q1.nodes = q.nodes /\ q1.key = q.key
        /\ q1.urls = q.urls /\ q1.due = q.due /\ q1.served = q.served
    BY <1>1, <1>3, <2>1 DEF ProcType
  <2>3. PICK r \in ProcType : Starts(q1, r) /\ SameUse(q1, r) /\ Set(p, r)
    BY <2>1, <2>2, BeginStarts
  <2>4. StartsCall(p, q, r)
    BY <1>1, <2>2, <2>3 DEF StartsCall, Starts, SameUse
  <2> QED
    BY <1>1, <2>3, <2>4, SetMoves
<1> QED
  BY <1>1, <1>2, <1>3

(* The checks of the proxies.                                              *)
ChecksProxies(q, r) ==
    /\ SameToken(q, r) /\ SameUse(q, r) /\ r.pfile = q.pfile
    /\ \/ /\ setting.forks
          /\ r.x509 = (IF q.x509 = Unset THEN "plain" ELSE q.x509) /\ r.x509 # Unset
          /\ r.proxied = clock /\ proxy[r.x509].exp - clock >= ProxyLeft
       \/ /\ r.proxied = q.proxied
          /\ r.x509 = q.x509 \/ q.pc = "proxy1"

LEMMA Proxy1Moves ==
  ASSUME TypesOK, NEW p \in Procs, Proxy1(p)
  PROVE  \E r : /\ Moves(p, proc[p], r) /\ ChecksProxies(proc[p], r)
                /\ proc[p].pc = "proxy1" /\ r.pc = "proxy2" /\ r.tfile = proc[p].tfile
<1> SUFFICES ASSUME NEW q, q = proc[p]
             PROVE  \E r : /\ Moves(p, q, r) /\ ChecksProxies(q, r)
                           /\ q.pc = "proxy1" /\ r.pc = "proxy2" /\ r.tfile = q.tfile
  OBVIOUS
<1>1. PICK c : /\ p \in setting.procs /\ q.pc = "proxy1" /\ q \in ProcType
               /\ c = CheckProxies(q)
               /\ Set(p, [c.q EXCEPT !.pc = "proxy2",
                                     !.x509 = IF ~c.ok /\ HaveKerberos THEN "voms" ELSE @])
  BY DEF Proxy1, At, TypesOK
<1>2. PICK x : /\ Set(p, [c.q EXCEPT !.pc = "proxy2", !.x509 = x])
               /\ x = c.q.x509 \/ (x = "voms" /\ ~c.ok)
  BY <1>1
<1>3. PICK r : r = [c.q EXCEPT !.pc = "proxy2", !.x509 = x] /\ Set(p, r)
  BY <1>2
<1>4. c.q \in ProcType
  BY <1>1, CheckProxiesFacts
<1>5. /\ r \in ProcType /\ r.pc = "proxy2" /\ r.x509 = x /\ r.proxied = c.q.proxied
      /\ r.pfile = c.q.pfile /\ SameToken(c.q, r) /\ SameUse(c.q, r)
  BY <1>2, <1>3, <1>4 DEF ProcType, Pcs, Checking, ProxyFiles, SameToken, SameUse
<1>6. SameToken(q, r) /\ SameUse(q, r) /\ r.pfile = q.pfile
  BY <1>1, <1>5, CheckProxiesFacts DEF SameToken, SameUse
<1>7. ChecksProxies(q, r)
  BY <1>1, <1>2, <1>5, <1>6, CheckProxiesFacts DEF ChecksProxies
<1> QED
  BY <1>1, <1>3, <1>5, <1>6, <1>7, SetMoves DEF SameToken

LEMMA Proxy2Moves ==
  ASSUME TypesOK, NEW p \in Procs, Proxy2(p)
  PROVE  \E r : /\ Moves(p, proc[p], r) /\ ChecksProxies(proc[p], r)
                /\ proc[p].pc = "proxy2" /\ r.pc \in {"kx509", AfterProxies}
                /\ setting.forks /\ r.pc = "kx509" => SameProxy(proc[p], r)
<1> SUFFICES ASSUME NEW q, q = proc[p]
             PROVE  \E r : /\ Moves(p, q, r) /\ ChecksProxies(q, r)
                           /\ q.pc = "proxy2" /\ r.pc \in {"kx509", AfterProxies}
                           /\ setting.forks /\ r.pc = "kx509" => SameProxy(q, r)
  OBVIOUS
<1>1. PICK c : /\ p \in setting.procs /\ q.pc = "proxy2" /\ q \in ProcType
               /\ c = CheckProxies(q)
               /\ Set(p, [c.q EXCEPT !.pc = IF ~c.ok /\ HaveKerberos THEN "kx509"
                                            ELSE AfterProxies])
  BY DEF Proxy2, At, TypesOK
<1>2. PICK a : /\ Set(p, [c.q EXCEPT !.pc = a]) /\ a \in {"kx509", AfterProxies}
               /\ a = "kx509" => ~c.ok
  BY <1>1 DEF AfterProxies
<1>3. PICK r : r = [c.q EXCEPT !.pc = a] /\ Set(p, r)
  BY <1>2
<1>4. c.q \in ProcType /\ a \in Pcs
  BY <1>1, <1>2, CheckProxiesFacts DEF AfterProxies, Pcs, Checking
<1>5. /\ r \in ProcType /\ r.pc = a /\ r.x509 = c.q.x509 /\ r.proxied = c.q.proxied
      /\ r.pfile = c.q.pfile /\ SameToken(c.q, r) /\ SameUse(c.q, r)
  BY <1>3, <1>4 DEF ProcType, SameToken, SameUse
<1>6. SameToken(q, r) /\ SameUse(q, r) /\ r.pfile = q.pfile
  BY <1>1, <1>5, CheckProxiesFacts DEF SameToken, SameUse
<1>7. ChecksProxies(q, r)
  BY <1>1, <1>5, <1>6, CheckProxiesFacts DEF ChecksProxies
<1>8. setting.forks /\ r.pc = "kx509" => SameProxy(q, r)
  BY <1>1, <1>2, <1>5, <1>6, CheckProxiesFacts DEF SameProxy
<1> QED
  BY <1>1, <1>2, <1>3, <1>5, <1>7, <1>8, SetMoves

LEMMA Kx509Moves ==
  ASSUME TypesOK, NEW p \in Procs, Kx509(p)
  PROVE  /\ \E r : /\ Moves(p, proc[p], r)
                   /\ proc[p].pc = "kx509" /\ r.pc = "voms"
                   /\ SameToken(proc[p], r) /\ SameProxy(proc[p], r) /\ SameUse(proc[p], r)
         /\ \/ proxy' = proxy
            \/ proxy' = [proxy EXCEPT ![proc[p].pfile] = [exp |-> clock + Life, role |-> FALSE]]
<1>1. PICK q : q = proc[p] /\ q \in ProcType /\ Set(p, [q EXCEPT !.pc = "voms"])
  BY DEF TypesOK, Kx509
<1>2. PICK r : r = [q EXCEPT !.pc = "voms"] /\ Set(p, r)
  BY <1>1
<1>3. /\ r \in ProcType /\ r.pc = "voms"
      /\ SameToken(q, r) /\ SameProxy(q, r) /\ SameUse(q, r)
  BY <1>1, <1>2 DEF ProcType, Pcs, Checking, SameToken, SameProxy, SameUse
<1> QED
  BY <1>1, <1>2, <1>3, SetMoves DEF Kx509, At

LEMMA VomsMoves ==
  ASSUME TypesOK, NEW p \in Procs, Voms(p)
  PROVE  /\ \E r : /\ Moves(p, proc[p], r)
                   /\ proc[p].pc = "voms" /\ r.pc = AfterProxies
                   /\ r.bearer = proc[p].bearer /\ r.tfile = proc[p].tfile
                   /\ SameProxy(proc[p], r) /\ SameUse(proc[p], r)
         /\ \/ proxy' = proxy
            \/ /\ proxy[proc[p].pfile].exp > clock
               /\ proxy' = [proxy EXCEPT !["voms"] =
                                [exp |-> proxy[proc[p].pfile].exp, role |-> TRUE]]
<1>1. PICK q : q = proc[p] /\ q \in ProcType
  BY DEF TypesOK
<1>2. PICK fnd \in BOOLEAN : Set(p, [q EXCEPT !.pc = AfterProxies, !.found = fnd])
  <2>1. q.found \in BOOLEAN
    BY <1>1 DEF ProcType
  <2>2. PICK counted \in BOOLEAN :
          Set(p, [q EXCEPT !.pc = AfterProxies, !.found = q.found \/ counted])
    BY <1>1 DEF Voms
  <2>3. (q.found \/ counted) \in BOOLEAN
    OBVIOUS
  <2> QED
    BY <2>2, <2>3, Zenon
<1>3. PICK r : r = [q EXCEPT !.pc = AfterProxies, !.found = fnd] /\ Set(p, r)
  BY <1>2
<1>4. AfterProxies \in Pcs
  BY DEF AfterProxies, Pcs, Checking
<1>5. /\ r \in ProcType /\ r.pc = AfterProxies /\ r.bearer = q.bearer /\ r.tfile = q.tfile
      /\ SameProxy(q, r) /\ SameUse(q, r)
  BY <1>1, <1>3, <1>4 DEF ProcType, SameProxy, SameUse
<1>6. /\ p \in setting.procs /\ q.pc = "voms"
      /\ \/ proxy' = proxy
         \/ /\ proxy[q.pfile].exp > clock
            /\ proxy' = [proxy EXCEPT !["voms"] = [exp |-> proxy[q.pfile].exp, role |-> TRUE]]
  BY <1>1 DEF Voms, At
<1> QED
  BY <1>1, <1>3, <1>5, <1>6, SetMoves

(* The checks of the token, and fetching one.                              *)
LEMMA Token1Moves ==
  ASSUME TypesOK, NEW p \in Procs, Token1(p), proc[p].tfile # Unset
  PROVE  \E r : /\ Moves(p, proc[p], r) /\ proc[p].pc = "token1" /\ r.pc = "token2"
                /\ r.tfile = proc[p].tfile /\ r.found = proc[p].found
                /\ r.checked = proc[p].checked
                /\ SameProxy(proc[p], r) /\ SameUse(proc[p], r)
                /\ setting.forks /\ r.bearer = Unset => clock >= setting.ticket
<1>1. PICK q : q = proc[p] /\ q \in ProcType /\ p \in setting.procs
  BY DEF TypesOK, Token1, At
<1>2. PICK c : /\ c = CheckTokens(q)
               /\ Set(p, [c.q EXCEPT !.pc = "token2",
                                     !.bearer = IF ~c.ok /\ HaveKerberos THEN c.q.tfile ELSE @])
  BY <1>1 DEF Token1
<1>3. PICK x : /\ Set(p, [c.q EXCEPT !.pc = "token2", !.bearer = x])
               /\ x = IF ~c.ok /\ HaveKerberos THEN c.q.tfile ELSE c.q.bearer
  BY <1>2
<1>4. PICK r : r = [c.q EXCEPT !.pc = "token2", !.bearer = x] /\ Set(p, r)
  BY <1>3
<1>5. /\ c.q \in ProcType /\ c.q.tfile = q.tfile /\ c.q.found = q.found
      /\ c.q.checked = q.checked /\ SameProxy(q, c.q) /\ SameUse(q, c.q)
      /\ setting.forks /\ c.ok => c.q.bearer # Unset
  BY <1>1, <1>2, CheckTokensFacts
<1>6. x \in TokenFiles \union {Unset}
  BY <1>3, <1>5 DEF ProcType
<1>7. /\ r \in ProcType /\ r.pc = "token2" /\ r.bearer = x /\ r.tfile = c.q.tfile
      /\ r.found = c.q.found /\ r.checked = c.q.checked
      /\ SameProxy(c.q, r) /\ SameUse(c.q, r)
  BY <1>4, <1>5, <1>6 DEF ProcType, Pcs, Checking, SameProxy, SameUse
<1>8. SameProxy(q, r) /\ SameUse(q, r)
  BY <1>5, <1>7 DEF SameProxy, SameUse
<1>9. setting.forks /\ x = Unset => clock >= setting.ticket
  BY <1>1, <1>3, <1>5, SettingTypes DEF HaveKerberos, TypesOK
<1> QED
  BY <1>1, <1>4, <1>5, <1>7, <1>8, <1>9, SetMoves DEF Token1, At

LEMMA Token2Moves ==
  ASSUME TypesOK, NEW p \in Procs, Token2(p)
  PROVE  \E r : /\ Moves(p, proc[p], r) /\ proc[p].pc = "token2"
                /\ r.tfile = proc[p].tfile /\ r.checked = clock
                /\ SameProxy(proc[p], r) /\ SameUse(proc[p], r)
                /\ setting.forks =>
                      \/ /\ r.pc = "end" /\ r.found
                         /\ r.bearer # Unset /\ Good(r.bearer, clock)
                      \/ /\ r.pc = "fetch" /\ r.found = proc[p].found
                         /\ r.bearer = Unset => proc[p].bearer = Unset
                /\ r.pc \in {"end", "fetch"}
<1>1. PICK q : q = proc[p] /\ q \in ProcType /\ p \in setting.procs
  BY DEF TypesOK, Token2, At
<1>2. PICK c : /\ c = CheckTokens(q)
               /\ Set(p, [c.q EXCEPT !.pc = IF c.ok THEN "end" ELSE "fetch",
                                     !.found = @ \/ c.ok, !.checked = clock])
  BY <1>1 DEF Token2
<1>3. /\ c.q \in ProcType /\ c.q.tfile = q.tfile /\ c.q.found = q.found
      /\ SameProxy(q, c.q) /\ SameUse(q, c.q) /\ c.ok \in BOOLEAN /\ q.found \in BOOLEAN
      /\ c.q.bearer = q.bearer \/ c.q.bearer = DefaultTokenFile(q.bearer)
      /\ setting.forks /\ c.ok => Good(c.q.bearer, clock) /\ c.q.bearer # Unset
  BY <1>1, <1>2, CheckTokensFacts DEF ProcType
<1>4. PICK a \in {"end", "fetch"}, fnd \in BOOLEAN :
        /\ Set(p, [c.q EXCEPT !.pc = a, !.found = fnd, !.checked = clock])
        /\ (c.ok /\ a = "end" /\ fnd) \/ (~c.ok /\ a = "fetch" /\ fnd = q.found)
  <2>1. CASE c.ok
    <3>1. Set(p, [c.q EXCEPT !.pc = "end", !.found = TRUE, !.checked = clock])
      <4>1. (c.q.found \/ c.ok) = TRUE
        BY <2>1, <1>3
      <4> QED
        BY <2>1, <1>2, <4>1, Zenon
    <3> QED
      BY <2>1, <3>1
  <2>2. CASE ~c.ok
    <3>1. Set(p, [c.q EXCEPT !.pc = "fetch", !.found = q.found, !.checked = clock])
      <4>1. (c.q.found \/ c.ok) = q.found
        BY <2>2, <1>3
      <4> QED
        BY <2>2, <1>2, <4>1, Zenon
    <3> QED
      BY <1>3, <2>2, <3>1
  <2> QED
    BY <2>1, <2>2
<1>5. PICK r : r = [c.q EXCEPT !.pc = a, !.found = fnd, !.checked = clock] /\ Set(p, r)
  BY <1>4
<1>6. clock \in Nat /\ a \in Pcs
  BY DEF TypesOK, Pcs, Checking
<1>7. /\ r \in ProcType /\ r.pc = a /\ r.bearer = c.q.bearer /\ r.tfile = c.q.tfile
      /\ r.found = fnd /\ r.checked = clock
      /\ SameProxy(c.q, r) /\ SameUse(c.q, r)
  BY <1>3, <1>5, <1>6 DEF ProcType, SameProxy, SameUse
<1>8. SameProxy(q, r) /\ SameUse(q, r)
  BY <1>3, <1>7 DEF SameProxy, SameUse
<1>9. c.q.bearer = Unset => q.bearer = Unset
  BY <1>3 DEF DefaultTokenFile, Unset
<1>10. setting.forks =>
          \/ /\ r.pc = "end" /\ r.found
             /\ r.bearer # Unset /\ Good(r.bearer, clock)
          \/ /\ r.pc = "fetch" /\ r.found = q.found
             /\ r.bearer = Unset => q.bearer = Unset
  BY <1>3, <1>4, <1>7, <1>9
<1> QED
  BY <1>1, <1>3, <1>4, <1>5, <1>7, <1>8, <1>10, SetMoves DEF Token2, At

LEMMA FetchMoves ==
  ASSUME TypesOK, NEW p \in Procs, Fetch(p)
  PROVE  \E r : /\ Moves(p, proc[p], r) /\ proc[p].pc = "fetch" /\ r.pc = "end"
                /\ r.bearer = proc[p].bearer /\ r.tfile = proc[p].tfile
                /\ SameProxy(proc[p], r) /\ SameUse(proc[p], r)
                /\ \/ /\ r.found /\ r.checked = clock
                      /\ token' = [token EXCEPT ![DefaultTokenFile(r.bearer)] = Renewed(@)]
                   \/ /\ ~setting.up /\ token' = token
                      /\ r.found = proc[p].found
<1>1. PICK q : q = proc[p] /\ q \in ProcType /\ p \in setting.procs /\ q.pc = "fetch"
  BY DEF TypesOK, Fetch, At
<1>2. clock \in Nat
  BY DEF TypesOK
<1>3. CASE /\ token' = [token EXCEPT ![DefaultTokenFile(q.bearer)] = Renewed(@)]
           /\ Set(p, [q EXCEPT !.pc = "end", !.found = TRUE, !.checked = clock])
  <2>1. PICK r : r = [q EXCEPT !.pc = "end", !.found = TRUE, !.checked = clock] /\ Set(p, r)
    BY <1>3
  <2>2. /\ r \in ProcType /\ r.pc = "end" /\ r.bearer = q.bearer /\ r.tfile = q.tfile
        /\ r.found /\ r.checked = clock
        /\ SameProxy(q, r) /\ SameUse(q, r)
    BY <1>1, <1>2, <2>1 DEF ProcType, Pcs, Checking, SameProxy, SameUse
  <2> QED
    BY <1>1, <1>3, <2>1, <2>2, SetMoves
<1>4. CASE ~setting.up /\ token' = token /\ Set(p, [q EXCEPT !.pc = "end"])
  <2>1. PICK r : r = [q EXCEPT !.pc = "end"] /\ Set(p, r)
    BY <1>4
  <2>2. /\ r \in ProcType /\ r.pc = "end" /\ r.bearer = q.bearer /\ r.tfile = q.tfile
        /\ r.found = q.found
        /\ SameProxy(q, r) /\ SameUse(q, r)
    BY <1>1, <2>1 DEF ProcType, Pcs, Checking, SameProxy, SameUse
  <2> QED
    BY <1>1, <1>4, <2>1, <2>2, SetMoves
<1> QED
  BY <1>1, <1>3, <1>4 DEF Fetch

(* What is done with the credentials.                                      *)
LEMMA RequestMoves ==
  ASSUME TypesOK, NEW p \in Procs, Request(p)
  PROVE  \E r : /\ Moves(p, proc[p], r) /\ proc[p].pc = "end" /\ r.pc = "idle"
                /\ p \notin Sessions
                /\ SameToken(proc[p], r) /\ SameProxy(proc[p], r)
                /\ r.urls = proc[p].urls /\ r.nodes = proc[p].nodes /\ r.key = proc[p].key
                /\ \/ r.web = proc[p].web /\ r.first = proc[p].first
                   \/ r.web < 0
                   \/ /\ proc[p].bearer # Unset /\ r.web = token[proc[p].bearer].exp
                      /\ r.first = (IF proc[p].found THEN proc[p].checked ELSE -MinLeft)
<1>1. PICK q : q = proc[p] /\ q \in ProcType /\ p \in setting.procs /\ q.pc = "end"
  BY DEF TypesOK, Request, At
<1>2. PICK t, w, f :
        /\ t = (IF q.bearer = Unset THEN NoToken ELSE token[q.bearer])
        /\ w = (IF t.size > 512 THEN t.exp ELSE Without)
        /\ f = (IF q.found THEN q.checked ELSE -MinLeft)
        /\ Set(p, IF q.web # Unread THEN [q EXCEPT !.pc = "idle"]
                  ELSE [q EXCEPT !.pc = "idle", !.web = w, !.first = f])
  <2>1. Set(p, LET t == IF q.bearer = Unset THEN NoToken ELSE token[q.bearer]
                   w == IF t.size > 512 THEN t.exp ELSE Without
               IN  IF q.web # Unread THEN [q EXCEPT !.pc = "idle"]
                   ELSE [q EXCEPT !.pc = "idle", !.web = w,
                                  !.first = IF q.found THEN q.checked ELSE -MinLeft])
    BY <1>1 DEF Request, Set
  <2>2. PICK t : t = IF q.bearer = Unset THEN NoToken ELSE token[q.bearer]
    OBVIOUS
  <2>3. PICK w : w = IF t.size > 512 THEN t.exp ELSE Without
    OBVIOUS
  <2>4. PICK f : f = IF q.found THEN q.checked ELSE -MinLeft
    OBVIOUS
  <2>5. Set(p, IF q.web # Unread THEN [q EXCEPT !.pc = "idle"]
               ELSE [q EXCEPT !.pc = "idle", !.web = w, !.first = f])
    BY <2>1, <2>2, <2>3, <2>4
  <2> QED
    BY <2>2, <2>3, <2>4, <2>5, Zenon
<1>3. CASE q.web # Unread
  <2>1. PICK r : r = [q EXCEPT !.pc = "idle"] /\ Set(p, r)
    BY <1>2, <1>3
  <2>2. /\ r \in ProcType /\ r.pc = "idle" /\ SameToken(q, r) /\ SameProxy(q, r)
        /\ r.urls = q.urls /\ r.nodes = q.nodes /\ r.key = q.key
        /\ r.web = q.web /\ r.first = q.first
    BY <1>1, <2>1 DEF ProcType, Pcs, SameToken, SameProxy
  <2> QED
    BY <1>1, <2>1, <2>2, SetMoves DEF Request
<1>4. CASE q.web = Unread
  <2>1. w = Without \/ (q.bearer # Unset /\ w = token[q.bearer].exp)
    <3>1. NoToken.size = 0
      BY DEF NoToken
    <3> QED
      BY <1>2, <3>1
  <2>2. q.bearer # Unset => q.bearer \in TokenFiles
    BY <1>1 DEF ProcType
  <2>3. w \in Int
    BY <2>1, <2>2 DEF Without, TypesOK, Tokens, Nothing
  <2>4. f \in Int
    BY <1>1, <1>2, TimesAssumption DEF ProcType
  <2>5. PICK r : r = [q EXCEPT !.pc = "idle", !.web = w, !.first = f] /\ Set(p, r)
    BY <1>2, <1>4
  <2>6. /\ r \in ProcType /\ r.pc = "idle" /\ SameToken(q, r) /\ SameProxy(q, r)
        /\ r.urls = q.urls /\ r.nodes = q.nodes /\ r.key = q.key
        /\ r.web = w /\ r.first = f
    BY <1>1, <2>3, <2>4, <2>5 DEF ProcType, Pcs, SameToken, SameProxy
  <2>7. r.web < 0 \/ (/\ q.bearer # Unset /\ r.web = token[q.bearer].exp
                      /\ r.first = (IF q.found THEN q.checked ELSE -MinLeft))
    BY <1>2, <2>1, <2>6 DEF Without
  <2>8. Moves(p, q, r) /\ p \notin Sessions
    BY <1>1, <2>5, <2>6, SetMoves DEF Request
  <2> QED
    BY <1>1, <2>6, <2>7, <2>8
<1> QED
  BY <1>3, <1>4

LEMMA CopyMoves ==
  ASSUME TypesOK, NEW p \in Procs, Copy(p)
  PROVE  \E r : /\ Moves(p, proc[p], r) /\ r.pc = "rotate" /\ p \notin Sessions
                /\ SameToken(proc[p], r) /\ SameProxy(proc[p], r) /\ SameUse(proc[p], r)
<1>1. PICK q : /\ q = proc[p] /\ q \in ProcType /\ p \in setting.procs /\ p \notin Sessions
               /\ Set(p, [q EXCEPT !.pc = "rotate", !.rot = 1])
  BY DEF TypesOK, Copy, At
<1>2. PICK one \in Nat \ {0} : Set(p, [q EXCEPT !.pc = "rotate", !.rot = one])
  <2>1. 1 \in Nat \ {0}
    OBVIOUS
  <2> QED
    BY <1>1, <2>1, Zenon
<1> DEFINE r == [q EXCEPT !.pc = "rotate", !.rot = one]
<1>3. /\ r \in ProcType /\ r.pc = "rotate"
      /\ SameToken(q, r) /\ SameProxy(q, r) /\ SameUse(q, r)
  <2>1. r \in ProcType /\ r.pc = "rotate"
    BY <1>1, <1>2 DEF ProcType, Pcs
  <2> QED
    BY <1>1, <1>2, <2>1 DEF ProcType, SameToken, SameProxy, SameUse
<1> QED
  BY <1>1, <1>2, <1>3, SetMoves

(* The doors a rotation chooses from.                                      *)
LEMMA NodesOffered ==
  ASSUME TypesOK, NEW p \in Procs, NodesOK(p), NEW k \in DOMAIN setting.rotations,
         NEW answer \in {{}, setting.rotations[k].answer},
         NEW door \in Nodes(proc[p], setting.rotations[k], answer)
  PROVE  \E l \in DOMAIN setting.rotations :
            Offers(l, door, <<setting.rotations[k].proto, setting.rotations[k].lookup>>)
<1>1. CASE door \in proc[p].nodes
           /\ proc[p].key = <<setting.rotations[k].proto, setting.rotations[k].lookup>>
  BY <1>1 DEF NodesOK
<1>2. CASE door \in setting.rotations[k].answer \union setting.rotations[k].defaults
  BY <1>2 DEF Offers
<1> QED
  BY <1>1, <1>2, Zenon DEF Nodes

LEMMA RotateMoves ==
  ASSUME TypesOK, NEW p \in Procs, Rotate(p), NodesOK(p)
  PROVE  \E r : /\ Moves(p, proc[p], r) /\ r.pc = "rotate" /\ proc[p].pc = "rotate"
                /\ SameToken(proc[p], r) /\ SameProxy(proc[p], r)
                /\ r.web = proc[p].web /\ r.first = proc[p].first
                /\ DOMAIN r.urls = DOMAIN proc[p].urls
                /\ \/ r.urls = proc[p].urls /\ r.nodes = proc[p].nodes /\ r.key = proc[p].key
                   \/ \E k \in DOMAIN setting.rotations :
                        /\ r.key = <<setting.rotations[k].proto, setting.rotations[k].lookup>>
                        /\ \A d \in r.nodes : \E l \in DOMAIN setting.rotations : Offers(l, d, r.key)
                        /\ \A i \in DOMAIN r.urls :
                              \/ r.urls[i] = proc[p].urls[i]
                              \/ /\ r.urls[i].kind = proc[p].urls[i].kind
                                 /\ r.urls[i].kind \in setting.rotations[k].matches
                                 /\ r.urls[i].door \in r.nodes
<1> DEFINE Url == [kind : STRING, door : STRING]
<1>1. PICK q : /\ q = proc[p] /\ q \in ProcType /\ p \in setting.procs /\ q.pc = "rotate"
               /\ q.rot <= Len(setting.rotations)
  BY DEF TypesOK, Rotate, At
<1>2. /\ q.rot + 1 \in Nat \ {0} /\ q.rot \in DOMAIN setting.rotations
      /\ q.urls \in Seq(Url)
  BY <1>1 DEF ProcType, TypesOK, SettingType
<1>3. PICK k \in DOMAIN setting.rotations : k = q.rot
  BY <1>2
<1>4. PICK rot : rot = setting.rotations[k]
  OBVIOUS
<1>5. rot.answer \subseteq STRING /\ rot.defaults \subseteq STRING
      /\ rot.proto \in STRING /\ rot.lookup \in STRING
  <2> DEFINE Rotation == [matches : SUBSET STRING, proto : STRING, lookup : STRING,
                          answer : SUBSET STRING, defaults : SUBSET STRING]
  <2>1. setting.rotations \in Seq(Rotation)
    BY DEF TypesOK, SettingType
  <2> HIDE DEF Rotation
  <2>2. rot \in Rotation
    BY <1>3, <1>4, <2>1
  <2> QED
    BY <2>2 DEF Rotation
<1> DEFINE able == {i \in DOMAIN q.urls : q.urls[i].kind \in rot.matches}
<1>6. PICK r \in Rotated(q, rot) : Set(p, r)
  BY <1>1, <1>3, <1>4 DEF Rotate
<1>7. CASE r = [q EXCEPT !.rot = q.rot + 1]
  <2>1. /\ r \in ProcType /\ r.pc = "rotate"
        /\ SameToken(q, r) /\ SameProxy(q, r) /\ SameUse(q, r)
    BY <1>1, <1>2, <1>7 DEF ProcType, Pcs, SameToken, SameProxy, SameUse
  <2> QED
    BY <1>1, <1>6, <2>1, SetMoves DEF SameUse
<1>8. CASE r # [q EXCEPT !.rot = q.rot + 1]
  <2>1. PICK answer, d, u, n, key :
          /\ answer \in {{}, rot.answer} /\ n = Nodes(q, rot, answer) /\ d \in [able -> n]
          /\ u = [i \in DOMAIN q.urls |->
                     IF i \in able THEN [q.urls[i] EXCEPT !.door = d[i]] ELSE q.urls[i]]
          /\ key = <<rot.proto, rot.lookup>>
          /\ r = [q EXCEPT !.rot = q.rot + 1, !.nodes = n, !.key = key, !.urls = u]
    <3> DEFINE Door(n, d) ==
                  [q EXCEPT !.rot = @ + 1, !.nodes = n, !.key = <<rot.proto, rot.lookup>>,
                            !.urls = [i \in DOMAIN q.urls |->
                               IF i \in able THEN [q.urls[i] EXCEPT !.door = d[i]]
                               ELSE q.urls[i]]]
    <3>1. r \in UNION {{Door(n, d) : d \in [able -> n]} :
                          n \in {Nodes(q, rot, answer) : answer \in {{}, rot.answer}}}
      BY <1>6, <1>8, Zenon DEF Rotated
    <3> HIDE DEF Door
    <3>2. PICK n \in {Nodes(q, rot, answer) : answer \in {{}, rot.answer}} :
            r \in {Door(n, d) : d \in [able -> n]}
      BY <3>1
    <3>3. PICK d \in [able -> n] : r = Door(n, d)
      BY <3>2
    <3> QED
      BY <3>2, <3>3, Zenon DEF Door
  <2>2. n \in SUBSET STRING
    BY <1>1, <1>5, <2>1 DEF Nodes, ProcType
  <2>3. key \in Keys
    BY <1>5, <2>1 DEF Keys
  <2>4. ASSUME NEW i \in DOMAIN q.urls
        PROVE  /\ u[i] \in Url
               /\ \/ u[i] = q.urls[i]
                  \/ u[i].kind = q.urls[i].kind /\ u[i].kind \in rot.matches /\ u[i].door \in n
    <3>1. q.urls[i] \in Url
      <4> HIDE DEF Url
      <4> QED
        BY <1>2
    <3>2. CASE i \in able
      <4>1. d[i] \in n
        BY <2>1, <3>2
      <4>2. u[i] = [q.urls[i] EXCEPT !.door = d[i]]
        BY <2>1, <3>2
      <4>3. d[i] \in STRING /\ q.urls[i].kind \in rot.matches
        BY <2>2, <3>2, <4>1
      <4> QED
        BY <3>1, <4>1, <4>2, <4>3
    <3>3. CASE i \notin able
      BY <2>1, <3>1, <3>3
    <3> QED
      BY <3>2, <3>3
  <2>5. u \in Seq(Url) /\ DOMAIN u = DOMAIN q.urls
    <3>1. DOMAIN q.urls = 1 .. Len(q.urls) /\ Len(q.urls) \in Nat
      BY <1>2
    <3>2. u \in [1 .. Len(q.urls) -> Url]
      BY <2>1, <2>4, <3>1
    <3> QED
      BY <2>1, <3>1, <3>2, SeqDef
  <2>6. /\ r \in ProcType /\ r.pc = "rotate" /\ SameToken(q, r) /\ SameProxy(q, r)
        /\ r.web = q.web /\ r.first = q.first /\ r.urls = u /\ r.nodes = n /\ r.key = key
    <3>1. PICK m \in Nat \ {0} :
            r = [q EXCEPT !.rot = m, !.nodes = n, !.key = key, !.urls = u]
      BY <1>2, <2>1
    <3>2. u \in Seq([kind : STRING, door : STRING])
      BY <2>5
    <3>3. r \in ProcType
      BY <1>1, <2>2, <2>3, <3>1, <3>2 DEF ProcType
    <3>4. r.urls = u /\ r.nodes = n /\ r.key = key
      BY <1>1, <3>1 DEF ProcType
    <3> QED
      BY <1>1, <3>1, <3>3, <3>4 DEF ProcType, SameToken, SameProxy
  <2>7. \A e \in r.nodes : \E l \in DOMAIN setting.rotations : Offers(l, e, r.key)
    <3>1. answer \in {{}, setting.rotations[k].answer}
      BY <1>4, <2>1
    <3>2. \A e \in Nodes(proc[p], setting.rotations[k], answer) :
             \E l \in DOMAIN setting.rotations :
                Offers(l, e, <<setting.rotations[k].proto, setting.rotations[k].lookup>>)
      BY <3>1, NodesOffered, Zenon
    <3>3. r.nodes = Nodes(proc[p], setting.rotations[k], answer)
      BY <1>1, <1>4, <2>1, <2>6, Zenon
    <3>4. r.key = <<setting.rotations[k].proto, setting.rotations[k].lookup>>
      BY <1>4, <2>1, <2>6
    <3> QED
      BY <3>2, <3>3, <3>4, Zenon
  <2>8. \A i \in DOMAIN r.urls :
            \/ r.urls[i] = q.urls[i]
            \/ /\ r.urls[i].kind = q.urls[i].kind
               /\ r.urls[i].kind \in setting.rotations[k].matches
               /\ r.urls[i].door \in r.nodes
    BY <1>4, <2>4, <2>5, <2>6
  <2>9. /\ DOMAIN r.urls = DOMAIN q.urls
        /\ r.key = <<setting.rotations[k].proto, setting.rotations[k].lookup>>
    BY <1>4, <2>1, <2>5, <2>6
  <2>10. Moves(p, q, r)
    BY <1>1, <1>6, <2>6, SetMoves
  <2> QED
    BY <1>1, <2>6, <2>7, <2>8, <2>9, <2>10, Zenon
<1> QED
  BY <1>7, <1>8

-----------------------------------------------------------------------------
(* The loop of auth_session.sh.                                            *)
Stays(q, r) == SameToken(q, r) /\ SameProxy(q, r) /\ SameUse(q, r)

LEMMA FreshType ==
  ASSUME setting \in SettingType
  PROVE  /\ Fresh \in ProcType
         /\ Fresh.pc = "idle" /\ Fresh.proxied = -1 /\ Fresh.web = -2 /\ Fresh.nodes = {}
         /\ Fresh.urls = setting.urls /\ Fresh.due = 0 /\ Fresh.served = Unset
<1>1. PICK key \in Keys : key = <<"", "">>
  BY DEF Keys
<1>2. PICK given \in TokenFiles \union {Unset}, urls \in Seq([kind : STRING, door : STRING]) :
        given = setting.given /\ urls = setting.urls
  BY DEF SettingType, TokenFiles
<1>3. Fresh = [pc |-> "idle", bearer |-> given, x509 |-> Unset, buf |-> Nothing,
               tfile |-> Unset, pfile |-> Unset, found |-> FALSE, checked |-> 0, proxied |-> -1,
               web |-> Unread, first |-> 0, calls |-> 0, tries |-> 0,
               urls |-> urls, rot |-> 1, nodes |-> {}, key |-> key,
               due |-> 0, served |-> Unset]
  BY <1>1, <1>2, Zenon DEF Fresh
<1>4. Fresh \in ProcType
  BY <1>3 DEF ProcType, Pcs, Unread, Nothing
<1> QED
  BY <1>2, <1>3, <1>4 DEF Unread

LEMMA WakeMoves ==
  ASSUME TypesOK, NEW p \in Procs, Wake(p)
  PROVE  \E r : /\ Moves(p, proc[p], r) /\ proc[p].pc = "sleep" /\ clock >= proc[p].due
                /\ Starts(Fresh, r) /\ r.web < 0 /\ r.nodes = {} /\ r.urls = setting.urls
                /\ r.due = clock + MaxRun /\ r.served = proc[p].served
<1>1. PICK q : q = proc[p] /\ q \in ProcType /\ p \in setting.procs /\ q.pc = "sleep"
               /\ clock >= q.due
  BY DEF TypesOK, Wake, At
<1>2. PICK b : b = Begin(Fresh)
  OBVIOUS
<1>3. b \in ProcType /\ Starts(Fresh, b) /\ SameUse(Fresh, b)
  BY <1>2, BeginStarts, FreshType DEF TypesOK
<1>4. PICK due \in Nat, served \in TokenFiles \union {Unset} :
        due = clock + MaxRun /\ served = q.served
  BY <1>1, TimesAssumption DEF TypesOK, ProcType
<1>5. Set(p, [b EXCEPT !.due = due, !.served = served])
  BY <1>1, <1>2, <1>4 DEF Wake
<1>6. PICK r : r = [b EXCEPT !.due = due, !.served = served] /\ Set(p, r)
  BY <1>5
<1>7. /\ r \in ProcType /\ r.due = due /\ r.served = served
      /\ r.pc = b.pc /\ SameToken(b, r) /\ SameProxy(b, r)
      /\ r.web = b.web /\ r.nodes = b.nodes /\ r.urls = b.urls
  BY <1>3, <1>4, <1>6 DEF ProcType, SameToken, SameProxy
<1>8. Starts(Fresh, r)
  BY <1>3, <1>7 DEF Starts, SameToken, SameProxy
<1>9. r.web < 0 /\ r.nodes = {} /\ r.urls = setting.urls
  BY <1>3, <1>7, FreshType DEF SameUse, TypesOK
<1> QED
  BY <1>1, <1>4, <1>6, <1>7, <1>8, <1>9, SetMoves

LEMMA GoToSleepMoves ==
  ASSUME TypesOK, NEW p \in Procs, GoToSleep(p)
  PROVE  \E r : /\ Moves(p, proc[p], r) /\ proc[p].pc = "end" /\ p \in Sessions
                /\ r.pc = "sleep" /\ r.due = clock + Sleep
                /\ r.served = (IF proc[p].found THEN DefaultTokenFile(proc[p].bearer)
                               ELSE proc[p].served)
                /\ SameToken(proc[p], r) /\ SameProxy(proc[p], r)
                /\ r.web = proc[p].web /\ r.first = proc[p].first
                /\ r.urls = proc[p].urls /\ r.nodes = proc[p].nodes /\ r.key = proc[p].key
<1>1. PICK q : q = proc[p] /\ q \in ProcType /\ p \in setting.procs /\ q.pc = "end"
               /\ p \in Sessions
  BY DEF TypesOK, GoToSleep, At
<1>2. PICK due \in Nat : due = clock + Sleep
  BY TimesAssumption DEF TypesOK
<1>3. PICK served : served = IF q.found THEN DefaultTokenFile(q.bearer) ELSE q.served
  OBVIOUS
<1>4. served \in TokenFiles \union {Unset}
  BY <1>1, <1>3 DEF ProcType, DefaultTokenFile, TokenFiles
<1>5. Set(p, [q EXCEPT !.pc = "sleep", !.due = due, !.served = served])
  BY <1>1, <1>2, <1>3 DEF GoToSleep
<1>6. PICK r : r = [q EXCEPT !.pc = "sleep", !.due = due, !.served = served] /\ Set(p, r)
  BY <1>5
<1>7. /\ r \in ProcType /\ r.pc = "sleep" /\ r.due = due /\ r.served = served
      /\ SameToken(q, r) /\ SameProxy(q, r)
      /\ r.web = q.web /\ r.first = q.first
      /\ r.urls = q.urls /\ r.nodes = q.nodes /\ r.key = q.key
  BY <1>1, <1>4, <1>6 DEF ProcType, Pcs, SameToken, SameProxy
<1> QED
  BY <1>1, <1>2, <1>3, <1>6, <1>7, SetMoves

LEMMA GoneMoves ==
  ASSUME TypesOK, NEW p \in Procs, Gone(p)
  PROVE  \E r : Moves(p, proc[p], r) /\ r.pc = "gone" /\ Stays(proc[p], r)
<1>1. PICK q : /\ q = proc[p] /\ q \in ProcType /\ p \in setting.procs
               /\ Set(p, [q EXCEPT !.pc = "gone"])
  BY DEF TypesOK, Gone, At
<1>2. PICK r : r = [q EXCEPT !.pc = "gone"] /\ Set(p, r)
  BY <1>1
<1>3. r \in ProcType /\ r.pc = "gone" /\ Stays(q, r)
  BY <1>1, <1>2 DEF ProcType, Pcs, Stays, SameToken, SameProxy, SameUse
<1> QED
  BY <1>1, <1>2, <1>3, SetMoves

-----------------------------------------------------------------------------
(* What a step of one process leaves of what the others know               *)

(* Tokens and proxies are only replaced by better ones.                    *)
FilesKept ==
    /\ setting' = setting /\ clock' = clock
    /\ token' \in [TokenFiles -> Tokens]
    /\ \A f \in TokenFiles : token'[f].size = 0 => token'[f].exp = Nothing
    /\ \A f \in TokenFiles : token'[f] = token[f] \/ token'[f].exp = clock + Life
    /\ proxy' \in [ProxyFiles -> [exp : Nat \union {Nothing}, role : BOOLEAN]]
    /\ \A f \in ProxyFiles : proxy'[f].exp = proxy[f].exp \/ proxy'[f].exp > clock

LEMMA DefaultIsFile ==
  ASSUME NEW q \in ProcType
  PROVE  /\ DefaultTokenFile(q.bearer) \in TokenFiles
         /\ q.bearer # Unset => DefaultTokenFile(q.bearer) = q.bearer
BY DEF ProcType, DefaultTokenFile, TokenFiles

LEMMA GoodStays ==
  ASSUME TypesOK, FilesKept, NEW f \in TokenFiles, NEW t \in Nat, t <= clock, Good(f, t)
  PROVE  Good(f, t)'
<1>1. CASE token'[f] = token[f]
  BY <1>1 DEF Good
<1>2. CASE token'[f].exp = clock + Life
  BY <1>2, TimesAssumption DEF Good, TypesOK
<1> QED
  BY <1>1, <1>2 DEF FilesKept

LEMMA LastsStays ==
  ASSUME TypesOK, FilesKept, NEW f \in TokenFiles, NEW due \in Nat, NEW slack \in Nat,
         due <= clock + Life + slack, Lasts(f, due, slack)
  PROVE  Lasts(f, due, slack)'
<1>1. CASE token'[f] = token[f]
  BY <1>1 DEF Lasts
<1>2. CASE token'[f].exp = clock + Life
  BY <1>2, TimesAssumption DEF Lasts, TypesOK, Nothing
<1> QED
  BY <1>1, <1>2 DEF FilesKept

LEMMA CredentialsStay ==
  ASSUME TypesOK, FilesKept, NEW p \in Procs, proc'[p] = proc[p],
         setting.procs # {p}, Credentials(p)
  PROVE  Credentials(p)'
<1>1. PICK q \in ProcType : q = proc[p] /\ q = proc'[p]
  BY DEF TypesOK
<1>2. setting' = setting /\ clock' = clock
  BY DEF FilesKept
<1>3. Placed(p)'
  BY <1>1, <1>2 DEF Credentials, Placed
<1>4. ASSUME TokenFound(p) PROVE TokenFound(p)'
  <2>1. PICK f \in TokenFiles : f = DefaultTokenFile(q.bearer)
    BY <1>1, DefaultIsFile
  <2>2. q.checked \in Nat
    BY <1>1 DEF ProcType
  <2>3. q.checked <= clock /\ Good(f, q.checked) => Good(f, q.checked)'
    BY <2>1, <2>2, GoodStays
  <2> QED
    BY <1>1, <1>2, <1>4, <2>1, <2>3 DEF TokenFound
<1>5. ASSUME WebGood(p) PROVE WebGood(p)'
  BY <1>1, <1>2, <1>5 DEF WebGood
<1>6. ASSUME ProxyFound(p) PROVE ProxyFound(p)'
  <2>1. q.x509 # Unset => q.x509 \in ProxyFiles
    BY <1>1 DEF ProcType
  <2>2. ASSUME q.proxied >= 0
        PROVE  /\ q.proxied <= clock /\ q.x509 # Unset
               /\ proxy'[q.x509].exp > q.proxied
    <3>1. q.proxied <= clock /\ q.x509 # Unset /\ proxy[q.x509].exp > q.proxied
      BY <1>1, <1>6, <2>2 DEF ProxyFound
    <3>2. proxy'[q.x509].exp = proxy[q.x509].exp \/ proxy'[q.x509].exp > clock
      BY <2>1, <3>1 DEF FilesKept
    <3>3. proxy'[q.x509].exp \in Int /\ clock \in Int /\ q.proxied \in Int
      BY <1>1, <2>1, <3>1 DEF FilesKept, TypesOK, ProcType, Nothing
    <3> QED
      BY <3>1, <3>2, <3>3
  <2> QED
    BY <1>1, <1>2, <1>6, <2>2 DEF ProxyFound
<1> QED
  BY <1>2, <1>3, <1>4, <1>5, <1>6 DEF Credentials

LEMMA DoorsStay ==
  ASSUME TypesOK, FilesKept, NEW p \in Procs, proc'[p] = proc[p], NodesOK(p), UrlsOK(p)
  PROVE  NodesOK(p)' /\ UrlsOK(p)'
BY DEF FilesKept, NodesOK, UrlsOK, Offers

LEMMA SessionStays ==
  ASSUME TypesOK, FilesKept, NEW s \in Procs, proc'[s] = proc[s], Session(s)
  PROVE  Session(s)'
<1>1. PICK q \in ProcType : q = proc[s] /\ q = proc'[s]
  BY DEF TypesOK
<1>2. setting' = setting /\ clock' = clock /\ clock \in Nat
  BY DEF FilesKept, TypesOK
<1>3. InTime(s)'
  BY <1>1, <1>2 DEF Session, InTime
<1>4. ASSUME Served(s) PROVE Served(s)'
  <2>1. SUFFICES ASSUME setting.tokens, setting.up, q.served # Unset, q.pc # "gone"
                 PROVE  /\ s \in setting.procs
                        /\ Lasts(q.served, q.due, IF q.pc = "sleep" THEN MaxRun ELSE 2 * MaxRun)'
    BY <1>1, <1>2 DEF Served
  <2>2. PICK slack \in Nat : slack = IF q.pc = "sleep" THEN MaxRun ELSE 2 * MaxRun
    BY TimesAssumption
  <2>3. s \in setting.procs /\ Lasts(q.served, q.due, slack)
    BY <1>1, <1>4, <2>1, <2>2 DEF Served
  <2>4. q.due \in Nat /\ q.served \in TokenFiles
    BY <1>1, <2>1 DEF ProcType
  <2>5. q.due <= clock + Life + slack
    BY <1>1, <1>2, <2>1, <2>2, <2>3, <2>4, TimesAssumption DEF Session, InTime
  <2> QED
    BY <2>2, <2>3, <2>4, <2>5, LastsStays
<1> QED
  BY <1>2, <1>3, <1>4 DEF Session

-----------------------------------------------------------------------------
(* What the process itself keeps                                           *)
LEMMA NothingWritten ==
  ASSUME TypesOK, UNCHANGED <<setting, clock, token, proxy>>
  PROVE  FilesKept
BY DEF TypesOK, FilesKept

LEMMA KeepsDoors ==
  ASSUME FilesKept, NEW p, NEW q, NEW r, Moves(p, q, r), TypesOK, NodesOK(p), UrlsOK(p)
  PROVE  /\ r.urls = q.urls \/ r.urls = setting.urls => UrlsOK(p)'
         /\ r.nodes = {} \/ (r.nodes = q.nodes /\ r.key = q.key) => NodesOK(p)'
<1>1. proc'[p] = r /\ q = proc[p] /\ setting' = setting
  BY DEF Moves, TypesOK, FilesKept
<1>2. ASSUME r.urls = q.urls PROVE UrlsOK(p)'
  BY <1>1, <1>2 DEF UrlsOK, Offers
<1>3. ASSUME r.urls = setting.urls PROVE UrlsOK(p)'
  BY <1>1, <1>3 DEF UrlsOK
<1>4. ASSUME r.nodes = {} PROVE NodesOK(p)'
  BY <1>1, <1>4 DEF NodesOK
<1>5. ASSUME r.nodes = q.nodes, r.key = q.key PROVE NodesOK(p)'
  BY <1>1, <1>5 DEF NodesOK, Offers
<1> QED
  BY <1>2, <1>3, <1>4, <1>5

LEMMA KeepsSession ==
  ASSUME TypesOK, FilesKept, NEW p, NEW q, NEW r, Moves(p, q, r), Session(p),
         q.pc \notin {"sleep", "gone"}, r.pc \notin {"sleep", "gone"},
         r.due = q.due, r.served = q.served,
         setting.tokens /\ setting.up /\ r.pc = "end" => r.checked = clock
  PROVE  Session(p)'
<1>1. /\ proc'[p] = r /\ q = proc[p] /\ q \in ProcType /\ p \in setting.procs
      /\ setting' = setting /\ clock' = clock /\ clock \in Nat
  BY DEF Moves, TypesOK, FilesKept
<1>2. clock <= q.due /\ q.due <= clock + MaxRun /\ q.due \in Nat
  BY <1>1 DEF Session, InTime, ProcType
<1>3. InTime(p)'
  BY <1>1, <1>2 DEF InTime
<1>4. ASSUME Served(p) PROVE Served(p)'
  <2>1. SUFFICES ASSUME setting.tokens, setting.up, q.served # Unset
                 PROVE  Lasts(q.served, q.due, 2 * MaxRun)'
    BY <1>1 DEF Served
  <2>2. Lasts(q.served, q.due, 2 * MaxRun) /\ q.served \in TokenFiles
    BY <1>1, <1>4, <2>1 DEF Served, ProcType
  <2>3. PICK slack \in Nat : slack = 2 * MaxRun /\ q.due <= clock + Life + slack
    BY <1>1, <1>2, TimesAssumption
  <2> QED
    BY <1>2, <2>2, <2>3, LastsStays
<1> QED
  BY <1>1, <1>3, <1>4 DEF Session

(* A step of p keeps the invariant if it keeps what is said of p.          *)
LEMMA OneActs ==
  ASSUME Inv, FilesKept, NEW p, NEW q, NEW r, Moves(p, q, r),
         Credentials(p)', NodesOK(p)', UrlsOK(p)', p \in Sessions => Session(p)'
  PROVE  Inv'
<1>1. TypesOK'
  BY DEF Inv, TypesOK, FilesKept, Moves
<1>2. p \in Procs /\ p \in setting.procs
  BY DEF Moves
<1>3. \A o \in Procs \ {p} : proc'[o] = proc[o] /\ setting.procs # {o}
  BY <1>2 DEF Inv, TypesOK, Moves
<1>4. ASSUME NEW o \in Procs \ {p} PROVE (Credentials(o) /\ NodesOK(o) /\ UrlsOK(o))'
  BY <1>3, CredentialsStay, DoorsStay DEF Inv
<1>5. ASSUME NEW o \in Sessions \ {p} PROVE Session(o)'
  BY <1>3, TimesAssumption, SessionStays DEF Inv
<1> QED
  BY <1>1, <1>2, <1>4, <1>5 DEF Inv

(* Within get_grid_credentials_if_needed.                                  *)
LEMMA Checks ==
  ASSUME Inv, FilesKept, NEW p, NEW q, NEW r, Moves(p, q, r), SameUse(q, r),
         q.pc \in Checking, r.pc \in Checking, r.tfile = q.tfile, r.pfile = q.pfile,
         r.pc \in {"proxy1", "proxy2", "kx509", "voms"} => setting.proxies,
         r.pc \in {"token1", "token2", "fetch"} => setting.tokens,
         setting.tokens /\ setting.up /\ r.pc = "end" => r.checked = clock,
         setting.forks => TokenFound(p)' /\ ProxyFound(p)'
  PROVE  Inv'
<1>1. /\ proc'[p] = r /\ q = proc[p] /\ p \in Procs
      /\ setting' = setting
  BY DEF Moves, Inv, TypesOK, FilesKept
<1>2. Credentials(p) /\ NodesOK(p) /\ UrlsOK(p) /\ TypesOK
  BY <1>1 DEF Inv
<1>3. Placed(p)'
  BY <1>1, <1>2 DEF Placed, Credentials, Checking
<1>4. setting.forks => WebGood(p)'
  BY <1>1, <1>2 DEF WebGood, Credentials, SameUse
<1>5. UrlsOK(p)' /\ NodesOK(p)'
  BY <1>2, KeepsDoors DEF SameUse
<1>6. p \in Sessions => Session(p)'
  BY <1>2, KeepsSession DEF Inv, SameUse, Checking
<1>7. Credentials(p)'
  BY <1>1, <1>3, <1>4 DEF Credentials
<1> QED
  BY <1>5, <1>6, <1>7, OneActs

(* While proxies are looked at nothing is known of the token.              *)
LEMMA NoTokenYet ==
  ASSUME TypesOK, FilesKept, NEW p, NEW q, NEW r, Moves(p, q, r), setting.proxies,
         r.pc \in {"proxy2", "kx509", "voms", AfterProxies}
  PROVE  TokenFound(p)'
<1>1. proc'[p] = r /\ setting' = setting
  BY DEF Moves, TypesOK, FilesKept
<1>2. r.pc \notin {"token2", "fetch"} /\ (setting.tokens => r.pc # "end")
  BY DEF AfterProxies
<1> QED
  BY <1>1, <1>2 DEF TokenFound

(* Afterwards the proxy stays what it was found to be.                     *)
LEMMA ProxyStays ==
  ASSUME TypesOK, FilesKept, NEW p, NEW q, NEW r, Moves(p, q, r), SameProxy(q, r),
         ProxyFound(p), proxy' = proxy, r.pc \notin {"proxy1", "proxy2", "kx509", "voms"}
  PROVE  ProxyFound(p)'
<1>1. proc'[p] = r /\ proc[p] = q /\ setting' = setting /\ clock' = clock
  BY DEF Moves, TypesOK, FilesKept
<1> QED
  BY <1>1 DEF ProxyFound, SameProxy

-----------------------------------------------------------------------------
(* The steps of get_grid_credentials_if_needed keep the invariant          *)
LEMMA CheckedProxy ==
  ASSUME TypesOK, NEW p, NEW q, NEW r, Moves(p, q, r), ChecksProxies(q, r), ProxyFound(p),
         q.pc \in {"proxy1", "proxy2"}, r.proxied >= 0
  PROVE  /\ r.proxied <= clock /\ r.x509 # Unset
         /\ proxy[r.x509].exp > r.proxied
         /\ setting.procs = {p} => proxy[r.x509].exp - r.proxied >= ProxyLeft
         /\ q.pc = "proxy1" => r.x509 = r.pfile
<1>1. /\ q = proc[p] /\ clock \in Nat /\ ProxyLeft \in Nat \ {0} /\ r \in ProcType
      /\ q \in ProcType
  BY TimesAssumption DEF Moves, TypesOK
<1>2. ASSUME r.x509 = (IF q.x509 = Unset THEN "plain" ELSE q.x509), r.x509 # Unset,
             r.proxied = clock, proxy[r.x509].exp - clock >= ProxyLeft
      PROVE  /\ r.proxied <= clock /\ r.x509 # Unset
             /\ proxy[r.x509].exp > r.proxied
             /\ proxy[r.x509].exp - r.proxied >= ProxyLeft
             /\ q.pc = "proxy1" => r.x509 = r.pfile
  <2>1. r.x509 \in ProxyFiles
    BY <1>1, <1>2 DEF ProcType
  <2>2. proxy[r.x509].exp \in Int
    BY <2>1 DEF TypesOK, Nothing
  <2>3. q.pc = "proxy1" => r.x509 = r.pfile
    BY <1>1, <1>2 DEF ProxyFound, ChecksProxies
  <2> QED
    BY <1>1, <1>2, <2>2, <2>3
<1>3. ASSUME r.proxied = q.proxied, r.x509 = q.x509 \/ q.pc = "proxy1"
      PROVE  /\ r.proxied <= clock /\ r.x509 # Unset
             /\ proxy[r.x509].exp > r.proxied
             /\ setting.procs = {p} => proxy[r.x509].exp - r.proxied >= ProxyLeft
             /\ q.pc = "proxy1" => r.x509 = r.pfile
  <2>1. q.pc # "proxy1"
    BY <1>1, <1>3 DEF ProxyFound
  <2> QED
    BY <1>1, <1>3, <2>1 DEF ProxyFound
<1> QED
  BY <1>2, <1>3 DEF ChecksProxies

LEMMA Proxy1Step ==
  ASSUME Inv, NEW p \in Procs, Proxy1(p)
  PROVE  Inv'
<1>1. TypesOK /\ FilesKept /\ proxy' = proxy /\ Credentials(p)
  BY NothingWritten DEF Inv, Proxy1
<1>2. PICK q, r : /\ q = proc[p] /\ Moves(p, q, r) /\ ChecksProxies(q, r)
                  /\ q.pc = "proxy1" /\ r.pc = "proxy2" /\ r.tfile = q.tfile
  BY <1>1, Proxy1Moves
<1>3. setting.proxies /\ TokenFound(p)'
  BY <1>1, <1>2, NoTokenYet DEF Credentials, Placed
<1>4. setting.forks => ProxyFound(p)'
  <2>1. proc'[p] = r /\ setting' = setting /\ clock' = clock
    BY <1>1, <1>2 DEF Moves, TypesOK, FilesKept
  <2> QED
    BY <1>1, <1>2, <2>1, CheckedProxy DEF ProxyFound, Credentials
<1> QED
  BY <1>1, <1>2, <1>3, <1>4, Checks DEF ChecksProxies, Checking

LEMMA Proxy2Step ==
  ASSUME Inv, NEW p \in Procs, Proxy2(p)
  PROVE  Inv'
<1>1. TypesOK /\ FilesKept /\ proxy' = proxy /\ Credentials(p)
  BY NothingWritten DEF Inv, Proxy2
<1>2. PICK q, r : /\ q = proc[p] /\ Moves(p, q, r) /\ ChecksProxies(q, r)
                  /\ q.pc = "proxy2" /\ r.pc \in {"kx509", AfterProxies}
                  /\ setting.forks /\ r.pc = "kx509" => SameProxy(q, r)
  BY <1>1, Proxy2Moves
<1>3. setting.proxies /\ TokenFound(p)'
  BY <1>1, <1>2, NoTokenYet DEF Credentials, Placed
<1>4. setting.forks => ProxyFound(p)'
  <2>1. proc'[p] = r /\ setting' = setting /\ clock' = clock /\ proc[p] = q
    BY <1>1, <1>2 DEF Moves, TypesOK, FilesKept
  <2>3. r.pc \notin {"proxy1", "proxy2", "voms"}
    BY <1>2 DEF AfterProxies
  <2>4. ASSUME setting.forks, r.proxied >= 0
        PROVE  /\ r.proxied <= clock /\ r.x509 # Unset
               /\ proxy[r.x509].exp > r.proxied
               /\ setting.procs = {p} => proxy[r.x509].exp - r.proxied >= ProxyLeft
    BY <1>1, <1>2, <2>4, CheckedProxy DEF Credentials
  <2>5. setting.forks /\ r.pc = "kx509" /\ r.proxied >= 0 => r.x509 = r.pfile
    BY <1>1, <1>2, <2>1 DEF ProxyFound, Credentials, SameProxy
  <2> QED
    BY <1>1, <2>1, <2>3, <2>4, <2>5 DEF ProxyFound
<1>5. /\ r.pc \in Checking /\ SameUse(q, r) /\ r.tfile = q.tfile /\ r.pfile = q.pfile
      /\ r.pc \in {"token1", "token2", "fetch"} => setting.tokens
      /\ setting.tokens => r.pc # "end"
  BY <1>2 DEF AfterProxies, Checking, ChecksProxies, SameToken
<1> QED
  BY <1>1, <1>2, <1>3, <1>4, <1>5, Checks DEF Checking

(* A renewed proxy is written to the file that was found, or another.      *)
LEMMA Kx509Step ==
  ASSUME Inv, NEW p \in Procs, Kx509(p)
  PROVE  Inv'
<1>1. TypesOK /\ Credentials(p) /\ UNCHANGED <<setting, clock, token>>
  BY DEF Inv, Kx509
<1>2. PICK q, r : /\ q = proc[p] /\ Moves(p, q, r) /\ q.pc = "kx509" /\ r.pc = "voms"
                  /\ SameToken(q, r) /\ SameProxy(q, r) /\ SameUse(q, r)
  BY <1>1, Kx509Moves
<1>3. \/ proxy' = proxy
      \/ proxy' = [proxy EXCEPT ![q.pfile] = [exp |-> clock + Life, role |-> FALSE]]
  BY <1>1, <1>2, Kx509Moves
<1>4. q.pfile \in ProxyFiles /\ setting.proxies
  BY <1>1, <1>2 DEF Credentials, Placed, Moves, ProcType, Checking
<1>5. clock \in Nat /\ clock + Life \in Nat /\ clock + Life > clock /\ ProxyLeft <= Life
  BY <1>1, TimesAssumption DEF TypesOK
<1>6. /\ proxy' \in [ProxyFiles -> [exp : Nat \union {Nothing}, role : BOOLEAN]]
      /\ \A f \in ProxyFiles : \/ proxy'[f].exp = proxy[f].exp
                              \/ (f = q.pfile /\ proxy'[f].exp = clock + Life)
  <2>1. PICK new : new = [exp |-> clock + Life, role |-> FALSE]
    OBVIOUS
  <2>2. new \in [exp : Nat \union {Nothing}, role : BOOLEAN] /\ new.exp = clock + Life
    BY <1>5, <2>1
  <2>3. proxy' = proxy \/ proxy' = [proxy EXCEPT ![q.pfile] = new]
    BY <1>3, <2>1
  <2> QED
    BY <1>1, <1>4, <2>2, <2>3 DEF TypesOK
<1>7. FilesKept
  BY <1>1, <1>5, <1>6 DEF FilesKept, TypesOK
<1>8. TokenFound(p)'
  BY <1>1, <1>2, <1>4, <1>7, NoTokenYet
<1>9. setting.forks => ProxyFound(p)'
  <2>1. proc'[p] = r /\ setting' = setting /\ clock' = clock /\ proc[p] = q
    BY <1>1, <1>2 DEF Moves, TypesOK
  <2>2. /\ q.proxied \in Nat \union {-1}
        /\ q.x509 # Unset => q.x509 \in ProxyFiles
        /\ ProxyLeft \in Nat
    BY <1>2, TimesAssumption DEF Moves, ProcType
  <2>3. ASSUME setting.forks, q.proxied >= 0
        PROVE  /\ q.proxied <= clock /\ q.x509 # Unset /\ q.x509 = q.pfile
               /\ proxy'[q.x509].exp > q.proxied
               /\ setting.procs = {p} => proxy'[q.x509].exp - q.proxied >= ProxyLeft
    <3>1. /\ q.proxied <= clock /\ q.x509 # Unset /\ q.x509 = q.pfile
          /\ proxy[q.x509].exp > q.proxied
          /\ setting.procs = {p} => proxy[q.x509].exp - q.proxied >= ProxyLeft
      BY <1>1, <1>2, <2>1, <2>3 DEF ProxyFound, Credentials
    <3>2. q.x509 \in ProxyFiles
      BY <2>2, <3>1
    <3>3. PICK x, y : /\ x = proxy[q.x509].exp /\ y = proxy'[q.x509].exp
                      /\ x = y \/ y = clock + Life
      BY <1>6, <3>2
    <3>4. ProxyLeft \in Nat /\ Life \in Nat /\ q.proxied \in Nat
      BY <2>2, <2>3, TimesAssumption
    <3>5. y > q.proxied /\ (setting.procs = {p} => y - q.proxied >= ProxyLeft)
      BY <1>5, <3>1, <3>3, <3>4
    <3> QED
      BY <3>1, <3>3, <3>5
  <2> QED
    BY <1>2, <2>1, <2>3 DEF ProxyFound, SameProxy
<1> QED
  BY <1>2, <1>4, <1>7, <1>8, <1>9, Checks DEF Checking, SameToken, SameProxy

(* The proxy with a role lasts as long as the one it is made from.         *)
LEMMA VomsStep ==
  ASSUME Inv, NEW p \in Procs, Voms(p)
  PROVE  Inv'
<1>1. TypesOK /\ Credentials(p) /\ UNCHANGED <<setting, clock, token>>
  BY DEF Inv, Voms
<1>2. PICK q, r : /\ q = proc[p] /\ Moves(p, q, r) /\ q.pc = "voms" /\ r.pc = AfterProxies
                  /\ r.bearer = q.bearer /\ r.tfile = q.tfile
                  /\ SameProxy(q, r) /\ SameUse(q, r)
  BY <1>1, VomsMoves
<1>3. \/ proxy' = proxy
      \/ /\ proxy[q.pfile].exp > clock
         /\ proxy' = [proxy EXCEPT !["voms"] = [exp |-> proxy[q.pfile].exp, role |-> TRUE]]
  BY <1>1, <1>2, VomsMoves
<1>4. q.pfile \in ProxyFiles /\ "voms" \in ProxyFiles /\ setting.proxies
  BY <1>1, <1>2 DEF Credentials, Placed, Moves, ProcType, Checking, ProxyFiles
<1>5. clock \in Nat /\ proxy[q.pfile].exp \in Nat \union {Nothing}
  BY <1>1, <1>4 DEF TypesOK
<1>6. /\ proxy' \in [ProxyFiles -> [exp : Nat \union {Nothing}, role : BOOLEAN]]
      /\ \A f \in ProxyFiles :
            \/ proxy'[f].exp = proxy[f].exp
            \/ (/\ f = "voms" /\ proxy'[f].exp = proxy[q.pfile].exp
                /\ proxy[q.pfile].exp > clock)
  <2>1. PICK new : new = [exp |-> proxy[q.pfile].exp, role |-> TRUE]
    OBVIOUS
  <2>2. /\ new \in [exp : Nat \union {Nothing}, role : BOOLEAN]
        /\ new.exp = proxy[q.pfile].exp
    BY <1>5, <2>1
  <2>3. \/ proxy' = proxy
        \/ (proxy[q.pfile].exp > clock /\ proxy' = [proxy EXCEPT !["voms"] = new])
    BY <1>3, <2>1
  <2> QED
    BY <1>1, <1>4, <2>2, <2>3 DEF TypesOK
<1>7. FilesKept
  BY <1>1, <1>5, <1>6 DEF FilesKept, TypesOK
<1>8. TokenFound(p)'
  BY <1>1, <1>2, <1>4, <1>7, NoTokenYet
<1>9. setting.forks => ProxyFound(p)'
  <2>1. proc'[p] = r /\ setting' = setting /\ clock' = clock /\ proc[p] = q
    BY <1>1, <1>2 DEF Moves, TypesOK
  <2>2. ASSUME setting.forks, q.proxied >= 0
        PROVE  proxy'[q.x509].exp = proxy[q.x509].exp /\ q.x509 = q.pfile
    <3>1. q.x509 = q.pfile
      BY <1>1, <1>2, <2>1, <2>2 DEF ProxyFound, Credentials
    <3> QED
      BY <1>4, <1>6, <3>1
  <2>3. r.pc \notin {"proxy1", "proxy2", "kx509", "voms"}
    BY <1>2 DEF AfterProxies
  <2> QED
    BY <1>1, <1>2, <2>1, <2>2, <2>3 DEF ProxyFound, SameProxy, Credentials
<1>10. /\ r.pc \in Checking
       /\ r.pc \in {"token1", "token2", "fetch"} => setting.tokens
       /\ setting.tokens => r.pc # "end"
  BY <1>2 DEF AfterProxies, Checking
<1> QED
  BY <1>2, <1>4, <1>7, <1>8, <1>9, <1>10, Checks DEF Checking, SameProxy

LEMMA Token1Step ==
  ASSUME Inv, NEW p \in Procs, Token1(p)
  PROVE  Inv'
<1>1. TypesOK /\ FilesKept /\ proxy' = proxy /\ Credentials(p)
  BY NothingWritten DEF Inv, Token1
<1>2. proc[p].pc = "token1" /\ proc[p].tfile # Unset
  BY <1>1 DEF Token1, At, Credentials, Placed, Checking
<1>3. PICK q, r : /\ q = proc[p] /\ Moves(p, q, r) /\ q.pc = "token1" /\ r.pc = "token2"
                  /\ r.tfile = q.tfile /\ r.found = q.found /\ r.checked = q.checked
                  /\ SameProxy(q, r) /\ SameUse(q, r)
                  /\ setting.forks /\ r.bearer = Unset => clock >= setting.ticket
  BY <1>1, <1>2, Token1Moves
<1>4. proc'[p] = r /\ setting' = setting /\ clock' = clock /\ proc[p] = q
  BY <1>1, <1>3 DEF Moves, TypesOK, FilesKept
<1>5. setting.forks => TokenFound(p)'
  BY <1>1, <1>3, <1>4 DEF TokenFound, Credentials
<1>6. setting.forks => ProxyFound(p)'
  BY <1>1, <1>3, ProxyStays DEF Credentials
<1>7. setting.tokens
  BY <1>1, <1>2 DEF Credentials, Placed
<1> QED
  BY <1>1, <1>3, <1>5, <1>6, <1>7, Checks DEF SameProxy, Checking

LEMMA Token2Step ==
  ASSUME Inv, NEW p \in Procs, Token2(p)
  PROVE  Inv'
<1>1. /\ TypesOK /\ FilesKept /\ proxy' = proxy /\ token' = token
      /\ clock \in Nat /\ Credentials(p)
  BY NothingWritten DEF Inv, Token2, TypesOK
<1>2. PICK q, r : /\ q = proc[p] /\ Moves(p, q, r) /\ q.pc = "token2"
                  /\ r.tfile = q.tfile /\ r.checked = clock
                  /\ SameProxy(q, r) /\ SameUse(q, r)
                  /\ setting.forks =>
                        \/ /\ r.pc = "end" /\ r.found
                           /\ r.bearer # Unset /\ Good(r.bearer, clock)
                        \/ /\ r.pc = "fetch" /\ r.found = q.found
                           /\ r.bearer = Unset => q.bearer = Unset
                  /\ r.pc \in {"end", "fetch"}
  BY <1>1, Token2Moves
<1>3. proc'[p] = r /\ setting' = setting /\ clock' = clock /\ proc[p] = q
  BY <1>1, <1>2 DEF Moves, TypesOK, FilesKept
<1>4. setting.tokens
  BY <1>1, <1>2 DEF Credentials, Placed
<1>5. ASSUME setting.forks PROVE TokenFound(p)'
  <2>1. CASE /\ r.pc = "end" /\ r.found
             /\ r.bearer # Unset /\ Good(r.bearer, clock)
    <3>1. Good(DefaultTokenFile(r.bearer), r.checked)'
      <4>1. PICK f, t : f = r.bearer /\ t = clock /\ Good(f, t)
        BY <2>1
      <4>2. Good(f, t)'
        BY <1>1, <4>1 DEF Good
      <4>3. f = DefaultTokenFile(r.bearer) /\ t = r.checked
        BY <1>2, <2>1, <4>1 DEF DefaultTokenFile
      <4> QED
        BY <4>2, <4>3 DEF Good
    <3> QED
      <4>1. r.checked <= clock' /\ r.bearer # Unset /\ r.found /\ r.pc = "end"
        BY <1>1, <1>2, <1>3, <2>1
      <4> QED
        BY <1>3, <1>4, <3>1, <4>1 DEF TokenFound
  <2>2. CASE /\ r.pc = "fetch" /\ r.found = q.found
             /\ r.bearer = Unset => q.bearer = Unset
    BY <1>1, <1>2, <1>3, <1>5, <2>2 DEF TokenFound, Credentials
  <2> QED
    BY <1>2, <1>5, <2>1, <2>2
<1>6. setting.forks => ProxyFound(p)'
  BY <1>1, <1>2, ProxyStays DEF Credentials
<1> QED
  BY <1>1, <1>2, <1>4, <1>5, <1>6, Checks DEF SameProxy, Checking

(* htgettoken leaves a token alone only if it has enough left.             *)
LEMMA FetchKeeps ==
  ASSUME TypesOK, NEW f \in TokenFiles, token' = [token EXCEPT ![f] = Renewed(@)],
         UNCHANGED <<setting, clock, proxy>>
  PROVE  FilesKept /\ Good(f, clock)'
<1>1. /\ clock \in Nat /\ clock + Life \in Nat /\ token[f] \in Tokens
      /\ MinLeft \in Nat /\ clock + Life >= clock + MinLeft
  BY TimesAssumption DEF TypesOK
<1>2. PICK new : new = [size |-> 1000, exp |-> clock + Life]
  OBVIOUS
<1>3. new \in Tokens /\ new.size = 1000 /\ new.exp = clock + Life
  BY <1>1, <1>2 DEF Tokens
<1>4. PICK x : x = Renewed(token[f])
  OBVIOUS
<1>5. x = new \/ (x = token[f] /\ x.exp - clock >= MinLeft)
  BY <1>2, <1>4 DEF Renewed
<1>6. token' = [token EXCEPT ![f] = x]
  BY <1>4
<1>7. token[f].exp \in Int
  BY <1>1 DEF Tokens, Nothing
<1>8. /\ token' \in [TokenFiles -> Tokens] /\ token'[f] = x
      /\ \A g \in TokenFiles \ {f} : token'[g] = token[g]
  BY <1>1, <1>3, <1>5, <1>6 DEF TypesOK
<1>9. FilesKept
  BY <1>3, <1>5, <1>8 DEF FilesKept, TypesOK
<1>10. token'[f].exp >= clock + MinLeft
  BY <1>1, <1>3, <1>5, <1>7, <1>8
<1> QED
  BY <1>9, <1>10 DEF Good

LEMMA FetchStep ==
  ASSUME Inv, NEW p \in Procs, Fetch(p)
  PROVE  Inv'
<1>1. /\ TypesOK /\ proxy' = proxy /\ UNCHANGED <<setting, clock>>
      /\ clock \in Nat /\ Credentials(p)
  BY DEF Inv, Fetch, TypesOK
<1>2. PICK q, r : /\ q = proc[p] /\ Moves(p, q, r) /\ q.pc = "fetch" /\ r.pc = "end"
                  /\ r.bearer = q.bearer /\ r.tfile = q.tfile
                  /\ SameProxy(q, r) /\ SameUse(q, r)
                  /\ \/ /\ r.found /\ r.checked = clock
                        /\ token' = [token EXCEPT ![DefaultTokenFile(r.bearer)] = Renewed(@)]
                     \/ /\ ~setting.up /\ token' = token
                        /\ r.found = q.found
  BY <1>1, FetchMoves
<1>3. PICK f \in TokenFiles : f = DefaultTokenFile(r.bearer)
  BY <1>2, DefaultIsFile DEF Moves
<1>4. FilesKept
  <2>1. CASE token' = token
    BY <1>1, <2>1, NothingWritten
  <2>2. CASE token' = [token EXCEPT ![f] = Renewed(@)]
    BY <1>1, <2>2, FetchKeeps
  <2> QED
    BY <1>2, <1>3, <2>1, <2>2
<1>5. proc'[p] = r /\ proc[p] = q
  BY <1>1, <1>2 DEF Moves, TypesOK
<1>6. setting.tokens
  BY <1>1, <1>2 DEF Credentials, Placed
<1>7. ASSUME setting.forks PROVE TokenFound(p)'
  <2>1. TokenFound(p)
    BY <1>1, <1>7 DEF Credentials
  <2>2. r.bearer = Unset => clock >= setting.ticket
    BY <1>2, <2>1 DEF TokenFound
  <2>3. CASE /\ r.found /\ r.checked = clock
             /\ token' = [token EXCEPT ![f] = Renewed(@)]
    <3>1. Good(f, clock)'
      BY <1>1, <2>3, FetchKeeps
    <3>2. Good(DefaultTokenFile(r.bearer), r.checked)'
      BY <1>1, <1>3, <2>3, <3>1 DEF Good
    <3> QED
      BY <1>1, <1>2, <1>5, <1>6, <2>2, <2>3, <3>2 DEF TokenFound
  <2>4. CASE ~setting.up /\ token' = token /\ r.found = q.found
    BY <1>1, <1>2, <1>5, <1>6, <2>1, <2>4 DEF TokenFound
  <2> QED
    BY <1>2, <1>3, <2>3, <2>4
<1>8. setting.forks => ProxyFound(p)'
  BY <1>1, <1>2, <1>4, ProxyStays DEF Credentials
<1>9. setting.up => r.checked = clock
  BY <1>2
<1> QED
  BY <1>1, <1>2, <1>4, <1>6, <1>7, <1>8, <1>9, Checks DEF SameProxy, Checking

-----------------------------------------------------------------------------
(* The steps before and after it                                           *)

(* Nothing is known of credentials before they are looked at.              *)
LEMMA Begins ==
  ASSUME Inv, FilesKept, NEW p, NEW q, NEW r, Moves(p, q, r), NEW x, Starts(x, r),
         r.web < 0 \/ (r.web = q.web /\ r.first = q.first),
         r.nodes = {} \/ (r.nodes = q.nodes /\ r.key = q.key),
         r.urls = q.urls \/ r.urls = setting.urls,
         p \in Sessions => Session(p)'
  PROVE  Inv'
<1>1. /\ proc'[p] = r /\ q = proc[p] /\ p \in Procs /\ r \in ProcType
      /\ setting' = setting /\ TypesOK
  BY DEF Moves, Inv, TypesOK, FilesKept
<1>2. Credentials(p) /\ NodesOK(p) /\ UrlsOK(p)
  BY <1>1 DEF Inv
<1>3. /\ r.pc = "proxy1" => setting.proxies
      /\ r.pc = "token1" => setting.tokens
      /\ r.pc = "end" => ~setting.tokens
      /\ r.pc \in {"proxy1", "token1", "end"}
      /\ r.tfile # Unset /\ r.pfile # Unset
      /\ r.pfile = (IF r.x509 = Unset THEN "plain" ELSE r.x509)
      /\ r.found = FALSE /\ r.proxied = -1
  BY DEF Starts
<1>4. Placed(p)'
  BY <1>1, <1>3 DEF Placed
<1>5. TokenFound(p)'
  BY <1>1, <1>3 DEF TokenFound
<1>6. ProxyFound(p)'
  BY <1>1, <1>3 DEF ProxyFound
<1>7. setting.forks => WebGood(p)'
  <2>1. r.web \in Int
    BY <1>1 DEF ProcType
  <2> QED
    BY <1>1, <1>2, <2>1 DEF WebGood, Credentials
<1>8. Credentials(p)'
  BY <1>1, <1>4, <1>5, <1>6, <1>7 DEF Credentials
<1>9. UrlsOK(p)' /\ NodesOK(p)'
  BY <1>1, <1>2, KeepsDoors
<1> QED
  BY <1>8, <1>9, OneActs

(* When they have been looked at only what was kept of them counts.        *)
LEMMA Uses ==
  ASSUME Inv, UNCHANGED <<setting, clock, token, proxy>>,
         NEW p, NEW q, NEW r, Moves(p, q, r),
         SameProxy(q, r), r.pc \in {"idle", "rotate", "sleep", "gone"},
         setting.forks => WebGood(p)', NodesOK(p)', UrlsOK(p)',
         p \in Sessions => r.pc \in {"sleep", "gone"} /\ Session(p)'
  PROVE  Inv'
<1>1. TypesOK /\ FilesKept
  BY NothingWritten DEF Inv
<1>2. /\ proc'[p] = r /\ q = proc[p] /\ p \in Procs
      /\ setting' = setting /\ Credentials(p)
  BY <1>1 DEF Moves, Inv, TypesOK
<1>3. Placed(p)'
  BY <1>2 DEF Placed, Checking
<1>4. TokenFound(p)'
  BY <1>2 DEF TokenFound
<1>5. setting.forks => ProxyFound(p)'
  BY <1>1, <1>2, ProxyStays DEF Credentials
<1>6. Credentials(p)'
  BY <1>2, <1>3, <1>4, <1>5 DEF Credentials
<1> QED
  BY <1>1, <1>6, OneActs

LEMMA CallStep ==
  ASSUME Inv, NEW p \in Procs, Call(p)
  PROVE  Inv'
<1>1. TypesOK /\ FilesKept
  BY NothingWritten DEF Inv, Call
<1>2. PICK q, r : Moves(p, q, r) /\ StartsCall(p, q, r)
  BY <1>1, CallMoves
<1> QED
  BY <1>1, <1>2, Begins DEF StartsCall

LEMMA CommandStep ==
  ASSUME Inv, NEW p \in Procs, Command(p)
  PROVE  Inv'
<1>1. /\ TypesOK /\ FilesKept /\ Placed(p) /\ Credentials(p) /\ NodesOK(p) /\ UrlsOK(p)
      /\ UNCHANGED <<setting, clock, token, proxy>>
  BY NothingWritten DEF Inv, Command, Credentials
<1>2. PICK q, r : /\ Moves(p, q, r)
                  /\ \/ StartsCall(p, q, r)
                     \/ /\ r.pc = "idle" /\ q.pc = "rotate" /\ p \notin Sessions
                        /\ SameToken(q, r) /\ SameProxy(q, r) /\ SameUse(q, r)
  BY <1>1, CommandMoves
<1>3. CASE StartsCall(p, q, r)
  BY <1>1, <1>2, <1>3, Begins DEF StartsCall
<1>4. CASE /\ r.pc = "idle" /\ q.pc = "rotate" /\ p \notin Sessions
           /\ SameToken(q, r) /\ SameProxy(q, r) /\ SameUse(q, r)
  <2>1. proc'[p] = r /\ q = proc[p]
    BY <1>1, <1>2 DEF Moves, TypesOK
  <2>2. setting.forks => WebGood(p)'
    BY <1>1, <1>4, <2>1 DEF WebGood, Credentials, SameUse
  <2>3. NodesOK(p)' /\ UrlsOK(p)'
    BY <1>1, <1>2, <1>4, KeepsDoors DEF SameUse
  <2> QED
    BY <1>1, <1>2, <1>4, <2>2, <2>3, Uses
<1> QED
  BY <1>2, <1>3, <1>4

LEMMA CopyStep ==
  ASSUME Inv, NEW p \in Procs, Copy(p)
  PROVE  Inv'
<1>1. /\ TypesOK /\ FilesKept /\ Credentials(p) /\ NodesOK(p) /\ UrlsOK(p)
      /\ UNCHANGED <<setting, clock, token, proxy>>
  BY NothingWritten DEF Inv, Copy
<1>2. PICK q, r : /\ Moves(p, q, r) /\ r.pc = "rotate" /\ p \notin Sessions
                  /\ SameToken(q, r) /\ SameProxy(q, r) /\ SameUse(q, r)
  BY <1>1, CopyMoves
<1>3. proc'[p] = r /\ q = proc[p]
  BY <1>1, <1>2 DEF Moves, TypesOK
<1>4. setting.forks => WebGood(p)'
  BY <1>1, <1>2, <1>3 DEF WebGood, Credentials, SameUse
<1>5. NodesOK(p)' /\ UrlsOK(p)'
  BY <1>1, <1>2, KeepsDoors DEF SameUse
<1> QED
  BY <1>1, <1>2, <1>4, <1>5, Uses

(* The token is kept as it was found.                                      *)
LEMMA RequestStep ==
  ASSUME Inv, NEW p \in Procs, Request(p)
  PROVE  Inv'
<1>1. /\ TypesOK /\ FilesKept /\ Credentials(p) /\ NodesOK(p) /\ UrlsOK(p)
      /\ UNCHANGED <<setting, clock, token, proxy>>
  BY NothingWritten DEF Inv, Request
<1>2. PICK q, r :
        /\ q = proc[p] /\ Moves(p, q, r) /\ q.pc = "end" /\ r.pc = "idle"
        /\ p \notin Sessions
        /\ SameToken(q, r) /\ SameProxy(q, r)
        /\ r.urls = q.urls /\ r.nodes = q.nodes /\ r.key = q.key
        /\ \/ r.web = q.web /\ r.first = q.first
           \/ r.web < 0
           \/ /\ q.bearer # Unset /\ r.web = token[q.bearer].exp
              /\ r.first = (IF q.found THEN q.checked ELSE -MinLeft)
  BY <1>1, RequestMoves
<1>3. /\ proc'[p] = r /\ q = proc[p] /\ setting' = setting
      /\ q \in ProcType /\ r \in ProcType /\ r.web \in Int
  BY <1>1, <1>2 DEF Moves, TypesOK, ProcType
<1>4. ASSUME setting.forks PROVE WebGood(p)'
  <2>1. TokenFound(p) /\ WebGood(p)
    BY <1>1, <1>4 DEF Credentials
  <2>2. CASE r.web = q.web /\ r.first = q.first
    BY <1>3, <2>1, <2>2 DEF WebGood
  <2>3. CASE r.web < 0
    BY <1>3, <2>3 DEF WebGood
  <2>4. ASSUME q.bearer # Unset, r.web = token[q.bearer].exp,
               r.first = (IF q.found THEN q.checked ELSE -MinLeft),
               ~setting.proxies, r.web >= 0
        PROVE  r.web >= r.first + MinLeft
    <3>1. MinLeft \in Nat
      BY TimesAssumption
    <3>2. CASE q.found
      <4>1. setting.tokens /\ Good(DefaultTokenFile(q.bearer), q.checked)
        BY <1>2, <1>3, <2>1, <2>4, <3>2, SettingTypes, <1>1 DEF TokenFound
      <4>2. Good(q.bearer, q.checked)
        BY <2>4, <4>1 DEF DefaultTokenFile
      <4> QED
        BY <2>4, <3>2, <4>2 DEF Good, Nothing
    <3>3. CASE ~q.found
      BY <2>4, <3>1, <3>3
    <3> QED
      BY <3>2, <3>3
  <2> QED
    BY <1>2, <1>3, <2>2, <2>3, <2>4 DEF WebGood
<1>5. NodesOK(p)' /\ UrlsOK(p)'
  BY <1>1, <1>2, KeepsDoors
<1> QED
  BY <1>1, <1>2, <1>4, <1>5, Uses

(* The doors chosen are a rotation's.                                      *)
LEMMA RotateStep ==
  ASSUME Inv, NEW p \in Procs, Rotate(p)
  PROVE  Inv'
<1>1. /\ TypesOK /\ FilesKept /\ Credentials(p) /\ NodesOK(p) /\ UrlsOK(p)
      /\ UNCHANGED <<setting, clock, token, proxy>>
  BY NothingWritten DEF Inv, Rotate
<1>2. PICK q, r :
        /\ q = proc[p] /\ Moves(p, q, r) /\ r.pc = "rotate" /\ q.pc = "rotate"
        /\ SameToken(q, r) /\ SameProxy(q, r)
        /\ r.web = q.web /\ r.first = q.first
        /\ DOMAIN r.urls = DOMAIN q.urls
        /\ \/ r.urls = q.urls /\ r.nodes = q.nodes /\ r.key = q.key
           \/ \E k \in DOMAIN setting.rotations :
                /\ r.key = <<setting.rotations[k].proto, setting.rotations[k].lookup>>
                /\ \A d \in r.nodes : \E l \in DOMAIN setting.rotations : Offers(l, d, r.key)
                /\ \A i \in DOMAIN r.urls :
                      \/ r.urls[i] = q.urls[i]
                      \/ /\ r.urls[i].kind = q.urls[i].kind
                         /\ r.urls[i].kind \in setting.rotations[k].matches
                         /\ r.urls[i].door \in r.nodes
  BY <1>1, RotateMoves
<1>3. proc'[p] = r /\ q = proc[p] /\ setting' = setting
  BY <1>1, <1>2 DEF Moves, TypesOK
<1>4. p \notin Sessions
  BY <1>1, <1>2 DEF Credentials, Placed
<1>5. setting.forks => WebGood(p)'
  BY <1>1, <1>2, <1>3 DEF WebGood, Credentials
<1>6. NodesOK(p)' /\ UrlsOK(p)'
  <2>1. CASE r.urls = q.urls /\ r.nodes = q.nodes /\ r.key = q.key
    BY <1>1, <1>2, <2>1, KeepsDoors
  <2>2. ASSUME NEW k \in DOMAIN setting.rotations,
               r.key = <<setting.rotations[k].proto, setting.rotations[k].lookup>>,
               \A d \in r.nodes : \E l \in DOMAIN setting.rotations : Offers(l, d, r.key),
               \A i \in DOMAIN r.urls :
                      \/ r.urls[i] = q.urls[i]
                      \/ /\ r.urls[i].kind = q.urls[i].kind
                         /\ r.urls[i].kind \in setting.rotations[k].matches
                         /\ r.urls[i].door \in r.nodes
        PROVE  NodesOK(p)' /\ UrlsOK(p)'
    <3>1. NodesOK(p)'
      BY <1>3, <2>2 DEF NodesOK, Offers
    <3>2. DOMAIN r.urls = DOMAIN setting.urls
      BY <1>1, <1>2, <1>3 DEF UrlsOK
    <3>3. ASSUME NEW i \in DOMAIN r.urls
          PROVE  \/ r.urls[i] = setting.urls[i]
                 \/ \E m, l \in DOMAIN setting.rotations :
                       /\ r.urls[i].kind \in setting.rotations[m].matches
                       /\ Offers(l, r.urls[i].door,
                                <<setting.rotations[m].proto, setting.rotations[m].lookup>>)
      <4>1. CASE r.urls[i] = q.urls[i]
        BY <1>1, <1>2, <1>3, <3>3, <4>1 DEF UrlsOK
      <4>2. CASE /\ r.urls[i].kind \in setting.rotations[k].matches
                 /\ r.urls[i].door \in r.nodes
        BY <2>2, <4>2
      <4> QED
        BY <2>2, <3>3, <4>1, <4>2
    <3>4. UrlsOK(p)'
      BY <1>3, <3>2, <3>3 DEF UrlsOK, Offers
    <3> QED
      BY <3>1, <3>4
  <2> QED
    BY <1>2, <2>1, <2>2
<1> QED
  BY <1>1, <1>2, <1>4, <1>5, <1>6, Uses

-----------------------------------------------------------------------------
(* The steps of a session, and of the clock                                *)

(* What was served until now lasts until getToken has run.                 *)
LEMMA WakeStep ==
  ASSUME Inv, NEW p \in Procs, Wake(p)
  PROVE  Inv'
<1>1. TypesOK /\ FilesKept /\ UNCHANGED <<setting, clock, token, proxy>>
  BY NothingWritten DEF Inv, Wake
<1>2. PICK q, r : /\ q = proc[p] /\ Moves(p, q, r) /\ q.pc = "sleep" /\ clock >= q.due
                  /\ Starts(Fresh, r) /\ r.web < 0 /\ r.nodes = {} /\ r.urls = setting.urls
                  /\ r.due = clock + MaxRun /\ r.served = q.served
  BY <1>1, WakeMoves
<1>3. /\ proc'[p] = r /\ q = proc[p] /\ clock \in Nat /\ MaxRun \in Nat
      /\ q \in ProcType /\ p \in setting.procs
  BY <1>1, <1>2, TimesAssumption DEF Moves, TypesOK
<1>4. r.pc \notin {"sleep", "gone"} /\ ~(setting.tokens /\ r.pc = "end")
  BY <1>2 DEF Starts
<1>5. ASSUME p \in Sessions PROVE Session(p)'
  <2>1. InTime(p) /\ q.due = clock
    BY <1>2, <1>3, <1>5 DEF Inv, Session, InTime, ProcType
  <2>2. InTime(p)'
    BY <1>1, <1>2, <1>3, <1>4 DEF InTime
  <2>3. ASSUME setting.forks, setting.tokens, setting.up, q.served # Unset
        PROVE  Lasts(q.served, clock + MaxRun, 2 * MaxRun)
    <3>1. Lasts(q.served, clock, MaxRun)
      BY <1>2, <1>3, <1>5, <2>1, <2>3 DEF Inv, Session, Served
    <3>2. q.served \in TokenFiles
      BY <1>3, <2>3 DEF ProcType
    <3>3. token[q.served].exp \in Int
      BY <1>1, <3>2 DEF TypesOK, Tokens, Nothing
    <3> QED
      BY <1>3, <3>1, <3>3 DEF Lasts
  <2>4. setting.forks => Served(p)'
    BY <1>1, <1>2, <1>3, <1>4, <2>3 DEF Served, Lasts
  <2> QED
    BY <1>1, <2>2, <2>4 DEF Session
<1> QED
  BY <1>1, <1>2, <1>5, Begins

(* What it has found lasts until it wakes up again.                        *)
LEMMA GoToSleepStep ==
  ASSUME Inv, NEW p \in Procs, GoToSleep(p)
  PROVE  Inv'
<1>1. /\ TypesOK /\ FilesKept /\ UNCHANGED <<setting, clock, token, proxy>>
      /\ Credentials(p) /\ NodesOK(p) /\ UrlsOK(p)
  BY NothingWritten DEF Inv, GoToSleep
<1>2. PICK q, r :
        /\ q = proc[p] /\ Moves(p, q, r) /\ q.pc = "end" /\ p \in Sessions
        /\ r.pc = "sleep" /\ r.due = clock + Sleep
        /\ r.served = (IF q.found THEN DefaultTokenFile(q.bearer) ELSE q.served)
        /\ SameToken(q, r) /\ SameProxy(q, r)
        /\ r.web = q.web /\ r.first = q.first
        /\ r.urls = q.urls /\ r.nodes = q.nodes /\ r.key = q.key
  BY <1>1, GoToSleepMoves
<1>3. /\ proc'[p] = r /\ q = proc[p] /\ clock \in Nat
      /\ q \in ProcType /\ p \in setting.procs
  BY <1>1, <1>2 DEF Moves, TypesOK
<1>4. Sleep \in Nat /\ MinLeft \in Nat /\ MaxRun \in Nat /\ Sleep <= MinLeft
  BY TimesAssumption
<1>5. InTime(p)'
  BY <1>1, <1>2, <1>3, <1>4 DEF InTime
<1>6. ASSUME setting.forks, setting.tokens, setting.up
      PROVE  Lasts(r.served, r.due, MaxRun)
  <2>1. TokenFound(p) /\ InTime(p)
    BY <1>1, <1>2, <1>6 DEF Credentials, Inv, Session
  <2>2. /\ q.found /\ Good(DefaultTokenFile(q.bearer), q.checked)
        /\ q.checked <= clock
    BY <1>2, <1>6, <2>1 DEF TokenFound
  <2>3. clock <= q.due /\ q.due <= q.checked + MaxRun
    BY <1>2, <1>3, <1>6, <2>1 DEF InTime
  <2>4. PICK f \in TokenFiles : f = DefaultTokenFile(q.bearer)
    BY <1>3, DefaultIsFile
  <2>5. token[f].exp \in Int /\ q.checked \in Nat /\ q.due \in Nat
    BY <1>1, <1>3, <2>4 DEF TypesOK, Tokens, Nothing, ProcType
  <2>6. r.served = f
    BY <1>2, <2>2, <2>4
  <2>7. CASE token[f].exp = Nothing /\ token[f].size > 200
    BY <2>6, <2>7 DEF Lasts
  <2>8. CASE token[f].exp >= q.checked + MinLeft
    <3>1. r.due <= token[f].exp + MaxRun /\ token[f].exp # Nothing
      BY <1>2, <1>3, <1>4, <2>3, <2>5, <2>8 DEF Nothing
    <3> QED
      BY <2>6, <3>1 DEF Lasts
  <2> QED
    BY <2>2, <2>4, <2>7, <2>8 DEF Good
<1>7. setting.forks => Served(p)'
  BY <1>1, <1>2, <1>3, <1>6 DEF Served, Lasts
<1>8. Session(p)'
  BY <1>1, <1>5, <1>7 DEF Session
<1>9. NodesOK(p)' /\ UrlsOK(p)'
  BY <1>1, <1>2, KeepsDoors
<1>10. setting.forks => WebGood(p)'
  BY <1>1, <1>2, <1>3 DEF WebGood, Credentials
<1> QED
  BY <1>1, <1>2, <1>8, <1>9, <1>10, Uses

LEMMA GoneStep ==
  ASSUME Inv, NEW p \in Procs, Gone(p)
  PROVE  Inv'
<1>1. /\ TypesOK /\ FilesKept /\ UNCHANGED <<setting, clock, token, proxy>>
      /\ Credentials(p) /\ NodesOK(p) /\ UrlsOK(p)
  BY NothingWritten DEF Inv, Gone
<1>2. PICK q, r : q = proc[p] /\ Moves(p, q, r) /\ r.pc = "gone" /\ Stays(q, r)
  BY <1>1, GoneMoves
<1>3. proc'[p] = r /\ q = proc[p]
  BY <1>1, <1>2 DEF Moves, TypesOK
<1>4. Session(p)'
  BY <1>2, <1>3 DEF Session, InTime, Served
<1>5. NodesOK(p)' /\ UrlsOK(p)'
  BY <1>1, <1>2, KeepsDoors DEF Stays, SameUse
<1>6. setting.forks => WebGood(p)'
  BY <1>1, <1>2, <1>3 DEF WebGood, Credentials, Stays, SameUse
<1> QED
  BY <1>1, <1>2, <1>4, <1>5, <1>6, Uses DEF Stays

LEMMA TickStep ==
  ASSUME Inv, Tick
  PROVE  Inv'
<1>1. /\ UNCHANGED <<setting, token, proxy, proc>> /\ clock' = clock + 1
      /\ clock \in Nat /\ TypesOK
      /\ \A s \in Sessions : s \in setting.procs => proc[s].pc = "gone" \/ clock < proc[s].due
  BY DEF Tick, Inv, TypesOK
<1>2. TypesOK'
  BY <1>1 DEF TypesOK
<1>3. ASSUME NEW p \in Procs PROVE (Credentials(p) /\ NodesOK(p) /\ UrlsOK(p))'
  <2>1. PICK q \in ProcType : q = proc[p] /\ q = proc'[p]
    BY <1>1 DEF TypesOK
  <2>2. Credentials(p) /\ NodesOK(p) /\ UrlsOK(p)
    BY DEF Inv
  <2>3. /\ q.checked \in Nat /\ q.proxied \in Nat \union {-1} /\ setting.ticket \in Nat
    BY <1>1, <2>1, SettingTypes DEF ProcType
  <2>4. Placed(p)' /\ NodesOK(p)' /\ UrlsOK(p)'
    BY <1>1, <2>1, <2>2 DEF Credentials, Placed, NodesOK, UrlsOK, Offers
  <2>5. setting.forks => WebGood(p)'
    BY <1>1, <2>1, <2>2 DEF Credentials, WebGood
  <2>6. ASSUME setting.forks PROVE TokenFound(p)'
    <3>1. PICK f \in TokenFiles : f = DefaultTokenFile(q.bearer)
      BY <2>1, DefaultIsFile
    <3>2. Good(f, q.checked) => Good(f, q.checked)'
      BY <1>1 DEF Good
    <3> QED
      BY <1>1, <2>1, <2>2, <2>3, <2>6, <3>1, <3>2 DEF Credentials, TokenFound
  <2>7. setting.forks => ProxyFound(p)'
    BY <1>1, <2>1, <2>2, <2>3 DEF Credentials, ProxyFound
  <2> QED
    BY <1>1, <2>4, <2>5, <2>6, <2>7 DEF Credentials
<1>4. ASSUME NEW s \in Sessions PROVE Session(s)'
  <2>1. s \in Procs
    BY TimesAssumption
  <2>2. PICK q \in ProcType : q = proc[s] /\ q = proc'[s]
    BY <1>1, <2>1 DEF TypesOK
  <2>3. Session(s) /\ q.due \in Nat /\ MaxRun \in Nat /\ Sleep \in Nat
    BY <2>2, TimesAssumption DEF Inv, ProcType
  <2>4. InTime(s)'
    BY <1>1, <2>2, <2>3 DEF Session, InTime
  <2>5. setting.forks => Served(s)'
    BY <1>1, <2>2, <2>3 DEF Session, Served, Lasts
  <2> QED
    BY <1>1, <2>4, <2>5 DEF Session
<1> QED
  BY <1>2, <1>3, <1>4 DEF Inv

-----------------------------------------------------------------------------
(* The induction                                                           *)
LEMMA InvInit == Init => Inv
<1> SUFFICES ASSUME Init PROVE Inv
  OBVIOUS
<1>1. setting \in SettingType /\ clock = 0 /\ token = setting.token
  BY SettingsAssumption DEF Init
<1>2. \A f \in ProxyFiles : proxy[f] = NoProxy
  BY DEF Init, ProxyFiles
<1>3. NoProxy \in [exp : Nat \union {Nothing}, role : BOOLEAN]
  BY DEF NoProxy
<1>4. proxy \in [ProxyFiles -> [exp : Nat \union {Nothing}, role : BOOLEAN]]
  BY <1>3 DEF Init, ProxyFiles
<1>5. /\ token \in [TokenFiles -> Tokens]
      /\ \A f \in TokenFiles : token[f].size = 0 => token[f].exp = Nothing
  BY <1>1 DEF SettingType
<1>6. /\ Fresh \in ProcType
      /\ Fresh.pc = "idle" /\ Fresh.proxied = -1 /\ Fresh.web = -2 /\ Fresh.nodes = {}
      /\ Fresh.urls = setting.urls /\ Fresh.due = 0 /\ Fresh.served = Unset
  BY <1>1, FreshType
<1>7. ASSUME NEW p \in Procs
      PROVE  /\ proc[p] \in ProcType /\ proc[p].pc = (IF p \in Sessions THEN "sleep" ELSE "idle")
             /\ proc[p].proxied = -1 /\ proc[p].web = -2 /\ proc[p].nodes = {}
             /\ proc[p].urls = setting.urls /\ proc[p].due = 0 /\ proc[p].served = Unset
  <2>1. PICK x \in ProcType : x = Fresh
    BY <1>6
  <2>2. proc[p] = IF p \in Sessions THEN [x EXCEPT !.pc = "sleep"] ELSE x
    BY <1>7, <2>1 DEF Init
  <2>3. PICK y : y = [x EXCEPT !.pc = "sleep"]
    OBVIOUS
  <2>4. /\ y \in ProcType /\ y.pc = "sleep" /\ y.proxied = x.proxied /\ y.web = x.web
        /\ y.nodes = x.nodes /\ y.urls = x.urls /\ y.due = x.due /\ y.served = x.served
    BY <2>1, <2>3 DEF ProcType, Pcs
  <2>5. proc[p] = IF p \in Sessions THEN y ELSE x
    BY <2>2, <2>3
  <2> QED
    BY <1>6, <2>1, <2>4, <2>5
<1>8. proc \in [Procs -> ProcType]
  BY <1>7 DEF Init
<1>9. TypesOK
  BY <1>1, <1>4, <1>5, <1>8 DEF TypesOK
<1>10. ASSUME NEW p \in Procs PROVE Credentials(p) /\ NodesOK(p) /\ UrlsOK(p)
  <2>1. Placed(p)
    BY <1>7 DEF Placed, Checking
  <2>2. TokenFound(p) /\ WebGood(p) /\ ProxyFound(p)
    BY <1>7 DEF TokenFound, WebGood, ProxyFound
  <2>3. NodesOK(p) /\ UrlsOK(p)
    BY <1>7 DEF NodesOK, UrlsOK
  <2> QED
    BY <2>1, <2>2, <2>3 DEF Credentials
<1>11. ASSUME NEW s \in Sessions PROVE Session(s)
  BY <1>1, <1>7, TimesAssumption DEF Session, InTime, Served
<1> QED
  BY <1>9, <1>10, <1>11 DEF Inv

LEMMA InvNext == Inv /\ [Next]_vars => Inv'
<1> SUFFICES ASSUME Inv, [Next]_vars PROVE Inv'
  OBVIOUS
<1>1. ASSUME NEW p \in Procs,
             \/ Call(p) \/ Proxy1(p) \/ Proxy2(p) \/ Kx509(p) \/ Voms(p)
             \/ Token1(p) \/ Token2(p) \/ Fetch(p)
             \/ Request(p) \/ Copy(p) \/ Rotate(p) \/ Command(p)
             \/ Wake(p) \/ GoToSleep(p) \/ Gone(p)
      PROVE  Inv'
  BY <1>1, CallStep, Proxy1Step, Proxy2Step, Kx509Step, VomsStep, Token1Step, Token2Step,
     FetchStep, RequestStep, CopyStep, RotateStep, CommandStep, WakeStep, GoToSleepStep,
     GoneStep
<1>2. CASE Tick
  BY <1>2, TickStep
<1>3. CASE UNCHANGED vars
  BY <1>3 DEF vars, Inv, TypesOK, Credentials, Placed, TokenFound, Good, WebGood, ProxyFound,
              NodesOK, UrlsOK, Offers, Session, InTime, Served, Lasts
<1> QED
  BY <1>1, <1>2, <1>3 DEF Next

LEMMA Always == Spec => []Inv
BY InvInit, InvNext, PTL DEF Spec

-----------------------------------------------------------------------------
(* The theorems                                                            *)

(* Found credentials are in hand at the end of                             *)
(* get_grid_credentials_if_needed: where the environment names them, and   *)
(* good for long enough when they were looked at, whatever other processes *)
(* of the user renew in between.                                           *)
THEOREM FoundInHand == Spec => []CredentialsInHand
<1>1. Inv => CredentialsInHand
  <2> SUFFICES ASSUME Inv, NEW p \in Procs, NEW q, q = proc[p], q.pc = "end", setting.forks
               PROVE  /\ q.found /\ setting.tokens /\ ~setting.proxies /\ Decodable =>
                            /\ token[DefaultTokenFile(q.bearer)].exp - q.checked >= MinLeft
                            /\ q.bearer = Unset => q.checked >= setting.ticket
                            /\ q.bearer # Unset => GetToken(q) = q.bearer
                      /\ q.proxied >= 0 =>
                            /\ GetProxy(q) = q.x509 /\ proxy[q.x509].exp > q.proxied
                            /\ setting.procs = {p} => proxy[q.x509].exp - q.proxied >= ProxyLeft
    BY DEF CredentialsInHand
  <2>1. TypesOK /\ TokenFound(p) /\ ProxyFound(p) /\ q \in ProcType
    BY DEF Inv, Credentials, TypesOK
  <2>2. ASSUME q.found, setting.tokens, ~setting.proxies, Decodable
        PROVE  /\ token[DefaultTokenFile(q.bearer)].exp - q.checked >= MinLeft
               /\ q.bearer = Unset => q.checked >= setting.ticket
               /\ q.bearer # Unset => GetToken(q) = q.bearer
    <3>1. PICK f \in TokenFiles : f = DefaultTokenFile(q.bearer)
      BY <2>1, DefaultIsFile
    <3>2. /\ token[f].size \in Nat /\ token[f].exp \in Int /\ q.checked \in Nat
          /\ MinLeft \in Nat /\ f \in DOMAIN token
          /\ token[f].size = 0 => token[f].exp = Nothing
      BY <2>1, TimesAssumption DEF TypesOK, Tokens, Nothing, ProcType
    <3>3. /\ Good(f, q.checked)
          /\ q.bearer = Unset => q.checked >= setting.ticket
      BY <2>1, <2>2, <3>1 DEF TokenFound
    <3>4. token[f].exp >= q.checked + MinLeft
      BY <2>2, <3>2, <3>3 DEF Good, Decodable
    <3>5. token[f].size > 0
      BY <3>2, <3>4 DEF Nothing
    <3>6. q.bearer # Unset => GetToken(q) = q.bearer
      BY <3>1, <3>5 DEF GetToken, DefaultTokenFile
    <3> QED
      BY <3>1, <3>2, <3>3, <3>4, <3>6
  <2>3. ASSUME q.proxied >= 0
        PROVE  /\ GetProxy(q) = q.x509 /\ proxy[q.x509].exp > q.proxied
               /\ setting.procs = {p} => proxy[q.x509].exp - q.proxied >= ProxyLeft
    <3>1. /\ q.x509 # Unset /\ proxy[q.x509].exp > q.proxied
          /\ setting.procs = {p} => proxy[q.x509].exp - q.proxied >= ProxyLeft
      BY <2>1, <2>3 DEF ProxyFound
    <3>2. proxy[q.x509].exp # Nothing
      BY <2>1, <2>3, <3>1 DEF Nothing, ProcType
    <3> QED
      BY <3>1, <3>2 DEF GetProxy
  <2> QED
    BY <2>2, <2>3
<1> QED
  BY <1>1, Always, PTL

(* The token that WebAPI keeps for all its requests is good for a quarter  *)
(* of an hour after the check before the first of them.                    *)
THEOREM TokenIsCarried == Spec => []RequestsCarry
<1>1. Inv => RequestsCarry
  <2> SUFFICES ASSUME Inv, NEW p \in Procs, NEW q, q = proc[p],
                      q.web >= 0, setting.forks, ~setting.proxies, clock < q.first + MinLeft
               PROVE  q.web > clock
    BY DEF RequestsCarry
  <2>1. /\ q.web \in Int /\ q.first \in Int /\ clock \in Nat /\ MinLeft \in Nat
        /\ q.web >= q.first + MinLeft
    BY TimesAssumption DEF Inv, TypesOK, ProcType, Credentials, WebGood
  <2> QED
    BY <2>1
<1> QED
  BY <1>1, Always, PTL

(* A session that can fetch tokens has one that is out of date for no      *)
(* longer than two runs of getToken take.                                  *)
THEOREM SessionLasts == Spec => []SessionCovers
<1>1. Inv => SessionCovers
  <2> SUFFICES ASSUME Inv, NEW s \in Sessions, NEW q, q = proc[s],
                      setting.up, setting.forks, setting.tokens, Decodable,
                      q.served # Unset, q.pc # "gone"
               PROVE  clock <= token[q.served].exp + 2 * MaxRun
    BY DEF SessionCovers
  <2>1. /\ s \in Procs /\ q \in ProcType /\ MaxRun \in Nat /\ clock \in Nat
        /\ q.due \in Nat /\ q.served \in TokenFiles
    BY TimesAssumption DEF Inv, TypesOK, ProcType
  <2>2. token[q.served].exp \in Int /\ q.served \in DOMAIN token
    BY <2>1 DEF Inv, TypesOK, Tokens, Nothing
  <2>3. PICK slack \in {MaxRun, 2 * MaxRun} : Lasts(q.served, q.due, slack)
    BY DEF Inv, Session, Served
  <2>4. s \in setting.procs /\ clock <= q.due
    BY DEF Inv, Session, Served, InTime
  <2>5. q.due <= token[q.served].exp + slack
    BY <2>2, <2>3 DEF Lasts, Decodable
  <2> QED
    BY <2>1, <2>2, <2>4, <2>5
<1> QED
  BY <1>1, Always, PTL

(* A copy's url names a door that was found for its own rotation, or for   *)
(* one with the same protocol and lookup.                                  *)
THEOREM DoorIsOffered == Spec => []DoorSuits
<1>1. Inv => DoorSuits
  <2> SUFFICES ASSUME Inv, NEW p \in Procs, NEW i \in DOMAIN proc[p].urls, NEW u,
                      u = proc[p].urls[i], u # setting.urls[i]
               PROVE  \E k, l \in DOMAIN setting.rotations :
                         LET r == setting.rotations[k]
                             s == setting.rotations[l]
                         IN  /\ u.kind \in r.matches
                             /\ <<r.proto, r.lookup>> = <<s.proto, s.lookup>>
                             /\ u.door \in s.answer \union s.defaults
    BY Zenon DEF DoorSuits
  <2>1. PICK k, l \in DOMAIN setting.rotations :
           /\ u.kind \in setting.rotations[k].matches
           /\ Offers(l, u.door, <<setting.rotations[k].proto, setting.rotations[k].lookup>>)
    BY DEF Inv, UrlsOK
  <2> QED
    BY <2>1 DEF Offers
<1> QED
  BY <1>1, Always, PTL

=============================================================================
