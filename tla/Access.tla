-------------------------------- MODULE Access --------------------------------
(***************************************************************************)
(* Credentials and doors: get_grid_credentials_if_needed in processes that *)
(* share the files of one user, the loop of auth_session.sh that renews    *)
(* the token, the token that WebAPI keeps, and the doors that the tries of *)
(* a copy take in turn.                                                    *)
(*                                                                         *)
(* Time passes in units of five minutes.                                   *)
(***************************************************************************)
EXTENDS Integers, Sequences, FiniteSets

CONSTANTS
    Procs,      \* processes of one user on one host
    Sessions,   \* those that run the loop of auth_session.sh
    MinLeft,    \* what a token must have left: fifteen minutes
    ProxyLeft,  \* what a proxy must have left: ten minutes
    Sleep,      \* between two checks of a session: fifteen minutes
    MaxRun,     \* bound: a session's getToken takes no longer
    Life,       \* how long tokens and proxies last
    MaxTime,    \* bound on the time
    MaxCalls,   \* bound on the calls of a process
    MaxTries,   \* tries of a copy
    Settings    \* configurations, environments and files to start with

(* A session sleeps no longer than a token must have left; what is issued  *)
(* lasts longer than it must have left.                                    *)
ASSUME TimesAssumption ==
    /\ {MinLeft, ProxyLeft, Sleep, Life} \subseteq Nat \ {0}
    /\ {MaxRun, MaxTime, MaxCalls, MaxTries} \subseteq Nat
    /\ Sleep <= MinLeft /\ MinLeft <= Life /\ ProxyLeft <= Life
    /\ Sessions \subseteq Procs

VARIABLES
    setting,    \* what was chosen from Settings
    clock,
    token,      \* the token in each file: its size and when it expires
    proxy,      \* the same for proxies, and whether they have a role
    proc        \* the processes: environment, statics, and where they are

vars == <<setting, clock, token, proxy, proc>>

Unset == "unset"

TokenFiles == {"run", "tmp", "job"}

(* decode_token.sh prints nothing for a file that is not there or is not   *)
(* a token.                                                                *)
Nothing == -1

NoToken == [size |-> 0, exp |-> Nothing]

NoProxy == [exp |-> Nothing, role |-> FALSE]

Tokens == [size : Nat, exp : Nat \union {Nothing}]

(* Whether tokens and proxies are enabled; whether commands can be started;*)
(* the token file that the environment names; until when there is a        *)
(* kerberos ticket; whether htgettoken's server is up; the token files;    *)
(* the processes there are; the urls of a copy, and the rotations.         *)
SettingType ==
    [tokens : BOOLEAN, proxies : BOOLEAN, forks : BOOLEAN, given : {Unset, "job"},
     ticket : Nat, up : BOOLEAN,
     token : {t \in [TokenFiles -> Tokens] :
                  \A f \in TokenFiles : t[f].size = 0 => t[f].exp = Nothing},
     procs : SUBSET Procs,
     urls : Seq([kind : STRING, door : STRING]),
     rotations : Seq([matches : SUBSET STRING, proto : STRING, lookup : STRING,
                      answer : SUBSET STRING, defaults : SUBSET STRING])]

ASSUME SettingsAssumption == Settings \subseteq SettingType

Unread == -2
Without == -3

Fresh == [pc |-> "idle", bearer |-> setting.given, x509 |-> Unset, buf |-> Nothing,
          tfile |-> Unset, pfile |-> Unset, found |-> FALSE, checked |-> 0, proxied |-> -1,
          web |-> Unread, first |-> 0, calls |-> 0, tries |-> 0,
          urls |-> setting.urls, rot |-> 1, nodes |-> {}, key |-> <<"", "">>,
          due |-> 0, served |-> Unset]

Init ==
    /\ setting \in Settings
    /\ clock = 0
    /\ token = setting.token
    /\ proxy = [f \in {"plain", "voms"} |-> NoProxy]
    /\ proc = [p \in Procs |->
                  IF p \in Sessions THEN [Fresh EXCEPT !.pc = "sleep"] ELSE Fresh]

Set(p, q) == proc' = [proc EXCEPT ![p] = q]

At(p, pc) == p \in setting.procs /\ proc[p].pc = pc

HaveKerberos == setting.forks /\ clock < setting.ticket

-----------------------------------------------------------------------------
(* The two checks *)

DefaultTokenFile(bearer) == IF bearer = Unset THEN "run" ELSE bearer

(* Mutant: a token that has any time left will do.                         *)
EndingSoon(exp) == exp # Nothing /\ exp < clock

(* With less than this the token counts as expired.                        *)
Expired(exp) == exp # Nothing /\ exp - clock < MinLeft

(* The buffer is static, and keeps the last token's time if nothing is     *)
(* printed.  If nothing can be started all is taken to be well.            *)
CheckTokens(q) ==
    LET file == DefaultTokenFile(q.bearer)
        big == token[file].size > 200
        read == IF token[file].exp = Nothing THEN q.buf ELSE token[file].exp
    IN  [ok |-> ~setting.forks \/ (big /\ ~Expired(read)),
         q |-> [q EXCEPT !.bearer = IF big THEN file ELSE @,
                         !.buf = IF setting.forks THEN read ELSE @]]

(* The exit status of voms-proxy-info counts, whatever role was printed.   *)
CheckProxies(q) ==
    LET file == IF q.x509 = Unset THEN "plain" ELSE q.x509
        valid == setting.forks /\ proxy[file].exp - clock >= ProxyLeft
    IN  [ok |-> valid \/ ~setting.forks,
         q |-> [q EXCEPT !.x509 = IF valid THEN file ELSE @,
                         !.proxied = IF valid THEN clock ELSE @]]

-----------------------------------------------------------------------------
(* get_grid_credentials_if_needed *)

AfterProxies == IF setting.tokens THEN "token1" ELSE "end"

(* The names of the files are made before anything is checked.             *)
Begin(q) ==
    [q EXCEPT !.pc = IF setting.proxies THEN "proxy1" ELSE AfterProxies,
              !.tfile = IF q.bearer = Unset THEN "tmp" ELSE q.bearer,
              !.pfile = IF q.x509 = Unset THEN "plain" ELSE q.x509,
              !.found = FALSE, !.proxied = -1]

Call(p) ==
    /\ At(p, "idle") /\ p \notin Sessions
    /\ proc[p].calls < MaxCalls
    /\ Set(p, Begin([proc[p] EXCEPT !.calls = @ + 1, !.tries = 0, !.urls = setting.urls]))
    /\ UNCHANGED <<setting, clock, token, proxy>>

Proxy1(p) ==
    /\ At(p, "proxy1")
    /\ LET c == CheckProxies(proc[p])
       IN  Set(p, [c.q EXCEPT !.pc = "proxy2",
                              !.x509 = IF ~c.ok /\ HaveKerberos THEN "voms" ELSE @])
    /\ UNCHANGED <<setting, clock, token, proxy>>

Proxy2(p) ==
    /\ At(p, "proxy2")
    /\ LET c == CheckProxies(proc[p])
       IN  Set(p, [c.q EXCEPT !.pc = IF ~c.ok /\ HaveKerberos THEN "kx509" ELSE AfterProxies])
    /\ UNCHANGED <<setting, clock, token, proxy>>

(* The new proxy, without a role, comes to the file that is set: to the    *)
(* one with a role, if this process has been here before.                  *)
Kx509(p) ==
    /\ At(p, "kx509")
    /\ \E got \in BOOLEAN :
          proxy' = IF got THEN [proxy EXCEPT ![proc[p].pfile] = [exp |-> clock + Life, role |-> FALSE]]
                   ELSE proxy
    /\ Set(p, [proc[p] EXCEPT !.pc = "voms"])
    /\ UNCHANGED <<setting, clock, token>>

(* With exit status 1 the file can be there, but is not counted; other     *)
(* failures have been tried twice.                                         *)
Voms(p) ==
    /\ At(p, "voms")
    /\ \E written, counted \in BOOLEAN :
          /\ counted => written
          /\ written => proxy[proc[p].pfile].exp > clock
          /\ proxy' = IF written
                      THEN [proxy EXCEPT !["voms"] = [exp |-> proxy[proc[p].pfile].exp, role |-> TRUE]]
                      ELSE proxy
          /\ Set(p, [proc[p] EXCEPT !.pc = AfterProxies, !.found = @ \/ counted])
    /\ UNCHANGED <<setting, clock, token>>

(* Mutant: the name of the file is not put into the environment.           *)
TokenFileUnset(p) ==
    /\ At(p, "token1")
    /\ Set(p, [CheckTokens(proc[p]).q EXCEPT !.pc = "token2", !.bearer = proc[p].bearer])
    /\ UNCHANGED <<setting, clock, token, proxy>>

Token1(p) ==
    /\ At(p, "token1")
    /\ LET c == CheckTokens(proc[p])
       IN  Set(p, [c.q EXCEPT !.pc = "token2",
                              !.bearer = IF ~c.ok /\ HaveKerberos THEN c.q.tfile ELSE @])
    /\ UNCHANGED <<setting, clock, token, proxy>>

(* Mutant: a file that the environment names is taken to be good.          *)
TrustName(p) ==
    /\ At(p, "token2")
    /\ LET c == CheckTokens(proc[p])
           ok == c.ok \/ c.q.bearer # Unset
       IN  Set(p, [c.q EXCEPT !.pc = IF ok THEN "end" ELSE "fetch",
                              !.found = @ \/ ok, !.checked = clock])
    /\ UNCHANGED <<setting, clock, token, proxy>>

Token2(p) ==
    /\ At(p, "token2")
    /\ LET c == CheckTokens(proc[p])
       IN  Set(p, [c.q EXCEPT !.pc = IF c.ok THEN "end" ELSE "fetch",
                              !.found = @ \/ c.ok, !.checked = clock])
    /\ UNCHANGED <<setting, clock, token, proxy>>

(* htgettoken leaves a token that has fifteen minutes left.                *)
Renewed(old) ==
    IF old.exp - clock >= MinLeft THEN old ELSE [size |-> 1000, exp |-> clock + Life]

Fetch(p) ==
    /\ At(p, "fetch")
    /\ LET file == DefaultTokenFile(proc[p].bearer)
       IN  \/ /\ setting.forks
              /\ token' = [token EXCEPT ![file] = Renewed(@)]
              /\ Set(p, [proc[p] EXCEPT !.pc = "end", !.found = TRUE, !.checked = clock])
           \/ /\ ~setting.up
              /\ Set(p, [proc[p] EXCEPT !.pc = "end"])
              /\ UNCHANGED token
    /\ UNCHANGED <<setting, clock, proxy>>

(* getToken: the file that the environment names, if it is there.          *)
GetToken(q) ==
    IF q.bearer # Unset /\ token[q.bearer].size > 0 THEN q.bearer ELSE Unset

GetProxy(q) == IF q.x509 # Unset /\ proxy[q.x509].exp # Nothing THEN q.x509 ELSE Unset

-----------------------------------------------------------------------------
(* What is done with the credentials *)

(* A request of WebAPI: the token is read once.                            *)
Request(p) ==
    /\ At(p, "end") /\ p \notin Sessions
    /\ LET q == proc[p]
           t == IF q.bearer = Unset THEN NoToken ELSE token[q.bearer]
           got == IF t.size > 512 THEN t.exp ELSE Without
       IN  Set(p, IF q.web # Unread THEN [q EXCEPT !.pc = "idle"]
                  ELSE [q EXCEPT !.pc = "idle", !.web = got,
                                 !.first = IF q.found THEN q.checked ELSE -MinLeft])
    /\ UNCHANGED <<setting, clock, token, proxy>>

(* A copy's try: each rotation in turn, then the command.                  *)
Copy(p) ==
    /\ At(p, "end") /\ p \notin Sessions
    /\ setting.urls # <<>>
    /\ Set(p, [proc[p] EXCEPT !.pc = "rotate", !.rot = 1])
    /\ UNCHANGED <<setting, clock, token, proxy>>

(* Mutant: doors of another protocol are kept.                             *)
NodesOfUrl(q, r, answer) ==
    IF q.nodes # {} /\ q.key[2] = r.lookup THEN q.nodes
    ELSE IF answer = {} THEN r.defaults ELSE answer

(* get_pnfs_uri: the doors last found, if it was for this protocol and     *)
(* lookup, or the answer to it, or the default.                            *)
Nodes(q, r, answer) ==
    IF q.nodes # {} /\ q.key = <<r.proto, r.lookup>> THEN q.nodes
    ELSE IF answer = {} THEN r.defaults ELSE answer

(* Every url that the rotation's expression matches gets one of the doors. *)
Rotated(q, r) ==
    LET able == {i \in DOMAIN q.urls : q.urls[i].kind \in r.matches}
        Door(nodes, d) ==
            [q EXCEPT !.rot = @ + 1, !.nodes = nodes, !.key = <<r.proto, r.lookup>>,
                      !.urls = [i \in DOMAIN q.urls |->
                                   IF i \in able THEN [q.urls[i] EXCEPT !.door = d[i]]
                                   ELSE q.urls[i]]]
    IN  IF able = {} THEN {[q EXCEPT !.rot = @ + 1]}
        ELSE UNION {{Door(nodes, d) : d \in [able -> nodes]} :
                       nodes \in {Nodes(q, r, answer) : answer \in {{}, r.answer}}}

Rotate(p) ==
    /\ At(p, "rotate")
    /\ proc[p].rot <= Len(setting.rotations)
    /\ \E q \in Rotated(proc[p], setting.rotations[proc[p].rot]) : Set(p, q)
    /\ UNCHANGED <<setting, clock, token, proxy>>

(* After a failure the credentials are looked at again.                    *)
Command(p) ==
    /\ At(p, "rotate")
    /\ proc[p].rot > Len(setting.rotations)
    /\ \/ Set(p, [proc[p] EXCEPT !.pc = "idle"])
       \/ /\ proc[p].tries < MaxTries
          /\ Set(p, Begin([proc[p] EXCEPT !.tries = @ + 1]))
    /\ UNCHANGED <<setting, clock, token, proxy>>

-----------------------------------------------------------------------------
(* auth_session.sh *)

(* The process that the session is for has ended.                          *)
Gone(s) ==
    /\ At(s, "sleep")
    /\ clock >= proc[s].due
    /\ Set(s, [proc[s] EXCEPT !.pc = "gone"])
    /\ UNCHANGED <<setting, clock, token, proxy>>

(* Each getToken is a process of its own, with the shell's environment.    *)
Wake(s) ==
    /\ At(s, "sleep")
    /\ clock >= proc[s].due
    /\ Set(s, [Begin(Fresh) EXCEPT !.due = clock + MaxRun, !.served = proc[s].served])
    /\ UNCHANGED <<setting, clock, token, proxy>>

GoToSleep(s) ==
    /\ At(s, "end") /\ s \in Sessions
    /\ Set(s, [proc[s] EXCEPT !.pc = "sleep", !.due = clock + Sleep,
                              !.served = IF proc[s].found THEN DefaultTokenFile(proc[s].bearer) ELSE @])
    /\ UNCHANGED <<setting, clock, token, proxy>>

(* The session wakes up in time and its getToken takes no more than MaxRun.*)
Tick ==
    /\ clock < MaxTime
    /\ \A s \in Sessions \cap setting.procs : proc[s].pc = "gone" \/ clock < proc[s].due
    /\ clock' = clock + 1
    /\ UNCHANGED <<setting, token, proxy, proc>>

Next ==
    \/ \E p \in Procs :
          \/ Call(p) \/ Proxy1(p) \/ Proxy2(p) \/ Kx509(p) \/ Voms(p)
          \/ Token1(p) \/ Token2(p) \/ Fetch(p)
          \/ Request(p) \/ Copy(p) \/ Rotate(p) \/ Command(p)
          \/ Wake(p) \/ GoToSleep(p) \/ Gone(p)
    \/ Tick

Spec == Init /\ [][Next]_vars

-----------------------------------------------------------------------------
(* Properties *)

(* A file that is no token although it is as big as one is taken for one.  *)
Decodable == \A f \in DOMAIN token : token[f].size > 200 => token[f].exp # Nothing

(* When get_grid_credentials_if_needed has found credentials, the token    *)
(* that the environment names had a quarter of an hour left when it was    *)
(* last looked at; unless it was fetched without a kerberos ticket, when   *)
(* it is where htgettoken puts it and the environment may name none.  A    *)
(* proxy that was found was good then, and had ten minutes left, if no     *)
(* other process has replaced it by a shorter one.                         *)
CredentialsInHand ==
    \A p \in Procs :
        LET q == proc[p] IN
        q.pc = "end" /\ setting.forks =>
            /\ q.found /\ setting.tokens /\ ~setting.proxies /\ Decodable =>
                  /\ token[DefaultTokenFile(q.bearer)].exp - q.checked >= MinLeft
                  /\ q.bearer = Unset => q.checked >= setting.ticket
                  /\ q.bearer # Unset => GetToken(q) = q.bearer
            /\ q.proxied >= 0 =>
                  /\ GetProxy(q) = q.x509 /\ proxy[q.x509].exp > q.proxied
                  /\ setting.procs = {p} => proxy[q.x509].exp - q.proxied >= ProxyLeft

(* The token that WebAPI keeps is good for a quarter of an hour after the  *)
(* check before its first request; later it can be expired although the    *)
(* file has a new one.                                                     *)
RequestsCarry ==
    \A p \in Procs :
        LET q == proc[p] IN
        q.web >= 0 /\ setting.forks /\ ~setting.proxies /\ clock < q.first + MinLeft =>
            q.web > clock

(* While a session runs and tokens can be fetched, the token in its file   *)
(* is never out of date for longer than two runs of getToken take.         *)
SessionCovers ==
    \A s \in Sessions :
        /\ setting.up /\ setting.forks /\ setting.tokens /\ Decodable
        /\ proc[s].served # Unset /\ proc[s].pc # "gone"
        => clock <= token[proc[s].served].exp + 2 * MaxRun

(* After a rotation a url names a door of its own rotation, or of one with *)
(* the same protocol and lookup: one that the lookup has named, or a       *)
(* default.                                                                *)
DoorSuits ==
    \A p \in Procs : \A i \in DOMAIN proc[p].urls :
        LET u == proc[p].urls[i] IN
        \/ u = setting.urls[i]
        \/ \E k, l \in DOMAIN setting.rotations :
              LET r == setting.rotations[k]
                  s == setting.rotations[l]
              IN  /\ u.kind \in r.matches /\ <<r.proto, r.lookup>> = <<s.proto, s.lookup>>
                  /\ u.door \in s.answer \union s.defaults

=============================================================================
