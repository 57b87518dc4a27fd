--------------------------------- MODULE DoCp ---------------------------------
(***************************************************************************)
(* The copies of one `ifdh cp`: the loop of ifdh::cp over its pairs, do_cp *)
(* with the two hops of a cross-protocol copy, do_cp_bg, and retry_system, *)
(* which runs each copy command until it succeeds.                         *)
(*                                                                         *)
(* A pair whose ends need different protocols is copied through            *)
(* datadir()/intermed: one hop after the other when that is a file         *)
(* (--intermed), or both at once when it is a FIFO, the first hop then     *)
(* being the work of a forked child.  A copy command is external: it opens *)
(* what it copies, and ends well or badly.                                 *)
(***************************************************************************)
EXTENDS Integers

CONSTANTS
    NPairs,         \* number of pairs given to cp
    Kinds,          \* what they may be
    MaxRetries,     \* IFDH_CP_MAXRETRIES as the user set it
    DefaultRetries, \* the value when it is not set (8)
    FaultSets       \* the combinations of faults a behaviour may have

Pairs == 1 .. NPairs

(* "star" is a direct copy with a wildcard in its source.                   *)
PairKinds == {"direct", "star", "cross"}

(* A command that has its files open fails; is killed; prints "gfal-copy    *)
(* error: 256"; prints "exists" or "directory"; an rm fails, or is killed   *)
(* or not found; the first command of a pipe fails before it opens the      *)
(* FIFO; the second does; the second takes more than 5 s to open it; the    *)
(* fork fails.                                                              *)
FaultKinds == {"bad", "signal", "256", "exists", "rm", "rm_odd",
               "writer", "reader", "slow", "fork"}

ASSUME ConstantsAssumption ==
    /\ NPairs \in Nat /\ MaxRetries \in Nat /\ DefaultRetries \in Nat
    /\ Kinds \subseteq PairKinds
    /\ FaultSets \subseteq SUBSET FaultKinds

(* The process that called cp and the one it forks.                        *)
Agents == {"main", "child"}

VARIABLES
    kinds,      \* what each pair is
    file,       \* intermed_file_flag
    unlink,     \* IFDH_CP_UNLINK_ON_ERROR
    faults,     \* the kinds of fault that may happen in this behaviour
    i,          \* the pair cp is at
    pc,         \* where cp and do_cp are
    rres,       \* the result cp is going to return
    env,        \* what IFDH_CP_MAXRETRIES is
    state,      \* where each process is in retry_system
    tries, maxtries, errs, unlinking,   \* its variables there
    ret,        \* what it returned last
    hop,        \* what is in the intermediate file
    fifo,       \* the FIFO: what its reader and writer do, what went through
    dst,        \* what is at each destination
    ignored     \* the pairs whose background copy failed

options == <<kinds, file, unlink, faults>>
cpVars == <<i, pc, rres, env, ignored>>
retryVars == <<state, tries, maxtries, errs, unlinking, ret>>
dataVars == <<hop, fifo, dst>>
vars == <<options, cpVars, retryVars, dataVars>>

Places == {"pick", "direct", "hop1", "hop2", "pipe", "wait",
           "returned", "aborted"}

States == {"idle", "loop", "opening", "open", "removing", "sleeping",
           "returned", "unwedging", "exited"}

Contents == {"none", "part", "whole"}
Ends == {"none", "opening", "open", "closed"}

NoFifo == [reader |-> "none", writer |-> "none", data |-> "none"]

(* Type invariant; in particular the number of tries is never negative.    *)
TypeOK ==
    /\ kinds \in [Pairs -> Kinds] /\ file \in BOOLEAN /\ unlink \in BOOLEAN
    /\ faults \in FaultSets
    /\ i \in 1 .. NPairs + 1 /\ pc \in Places /\ rres \in {-1, 0, 1}
    /\ env \in {"user", "zero", "dangling"}
    /\ state \in [Agents -> States]
    /\ tries \in [Agents -> Nat] /\ maxtries \in [Agents -> Nat]
    /\ errs \in [Agents -> SUBSET {"256", "exists"}]
    /\ unlinking \in [Agents -> BOOLEAN]
    /\ ret \in [Agents -> {-1, 0, 1}]
    /\ hop \in Contents
    /\ fifo \in [reader : Ends, writer : Ends, data : Contents]
    /\ dst \in [Pairs -> Contents]
    /\ ignored \subseteq Pairs

Init ==
    /\ kinds \in [Pairs -> Kinds] /\ file \in BOOLEAN /\ unlink \in BOOLEAN
    /\ faults \in FaultSets
    /\ i = 1 /\ pc = "pick" /\ rres = 0 /\ env = "user"
    /\ state = [a \in Agents |-> "idle"]
    /\ tries = [a \in Agents |-> 0] /\ maxtries = [a \in Agents |-> 0]
    /\ errs = [a \in Agents |-> {}]
    /\ unlinking = [a \in Agents |-> FALSE]
    /\ ret = [a \in Agents |-> 0]
    /\ hop = "none" /\ fifo = NoFifo
    /\ dst = [p \in Pairs |-> "none"]
    /\ ignored = {}

-----------------------------------------------------------------------------
(* retry_system *)

Goto(a, s) == state' = [state EXCEPT ![a] = s]

(* Mutant: the retries are taken for the tries.                            *)
RetriesOnly(e) ==
    IF e = "user" THEN {MaxRetries} ELSE {1, DefaultRetries + 1}

(* Mutant: the default argument, -1, is taken for the number of tries when *)
(* the variable is not there.                                              *)
TriesUnset(e) ==
    IF e = "user" THEN {MaxRetries + 1} ELSE {1, -1}

(* maxtries.  Once do_cp has returned from a piped copy the environment    *)
(* points to its stack: the variable is 0 still, or not there.             *)
TriesFor(e) ==
    CASE e = "user" -> {MaxRetries + 1}
      [] e = "zero" -> {1}
      [] e = "dangling" -> {1, DefaultRetries + 1}

(* The processes of As enter retry_system.                                 *)
Enter(As, e) ==
    /\ state' = [a \in Agents |-> IF a \in As THEN "loop" ELSE state[a]]
    /\ tries' = [a \in Agents |-> IF a \in As THEN 0 ELSE tries[a]]
    /\ \E n \in TriesFor(e) :
          maxtries' = [a \in Agents |-> IF a \in As THEN n ELSE maxtries[a]]
    /\ errs' = [a \in Agents |-> IF a \in As THEN {} ELSE errs[a]]
    /\ unlinking' = [a \in Agents |-> IF a \in As THEN unlink ELSE unlinking[a]]
    /\ UNCHANGED ret

Leave(a, r) ==
    /\ Goto(a, "returned")
    /\ ret' = [ret EXCEPT ![a] = r]

(* What a command may say on stderr while it ends this way.                *)
Says(exit) == SUBSET (faults \cap IF exit = 0 THEN {"256"} ELSE {"256", "exists"})

(* Mutant: the exit status is all that counts.                             *)
StatusFailed(exit, said) == exit # 0

(* The text of all tries so far is searched.                               *)
Failed(exit, said) == exit # 0 \/ "256" \in said

(* The command of a's present try has ended with this status and text.     *)
CommandEnds(a, exit, says) ==
    LET said == errs[a] \union says
        failed == Failed(exit, said)
        giveUp == \/ "exists" \in said /\ tries[a] > 0
                  \/ kinds[i] = "star"
                  \/ tries[a] + 1 >= maxtries[a]
    IN  /\ errs' = [errs EXCEPT ![a] = said]
        /\ tries' = [tries EXCEPT ![a] = @ + 1]
        /\ \/ ~failed /\ Leave(a, 0) /\ UNCHANGED unlinking
           \/ failed /\ giveUp /\ Leave(a, 1) /\ UNCHANGED unlinking
           \/ /\ failed /\ ~giveUp
              /\ Goto(a, IF unlinking[a] THEN "removing" ELSE "sleeping")
              /\ unlinking' = [unlinking EXCEPT ![a] = FALSE]
              /\ UNCHANGED ret
        /\ UNCHANGED maxtries

(* A command killed by a signal is not tried again.                        *)
CommandKilled(a) ==
    /\ "signal" \in faults
    /\ Leave(a, -1)
    /\ tries' = [tries EXCEPT ![a] = @ + 1]
    /\ UNCHANGED <<maxtries, errs, unlinking>>

(* random() % (27 << tries) seconds.                                       *)
Sleep ==
    /\ state["main"] = "sleeping"
    /\ Goto("main", "loop")
    /\ UNCHANGED <<options, cpVars, tries, maxtries, errs, unlinking, ret, dataVars>>

(* What a copy in one piece has written, which may be nothing.             *)
Target == IF pc = "hop1" THEN hop ELSE dst[i]

Write(c) ==
    /\ UNCHANGED fifo
    /\ IF pc = "hop1" THEN hop' = c /\ UNCHANGED dst
                      ELSE dst' = [dst EXCEPT ![i] = c] /\ UNCHANGED hop

(* rm of the destination before the next try.  It enters retry_system once *)
(* more, for one try, which clears the text.  A failing rm throws, out of  *)
(* cp, and it fails when the copy has left nothing to remove; but statuses *)
(* that the second decoding takes for success (127, 128, -1) do not, nor   *)
(* does a protocol that has no rm_cmd, when the text stays.                *)
Remove ==
    /\ state["main"] = "removing"
    /\ \/ /\ Target # "none"
          /\ Write("none")
          /\ Goto("main", "loop")
          /\ errs' = [errs EXCEPT !["main"] = {}]
          /\ UNCHANGED cpVars
       \/ /\ "rm_odd" \in faults
          /\ Goto("main", "loop")
          /\ errs' \in {errs, [errs EXCEPT !["main"] = {}]}
          /\ UNCHANGED <<cpVars, dataVars>>
       \/ /\ Target = "none" \/ "rm" \in faults
          /\ Goto("main", "idle")
          /\ pc' = "aborted"
          /\ errs' = [errs EXCEPT !["main"] = {}]
          /\ UNCHANGED <<i, rres, env, ignored, dataVars>>
    /\ UNCHANGED <<options, tries, maxtries, unlinking, ret>>

-----------------------------------------------------------------------------
(* Copy commands *)

(* A command that reads and writes files: it succeeds, and has copied what *)
(* it was given, or fails on the way.                                      *)
RunCommand ==
    /\ state["main"] = "loop" /\ pc \in {"direct", "hop1", "hop2"}
    /\ \/ \E says \in Says(0) :
             /\ CommandEnds("main", 0, says)
             /\ IF says = {}
                THEN Write(IF pc = "hop2" THEN hop ELSE "whole")
                ELSE UNCHANGED dataVars \/ Write("part")
       \/ /\ "bad" \in faults
          /\ \E says \in Says(1) : CommandEnds("main", 1, says)
          /\ UNCHANGED dataVars \/ Write("part")
       \/ /\ CommandKilled("main")
          /\ UNCHANGED dataVars \/ Write("part")
    /\ UNCHANGED <<options, cpVars>>

(* The command of a pipe's one end fails before it opens the FIFO.         *)
FailToOpen(a) ==
    /\ state[a] = "loop" /\ pc \in {"pipe", "wait"}
    /\ (IF a = "child" THEN "writer" ELSE "reader") \in faults
    /\ \E says \in Says(1) : CommandEnds(a, 1, says)
    /\ UNCHANGED <<options, cpVars, dataVars>>

(* It blocks in open until the other end is opened too.                    *)
OpenFifo(a) ==
    /\ state[a] = "loop" /\ pc \in {"pipe", "wait"}
    /\ Goto(a, "opening")
    /\ fifo' = IF a = "child"
               THEN [fifo EXCEPT !.writer = "opening"]
               ELSE [fifo EXCEPT !.reader = IF fifo.writer = "open" THEN "open" ELSE "opening"]
    /\ UNCHANGED <<options, cpVars, tries, maxtries, errs, unlinking, ret, hop, dst>>

Opened ==
    /\ fifo.reader = "opening" /\ fifo.writer = "opening"
    /\ fifo' = [fifo EXCEPT !.reader = "open", !.writer = "open"]
    /\ state' = [a \in Agents |-> "open"]
    /\ UNCHANGED <<options, cpVars, tries, maxtries, errs, unlinking, ret, hop, dst>>

(* The first command has written everything, or dies on the way: also of   *)
(* SIGPIPE when its reader has gone.                                       *)
WriterEnds ==
    /\ state["child"] = "open"
    /\ \/ /\ fifo.reader = "open"
          /\ CommandEnds("child", 0, {})
          /\ fifo' = [fifo EXCEPT !.writer = "closed", !.data = "whole"]
       \/ /\ "bad" \in faults \/ fifo.reader = "closed"
          /\ \E says \in Says(1) : CommandEnds("child", 1, says)
          /\ fifo' = [fifo EXCEPT !.writer = "closed", !.data = "part"]
    /\ UNCHANGED <<options, cpVars, hop, dst>>

(* The second has read to the end of file and takes what it got for all,   *)
(* or dies on the way.                                                     *)
ReaderEnds ==
    /\ state["main"] = "open"
    /\ \/ /\ fifo.writer = "closed"
          /\ CommandEnds("main", 0, {})
          /\ dst' = [dst EXCEPT ![i] = IF fifo.data = "whole" THEN "whole" ELSE "part"]
       \/ /\ "bad" \in faults
          /\ \E says \in Says(1) : CommandEnds("main", 1, says)
          /\ dst' = [dst EXCEPT ![i] = "part"]
    /\ fifo' = [fifo EXCEPT !.reader = "closed"]
    /\ UNCHANGED <<options, cpVars, hop>>

-----------------------------------------------------------------------------
(* do_cp_bg *)

ChildReturns ==
    /\ state["child"] = "returned"
    /\ Goto("child", IF ret["child"] = 0 THEN "exited" ELSE "unwedging")
    /\ UNCHANGED <<options, cpVars, tries, maxtries, errs, unlinking, ret, dataVars>>

(* Mutant: exits at once.                                                  *)
ExitAtOnce ==
    /\ state["child"] = "unwedging"
    /\ Goto("child", "exited")
    /\ UNCHANGED <<options, cpVars, tries, maxtries, errs, unlinking, ret, dataVars>>

(* After 5 s the child opens its end without waiting and closes it, which  *)
(* a reader blocked in open takes for an end of file.  It is tried once.   *)
Unwedge ==
    /\ state["child"] = "unwedging"
    /\ "slow" \in faults \/ state["main"] # "loop"
    /\ IF fifo.reader = "opening"
       THEN /\ fifo' = [fifo EXCEPT !.reader = "open", !.writer = "closed"]
            /\ state' = [state EXCEPT !["child"] = "exited", !["main"] = "open"]
       ELSE Goto("child", "exited") /\ UNCHANGED fifo
    /\ UNCHANGED <<options, cpVars, tries, maxtries, errs, unlinking, ret, hop, dst>>

-----------------------------------------------------------------------------
(* do_cp, and the loop of cp *)

Direct ==
    /\ pc = "pick" /\ i <= NPairs
    /\ kinds[i] # "cross"
    /\ pc' = "direct"
    /\ Enter({"main"}, env)
    /\ UNCHANGED <<options, i, rres, env, ignored, dataVars>>

(* get_intermed unlinks what an earlier copy has left.                     *)
FirstHop ==
    /\ pc = "pick" /\ i <= NPairs
    /\ kinds[i] = "cross" /\ file
    /\ hop' = "none"
    /\ pc' = "hop1"
    /\ Enter({"main"}, env)
    /\ UNCHANGED <<options, i, rres, env, ignored, fifo, dst>>

SecondHop ==
    /\ pc = "hop1" /\ state["main"] = "returned"
    /\ ret["main"] = 0
    /\ pc' = "hop2"
    /\ Enter({"main"}, env)
    /\ UNCHANGED <<options, i, rres, env, ignored, dataVars>>

(* IFDH_CP_MAXRETRIES is put to 0 in both processes, and stays.            *)
Fork ==
    /\ pc = "pick" /\ i <= NPairs
    /\ kinds[i] = "cross" /\ ~file
    /\ env' = "zero"
    /\ fifo' = NoFifo
    /\ pc' = "pipe"
    /\ Enter(Agents, "zero")
    /\ UNCHANGED <<options, i, rres, ignored, hop, dst>>

(* The result of a pair is in, and cp goes on to the next.                 *)
Conclude(r) ==
    /\ rres' = IF rres = 0 THEN r ELSE rres
    /\ i' = i + 1
    /\ pc' = "pick"

ForkFails ==
    /\ "fork" \in faults
    /\ pc = "pick" /\ i <= NPairs
    /\ kinds[i] = "cross" /\ ~file
    /\ env' = "dangling"
    /\ Conclude(-1)
    /\ UNCHANGED <<options, ignored, retryVars, dataVars>>

Copied ==
    /\ state["main"] = "returned"
    /\ pc \in {"direct", "hop2"} \/ (pc = "hop1" /\ ret["main"] # 0)
    /\ Conclude(ret["main"])
    /\ Goto("main", "idle")
    /\ hop' = "none"
    /\ UNCHANGED <<options, env, ignored, tries, maxtries, errs, unlinking, ret, fifo, dst>>

AwaitChild ==
    /\ pc = "pipe" /\ state["main"] = "returned"
    /\ pc' = "wait"
    /\ UNCHANGED <<options, i, rres, env, ignored, retryVars, dataVars>>

(* Mutant: the child is not waited for.                                    *)
ReapIfThere ==
    /\ pc = "wait"
    /\ Conclude(ret["main"])
    /\ ignored' = IF state["child"] = "exited" /\ ret["child"] # 0 THEN ignored \union {i} ELSE ignored
    /\ env' = "dangling"
    /\ state' = [state EXCEPT !["main"] = "idle"]
    /\ fifo' = NoFifo
    /\ UNCHANGED <<options, tries, maxtries, errs, unlinking, ret, hop, dst>>

(* waitpid gives the child's result, which nobody looks at.                *)
Reap ==
    /\ pc = "wait" /\ state["child"] = "exited"
    /\ Conclude(ret["main"])
    /\ ignored' = IF ret["child"] # 0 THEN ignored \union {i} ELSE ignored
    /\ env' = "dangling"
    /\ state' = [a \in Agents |-> "idle"]
    /\ fifo' = NoFifo
    /\ UNCHANGED <<options, tries, maxtries, errs, unlinking, ret, hop, dst>>

Return ==
    /\ pc = "pick" /\ i > NPairs
    /\ pc' = "returned"
    /\ UNCHANGED <<options, i, rres, env, ignored, retryVars, dataVars>>

Main ==
    \/ Direct \/ FirstHop \/ SecondHop \/ Fork \/ ForkFails
    \/ Copied \/ AwaitChild \/ Reap \/ Return
    \/ RunCommand \/ Sleep \/ Remove
    \/ FailToOpen("main") \/ OpenFifo("main") \/ Opened \/ ReaderEnds

Child ==
    \/ FailToOpen("child") \/ OpenFifo("child") \/ WriterEnds
    \/ ChildReturns \/ Unwedge

Next == Main \/ Child

Spec == Init /\ [][Next]_vars

(* The processes run; a command that is not blocked ends (the transfer     *)
(* commands of ifdh.cfg have time limits).                                 *)
FairSpec == Spec /\ WF_vars(Main) /\ WF_vars(Child)

-----------------------------------------------------------------------------
(* Properties *)

(* When cp returns 0 every pair has arrived whole, but for those whose     *)
(* background copy failed without anybody looking.                         *)
SuccessMeansCopied ==
    pc = "returned" /\ rres = 0 =>
        \A p \in Pairs : dst[p] = "whole" \/ p \in ignored

(* A copy is given up before the user's number of retries only for an      *)
(* "exists", a wildcard or a signal, as long as no pipe was used before;   *)
(* and never tried more often.                                             *)
AllTriesUsed ==
    state["main"] = "returned" /\ ret["main"] = 1 /\ env = "user" =>
        \/ tries["main"] = MaxRetries + 1
        \/ tries["main"] <= MaxRetries /\ (kinds[i] = "star" \/ "exists" \in errs["main"])

(* Between two pairs, and when cp returns, nothing is left running: a      *)
(* child that went on would open the FIFO of a later pair.                 *)
NothingLeftRunning ==
    pc \in {"pick", "returned"} => state["child"] = "idle"

(* cp ends although either end of a pipe dies while it is copied, or the   *)
(* first command does before it opens the FIFO; but not if the second      *)
(* fails before that, or is late to open it.                               *)
Termination ==
    faults \cap {"reader", "slow"} = {} => <>(pc \in {"returned", "aborted"})

=============================================================================
