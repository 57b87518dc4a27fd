------------------------------ MODULE DoCpProofs ------------------------------
(***************************************************************************)
(* Proofs about DoCp, for any number of pairs, any retries and any faults. *)
(*                                                                         *)
(* Control says where the two processes can be in relation to each other   *)
(* and to the FIFO, in particular that a command of a pipe is run once.    *)
(***************************************************************************)
EXTENDS DoCp, TLAPS

(* What a command that has ended leaves: a's process has returned, or goes *)
(* round its loop again while it has tries left.  It returns 0 only after  *)
(* a status 0 and no word of an error.                                     *)
LEMMA AfterCommand ==
  ASSUME TypeOK, NEW a \in Agents, NEW exit \in {0, 1},
         NEW says \in SUBSET {"256", "exists"}, CommandEnds(a, exit, says)
  PROVE  /\ tries' = [tries EXCEPT ![a] = tries[a] + 1]
         /\ errs' = [errs EXCEPT ![a] = errs[a] \union says]
         /\ maxtries' = maxtries
         /\ unlinking' \in [Agents -> BOOLEAN]
         /\ \/ /\ exit = 0 /\ "256" \notin says
               /\ state' = [state EXCEPT ![a] = "returned"]
               /\ ret' = [ret EXCEPT ![a] = 0]
            \/ /\ state' = [state EXCEPT ![a] = "returned"]
               /\ ret' = [ret EXCEPT ![a] = 1]
               /\ \/ "exists" \in errs[a] \union says
                  \/ kinds[i] = "star"
                  \/ tries[a] + 1 >= maxtries[a]
            \/ /\ tries[a] + 1 < maxtries[a]
               /\ \/ state' = [state EXCEPT ![a] = "removing"]
                  \/ state' = [state EXCEPT ![a] = "sleeping"]
               /\ ret' = ret
<1> DEFINE said == errs[a] \union says
           failed == Failed(exit, said)
           giveUp == \/ "exists" \in said /\ tries[a] > 0
                     \/ kinds[i] = "star"
                     \/ tries[a] + 1 >= maxtries[a]
<1>1. tries[a] \in Nat /\ maxtries[a] \in Nat
  BY DEF TypeOK
<1>2. /\ errs' = [errs EXCEPT ![a] = said]
      /\ tries' = [tries EXCEPT ![a] = tries[a] + 1]
      /\ maxtries' = maxtries
  BY DEF CommandEnds
<1>3. \/ ~failed /\ Leave(a, 0) /\ UNCHANGED unlinking
      \/ failed /\ giveUp /\ Leave(a, 1) /\ UNCHANGED unlinking
      \/ /\ failed /\ ~giveUp
         /\ Goto(a, IF unlinking[a] THEN "removing" ELSE "sleeping")
         /\ unlinking' = [unlinking EXCEPT ![a] = FALSE]
         /\ UNCHANGED ret
  BY DEF CommandEnds
<1>4. CASE ~failed /\ Leave(a, 0) /\ UNCHANGED unlinking
  BY <1>2, <1>4 DEF Leave, Goto, Failed, TypeOK
<1>5. CASE failed /\ giveUp /\ Leave(a, 1) /\ UNCHANGED unlinking
  BY <1>2, <1>5 DEF Leave, Goto, TypeOK
<1>6. CASE /\ failed /\ ~giveUp
           /\ Goto(a, IF unlinking[a] THEN "removing" ELSE "sleeping")
           /\ unlinking' = [unlinking EXCEPT ![a] = FALSE]
           /\ UNCHANGED ret
  <2>1. tries[a] + 1 < maxtries[a]
    BY <1>1, <1>6
  <2>2. unlinking' \in [Agents -> BOOLEAN]
    BY <1>6 DEF TypeOK
  <2> QED
    BY <1>2, <1>6, <2>1, <2>2 DEF Goto
<1> QED
  BY <1>3, <1>4, <1>5, <1>6

-----------------------------------------------------------------------------
(* Where the processes are.  The child is there for a pipe only, and until *)
(* it is reaped; each end of the FIFO is what the command that opened it   *)
(* makes of it; in a pipe there is one try, so that nothing is removed.    *)
InPair == {"direct", "hop1", "hop2", "pipe", "wait"}

Control ==
    /\ pc \in InPair => i <= NPairs
    /\ pc \in {"pick", "returned"} => state["main"] = "idle"
    /\ pc \notin {"pipe", "wait"} =>
          state["child"] = "idle" /\ state["main"] \notin {"opening", "open"}
    /\ pc \in {"pipe", "wait"} =>
          /\ state["main"] \in {"loop", "opening", "open", "returned"}
          /\ state["child"] \in States \ {"idle", "removing", "sleeping"}
          /\ \A a \in Agents : maxtries[a] = 1
    /\ fifo.reader = "opening" => pc \in {"pipe", "wait"} /\ state["main"] = "opening"
    /\ fifo.writer = "opening" => pc \in {"pipe", "wait"} /\ state["child"] = "opening"
    /\ pc = "wait" => state["main"] = "returned"

CpInv == TypeOK /\ Control

LEMMA TriesForUser == TriesFor("user") = {MaxRetries + 1}
  BY Zenon DEF TriesFor

LEMMA TriesForPipe == TriesFor("zero") = {1}
  BY Zenon DEF TriesFor

LEMMA TriesForLater == TriesFor("dangling") = {1, DefaultRetries + 1}
  BY Zenon DEF TriesFor

(* Entering retry_system: the processes of As are in its loop, with the    *)
(* same number of tries.                                                   *)
LEMMA EnterType ==
  ASSUME TypeOK, NEW As \in SUBSET Agents, NEW e \in {"user", "zero", "dangling"},
         Enter(As, e)
  PROVE  /\ state' \in [Agents -> States]
         /\ tries' \in [Agents -> Nat] /\ maxtries' \in [Agents -> Nat]
         /\ errs' \in [Agents -> SUBSET {"256", "exists"}]
         /\ unlinking' \in [Agents -> BOOLEAN]
         /\ ret' = ret
         /\ \A a \in As : state'[a] = "loop" /\ tries'[a] = 0 /\ maxtries'[a] \in TriesFor(e)
         /\ \A a \in Agents \ As : state'[a] = state[a] /\ maxtries'[a] = maxtries[a]
<1>1. TriesFor(e) \subseteq Nat
  BY TriesForUser, TriesForPipe, TriesForLater, ConstantsAssumption
<1>2. PICK n \in TriesFor(e) :
          maxtries' = [a \in Agents |-> IF a \in As THEN n ELSE maxtries[a]]
  BY DEF Enter
<1> QED
  BY <1>1, <1>2 DEF Enter, TypeOK, States

LEMMA CommandEndsType ==
  ASSUME TypeOK, NEW a \in Agents, NEW exit \in {0, 1},
         NEW says \in SUBSET {"256", "exists"}, CommandEnds(a, exit, says)
  PROVE  /\ state' \in [Agents -> States]
         /\ tries' \in [Agents -> Nat] /\ maxtries' \in [Agents -> Nat]
         /\ errs' \in [Agents -> SUBSET {"256", "exists"}]
         /\ unlinking' \in [Agents -> BOOLEAN]
         /\ ret' \in [Agents -> {-1, 0, 1}]
<1>1. \E s \in States : state' = [state EXCEPT ![a] = s]
  BY AfterCommand DEF States
<1>2. ret' = ret \/ \E r \in {0, 1} : ret' = [ret EXCEPT ![a] = r]
  BY AfterCommand
<1>3. /\ tries' = [tries EXCEPT ![a] = tries[a] + 1] /\ maxtries' = maxtries
      /\ errs' = [errs EXCEPT ![a] = errs[a] \union says]
      /\ unlinking' \in [Agents -> BOOLEAN]
  BY AfterCommand
<1>4. state' \in [Agents -> States]
  BY <1>1 DEF TypeOK
<1>5. tries' \in [Agents -> Nat] /\ maxtries' \in [Agents -> Nat]
  BY <1>3 DEF TypeOK
<1>6. errs' \in [Agents -> SUBSET {"256", "exists"}]
  <2>1. errs \in [Agents -> SUBSET {"256", "exists"}]
    BY DEF TypeOK
  <2>2. errs[a] \union says \in SUBSET {"256", "exists"}
    BY <2>1
  <2> QED
    BY <1>3, <2>1, <2>2
<1>7. ret' \in [Agents -> {-1, 0, 1}]
  BY <1>2 DEF TypeOK
<1> QED
  BY <1>3, <1>4, <1>5, <1>6, <1>7

LEMMA SaysType ==
  ASSUME NEW exit PROVE Says(exit) \subseteq SUBSET {"256", "exists"}
  BY DEF Says

LEMMA TypePreserved == CpInv /\ [Next]_vars => TypeOK'
<1> SUFFICES ASSUME CpInv, [Next]_vars PROVE TypeOK'
  OBVIOUS
<1> USE DEF CpInv
<1>1. CASE Direct \/ SecondHop
  BY <1>1, EnterType DEF Direct, SecondHop, TypeOK, Places, options, dataVars, Agents
<1>2. CASE FirstHop
  BY <1>2, EnterType DEF FirstHop, TypeOK, Places, Contents, options, Agents
<1>3. CASE Fork
  <2>1. fifo' \in [reader : Ends, writer : Ends, data : Contents]
    BY <1>3 DEF Fork, NoFifo, Ends, Contents
  <2> QED
    BY <1>3, <2>1, EnterType DEF Fork, TypeOK, Places, options
<1>4. CASE ForkFails
  BY <1>4, ConstantsAssumption DEF ForkFails, Conclude, TypeOK, Places, options, retryVars, dataVars
<1>5. CASE Copied
  <2>1. pc \in InPair
    BY <1>5 DEF Copied, InPair
  <2>2. ret["main"] \in {-1, 0, 1} /\ i + 1 \in 1 .. NPairs + 1
    BY <2>1, ConstantsAssumption DEF TypeOK, Control, Agents
  <2> QED
    BY <1>5, <2>2 DEF Copied, Conclude, Goto, TypeOK, Places, States, Contents, options
<1>6. CASE AwaitChild \/ Return
  BY <1>6 DEF AwaitChild, Return, TypeOK, Places, options, retryVars, dataVars
<1>7. CASE Reap
  <2>1. ret["main"] \in {-1, 0, 1} /\ i + 1 \in 1 .. NPairs + 1 /\ i \in Pairs
    BY <1>7, ConstantsAssumption DEF Reap, TypeOK, Control, Agents, InPair, Pairs
  <2>2. fifo' \in [reader : Ends, writer : Ends, data : Contents]
    BY <1>7 DEF Reap, NoFifo, Ends, Contents
  <2>3. state' \in [Agents -> States]
    BY <1>7 DEF Reap, States
  <2>4. ignored' \subseteq Pairs
    BY <1>7, <2>1 DEF Reap, TypeOK
  <2> QED
    BY <1>7, <2>1, <2>2, <2>3, <2>4 DEF Reap, Conclude, TypeOK, Places, options
<1>8. CASE RunCommand
  <2>1. \/ \E exit \in {0, 1} : \E says \in Says(exit) : CommandEnds("main", exit, says)
        \/ CommandKilled("main")
    BY <1>8 DEF RunCommand
  <2>2. /\ state' \in [Agents -> States]
        /\ tries' \in [Agents -> Nat] /\ maxtries' \in [Agents -> Nat]
        /\ errs' \in [Agents -> SUBSET {"256", "exists"}]
        /\ unlinking' \in [Agents -> BOOLEAN]
        /\ ret' \in [Agents -> {-1, 0, 1}]
    <3>1. CASE CommandKilled("main")
      BY <3>1 DEF CommandKilled, Leave, Goto, TypeOK, States, Agents
    <3>2. ASSUME NEW exit \in {0, 1}, NEW says \in Says(exit), CommandEnds("main", exit, says)
          PROVE  <2>2
      BY <3>2, SaysType, CommandEndsType DEF Agents
    <3> QED
      BY <2>1, <3>1, <3>2
  <2>3. UNCHANGED dataVars \/ \E c \in Contents : Write(c)
    BY <1>8 DEF RunCommand, TypeOK, Contents
  <2>4. /\ hop' \in Contents /\ dst' \in [Pairs -> Contents] /\ fifo' = fifo
    BY <2>3 DEF Write, dataVars, TypeOK
  <2> QED
    BY <1>8, <2>2, <2>4 DEF RunCommand, TypeOK, options, cpVars
<1>9. CASE Sleep
  BY <1>9 DEF Sleep, Goto, TypeOK, States, options, cpVars, dataVars
<1>10. CASE Remove
  <2>1. UNCHANGED dataVars \/ Write("none")
    BY <1>10 DEF Remove, dataVars
  <2>2. /\ hop' \in Contents /\ dst' \in [Pairs -> Contents] /\ fifo' = fifo
    BY <2>1 DEF Write, dataVars, TypeOK, Contents
  <2>3. /\ state' \in [Agents -> States]
        /\ errs' \in [Agents -> SUBSET {"256", "exists"}]
        /\ pc' \in Places /\ UNCHANGED <<i, rres, env, ignored>>
    BY <1>10 DEF Remove, Goto, TypeOK, States, Places, cpVars
  <2> QED
    BY <1>10, <2>2, <2>3 DEF Remove, TypeOK, options
<1>11. ASSUME NEW a \in Agents, FailToOpen(a) PROVE TypeOK'
  <2>1. PICK says \in Says(1) : CommandEnds(a, 1, says)
    BY <1>11 DEF FailToOpen
  <2> QED
    BY <1>11, <2>1, SaysType, CommandEndsType DEF FailToOpen, TypeOK, options, cpVars, dataVars
<1>12. ASSUME NEW a \in Agents, OpenFifo(a) PROVE TypeOK'
  <2>1. fifo' \in [reader : Ends, writer : Ends, data : Contents]
    BY <1>12 DEF OpenFifo, TypeOK, Ends
  <2> QED
    BY <1>12, <2>1 DEF OpenFifo, Goto, TypeOK, States, options, cpVars
<1>13. CASE Opened
  <2>1. fifo' \in [reader : Ends, writer : Ends, data : Contents]
    BY <1>13 DEF Opened, TypeOK, Ends
  <2> QED
    BY <1>13, <2>1 DEF Opened, TypeOK, States, options, cpVars
<1>14. CASE ReaderEnds
  <2>1. \E exit \in {0, 1} : \E says \in SUBSET {"256", "exists"} : CommandEnds("main", exit, says)
    BY <1>14, SaysType DEF ReaderEnds
  <2>2. fifo' \in [reader : Ends, writer : Ends, data : Contents]
    BY <1>14 DEF ReaderEnds, TypeOK, Ends
  <2>3. dst' \in [Pairs -> Contents]
    BY <1>14 DEF ReaderEnds, TypeOK, Contents
  <2> QED
    BY <1>14, <2>1, <2>2, <2>3, CommandEndsType DEF ReaderEnds, TypeOK, options, cpVars, Agents
<1>15. CASE WriterEnds
  <2>1. \E exit \in {0, 1} : \E says \in SUBSET {"256", "exists"} : CommandEnds("child", exit, says)
    BY <1>15, SaysType DEF WriterEnds
  <2>2. fifo' \in [reader : Ends, writer : Ends, data : Contents]
    BY <1>15 DEF WriterEnds, TypeOK, Ends, Contents
  <2> QED
    BY <1>15, <2>1, <2>2, CommandEndsType DEF WriterEnds, TypeOK, options, cpVars, Agents
<1>16. CASE ChildReturns
  BY <1>16 DEF ChildReturns, Goto, TypeOK, States, options, cpVars, dataVars
<1>17. CASE Unwedge
  <2>1. fifo' \in [reader : Ends, writer : Ends, data : Contents]
    BY <1>17 DEF Unwedge, TypeOK, Ends
  <2>2. state' \in [Agents -> States]
    BY <1>17 DEF Unwedge, Goto, TypeOK, States
  <2> QED
    BY <1>17, <2>1, <2>2 DEF Unwedge, TypeOK, options, cpVars
<1>18. CASE UNCHANGED vars
  BY <1>18 DEF TypeOK, vars, options, cpVars, retryVars, dataVars
<1> QED
  BY <1>1, <1>2, <1>3, <1>4, <1>5, <1>6, <1>7, <1>8, <1>9, <1>10, <1>11, <1>12, <1>13,
     <1>14, <1>15, <1>16, <1>17, <1>18 DEF Next, Main, Child, Agents

(* In a pipe a command that has ended is not run again.                    *)
LEMMA OneTry ==
  ASSUME TypeOK, NEW a \in Agents, maxtries[a] = 1, NEW exit \in {0, 1},
         NEW says \in SUBSET {"256", "exists"}, CommandEnds(a, exit, says)
  PROVE  /\ state' = [state EXCEPT ![a] = "returned"]
         /\ maxtries' = maxtries
         /\ \/ ret' = [ret EXCEPT ![a] = 1]
            \/ exit = 0 /\ ret' = [ret EXCEPT ![a] = 0]
<1>1. tries[a] \in Nat /\ ~(tries[a] + 1 < maxtries[a])
  BY DEF TypeOK
<1> QED
  BY <1>1, AfterCommand

LEMMA ControlPreserved == CpInv /\ [Next]_vars => Control'
<1> SUFFICES ASSUME CpInv, [Next]_vars PROVE Control'
  OBVIOUS
<1> USE DEF CpInv, Agents
<1> TypeOK'
  BY TypePreserved
<1>1. CASE Direct \/ FirstHop \/ SecondHop
  <2>1. /\ Enter({"main"}, env) /\ env \in {"user", "zero", "dangling"}
        /\ pc \in {"pick", "hop1"} /\ pc' \in {"direct", "hop1", "hop2"}
        /\ i <= NPairs /\ i' = i /\ fifo' = fifo
    BY <1>1 DEF Direct, FirstHop, SecondHop, Control, InPair, dataVars, TypeOK
  <2>2. state'["child"] = state["child"] /\ state'["main"] = "loop"
    BY <2>1, EnterType
  <2> QED
    BY <2>1, <2>2 DEF Control, InPair
<1>2. CASE Fork
  <2>1. \A a \in Agents : state'[a] = "loop" /\ maxtries'[a] = 1
    BY <1>2, EnterType, TriesForPipe DEF Fork
  <2>2. fifo'.reader = "none" /\ fifo'.writer = "none"
    BY <1>2 DEF Fork, NoFifo
  <2> QED
    BY <1>2, <2>1, <2>2 DEF Fork, Control, States
<1>3. CASE ForkFails
  BY <1>3 DEF ForkFails, Conclude, Control, retryVars, dataVars, InPair
<1>4. CASE Copied
  BY <1>4 DEF Copied, Conclude, Goto, Control, InPair, TypeOK
<1>5. CASE AwaitChild \/ Return
  BY <1>5 DEF AwaitChild, Return, Control, retryVars, dataVars, InPair
<1>6. CASE Reap
  <2>1. fifo'.reader = "none" /\ fifo'.writer = "none"
    BY <1>6 DEF Reap, NoFifo
  <2> QED
    BY <1>6, <2>1 DEF Reap, Conclude, Control, InPair
<1>7. CASE RunCommand
  <2>1. pc \in {"direct", "hop1", "hop2"} /\ pc' = pc /\ i' = i
    BY <1>7 DEF RunCommand, cpVars
  <2>2. state'["child"] = state["child"] /\ state'["main"] \notin {"opening", "open"}
    <3>1. CASE CommandKilled("main")
      BY <3>1 DEF CommandKilled, Leave, Goto, TypeOK
    <3>2. ASSUME NEW exit \in {0, 1}, NEW says \in Says(exit), CommandEnds("main", exit, says)
          PROVE  <2>2
      BY <3>2, SaysType, AfterCommand DEF TypeOK
    <3> QED
      BY <1>7, <3>1, <3>2 DEF RunCommand
  <2>3. fifo' = fifo
    BY <1>7 DEF RunCommand, Write, dataVars
  <2> QED
    BY <2>1, <2>2, <2>3 DEF Control, InPair
<1>8. CASE Sleep
  BY <1>8 DEF Sleep, Goto, Control, InPair, TypeOK, cpVars, dataVars
<1>9. CASE Remove
  <2>1. pc \notin {"pipe", "wait", "pick", "returned"}
    BY <1>9 DEF Remove, Control
  <2>2. pc' = pc \/ pc' = "aborted"
    BY <1>9 DEF Remove, cpVars
  <2>3. /\ state'["child"] = state["child"] /\ i' = i
        /\ state'["main"] \in {"loop", "idle"}
    BY <1>9 DEF Remove, Goto, cpVars, TypeOK
  <2>4. fifo' = fifo
    BY <1>9 DEF Remove, Write, dataVars
  <2> QED
    BY <2>1, <2>2, <2>3, <2>4 DEF Control, InPair
<1>10. ASSUME NEW a \in Agents, FailToOpen(a) PROVE Control'
  <2>1. /\ state[a] = "loop" /\ pc \in {"pipe", "wait"}
        /\ UNCHANGED <<i, pc, fifo>>
    BY <1>10 DEF FailToOpen, cpVars, dataVars
  <2>2. state' = [state EXCEPT ![a] = "returned"] /\ maxtries' = maxtries
    BY <1>10, <2>1, OneTry, SaysType DEF FailToOpen, Control
  <2> QED
    BY <2>1, <2>2 DEF Control, InPair, States, TypeOK
<1>11. ASSUME NEW a \in Agents, OpenFifo(a) PROVE Control'
  <2>1. a = "child" => fifo'.reader = fifo.reader
    BY <1>11 DEF OpenFifo, TypeOK
  <2>2. a = "main" => fifo'.writer = fifo.writer
    BY <1>11 DEF OpenFifo, TypeOK
  <2> QED
    BY <1>11, <2>1, <2>2 DEF OpenFifo, Goto, Control, InPair, States, TypeOK, cpVars
<1>12. CASE Opened
  <2>1. fifo'.reader = "open" /\ fifo'.writer = "open"
    BY <1>12 DEF Opened, TypeOK
  <2>2. state["main"] = "opening" /\ pc \in {"pipe", "wait"}
    BY <1>12 DEF Opened, Control
  <2> QED
    BY <1>12, <2>1, <2>2 DEF Opened, Control, InPair, States, cpVars
<1>13. CASE ReaderEnds
  <2>1. \E exit \in {0, 1} : \E says \in SUBSET {"256", "exists"} : CommandEnds("main", exit, says)
    BY <1>13, SaysType DEF ReaderEnds
  <2>2. fifo'.reader = "closed" /\ fifo'.writer = fifo.writer
    BY <1>13 DEF ReaderEnds, TypeOK
  <2> QED
    BY <1>13, <2>1, <2>2, OneTry, AfterCommand DEF ReaderEnds, Control, InPair, TypeOK, cpVars
<1>14. CASE WriterEnds
  <2>1. \E exit \in {0, 1} : \E says \in SUBSET {"256", "exists"} : CommandEnds("child", exit, says)
    BY <1>14, SaysType DEF WriterEnds
  <2>2. fifo'.writer = "closed" /\ fifo'.reader = fifo.reader
    BY <1>14 DEF WriterEnds, TypeOK
  <2> QED
    BY <1>14, <2>1, <2>2, OneTry DEF WriterEnds, Control, InPair, States, TypeOK, cpVars
<1>15. CASE ChildReturns
  BY <1>15 DEF ChildReturns, Goto, Control, InPair, States, TypeOK, cpVars, dataVars
<1>16. CASE Unwedge
  <2>1. CASE fifo.reader = "opening"
    <3>1. fifo'.reader = "open" /\ fifo'.writer = "closed"
      BY <1>16, <2>1 DEF Unwedge, TypeOK
    <3> QED
      BY <1>16, <2>1, <3>1 DEF Unwedge, Control, InPair, States, TypeOK, cpVars
  <2>2. CASE fifo.reader # "opening"
    BY <1>16, <2>2 DEF Unwedge, Goto, Control, InPair, States, TypeOK, cpVars
  <2> QED
    BY <2>1, <2>2
<1>17. CASE UNCHANGED vars
  BY <1>17 DEF Control, vars, cpVars, retryVars, dataVars
<1> QED
  BY <1>1, <1>2, <1>3, <1>4, <1>5, <1>6, <1>7, <1>8, <1>9, <1>10, <1>11, <1>12, <1>13,
     <1>14, <1>15, <1>16, <1>17 DEF Next, Main, Child

(* Types and control hold throughout.                                      *)
LEMMA CpInvariant == Spec => []CpInv
<1>1. Init => CpInv
  <2>1. ASSUME Init PROVE TypeOK
    <3>1. 1 \in 1 .. NPairs + 1
      BY ConstantsAssumption
    <3>2. NoFifo \in [reader : Ends, writer : Ends, data : Contents]
      BY DEF NoFifo, Ends, Contents
    <3> QED
      BY <2>1, <3>1, <3>2 DEF Init, TypeOK, Places, States, Contents
  <2>2. ASSUME Init PROVE Control
    BY <2>2 DEF Init, Control, InPair, NoFifo, Agents
  <2> QED
    BY <2>1, <2>2 DEF CpInv
<1>2. CpInv /\ [Next]_vars => CpInv'
  BY TypePreserved, ControlPreserved DEF CpInv
<1> QED
  BY <1>1, <1>2, PTL DEF Spec

(* Every variable keeps its type: the position never leaves the list, and  *)
(* the tries are never negative, whatever the environment comes to hold.   *)
THEOREM TypeCorrect == Spec => []TypeOK
<1>1. CpInv => TypeOK
  BY DEF CpInv
<1> QED
  BY CpInvariant, <1>1, PTL

(* Between two pairs, and when cp returns, the forked child has been       *)
(* waited for, however its end of the pipe and the other have failed.      *)
THEOREM ChildIsReaped == Spec => []NothingLeftRunning
<1>1. CpInv => NothingLeftRunning
  BY DEF CpInv, Control, NothingLeftRunning
<1> QED
  BY CpInvariant, <1>1, PTL

-----------------------------------------------------------------------------
(* What has been copied.  A result 0 of one command means a whole copy of  *)
(* what it read; what a pipe's second command read was whole unless the    *)
(* first failed, which its status says before the FIFO is closed.          *)
Finished == {"returned", "unwedging", "exited"}

ChildFailed == state["child"] \in Finished /\ ret["child"] # 0

MainSucceeded == state["main"] = "returned" /\ ret["main"] = 0

Copies ==
    /\ rres = 0 => \A p \in Pairs : p < i => dst[p] = "whole" \/ p \in ignored
    /\ pc = "returned" => i > NPairs
    /\ pc \in {"direct", "hop2"} /\ MainSucceeded => dst[i] = "whole"
    /\ pc = "hop1" /\ MainSucceeded => hop = "whole"
    /\ pc = "hop2" => hop = "whole"
    /\ pc \in {"pipe", "wait"} =>
          /\ state["child"] \notin Finished => fifo.writer # "closed"
          /\ state["child"] = "unwedging" => ret["child"] # 0
          /\ fifo.writer = "closed" => fifo.data = "whole" \/ ChildFailed
          /\ MainSucceeded => dst[i] = "whole" \/ ChildFailed

CopyInv == CpInv /\ Copies

LEMMA CopiesPreserved == CopyInv /\ [Next]_vars => Copies'
<1> SUFFICES ASSUME CopyInv, [Next]_vars PROVE Copies'
  OBVIOUS
<1> USE DEF CopyInv, CpInv, Agents, MainSucceeded, ChildFailed, Finished
<1> TypeOK' /\ Control'
  BY TypePreserved, ControlPreserved
<1> DEFINE Before(p) == dst[p] = "whole" \/ p \in ignored
<1>1. CASE Direct \/ FirstHop \/ SecondHop
  <2>1. /\ Enter({"main"}, env) /\ env \in {"user", "zero", "dangling"}
        /\ pc' \in {"direct", "hop1", "hop2"}
        /\ UNCHANGED <<i, rres, ignored, dst>>
        /\ pc' = "hop2" => MainSucceeded /\ pc = "hop1" /\ hop' = hop
    BY <1>1 DEF Direct, FirstHop, SecondHop, dataVars, TypeOK
  <2>2. state'["main"] = "loop"
    BY <2>1, EnterType
  <2> QED
    BY <2>1, <2>2 DEF Copies
<1>2. CASE Fork
  <2>1. \A a \in Agents : state'[a] = "loop"
    BY <1>2, EnterType DEF Fork
  <2>2. fifo'.writer = "none" /\ pc' = "pipe" /\ UNCHANGED <<i, rres, ignored, dst>>
    BY <1>2 DEF Fork, NoFifo
  <2> QED
    BY <2>1, <2>2 DEF Copies
<1>3. CASE ForkFails
  BY <1>3 DEF ForkFails, Conclude, Copies, retryVars, dataVars
<1>4. CASE Copied
  <2>1. /\ pc' = "pick" /\ i' = i + 1 /\ UNCHANGED <<dst, ignored>>
        /\ rres' = IF rres = 0 THEN ret["main"] ELSE rres
    BY <1>4 DEF Copied, Conclude
  <2>2. rres' = 0 => rres = 0 /\ dst[i] = "whole"
    BY <1>4, <2>1 DEF Copied, Copies
  <2>3. ASSUME rres' = 0, NEW p \in Pairs, p < i + 1 PROVE Before(p)
    BY <2>2, <2>3 DEF Copies, Pairs, TypeOK
  <2> QED
    BY <2>1, <2>3 DEF Copies
<1>5. CASE AwaitChild \/ Return
  BY <1>5 DEF AwaitChild, Return, Copies, retryVars, dataVars
<1>6. CASE Reap
  <2>1. /\ pc' = "pick" /\ i' = i + 1 /\ dst' = dst
        /\ rres' = IF rres = 0 THEN ret["main"] ELSE rres
        /\ ignored' = IF ret["child"] # 0 THEN ignored \union {i} ELSE ignored
    BY <1>6 DEF Reap, Conclude
  <2>2. rres' = 0 => rres = 0 /\ (dst[i] = "whole" \/ i \in ignored')
    BY <1>6, <2>1 DEF Reap, Copies, Control
  <2>3. ASSUME rres' = 0, NEW p \in Pairs, p < i + 1 PROVE Before(p)'
    BY <2>1, <2>2, <2>3 DEF Copies, Pairs, TypeOK
  <2> QED
    BY <2>1, <2>3 DEF Copies
<1>7. CASE RunCommand
  <2>1. /\ pc \in {"direct", "hop1", "hop2"} /\ UNCHANGED <<i, pc, rres, ignored>>
        /\ state["main"] = "loop" /\ i \in Pairs
    BY <1>7 DEF RunCommand, cpVars, Control, InPair, TypeOK, Pairs
  <2>2. \A p \in Pairs : p < i => dst'[p] = dst[p]
    BY <1>7, <2>1 DEF RunCommand, Write, dataVars, TypeOK, Pairs
  <2>3. MainSucceeded' =>
          \/ pc = "hop1" /\ hop' = "whole"
          \/ pc = "direct" /\ dst'[i] = "whole"
          \/ pc = "hop2" /\ dst'[i] = hop
    <3>1. CASE CommandKilled("main")
      BY <3>1 DEF CommandKilled, Leave, Goto, TypeOK
    <3>2. ASSUME NEW says \in Says(0), CommandEnds("main", 0, says),
                 IF says = {} THEN Write(IF pc = "hop2" THEN hop ELSE "whole")
                 ELSE UNCHANGED dataVars \/ Write("part")
          PROVE  <2>3
      <4>1. says = {} \/ "256" \in says
        BY DEF Says
      <4>2. MainSucceeded' => says = {}
        BY <3>2, <4>1, SaysType, AfterCommand DEF TypeOK
      <4> QED
        BY <2>1, <3>2, <4>2 DEF Write, TypeOK
    <3>3. ASSUME NEW says \in Says(1), CommandEnds("main", 1, says) PROVE <2>3
      BY <3>3, SaysType, AfterCommand DEF TypeOK
    <3> QED
      BY <1>7, <3>1, <3>2, <3>3 DEF RunCommand
  <2>4. pc = "hop2" => hop' = hop
    BY <1>7 DEF RunCommand, Write, dataVars
  <2> QED
    BY <2>1, <2>2, <2>3, <2>4 DEF Copies
<1>8. CASE Sleep
  BY <1>8 DEF Sleep, Goto, Copies, Control, TypeOK, cpVars, dataVars
<1>9. CASE Remove
  <2>1. /\ state["main"] = "removing" /\ state'["main"] \in {"loop", "idle"}
        /\ UNCHANGED <<i, rres, ignored>>
        /\ pc' = pc \/ pc' = "aborted"
        /\ UNCHANGED dataVars \/ Write("none")
    BY <1>9 DEF Remove, Goto, TypeOK, cpVars
  <2>2. pc \in {"direct", "hop1", "hop2", "aborted"}
    BY <2>1 DEF Control, TypeOK, Places
  <2>3. /\ \A p \in Pairs : p < i => dst'[p] = dst[p]
        /\ pc = "hop2" => hop' = hop
    BY <2>1 DEF Write, dataVars, TypeOK, Pairs
  <2> QED
    BY <2>1, <2>2, <2>3 DEF Copies
<1>10. ASSUME NEW a \in Agents, FailToOpen(a) PROVE Copies'
  <2>1. /\ state[a] = "loop" /\ pc \in {"pipe", "wait"}
        /\ UNCHANGED <<i, pc, rres, ignored, fifo, dst>>
    BY <1>10 DEF FailToOpen, cpVars, dataVars
  <2>2. state' = [state EXCEPT ![a] = "returned"] /\ ret' = [ret EXCEPT ![a] = 1]
    BY <1>10, <2>1, OneTry, SaysType DEF FailToOpen, Control
  <2> QED
    BY <2>1, <2>2 DEF Copies, TypeOK
<1>11. ASSUME NEW a \in Agents, OpenFifo(a) PROVE Copies'
  <2>1. a = "main" => fifo'.writer = fifo.writer
    BY <1>11 DEF OpenFifo, TypeOK
  <2>2. a = "child" => fifo'.writer = "opening"
    BY <1>11 DEF OpenFifo, TypeOK
  <2>3. fifo'.data = fifo.data
    BY <1>11 DEF OpenFifo, TypeOK
  <2> QED
    BY <1>11, <2>1, <2>2, <2>3 DEF OpenFifo, Goto, Copies, TypeOK, cpVars
<1>12. CASE Opened
  <2>1. fifo'.writer = "open" /\ pc \in {"pipe", "wait"} /\ state'["main"] = "open"
    BY <1>12 DEF Opened, TypeOK, Control
  <2> QED
    BY <1>12, <2>1 DEF Opened, Copies, cpVars
<1>13. CASE ReaderEnds
  <2>1. /\ pc \in {"pipe", "wait"} /\ i \in Pairs
        /\ UNCHANGED <<i, pc, rres, ignored>>
        /\ fifo'.writer = fifo.writer /\ fifo'.data = fifo.data
    BY <1>13 DEF ReaderEnds, Control, cpVars, InPair, Pairs, TypeOK
  <2>2. \A p \in Pairs : p < i => dst'[p] = dst[p]
    BY <1>13, <2>1 DEF ReaderEnds, Pairs, TypeOK
  <2>3. CASE /\ fifo.writer = "closed" /\ CommandEnds("main", 0, {})
             /\ dst' = [dst EXCEPT ![i] = IF fifo.data = "whole" THEN "whole" ELSE "part"]
    <3>1. /\ state' = [state EXCEPT !["main"] = "returned"]
          /\ \E r \in {0, 1} : ret' = [ret EXCEPT !["main"] = r]
      BY <2>1, <2>3, OneTry DEF Control
    <3>2. ChildFailed' = ChildFailed /\ (state["child"] = state'["child"]) /\ ret["child"] = ret'["child"]
      BY <3>1 DEF TypeOK
    <3>3. dst'[i] = "whole" \/ ChildFailed'
      BY <2>1, <2>3, <3>2 DEF Copies, TypeOK
    <3> QED
      BY <2>1, <2>2, <3>2, <3>3 DEF Copies
  <2>4. CASE \E says \in Says(1) : CommandEnds("main", 1, says)
    <3>1. /\ state' = [state EXCEPT !["main"] = "returned"]
          /\ ret' = [ret EXCEPT !["main"] = 1]
      BY <2>1, <2>4, SaysType, OneTry DEF Control
    <3> QED
      BY <2>1, <2>2, <3>1 DEF Copies, TypeOK
  <2> QED
    BY <1>13, <2>3, <2>4 DEF ReaderEnds
<1>14. CASE WriterEnds
  <2>1. /\ pc \in {"pipe", "wait"} /\ state["child"] = "open"
        /\ UNCHANGED <<i, pc, rres, ignored, dst>>
    BY <1>14 DEF WriterEnds, Control, cpVars
  <2>2. CASE /\ CommandEnds("child", 0, {})
             /\ fifo' = [fifo EXCEPT !.writer = "closed", !.data = "whole"]
    <3>1. /\ state' = [state EXCEPT !["child"] = "returned"]
          /\ \E r \in {0, 1} : ret' = [ret EXCEPT !["child"] = r]
      BY <2>1, <2>2, OneTry DEF Control
    <3>2. fifo'.data = "whole"
      BY <2>2 DEF TypeOK
    <3> QED
      BY <2>1, <3>1, <3>2 DEF Copies, TypeOK
  <2>3. CASE \E says \in Says(1) : CommandEnds("child", 1, says)
    <3>1. /\ state' = [state EXCEPT !["child"] = "returned"]
          /\ ret' = [ret EXCEPT !["child"] = 1]
      BY <2>1, <2>3, SaysType, OneTry DEF Control
    <3> QED
      BY <2>1, <3>1 DEF Copies, TypeOK
  <2> QED
    BY <1>14, <2>2, <2>3 DEF WriterEnds
<1>15. CASE ChildReturns
  BY <1>15 DEF ChildReturns, Goto, Copies, TypeOK, cpVars, dataVars
<1>16. CASE Unwedge
  <2>1. CASE fifo.reader = "opening"
    <3>1. fifo'.writer = "closed" /\ fifo'.data = fifo.data
      BY <1>16, <2>1 DEF Unwedge, TypeOK
    <3> QED
      BY <1>16, <2>1, <3>1 DEF Unwedge, Copies, Control, TypeOK, cpVars
  <2>2. CASE fifo.reader # "opening"
    BY <1>16, <2>2 DEF Unwedge, Goto, Copies, TypeOK, cpVars
  <2> QED
    BY <2>1, <2>2
<1>17. CASE UNCHANGED vars
  BY <1>17 DEF Copies, vars, cpVars, retryVars, dataVars
<1> QED
  BY <1>1, <1>2, <1>3, <1>4, <1>5, <1>6, <1>7, <1>8, <1>9, <1>10, <1>11, <1>12, <1>13,
     <1>14, <1>15, <1>16, <1>17 DEF Next, Main, Child

(* When cp returns 0, every pair is at its destination, except where the   *)
(* background copy of a pipe failed, which cp does not look at.            *)
THEOREM SuccessIsCopied == Spec => []SuccessMeansCopied
<1>1. Init => Copies
  BY DEF Init, Copies, Agents, MainSucceeded, Pairs
<1>2. CopyInv /\ [Next]_vars => Copies'
  BY CopiesPreserved
<1>3. CopyInv => SuccessMeansCopied
  <2> SUFFICES ASSUME CopyInv, pc = "returned", rres = 0, NEW p \in Pairs
               PROVE  dst[p] = "whole" \/ p \in ignored
    BY DEF SuccessMeansCopied
  <2>1. i > NPairs /\ p < i
    BY ConstantsAssumption DEF CopyInv, Copies, CpInv, TypeOK, Pairs
  <2> QED
    BY <2>1 DEF CopyInv, Copies
<1> QED
  BY CpInvariant, <1>1, <1>2, <1>3, PTL DEF Spec, CopyInv

-----------------------------------------------------------------------------
(* The tries: as long as the environment is the user's, a process that is  *)
(* in its loop has tries left, and one that gave up has used them all or   *)
(* has been told why not.                                                  *)
Tries ==
    env = "user" =>
        /\ pc \notin {"pipe", "wait"}
        /\ state["main"] # "idle" => maxtries["main"] = MaxRetries + 1
        /\ state["main"] \in {"loop", "removing", "sleeping"} => tries["main"] <= MaxRetries
        /\ AllTriesUsed

LEMMA TriesPreserved == CpInv /\ Tries /\ [Next]_vars => Tries'
<1> SUFFICES ASSUME CpInv, Tries, [Next]_vars, env' = "user" PROVE Tries'
  BY DEF Tries
<1> USE DEF CpInv, Agents, AllTriesUsed
<1> TypeOK'
  BY TypePreserved
<1>1. CASE Direct \/ FirstHop \/ SecondHop
  <2>1. /\ Enter({"main"}, env) /\ env = "user" /\ pc' \in {"direct", "hop1", "hop2"}
    BY <1>1 DEF Direct, FirstHop, SecondHop
  <2>2. state'["main"] = "loop" /\ tries'["main"] = 0 /\ maxtries'["main"] = MaxRetries + 1
    BY <2>1, EnterType, TriesForUser
  <2> QED
    BY <2>1, <2>2, ConstantsAssumption DEF Tries
<1>2. CASE Fork \/ ForkFails \/ Reap
  BY <1>2 DEF Fork, ForkFails, Reap
<1>3. CASE Copied
  BY <1>3 DEF Copied, Conclude, Goto, Tries, TypeOK
<1>4. CASE AwaitChild \/ Return
  BY <1>4 DEF AwaitChild, Return, Tries, retryVars, options
<1>5. CASE RunCommand
  <2>1. UNCHANGED <<i, kinds, env, pc>> /\ state["main"] = "loop"
    BY <1>5 DEF RunCommand, options, cpVars
  <2>2. CASE CommandKilled("main")
    BY <2>1, <2>2 DEF CommandKilled, Leave, Goto, Tries, TypeOK
  <2>3. ASSUME NEW exit \in {0, 1}, NEW says \in Says(exit), CommandEnds("main", exit, says)
        PROVE  Tries'
    <3>1. /\ maxtries["main"] = MaxRetries + 1 /\ tries["main"] <= MaxRetries
          /\ tries["main"] \in Nat /\ tries'["main"] = tries["main"] + 1
      BY <2>1, <2>3, SaysType, AfterCommand DEF Tries, TypeOK
    <3> QED
      BY <2>1, <2>3, <3>1, SaysType, AfterCommand, ConstantsAssumption DEF Tries, TypeOK
  <2> QED
    BY <1>5, <2>2, <2>3 DEF RunCommand
<1>6. CASE Sleep
  BY <1>6 DEF Sleep, Goto, Tries, TypeOK, options, cpVars
<1>7. CASE Remove
  BY <1>7 DEF Remove, Goto, Tries, TypeOK, options, cpVars
<1>8. ASSUME NEW a \in Agents, FailToOpen(a) \/ OpenFifo(a) PROVE Tries'
  BY <1>8 DEF FailToOpen, OpenFifo, Tries, cpVars
<1>9. CASE Opened \/ ReaderEnds \/ WriterEnds \/ ChildReturns \/ Unwedge
  BY <1>9 DEF Opened, ReaderEnds, WriterEnds, ChildReturns, Unwedge, Control, Tries,
              cpVars
<1>10. CASE UNCHANGED vars
  BY <1>10 DEF Tries, vars, options, cpVars, retryVars
<1> QED
  BY <1>1, <1>2, <1>3, <1>4, <1>5, <1>6, <1>7, <1>8, <1>9, <1>10 DEF Next, Main, Child

(* A copy is given up before the user's number of tries only for a wild-   *)
(* card or an "exists", and is never tried more often.                     *)
THEOREM TriesAreUsed == Spec => []AllTriesUsed
<1>1. Init => Tries
  BY DEF Init, Tries, AllTriesUsed, Agents
<1>2. CpInv /\ Tries /\ [Next]_vars => Tries'
  BY TriesPreserved
<1>3. Tries => AllTriesUsed
  BY DEF Tries, AllTriesUsed
<1> QED
  BY CpInvariant, <1>1, <1>2, <1>3, PTL DEF Spec

=============================================================================
