---------------------------- MODULE DeliveryProofs ----------------------------
(***************************************************************************)
(* Proofs about Delivery, for any jobs, files and settings.  What a service*)
(* that understands its jobs and answers sooner or later gives rests on    *)
(* Admission, and needs the default number of tries to be more than one.   *)
(***************************************************************************)
EXTENDS Delivery, FiniteSetTheorems, TLAPS

-----------------------------------------------------------------------------
(* A caller that finishes one file before it gets the next has at most one *)
(* file, while it makes no call; and it is the last one the library got.   *)
OneFile(j) ==
    IF pc[j] = "idle" THEN \E f \in Files \union {Junk} : cur[j] \subseteq {f}
    ELSE cur[j] = {}

LastIsMine(j) ==
    service = "dd" =>
        /\ last[j] # NoFile => caller # "cli" /\ cur[j] \subseteq {last[j]}
        /\ caller # "cli" /\ cur[j] # {} => last[j] # NoFile

SaidSo(j) ==
    report[j].status = "consumed" /\ report[j].file \in Files =>
        report[j].file \in said[j]

Resting == \A j \in Jobs : Asking(j) \/ tries[j] = 0

OneByOne ==
    caller # "ahead" => \A j \in Jobs : OneFile(j) /\ LastIsMine(j) /\ SaidSo(j)

-----------------------------------------------------------------------------
(* Every answer comes, if need be at the second try, and what is asked is  *)
(* understood: a SAM job has its process id, the Data Dispatcher serves    *)
(* requests without a token, and a report is pending only until it has     *)
(* been made.                                                              *)
Mild == SamTries > 1 /\ Understood /\ faults \subseteq {"busy", "wait", "slow"}

Admission(j) ==
    /\ service = "sam" /\ pc[j] \notin {"start", "establish"} => link[j].process = "given"
    /\ pc[j] \in {"establish", "end"} => service = "sam"
    /\ pc[j] = "auth" => service = "dd"
    /\ pc[j] = "report" \/ (pc[j] = "auth" /\ link[j].going = "report") \/ report[j] = NoReport
    /\ (timed /\ pc[j] = "next") \/ res[j] = NoFile

Admissions == Mild => \A j \in Jobs : Admission(j)

(* What a job works on is reserved for it, and what it said is done or is  *)
(* what it is reporting.                                                   *)
Holds(j) ==
    /\ \A f \in Files : WorksOn(j, f) => file[f] = "reserved" /\ holder[f] = j
    /\ \A f \in said[j] :
          file[f] = "done" \/ report[j] = [file |-> f, status |-> "consumed"]

Holdings ==
    Mild /\ "slow" \notin faults /\ caller # "ahead" => \A j \in Jobs : Holds(j)

Remembered ==
    Mild /\ ~timed /\ caller # "ahead" =>
        \A f \in Files : file[f] = "reserved" =>
            holder[f] \in Jobs /\ WorksOn(holder[f], f)

-----------------------------------------------------------------------------
(* The service's part of a request, and the job's.                         *)
AnswerType ==
    [status : {200, 202, 204, 302, 400, 401, 404, 500},
     url : Files \union {NoFile, Junk}, retry : BOOLEAN]

LEMMA TriesAreMany ==
  ASSUME NEW j \in Jobs
  PROVE  /\ Tries(j) \in Nat \ {0}
         /\ SamTries > 1 => Tries(j) > 1
BY ConstantsAssumption DEF Tries

(* The answers to a getNextFile of a job that is admitted.                 *)
LEMMA FileAnswers ==
  ASSUME NEW a \in NextAnswers
  PROVE  /\ a \in AnswerType
         /\ a.status = 200 /\ ~a.retry => a.url \in Files
         /\ a.url \in Files => file[a.url] = "waiting" /\ a.status = 200 /\ ~a.retry
         /\ a.url # Junk
         /\ service = "dd" /\ a.retry => a.url = NoFile
         /\ service = "sam" /\ a.url = NoFile => Finished \/ "wait" \in faults
<1> USE DEF AnswerType
<1>1. CASE \E f \in Files : file[f] = "waiting" /\ a = Answer(200, f)
  BY <1>1, ConstantsAssumption DEF Answer
<1>2. CASE a = Wait /\ service = "dd"
  BY <1>2, ConstantsAssumption DEF Wait
<1>3. CASE a = Answer(202, NoFile) /\ "wait" \in faults
  BY <1>3, ConstantsAssumption DEF Answer
<1>4. CASE Finished /\ \E s \in {204, 400} : a = Answer(s, NoFile)
  BY <1>4, ConstantsAssumption DEF Answer
<1> QED
  BY <1>1, <1>2, <1>3, <1>4 DEF NextAnswers

LEMMA AnswersByCall ==
  ASSUME NEW j \in Jobs
  PROVE  /\ pc[j] = "next" =>
               AnswersTo(j) = IF Admitted(j) THEN NextAnswers ELSE {Answer(401, Junk)}
         /\ pc[j] = "report" =>
               AnswersTo(j) = {Answer(IF Valid(j) THEN 200 ELSE 400, NoFile)}
         /\ pc[j] = "end" =>
               AnswersTo(j) = {Answer(IF Admitted(j) /\ j \notin ended THEN 200 ELSE 404, NoFile)}
                              \union (IF "wait" \in faults THEN {Answer(202, NoFile)} ELSE {})
         /\ pc[j] \notin {"next", "report", "end"} => AnswersTo(j) = {Answer(200, NoFile)}
<1>1. CASE pc[j] = "next"
  BY <1>1, Zenon DEF AnswersTo
<1>2. CASE pc[j] = "report"
  BY <1>2, Zenon DEF AnswersTo
<1>3. CASE pc[j] = "end"
  BY <1>3, Zenon DEF AnswersTo
<1>4. CASE pc[j] \notin {"next", "report", "end"}
  BY <1>4, Zenon DEF AnswersTo
<1> QED
  BY <1>1, <1>2, <1>3, <1>4

LEMMA ServeByCall ==
  ASSUME NEW j \in Jobs, NEW a, Serve(j, a)
  PROVE  /\ pc[j] = "next" => HandOut(j, a)
         /\ pc[j] = "report" => TakeReport(j)
         /\ pc[j] = "end" => TakeEnd(j, a)
         /\ pc[j] \notin {"next", "report", "end"} => KeepFiles
<1>1. CASE pc[j] = "next"
  BY <1>1, Zenon DEF Serve
<1>2. CASE pc[j] = "report"
  BY <1>2, Zenon DEF Serve
<1>3. CASE pc[j] = "end"
  BY <1>3, Zenon DEF Serve
<1>4. CASE pc[j] \notin {"next", "report", "end"}
  BY <1>4, Zenon DEF Serve
<1> QED
  BY <1>1, <1>2, <1>3, <1>4

LEMMA AnswersType ==
  ASSUME NEW j \in Jobs, NEW a \in AnswersTo(j)
  PROVE  a \in AnswerType /\ (a.status = 200 => a.url # Junk)
<1>1. \A s \in {200, 202, 204, 302, 400, 401, 404, 500}, u \in {NoFile, Junk} :
         Answer(s, u) \in AnswerType /\ Answer(s, u).status = s /\ Answer(s, u).url = u
  BY DEF Answer, AnswerType
<1>2. CASE pc[j] = "next"
  BY <1>1, <1>2, AnswersByCall, FileAnswers
<1>3. CASE pc[j] # "next"
  BY <1>1, <1>3, AnswersByCall, ConstantsAssumption
<1> QED
  BY <1>2, <1>3

(* What an answer can make of the job.                                     *)
LEMMA AnsweredCases ==
  ASSUME NEW j \in Jobs, NEW a, Answered(j, a)
  PROVE  \/ /\ tries[j] + 1 < Tries(j) /\ Retried(a.status)
            /\ tries' = [tries EXCEPT ![j] = @ + 1]
            /\ UNCHANGED <<pc, callVars>>
         \/ /\ tries' = [tries EXCEPT ![j] = 0]
            /\ ~Again(j, a.status)
            /\ \/ pc[j] = "next" /\ service = "dd" /\ DdNext(j, a)
               \/ pc[j] = "next" /\ service # "dd" /\ Return(j, a.url)
               \/ pc[j] # "next" /\ Concluded(j, a.status) /\ UNCHANGED <<res, last, cur>>
BY DEF Answered, Again, SamNext

(* The service's part changes the files, the holders and who has ended.    *)
LEMMA ServiceTypes ==
  ASSUME TypeOK, NEW j \in Jobs, KeepFiles \/ \E a \in AnswersTo(j) : Serve(j, a)
  PROVE  /\ file' \in [Files -> {"waiting", "reserved", "done", "failed"}]
         /\ holder' \in [Files -> Jobs \union {NoFile}]
         /\ ended' \subseteq Jobs
<1> USE DEF TypeOK
<1>1. CASE KeepFiles
  BY <1>1 DEF KeepFiles, serviceVars
<1>2. ASSUME NEW a \in AnswersTo(j), Serve(j, a), ~KeepFiles
      PROVE  TRUE /\ file' \in [Files -> {"waiting", "reserved", "done", "failed"}]
             /\ holder' \in [Files -> Jobs \union {NoFile}] /\ ended' \subseteq Jobs
  <2>1. CASE HandOut(j, a)
    BY <1>2, <2>1 DEF HandOut
  <2>2. CASE TakeReport(j)
    BY <2>2 DEF TakeReport, Release
  <2>3. CASE TakeEnd(j, a)
    BY <2>3 DEF TakeEnd
  <2> QED
    BY <1>2, <2>1, <2>2, <2>3, ServeByCall
<1> QED
  BY <1>1, <1>2

(* A time-out of a call of the SAM client.                                 *)
SamTimesOut(j) ==
    /\ service # "dd"
    /\ tries' = [tries EXCEPT ![j] = 0]
    /\ \/ pc[j] = "next" /\ Return(j, NoFile)
       \/ pc[j] # "next" /\ Concluded(j, 500) /\ UNCHANGED <<res, last, cur>>

LEMMA CallCases ==
  ASSUME NEW j \in Jobs, Call(j)
  PROVE  /\ Asking(j) /\ UNCHANGED <<setting, said>>
         /\ KeepFiles \/ \E a \in AnswersTo(j) : Serve(j, a)
         /\ \/ \E a \in AnswerType : (a.status = 200 => a.url # Junk) /\ Answered(j, a)
            \/ Crash(j)
            \/ SamTimesOut(j)
<1>1. CASE Exchange(j)
  BY <1>1, AnswersType DEF Exchange
<1>2. \A s \in {302, 404, 500} : /\ Answer(s, Junk) \in AnswerType
                               /\ Answer(s, Junk).status # 200
  BY DEF Answer, AnswerType
<1>3. CASE Rebuff(j)
  BY <1>2, <1>3 DEF Rebuff
<1>4. CASE ServerError(j)
  BY <1>2, <1>4 DEF ServerError
<1>5. CASE NoAnswer(j)
  BY <1>5 DEF NoAnswer
<1>6. CASE TimeOut(j)
  BY <1>6 DEF TimeOut, SamTimesOut
<1> QED
  BY <1>1, <1>3, <1>4, <1>5, <1>6 DEF Call

(* Each field of a job keeps its type.                                     *)
LEMMA JobTypes ==
  ASSUME TypeOK, NEW j \in Jobs, Call(j)
  PROVE  /\ pc' \in [Jobs -> Calls \union {"start", "idle", "ended", "over", "crashed"}]
         /\ res' \in [Jobs -> Files \union {NoFile}]
         /\ last' \in [Jobs -> Files \union {NoFile}]
         /\ cur' \in [Jobs -> SUBSET (Files \union {Junk})]
         /\ report' \in [Jobs -> Reports] /\ link' \in [Jobs -> Links]
<1> DEFINE Typed ==
         /\ pc' \in [Jobs -> Calls \union {"start", "idle", "ended", "over", "crashed"}]
         /\ res' \in [Jobs -> Files \union {NoFile}]
         /\ last' \in [Jobs -> Files \union {NoFile}]
         /\ cur' \in [Jobs -> SUBSET (Files \union {Junk})]
         /\ report' \in [Jobs -> Reports] /\ link' \in [Jobs -> Links]
<1> USE DEF TypeOK
<1>1. NoReport \in Reports /\ NoLink \in Links
  BY DEF NoReport, Reports, NoLink, Links
<1>2. CASE UNCHANGED <<pc, callVars>>
  BY <1>2 DEF callVars
<1>3. CASE Crash(j)
  BY <1>1, <1>3 DEF Crash, MoveTo
<1>4. ASSUME NEW url \in Files \union {NoFile, Junk}, Return(j, url),
             url \in Files \union {NoFile} \/ service # "dd"
      PROVE  Typed
  BY <1>4 DEF Return, MoveTo
<1>5. ASSUME NEW s, Concluded(j, s), UNCHANGED <<res, last, cur>> PROVE Typed
  <2>1. report' \in [Jobs -> Reports]
    BY <1>1, <1>5 DEF Concluded
  <2>2. pc' = pc \/ \E p \in Calls \union {"idle", "over"} : pc' = [pc EXCEPT ![j] = p]
    BY <1>5 DEF Concluded, Authenticated, MoveTo, Calls
  <2>3. link' \in [Jobs -> Links]
    <3>1. link[j] \in Links
      OBVIOUS
    <3>2. CASE UNCHANGED link
      BY <3>2
    <3>3. ASSUME NEW g \in {"next", "second", "report"},
                 link' = [link EXCEPT ![j].going = g]
          PROVE  link' \in [Jobs -> Links]
      BY <3>1, <3>3 DEF Links
    <3>4. ASSUME NEW p \in {"given", "junk"}, link' = [link EXCEPT ![j].process = p]
          PROVE  link' \in [Jobs -> Links]
      BY <3>1, <3>4 DEF Links
    <3>5. ASSUME NEW r \in {0, 1}, link' = [link EXCEPT ![j].code = r]
          PROVE  link' \in [Jobs -> Links]
      BY <3>1, <3>5 DEF Links
    <3> QED
      BY <1>5, <3>2, <3>3, <3>4, <3>5 DEF Concluded, Authenticated, IntResult
  <2> QED
    BY <1>5, <2>1, <2>2, <2>3
<1>6. ASSUME NEW a \in AnswerType, a.status = 200 => a.url # Junk, DdNext(j, a), service = "dd"
      PROVE  Typed
  <2>1. a.url \in Files \union {NoFile, Junk}
    BY DEF AnswerType
  <2>2. PICK got \in Files \union {NoFile} :
          \/ got \in Files /\ Return(j, got)
          \/ Crash(j)
          \/ res' = [res EXCEPT ![j] = got] /\ UNCHANGED <<pc, cur, last, report, link>>
    BY <1>6, <2>1 DEF DdNext
  <2> QED
    BY <1>3, <1>4, <2>2
<1>7. ASSUME NEW a \in AnswerType, a.status = 200 => a.url # Junk, Answered(j, a) PROVE Typed
  <2>1. a.url \in Files \union {NoFile, Junk}
    BY DEF AnswerType
  <2> QED
    BY <1>2, <1>4, <1>5, <1>6, <1>7, <2>1, AnsweredCases
<1>8. CASE SamTimesOut(j)
  BY <1>4, <1>5, <1>8 DEF SamTimesOut
<1> QED
  BY <1>3, <1>7, <1>8, CallCases

(* A call is the business of one job.                                      *)
LEMMA OneCalls ==
  ASSUME TypeOK, NEW j \in Jobs, Call(j), NEW k \in Jobs, k # j
  PROVE  /\ pc'[k] = pc[k] /\ tries'[k] = tries[k] /\ res'[k] = res[k] /\ last'[k] = last[k]
         /\ cur'[k] = cur[k] /\ report'[k] = report[k] /\ link'[k] = link[k]
<1> USE DEF TypeOK, MoveTo
<1> DEFINE OthersRest ==
         /\ pc'[k] = pc[k] /\ tries'[k] = tries[k] /\ res'[k] = res[k] /\ last'[k] = last[k]
         /\ cur'[k] = cur[k] /\ report'[k] = report[k] /\ link'[k] = link[k]
<1>1. CASE Crash(j)
  BY <1>1 DEF Crash
<1>2. ASSUME NEW url, Return(j, url), tries' = [tries EXCEPT ![j] = 0] PROVE OthersRest
  BY <1>2 DEF Return
<1>3. ASSUME NEW s, Concluded(j, s), UNCHANGED <<res, last, cur>>, tries' = [tries EXCEPT ![j] = 0]
      PROVE  OthersRest
  BY <1>3 DEF Concluded, Authenticated
<1>4. ASSUME NEW a, DdNext(j, a), tries' = [tries EXCEPT ![j] = 0] PROVE OthersRest
  <2>1. \/ Crash(j) \/ \E url : Return(j, url)
        \/ \E got : res' = [res EXCEPT ![j] = got] /\ UNCHANGED <<pc, cur, last, report, link>>
    BY <1>4 DEF DdNext
  <2> QED
    BY <1>1, <1>2, <1>4, <2>1
<1>5. ASSUME NEW a, Answered(j, a) PROVE OthersRest
  <2>1. CASE tries' = [tries EXCEPT ![j] = @ + 1] /\ UNCHANGED <<pc, callVars>>
    BY <2>1 DEF callVars
  <2> QED
    BY <1>2, <1>3, <1>4, <1>5, <2>1, AnsweredCases
<1>6. CASE SamTimesOut(j)
  BY <1>2, <1>3, <1>6 DEF SamTimesOut
<1> QED
  BY <1>1, <1>5, <1>6, CallCases

LEMMA TriesTypes ==
  ASSUME TypeOK, Resting, NEW j \in Jobs, Call(j)
  PROVE  /\ tries' \in [Jobs -> Nat]
         /\ \A k \in Jobs : tries'[k] < Tries(k)'
         /\ Resting'
<1> USE DEF TypeOK
<1>1. service' = service /\ Asking(j)
  BY CallCases DEF service
<1>2. \A k \in Jobs : k # j => tries'[k] < Tries(k)' /\ (Asking(k)' \/ tries'[k] = 0)
  BY <1>1, OneCalls DEF Tries, Asking, Resting
<1>3. CASE tries' = [tries EXCEPT ![j] = 0]
  <2>1. Tries(j)' > 0
    BY <1>1, ConstantsAssumption DEF Tries
  <2> QED
    BY <1>2, <1>3, <2>1 DEF Resting
<1>4. CASE /\ tries[j] + 1 < Tries(j) /\ pc' = pc
           /\ tries' = [tries EXCEPT ![j] = @ + 1]
  <2>1. Tries(j)' = Tries(j) /\ Asking(j)'
    BY <1>1, <1>4 DEF Tries, Asking
  <2> QED
    BY <1>2, <1>4, <2>1 DEF Resting
<1> QED
  BY <1>3, <1>4, CallCases, AnsweredCases DEF Crash, SamTimesOut

(* The callers' own steps.                                                 *)
CallerStep(j) == Establish(j) \/ AskNext(j) \/ Report(j) \/ EndProcess(j)

LEMMA CallerTypes ==
  ASSUME TypeOK, Resting, NEW j \in Jobs, CallerStep(j)
  PROVE  TypeOK' /\ Resting'
<1> USE DEF TypeOK, MoveTo, serviceVars, callVars
<1>1. /\ setting' = setting /\ tries' = tries /\ tries[j] = 0
      /\ UNCHANGED <<res, last, file, holder, ended>>
  BY DEF CallerStep, Establish, AskNext, Report, EndProcess, Resting, Asking, Calls
<1>2. pc' \in [Jobs -> Calls \union {"start", "idle", "ended", "over", "crashed"}]
  BY DEF CallerStep, Establish, AskNext, Report, EndProcess, Begin, Calls
<1>3. \A k \in Jobs : k # j => pc'[k] = pc[k]
  BY DEF CallerStep, Establish, AskNext, Report, EndProcess, Begin
<1>4. \A k \in Jobs : tries'[k] < Tries(k)'
  <2>1. tries[j] < Tries(j)'
    BY <1>1, ConstantsAssumption DEF Tries, service
  <2> QED
    BY <1>1, <1>3, <2>1 DEF Tries, service
<1>5. Resting'
  BY <1>1, <1>3 DEF Resting, Asking
<1>6. link' \in [Jobs -> Links]
  <2>1. link' = link \/ \E g \in {"next", "report"} : link' = [link EXCEPT ![j].going = g]
    BY DEF CallerStep, Establish, AskNext, Report, EndProcess, Begin
  <2>2. link[j] \in Links
    OBVIOUS
  <2>3. ASSUME NEW g \in {"next", "report"} PROVE [link[j] EXCEPT !.going = g] \in Links
    BY <2>2 DEF Links
  <2>4. CASE link' = link
    BY <2>4
  <2>5. ASSUME NEW g \in {"next", "report"}, link' = [link EXCEPT ![j].going = g]
        PROVE  link' \in [Jobs -> Links]
    BY <2>3, <2>5
  <2> QED
    BY <2>1, <2>4, <2>5
<1>7. /\ cur' \in [Jobs -> SUBSET (Files \union {Junk})]
      /\ report' \in [Jobs -> Reports] /\ said' \in [Jobs -> SUBSET Files]
  <2>1. CASE Report(j)
    <3>1. PICK f \in cur[j], s \in {"consumed", "skipped"} :
            /\ f = Junk => s = "skipped"
            /\ report' = [report EXCEPT ![j] = [file |-> Did(j, f), status |-> s]]
            /\ said' = [said EXCEPT ![j] = IF s = "consumed" THEN @ \union {f} ELSE @]
            /\ cur' = [cur EXCEPT ![j] = @ \ {f}]
      BY <2>1 DEF Report
    <3>2. Did(j, f) \in Files \union {NoFile, Junk} /\ f \in Files \union {Junk}
      BY DEF Did
    <3>3. [file |-> Did(j, f), status |-> s] \in Reports
      BY <3>2 DEF Reports
    <3> QED
      BY <3>1, <3>2, <3>3
  <2> QED
    BY <2>1 DEF CallerStep, Establish, AskNext, EndProcess
<1> QED
  BY <1>1, <1>2, <1>4, <1>5, <1>6, <1>7

LEMMA TypePreserved == TypeOK /\ Resting /\ [Next]_vars => TypeOK' /\ Resting'
<1> SUFFICES ASSUME TypeOK, Resting, [Next]_vars PROVE TypeOK' /\ Resting'
  OBVIOUS
<1>1. ASSUME NEW j \in Jobs, CallerStep(j) PROVE TypeOK' /\ Resting'
  BY <1>1, CallerTypes
<1>2. ASSUME NEW j \in Jobs, Call(j) PROVE TypeOK' /\ Resting'
  <2>1. UNCHANGED <<setting, said>> /\ (KeepFiles \/ \E a \in AnswersTo(j) : Serve(j, a))
    BY <1>2, CallCases
  <2> QED
    BY <1>2, <2>1, JobTypes, ServiceTypes, TriesTypes DEF TypeOK
<1>3. ASSUME NEW f \in Files, Expire(f) PROVE TypeOK' /\ Resting'
  BY <1>3 DEF Expire, TypeOK, Resting, jobVars, callVars, Tries, service, Asking
<1>4. CASE UNCHANGED vars
  BY <1>4 DEF vars, jobVars, callVars, serviceVars, TypeOK, Resting, Tries, service, Asking
<1> QED
  BY <1>1, <1>2, <1>3, <1>4 DEF Next, CallerStep

Typing == TypeOK /\ Resting

LEMMA TypingInvariant == Spec => []Typing
<1>1. Init => Typing
  <2> SUFFICES ASSUME Init PROVE Typing
    OBVIOUS
  <2>1. NoReport \in Reports /\ NoLink \in Links
    BY DEF NoReport, Reports, NoLink, Links
  <2> QED
    BY <2>1, TriesAreMany DEF Init, Typing, TypeOK, Resting
<1>2. Typing /\ [Next]_vars => Typing'
  BY TypePreserved DEF Typing
<1> QED
  BY <1>1, <1>2, PTL DEF Spec

(* No request is tried more often than its caller asked for.               *)
THEOREM TypeCorrect == Spec => []TypeOK
<1>1. Typing => TypeOK
  BY DEF Typing
<1> QED
  BY TypingInvariant, <1>1, PTL

-----------------------------------------------------------------------------
(* One file after the other: what is reported is what was said.            *)

LEMMA OneByOneCalls ==
  ASSUME Typing, caller # "ahead", NEW j \in Jobs, OneFile(j), LastIsMine(j), SaidSo(j), Call(j)
  PROVE  OneFile(j)' /\ LastIsMine(j)' /\ SaidSo(j)'
<1> USE DEF Typing, TypeOK, MoveTo, OneFile, LastIsMine, SaidSo
<1> DEFINE Goal == OneFile(j)' /\ LastIsMine(j)' /\ SaidSo(j)'
<1>1. /\ cur[j] = {} /\ pc[j] # "idle" /\ said' = said
      /\ service' = service /\ caller' = caller
  BY CallCases DEF Asking, Calls, service, caller
<1>2. CASE Crash(j)
  BY <1>1, <1>2, ConstantsAssumption DEF Crash, NoReport
<1>3. ASSUME NEW url \in Files \union {NoFile, Junk}, Return(j, url) PROVE Goal
  <2>1. cur'[j] = IF url = NoFile THEN {} ELSE {url}
    BY <1>1, <1>3 DEF Return
  <2>2. service = "dd" /\ url # NoFile =>
          \/ last'[j] = url /\ caller # "cli"
          \/ last'[j] = last[j] /\ caller = "cli"
    BY <1>3 DEF Return
  <2>3. OneFile(j)'
    <3>1. url \in Files \union {Junk} => {url} \subseteq {url}
      OBVIOUS
    <3> QED
      BY <1>3, <2>1, <3>1 DEF Return
  <2>4. LastIsMine(j)'
    BY <1>1, <1>3, <2>1, <2>2 DEF Return
  <2>5. report' = report
    BY <1>3 DEF Return
  <2> QED
    BY <1>1, <2>3, <2>4, <2>5
<1>4. ASSUME NEW s, Concluded(j, s), UNCHANGED <<res, last, cur>> PROVE Goal
  <2>1. report'[j] \in {report[j], NoReport}
    BY <1>4 DEF Concluded
  <2>2. cur'[j] = {} /\ last' = last
    BY <1>1, <1>4
  <2>3. OneFile(j)' /\ LastIsMine(j)'
    BY <1>1, <2>2
  <2>4. SaidSo(j)'
    BY <1>1, <2>1, ConstantsAssumption DEF NoReport
  <2> QED
    BY <2>3, <2>4
<1>5. ASSUME NEW a \in AnswerType, a.status = 200 => a.url # Junk, DdNext(j, a) PROVE Goal
  <2>1. PICK got \in Files \union {NoFile} :
          \/ got \in Files /\ Return(j, got)
          \/ Crash(j)
          \/ res' = [res EXCEPT ![j] = got] /\ UNCHANGED <<pc, cur, last, report, link>>
    BY <1>5 DEF DdNext, AnswerType
  <2> QED
    BY <1>1, <1>2, <1>3, <2>1
<1>6. ASSUME NEW a \in AnswerType, a.status = 200 => a.url # Junk, Answered(j, a) PROVE Goal
  <2>1. CASE UNCHANGED <<pc, callVars>>
    BY <1>1, <2>1 DEF callVars
  <2>2. a.url \in Files \union {NoFile, Junk}
    BY DEF AnswerType
  <2> QED
    BY <1>3, <1>4, <1>5, <1>6, <2>1, <2>2, AnsweredCases
<1>7. CASE SamTimesOut(j)
  BY <1>3, <1>4, <1>7 DEF SamTimesOut
<1> QED
  BY <1>2, <1>6, <1>7, CallCases

LEMMA OneByOneCallers ==
  ASSUME Typing, caller # "ahead", NEW j \in Jobs, OneFile(j), LastIsMine(j), SaidSo(j),
         CallerStep(j)
  PROVE  /\ OneFile(j)' /\ LastIsMine(j)' /\ SaidSo(j)'
         /\ \A f \in said'[j] : f \in said[j] \/ f \in cur[j]
<1> USE DEF Typing, TypeOK, MoveTo, OneFile, LastIsMine, SaidSo, serviceVars, callVars
<1>1. setting' = setting /\ last' = last /\ service' = service /\ caller' = caller
  BY DEF CallerStep, Establish, AskNext, Report, EndProcess, service, caller
<1>2. CASE Establish(j) \/ EndProcess(j)
  BY <1>1, <1>2, ConstantsAssumption DEF Establish, EndProcess
<1>3. CASE AskNext(j)
  <2>1. cur[j] = {}
    <3>1. PICK f : cur[j] \subseteq {f}
      BY <1>3 DEF AskNext
    <3>2. Cardinality({f}) = 1
      BY ONLY FS_Singleton, Zenon
    <3>3. Cardinality(cur[j]) < 1
      BY <1>3 DEF AskNext
    <3>4. ASSUME cur[j] = {f} PROVE FALSE
      <4>1. Cardinality(cur[j]) = 1
        BY ONLY <3>2, <3>4, Zenon
      <4> QED
        BY <3>3, <4>1
    <3> QED
      BY <3>1, <3>4
  <2>2. pc'[j] \in {"auth", "next"}
    BY <1>3 DEF AskNext, Begin
  <2> QED
    BY <1>1, <1>3, <2>1, <2>2 DEF AskNext
<1>4. CASE Report(j)
  <2>1. PICK f \in cur[j], s \in {"consumed", "skipped"} :
          /\ f = Junk => s = "skipped"
          /\ report' = [report EXCEPT ![j] = [file |-> Did(j, f), status |-> s]]
          /\ said' = [said EXCEPT ![j] = IF s = "consumed" THEN @ \union {f} ELSE @]
          /\ cur' = [cur EXCEPT ![j] = @ \ {f}]
    BY <1>4 DEF Report
  <2>2. Did(j, f) \in {f, Junk}
    <3>1. setting \in SettingType /\ service \in {"dd", "sam"}
      BY ConstantsAssumption DEF SettingType, service
    <3> QED
      BY <2>1, <3>1 DEF Did
  <2>3. cur[j] = {f}
    BY <1>4, <2>1 DEF Report
  <2>4. cur'[j] = {} /\ pc'[j] \in {"auth", "report"}
    BY <1>4, <2>1, <2>3 DEF Report, Begin
  <2>5. SaidSo(j)'
    BY <2>1, <2>2, ConstantsAssumption
  <2> QED
    BY <1>1, <2>1, <2>4, <2>5
<1> QED
  BY <1>2, <1>3, <1>4 DEF CallerStep

LEMMA CallersRest ==
  ASSUME TypeOK, NEW j \in Jobs, CallerStep(j), NEW k \in Jobs, k # j
  PROVE  /\ pc'[k] = pc[k] /\ tries'[k] = tries[k] /\ res'[k] = res[k] /\ last'[k] = last[k]
         /\ cur'[k] = cur[k] /\ report'[k] = report[k] /\ link'[k] = link[k]
         /\ said'[k] = said[k]
BY DEF TypeOK, CallerStep, Establish, AskNext, Report, EndProcess, Begin, MoveTo, callVars

LEMMA SettingFixed == [Next]_vars => setting' = setting
<1>1. ASSUME NEW j \in Jobs, CallerStep(j) PROVE setting' = setting
  BY <1>1 DEF CallerStep, Establish, AskNext, Report, EndProcess
<1>2. ASSUME NEW j \in Jobs, Call(j) PROVE setting' = setting
  BY <1>2, CallCases
<1> QED
  BY <1>1, <1>2 DEF Next, CallerStep, Expire, vars

LEMMA UnderstoodFixed == [Next]_vars => (Understood' <=> Understood)
BY SettingFixed DEF Understood, service, caller

LEMMA OneByOnePreserved == Typing /\ OneByOne /\ [Next]_vars => OneByOne'
<1> SUFFICES ASSUME Typing, OneByOne, [Next]_vars PROVE OneByOne'
  OBVIOUS
<1> setting' = setting
  BY SettingFixed
<1> SUFFICES ASSUME caller # "ahead", NEW k \in Jobs
             PROVE  OneFile(k)' /\ LastIsMine(k)' /\ SaidSo(k)'
  BY DEF OneByOne, caller
<1>1. OneFile(k) /\ LastIsMine(k) /\ SaidSo(k)
  BY DEF OneByOne
<1>2. ASSUME NEW j \in Jobs, CallerStep(j) PROVE OneFile(k)' /\ LastIsMine(k)' /\ SaidSo(k)'
  <2>1. CASE k = j
    BY <1>1, <1>2, <2>1, OneByOneCallers
  <2>2. CASE k # j
    <3>1. setting' = setting
      BY <1>2 DEF CallerStep, Establish, AskNext, Report, EndProcess
    <3> QED
      BY <1>1, <1>2, <2>2, <3>1, CallersRest DEF Typing, OneFile, LastIsMine, SaidSo, service, caller
  <2> QED
    BY <2>1, <2>2
<1>3. ASSUME NEW j \in Jobs, Call(j) PROVE OneFile(k)' /\ LastIsMine(k)' /\ SaidSo(k)'
  <2>1. CASE k = j
    BY <1>1, <1>3, <2>1, OneByOneCalls
  <2>2. CASE k # j
    BY <1>1, <1>3, <2>2, OneCalls, CallCases
       DEF Typing, OneFile, LastIsMine, SaidSo, service, caller
  <2> QED
    BY <2>1, <2>2
<1>4. CASE UNCHANGED <<setting, jobVars>>
  BY <1>1, <1>4 DEF jobVars, callVars, OneFile, LastIsMine, SaidSo, service, caller
<1> QED
  BY <1>2, <1>3, <1>4 DEF Next, CallerStep, Expire, vars

(* The project counts a file as done only if a caller said it consumed it. *)
LEMMA DonePreserved ==
  Typing /\ OneByOne /\ DoneWasConsumed /\ [Next]_vars => DoneWasConsumed'
<1> SUFFICES ASSUME Typing, OneByOne, DoneWasConsumed, [Next]_vars PROVE DoneWasConsumed'
  OBVIOUS
<1> setting' = setting
  BY SettingFixed
<1> SUFFICES ASSUME caller # "ahead", NEW f \in Files, file'[f] = "done"
             PROVE  \E k \in Jobs : f \in said'[k]
  BY DEF DoneWasConsumed, caller
<1> USE DEF Typing, TypeOK
<1>1. \A k \in Jobs : said[k] \subseteq said'[k]
  <2>1. ASSUME NEW j \in Jobs, CallerStep(j) PROVE \A k \in Jobs : said[k] \subseteq said'[k]
    BY <2>1 DEF CallerStep, Establish, AskNext, Report, EndProcess
  <2> QED
    BY <2>1, CallCases DEF Next, CallerStep, Expire, vars, jobVars
<1>2. CASE file[f] = "done"
  BY <1>1, <1>2 DEF DoneWasConsumed
<1>3. ASSUME NEW j \in Jobs, Call(j), file[f] # "done" PROVE f \in said'[j]
  <2>1. PICK a \in AnswersTo(j) : Serve(j, a) /\ ~KeepFiles
    BY <1>3, CallCases DEF KeepFiles, serviceVars
  <2>2. pc[j] = "report" /\ TakeReport(j)
    BY <1>3, <2>1, ServeByCall DEF HandOut, TakeEnd
  <2>3. report[j].file = f /\ report[j].status = "consumed"
    <3>1. Valid(j) /\ file' = [file EXCEPT ![report[j].file] = Release(report[j].status)]
      BY <1>3, <2>2 DEF TakeReport
    <3>2. report[j].file = f /\ Release(report[j].status) = "done"
      BY <1>3, <3>1 DEF Valid
    <3>3. report[j].status \in {"consumed", "skipped"}
      BY DEF Reports
    <3> QED
      BY <3>2, <3>3 DEF Release
  <2> QED
    BY <1>1, <2>3 DEF OneByOne, SaidSo
<1>4. CASE file' = file
  BY <1>2, <1>4
<1>5. ASSUME NEW g \in Files, Expire(g) PROVE file[f] = "done"
  BY <1>5 DEF Expire
<1> QED
  BY <1>2, <1>3, <1>4, <1>5
     DEF Next, Establish, AskNext, Report, EndProcess, vars, serviceVars

THEOREM DoneIsConsumed == Spec => []DoneWasConsumed
<1>1. Init => OneByOne /\ DoneWasConsumed
  BY DEF Init, OneByOne, OneFile, LastIsMine, SaidSo, NoReport, DoneWasConsumed
<1>2. Typing /\ OneByOne /\ DoneWasConsumed /\ [Next]_vars => OneByOne' /\ DoneWasConsumed'
  BY OneByOnePreserved, DonePreserved
<1> QED
  BY TypingInvariant, <1>1, <1>2, PTL DEF Spec

-----------------------------------------------------------------------------
(* A service that answers sooner or later.                                 *)

(* What a call does then: it is tried again, or it does what it is for.    *)
MildCall(j) ==
    \/ KeepFiles /\ UNCHANGED <<pc, callVars>>
    \/ /\ pc[j] = "next"
       /\ \E a \in NextAnswers :
            /\ HandOut(j, a)
            /\ \/ service = "dd" /\ DdNext(j, a)
               \/ service = "sam" /\ Return(j, a.url)
    \/ /\ pc[j] = "report" /\ TakeReport(j)
       /\ MoveTo(j, "idle") /\ report' = [report EXCEPT ![j] = NoReport]
       /\ UNCHANGED <<link, res, last, cur>>
    \/ /\ pc[j] = "auth" /\ KeepFiles /\ Authenticated(j)
       /\ UNCHANGED <<report, res, last, cur>>
    \/ /\ pc[j] = "establish" /\ KeepFiles /\ MoveTo(j, "idle")
       /\ link' = [link EXCEPT ![j].process = "given"]
       /\ UNCHANGED <<report, res, last, cur>>
    \/ /\ pc[j] = "end" /\ MoveTo(j, "over") /\ UNCHANGED <<file, holder>>
       /\ \E r : link' = [link EXCEPT ![j].code = r]
       /\ UNCHANGED <<report, res, last, cur>>

LEMMA MildCalls ==
  ASSUME Typing, Mild, NEW j \in Jobs, Admission(j), Call(j)
  PROVE  MildCall(j)
<1> USE DEF Typing, TypeOK
<1> setting \in SettingType
  BY ConstantsAssumption
<1>1. service \in {"dd", "sam"}
  BY DEF SettingType, service
<1>2. Admitted(j) \/ pc[j] \notin {"next", "report"}
  BY <1>1 DEF Admission, Admitted, Mild, Understood
<1>3. CASE Rebuff(j)
  <2>1. tries[j] = 0 /\ KeepFiles /\ \E s \in {302, 404} : Answered(j, Answer(s, Junk))
    BY <1>3 DEF Rebuff, Mild
  <2>2. \A s \in {302, 404} : Again(j, Answer(s, Junk).status)
    BY <2>1, TriesAreMany DEF Again, Retried, Answer, Mild
  <2> QED
    BY <2>1, <2>2 DEF Answered, MildCall
<1>4. ASSUME Exchange(j) PROVE MildCall(j)
  <2>1. PICK a \in AnswersTo(j) : Serve(j, a) /\ Answered(j, a)
    BY <1>4 DEF Exchange
  <2>2. Asking(j)
    BY <1>4 DEF Exchange
  <2>3. CASE pc[j] = "next"
    <3>1. a \in NextAnswers /\ HandOut(j, a)
      BY <1>2, <2>1, <2>3, AnswersByCall, ServeByCall
    <3>2. CASE Again(j, a.status) /\ UNCHANGED <<pc, callVars>>
      <4>1. a.url \notin Files
        BY <3>1, <3>2, FileAnswers DEF Again, Retried
      <4> QED
        BY <3>1, <3>2, <4>1 DEF HandOut, MildCall
    <3>3. CASE \/ service = "dd" /\ DdNext(j, a)
               \/ service # "dd" /\ Return(j, a.url)
      BY <1>1, <2>3, <3>1, <3>3 DEF MildCall
    <3> QED
      BY <2>1, <2>3, <3>2, <3>3 DEF Answered, SamNext
  <2>4. CASE pc[j] = "report"
    <3>1. a = Answer(IF Valid(j) THEN 200 ELSE 400, NoFile) /\ TakeReport(j)
      BY <2>1, <2>4, AnswersByCall, ServeByCall
    <3>2. CASE Again(j, a.status) /\ UNCHANGED <<pc, callVars>>
      <4>1. ~Valid(j)
        BY <3>1, <3>2 DEF Again, Retried, Answer
      <4> QED
        BY <3>1, <3>2, <4>1 DEF TakeReport, MildCall, KeepFiles, serviceVars
    <3>3. CASE Concluded(j, a.status) /\ UNCHANGED <<res, last, cur>>
      BY <2>4, <3>1, <3>3 DEF Concluded, MildCall
    <3> QED
      BY <2>1, <2>4, <3>2, <3>3 DEF Answered
  <2>5. CASE pc[j] \in {"auth", "establish"}
    <3>1. a = Answer(200, NoFile) /\ KeepFiles
      BY <2>1, <2>5, AnswersByCall, ServeByCall
    <3>2. a.status = 200 /\ ~Again(j, a.status)
      BY <3>1 DEF Again, Retried, Answer
    <3>3. Concluded(j, 200) /\ UNCHANGED <<res, last, cur>>
      BY <2>1, <2>5, <3>2 DEF Answered
    <3> QED
      BY <2>5, <3>1, <3>3 DEF Concluded, MildCall
  <2>6. CASE pc[j] = "end"
    <3>1. /\ TakeEnd(j, a)
          /\ a \in {Answer(IF Admitted(j) /\ j \notin ended THEN 200 ELSE 404, NoFile),
                   Answer(202, NoFile)}
      BY <2>1, <2>6, AnswersByCall, ServeByCall
    <3>2. CASE Again(j, a.status) /\ UNCHANGED <<pc, callVars>>
      <4>1. a.status # 200
        BY <3>2 DEF Again, Retried
      <4> QED
        BY <3>1, <3>2, <4>1 DEF TakeEnd, MildCall, KeepFiles, serviceVars
    <3>3. CASE Concluded(j, a.status) /\ UNCHANGED <<res, last, cur>>
      BY <2>6, <3>1, <3>3 DEF Concluded, MildCall, TakeEnd
    <3> QED
      BY <2>1, <2>6, <3>2, <3>3 DEF Answered
  <2> QED
    BY <2>2, <2>3, <2>4, <2>5, <2>6 DEF Asking, Calls
<1> QED
  BY <1>3, <1>4 DEF Call, ServerError, NoAnswer, TimeOut, Mild

LEMMA AdmissionStays ==
  ASSUME Typing, Mild, NEW j \in Jobs, Admission(j), Call(j)
  PROVE  Admission(j)'
<1> USE DEF Typing, TypeOK, MoveTo, Admission
<1>1. /\ MildCall(j) /\ pc[j] \in Calls
      /\ service' = service /\ timed' = timed /\ SamTries > 1
  BY MildCalls, CallCases DEF service, timed, Asking, Mild
<1>2. link[j] \in Links
  OBVIOUS
<1>3. setting \in SettingType /\ service \in {"dd", "sam"}
  BY ConstantsAssumption DEF SettingType, service
<1>4. CASE UNCHANGED <<pc, callVars>>
  BY <1>1, <1>4 DEF callVars
<1>5. CASE pc[j] = "next" /\ \E url : Return(j, url)
  BY <1>1, <1>5 DEF Return
<1>6. CASE Crash(j) /\ service = "dd"
  BY <1>1, <1>6 DEF Crash, NoLink
<1>7. ASSUME NEW a \in NextAnswers, pc[j] = "next", service = "dd", DdNext(j, a)
      PROVE  Admission(j)'
  <2>1. CASE \E url : Return(j, url)
    BY <1>5, <1>7, <2>1
  <2>2. CASE Crash(j)
    BY <1>6, <1>7, <2>2
  <2>3. ASSUME NEW got, res' = [res EXCEPT ![j] = got], UNCHANGED <<pc, cur, last, report, link>>,
               timed \/ got = NoFile
        PROVE  Admission(j)'
    BY <1>1, <1>7, <2>3
  <2>4. ~timed => (a.status # 200 => res[j] = NoFile) /\ (a.retry => a.url = NoFile)
    BY <1>7, FileAnswers
  <2> QED
    BY <1>7, <2>1, <2>2, <2>3, <2>4 DEF DdNext
<1>8. CASE pc[j] = "report" /\ MoveTo(j, "idle") /\ report' = [report EXCEPT ![j] = NoReport]
           /\ UNCHANGED <<link, res>>
  BY <1>1, <1>8
<1>9. CASE pc[j] = "auth" /\ Authenticated(j) /\ UNCHANGED <<report, res>>
  <2>1. pc'[j] = IF link[j].going = "next" THEN "auth"
                 ELSE IF link[j].going = "report" THEN "report" ELSE "next"
    BY <1>9 DEF Authenticated
  <2>2. link'[j] = [link[j] EXCEPT !.going = IF link[j].going = "next" THEN "second" ELSE "next"]
    BY <1>9 DEF Authenticated
  <2>3. link'[j].process = link[j].process
    BY <1>2, <2>2 DEF Links
  <2> QED
    BY <1>1, <1>9, <2>1, <2>3
<1>10. CASE pc[j] = "establish" /\ MoveTo(j, "idle") /\ link' = [link EXCEPT ![j].process = "given"]
            /\ UNCHANGED <<report, res>>
  <2>1. /\ link'[j].going = link[j].going
        /\ link'[j].process = "given"
    BY <1>2, <1>10 DEF Links
  <2> QED
    BY <1>1, <1>10, <2>1
<1>11. ASSUME pc[j] = "end", MoveTo(j, "over"), NEW r, link' = [link EXCEPT ![j].code = r],
              UNCHANGED <<report, res>>
       PROVE  Admission(j)'
  <2>1. /\ link'[j].going = link[j].going
        /\ link'[j].process = link[j].process
    BY <1>2, <1>11 DEF Links
  <2> QED
    BY <1>1, <1>3, <1>11, <2>1
<1> QED
  BY <1>1, <1>4, <1>5, <1>7, <1>8, <1>9, <1>10, <1>11 DEF MildCall

LEMMA AdmissionOfCallers ==
  ASSUME Typing, NEW j \in Jobs, Admission(j), CallerStep(j)
  PROVE  Admission(j)'
<1> USE DEF Typing, TypeOK, MoveTo, Admission
<1>1. /\ res' = res /\ service' = service /\ timed' = timed
  BY DEF CallerStep, Establish, AskNext, Report, EndProcess, service, timed, callVars
<1>2. setting \in SettingType /\ service \in {"dd", "sam"}
  BY ConstantsAssumption DEF SettingType, service
<1>3. CASE Establish(j) \/ EndProcess(j)
  BY <1>1, <1>2, <1>3 DEF Establish, EndProcess, callVars
<1>4. link[j] \in Links
  OBVIOUS
<1>5. ASSUME NEW call \in {"next", "report"}, pc[j] = "idle", Begin(j, call),
             report'[j] = report[j] \/ call = "report"
      PROVE  Admission(j)'
  <2>1. CASE /\ service = "dd" /\ MoveTo(j, "auth") /\ link' = [link EXCEPT ![j].going = call]
    <3>1. link'[j].going = call
      BY <1>4, <2>1 DEF Links
    <3> QED
      BY <1>1, <1>5, <2>1, <3>1
  <2>2. CASE service # "dd" /\ MoveTo(j, call) /\ UNCHANGED link
    BY <1>1, <1>2, <1>5, <2>2
  <2> QED
    BY <1>5, <2>1, <2>2 DEF Begin
<1> QED
  BY <1>3, <1>5 DEF CallerStep, AskNext, Report

LEMMA AdmissionsPreserved == Typing /\ Admissions /\ [Next]_vars => Admissions'
<1> SUFFICES ASSUME Typing, Admissions, [Next]_vars PROVE Admissions'
  OBVIOUS
<1> setting' = setting
  BY SettingFixed
<1> SUFFICES ASSUME Mild, NEW k \in Jobs PROVE Admission(k)'
  BY DEF Admissions, Mild, Understood, service, caller, faults
<1>1. Admission(k)
  BY DEF Admissions
<1>2. ASSUME NEW j \in Jobs, CallerStep(j) PROVE Admission(k)'
  <2>1. CASE k = j
    BY <1>1, <1>2, <2>1, AdmissionOfCallers
  <2>2. CASE k # j
    BY <1>1, <1>2, <2>2, CallersRest DEF Typing, Admission, service, timed
  <2> QED
    BY <2>1, <2>2
<1>3. ASSUME NEW j \in Jobs, Call(j) PROVE Admission(k)'
  <2>1. CASE k = j
    BY <1>1, <1>3, <2>1, AdmissionStays
  <2>2. CASE k # j
    BY <1>1, <1>3, <2>2, OneCalls DEF Typing, Admission, service, timed
  <2> QED
    BY <2>1, <2>2
<1>4. CASE UNCHANGED jobVars
  BY <1>1, <1>4 DEF jobVars, callVars, Admission, service, timed
<1> QED
  BY <1>2, <1>3, <1>4 DEF Next, CallerStep, Expire, vars

(* What a call does to the files: it may get one, or release the one it    *)
(* reports on.                                                             *)
LEMMA MildService ==
  ASSUME Typing, NEW j \in Jobs, MildCall(j), NEW f \in Files
  PROVE  \/ file'[f] = file[f] /\ holder'[f] = holder[f]
         \/ /\ pc[j] = "next" /\ file[f] = "waiting"
            /\ file'[f] = "reserved" /\ holder'[f] = j
         \/ /\ pc[j] = "report" /\ Valid(j) /\ f = report[j].file
            /\ file'[f] = Release(report[j].status) /\ report'[j] = NoReport
<1> USE DEF Typing, TypeOK
<1>1. CASE KeepFiles \/ UNCHANGED <<file, holder>>
  BY <1>1 DEF KeepFiles, serviceVars
<1>2. ASSUME pc[j] = "next", NEW a \in NextAnswers, HandOut(j, a)
      PROVE  \/ file'[f] = file[f] /\ holder'[f] = holder[f]
             \/ /\ pc[j] = "next" /\ file[f] = "waiting"
                /\ file'[f] = "reserved" /\ holder'[f] = j
  BY <1>2, FileAnswers DEF HandOut, KeepFiles, serviceVars
<1>3. ASSUME pc[j] = "report", TakeReport(j), report' = [report EXCEPT ![j] = NoReport]
      PROVE  \/ file'[f] = file[f] /\ holder'[f] = holder[f]
             \/ /\ pc[j] = "report" /\ Valid(j) /\ f = report[j].file
                /\ file'[f] = Release(report[j].status) /\ report'[j] = NoReport
  BY <1>3 DEF TakeReport
<1> QED
  BY <1>1, <1>2, <1>3 DEF MildCall

(* And to the job: it works on what it got, or has had before.             *)
LEMMA MildWork ==
  ASSUME Typing, NEW j \in Jobs, MildCall(j), Admission(j), cur[j] = {}, NEW f \in Files
  PROVE  /\ WorksOn(j, f)' => WorksOn(j, f) \/ (file'[f] = "reserved" /\ holder'[f] = j)
         /\ ~timed => /\ WorksOn(j, f) => WorksOn(j, f)' \/ pc[j] = "report"
                      /\ pc[j] = "next" /\ file'[f] # file[f] => WorksOn(j, f)'
         /\ \/ report'[j] = report[j]
            \/ pc[j] = "report" /\ TakeReport(j)
<1> USE DEF Typing, TypeOK, MoveTo, WorksOn
<1> DEFINE Goal ==
         /\ WorksOn(j, f)' => WorksOn(j, f) \/ (file'[f] = "reserved" /\ holder'[f] = j)
         /\ ~timed => /\ WorksOn(j, f) => WorksOn(j, f)' \/ pc[j] = "report"
                      /\ pc[j] = "next" /\ file'[f] # file[f] => WorksOn(j, f)'
         /\ \/ report'[j] = report[j]
            \/ pc[j] = "report" /\ TakeReport(j)
<1>1. CASE KeepFiles /\ UNCHANGED <<pc, callVars>>
  BY <1>1 DEF callVars, KeepFiles, serviceVars
<1>2. ASSUME pc[j] = "next", NEW a \in NextAnswers, HandOut(j, a),
             \/ service = "dd" /\ DdNext(j, a)
             \/ service = "sam" /\ Return(j, a.url)
      PROVE  Goal
  <2>1. /\ a.url \in Files => file'[a.url] = "reserved" /\ holder'[a.url] = j
        /\ file'[f] # file[f] => f = a.url /\ a.status = 200 /\ ~a.retry
        /\ a.url # Junk
    BY <1>2, FileAnswers DEF HandOut, KeepFiles, serviceVars
  <2>2. report[j] = NoReport /\ NoReport.file \notin Files
    BY <1>2, ConstantsAssumption DEF Admission, NoReport
  <2>3. ~timed => res[j] = NoFile
    BY DEF Admission
  <2>4. ASSUME NEW url, Return(j, url), url = res[j] \/ url = a.url,
               timed \/ url = a.url
        PROVE  Goal
    <3>1. cur'[j] = (IF url = NoFile THEN {} ELSE {url}) /\ res'[j] = NoFile /\ report' = report
      BY <2>4 DEF Return
    <3> QED
      BY <2>1, <2>2, <2>3, <2>4, <3>1, ConstantsAssumption
  <2>5. CASE Crash(j) /\ timed
    BY <2>2, <2>5, ConstantsAssumption DEF Crash
  <2>6. ASSUME NEW got, res' = [res EXCEPT ![j] = got], UNCHANGED <<pc, cur, last, report, link>>,
               got = res[j] \/ got = a.url,
               timed \/ (a.status # 200 \/ a.retry)
        PROVE  Goal
    BY <2>1, <2>2, <2>3, <2>6, ConstantsAssumption
  <2>7. ~timed /\ a.status = 200 /\ ~a.retry => a.url \in Files
    BY FileAnswers
  <2> QED
    BY <1>2, <2>4, <2>5, <2>6, <2>7 DEF DdNext
<1>3. CASE pc[j] = "report" /\ TakeReport(j) /\ report' = [report EXCEPT ![j] = NoReport]
           /\ UNCHANGED <<res, cur>>
  BY <1>3, ConstantsAssumption DEF NoReport
<1>4. CASE pc[j] \in {"auth", "establish", "end"} /\ UNCHANGED <<report, res, cur>>
  BY <1>4
<1> QED
  BY <1>1, <1>2, <1>3, <1>4 DEF MildCall

-----------------------------------------------------------------------------
(* What a job works on is reserved for it.                                 *)
Faithful == Mild /\ "slow" \notin faults /\ caller # "ahead"

LEMMA HoldsCalls ==
  ASSUME Typing, Mild, NEW j \in Jobs, Admission(j), cur[j] = {}, Holds(j), Call(j)
  PROVE  Holds(j)'
<1> USE DEF Typing, TypeOK
<1>1. /\ MildCall(j) /\ said' = said
      /\ pc[j] = "report" => res[j] = NoFile /\ Admitted(j)
  <2>1. setting \in SettingType /\ service \in {"dd", "sam"}
    BY ConstantsAssumption DEF SettingType, service
  <2> QED
    BY <2>1, MildCalls, CallCases DEF Admission, Admitted, Mild, Understood
<1>2. ASSUME NEW f \in Files, WorksOn(j, f)' PROVE file'[f] = "reserved" /\ holder'[f] = j
  <2>1. CASE WorksOn(j, f)
    <3>1. file[f] = "reserved" /\ holder[f] = j
      BY <2>1 DEF Holds
    <3>2. pc[j] = "report" => UNCHANGED <<res, cur>>
      BY <1>1 DEF MildCall, callVars
    <3>3. pc[j] = "report" /\ report'[j] = NoReport => FALSE
      BY <1>1, <1>2, <3>2, ConstantsAssumption DEF WorksOn, NoReport
    <3> QED
      BY <1>1, <3>1, <3>3, MildService
  <2> QED
    BY <1>1, <1>2, <2>1, MildWork
<1>3. ASSUME NEW f \in said'[j]
      PROVE  file'[f] = "done" \/ report'[j] = [file |-> f, status |-> "consumed"]
  <2>1. f \in said[j] /\ f \in Files
    BY <1>1
  <2>2. CASE file[f] = "done"
    BY <1>1, <2>1, <2>2, MildService DEF Valid
  <2>3. CASE report[j] = [file |-> f, status |-> "consumed"] /\ report'[j] # report[j]
    <3>1. pc[j] = "report" /\ TakeReport(j)
      BY <1>1, <2>1, <2>3, MildWork
    <3>2. report[j].file = f /\ report[j].status = "consumed"
      BY <2>3
    <3>3. file[f] = "reserved" /\ holder[f] = j
      BY <2>1, <3>2 DEF Holds, WorksOn
    <3>4. Valid(j)
      BY <1>1, <2>1, <3>1, <3>2, <3>3 DEF Valid
    <3> QED
      BY <2>1, <3>1, <3>2, <3>4 DEF TakeReport, Release
  <2> QED
    BY <2>1, <2>2, <2>3 DEF Holds
<1> QED
  BY <1>2, <1>3 DEF Holds

(* A caller of one file after the other reports on the file it names.      *)
LEMMA TellsTheTruth ==
  ASSUME Typing, Understood, NEW j \in Jobs, LastIsMine(j), NEW f \in cur[j]
  PROVE  Did(j, f) = f
<1>1. setting \in SettingType /\ service \in {"dd", "sam"}
  BY ConstantsAssumption DEF SettingType, service, Typing, TypeOK
<1> QED
  BY <1>1 DEF Did, LastIsMine, Understood

LEMMA HoldsCallers ==
  ASSUME Typing, Understood, caller # "ahead", NEW j \in Jobs, Admission(j), LastIsMine(j),
         Holds(j), CallerStep(j)
  PROVE  Holds(j)'
<1> USE DEF Typing, TypeOK
<1>1. UNCHANGED <<file, holder, res>>
  BY DEF CallerStep, Establish, AskNext, Report, EndProcess, serviceVars, callVars
<1>2. CASE Establish(j) \/ AskNext(j) \/ EndProcess(j)
  BY <1>1, <1>2 DEF Establish, AskNext, EndProcess, callVars, Holds, WorksOn
<1>3. CASE Report(j)
  <2>1. PICK f \in cur[j], s \in {"consumed", "skipped"} :
          /\ f = Junk => s = "skipped"
          /\ report' = [report EXCEPT ![j] = [file |-> Did(j, f), status |-> s]]
          /\ said' = [said EXCEPT ![j] = IF s = "consumed" THEN @ \union {f} ELSE @]
          /\ cur' = [cur EXCEPT ![j] = @ \ {f}]
    BY <1>3 DEF Report
  <2>2. Did(j, f) = f
    BY <2>1, TellsTheTruth
  <2>3. report[j] = NoReport
    BY <1>3 DEF Report, Admission
  <2>4. ASSUME NEW g \in Files, WorksOn(j, g)' PROVE file'[g] = "reserved" /\ holder'[g] = j
    <3>1. WorksOn(j, g)
      BY <1>1, <2>1, <2>2, <2>4 DEF WorksOn
    <3> QED
      BY <1>1, <3>1 DEF Holds
  <2>5. ASSUME NEW g \in said'[j]
        PROVE  file'[g] = "done" \/ report'[j] = [file |-> g, status |-> "consumed"]
    <3>1. CASE g \in said[j]
      <4>1. report[j] # [file |-> g, status |-> "consumed"]
        BY <2>3 DEF NoReport
      <4> QED
        BY <1>1, <3>1, <4>1 DEF Holds
    <3>2. CASE g \notin said[j]
      <4>1. g = f /\ s = "consumed"
        BY <2>1, <2>5, <3>2
      <4> QED
        BY <2>1, <2>2, <4>1
    <3> QED
      BY <3>1, <3>2
  <2> QED
    BY <2>4, <2>5 DEF Holds
<1> QED
  BY <1>2, <1>3 DEF CallerStep

LEMMA HoldsOthers ==
  ASSUME Typing, NEW j \in Jobs, NEW k \in Jobs, k # j, Holds(k), MildCall(j), Call(j)
  PROVE  Holds(k)'
<1> USE DEF Typing, TypeOK
<1>1. \A f \in Files : WorksOn(k, f)' => WorksOn(k, f)
  BY OneCalls DEF WorksOn
<1>2. said'[k] = said[k] /\ report'[k] = report[k]
  BY CallCases, OneCalls
<1>3. \A f \in Files : file[f] = "reserved" /\ holder[f] = k =>
                         file'[f] = "reserved" /\ holder'[f] = k
  BY MildService DEF Valid
<1>4. \A f \in Files : file[f] = "done" => file'[f] = "done"
  BY MildService DEF Valid
<1> QED
  BY <1>1, <1>2, <1>3, <1>4 DEF Holds

LEMMA HoldingsPreserved ==
  Typing /\ OneByOne /\ Admissions /\ Holdings /\ [Next]_vars => Holdings'
<1> SUFFICES ASSUME Typing, OneByOne, Admissions, Holdings, [Next]_vars PROVE Holdings'
  OBVIOUS
<1> setting' = setting
  BY SettingFixed
<1> SUFFICES ASSUME Faithful, NEW k \in Jobs PROVE Holds(k)'
  BY DEF Holdings, Faithful, Mild, Understood, service, faults, caller
<1>1. Holds(k)
  BY DEF Holdings, Faithful
<1>2. ASSUME NEW j \in Jobs PROVE Admission(j) /\ OneFile(j) /\ LastIsMine(j)
  BY DEF Admissions, OneByOne, Faithful
<1>3. ASSUME NEW j \in Jobs, CallerStep(j) PROVE Holds(k)'
  <2>1. CASE k = j
    BY <1>1, <1>2, <1>3, <2>1, HoldsCallers DEF Faithful, Mild
  <2>2. CASE k # j
    <3>1. file' = file /\ holder' = holder
      BY <1>3 DEF CallerStep, Establish, AskNext, Report, EndProcess, serviceVars
    <3> QED
      BY <1>1, <1>3, <2>2, <3>1, CallersRest DEF Typing, Holds, WorksOn
  <2> QED
    BY <2>1, <2>2
<1>4. ASSUME NEW j \in Jobs, Call(j) PROVE Holds(k)'
  <2>1. cur[j] = {}
    BY <1>2, <1>4, CallCases DEF Asking, Calls, OneFile
  <2>2. CASE k = j
    BY <1>1, <1>2, <1>4, <2>1, <2>2, HoldsCalls DEF Faithful
  <2>3. CASE k # j
    BY <1>1, <1>2, <1>4, <2>3, MildCalls, HoldsOthers DEF Faithful
  <2> QED
    BY <2>2, <2>3
<1>5. ASSUME NEW g \in Files, Expire(g) PROVE Holds(k)'
  <2>1. file[g] = "reserved" /\ ~WorksOn(holder[g], g) /\ UNCHANGED <<cur, res, report, said>>
    BY <1>5 DEF Expire, Faithful, jobVars, callVars
  <2>2. ~WorksOn(k, g)
    BY <1>1, <2>1 DEF Holds
  <2>3. \A f \in Files : f # g => file'[f] = file[f] /\ holder'[f] = holder[f]
    BY <1>5 DEF Expire, Typing, TypeOK
  <2>4. \A f \in Files : WorksOn(k, f)' => WorksOn(k, f)
    BY <2>1 DEF WorksOn
  <2> QED
    BY <1>1, <2>1, <2>2, <2>3, <2>4 DEF Holds, Typing, TypeOK
<1>6. CASE UNCHANGED vars
  BY <1>1, <1>6 DEF vars, jobVars, callVars, serviceVars, Holds, WorksOn
<1> QED
  BY <1>3, <1>4, <1>5, <1>6 DEF Next, CallerStep

(* When updateFileStatus has returned the file is done, where the service  *)
(* understands it (Understood).  The default number of tries is ten; with  *)
(* a single one a first answer that is a redirection or a refusal would be *)
(* the last.                                                               *)
THEOREM ReportDone ==
  ASSUME SamTries > 1
  PROVE  Spec => []ReportArrives
<1>1. Init => OneByOne /\ Admissions /\ Holdings
  <2> SUFFICES ASSUME Init PROVE OneByOne /\ Admissions /\ Holdings
    OBVIOUS
  <2>1. OneByOne
    BY DEF Init, OneByOne, OneFile, LastIsMine, SaidSo, NoReport
  <2>2. \A j \in Jobs : Admission(j)
    BY DEF Init, Admission, NoLink
  <2>3. \A j \in Jobs : Holds(j)
    BY ConstantsAssumption DEF Init, Holds, WorksOn, NoReport
  <2> QED
    BY <2>1, <2>2, <2>3 DEF Admissions, Holdings
<1>2. /\ Typing /\ OneByOne /\ Admissions /\ Holdings /\ [Next]_vars
      => OneByOne' /\ Admissions' /\ Holdings'
  BY OneByOnePreserved, AdmissionsPreserved, HoldingsPreserved
<1>3. Typing /\ Holdings => ReportArrives
  <2> SUFFICES ASSUME Typing, Holdings, Understood, faults \subseteq {"busy", "wait"}, caller # "ahead",
                      NEW j \in Jobs, report[j] = NoReport, NEW f \in said[j]
               PROVE  file[f] = "done"
    BY DEF ReportArrives
  <2>1. Holds(j)
    BY DEF Holdings, Mild
  <2>2. report[j] # [file |-> f, status |-> "consumed"]
    BY DEF NoReport
  <2> QED
    BY <2>1, <2>2 DEF Holds
<1> QED
  BY TypingInvariant, <1>1, <1>2, <1>3, PTL DEF Spec

-----------------------------------------------------------------------------
(* What is reserved, the job it is reserved for works on.                  *)
LEMMA RememberedByCall ==
  ASSUME Typing, Mild, ~timed, NEW j \in Jobs, Admission(j), cur[j] = {}, Call(j),
         NEW f \in Files, file[f] = "reserved" => holder[f] \in Jobs /\ WorksOn(holder[f], f),
         file'[f] = "reserved"
  PROVE  (holder[f] \in Jobs /\ WorksOn(holder[f], f))'
<1> USE DEF Typing, TypeOK
<1>1. MildCall(j) /\ (pc[j] = "report" => res[j] = NoFile /\ Admitted(j))
  <2>1. setting \in SettingType /\ service \in {"dd", "sam"}
    BY ConstantsAssumption DEF SettingType, service
  <2> QED
    BY <2>1, MildCalls DEF Admission, Admitted, Mild, Understood
<1>2. file'[f] = Release(report[j].status) => FALSE
  BY DEF Release
<1>3. CASE pc[j] = "next" /\ file[f] = "waiting" /\ holder'[f] = j
  BY <1>1, <1>3, MildWork
<1>4. CASE file'[f] = file[f] /\ holder'[f] = holder[f] /\ holder[f] # j
  <2>1. WorksOn(holder[f], f) /\ holder[f] \in Jobs
    BY <1>4
  <2> QED
    BY <1>4, <2>1, OneCalls DEF WorksOn
<1>5. CASE file'[f] = file[f] /\ holder'[f] = holder[f] /\ holder[f] = j
  <2>1. WorksOn(j, f) /\ file[f] = "reserved"
    BY <1>5
  <2>2. CASE pc[j] # "report"
    BY <1>1, <1>5, <2>1, <2>2, MildWork
  <2>3. CASE pc[j] = "report" /\ report'[j] = report[j]
    BY <1>1, <1>5, <2>1, <2>3, ConstantsAssumption DEF WorksOn
  <2>4. CASE pc[j] = "report" /\ TakeReport(j)
    <3>1. report[j].file = f /\ Valid(j)
      BY <1>1, <1>5, <2>1, <2>4, ConstantsAssumption DEF WorksOn, Valid
    <3> QED
      BY <1>2, <2>4, <3>1 DEF TakeReport
  <2> QED
    BY <1>1, <2>2, <2>3, <2>4, MildWork
<1> QED
  BY <1>1, <1>2, <1>3, <1>4, <1>5, MildService

LEMMA RememberedByCaller ==
  ASSUME Typing, Understood, caller # "ahead", NEW j \in Jobs, Admission(j), LastIsMine(j),
         CallerStep(j), NEW f \in Files, WorksOn(j, f)
  PROVE  WorksOn(j, f)'
<1> USE DEF Typing, TypeOK, WorksOn
<1>1. CASE Establish(j) \/ AskNext(j) \/ EndProcess(j)
  BY <1>1 DEF Establish, AskNext, EndProcess, callVars
<1>2. CASE Report(j)
  <2>1. PICK g \in cur[j], s \in {"consumed", "skipped"} :
          /\ report' = [report EXCEPT ![j] = [file |-> Did(j, g), status |-> s]]
          /\ cur' = [cur EXCEPT ![j] = @ \ {g}]
    BY <1>2 DEF Report
  <2>2. Did(j, g) = g
    BY <2>1, TellsTheTruth
  <2>3. report[j].file # f /\ res' = res
    BY <1>2, ConstantsAssumption DEF Report, Admission, NoReport
  <2> QED
    BY <2>1, <2>2, <2>3
<1> QED
  BY <1>1, <1>2 DEF CallerStep

LEMMA RememberedPreserved ==
  Typing /\ OneByOne /\ Admissions /\ Remembered /\ [Next]_vars => Remembered'
<1> SUFFICES ASSUME Typing, OneByOne, Admissions, Remembered, [Next]_vars PROVE Remembered'
  OBVIOUS
<1> setting' = setting
  BY SettingFixed
<1> SUFFICES ASSUME Mild, ~timed, caller # "ahead", NEW f \in Files, file'[f] = "reserved"
             PROVE  (holder[f] \in Jobs /\ WorksOn(holder[f], f))'
  BY DEF Remembered, Mild, Understood, service, faults, caller, timed
<1>1. file[f] = "reserved" => holder[f] \in Jobs /\ WorksOn(holder[f], f)
  BY DEF Remembered
<1>2. ASSUME NEW j \in Jobs PROVE Admission(j) /\ OneFile(j) /\ LastIsMine(j)
  BY DEF Admissions, OneByOne
<1>3. ASSUME NEW j \in Jobs, CallerStep(j) PROVE (holder[f] \in Jobs /\ WorksOn(holder[f], f))'
  <2>1. file' = file /\ holder' = holder
    BY <1>3 DEF CallerStep, Establish, AskNext, Report, EndProcess, serviceVars
  <2>2. holder[f] \in Jobs /\ WorksOn(holder[f], f)
    BY <1>1, <2>1
  <2>3. CASE holder[f] = j
    BY <1>2, <1>3, <2>1, <2>2, <2>3, RememberedByCaller DEF Mild
  <2>4. CASE holder[f] # j
    BY <1>3, <2>1, <2>2, <2>4, CallersRest DEF Typing, WorksOn
  <2> QED
    BY <2>3, <2>4
<1>4. ASSUME NEW j \in Jobs, Call(j) PROVE (holder[f] \in Jobs /\ WorksOn(holder[f], f))'
  <2>1. cur[j] = {}
    BY <1>2, <1>4, CallCases DEF Asking, Calls, OneFile
  <2> QED
    BY <1>1, <1>2, <1>4, <2>1, RememberedByCall
<1>5. ASSUME NEW g \in Files, Expire(g) PROVE (holder[f] \in Jobs /\ WorksOn(holder[f], f))'
  <2>1. file'[f] = file[f] /\ holder'[f] = holder[f]
    BY <1>5 DEF Expire, Typing, TypeOK
  <2> QED
    BY <1>1, <1>5, <2>1 DEF Expire, jobVars, callVars, WorksOn
<1>6. CASE UNCHANGED vars
  BY <1>1, <1>6 DEF vars, jobVars, callVars, serviceVars, WorksOn
<1> QED
  BY <1>3, <1>4, <1>5, <1>6 DEF Next, CallerStep

(* No reservation is forgotten by a job that gets its answers and whose    *)
(* reports are understood.                                                 *)
THEOREM NoneForgotten ==
  ASSUME SamTries > 1
  PROVE  Spec => []NothingForgotten
<1>1. Init => OneByOne /\ Admissions /\ Remembered
  <2> SUFFICES ASSUME Init PROVE OneByOne /\ Admissions /\ Remembered
    OBVIOUS
  <2>1. OneByOne
    BY DEF Init, OneByOne, OneFile, LastIsMine, SaidSo, NoReport
  <2>2. \A j \in Jobs : Admission(j)
    BY DEF Init, Admission, NoLink
  <2>3. Remembered
    BY DEF Init, Remembered
  <2> QED
    BY <2>1, <2>2, <2>3 DEF Admissions
<1>2. /\ Typing /\ OneByOne /\ Admissions /\ Remembered /\ [Next]_vars
      => OneByOne' /\ Admissions' /\ Remembered'
  BY OneByOnePreserved, AdmissionsPreserved, RememberedPreserved
<1>3. Remembered => NothingForgotten
  BY DEF Remembered, NothingForgotten, Mild
<1> QED
  BY TypingInvariant, <1>1, <1>2, <1>3, PTL DEF Spec

-----------------------------------------------------------------------------
(* The end of a job.                                                       *)
LEMMA FinishedStays ==
  ASSUME Typing, [Next]_vars, NEW f \in Files, file[f] \in {"done", "failed"}
  PROVE  file'[f] = file[f]
<1> USE DEF Typing, TypeOK
<1>1. ASSUME NEW j \in Jobs, Call(j) PROVE file'[f] = file[f]
  <2>1. CASE KeepFiles
    BY <2>1 DEF KeepFiles, serviceVars
  <2>2. ASSUME NEW a \in AnswersTo(j), Serve(j, a) PROVE file'[f] = file[f]
    <3>1. CASE pc[j] = "next" /\ HandOut(j, a)
      <4>1. a \in NextAnswers \/ a.url = Junk
        BY <2>2, <3>1, AnswersByCall DEF Answer
      <4>2. a.url \in Files => file[a.url] = "waiting"
        BY <4>1, FileAnswers, ConstantsAssumption
      <4> QED
        BY <3>1, <4>2 DEF HandOut, KeepFiles, serviceVars
    <3>2. CASE TakeReport(j)
      BY <3>2 DEF TakeReport, Valid
    <3>3. CASE TakeEnd(j, a)
      BY <3>3 DEF TakeEnd
    <3> QED
      BY <2>1, <2>2, <3>1, <3>2, <3>3, ServeByCall
  <2> QED
    BY <1>1, <2>1, <2>2, CallCases
<1>2. ASSUME NEW j \in Jobs, CallerStep(j) PROVE file' = file
  BY <1>2 DEF CallerStep, Establish, AskNext, Report, EndProcess, serviceVars
<1>3. ASSUME NEW g \in Files, Expire(g) PROVE file'[f] = file[f]
  BY <1>3 DEF Expire
<1> QED
  BY <1>1, <1>2, <1>3 DEF Next, CallerStep, vars, serviceVars

(* How a job comes to its end: a getNextFile returned no file, or          *)
(* endProcess returned.                                                    *)
LEMMA EndReached ==
  ASSUME Typing, service = "sam", "timeout" \notin faults, NEW j \in Jobs, Call(j),
         pc'[j] \in {"ended", "end", "over"}
  PROVE  pc[j] = "end" \/ Finished \/ "wait" \in faults
<1> USE DEF Typing, TypeOK, MoveTo
<1>1. SUFFICES ASSUME pc[j] # "end" PROVE Finished \/ "wait" \in faults
  OBVIOUS
<1>2. ~Crash(j) /\ Asking(j) /\ pc[j] \notin {"ended", "over"}
  BY CallCases DEF Crash, Asking, Calls
<1>3. PICK a : /\ Answered(j, a)
               /\ a \in AnswersTo(j) \/ a.url = Junk
  BY <1>2 DEF Call, Exchange, Rebuff, ServerError, NoAnswer, TimeOut, Answer
<1>4. pc[j] = "next" /\ Return(j, a.url)
  <2>1. ~UNCHANGED pc
    BY <1>1, <1>2
  <2>2. ASSUME NEW s, Concluded(j, s) PROVE pc'[j] \in {"idle", "next", "report"} \/ pc' = pc
    BY <1>1, <2>2 DEF Concluded, Authenticated
  <2> QED
    BY <1>3, <2>1, <2>2, AnsweredCases
<1>5. a.url = NoFile
  BY <1>4 DEF Return
<1>6. a \in AnswersTo(j)
  BY <1>3, <1>5, ConstantsAssumption
<1>7. a \in NextAnswers
  <2>1. Answer(401, Junk).url = Junk
    BY DEF Answer
  <2> QED
    BY <1>4, <1>5, <1>6, <2>1, AnswersByCall, ConstantsAssumption
<1> QED
  BY <1>5, <1>7, FileAnswers

LEMMA EndedPreserved ==
  Typing /\ EndedMeansFinished /\ [Next]_vars => EndedMeansFinished'
<1> SUFFICES ASSUME Typing, EndedMeansFinished, [Next]_vars PROVE EndedMeansFinished'
  OBVIOUS
<1> setting' = setting
  BY SettingFixed
<1> SUFFICES ASSUME service = "sam", faults \cap {"wait", "timeout"} = {}, NEW k \in Jobs,
                    pc'[k] \in {"ended", "end", "over"}
             PROVE  Finished'
  BY DEF EndedMeansFinished, service, faults
<1>1. Finished => Finished'
  BY FinishedStays DEF Finished
<1>2. CASE pc[k] \in {"ended", "end", "over"}
  BY <1>1, <1>2 DEF EndedMeansFinished
<1>3. ASSUME NEW j \in Jobs, Call(j), pc[k] \notin {"ended", "end", "over"} PROVE Finished
  <2>1. k = j
    BY <1>3, OneCalls DEF Typing
  <2> QED
    BY <1>3, <2>1, EndReached
<1>4. ASSUME NEW j \in Jobs, CallerStep(j) PROVE pc[k] \in {"ended", "end", "over"}
  BY <1>4 DEF CallerStep, Establish, AskNext, Report, EndProcess, Begin, MoveTo, Typing, TypeOK
<1>5. CASE UNCHANGED pc
  BY <1>2, <1>5
<1> QED
  BY <1>1, <1>2, <1>3, <1>4, <1>5 DEF Next, CallerStep, Expire, vars, jobVars

(* A SAM job is told that there are no more files only if that is so.      *)
THEOREM EndIsTrue == Spec => []EndedMeansFinished
<1>1. Init => EndedMeansFinished
  BY DEF Init, EndedMeansFinished
<1>2. Typing /\ EndedMeansFinished /\ [Next]_vars => EndedMeansFinished'
  BY EndedPreserved
<1> QED
  BY TypingInvariant, <1>1, <1>2, PTL DEF Spec

-----------------------------------------------------------------------------
(* SAM, nobody else, ends a process once, when endProcess is about to      *)
(* return 0.                                                               *)
Endings == \A j \in Jobs : pc[j] \in {"end", "over"} => service = "sam"

EndsOnce ==
    /\ Endings
    /\ Mild /\ faults \subseteq {"busy"} => \A j \in ended : pc[j] = "over"

(* What endProcess has returned.                                           *)
LEMMA EndConcluded ==
  ASSUME Typing, NEW j \in Jobs, NEW s, pc[j] = "end", Concluded(j, s)
  PROVE  pc'[j] = "over" /\ link'[j].code = IntResult(s)
<1>1. link[j] \in Links
  BY DEF Typing, TypeOK
<1>2. link' = [link EXCEPT ![j].code = IntResult(s)] /\ MoveTo(j, "over")
  BY DEF Concluded
<1> QED
  BY <1>1, <1>2 DEF Typing, TypeOK, MoveTo, Links

LEMMA EndCalls ==
  ASSUME Typing, NEW j \in Jobs, Call(j), pc'[j] = "over"
  PROVE  /\ pc[j] = "end"
         /\ link'[j].code = 0 /\ "wait" \notin faults => j \in ended'
<1> USE DEF Typing, TypeOK, MoveTo
<1>1. pc[j] # "over" /\ ~Crash(j)
  BY CallCases DEF Asking, Calls, Crash
<1>2. ASSUME NEW s, pc[j] # "end", Concluded(j, s) PROVE FALSE
  BY <1>1, <1>2 DEF Concluded, Authenticated
<1>3. ASSUME NEW a, Answered(j, a)
      PROVE  pc[j] = "end" /\ Concluded(j, a.status)
  <2>1. pc' # pc /\ ~\E url : Return(j, url)
    BY <1>1 DEF Return
  <2> QED
    BY <1>1, <1>2, <1>3, <2>1, AnsweredCases DEF DdNext
<1>4. ASSUME SamTimesOut(j) PROVE pc[j] = "end" /\ Concluded(j, 500)
  BY <1>2, <1>4 DEF SamTimesOut, Return
<1>5. pc[j] = "end"
  BY <1>1, <1>3, <1>4, CallCases
<1>6. ASSUME Exchange(j), "wait" \notin faults PROVE link'[j].code = 0 => j \in ended'
  <2>1. PICK a \in AnswersTo(j) : Serve(j, a) /\ Answered(j, a)
    BY <1>6 DEF Exchange
  <2>2. a = Answer(IF Admitted(j) /\ j \notin ended THEN 200 ELSE 404, NoFile)
    BY <1>5, <1>6, <2>1, AnswersByCall
  <2>3. TakeEnd(j, a) /\ link'[j].code = IntResult(a.status)
    BY <1>3, <1>5, <2>1, ServeByCall, EndConcluded
  <2> QED
    BY <2>2, <2>3 DEF TakeEnd, Answer, IntResult
<1>7. ASSUME NEW s \in {302, 404, 500}, Concluded(j, s) PROVE link'[j].code = 1
  <2>1. link'[j].code = IntResult(s)
    BY <1>5, <1>7, EndConcluded
  <2> QED
    BY <2>1 DEF IntResult
<1>8. CASE Rebuff(j) \/ ServerError(j)
  <2>1. PICK s \in {302, 404, 500} : Answered(j, Answer(s, Junk))
    BY <1>8 DEF Rebuff, ServerError
  <2>2. Concluded(j, s)
    BY <1>3, <2>1 DEF Answer
  <2> QED
    BY <1>5, <1>7, <2>2
<1>9. CASE TimeOut(j)
  BY <1>1, <1>4, <1>5, <1>7, <1>9 DEF TimeOut, SamTimesOut
<1> QED
  BY <1>1, <1>5, <1>6, <1>8, <1>9 DEF Call, NoAnswer

LEMMA EndingsPreserved == Typing /\ Endings /\ [Next]_vars => Endings'
<1> SUFFICES ASSUME Typing, Endings, [Next]_vars, NEW k \in Jobs, pc'[k] \in {"end", "over"}
             PROVE  service = "sam"
  BY SettingFixed DEF Endings, service
<1> USE DEF Typing, TypeOK, MoveTo
<1>1. CASE pc[k] \in {"end", "over"}
  BY <1>1 DEF Endings
<1>2. ASSUME NEW j \in Jobs, CallerStep(j), pc[k] \notin {"end", "over"} PROVE service = "sam"
  BY <1>2 DEF CallerStep, Establish, AskNext, Report, EndProcess, Begin
<1>3. ASSUME NEW j \in Jobs, Call(j), pc[k] \notin {"end", "over"} PROVE FALSE
  <2>1. k = j
    BY <1>3, OneCalls
  <2>2. pc'[j] # "over"
    BY <1>3, <2>1, EndCalls
  <2>3. ASSUME NEW s, Concluded(j, s), pc[j] # "end" PROVE pc'[j] # "end"
    BY <2>3 DEF Concluded, Authenticated
  <2>4. ~Crash(j) /\ ~\E url : Return(j, url)
    BY <1>3, <2>1, <2>2 DEF Crash, Return
  <2>5. ASSUME NEW a, Answered(j, a) PROVE FALSE
    BY <1>3, <2>1, <2>2, <2>3, <2>4, <2>5, AnsweredCases DEF DdNext
  <2>6. ~SamTimesOut(j)
    BY <1>3, <2>1, <2>2, <2>3, <2>4 DEF SamTimesOut
  <2> QED
    BY <1>3, <2>4, <2>5, <2>6, CallCases
<1>4. CASE UNCHANGED pc
  BY <1>1, <1>4
<1> QED
  BY <1>1, <1>2, <1>3, <1>4 DEF Next, CallerStep, Expire, vars, jobVars

(* With SAM willing to end the process the first answer that counts is a   *)
(* success.                                                                *)
LEMMA EndAnswered ==
  ASSUME Typing, Mild, faults \subseteq {"busy"}, Admissions, EndsOnce, NEW j \in Jobs, Call(j)
  PROVE  /\ pc'[j] = "over" => link'[j].code = 0
         /\ j \in ended' => pc'[j] = "over"
         /\ \A k \in ended' : k \in ended \/ k = j
<1> USE DEF Typing, TypeOK, MoveTo
<1>1. Admission(j) /\ j \notin ended
  BY CallCases DEF Admissions, EndsOnce, Asking, Calls
<1>2. CASE Rebuff(j)
  <2>1. tries[j] = 0 /\ KeepFiles /\ \E s \in {302, 404} : Answered(j, Answer(s, Junk))
    BY <1>2 DEF Rebuff
  <2>2. \A s \in {302, 404} : Again(j, Answer(s, Junk).status)
    BY <2>1, TriesAreMany DEF Again, Retried, Answer, Mild
  <2>3. pc' = pc /\ ended' = ended
    BY <2>1, <2>2 DEF Answered, KeepFiles, serviceVars
  <2> QED
    BY <1>1, <2>3, CallCases DEF Asking, Calls
<1>3. CASE Exchange(j)
  <2>1. PICK a \in AnswersTo(j) : Serve(j, a) /\ Answered(j, a)
    BY <1>3 DEF Exchange
  <2>2. CASE pc[j] # "end"
    <3>1. ended' = ended
      BY <2>1, <2>2, ServeByCall DEF HandOut, TakeReport, KeepFiles, serviceVars
    <3>2. pc'[j] # "over"
      BY <2>2, EndCalls
    <3> QED
      BY <1>1, <3>1, <3>2
  <2>3. CASE pc[j] = "end"
    <3>1. Admitted(j)
      BY <1>1, <2>3 DEF Admission, Admitted
    <3>2. a.status = 200
      BY <1>1, <2>1, <2>3, <3>1, AnswersByCall DEF Answer
    <3>3. Concluded(j, 200)
      BY <2>1, <2>3, <3>2, AnsweredCases DEF Retried
    <3>4. pc'[j] = "over" /\ link'[j].code = 0
      BY <2>3, <3>3, EndConcluded DEF IntResult
    <3>5. ended' = ended \union {j}
      BY <2>1, <2>3, <3>2, ServeByCall DEF TakeEnd
    <3> QED
      BY <3>4, <3>5
  <2> QED
    BY <2>2, <2>3
<1> QED
  BY <1>2, <1>3 DEF Call, ServerError, NoAnswer, TimeOut

LEMMA EndToldPreserved ==
  ASSUME SamTries > 1
  PROVE  Typing /\ Admissions /\ EndsOnce /\ EndTold /\ [Next]_vars => EndsOnce' /\ EndTold'
<1> SUFFICES ASSUME Typing, Admissions, EndsOnce, EndTold, [Next]_vars PROVE EndsOnce' /\ EndTold'
  OBVIOUS
<1> USE DEF Typing, TypeOK
<1> setting' = setting /\ faults' = faults
  BY SettingFixed DEF faults
<1>0. Endings'
  BY EndingsPreserved DEF EndsOnce
<1>1. ASSUME NEW j \in Jobs, CallerStep(j)
      PROVE  /\ ended' = ended /\ \A k \in Jobs : pc[k] = "over" <=> pc'[k] = "over"
             /\ \A k \in Jobs : pc[k] = "over" => link'[k] = link[k]
  BY <1>1 DEF CallerStep, Establish, AskNext, Report, EndProcess, Begin, MoveTo, callVars, serviceVars
<1>2. ASSUME NEW j \in Jobs, Call(j) PROVE EndsOnce' /\ EndTold'
  <2>1. ended \subseteq ended'
    <3>1. ASSUME NEW a \in AnswersTo(j), Serve(j, a) PROVE ended \subseteq ended'
      BY <3>1, ServeByCall DEF HandOut, TakeReport, TakeEnd, KeepFiles, serviceVars
    <3> QED
      BY <1>2, <3>1, CallCases DEF KeepFiles, serviceVars
  <2>2. EndsOnce'
    <3> SUFFICES ASSUME Mild, faults \subseteq {"busy"}, NEW k \in ended' PROVE pc'[k] = "over"
      BY <1>0, UnderstoodFixed DEF EndsOnce, Mild
    <3>1. CASE k = j
      BY <1>2, <3>1, EndAnswered
    <3>2. CASE k # j
      <4>1. k \in ended
        BY <1>2, <3>2, EndAnswered
      <4>2. k \in Jobs /\ pc[k] = "over"
        BY <4>1 DEF EndsOnce
      <4> QED
        BY <1>2, <3>2, <4>2, OneCalls
    <3> QED
      BY <3>1, <3>2
  <2>3. EndTold'
    <3> SUFFICES ASSUME NEW k \in Jobs, pc'[k] = "over"
                 PROVE  /\ link'[k].code = 0 /\ "wait" \notin faults => k \in ended'
                        /\ faults \subseteq {"busy"} => link'[k].code = 0
      BY DEF EndTold
    <3>1. CASE k = j
      <4>1. pc[j] = "end" /\ service = "sam"
        BY <1>2, <3>1, EndCalls DEF EndsOnce, Endings
      <4>2. Understood
        BY <4>1 DEF Understood
      <4> QED
        BY <1>2, <3>1, <4>2, EndCalls, EndAnswered DEF Mild
    <3>2. CASE k # j
      <4>1. pc[k] = "over" /\ link'[k] = link[k]
        BY <1>2, <3>2, OneCalls
      <4> QED
        BY <2>1, <4>1 DEF EndTold
    <3> QED
      BY <3>1, <3>2
  <2> QED
    BY <2>2, <2>3
<1>3. CASE UNCHANGED <<jobVars, ended>>
  BY <1>0, <1>3, UnderstoodFixed DEF jobVars, callVars, EndsOnce, EndTold, Mild
<1>4. ASSUME NEW j \in Jobs, CallerStep(j) PROVE EndsOnce' /\ EndTold'
  BY <1>0, <1>1, <1>4, UnderstoodFixed DEF EndsOnce, EndTold, Mild
<1> QED
  BY <1>2, <1>3, <1>4 DEF Next, CallerStep, Expire, vars, serviceVars

(* What endProcess returns is what has become of the process.              *)
THEOREM EndIsTold ==
  ASSUME SamTries > 1
  PROVE  Spec => []EndTold
<1>1. Init => Admissions /\ EndsOnce /\ EndTold
  <2> SUFFICES ASSUME Init PROVE Admissions /\ EndsOnce /\ EndTold
    OBVIOUS
  <2>1. \A j \in Jobs : Admission(j)
    BY DEF Init, Admission, NoLink
  <2> QED
    BY <2>1 DEF Init, Admissions, Endings, EndsOnce, EndTold
<1>2. /\ Typing /\ Admissions /\ EndsOnce /\ EndTold /\ [Next]_vars
      => Admissions' /\ EndsOnce' /\ EndTold'
  BY AdmissionsPreserved, EndToldPreserved
<1> QED
  BY TypingInvariant, <1>1, <1>2, PTL DEF Spec

=============================================================================
