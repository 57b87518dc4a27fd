------------------------------- MODULE Delivery -------------------------------
(***************************************************************************)
(* Jobs that get a project's files one after the other: establishProcess,  *)
(* getNextFile, updateFileStatus and endProcess, over the Data Dispatcher  *)
(* client, which authenticates before each call, or the SAM client, over   *)
(* the request loop of WebAPI's constructor.                               *)
(*                                                                         *)
(* The service is external.  It hands a file out to one job at a time,     *)
(* takes it back when the job is silent for too long, and answers with an  *)
(* HTTP status.  A job's callers are external too: they ask for a file and *)
(* report on it, with the ifdh command or with the library.                *)
(***************************************************************************)
EXTENDS Naturals, FiniteSets

CONSTANTS
    Jobs,
    Files,      \* the files of the project
    NoFile,     \* stands for: no file
    Junk,       \* stands for what is no file of the project: the text of
                \* an error answer taken for a url, or a wrong name
    Settings,   \* what varies from behaviour to behaviour
    SamTries    \* WebAPI's default number of tries (10)

(* "cli" runs a process for every call; "library" keeps one ifdh object;   *)
(* "ahead" too, and gets its next file before it reports on the last.      *)
CallerKinds == {"cli", "library", "ahead"}

(* The first answer to a request is a redirection or a refusal; any answer *)
(* may be a refusal; or an error, before or after the request is done; no  *)
(* answer; a time-out of WebAPI (its limit is never initialised); SAM asks *)
(* to come back later; a reservation runs out while the job works on.      *)
FaultKinds == {"busy", "refused", "error", "lost", "timeout", "wait", "slow"}

(* Which service the project is of, whether the Data Dispatcher serves a   *)
(* request that has no token ("open"), whether dd_next_file_url is called  *)
(* with a timeout, how the jobs call ifdh, whether $furi, or $USER without *)
(* it, gives the files' namespace ("guess"), and the faults that happen.   *)
SettingType ==
    [service : {"dd", "sam"}, open : BOOLEAN, timed : BOOLEAN, caller : CallerKinds,
     guess : BOOLEAN, faults : SUBSET FaultKinds]

ASSUME ConstantsAssumption ==
    /\ NoFile \notin Files /\ Junk \notin Files /\ Junk # NoFile
    /\ Settings \subseteq SettingType /\ SamTries \in Nat \ {0}

VARIABLES
    setting,    \* the setting of this behaviour
    pc,         \* the call each job is in
    tries,      \* retries, in the constructor of WebAPI
    res,        \* what dd_next_file_json has so far
    last,       \* _last_file_did
    cur,        \* the files a caller has got and not reported on
    report,     \* the report a job is making
    link,       \* its process id, and the result of endProcess
    said,       \* the files each caller has said to be consumed
    file,       \* the service: what has become of each file
    holder,     \* and whom it has been given to
    ended       \* and whose processes it has ended

service == setting.service
timed == setting.timed
caller == setting.caller
faults == setting.faults

callVars == <<res, last, cur, report, link>>
jobVars == <<pc, tries, callVars, said>>
serviceVars == <<file, holder, ended>>
vars == <<setting, jobVars, serviceVars>>

Reports == [file : Files \union {NoFile, Junk}, status : {"consumed", "skipped"}]

NoReport == [file |-> NoFile, status |-> "skipped"]

(* What a job knows of itself: what it authenticates for, for the first or *)
(* the second time; what it took for its process id; and the result.       *)
Links == [going : {"next", "second", "report"},
          process : {"none", "given", "junk"}, code : {0, 1}]

NoLink == [going |-> "next", process |-> "none", code |-> 1]

Calls == {"establish", "auth", "next", "report", "end"}

Tries(j) == IF service = "sam" \/ pc[j] = "auth" THEN SamTries
            ELSE IF pc[j] = "next" THEN 3 ELSE 2

(* Type invariant; in particular a request is not tried too often.         *)
TypeOK ==
    /\ setting \in Settings
    /\ pc \in [Jobs -> Calls \union {"start", "idle", "ended", "over", "crashed"}]
    /\ tries \in [Jobs -> Nat] /\ \A j \in Jobs : tries[j] < Tries(j)
    /\ res \in [Jobs -> Files \union {NoFile}]
    /\ last \in [Jobs -> Files \union {NoFile}]
    /\ cur \in [Jobs -> SUBSET (Files \union {Junk})]
    /\ report \in [Jobs -> Reports] /\ link \in [Jobs -> Links]
    /\ said \in [Jobs -> SUBSET Files]
    /\ file \in [Files -> {"waiting", "reserved", "done", "failed"}]
    /\ holder \in [Files -> Jobs \union {NoFile}]
    /\ ended \subseteq Jobs

Init ==
    /\ setting \in Settings
    /\ pc = [j \in Jobs |-> "start"]
    /\ tries = [j \in Jobs |-> 0]
    /\ res = [j \in Jobs |-> NoFile]
    /\ last = [j \in Jobs |-> NoFile]
    /\ cur = [j \in Jobs |-> {}]
    /\ report = [j \in Jobs |-> NoReport]
    /\ link = [j \in Jobs |-> NoLink]
    /\ said = [j \in Jobs |-> {}]
    /\ file = [f \in Files |-> "waiting"]
    /\ holder = [f \in Files |-> NoFile]
    /\ ended = {}

-----------------------------------------------------------------------------
(* The callers *)

MoveTo(j, p) == pc' = [pc EXCEPT ![j] = p]

(* establishProcess; with the Data Dispatcher it asks nobody: the name of a*)
(* worker is made here, or empty, and no report has it.                    *)
Establish(j) ==
    /\ pc[j] = "start"
    /\ MoveTo(j, IF service = "sam" THEN "establish" ELSE "idle")
    /\ UNCHANGED <<setting, tries, callVars, said, serviceVars>>

(* The Data Dispatcher's calls authenticate first when there is no token:  *)
(* every time, for _dd_mc_session_tok is never anything but empty.         *)
Begin(j, call) ==
    IF service = "dd"
    THEN MoveTo(j, "auth") /\ link' = [link EXCEPT ![j].going = call]
    ELSE MoveTo(j, call) /\ UNCHANGED link

(* getNextFile, or dd_next_file_url with its own timeout.                  *)
AskNext(j) ==
    /\ pc[j] = "idle"
    /\ Cardinality(cur[j]) < IF caller = "ahead" THEN 2 ELSE 1
    /\ Begin(j, "next")
    /\ UNCHANGED <<setting, tries, res, last, cur, report, said, serviceVars>>

(* endProcess of SAM, when there are no more files.                        *)
EndProcess(j) ==
    /\ pc[j] = "ended" /\ service = "sam"
    /\ MoveTo(j, "end")
    /\ UNCHANGED <<setting, tries, callVars, said, serviceVars>>

(* updateFileStatus of f: what the Data Dispatcher is told of.  A process  *)
(* that got no file itself builds the name from f's own and a namespace it *)
(* guesses: the fourth part from the end of $furi, or $USER.               *)
Did(j, f) ==
    IF service = "sam" THEN f
    ELSE IF last[j] # NoFile THEN last[j]
    ELSE IF setting.guess THEN f ELSE Junk

(* Mutant: the two calls are swapped.                                      *)
ReleaseSwapped(status) == IF status = "consumed" THEN "failed" ELSE "done"

(* dd_file_done for "consumed", dd_file_failed without retry for "skipped".*)
Release(status) == IF status = "consumed" THEN "done" ELSE "failed"

(* A file that could not be fetched is skipped.                            *)
Report(j) ==
    /\ pc[j] = "idle"
    /\ \E f \in cur[j], s \in {"consumed", "skipped"} :
         /\ f = Junk => s = "skipped"
         /\ report' = [report EXCEPT ![j] = [file |-> Did(j, f), status |-> s]]
         /\ said' = [said EXCEPT ![j] = IF s = "consumed" THEN @ \union {f} ELSE @]
         /\ cur' = [cur EXCEPT ![j] = @ \ {f}]
    /\ Begin(j, "report")
    /\ UNCHANGED <<setting, tries, res, last, serviceVars>>

-----------------------------------------------------------------------------
(* The service: what it answers, and what it does then *)

Finished == \A f \in Files : file[f] \in {"done", "failed"}

KeepFiles == UNCHANGED serviceVars

Answer(s, f) == [status |-> s, url |-> f, retry |-> FALSE]

Wait == [status |-> 200, url |-> NoFile, retry |-> TRUE]

(* A file, or word that the job has to wait, or that there are no more.    *)
HandOut(j, a) ==
    IF a.url \in Files
    THEN /\ file' = [file EXCEPT ![a.url] = "reserved"]
         /\ holder' = [holder EXCEPT ![a.url] = j]
         /\ UNCHANGED ended
    ELSE KeepFiles

NextAnswers ==
    LET waiting == {f \in Files : file[f] = "waiting"}
    IN  {Answer(200, f) : f \in waiting}
        \union (IF service = "dd" /\ waiting = {} /\ ~Finished THEN {Wait} ELSE {})
        \union (IF "wait" \in faults /\ service = "sam" THEN {Answer(202, NoFile)} ELSE {})
        \union (IF Finished THEN {Answer(IF service = "dd" THEN 400 ELSE 204, NoFile)} ELSE {})

(* No request to the Data Dispatcher has a token: one that asks for it     *)
(* refuses them all.  SAM refuses a process it does not know.              *)
Admitted(j) == IF service = "dd" THEN setting.open ELSE link[j].process = "given"

(* Only the job that has the file reports on it.                           *)
Valid(j) ==
    LET f == report[j].file
    IN  Admitted(j) /\ f \in Files /\ file[f] = "reserved" /\ holder[f] = j

TakeReport(j) ==
    /\ file' = IF Valid(j)
               THEN [file EXCEPT ![report[j].file] = Release(report[j].status)]
               ELSE file
    /\ UNCHANGED <<holder, ended>>

TakeEnd(j, a) ==
    /\ ended' = IF a.status = 200 THEN ended \union {j} ELSE ended
    /\ UNCHANGED <<file, holder>>

(* The service carries out the request and answers a.                      *)
Serve(j, a) ==
    CASE pc[j] = "next" -> HandOut(j, a)
      [] pc[j] = "report" -> TakeReport(j)
      [] pc[j] = "end" -> TakeEnd(j, a)
      [] OTHER -> KeepFiles

AnswersTo(j) ==
    CASE pc[j] = "next" -> IF Admitted(j) THEN NextAnswers ELSE {Answer(401, Junk)}
      [] pc[j] = "report" -> {Answer(IF Valid(j) THEN 200 ELSE 400, NoFile)}
      [] pc[j] = "end" ->
            {Answer(IF Admitted(j) /\ j \notin ended THEN 200 ELSE 404, NoFile)}
            \union (IF "wait" \in faults THEN {Answer(202, NoFile)} ELSE {})
      [] OTHER -> {Answer(200, NoFile)}

-----------------------------------------------------------------------------
(* WebAPI, and what its callers make of its answer *)

(* Mutant: a success is asked for again.                                   *)
RetriedInclusive(s) == s \leq 200 \/ (s > 205 /\ s < 500)

(* The condition of the loop; there is no answer with _status 0.           *)
Retried(s) == s < 200 \/ (s > 205 /\ s < 500)

(* Mutant: one try too many.                                               *)
OneMoreTry(j, s) == Retried(s) /\ tries[j] < Tries(j)

(* Mutant: one try too few.                                                *)
OneTryLess(j, s) == Retried(s) /\ tries[j] + 2 < Tries(j)

Again(j, s) == Retried(s) /\ tries[j] + 1 < Tries(j)

(* The process dies, of a null pointer or of an exception.                 *)
Crash(j) ==
    /\ MoveTo(j, "crashed")
    /\ tries' = [tries EXCEPT ![j] = 0]
    /\ res' = [res EXCEPT ![j] = NoFile]
    /\ last' = [last EXCEPT ![j] = NoFile]
    /\ cur' = [cur EXCEPT ![j] = {}]
    /\ report' = [report EXCEPT ![j] = NoReport]
    /\ link' = [link EXCEPT ![j] = NoLink]

(* The url getNextFile returns; none ends the job.                         *)
Return(j, url) ==
    /\ MoveTo(j, IF url = NoFile THEN "ended" ELSE "idle")
    /\ cur' = [cur EXCEPT ![j] = IF url = NoFile THEN @ ELSE @ \union {url}]
    /\ last' = IF service = "dd" /\ url # NoFile /\ caller # "cli"
               THEN [last EXCEPT ![j] = url] ELSE last
    /\ res' = [res EXCEPT ![j] = NoFile]
    /\ UNCHANGED <<report, link>>

(* Mutant: a request to wait counts as the end of the files.               *)
DdNextOnce(j, a) ==
    IF a.status = 200 THEN Return(j, a.url) ELSE UNCHANGED <<pc, callVars>>

(* One round of dd_next_file_json's loop.  With a timeout whether it goes  *)
(* on depends only on the clock, and a file it has got is forgotten; when  *)
(* the time is over without a file, info.is_null() goes through the null   *)
(* pointer of an empty json, or there is no handle to look replicas up in. *)
DdNext(j, a) ==
    LET got == IF a.status = 200 THEN a.url ELSE res[j]
    IN  \/ /\ timed \/ (a.status = 200 /\ ~a.retry)
           /\ IF got \in Files THEN Return(j, got) ELSE Crash(j)
        \/ /\ timed \/ a.status # 200 \/ a.retry
           /\ res' = [res EXCEPT ![j] = got]
           /\ UNCHANGED <<pc, cur, last, report, link>>

(* Mutant: an answer that is not a success counts as the end of the files. *)
SamNextChecked(j, a) == Return(j, IF a.status = 200 THEN a.url ELSE NoFile)

(* do_url_str gives the text of the answer, whatever its status.           *)
SamNext(j, a) == Return(j, a.url)

(* dd_mc_authenticate takes the token from _rcv_headers, which WebAPI never*)
(* fills: it is empty after every answer.  So dd_next_file_json, which asks*)
(* for it at two places, authenticates twice, and all go on without.       *)
Authenticated(j) ==
    LET again == link[j].going = "next"
    IN  /\ link' = [link EXCEPT ![j].going = IF again THEN "second" ELSE "next"]
        /\ IF again THEN UNCHANGED pc
           ELSE MoveTo(j, IF link[j].going = "report" THEN "report" ELSE "next")

(* Mutant: everything below 400 is success.                                *)
BelowErrors(status) == IF status < 400 THEN 0 ELSE 1

(* do_url_int: "201,202,.. is also success..".                             *)
IntResult(status) == IF status \in 200 .. 205 THEN 0 ELSE 1

(* What comes of a call that is no getNextFile.  The process id is the text*)
(* of any answer; what comes of a report is looked at by nobody.           *)
Concluded(j, status) ==
    \/ /\ pc[j] = "report"
       /\ MoveTo(j, "idle")
       /\ report' = [report EXCEPT ![j] = NoReport]
       /\ UNCHANGED link
    \/ /\ pc[j] = "auth"
       /\ Authenticated(j)
       /\ UNCHANGED report
    \/ /\ pc[j] = "establish"
       /\ MoveTo(j, "idle")
       /\ link' = [link EXCEPT ![j].process = IF status = 200 THEN "given" ELSE "junk"]
       /\ UNCHANGED report
    \/ /\ pc[j] = "end"
       /\ MoveTo(j, "over")
       /\ link' = [link EXCEPT ![j].code = IntResult(status)]
       /\ UNCHANGED report

(* The constructor has an answer a and tries again or returns.             *)
Answered(j, a) ==
    \/ /\ Again(j, a.status)
       /\ tries' = [tries EXCEPT ![j] = @ + 1]
       /\ UNCHANGED <<pc, callVars>>
    \/ /\ ~Again(j, a.status)
       /\ tries' = [tries EXCEPT ![j] = 0]
       /\ IF pc[j] # "next" THEN Concluded(j, a.status) /\ UNCHANGED <<res, last, cur>>
          ELSE IF service = "dd" THEN DdNext(j, a) ELSE SamNext(j, a)

Asking(j) == pc[j] \in Calls

Exchange(j) ==
    /\ Asking(j)
    /\ \E a \in AnswersTo(j) : Serve(j, a) /\ Answered(j, a)
    /\ UNCHANGED <<setting, said>>

(* A redirection or a refusal: the request was not carried out.            *)
Rebuff(j) ==
    /\ Asking(j)
    /\ \/ "busy" \in faults /\ tries[j] = 0
       \/ "refused" \in faults
    /\ \E s \in {302, 404} : Answered(j, Answer(s, Junk))
    /\ KeepFiles
    /\ UNCHANGED <<setting, said>>

(* A 5xx answer: the loop ends with the error's text.                      *)
ServerError(j) ==
    /\ Asking(j) /\ "error" \in faults
    /\ KeepFiles \/ \E a \in AnswersTo(j) : Serve(j, a)
    /\ Answered(j, Answer(500, Junk))
    /\ UNCHANGED <<setting, said>>

(* No answer: res->body is read through a null pointer.                    *)
NoAnswer(j) ==
    /\ Asking(j) /\ "lost" \in faults
    /\ KeepFiles \/ \E a \in AnswersTo(j) : Serve(j, a)
    /\ Crash(j)
    /\ UNCHANGED <<setting, said>>

(* "Timeout exceeded": SAM's calls return an empty string or 300, the Data *)
(* Dispatcher's throw.                                                     *)
TimeOut(j) ==
    /\ Asking(j) /\ "timeout" \in faults
    /\ KeepFiles \/ \E a \in AnswersTo(j) : Serve(j, a)
    /\ IF service = "dd" THEN Crash(j)
       ELSE /\ tries' = [tries EXCEPT ![j] = 0]
            /\ IF pc[j] = "next" THEN Return(j, NoFile)
               ELSE Concluded(j, 500) /\ UNCHANGED <<res, last, cur>>
    /\ UNCHANGED <<setting, said>>

-----------------------------------------------------------------------------

(* The job does something with f still.                                    *)
WorksOn(j, f) ==
    f \in cur[j] \/ f = res[j] \/ f = report[j].file

(* worker_timeout: a file its job was silent about is handed out again.    *)
Expire(f) ==
    /\ file[f] = "reserved"
    /\ WorksOn(holder[f], f) => "slow" \in faults
    /\ file' = [file EXCEPT ![f] = "waiting"]
    /\ holder' = [holder EXCEPT ![f] = NoFile]
    /\ UNCHANGED <<setting, jobVars, ended>>

Call(j) ==
    \/ Exchange(j) \/ Rebuff(j) \/ ServerError(j) \/ NoAnswer(j) \/ TimeOut(j)

Next ==
    \/ \E j \in Jobs : Establish(j) \/ AskNext(j) \/ Report(j) \/ EndProcess(j) \/ Call(j)
    \/ \E f \in Files : Expire(f)

Spec == Init /\ [][Next]_vars

(* Jobs run and report on their files, the service answers and does not    *)
(* wait for ever for a report.                                             *)
FairSpec ==
    /\ Spec
    /\ \A j \in Jobs : /\ WF_vars(Establish(j)) /\ WF_vars(AskNext(j)) /\ WF_vars(Report(j))
                       /\ WF_vars(EndProcess(j)) /\ WF_vars(Call(j))
    /\ \A f \in Files : WF_vars(Expire(f))

-----------------------------------------------------------------------------
(* Properties *)

(* The project counts a file as done only if a caller has said it consumed *)
(* it: the Data Dispatcher client reports on the file it got last, whatever*)
(* it is told, which is right as long as the callers finish one file before*)
(* they get the next; lost answers, repeated requests and files handed out *)
(* twice do not change that.                                               *)
DoneWasConsumed ==
    \A f \in Files : file[f] = "done" =>
        caller = "ahead" \/ \E j \in Jobs : f \in said[j]

(* What the calls of a Data Dispatcher project can come to nothing for     *)
(* without any fault: a service that asks for the token that no request    *)
(* has, and a command's wrong guess of the namespace.                      *)
Understood == service = "dd" => setting.open /\ (caller = "cli" => setting.guess)

(* A report survives what maxretries is there for, a first answer that is  *)
(* a redirection or a refusal: when the call has returned the file is done,*)
(* where the service serves requests without a token and knows the name.   *)
ReportArrives ==
    Understood /\ faults \subseteq {"busy", "wait"} /\ caller # "ahead" =>
        \A j \in Jobs : report[j] = NoReport =>
            \A f \in said[j] : file[f] = "done"

(* Without faults that hide an answer every reservation is one its job     *)
(* knows of, as long as reports are understood; with a timeout the reserve *)
(* loop itself forgets files.                                              *)
NothingForgotten ==
    Understood /\ faults \subseteq {"busy", "wait", "slow"} /\ ~timed /\ caller # "ahead" =>
        \A f \in Files : file[f] = "reserved" => WorksOn(holder[f], f)

(* Error answers do not end a SAM job: an empty file name is given only    *)
(* when all files are finished, or for a 202 or a time-out.                *)
EndedMeansFinished ==
    service = "sam" /\ faults \cap {"wait", "timeout"} = {} =>
        \A j \in Jobs : pc[j] \in {"ended", "end", "over"} => Finished

(* When endProcess returns 0 SAM has ended the process, also after answers *)
(* that were lost or late; except that a 202, "come back later", is taken  *)
(* for a success.  And one rebuff does not keep it from being ended.       *)
EndTold ==
    \A j \in Jobs : pc[j] = "over" =>
        /\ link[j].code = 0 /\ "wait" \notin faults => j \in ended
        /\ faults \subseteq {"busy"} => link[j].code = 0

(* Every file of a Data Dispatcher project is finished by somebody although*)
(* jobs die, as long as one lives and what they say is understood; jobs    *)
(* that hold a file while they wait for the next may wait for one another. *)
AllFilesFinished ==
    service = "dd" /\ Understood /\ ~timed /\ caller # "ahead" /\ faults \subseteq {"busy", "lost"} =>
        <>(Finished \/ \A j \in Jobs : pc[j] = "crashed")

(* "data dispatcher gives a 400 with the above when you run out", and then *)
(* there are "no files left": the jobs of a project end.                   *)
JobsEnd == ~timed => \A j \in Jobs : <>(pc[j] = "ended")

=============================================================================
