# TLA+ models of ifdhc

ifdhc is the data handling client of Fermilab's experiments: the `ifdh` command
and library copy files in and out of grid jobs, talk to the SAM and Data
Dispatcher services that deal files out to jobs, and keep track of a job's
outputs. This directory holds TLA+ models of its protocols, configurations that
check them with TLC, and proofs that TLAPS checks. Source lines are given
relative to `src/`; `PROJECT.json` maps every definition to the lines it models.

## 1. The system

| Part | State | Operations | Interacts with |
|---|---|---|---|
| copyback lock, `ifdh/ifdh_copyback.sh` 17-155 | lock files in a shared directory | `get_lock`, `i_am_first`, `expired_lock`, `clean_lock` | other hosts' daemons, through the directory only |
| stage-out, `ifdh_cp.cc` 363-440 and 1518-1632, `ifdh_copyback.sh` 157-260 | data and queue areas, local sources, the list in a process | `build_stage_list`, `cp`, `mv`, `have_queue`, `copy_files`, `copy_daemon` | the lock; `cp` runs the script before it returns |
| copies, `ifdh_cp.cc` 1046-1362 | position in the list, retries, error text, intermediate FIFO or file, a forked child, the environment | `cp` loop, `do_cp`, `do_cp_bg`, `retry_system`, `rm` | external copy commands; a FIFO between two processes |
| HTTP requests, `util/WebAPI.cc` | status, url, retries, cached token | constructor loop | every service |
| Data Dispatcher client, `ifdh/ifdh_dd.cc` | session token (always empty), worker id (variable and file), last file | authenticate, next file, done, failed | WebAPI; a server that holds reservations |
| SAM client, `ifdh/ifdh_sam.cc` | last error | establish and end a process, next file, status; project calls | WebAPI |
| outputs, `ifdh/ifdh.cc` 169-434, `ifdh_sam.cc` 323-462 | `output_files` log and data directory, shared by a process group | `addOutputFile`, `renameOutput`, `copyBackOutput`, `cleanup` | `cp`, `mkdir_p` |
| input fetching, `ifdh.cc` 229-305, `ifdh_cp.cc` 2386-2505 | last input | `fetchInput`, `localPath`, `fetchSharedFiles`, `findMatchingFiles` | `cp`, `lss` |
| credentials, `ifdh_cp.cc` 449-858, `auth_session.sh`, `decode_token.sh` | proxy and token files, environment, a static buffer | check, get, renew in a loop | external commands; other processes of the user |
| dCache doors, `ifdh_cp.cc` 891-1040 | cached list of doors and what it was looked up for | `rotate_door`, `get_pnfs_uri` | the retry loop of a copy |
| paths and protocols, `ifdh_cp.cc` 152-361, 1364-1516, 1650-1732 | configuration | `make_canonical`, `lookup_loc`, `pick_proto_path`, `handle_args`, ... | configuration |
| directory operations, `ifdh_cp.cc` 1634-2361 | none | `mkdir_p`, `lss`, `ll`, `chmod`, `rename`, ... | external commands, other jobs |
| configuration, `util/WimpyConfigParser.cc` | sections | `readfp`, `get`, `rename_section`, `expand`, `getdefault` | everybody |
| reading through a pipe, `ifdh_sam.cc` `checksum`, `apply`; `more` | a forked child | | FIFOs |
| metrics, `numsg/` | a stack of states | `start`, `finish` | syslog |
| JSON, digests, regular expressions, string helpers, generators and bindings, packaging | - | - | - |

The hardest behaviours are in the first three. The lock has no atomic operation
under it, only uploads and listings that may be late, fail or be lost, on hosts
whose clocks differ. Stage-out composes it with daemons that do each other's
work, may die at any step, and ignore most errors. A piped cross-protocol copy
is two processes that meet in the `open` of a FIFO, each of which may fail
first. Jobs share a project's files through a service whose answers may be lost;
the commands of a job share a directory and a log without any locking; the
processes of a user share credential files that expire. What remains computes
without state between calls, but in several places twice, and differently:
`IFDH_STAGE_VIA`, the arguments of `cp` and `mv`, exit statuses, names of urls.
`PROJECT.json` lists the hazards with their lines and the properties that
address each.

## 2. Modules

    CopybackMutex            what the lock promises
      ^ refined by           (proved: LockRefinesMutex; checked: MutexSpec)
    CopybackLock             the protocol over names, clocks and listings
      CopybackLockProofs     TypeCorrect, WorkerStaysFirst, OnlyOneWorks, GivesUpForAnother,
                             OneObtains
      CopybackLockRefinement LockRefinesMutex
    StageOut                 cp, mv and copy_daemon over CopybackMutex (INSTANCE)
      StageOutProofs         TypeCorrect, EntryStays, ReadyWhenQueued, NothingIsLost, SourceStays
    DoCp                     the copies of one cp: retries, hops, the forked child
      DoCpProofs             TypeCorrect, ChildIsReaped, SuccessIsCopied, TriesAreUsed
    Delivery                 jobs that get a project's files and report on them
      DeliveryProofs         TypeCorrect, DoneIsConsumed, ReportDone, NoneForgotten,
                             EndIsTrue, EndIsTold
    JobFiles                 the data directory, the log of outputs, mkdir_p
      JobFilesProofs         DirsAreMade, AllAreCopied, LinesAreOfFiles, NoneIsForgotten
    Access                   tokens, proxies, doors: files and statics that get old
      AccessProofs           FoundInHand, TokenIsCarried, SessionLasts, DoorIsOffered
    Config                   the configuration as it is read and asked
      ^ Paths                urls, locations, protocols, arguments, staging areas
    Listing                  lss, findMatchingFiles, exit statuses
      Lookups                one question to Config, Paths or Listing, and its answer
        LookupsProofs        ReadsAsWritten, ProtocolsSuit, PairsAreAsked, ListsEverything,
                             ViasAgree, FailureIsTold
    MCCopybackLock, MCStageOut, MCDoCp, MCDelivery, MCJobFiles, MCAccess, MCLookups
                             values for TLC

A definition whose comment starts with "Mutant" is a plausible mistake in the
definition that follows it, kept to show that the properties notice it.

### CopybackMutex and CopybackLock

`CopybackLock` has a clock `now`, in seconds, and for each daemon a place in
`copy_daemon`, the stamp in its file's name and the time its sleep began; lock
files are on their way (`inflight`), listed (`locks`), or gone. `Stamp` is
`get_lock` up to the upload, `Land` the arrival of the file, `FirstLook` and
`SecondLook` the two calls of `i_am_first` around `sleep 10`, `Yield` the failure
branch with its `clean_lock`, `Again` and `Finish` the loop of `copy_daemon`, and
`Leave` its end. `ExpiredLock` is translated as written, including
`set : $(get_first)` with `$3`: `get_first` prints one word, so the name of the
file to break is always empty. The faults (a crash, a trapped signal, a failing
`ls` or `rm`, a lost upload) are chosen per behaviour from `FaultSets`, so that a
property can say which of them it survives.

`CopybackMutex` keeps of that a phase per daemon, what is listed, and which listed
lock is the first one that counts; `StageOut` is composed with it rather than with
the protocol.

### StageOut

A client is one `ifdh cp` or `ifdh mv` with `IFDH_STAGE_VIA` set. `CpStep` is one
round of `cp`'s loop over the list made by `build_stage_list`: a file into the
data area, a direct copy (the destination is a local file), or, last, the queue
entry. A failed copy is remembered in `rres` and the loop goes on. `CleanupStage`
is the `unlink` of the last source, after which the client becomes a daemon; its
actions from `Contend` to `AllCopied` are the script's, one command at a time:
listing the queue, fetching an entry, copying, removing sources in the background,
removing the entry in the background. `Return` is the end of `cp`, and of `mv`,
which removes the sources if `cp` returned 0. `Trap` is a signal between two
commands, `Interrupt` one that also ends the subshell of `copy_files`, `Crash`
the loss of the process with or without its background jobs.

`CpList` models an inconsistency of the code: with option arguments
`build_stage_list` returns a list without them while `cp` still skips as many.

### DoCp

One `cp` over its pairs. `state[a]`, `tries[a]`, `maxtries[a]`, `errs[a]` are the
variables of `retry_system` in the parent ("main") and in the forked child;
`CommandEnds` is the whole body of its loop after `my_system` returns, in the
code's order: status, "gfal-copy error: 256", "exists", wildcard, last try, rm or
sleep. `errs` is kept over all tries, as `_errortxt` is. `Fork` to `Reap` is the
piped branch of `do_cp`, `FirstHop` and `SecondHop` the branch with a file.
`OpenFifo`, `Opened`, `WriterEnds` and `ReaderEnds` are external: what `open`,
`write` and `read` on a FIFO do to a copy command. `env` is what
`IFDH_CP_MAXRETRIES` is after `putenv` of a stack buffer: 0 while `do_cp` runs,
anything after it has returned.

### Delivery

A job establishes its process, calls `getNextFile` and `updateFileStatus` in turn,
and ends its process; whether it keeps one `ifdh` object ("library"), runs the
command each time ("cli"), or fetches its next file before it reports on the last
("ahead") is part of the `setting`, with the service (Data Dispatcher or SAM), the
use of a timeout and the faults. The callers and the service are external: a file
is `waiting`, `reserved` for its `holder`, `done` or `failed`; `Expire` takes back
what a job is silent about, and `ended` is what SAM knows of processes.

Each of a job's steps is one round of the loop in WebAPI's constructor: the
service carries the request out and answers (`Exchange`), or it redirects or
refuses (`Rebuff`), fails before or after it did it (`ServerError`), does not
answer (`NoAnswer`: the code reads through a null pointer), or the total time is
over the limit (`TimeOut`: the limit is an uninitialised member, so it may be at
any time). `Again` is the loop's condition; `Answered` what follows it, one
disjunct per kind of call. `Begin` and `Authenticated` are the Data Dispatcher
client's way to a session: `dd_mc_authenticate` takes the token from `_rcv_headers`,
a map that nothing fills (`util/WebAPI.h` 34), so `_dd_mc_session_tok` stays empty,
each call authenticates again, `dd_next_file_json` twice (247 and 270), and the
request goes out without a token. Whether it is served is the service's choice:
`setting.open` says so (`Admitted`), and where it is not, every next file and report
is refused. `DdNext`
is the round of `dd_next_file_json`'s own loop around that, in which a timeout
overrides what was got (and the process dies if nothing was, of an empty `json`);
`SamNext` is `do_url_str`, which hands on the text of any answer. `Did` is
`updateFileStatus`'s preference for `_last_file_did` over the name it is given; a
process that has none, such as a command, puts a namespace before the name, from
`$furi` or `$USER`, which is right or wrong by `setting.guess`. A `$furi` with fewer
than four parts is read before its beginning, and a missing `USER` is a null string:
neither is an input of the model.
`IntResult` and `Concluded` are `do_url_int`: a status of 300 or more is the
result, a 2xx is 0.

### JobFiles

Every process of a job is one command after another: `fetchInput`, `addOutputFile`,
`renameOutput`, `copyBackOutput`, `cleanup`. Shared are the inputs in the data
directory (`fetched`), the log (`hasLog`, `log`, and `output_files.new`), the
outputs on `disk`, and the directories and copies at the destination. A file is
named by its directory, its base and the unique strings put into it, and is told
apart by its content, an output. A command takes a step wherever another process
can come in between: `AddCheck` and `AddAppend`; `RenameStart`, one `RenameOne`
per line and `RenameEnd`; `CopyStart`, one `CopyArgs` per line, `TryMkdir` for
each call of `mkdir`, one `CopyOne` per pair, `Return`. `mk` is the recursion of
`mkdir_p` as a path, a level, and whether it is the second try of that level: the
result of a level that had to make its parent is lost, as in the code. A `mkdir`
may fail with or without effect.

### Access

Time passes in units of five minutes. A process has what `getenv` gives it
(`bearer`, `x509`), what is static in its functions (the buffer of `decode_token.sh`,
WebAPI's token, the doors), and a place in `get_grid_credentials_if_needed`; files
with tokens and proxies, with the time when they expire, are shared. `CheckTokens`
and `CheckProxies` are `check_grid_credentials`'s two halves with all they put into
the environment, `Proxy1` to `Fetch` the steps between which another process may
change a file, `Request` WebAPI's reading of the token, `Copy`, `Rotate` and
`Command` a copy's tries with `rotate_door` before each. `Wake` to `Gone` are
`auth_session.sh`. External are the commands: `Kx509`, `Voms` and `Fetch` succeed
or not; a setting says when the kerberos ticket ends, whether `popen` works
(`forks`), and whether tokens can always be fetched (`up`). A rotation is a stanza that matches some
urls; its doors are looked up once for its protocol and lookup, so that stanzas
which agree in both share what was found.

### Config, Paths, Listing and Lookups

These are the parts that compute. A configuration file is a sequence of lines
(a section, a pair, a continuation, a comment, blanks), a value a sequence of
words, blanks and references to macros; `Config` is `readfp` line by line,
`getdefault`'s conditionals and aliases, and `get`, `getlist` and `expand`. A path
is the sequence of parts between slashes; `Paths` is `make_canonical`, `lookup_loc`,
`pick_proto` and `pick_proto_path` with `--force` and `IFDH_FORCE`, `handle_args`
with `expandfile`, what `mv`
removes, the two readers of `IFDH_STAGE_VIA`, and `getexperiment`. `Listing` is
`lss` with its recursion, `findMatchingFiles` and the operations `rm`, `rmdir`,
`chmod`, `mkdir`, `rename` and `ll`: what each makes of a missing command, of two
names with different protocols, and of the status of its command, with
`retry_system`'s decoding and its callers' second one.

`pick_proto` looks for the force in the text of the two lists of protocols
(`ifdh_cp.cc` 1420), so that `FoundAt` finds "ftp:" in a list with "gsiftp:"; the
constant `PartOf` says which words are part of which. An unknown force clears
`IFDH_FORCE` (1416): `HandleArgs` picks the first pair's protocol with it and the
others' without (`EnvAfter`). For one path (`PickProtoPath`) clearing it changes
nothing, because there an unknown force counts as none every time.

`Lookups` is the state machine around them: `ReadNext` reads one line, `EndOfFile`
configures, and `AskOption` to `AskExperiment` put one question and keep the answer. Its properties
compare answers with definitions made from the question alone: `Written` looks
through the lines of the file for the first value of an option, `Below` is all that
is in a tree under a directory, `Said` takes from a command's arguments every file that
another follows, with the last one before the next separator. Where the code loops or recurses the definitions are recursive
functions or folds, or pick the least index for which something holds, so that they
can be proved about.

## 3. What the runs check

| Run | Bounds | Properties |
|---|---|---|
| `lock` | 2 daemons, a sleep of 3 against lag 1 and skew 1, 7 units of time, no fault or all five at once | `TypeOK`, `MutualExclusion`, `FirstWhileWorking`, `SomeoneObtains`, `GiveUpMeansAnother`, `MutexSpec` |
| `lock_dead` (violation) | a daemon that crashed, a second one over age later | `DeadLockIsBroken` |
| `stage_safe` | 2 clients, 2 files each, `mv` or a `cp` with one existing destination; no fault, or crash+trap+failed staging, or failed rm+list | `TypeOK`, `NoLoss`, `StagedIsQueued`, `QueuedMeansReady`, `SourceKept` |
| `stage_live` | 2 clients, no fault, fairness | `Termination`, `AcquirerDrains` |
| `stage_handoff` (violation) | the same | `HandedOffIsCopied` |
| `stage_unlink` (violation) | 1 client, all destinations exist | `SourceKept` |
| `docp` | 2 pairs of every kind, 3 tries (4 by default), four sets of faults | `TypeOK`, `SuccessMeansCopied`, `AllTriesUsed`, `NothingLeftRunning`, `Termination` |
| `delivery` | 2 jobs, 2 files, 3 tries for a file and 2 for a report (SAM: 2 for either instead of 10), twelve settings | `TypeOK`, `DoneWasConsumed`, `ReportArrives`, `NothingForgotten`, `EndedMeansFinished`, `EndTold`, `AllFilesFinished` |
| `delivery_end` (violation) | 1 job, 1 file, Data Dispatcher, no faults | `JobsEnd` |
| `job_files` | 2 processes, 2 outputs, up to 5 commands, eight settings: with hashed directories or without, one base name or two, crashes, failing `mkdir` | `Remembered`, `LinesAreFiles`, `CopiedBack`, `DirsMade` |
| `access` | 2 processes, or one and a session; tokens and proxies of 5 units, checks of 3 and 2, 8 units of time, 2 calls each, a copy tried twice over 3 rotations, two of which share their doors | `CredentialsInHand`, `RequestsCarry`, `SessionCovers`, `DoorSuits` |
| `lookups` | 4102 configurations, one with the locations of `ifdh.cfg`; 8 ends of a copy in pairs, 7 values of `--force`, 21 argument lists with each of them and of `IFDH_FORCE`, 36 staging areas, 3 trees, all statuses of 6 operations, 7 groups in every environment | `ReadAsWritten`, `FileAnswers`, `ProtocolSuits`, `PairsAsAsked`, `ViaAgree`, `ListsAll`, `FailureTold` |

Two daemons are enough for the lock because every decision of the protocol
compares two names; the theorems hold for any number. Time is scaled: only the
order of lag, skew, sleep, time-out and expiry matters. Two clients and two files
are the least with which two daemons work on one entry and a list has a first and
a last line. Two pairs are the least with which one piped copy leaves its
environment, FIFO or child behind for another. Two files and two jobs are the
least with which a job waits for what another holds; two of the twelve settings of
`delivery` are a service that wants a token and a command whose guess is wrong. In
`job_files` five commands
are two additions, two renames and a copy. In `access` a token that is just good
enough is out of date before a session wakes again, and a second call finds what
the first left in the environment. `ClientSymmetry` is used only in
`stage_safe`, which has no liveness property.

The passing properties, in words:

* at most one daemon whose lock was not removed under it is past its second look,
  its file sorts first for anybody who lists the directory, a daemon stands back
  only for another's file, and without faults somebody gets in;
* a file is at its source, in the stage area or at its destination through
  crashes, signals and daemons doing each other's work, as long as the daemon's
  own copies succeed; what is staged and undelivered stays in the queue; what a
  queued list names is there; nothing but `mv` removes a source;
* without faults no call hangs in its daemon, and a daemon that gets the lock
  delivers what it finds;
* `cp` returns 0 only for files that arrived, except where the background copy's
  status was ignored; the number of tries is the user's until a pipe has been
  used; no child outlives its pair; `cp` ends unless the foreground end of a pipe
  fails before it opens it ("reader"), or opens it too late ("slow");
* a file is done only if a caller consumed it; no error ends a SAM job's input while
  files remain; a process is ended when `endProcess` returns 0; and where the service
  serves requests without a token and a command guesses the right namespace
  (`Understood`), a report survives one rebuff, every reservation is one its job
  knows of, and every file of a Data Dispatcher project is finished although jobs
  die, as long as one lives;
* an output that was added is in the log under the name it has now until a cleanup,
  the log has no line without a file where no two outputs get one name, a `copyBackOutput` that returns 0 copied what
  it read, each to a name of its own, and `mkdir_p` makes what it is asked for while
  another does the same;
* a token found good is in the environment and had a quarter of an hour left when
  it was looked at, also when another process replaces the file in between; a proxy
  that was found is named in the environment and was good, for ten minutes more if
  nobody else replaced it; WebAPI's copy lasts a quarter of an hour, all this where
  `popen` works; a session leaves a gap no longer than two runs of `getToken` take; a
  url has doors of its own rotation, or of one with the same protocol and lookup;
* reading loses no section, option or line of a file, and adds none; the
  configuration answers what is written in it, and a group has the experiment that
  lists it; the spellings of a path become one url; a copy has a command, and takes
  one step when it can, unless a force is taken; `cp` copies the
  pairs of its arguments and nothing else; the two readers of `IFDH_STAGE_VIA`
  agree; listings and searches are complete; an operation that has no command or
  whose command fails says so.

What the violation runs show is listed in `PROJECT.json` under `findings`: a dead
lock is never broken; a refused client's files may be left in the queue for good
without any fault; a `cp`
whose destinations all exist unlinks a source of the caller; a job that asks
a finished Data Dispatcher project for its next file asks for ever, because
WebAPI drops the error that `dd_next_file_json` waits for. One more is
reproduced by giving `Calls` the value `OptionCalls` of `MCStageOut`: an option
makes `cp` queue a list without its data, and `QueuedMeansReady` is violated.

Limits the properties state themselves, because the code is weaker there: a
daemon's failed copy loses the file (`ifdh_copyback.sh` 210 removes it anyway); a
failed fetch orphans the files of the entry (225); an ignored status of the
background copy makes a truncated copy a success (`ifdh_cp.cc` 1270); a command
that fails before it opens the FIFO for reading blocks `waitpid` for ever; a
timeout makes `dd_next_file_json` reserve files and forget them (`ifdh_dd.cc` 291);
SAM's 202 without `Retry-after` and a time-out end a job's input early; a job that
fetches ahead reports on the wrong file (`ifdh.cc` 534) and may wait for another
that waits for it; no request to the Data Dispatcher has a token (`ifdh_dd.cc` 147), so
that one that wants it hands out no file, and a command that guesses the wrong
namespace reports on nothing (`Understood`); SAM's 202 is a success of `endProcess`; a process that adds an
output while another renames may lose it, and two that add may log it twice
(`ifdh_sam.cc` 459); a substitution may give two outputs one name; outputs with the
same last component overwrite one another unless they were renamed; a file as big
as a token that is none counts as the last token that was read (`Decodable`); the
token WebAPI keeps is never read again; the last line of a list without a newline
is lost and `mv -f` removes no source; patterns without a star, or with labels in the
middle of a host's name, stage where nobody looks; a force that is unknown is taken
if both ends list it, and, against the comment "only take the force if the src and
dst both have it" (`ifdh_cp.cc` 1419), one that is only part of what they list, as
`--force=ftp` where there is "gsiftp:" (`Mistaken`; without that exception
`ProtocolSuits` and `ProtocolKnown` fail in the run `lookups`); a directory whose only entry has
its own name is taken for a file; statuses 127, 128 and 255 read as success.

### Fairness

`stage_live` and `docp` assume weak fairness of each process's own steps: a
process that is not blocked runs, `ifdh rm` and the copy commands end (the
commands of `ifdh.cfg` have time limits, the script runs them under
`run_with_timeout`). Faults have no fairness: they may or may not happen.
`HandedOffIsCopied` is refuted under the same fairness.
`delivery` and `delivery_end` assume that a caller whose call has returned makes
the next one, that a call goes on (`WebAPI` sleeps between tries, it never waits
for anything else), and that the service takes back a file whose job is silent.
`JobFiles`, `Access` and `Lookups` have no liveness property: each of their commands
ends by its program text, and `Access` bounds what a session's `getToken` takes.
The lock has none either: `SomeoneObtains` speaks of the states in which
every daemon has ended, `DeadLockIsBroken` of one step.

## 4. What is proved

The theorems hold for every value of the constants; each is stated with what it
assumes. Every invariant and action property of the passing runs is a theorem but
for one of `Lookups`, `FileAnswers`.

**The lock.** `ConstantsAssumption` types the constants. The theorems assume
besides it only `Timely`: lag plus skew is below the sleep, and the upload is
not killed before it may land. It is needed: with `MaxLag >= Recheck` TLC finds
two daemons at work.

* `TypeCorrect`: `Spec => []TypeOK`.
* `WorkerStaysFirst`, `OnlyOneWorks`: neither property is inductive. `LockInv`
  adds to `TypeOK` that no stamp is in the owner's future (`StampedInThePast`),
  that the owner of a stamp that is past its first look has slept since it
  (`SleptSinceStamp`), and that a daemon past its second look has slept the full
  `Recheck` (`HeldAfterRecheck`). Then a file that lands later than the second
  look bears a stamp later than the worker's, because lag and skew together
  are shorter than the sleep, and cannot sort before it.
* `GivesUpForAnother`: `FaultlessInv` says that without faults a daemon that looks
  has its file listed, alone under its name, so that not being first means
  another is.
* `OneObtains`: by `BeatenInv` each daemon that gave up, while nobody obtained the
  lock, was beaten by an earlier name. If all have given up, the first of their names
  (there is one, because `<` on the naturals is well-founded) was beaten too.
* `LockRefinesMutex`: every step of the protocol is a step of `CopybackMutex` or a
  stutter. `NamesInv` adds that names only grow, that a file lands once, and that
  the directory stays finite, so that it has a first file.

**StageOut.** `PlacesOK` ties a process's list to where it is. `KnownIsComplete` says
that an entry which any daemon has in hand, has listed, or is removing names all
the files its client will ever stage: it is why a daemon's `AllCopied` may remove it.
On these rest `Covered` (an entry leaves the queue only when it is settled) for
`EntryStays`, `CopiedSoFar` for `ReadyWhenQueued`, and `NothingMissing` for
`NothingIsLost`. `ReadyWhenQueued` and `NothingIsLost` need `NoOptions`, no call with
option arguments; `NothingIsLost` and `SourceStays` need `SomeStaged`, a call with at
least one new destination. Without them the code breaks the properties, as
`OptionCalls` and the run `stage_unlink` show.

**DoCp.** `Control` says where parent and child can be in relation to each other and
to the FIFO, in particular that a piped copy is one try, so that the child is gone
when the parent goes on (`ChildIsReaped`). `Copies` follows what is in the
intermediate file, the FIFO and the destination at each place (`SuccessIsCopied`);
`Tries` bounds the counter and remembers why a loop ended (`TriesAreUsed`).

**Delivery.** `Typing` bounds the tries of each kind of request. `OneByOne` is about a
caller that finishes one file before the next: it holds one at most, and it is the
last one the library got (`DoneIsConsumed`). `Admissions` says what a job has where
answers come at the second try and requests are `Understood`: a SAM job its process
id before it asks, and nobody a report that is not being made (`ReportDone` with
`Holdings`, `NoneForgotten` with `Remembered`, `EndIsTold` with `EndsOnce`). These
three assume `SamTries > 1`; the code has 10. That the Data Dispatcher serves
requests without a token is a hypothesis of the properties that the first two
prove, and so is the right guess of a command; `DoneIsConsumed` needs neither.

**JobFiles.** `Made` follows `mkdir_p` down and up: what is below the level it is at is
there, or the result of a level is still to come (`DirsAreMade`). `Named` gives each
unique string to one name only; then nobody overwrites a file that another is to
copy, and the copies that are done stay (`Fine`, `AllAreCopied`). A process that
renames has the log's lines in its hands: `Book` is the log and what the renaming
process has read and written, `Lines` and `Kept` say of the book what
`LinesAreOfFiles` and `NoneIsForgotten` say of the log, while nobody adds beside it
(`Calm`). No theorem assumes more than `ConstantsAssumption`.

**Access.** One invariant, `Inv`, for all four theorems: what a process knows of its
token and its proxy at each place of `get_grid_credentials_if_needed` (`TokenFound`,
`ProxyFound`), how long the token WebAPI keeps is good (`WebGood`), that a session comes
in time and what it serves lasts (`InTime`, `Served`), and whose doors the static list
and the urls have (`NodesOK`, `UrlsOK`). It rests on `TimesAssumption` (a session sleeps
no longer than a token must have left, which is no longer than its life) and
`SettingsAssumption`, which types the settings.

**Lookups.** Six theorems on code that computes, each for inputs of any size.

* `ReadsAsWritten`: a parser reads a file of any length. `ReadSoFar` is the invariant
  of `readfp`'s loop: the section it is in, the pair whose value may still go on, and
  that all else that was read is in the data as `FirstIn` finds it in the lines so
  far. `ParserTyped` types the data. `Kept` says of each of `getdefault`'s renamings
  and copies that it changes sections of its own kind only; `ConfiguredKeeps` puts
  them together. `FilesAssumption` says what lines a file has.
* `ProtocolsSuit`: `pick_proto`'s two loops stop at the first protocol that suits, in
  the order in which they try them, whatever is in the configuration; a force that is
  found at both ends comes before them, and is one that both list or `Mistaken`.
* `PairsAreAsked`: `Settled` is the invariant of `handle_args`: after some arguments, what
  is done, and what waits with the destination that comes next, are the pairs of the
  sources so far. Each is paired with the destination of the source after it unless
  that is the destination (`DestIs`). The protocols do not change the pairs
  (`PickedPairs`). A list is the induction `ListSaid` on its lines, by
  `SaidJoins`: two parts with a separator between them name the pairs of the first,
  then those of the second. `StopIs` finds the end of the options; `LocatedEnd`,
  for `-D`, that neither `make_canonical` nor `lookup_loc` changes the last part of a
  path. `CommandsAssumption` says what a command is, and that its `pairs` are those of
  its list and of the arguments after it; `ListsAssumption` types lists and gives a line
  two names at most, `CwdAssumption` types the working directory.
* `ListsEverything`: `LssIs` is an induction on the depth that is left: a listing of a
  directory is its entries and the listings of its directories one less deep, none
  of which is taken for a file (`Clear`). `TreesAssumption` says what a file system
  is (`IsTree`), `SearchesAssumption` what a glob is: its literal parts come before
  its wildcards, and the directories it names are in the caller's list.
* `ViasAgree`: of the alternatives that match by `Within` and those that match by
  `EndsWith` the first is the same. `ViasAssumption` types the values.
* `FailureIsTold`: for every wait status, the decoding in `retry_system` and the second
  one in its callers.

Attempts to prove these properties corrected the models and the statements. In
`StageOut`, `TypeOK` had a type for `todo` that some places do not keep, and
`DirectCopy` was possible for an entry that is not a file. In `Delivery`, a crash
was blocked by a conjunct that left its variables unchanged, and the tries of a
request were a `CASE` without one of its cases. In `Access`, a second call kept the
urls of the first; `CredentialsInHand` spoke of proxies that another process may
shorten, `RequestsCarry` forgot that nothing is read without `popen`, `DoorSuits` that
two rotations may share doors, and `SessionCovers` that a setting without tokens
serves none. In `JobFiles`, `LinesAreFiles` did not except a substitution that gives two
outputs one name, after which a second rename leaves a line without a file. In
`Config`, the alternatives of `ReadLine` overlapped for a parser that has failed, so
that `CASE` might have taken any; `ProtocolSuits` forgot that two ends that have
nothing in common but their first protocol, unusable for both, are copied between by
that one; and `ReadAsWritten`, which took the place of a comparison of answers, sees
also a section that gets lost.

Only model-checked:

* `FileAnswers`: it holds for some configurations only, those whose macros refer to
  later ones, whose conditionals do not rename the same section twice, and whose
  prefixes are not parts of one another, as in `ifdh.cfg` and the small files;
* all liveness properties (`Termination`, `AcquirerDrains`, `AllFilesFinished`), which
  need fairness;
* the violation runs, which are single behaviours.

## 5. Not modelled, and the plan

Next: `checksum` and `more`, which meet their child in a FIFO without `do_cp_bg`'s wait.

Each component left out is in `PROJECT.json` with its reason:

* `checksum` and `more` fork and meet their child in a FIFO like `do_cp`, with the
  same single attempt to unwedge it, but made at once; `DoCp` has that behaviour but
  for the wait. `apply` runs one command after another.
* Projects, definitions, metadata and locations are one request each and leave no
  state in the client; `Delivery` has what a request can come to. The worker id's
  file is written and read by code whose test is inverted; what a service does with
  the empty names that follow is not in this repository.
* `renameOutput("e:...")` runs a command of the caller's on the log.
* WebAPI's rewriting of a POST on a 303, and the size limit of urls.
* Pure conversions: JSON, digests, regular expressions.
* Generated code and bindings, the shell wrappers of transfer tools (their exit
  statuses are inputs of `DoCp`), the reports of the configuration check and the
  metric collection, metrics messages, packaging.
