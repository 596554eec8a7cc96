# A verification project for gooj

gooj is an online judge in Go: a web server that takes submissions, shows problems and runs
rated contests; judges that compile and run programs in docker containers; and, for
distributed deployments, a coordinator that hands submissions to workers over HTTP. This
directory holds TLA+ models of its core, the TLC configurations that check them on small
instances, and TLAPS proofs that hold for every size.

`tlc -config X.cfg M` runs a configuration, `tlapm MProofs.tla` checks a proof module.
`PROJECT.json` lists the runs, maps every definition to the lines it stands for, and gives,
for every checked property, one bug of the code that would break it.

## 1. The system

| component | state | operations | talks to |
|---|---|---|---|
| submission table (`sql_service/service.go`, `admin.go`) | rows of `submissions`, `test_results` | create, claim (`PopQueuedSubmission`), store a result, cancel, disqualify, restore, rejudge one or a problem | everything that judges, the ranking |
| judge loops (`judge/judge.go:327-341, 665-672`) | the submission at work | poll, judge, store | table, judge run |
| coordinator (`judge/coordinator.go`) | `workers`, `assignments`, `assignedAt` under one mutex | `/task`, `/result`, `/heartbeat`, reaper every 30 s, requeue at start | table, workers |
| worker (`judge/worker.go`) | a pool of goroutines | fetch, judge, post, heartbeat | coordinator by HTTP |
| judge run (`judge/judge.go:45-661`) | goroutine per test, semaphore, results, docker containers | compile, run, compare, score groups | docker, test files |
| rating (`sql_service/rating.go`) | `users.rating`, `contest_rating_histories`, `contests.rating_settled` | settle a contest, rebuild all | ticker, administrators, leaderboard |
| background service (`server/server.go:111-148`) | none: it asks the rows | every minute reveal started contests, settle ended ones | contests, problems, rating |
| contests (`sql_service/contest.go`) | `contests`, `contest_problems` | create, delete, reveal, leaderboard | problems, submissions |
| problems (`web/problem.go`, `edit/edit.go`, `tuack/import.go`) | the row, `data/problem/ID/` with tests and `config.json` | create, update, import in four formats, group by hand, delete | judge run reads the files |
| accounts and groups (`web/auth.go`, `manage/manage.go`, `sql_service/service.go`) | `users`, `groups` | register, import, approve, reject, reset, delete; create, hand over and delete a group | sessions, rating |
| sessions (`manage/auth.go`) | a map of tokens in memory | log in, validate | every handler |
| message board (`web/message.go`, `web/delete.go`, `web/board.go`) | the file `data/message.txt` | post, delete and show messages, clear them from the console | `os` directly |
| file service (`file_service`) | a goroutine per path | started at `server.go:82`, used by nobody | |
| similarity (`similarity`, `web/similarity.go`) | `similarity_records` | compare all pairs of a problem, delete its records, save the new ones | submissions |
| life cycle (`main.go`, `server`, `cmd`) | listeners, a command socket and the loop behind it | start, console, shutdown | everything |
| configuration, pages, uploads, routing | read-only or one file | | |

**What is hard about it.** No process has more than its own mutex: what keeps web servers,
tickers, coordinator and workers apart is the database, and most operations are a read
followed by an unconditional write. SQLite lets one transaction write at a time, and one
whose snapshot is stale cannot write, so a claim that reads and updates in one transaction
is serial; on MySQL the `FOR UPDATE` option the code sets is one that the ORM's second
version does not read, and transactions read a snapshot. Processes crash
between two statements; HTTP answers get lost and nobody retries; a slow worker is taken
for a dead one; administrators change rows while they are judged. Containers end, are
killed or removed by the daemon while the judge waits. Editors' requests change a row and a
directory in several steps with `db.Save` of whole, stale rows, and accounts are saved the
same way. Deleting a message rewrites a file that others append to. The files of an
archive come in any order, and the maps of Go have none.

What makes each component correct:

- *Queue*: a row is on one thread at a time, its results are stored once, a waiting row is
  clean, a cancellation holds, a running row is always within reach of somebody who will
  finish or requeue it, and in the end every submission is decided.
- *Judge run*: containers are bounded and cleaned up, verdicts say what the program did,
  points agree with results, and the run returns.
- *Rating*: a contest counts once, after its end, in order, and ratings agree with history.
- *Problems*: row, `config.json` and files agree; nothing is shown early; what must be
  shown is shown in the end.
- *Archives*: each test of an archive gets its number, its group, its files and its points,
  and nothing is refused that is complete.
- *Contests*: the standings are final once everything is judged, the history says what the
  leaderboard shows, and equal totals share a rank.
- *Accounts*: each request changes the one thing it was asked to, a deleted account stays
  deleted, and every member's group exists.
- *Message board*: no message is lost or comes back.
- *Similarity*: the records of a problem are those of its last check, once each.
- *Life cycle*: a console is answered, or the process ends.

## 2. Plan

In order of importance. All of the modules are written, and every invariant and action
property that a passing run checks is proved; what the prover cannot do stands at the end of
section 6.

1. `SubmissionStore`, `JudgeQueue` on top of it, and the abstract `SubmissionView` it
   implements. Proved: types, unique claims, one batch, clean waiting rows, cancellations,
   scores backed by results, tracked rows, the safety half of the refinement.
2. `Rating`. Proved: types, tidy ratings, nothing early, flags, chronological rebuilds.
3. `JudgeRun`, on whose return the queue relies: it is shown as long as docker answers.
   Proved: types, bounded containers, nothing left behind, sound results, points.
4. `ProblemStore`. Proved: types, nothing shown early, tests in order.
5. `WebServer`, `Accounts` and `MessageBoard` on top of it, and their composition `Server`.
   Proved: types and the three safety properties.
6. `DataZip`. Proved: types, listed cases, reasons of refusals, regular archives, points.
7. `Contests`, over the submission table of the queue. Proved: types, final standings, fair
   ranks, history as shown.
8. `SimilarityCheck`. Proved: `SimilarityAsChecked`.

Not begun: several problems with numbers of their own (`ImportTuackPackage`), and
`AddTestDataHandler`, which writes where the judge does not read.

## 3. Modules and code

**`SubmissionStore`** has the statements that work on the submission tables, one operator
each, with no guard but the code's `WHERE`. A row keeps `status`, `score`, `disqualified`
and the number of result batches, counted up to two. All verdicts are `"judged"`.

**`JudgeQueue`** adds *threads*: a judge loop, or a slot of a worker together with the
coordinator's handlers that serve it. `stage[t]` says how far it is with `task[t]`. A worker
of concurrency C has C+1 slots, as `StartWorker` fetches one task ahead. `PopQueuedSubmission`
is one step with `AtomicPop` (SQLite) and `SelectQueued`, `MarkRunning` without (MySQL).
`handleTask` is the claim and then `HandleTask`, `handleResult` is `CheckCancelled`,
`UpdateSubmissionResult` or `UpdateFails`, `Release`; the reaper is `Reap` and `ReapFails`,
one iteration of its loop. Faults: crashes of workers, web processes and the coordinator, lost
answers and results, failing statements. `FaultKinds` and `MaxFaults` choose and bound
them. Time is abstract: heartbeats expire and assignments become overdue at any moment.
`superseded` is history: rows that went back to the queue under an unfinished claim. The
counter `workerInfo.Assigned`, which only a page reads, is left out.

**`SubmissionView`** is what a user sees: absent, waiting, judged; never back.

**`Rating`**: each *settler* (a web process's ticker or a thread that serves a recompute
request) goes through `CalculateContestRating` statement by statement. A rating is the
sequence of contests whose change it includes (0 where it was set by hand), so a lost or
doubled change is visible and the Elo formula need not be. `SerialTx` tells SQLite from
MySQL. `DeleteContest` is three statements. `Linked` is `contest_problems`: contests may
share problems, and a settlement reveals every problem of its contest. `tidy` and `solo` are
history: settlers have not overlapped; a rebuild that nothing has disturbed.

**`JudgeRun`**: one call of `runJudge`: the compiler's container, then a job per test:
semaphore, `docker run`, `docker wait` or the timeout, `docker rm`, the comparison. The
daemon is external: programs end, containers are killed or auto-removed. A `docker run` or
`docker rm` that is never answered leaves its job at the place `"hung"`, with or without a
container (`DockerHangs`, a fault), as `judge.go:291-292` and `307-309` have no timeout.
`fate` fixes what the program does on a test. `tests` is `"cleared"` while an import has
removed the files.

**`ProblemStore`**: one problem's row and directory; `Threads` serve requests at once.
A request that reads a row keeps it in `copy` until its `db.Save`, which also re-inserts a
row that was deleted meanwhile. Imports clear, write test by test, write `config.json`,
save the row; each step may be the last (`RefusePackage`, `RequestFails`). The ticker lists
and reveals in two steps, the settlement may reveal the results. `calm`, `solo` and `asked`
are history.

**`WebServer`** is the process: it is down, up, or stopping between the shutdown command and
its end; requests are at a place (`at`) between two of their statements; consoles wait in
`command` for the one loop that reads the channel. It dies by `Exit` (whichever of
`log.Fatalf` and the return of `main` comes first) or `Crash`. `sessions` are the names that
have a token, in memory: nothing removes them when an account goes, so `AuthMiddleWare`
reads the account again. `MaxRequests` counts requests and commands together.

**`Accounts`** has the rows of `users` and `groups`, an action per statement that writes.
The queries before a handler's first write are one step, and what the handler keeps of them
(`row`, `grp`, `todo`) is what it later writes: `SaveUser` and `SaveGroup` write a whole
stale row, and insert it again when it is gone. Keys are not used twice. An installation
starts new, or with the rows of `InitialUsers` and `InitialGroups`; each start of the process runs
`EnsureSuperGroupAndRoot`. `wanted` is history: the accounts as they would be if every
request had written its one column; `crossed` notes the accounts written while another
request held a copy, `raced` a group deleted while somebody entered it. The database is
SQLite, which does not check the foreign key of `group_name`; on MySQL the account without
a group that a submission creates would be refused.

**`MessageBoard`** is the message file, line by line. A deletion reads, truncates and
writes in three steps; an append is one. `board` is history: what was posted and not
deleted. **`Server`** puts the three together: a request that fails, an exit or a crash ends
what accounts and board have under way.

**`DataZip`** reads one archive, file by file in any order (`ReadFile`, or `ReadPair` for
`CreateProblemHandler`), into the three collections of `edit.go`; `ChoosePattern` guesses
the naming; then each record has its turn (`WriteTest`, `Skip`, `Refuse`), in an order that
is any where only the map's order decides. A file name is its kind, key and sub-key, and
whether the file has content. `inverted` is history: some answer was read before its input.

**`Contests`** is one contest over the rows of `SubmissionStore`: `clock` is where the time
is in its window, `sent` where it was when a submission was made. `Leaderboard` is computed
from the rows. The settlement sets the flag, reads the leaderboard, ranks it and saves the
history in steps of its own; between them a judge loop stores results and administrators
change rows. `quiet` is history: everything was judged when the settlement began.

**`SimilarityCheck`** has the requests that compare a problem's submissions, delete its
records and save new ones, each a step. `records` counts the rows of each pair, as nothing
makes them unique. `answer` and `mixed` are history: what the last check found, and the
problems whose checks overlapped.

`*Props` hold properties and inductive invariants (`SimilarityCheck` has its own), `MC*` the instances for TLC,
`*Proofs` the proofs. Definitions marked "Mutated form" are bugs the code might have had;
no specification uses them.

**Assumptions of the models.** A package has the files it lists. An import replaces tests by
tests with the same contents in `JudgeRun` (whether the new ones differ is in no property).
`docker run` starts the container or does not. In `JudgeRun` clearing the files is one step;
in `ProblemStore` it may stop half way. The input and answer of a test are written in one
step. A contest's history rows are one statement, as in the code. A request appends its
message with one write. Creating a group checks the name and inserts it in one step. The
letters of file names are lower case, and an archive has no two files of one name. Two
records of one stem in which everything is empty (an answer before its input, and both files
empty) are one element of a set, and a name that is the key of a lettered one (`data1`
beside `data1b`) keeps a group of its own, while the code numbers both in one; no property
says anything of these archives. In `Rating` the links of a contest change only when it is
deleted (nothing else writes them), and a deleted problem is one that is shown to nobody.

## 4. Runs

| run | instance | shows |
|---|---|---|
| `jq_safety` | 1 submission, 1 worker with 2 slots, 1 web loop, coordinator; 2 faults of 9 kinds, 3 administrator operations; serial claims | `TypeOK`, `ClaimedOnce`, `OneBatch`, `WaitingIsClean`, `CancelHolds` |
| `jq_view` | 2 submissions, 1 worker with 2 slots, embedded loop; 2 faults of 5 kinds | `ImplementsView` (refinement, with liveness), `RunningIsTracked` |
| `jq_live` | 1 submission, two loops and a worker, split claims; a coordinator crash, 1 operation | `EventuallyDecided`, `ScoreBacked` |
| `jq_disqualified` | 1 submission, 1 operation | finding: `DisqualifiedNotCounted` fails |
| `rt` | 2 contests, 2 users, 3 problems, one of them in both contests; a ticker and a rebuild overlap on MySQL; 1 fault, 1 edit | `TypeOK`, `TidyRatings`, `FlaggedBeforeRated`, `NothingEarly`, `Chronological`, `EventuallyRated` |
| `rt_twice` | two tickers on MySQL | finding: `SettledOnce` fails |
| `run` | 3 tests in 2 groups, 2 at a time; 5 programs that fail in different ways; 1 fault (docker fails, a command hangs, a container is killed, or the judge dies), 1 import | `TypeOK`, `ContainersBounded`, `NothingLeftBehind`, `PointsMatchResults`, `SoundResults`, `EventuallyReturns` |
| `run_true_result` | 2 tests | finding: `TrueResult` fails |
| `store` | 2 requests at once, 3 in all, 2 packages, 1 fault, 1 contest | `TypeOK`, `TestsInOrder`, `NothingShownEarly`, `EventuallyShown` |
| `server` | 2 requests at once, 3 requests and commands in all, 1 console, 3 user names, 3 groups, 1 CSV file of 2 users, 1 fault; new and at work | `TypeOK`, `SavedAsIntended`, `MembersHaveGroups`, `BoardAsPosted`, `CommandsAnswered` |
| `zip` | every archive of up to 4 files of 6 names, those of up to 3 also with an empty file, regular ones of 3 tests; every order; both handlers | `TypeOK`, `ArchiveImported`, `CasesListed`, `PointsTotal`, `RefusedForReason` |
| `contest` | 3 submissions, 2 users, one without an account, 2 problems, 1 administrator operation or failure; or 3 codes, 3 checks of 2 problems, 2 at a time, 1 failure | `TypeOK`, `SettledAsShown`, `RanksFair`, `SimilarityAsChecked`, `StandingsFinal` |

**Bounds.** The queue's hazards need two threads on one row (two loops, or an old claim that
overlaps a new one), a requeue between, and an administrator: one submission with three
threads, two faults and three operations has them all, and `jq_view` adds the second
submission, so that tasks wait behind each other in pool and queue. In the rating a rebuild
overlaps a ticker on two contests, which have a player and a problem in common. Three
tests, two at a time, are the smallest run in which a test waits for the semaphore and a
group has more than one test. Two editors and three requests have every pair of requests
overlapping, on a problem that one of them has made, or one after the other with the ticker
in between. Two requests and a third before or after them make every pair of a stale copy
and a statement that crosses it, and every way to create, enter and delete a group; with
one console two commands can follow each other. Four files are two complete tests, or a
complete one with any two others, in all 24 orders; three tests have groups of two and of
one. Three submissions let two users tie, pass each other, and submit again after the end.
In `contest` a behaviour runs the contest or the checks, as the two share nothing;
problems are symmetric, since no property and no definition tells one from another, and
the view leaves out the numbers of results and the disqualified flags: no guard, no other
variable and no property of this run reads them.

`MaxFaults`, `MaxAdmin`, `MaxRebuilds`, `MaxEdits`, `MaxRequests`, `MaxTroubles`,
`MaxChecks` and `MaxBreaks` bound what would otherwise go on for ever; the proofs hold for
every value of them. `SerialTx = TRUE` and `AtomicPop = TRUE` are SQLite. Runs of the rating
take the weaker MySQL; its proofs hold for both.

Deadlock is checked on the queue, `jq_disqualified` included. The other systems come to rest
(every contest settled, the run returned, all requests served, the archive read), so their
configurations turn it off.

**Fairness.** Judge loops and workers poll every second, handlers run to their end, the
reaper and the tickers tick, and a supervisor restarts a stopped coordinator. All of this is
weak fairness on single actions. In `JudgeRun` the judge's own steps go on, the timer of
`docker wait` expires, and `docker run` and `docker rm` return, with or without success,
unless they are hung. A hung one has no timeout: it holds its slot of the semaphore, and
the judge loop behind it, for ever. `MaxFaults` bounds how many commands hang, and
`EventuallyReturns` says what they stop: with one hung command every other test is done, and
the run returns if none hangs. That programs end, or that `docker wait` answers, is not
assumed. In the queue a judge run returns: its liveness holds as long as no command hangs.
In `Server` the loop over commands goes on (`ClearMessages`), a stopping process ends
(`Exit`: `log.Fatalf` follows the closing of the listener, `server.go:32`), and each console's
command is received under strong fairness: between two commands the loop is busy, and a
Go channel serves waiting senders in their order. Nothing is assumed of users,
administrators, heartbeats, faults, or the restart of a worker or a web process.

## 5. Where code and documents disagree

Three runs keep a disagreement (`expect: violation`):

- `jq_disqualified`: a result that arrives after a disqualification restores the score and
  leaves the flag (`service.go:244`); `admin.go:44-45` says it is not counted.
- `rt_twice`: two tickers settle one contest (`rating.go:58`); `rating.go:34` says it
  happens only once.
- `run_true_result`: a program that ends before `docker wait` is told it failed
  (`judge.go:322`); `judge.go:524-525` says its true result is shown.

More were seen while modelling. The property is in the module, no configuration checks it;
replace the properties of the configuration named here:

| property | how it fails | configuration |
|---|---|---|
| `NoDuplicateResults` | a slow worker is given up by the reaper and both results are stored; `admin.go` says duplicates are avoided | `jq_safety` without faults and operations |
| `CancelledStays` | a cancellation between the read of the status and the transaction is overwritten | `jq_safety`, 1 operation |
| `ProblemRejudgeSpares` | the ids are read before the transaction: a disqualification in between is lifted | `jq_safety`, 2 operations |
| `NeverStalled` | a worker crashes and the reaper's UPDATE fails: the assignment is gone, the row stays running | `jq_live` with `worker_crash`, `reaper_error` |
| `RunningIsTracked` | a rejudged row is claimed again, and the release of the old claim removes the new assignment | `jq_view`, two workers, 1 operation |
| `ClaimedOnce` | two loops select the same row before either marks it | `jq_safety` with `AtomicPop = FALSE` |
| `RebuildConsistent` | a ticker settles between the statements of a rebuild | `rt` |
| `NeverLeaks` | the judge dies while a container runs that never ends | `run` |
| `CatchesDifferences` | the answer is gone when it is read, and the comparison is skipped | `run` |

Seen in the code, and in the models where one is named:

- `EnsureSuperGroupAndRoot` compares root's stored password with one it has just drawn, so
  every start replaces it (`Accounts!Ensured`). `service.go:424-425` says "This prevents
  password from changing on every restart", `DEPLOYMENT.md:164` that a restart does not
  overwrite it ("重启不会覆盖其密码").
- `ImportDataZipHandler` takes `*.ans` files (`edit.go:260-264`), but an answer with the name
  of a split or letter test, as `1-1.ans`, is recorded with the files of no pattern:
  `1-1.in` with `1-1.ans` makes a problem without tests, with two such pairs of group 1 the
  import is refused for want of an input. `Complete` and `RefusedForReason` state what
  holds: such names need `.out`, and the reason of a refusal is real without split names.
  A group whose records were all skipped keeps its points, and `1-1.out` before `1-1.in`
  makes two records of one test, both counted (`inverted`).
- `SaveSimilarityRecords` "replaces the stored similarity records for a problem"
  (`admin.go:115`), but inserts only; the caller deletes in another statement, and two checks
  that overlap leave the records of both (`mixed`).
- A contest is settled at the first tick after its end (`rating.go:72`), though submissions
  of its window may still be queued or judged: their points never reach the history
  (`SettledAsShown` without `quiet`).
- A handler that saves an account, a deletion of a message and the deletion of a group are
  right only when undisturbed: `crossed`, `overlapped` and `raced` in the properties of
  `ServerProps` say when.
- `ImportDataZipHandler` writes a `config.json` without limits, so the judge uses its defaults
  while the row says otherwise (in `ProblemStore` the limit becomes `"unset"`);
  `UpdateTuackPackage` writes one second whatever the row says.
- A problem may be in several contests (`models.go:103`), and the settlement of one shows its
  tests although another is still running (`rating.go:214`): contestants see their own
  results, and the statistics, early. `HiddenWhileRunning` fails in `rt`; `NothingEarly` says
  what holds, that some contest with the problem has ended. Of a running contest only the
  submissions of others stay private, whichever contests a problem is in
  (`web/submissions.go:180-187`).
- `docker run` and `docker rm` have no timeout (`judge.go:292`, `308`). A daemon that does not
  answer them stops the run, and a judge loop of the web process with it; the reaper gives
  a worker's task to the next worker, which may hang in its turn.
- A stale `db.Save` after a settlement hides the results for ever, as nothing reveals them
  again.

## 6. Proofs

Every theorem is for all values of the constants under the module's named assumption
(`StoreAssumption`, `QueueAssumption`, `RatingAssumption`, `RunAssumption`,
`ServerAssumption`, `AccountsAssumption`, `ZipAssumption`, `ContestsAssumption`,
`SimilarityAssumption`): types of the constants, disjointness of the sets of processes, that
the tables an installation starts with have unique keys and names, and that an archive is
finite; nothing about sizes.

**`JudgeQueueProofs`.** `TypeCorrect` and `ScoreAlwaysBacked` hold with either way of
claiming: a score is written with a batch, and whatever removes the batch resets the score.
`SerialPopClaimsOnce`, `SerialPopOneBatch`, `SerialPopWaitingIsClean` and
`SerialPopCancelHolds` assume `AtomicPop`; without it they are false. None of the first
three is inductive: that a row is held once needs that a held row is not queued, that it
stores one batch needs that a holder has stored none. `ClaimInv` is the conjunction of
`WellTasked` (a busy thread has a task), `WaitingIsClean` and `SoleClaim` (an unfinished
claim on a row not superseded excludes others, keeps it out of the queue and has stored
nothing). `QuietStep` covers the steps that move a claim, `ClaimStep` and `StoreStep` the
two that matter.

`SerialPopRunningIsTracked` also assumes that administrators do nothing and that the faults
are those the coordinator is built to survive (`SurvivableFaults`: the reaper's and the
restart's UPDATE do not fail, judge loops lose no row); `jq_view` is an instance of these
hypotheses; section 5 says how the property fails with an administrator's operation. Its invariant is
`Undisturbed`: a judged row stays judged, and a handler that is about to release an
assignment has seen its row judged. So a release takes nothing from a running row, which is
all that could break the property (`StaysTracked`); there is one lemma for each kind of
step. `SerialPopImplementsView` needs the same invariant and no condition on faults: `ViewStep` maps
each step to a step of `SubmissionView` or to none.

**`RatingProofs`.** `TidyInv` is `Placed` (settlers have a contest), `Separate` (while
tidy, one settler at most is at work; a rebuild in solo is alone), `Rebuilding` (what its
steps have done) and `Unsettled` (a settlement works on a contest without history and its
snapshot is current). `TidyRatingsAlways` follows. `NothingEarlyAlways` needs `EarlyInv`
(lists, current contests and snapshots name ended contests only) and no assumption about
overlap or about which problems contests share. `FlaggedBeforeRatedAlways` uses
`FlaggedFirst`. `RebuildIsChronological` adds
`OrderInv` to `TidyInv`: while a rebuild in solo applies contests, every rating is sorted,
and all it includes comes before the current contest, and that before those still to do.
`TidyInv` is needed, as only it says that nobody else writes a rating meanwhile.

**`JudgeRunProofs`.** `RunInv` is `Phases`, `Contained` (a container exists only between its
`docker run` and `docker rm`, unless one of them hangs) and `SemCounts` (the semaphore
counts the tests inside);
`TypeCorrect`, `ContainersBoundedAlways` and `NothingLeftBehindAlways` follow.
`SoundResultsAlways` uses `Evidence`: what `rc` and the binary say of the program.
`PointsMatchResultsAlways` uses `Scored`: what the pass over the groups has credited, the
last test of each group that passed, is still what the results say, as the results of a
finished run are final. That a group has one last test (`OneLast`) is a largest
number of a finite set.

**`ProblemStoreProofs`.** `DueInv`: the row, and every copy a request still holds, shows
only what is due or was asked for; contests only go on and what was asked stays asked, so
a copy that was due when it was read is due when it is saved. `TypeCorrect` needs that a
request that writes tests has a package and one that writes a limit has one.
`TestsInOrderAlways` needs to know how far a request in solo has come (`Agrees`:
what it has read still holds, and what it has written is of its package), that a solo request is
the only one (`SoloInv`), and that tests are out of order at calm times only while an
import writes them (`Orderly`).

**`ServerProofs`.** `TypeCorrect` needs `HasUsers`: a request that creates users has somebody
left to create. `BoardAsPostedAlways`: while nothing overlapped, one deletion at most has
begun to rewrite the file, and what it holds in `kept` is the board without its line
(`Truncating`, `Writing`); an append in between sets `overlapped` by definition, so each step
has one case in which the invariant says anything. `MembersHaveGroupsAlways`: whoever is
about to enter a group still finds it (`Quiet`), since only `RemoveGroup` takes a name away
(`GroupsStay`), and it notes whoever it races with; for this a key of a group must have one
name only (`GroupKeys`). `SavedAsIntendedAlways`: `users` and `wanted` agree outside `crossed`
only if every copy that a request holds of such a row is the row with its one change
(`CopyOK`), and keys are below `nextUser` and unique (`UserKeys`); `SavedMapped` is the lemma
for every statement that changes all rows by one function.

**`DataZipProofs`.** `ZipInv` is about the groups before they are written: every test is in
one (`Listed`), every number in one is that of a test (`Filed`), in one only (`Apart`),
because a record that has its turn takes a number above all others; `Underway` says that
the group of the last turn has a place. `Written` carries this to `config.json` and the row.

`RefusedForReasonAlways` follows the files into the records: while reading, a record says of
its stem exactly what the files read so far say (`Recorded`), and there is one for each stem
(`OneByOne`), for names that are not split. `ArchiveImportedAlways` has `MeantInv` for each stage of a
regular archive: the records are in the collection of their kind (`Sorted`), the guess is
right because one collection has all stems (`RightGuess`), and then those written and those
left divide the names (`Divided`), numbers count what had its turn (`Numbered`), every test
written precedes every record left (`Ordered`), and groups are keys (`Gathered`).
`FirstInTurn` is the heart: a candidate precedes the rest. It fails when `Candidates` does not ask
for the smallest sub-key.

`PointsTotalAlways` unfolds the fold over `config.json` to the recursive function it is.
That such a function exists at all has to be proved (`AddingEnds`), layer by layer of
the number of elements, with induction in the form of a statement about a set of numbers
(`Counting`), which the provers can instantiate. `PointsSplit` adds up N shares of which the
first r have one point more.

**`ContestsProofs`.** `StandingsFinalAlways` needs of the reachable states that the judge
works on a submission that was made (`Sound`). `SameLeaderboard` reduces the leaderboard to
the submissions it counts; for this the latest of some submissions has to be one of them
(`LatestIsOne`), which rests on the library's theorem that strict inclusion of finite sets
is well-founded. `StandingStep` has one case per action.

`SettleInv` carries the settlement: there is no history until it is over, and then it is
that of the leaderboard that was read (`Read`); if everything was judged when it
began, everything still is and that leaderboard is still the current one
(`Undisturbed`, from `DecidedStep` and `StandingStep`). `ListExists` shows that a leaderboard can
be sorted: a contestant's place is one after those in front, and no two have the same.
`RankingsPass` shows that the pass over the sorted rows defines the ranks, `RankIsFair`
what they are, by induction over the rows: all the rows before one with fewer points than
its predecessor are above it, and there is no other. `SumNatural` adds up a contestant's
points as in `DataZipProofs`. `Sorted` chooses the sequence instead of calling `SortSeq`,
which has no definition that the prover knows.

**`SimilarityProofs`.** `CheckInv` adds to the property that a checker's pairs are its
problem's (`Occupied`), that checkers of a problem that is not in `mixed` are alone
(`Alone`), that one that has deleted the records finds none when it saves (`Cleared`), and
that a new submission has no records (`OfMade`). The specification is `CheckSpec`, the part
of the run `contest` that checks.

**Only model-checked:** liveness (`EventuallyDecided`, `EventuallyRated`,
`EventuallyReturns`, `EventuallyShown`, `CommandsAnswered`) and the fairness half of
`ImplementsView`, since fairness and ENABLED are beyond the prover; and the violations. No
module here has a RECURSIVE operator.

## 7. Not modelled

- *Data*: the Elo formula, the similarity measure, the comparison of outputs, the hashing
  of passwords are functions without state. Formatting, titles, statements, bios.
- *Reading*: submission pages, rankings, code listings, the message page, routing and static
  files change nothing. Which page shows what to whom is not a property of any model.
- *One write each*: uploads write one file per request; the configuration is read once,
  its values are constants of the models.
- *Unused code*: the file service, `UpdateSubmissionResultWithScore`, `CreateUser` and
  `ResetUserPassword` are called by nobody.
- *Left*: `ImportTuackPackage`, whose hazard (two imports that take the same next id) needs
  several problems, and `AddTestDataHandler`. Of the queue, `workerInfo.Assigned` and the
  authentication of workers; of the console, everything but the order of its commands.
