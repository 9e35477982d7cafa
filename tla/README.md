# A verification development for yoitsu

TLA+ models of the yoitsu repository, the TLC runs that check them and the theorems
TLAPS proves about them. yoitsu is an umbrella repository: a command line that starts,
stops and watches a stack of two services, the `evo/` tree of roles, capabilities and
contexts that the services load at run time, Lua scripts for a Factorio server, and the
scripts that deploy and exercise all of it.

Every definition is translated from the source; `PROJECT.json` maps it to its lines.
`PROJECT.json` also pairs each run's module with its `.cfg`: `tlc -config MC_x.cfg Module` runs a
check, `tlapm ModuleProofs.tla` a proof.

## Inventory

Four parts of the system are git submodules that the repository does not contain:
`pasloe` (the event store), `trenni` (the supervisor that turns events into jobs),
`palimpsest` (the job runner) and `yoitsu-contracts`. They are external here: where a
module needs one of them, it is modelled from how the code in this repository uses it.
The directory `yoitsu/` holds the only copy of the command line and an older mirror of
`evo/`, `scripts/` and `deploy/`; the newer top-level copies are the ones modelled.

| part | source | state it keeps | operations | what is hard |
|---|---|---|---|---|
| Stack lifecycle | `yoitsu/yoitsu/cli.py` up, down; `process.py` | `.pids.json`, `.yoitsu.lock`, two detached processes | up, down | two shells at once, failed starts, timeouts, Ctrl-C, reboot and PID reuse |
| Event following | `cli.py` events, jobs, watch | tail cursor, counters of a watch | scan, tail, watch | events appended while a scan is under way, the scan limit, a cursor taken later than the history |
| Task observation | `cli.py` tasks chain, tasks wait | none between rounds, but the deadline | chain, wait | two services that change during a round, one that forgets, the deadline |
| Task submission | `cli.py` submit, `deploy/quadlet/bin/submit-tasks-file.py`, `scripts/batch-submit.sh` | a stamp beside each file | submit | partial failure, a POST whose answer is lost, resubmission, two runs at once |
| RCON client | `evo/factorio/lib/rcon.py`, `tools/factorio_call_script.py` | socket, next request id, resource table | connect, authenticate, send, receive, close | answers later than the timeout, a partly read packet, lost commands |
| Git publication | `evo/factorio/capabilities/git_workspace.py` | working copy, index, branch, remote | setup, finalize (add, commit, push) | another publisher, a push whose answer is lost, a commit the agent made itself |
| Workspace cleanup | `evo/factorio/capabilities/cleanup.py` | the workspace's directory | finalize | deletes what could not be pushed |
| Factorio runtime | `evo/factorio/capabilities/factorio_runtime.py`, `lib/preparation.py` | script directory of the mod, scripts the game has loaded | setup, finalize | a kill in the middle of a sync, failure after it, two jobs at once |
| Join context | `evo/factorio/contexts/join_context.py` | none: nine bounded queries | collect | query limits, a failing query, conflicting events |
| Lua actions | `evo/factorio/scripts/` | inventory, entities of the world | place, remove, insert, move, batch, rollback | items conserved, failure in the middle of a batch |
| TUI | `yoitsu/yoitsu/tui.py` | tables and their filters, a stack of detail screens | refresh, filter, open, look up, dismiss | answers that are late or overtaken, two kinds of refresh, messages handled after the next key |
| Start scripts | `deploy/quadlet/bin/` | build trees, venv, revision markers | start, restart, clearing by hand | a start cut off half way, a venv shared by two packages |
| Smoke and deploy scripts | `scripts/` | files, containers | deploy, smoke, monitor, reset | retries, timeouts |
| Roles, GitHub context, prompts | `evo/*/roles`, `contexts/github_context.py` | none | pure formatting | none to speak of |

How they interact. An operator's shell runs the command line, which starts Pasloe and
Trenni as detached processes and talks to them over HTTP (POST /events, GET /events with
cursors, GET and POST /control). Submission writes a trigger event; Trenni launches a job
container for it; in it Palimpsest calls `setup` of the role's capabilities, runs the
agent with its tools, and calls `finalize` of the capabilities. A worker's setup is
FactorioRuntime over RCON, and its tools use the same connection; an implementer's
finalize is GitPublish. Outcomes come back as events, which the observation commands read.
The shared state is: the PID file and the lock (two shells), the stamps (two runs of a
tool), the event log (everybody), the branch (two jobs, people) and the script directory
with the game (two jobs).

What makes each part correct:

- stack: no service process without a record; one stack; `down` stops it; a command ends.
- following: no event twice, late or not at all; a history that is whole.
- observation: rows and exit codes that were true at some moment of the round; an end.
- submission: a stamp means that the tasks are stored, and is never followed by a second
  submission; a file without one gets there by retrying.
- RCON: a reply belongs to the call, or to an earlier failed call of the same connection;
  nothing is sent before the login is accepted; every receive ends.
- publication: what is announced as published is on the branch, once, and stays; success
  means that nothing is left behind.
- runtime: when setup returns, directory and game have the job's scripts and no others.
- batch: a transaction that is rolled back leaves the world as it was, unless an operation
  that has no inverse ran; no item is made twice on the way.
- join context: the result of a child is the newest event of the first type that showed any;
  a child is unknown only if nothing of it was to be seen.
- TUI: a table is the cached answer through its filter, does not go back in time, and comes
  to show what the services have; a screen at rest shows its last load and nothing older; a
  task has one place in the tree.
- start scripts: the service runs nothing older than the sources were when its start began.
  The code does not keep that (see below).

## Modules

| module | what it is | theorems in |
|---|---|---|
| `StackLifecycle` | `up` and `down` of several shells, services, PID file, lock, host | `StackLifecycleProofs` |
| `EventTail` | one following command and a growing log | `EventTailProofs` |
| `TaskWait` | rounds of `tasks chain` and `tasks wait` over two services | `TaskWaitProofs` |
| `TaskSubmit` | runs of the two submission tools over files with stamps | `TaskSubmitProofs` |
| `RconCalls` | abstract: what a caller of a connection may rely on | |
| `RconSession` | the client, the server and the bytes between; implements `RconCalls` | `RconSessionProofs` |
| `GitPublish` | `finalize` of several jobs against one branch | `GitPublishProofs` |
| `FactorioRuntime` | `setup` of several jobs against one directory and one game | `FactorioProofs` |
| `JoinContext` | the nine queries of one join against a growing log, and what is rendered | `FactorioProofs` |
| `Monitor` | the dashboard: two kinds of refresh, tables, filters, summary | `MonitorProofs` |
| `TaskTree` | the tree drawn of a list of tasks, as operators | `MonitorProofs` |
| `MonitorDetail` | the stack of detail screens, their loads and look-ups; uses `TaskTree` | `MonitorProofs` |
| `Transaction` | abstract: a batch seen from outside | |
| `BatchOperations` | the batch script, its rollback, the world; implements `Transaction` | `FactorioProofs` |
| `ServiceStart` | `start-trenni.sh` under systemd, with kills and an operator who clears things | |

A run checks the component's module itself, its `.cfg` giving the constants, unless a
constant is a function, a set of records or a sequence: then an `MC` module
(`JoinContextMC`, `MonitorDetailMC`, `BatchOperationsMC`, `ServiceStartMC`) holds the value and
nothing else but a symmetry. Operators marked "Mutant" are plausible bugs of the action
below them; no specification uses them.

### StackLifecycle

`pc[c]` is the statement shell `c` has reached, `read[c]`, `kids[c]` and `todo[c]` are the
locals of its command; `pidfile` and `lock` are the two files; `st` and `kind` are the
processes of the host. `UpAcquire`, `UpRead`, `UpCheck`, `UpClear`, `StartPasloe`,
`WaitPasloe`, `StartTrenni`, `WaitTrenni`, `UpFailed`, `WritePids` are the statements of `up` and
`_do_up` in order; `DownRead`, `DownCheck`, `DownStop`, `DownPoll`, `DownPasloe`, `DownClear`
those of `down` and `_trenni_graceful_stop`; `KillTerm` and `KillWait` are `kill_pid`, called from
five places with the place to return to in `ret`. A readiness poll asks a URL, so it is
answered by whichever process holds the port. `Bind`, `Die`, `Interrupt`, `Reboot` are the
environment: ports go to one process, services exit when they like, a command is killed
between any two statements, a reboot gives the recorded numbers to other programs.
`UpRaises` and `WritePidsFails` are the two exits of `up` that clean up nothing: an exception that
`_do_up` does not catch, and an OSError of `write_pids`. What was in hand then is `stranded`.
They and the interrupt count against one bound (`MaxCrashes`): commands that end half way.

`orderly` is a history variable: it becomes false at an interrupt, at a reboot, and when a
`down` runs beside another command. `NoOrphans`, `OneStack` and `DownStops` are stated while
it holds, and of all processes but the `stranded`, because the code does not keep them
otherwise; `OneStarter`, `DownStopsWhatItRead`, `FailedUpCleansUp` and `CommandsEnd` are stated of all
behaviours, `FailedUpCleansUp` of the failures `_do_up` handles. A recorded PID is that of the `uv run`
wrapper a service was started with; model and code know nothing of the processes below it.

PIDs are handed out in increasing order, so a number is reused only across a reboot; the
window of seconds between `is_alive` and SIGKILL in which a number may be reused is left
out. A PID file that is absent and one that is half written are one state (`read_pids`
answers None for both).

### EventTail and TaskWait

An event is its place in `log`, a cursor such a place. `ScanOn`, `CreatedEnd`, `HistoryEnd`,
`ScanTooLong` are the pages of `_fetch_all_events` for the subtasks and for the history,
`TailCursor` is `_current_tail_cursor`, `Follow` a page of the follow loop, `PollFails` and `Wake`
its errors and sleeps. `mode` chooses the command, `wanted` the filter. `Commit` appends at any
moment. `seen` remembers how long the log was when the scan for subtasks ended: a subtask
created later is not in the history, and `HistoryWhole` asks for no more than that scan could see.

In `TaskWait` a round is `Begin` (subtasks), `ReadEvents` (terminal events), `Ask` (Trenni, one
task after the other) and `Show` (rows, exit code). A scan is one step there: `HistoryWhole` of
`EventTail` is the reason why the pages of one amount to the log at its last page. Trenni's
answers are nondeterministic: it keeps tasks in memory, forgets them, and is not tied to
the moment an event is committed. `truth` collects what was true during the round.

### TaskSubmit

`tool` says which of the two tools all runs are of, `content` what the files hold (tasks
that are stored, that `yoitsu submit` refuses, or that are no mapping; or no list at all).
`Begin`, `Pick`, `Load`, `Post`, `Finish` are the loop over files and the loop over tasks; `Deliver`
is a POST that is stored and answered, stored and not answered, neither, or stored and
answered with something that is no JSON, which ends a run of `submit-tasks-file.py`; `Kill` strikes
between any two steps. Files do not change and have distinct names; an edited file, or one
of the same name elsewhere, is skipped by its stamp, and the model leaves that out.

### RconCalls and RconSession

`Connect`, `RecvAuth`, `LoggedIn`, `Call`, `RecvReply`, `RecvTorn`, `RecvError`, `AfterError`, `Finalize` are the
client as setup, the call tool and finalize use it; `ServeAuth`, `ServeCommand` and `Crash` are
the server. `inbox` and `wire` are the two directions of the socket. A timeout inside a packet
sets `torn`: from then on a receive may give an error, a slice of text or, by luck, a
packet again, which over-approximates what the bytes would do. `Promise` is `RconCalls` under
the refinement that numbers calls by request id.

### GitPublish

One action per git command: `Add`, `Diff`, `Commit`, `Sha`, `Push`, with the failures the code heeds
and the one it does not (`git add`). A commit is the set of edits it makes. `OtherPush` is
anybody else, `AgentCommit` the agent that uses its shell to commit (the implementer role has
`bash`). `made` and `slips` are histories.

### FactorioRuntime

`Check`, `Clear`, `Cleared`, `Copy`, `CopyEnds`, `Copied`, `Connect`, `Reload` are `setup`, child by child;
`prepare_factorio_runtime` has the same steps. A child of the directory counts as one file
for the limit. `Kill` strikes between any two, `Restart` is the game. `Launch` is Trenni: the
bundle's `max_concurrent_jobs` is 1 in `config/trenni.yaml`, and nothing in the capability
keeps two jobs apart, so the model allows more than one and remembers in `met` which jobs had
company; `deaf` are the jobs whose reload failed inside the `pcall`.

### JoinContext

`q` is the number of the query to be made next: five types of task events, then four of job
events. `Query` is one of them with everything done to its answer, `QueryFails` the same when the
helper answers with an empty list because of an error; `After` has both early returns. `found`
keeps the place of the event each child's result was made from, so that what the result
says can be held against the log: `TaskResult` and `JobResult` make it, `Section` renders it.
`Commit` appends between any two queries, and `asked` remembers how long the log was at each.
What a query was shown of a child is `Visible`, and the two properties are about the
difference between that and the log: what the limit, a failure or a late commit may do to
the planner's picture, and what it may not.

### Monitor, MonitorDetail and TaskTree

In `Monitor` a refresh is a row of `flight`: what each of its requests has come to.
`ScheduleRefresh` is the timer, whose worker is exclusive; `ActionRefresh` the r key, which is
awaited in the loop of the application, so that nothing the user does is handled
meanwhile (`Listening`). `RefreshTable` is what happens to an answer without an await between,
`RefreshSummary` waits for all its sources. Textual tells of a new value of an input by a
message, so hiding an input and handling its last message are two steps (`changes`). The
dashboard goes on refreshing under a detail screen, because its queries are made of the
default screen.

In `MonitorDetail` `screens` is the stack. The load of a job's screen has two awaits
(`JobAnswered`, `EventsAnswered`), that of a task's one gather (`TaskAnswered`); `GoTask` and
`TaskLookedUp` are the look-up of a job's task, in the same exclusive group as the load, so
that it may cut a load off (`cut`). Answers are whatever the services may give, a missing
task and a list that lacks any tasks included; what `TaskTree` draws of such a list is checked
on every one of them.

### Transaction and BatchOperations

Each operation of the script is an action (`Move`, `Place`, `Mine`, `InventoryAdd`, `InventoryRemove`,
`Inspect`, and `Fail` for every refusal of any of them), which appends to `results` and, where the
code does, to `rollback_data`. `CallRaises` is a call of the game that raises, which ends the script
between any two operations. `TeleportBack`, `RemoveEntity` and `AddBack` undo one entry each, from
the last to the first. The inventory is any family of contents closed under taking things
out (`Fits`), so that an insert may find room for a part only. `past` remembers the world
before each entry, `spoilt` whether a change was made, or an undoing failed, that no entry
accounts for: remove and inventory_add record nothing, and the result of `teleport` is
not looked at; `given` counts what `inventory_add` put in. The result of `destroy` is not looked at
either, and is taken to be a success. `Transaction` has one step, and `ImplementsTransaction` says that the batch,
seen before and after, makes it: `Undo` and `Keep` of those that answer, `Abort`, which promises
nothing, of those that a raising call has ended.

### ServiceStart

`Check`, `SyncBegins`, `Synced`, `HasPython`, `CopyBegins`, `CopyEnds`, `CopyNested`, `BaseMark`, `InstallBegins`,
`InstallEnds`, `Mark`, `Exec` are the commands of the script for one package after the other;
`cp -a` and `pip` are two steps each, so that `Kill` may leave their halves. Sources are revised
at any moment; while the service is stopped the operator may clear the venv or a build tree,
as a runbook of the repository tells of. `asked` is what the sources were when the start
began.

## Runs

| run | bounds | shows |
|---|---|---|
| `stack` | 2 shells, 4 processes, 1 command ended half way, 1 reboot | `NoOrphans`, `OneStack`, `DownStops`, `DownStopsWhatItRead`, `FailedUpCleansUp`, `CommandsEnd` |
| `rcon` | 2 jobs, 7 requests per connection | `Promise`, `CallsEnd` |
| `tail` | 4 events, pages of 2, scan limit 3, history limit 2, four commands, two filters | `NothingSkipped`, `HistoryWhole`, `ShownInOrder`, `EventuallyShown` |
| `wait` | a root and a subtask, 2 outcomes, 2 events | `RowsTrue`, `ExitTrue`, `WaitEnds` |
| `submit` | 2 files of up to 2 tasks, 2 runs at once, 1 lost message, MAX_TASKS 1 | `StampTrue`, `OkMeansStored`, `StampEarned`, `EventuallyStamped` |
| `git` | 2 jobs, 2 edits, 1 other push, 3 attempts | `PersistedIsRemote`, `PublishedOnce`, `SuccessIsSafe`, `OthersKept` |
| `runtime` | 2 jobs, 3 scripts (2 directories), limit 2, 3 bundles | `ReadyMeansSynced`, `ReadyMeansLoaded`, `RefusalExplained` |
| `join` | 2 tasks, 3 types of events committed, 3 events, limit 1, 1 failing query | `FirstAndNewest`, `UnknownExplained` |
| `monitor` | 1 table, 1 source of the summary, 2 workers and the key, 2 versions, 2 filters, 1 message | `TableMatches`, `FilterVisible`, `NeverBackward`, `Converges` |
| `detail` | 4 tasks, 1 job, 2 screens, 2 loads and 2 look-ups of each | `LookUpOnTop`, `Settled`, `DagComplete`, `LoadEnds` |
| `batch` | 2 items, 2 places, room for 2, 4 operations of counts up to 2 | `NoDuplication`, `Restorable`, `ImplementsTransaction` |
| `start` | 2 packages, 2 revisions, 1 kill, 1 clearing | violated: `ChangesPickedUp` |

The type invariants are proved and not checked a second time, nor are the proved
properties that no run lists (`OneStarter`, `CommandsNeedAuth`, `OwnReply`, `TimeoutTrue`).

Why the bounds are enough. Four processes are two stacks, the least in which an old and
a new one meet; a half-dead stack, its survivor and a failed start fit in them. With pages
of two, four events make a full page, a last page and a page after a commit; a scan of
three exceeds its limit. Two outcomes and a subtask are what a row can confuse. Two tasks
and two files let one of each fail or be skipped, and a second run overtake the first.
Seven requests are the login, the reload and five calls: enough for a reply to be late, to
be taken by the next call, and for the session to fall in step again or not. Two jobs,
another publisher and three attempts let every attempt be lost or beaten. Three scripts in
two jobs let one be cleared, one torn and one copied; bundles below, at and above the
limit occur. With a limit of one, two events of a type already hide one another, and three
types are a completed task, a failed one and a job that disagrees with them. Tables, and
sources of the summary, do not touch each other in `Monitor`; two versions are what going back in time takes, and two workers
and the key are every company a refresh can have. A filter that matches nothing stands for all
that match some rows. Four tasks are a root, two siblings and a grandchild; two screens, a
look-up over a load and a load under a look-up. Four operations let an entity be placed,
mined and placed again, or a full inventory refuse what the rollback gives back. One
clearing and one revision are the violation of `start`; without a clearing `ChangesPickedUp` holds
with three revisions and three kills. Deadlock is not checked where the system stops by
itself: commands end, jobs are done, a log or the services come to rest.

Each passing property comes with a mutant of the code (a dropped guard, a wrong order, a
missing reset) under which its run finds it violated; `PROJECT.json` lists them and the
modules define them beside the action they change.

### Fairness

Weak fairness only, and only where something in the code ends a wait:

- `StackLifecycle`: every command's next statement. All its waits are loops with deadlines
  (10 s readiness, 30 s graceful stop, 5 s kill). Services are under no fairness.
- `EventTail`: a poll is answered or fails (HTTP timeout 10 s), and a sleep ends. Answered
  polls are not assumed: `EventuallyShown` has `[]<><<Follow>>_vars` as a premise.
- `TaskWait`: the next step of the command (HTTP timeouts) and the passing of the deadline.
- `TaskSubmit`: the next step of a run (POST timeouts: 15 s in the pod, 10 s in
  `yoitsu submit`). Nobody is obliged to run a tool: that it is run again and again, and not killed for ever, are premises of
  `EventuallyStamped`.
- `RconSession`: a receive ends, because the socket has a timeout. The server owes nothing.
- `Monitor`: the timer fires, each request is answered or fails (HTTP timeout 10 s), what was
  answered is shown, a message is handled. That an answer is not for ever a failure, and that
  refreshes are not for ever overtaken by the next tick, are premises of `Converges`.
- `MonitorDetail`: the running worker of a screen, whose requests end. The user owes nothing.
- `GitPublish`, `FactorioRuntime`, `JoinContext`, `BatchOperations`, `ServiceStart`: none; nothing is said
  there of what must happen. In particular no git command has a timeout
  (`git_workspace.py:83-145`), so that a hung push holds its job until somebody stops it.

## Disagreements between the code and what is said of it

One is a violation run. `start`: deploy/quadlet/README.md:129 says that changes of the source
are picked up when the service restarts. contracts and trenni share a venv, and each has its
marker outside of it. When the venv has been cleared (the runbook of 2026-04-07 tells at line
169 that it had to be), the contracts step copies it from the image, with the image's trenni
in it; the trenni step then finds a build tree, a python and a marker that says "current"
(`start-trenni.sh:88`), installs nothing, and the service runs the image's revision until its
source changes again. The same runbook clears "venv/source cache": with the build tree of
trenni cleared as well the step would install it.

Others were met while modelling. The models contain the behaviour; the properties are
stated so that they say what holds all the same, and where a guard is missing altogether
no property is stated that this single guard would break:

- `down` takes no lock and deletes the PID file as its last act. Racing an `up` it deletes the
  newer record, and the next `down`, alone, answers ok and stops nothing (hence `orderly`).
- `_do_up` is said to clean up pasloe if trenni fails to start (`cli.py:623`). An exception it does
  not catch (a client that cannot be made, `resolve`) ends in the handler of `cli.py:685`, and an
  OSError of `write_pids` (`cli.py:687`) in none: both leave services alive that no record names,
  and the next `up` starts a second stack beside them (hence `stranded`).
- After a reboot `up` takes other programs' PIDs for a running stack and answers ok.
- `send_command` is said to read until an id matches; it returns the first body. After a
  timeout the session stays one reply behind (hence "or an earlier failed call" in `Promise`).
- An event committed between the history and the poll for the tail is in neither (hence the
  exception in `NothingSkipped`).
- A subtask created between the scan for subtasks and that of the history is missing from the
  history with all its events (`cli.py:257-274`; hence `seen` in `HistoryWhole`).
- ADR-0005 says that Trenni is consulted but not required by `tasks wait`; only a 404 is
  tolerated, so with Trenni down a completed task ends the command with exit code 1.
- `batch-submit.sh` stamps a file as soon as one of its tasks was stored. It has a branch for a
  file that could not be submitted, but `set -e` ends the script before it, and the files
  after that one are never tried.
- Two runs of it over one directory both find no stamp and both submit the file.
- An answer to a POST that is no JSON ends `submit-tasks-file.py` after the task was stored: line
  115 is outside of what is caught.
- The gate of `finalize` looks at the index only: what the agent committed itself is reported as
  "no changes", with success, and never pushed (hence `slips`). `artifact_persisted` is False after
  pushes that reached the remote with their answers lost. ADR-0016 says that `finalize` may not
  raise; both `git rev-parse HEAD` are outside any try.
- The result of the `pcall` around `reload_script` is dropped: a failed reload is not noticed.
- The r key's refresh is not exclusive with the timer's (`tui.py:631`), so an older answer may
  replace a newer one (hence `beside`); and when answers take longer than the interval every
  worker is cancelled by the next one and nothing is ever shown (`tui.py:622`).
- A batch answers that its transaction was rolled back although remove and inventory_add
  record nothing that could be undone (hence `spoilt`).
- A call of the game that raises (a name it does not know, a position that is no number) ends
  a batch between `batch_operations.lua:330` and the rollback at 345: the earlier operations of a
  transaction stay, and there is no answer. No call is in a `pcall`, while
  `examples/build_belt_line.lua:88` uses one (hence `Abort`).
- A start cut off while the venv is copied from the image leaves a python that passes for a
  whole venv, or a directory into which the next `cp -a` copies a nested one
  (`start-trenni.sh:30`); every later start then fails at `pip`.
- The revision of a source is its HEAD, so that edits which are not committed are not picked
  up by a restart; in the model a revision is what `current_src_rev` prints.

## Proofs

All theorems hold for every value of the constants under the named assumptions of the
modules (`StackAssumption` and so on), which say no more than that model values differ and
that bounds are numbers. tlapm proves them without a fact taken on trust.

| module | theorems | inductive invariant |
|---|---|---|
| `StackLifecycleProofs` | `TypeCorrect`, `LockExcludes` (`OneStarter`), `NothingOrphaned` (`NoOrphans`), `NeverTwoStacks` (`OneStack`), `NamedServicesDie` (`DownStopsWhatItRead`), `FailureLeavesNothing` (`FailedUpCleansUp`), `DownLeavesNothing` (`DownStops`) | `Safe`: types, who holds the lock has the only `kids`, and what each label says of `kids` and `todo`; `Quiet`, under `orderly`: what is recorded, read or in hand at each label accounts for every live process; `Informed`, under every fault: what each shell knows, at each label, of the processes it has read of and started (`Known`) |
| `EventTailProofs` | `TypeCorrect`, `FollowsAll` (`NothingSkipped`), `HistoryIsWhole` (`HistoryWhole`), `PrintsInOrder` (`ShownInOrder`) | what a scan has gathered is all the log has up to its cursor; nothing beyond the cursor is shown |
| `TaskWaitProofs` | `TypeCorrect`, `RowsAreTrue`, `ExitIsTrue`, `TimeoutIsTrue` | terminal events seen, and answers received, are in `truth` |
| `TaskSubmitProofs` | `TypeCorrect`, `StampsAreTrue`, `OkIsTrue`, `StampsAreEarned` | a run's counts are those of tasks stored; stamps, and exit codes 0, are of files all or part of which is stored, by tool |
| `RconSessionProofs` | `TypeCorrect`, `LoginFirst` (`CommandsNeedAuth`), `KeepsPromise` (`Promise`), `OwnReplyFirst` (`OwnReply`) | ids on `wire` and in `inbox` increase and lie between the last reply and the current id; while `clean` at most the current one is there |
| `GitPublishProofs` | `TypeCorrect`, `PersistedIsThere` (`PersistedIsRemote`), `OthersAreKept` (`OthersKept`), `SuccessSafe` (`SuccessIsSafe`), `NothingTwice` (`PublishedOnce`) | work is in the tree or in a local commit, an event says what has happened; for jobs that have not slipped, a clean index means no work; `AllTracked`, for `PublishedOnce`: what is in a history was made, is in it once, and is in no working tree |
| `FactorioProofs`, of the runtime | `RuntimeTypeCorrect`, `ReadySynced` (`ReadyMeansSynced`), `ReadyLoaded` (`ReadyMeansLoaded`), `RefusalIsExplained` (`RefusalExplained`) | a job that met nobody is the only one running, and the directory is cleared but for its `todo`, then copied but for its `todo`; `Tidy`, for the refusal: without strangers' files there are never more files than the limit |
| of the batch | `BatchTypeCorrect`, `AlwaysRestorable` (`Restorable`), `NothingDuplicated` (`NoDuplication`), `Atomic` (`ImplementsTransaction`) | `Restorable` itself, with types, the lengths of `past` and `rollback_data`, and `Standing`: an entity whose placing is still to be undone stands in the world after it, until something is spoilt; for `NoDuplication`, `Balanced`: what there is of each item, and what the entries still to be undone would hand back, is no more than there was and was `given` |
| of the join | `JoinTypeCorrect`, `NewestOfFirst` (`FirstAndNewest`), `UnknownIsExplained` (`UnknownExplained`) | `Made`: later queries have been shown nothing; `Missed`: a child that is missing was shown by none of those made; `Chosen`: a result is the newest of its page and its child is on no earlier one; `Written`: the sections are those of the results |
| `MonitorProofs`, of the dashboard | `MonitorTypeCorrect`, `MatchesFilter` (`TableMatches`), `FilterIsVisible` (`FilterVisible`), `StaysCurrent` (`NeverBackward`) | `Pending`: the last message under way carries the input's value; `Alone`: a refresh that has kept no company is the only one with requests under way; `Past` and `Ahead`: nothing is newer than the services, and what such a refresh holds is not older than what is shown |
| of the detail screens | `DetailTypeCorrect`, `LooksUpOnTop` (`LookUpOnTop`), `SettlesOnLast` (`Settled`), `TreeIsComplete` (`DagComplete`) | `Sound`, of each screen by itself: one worker at most (`OneWorker`), of the last load, with nothing shown as recent as what it will bring; a screen that waits for no load shows its last (`ShowsLast`); the tree is that of the list (`Drawn`) |

Hardly one of the safety properties is inductive by itself (`TableMatches` is): each speaks of an end (a stamp, a
return, an exit) and must be carried through the steps before it, which is what the
invariants do. Each proof has a lemma for the initial states, one for what a step does to
the record it changes, and one per action or group of actions for the invariant; a
theorem combines them with the temporal step. `KeepsPromise` and `Atomic` are step simulations:
every step of `RconSession` is a step of `RconCalls`, and every step of `BatchOperations` one of
`Transaction`, or leaves its variables as they are. `NamedServicesDie`, `FailureLeavesNothing` and
`DownLeavesNothing` are of steps: a lemma says which statements a command can end with
(`LastStatement`), another that only its own statement gives it an answer (`OwnAnswer`), and the
invariant says what is known before each. The assumption of `FactorioRuntime` includes that a
directory is finite, which `RefusalIsExplained` needs to count files.

`NewestOfFirst` has to know what `Max` of a page is, and that what a query was shown does not
change while the log grows (`ShownStays`). That a bounded set of numbers has a greatest
element comes from the order of the naturals being well founded (`Least`, `MaxIs`).
`StaysCurrent` is of steps again; it needs no more than `Ahead` where the step is taken.
`TreeIsComplete` rests on two lemmas of the operators of `TaskTree`, `OnePlace` and `IsListed`.

The strengthened invariants of the join and the monitor hold in TLC within the bounds of their
runs too. Of `FactorioProofs` and `MonitorProofs` the modules are extended together, which is
why their specifications carry names of their own (`JoinSpec`, `DetailSpec`).

Only model-checked: all liveness (`CommandsEnd`, `EventuallyShown`, `WaitEnds`, `EventuallyStamped`,
`CallsEnd`, `Converges`, `LoadEnds`), which is out of the prover's reach;
and what is said of `ServiceStart`, which is a violation, with the bounds under which it would
hold. Every invariant and action property of the passing runs is proved. No module uses a
RECURSIVE operator.

## What remains

In the order of the plan, all the components it named are modelled. Left are:

1. A composition of `FactorioRuntime` and `RconSession` in one job, and of `GitPublish` with the
   cleanup, as soon as the order of capabilities is known here: it is the runner's.
2. A proof that `ChangesPickedUp` holds of `ServiceStart` when nothing is cleared by hand.
3. `start-pasloe.sh`: `ServiceStart` with one package and a venv of its own.

## Not modelled

`PROJECT.json` lists every part with its reason. In short: the Lua scripts for a single action
are one guarded call of the game each, the same as those of a batch; `lib/bridge.py` is used
by nothing (it imports a package that is not there); the cleanup capability is one call of
`rmtree`; the mount capability, status and the single GETs keep no state; roles, prompts and
the GitHub context are declarations and text; the smoke and deploy scripts are sequences of
calls to podman and systemctl; `start-pasloe.sh` repeats `start-trenni.sh` for one package; the
submodules are not in the repository. The layout of what is printed or drawn, logging and
JSON are left out everywhere.
