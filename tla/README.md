# A formal model of UBackup

UBackup is a desktop backup program: a Qt GUI that runs as the user, and root
helpers that run restic and read the system for it. This directory holds TLA+
specifications of the parts where an unlucky order of events matters, TLC
configurations that check them on small instances, and theorems about them that
TLAPS checks for every instance. Paths below are relative to the root of the
repository; `ubackup/` stands for `src/ubackup/`.

## The system

| Part | State | Operations | What makes it hard | What it must do |
|---|---|---|---|---|
| Session, GUI side (`privilege_broker.py`, `StartupSession`) | request lock, `_lock`, `_closed`, the deadline, the two pipe ends | `start`, `events`, `request`, `cancel`, `close` | worker threads and the main thread, deadlines, broken streams | an answer belongs to its request; every request returns; close always ends the helper |
| Session, helper side (`privileged/startup.py`) | the request in progress, chunk counters | `main`, `run_plan`, `run_session` | one stdin shared by the loop and the monitor; a slow or vanished GUI | one operation at a time; no operation outlives the GUI |
| Control monitor (`privileged/runtime.py`) | its buffer, `seen_control`, deadline | `start`, `close`, `_run` | thread concurrent with the operation | only cancels; takes nothing that is not its own |
| Framing (`privileged/protocol.py`) | parser state | frame read and write, chunking, decoding | torn frames, chunk limits | rejects what is not one expected message |
| Child groups (`privileged/runtime.py`, `restic_engine.py`) | active group, cancellation flag and code | register, unregister, request, reset, run, stream | signals, a monitor thread, children that ignore SIGTERM | no child survives its operation; the code that is reported is the real one |
| One-shot broker (`privilege_broker.py`) | process, buffers | `_bounded_process`, `_execute`, `_invoke` | late success after a timeout | a timeout is not a success |
| Fixed helpers (`privileged/runtime.py`) | request, monitor | `handle_fixed_request`, `run_fixed_helper` | as the session, once | one response |
| Backup and manifest (`privileged/backup.py`, `manifest.py`) | lock file, `state/<domain>/current`, plan directories | `handle_backup` | several helpers, crashes | the metadata in a snapshot is that snapshot's |
| Maintenance (`privileged/maintenance.py`) | repository | delete latest, consolidate | runs without the backup lock | never forgets a snapshot the user did not name |
| Credentials and paths (`privileged/credentials.py`, `paths.py`) | password files, plan directories | create, remove, clean up stale ones | crashes | no secret outlives its request for long |
| Admission and provisioning (`privileged/configure.py`) | directories, owners, modes | `prepare_backup_root`, `provision_user_runtime` | crashes between mkdir and chown | can be repeated |
| Restore, packages (`restore_engine.py`, `privileged/restore*.py`, `packages_install.py`) | staging area, live files | restore, install | partial failure | the user knows what was changed |
| Selection (`selection.py`, `profiles.py`) | policies and rules | resolve, exclude list | two readings of the same rules | restic leaves out what the GUI shows as left out |
| Cache, size scanner, inventories (`cache.py`, `fs_scan.py`, `system_scan.py`, `privileged/inspect.py`) | SQLite tables, partial sums | put, get, scan, page | partial flushes, stale rows | sizes and lists are complete or marked |
| Main window (`gui/main_window.py`) | selection, last manifest, flags of running tasks | backup, review, snapshots, restore, shutdown | results that arrive after the state they were computed from | what is recorded is what was done |
| Tasks and startup (`gui/task_monitor.py`, `workers.py`, `startup_flow.py`, `app.py`) | task table, worker set, session owner | start, finish, cancel | queued signals after shutdown | a session has one owner |

The GUI starts one helper through pkexec. It sends the request and, once the
helper is ready, the credentials; the helper reports its plan as a stream of
events and then a navigation-ready frame. From there on the two stay connected by
the helper's stdin and stdout, and every worker thread of the GUI reaches root
through `StartupSession.request`. A `_ControlMonitor` thread in the helper reads
stdin while an operation runs, so that a cancel frame or EOF stops the operation.

## Modules

| Module | Contents |
|---|---|
| `Rpc` | what the session promises, without pipes: call, start, finish, return, fail |
| `Session` | the session after navigation-ready, with its properties |
| `SessionProofs` | pipes and types; `AnswersAreAuthentic`, `SessionImplementsRpc`, `RequestNeverLostAlways` |
| `Handshake` | the startup before it: authorization, provisioning, the start command, the inventories, the reader thread against `close()` |
| `HandshakeProofs` | its inductive invariant, `OneReaderAlways`, `TermBeforeSessionStopsAlways` |
| `ChildControl` | one action of a helper, its child processes and their cancellation |
| `ChildProofs` | its inductive invariant and four theorems |
| `Stream` | one Restic command whose output is streamed, with its reader and the bounded join |
| `EngineProofs` | the inductive invariants of `Credentials` and `Stream`; `SecretIsOneMomentAlways`, `StaleSecretsGoAlways`, `SuccessIsWholeAlways` |
| `Archive` | what the repositories promise: backups, previews, maintenance, without helpers, locks or files |
| `Repository` | the helpers over the repositories: backup lock, stable state, Restic, maintenance, crashes |
| `RepositoryProofs` | its inductive invariant and types, `OneWriterAlways`, `SnapshotIsOnePlanAlways`, `RepositoryImplementsArchive` |
| `Credentials` | the private directories and password files of requests, and the cleanup after dead helpers |
| `Provision` | admission of the backup root and the directories of a user, made by several helpers |
| `ProvisionProofs` | its inductive invariants, `ReadyIsOursAlways`, `StrandedAtOwnOnlyAlways`, `RefusalIsCleanAlways`, `LoneRefusalHasReasonAlways` |
| `SelectionRules` | the policy resolver, the checkbox policy, overrides, the request, the plan and the exclude list, as operators |
| `SelectionPlan` | the clicks and switches of the selection, and what a backup would hold |
| `SelectionPlanProofs` | the resolver, the split sources and the exclude list; `RefusedForNameOrSizeAlways`, `ManualStaysOutAlways`, `HardStaysOutAlways`, `UncheckTakesEffectAlways` |
| `SelectionReview` | the review scan, browsing, the backup and its manifest, and restarts, over the cache database |
| `SelectionReviewProofs` | its inductive invariants, `UndisturbedReviewIsExactAlways`, `OnlyTheUserChoosesAlways` |

`MCSession`, `MCHandshake`, `MCChildControl`, `MCStream`, `MCRepository`,
`MCCredentials`, `MCProvision`, `MCSelectionPlan` and `MCSelectionReview` hold the
instances of the runs. `Session` implements `Rpc`, and `Repository` implements
`Archive`; `SelectionPlan` and `SelectionReview` share `SelectionRules`. The
modules meet at these places:

- `Handshake` ends where `Session` begins, in the helper's phase `session`.
- `ChildControl` is one operation of `Session`, seen from inside; `Stream` is one
  command of it. The straggler of `Session` is the reader of `Stream` after a join
  that timed out.
- the phase `restic` of `Repository` is a command of `Stream`; the request it
  serves has its password by `Credentials`; the contents of its plan are those of
  `SelectionRules`.
- `Provision` makes what `Handshake` has as one step.

### How `Session` corresponds to the code

*The pipes* `toHelper` and `toGui` are sequences of frames. A frame is a kind, a
request id, and a chunk number and count; payloads are left out, because every
check of the code that steers the protocol is on these fields. `InCap` and
`OutCap` are the frames that fit a pipe. A write either fits or, at its deadline,
may leave a prefix: `Torn` (or `Garbage`, on the helper's side, where the prefix
and what follows cannot be told apart). A reader that meets a prefix completes it
with the bytes behind it and may stop anywhere: `Rest`.

*The requester* (`gpc`) is the worker thread inside `request()`. The request lock
is held for the whole call, so there is at most one; that the next one starts
after the last returned is the action `RequestBegin`. `sending` is the loop over
`_write`, `receiving` the loop over `read_frame_fd_deadline`, `collecting` the
loop over the later chunks, `closing` the `close()` in the except branches. The
ways out of `request()` differ in what they do to the stream: `ReceiveFramingFailure`
and `CollectFails` call `close()`; a message that does not decode, a sequence that
does not match and a write timeout raise with the session open (`RaiseOpen`). The
history variables `stream` and `reuse` record which of them happened and whether a
request started after it. A callback of the caller may raise out of `request()`
as well (`CallbackMayRaise`), which the code leaves open without claiming anything
about it.

*Closing* is an instance of `close()` per thread (`closepc`), with `_lock`: the
main thread at shutdown, at any time, and the requester after a framing failure.
`CloseCancel`, `CloseEof`, `CloseDrain`, `CloseFinalize` and `CloseGivesUp` are its
steps in the order of the code. The drain loop reads the stdout the requester may
be reading.

*The helper* (`hpc`) is `run_session`: `reading`, `assembling` (chunks),
`running`, `responding`, `exited`. `HelperRead` includes `reset_cancellation`, which
precedes every check. An operation is one step that ends it, preceded by any
number of progress frames: the handlers are not modelled here, and they may end
with a result or an error, at any time. `OperationEnds` includes the join of the
monitor that precedes the response. A restic operation waits two seconds for the
thread that reads restic's stdout; `stragglers` has the threads that still run and
relay progress. The callback of such a thread is a closure over the variables of
`run_session`, so a frame it makes later has the id of the request that is then
current (`StragglerBuilds`), and a frame it had made before keeps the old one.

*The monitor* (`monitor`, `seen`, `cancelled`) is `_ControlMonitor._run`. It reads
whatever is in stdin; one cancel frame sets the flag, anything else sets it too and
ends the monitor, and what it read is lost.

### What `Session` leaves out

The startup phase before navigation-ready and the legacy navigation exchange;
SIGTERM; the cancellation codes (one flag stands for them); the two seconds a
cancelled child may take to die; message sizes. The join of the monitor is taken to
succeed: it waits for 0.3 s, three of the monitor's poll intervals, and the monitor
does nothing that blocks longer. Requests that fail to encode never reach the pipe
and are left out.

### How `ChildControl` corresponds to the code

*The main thread* (`pc`) is `run_fixed_helper` from `reset_cancellation` on, with
`handle_fixed_request`: an action that starts up to `MaxCommands` commands, one
after the other, and ends with a response. Each command is run by
`restic_engine.py`, by `run_cancellable_subprocess`, or by the latter below a
discovery function that catches every exception (`kind`); these differ in the code
they raise and in what a failed registration does, and share the rest: `Launch`,
`RegisterClaim` and `RegisterCheck` (the two halves of the locked section), the
wait loop `poll`, `wait`, `recheck`, and the termination `term`, `grace`, `kill` or
`reap`, `unregister`. Every checkpoint of a handler is the action `Checkpoint`,
which a handler may reach or not.

*The monitor* (`mon`) and *the signal handler* (`sig`) call `request_cancellation`
in two steps, under the lock and after it. The handler runs in the main thread:
while it does, the main thread makes no step, and the reentrant lock never stops
it. So the lock only keeps the monitor out of `register_child_group`.

*Processes* are given by the group number, the leader and the descendants of each
command (`pgid`, `leader`, `kin`). SIGTERM has no certain effect, SIGKILL has.
The kernel reuses a number when its group is empty, for another command or for
another program (`foreign`).

A checkpoint that raises in the wait loop of `run_cancellable_subprocess` (only that of
debsums is handed one) goes through the same termination, unless the leader has ended by
itself: then the group is only released, no signal is sent, and its descendants may live
on (`CheckpointRaises`, `Release`). `EndedGroupsAreGone` is about the groups the helper
has ended.

Left out: the output threads of a command and their join, the restic messages,
failures to start a thread, `PR_SET_PDEATHSIG`, a registration without the process
object (no caller in `ubackup/` makes one), and the 0.3 s limit of the monitor's
join.

### How `Handshake` corresponds to the code

*The helper* is `startup.main` until `run_session`: each phase is named for what it
waits for or does next, `_send` refuses as soon as a cancellation is raised, and
`_send_terminal` does not look. The control monitor runs in the phases `provision`,
`plan`, not while the start command is awaited; `request_cancellation` is `Raised`.

*The GUI* has two threads. The main thread claims the reader (`reader`,
`_reader_thread`) for the ready frame in `begin_startup`; a worker then starts the
session and reads the events. `Claim`, `Read`, `ReadNothing`, `Finalize` are
`_read_one` frame by frame, with the state of `StartupFrameParser` (`parser`).
`close()` is the `Close...` actions, with `_lock`. `GiveUp`, `Deliver`, `Quit` and
`Leave` are the window: a missing dependency, the signals of the worker, shutdown
and `_safe_close`. `then` is where the main thread goes after a close.

A budget may pass at any time, whatever it waits for is about to do: the deadline of a
read (`ReadNothing`), the ten seconds of `_finalize_process` and of `close()`
(`FinalizeExpires`, `CloseExpires`, `CloseGivesUp`), the fifteen of `waitForDone` at
shutdown (`Leave`). Each raises or goes on with the helper as it is, and `expired` records
it. The answer to polkit (`Authorize`) is a user's and may never come.

Left out: the contents of inventories, and a SIGTERM between the installation of the
signal handler and the `reset_cancellation` that follows it (`startup.py:364`), which the
reset drops. The legacy navigation exchange is in no module.

### How `Stream` corresponds to the code

`Emit`, `Exit`, `Fail` are Restic. `Take`, `Tell`, `Discard` and `EndOfOutput` are
`drain_stdout`: a line that is too long is refused and the reading goes on, a
callback that raises makes it discard the rest, and a listing passes over the lines
that are no entries, such as the snapshot that comes first. `Wait`, `Join`, `Check`, `Warn`,
`Answer` are the main thread from `_wait_with_cancellation` to the response. A
listing keeps the smallest keys in a heap (`Keep`) and cuts its page from them. A
progress frame is taken to fit a pipe write that is atomic; the time limit of a
command is in `ChildControl`.

### How `Repository` and `Archive` correspond to the code

A helper serves one request at a time. A backup goes through `prepare_environment`
(`Prepare`, `MakeLayout`), `_backup_lock`, discovery, the files of the state one by
one (`WritePart`), Restic, the receipt, and its answer, which releases the lock. A
file of the state is the number of the request it was written for; Restic reads the
lists when it starts and the other files when it saves them. Maintenance has the
listing (`CheckLatest`) and the forget (`StartForget`, `ForgetOne`) as two commands.
Restic's own lock keeps a forget apart from every other command. `Crash` is the
death of a helper at any place; its Restic dies with it (`PR_SET_PDEATHSIG`), the
kernel releases its lock, and the files stay.

`Archive` has a request, a snapshot per backup at most, made whole while the request
is open, and removal by open maintenance requests only. The refinement mapping
forgets the files, the lock and who serves what.

### How `Credentials` corresponds to the code

`Arrive` and `Clean` are `cleanup_stale_request_artifacts`, entry by entry over the
entries it found; `MakeDirectory` to `CopySecret` are `credentialed_engine` with
`_copy_external_password`; `Leave` and `Remove` its way out, and that of
`handle_backup`, which removes the directory it made itself. The external file has
two halves, and its owner rewrites one after the other.

System calls fail. A write may leave any part of a password (`WriteFails`, `Torn`). A
removal may stop at the password, at another file or at the directory (`RemovalFails`);
the code swallows that and the request ends all the same. A cleanup may fail to list
the directories or to remove one, and goes on; the history variable `stuck` has the
directories it failed on.

### How `Provision` corresponds to the code

A helper walks through the directories of `Program`. Each mkdir, chown and chmod is a
step, each preceded by a checkpoint where it may find itself cancelled, and it may
die anywhere. Any of these calls may fail and refuses then, with nothing undone
(`CallFails`): no space, a read-only disk, a file system that knows no owners. The code
says `provisioning_failed` for all of them; the model keeps a failed chown apart,
because only it leaves a directory to root.

Modes are three classes. `Init` has the layouts an earlier run may have left whole
(`Wholes`), with the 0700 parents of older versions, and those in which one directory
has another owner or can be written by others (`Spoilt`), which the code refuses. That
other owner is a `stranger` who is not root, so that a user's directory that root owns
is always one a helper has made. The `lstat` calls of the preflight are one step: what
another helper does between two of them it may as well do before or after all of them.
`Admit` is one step too, where the code looks at a missing root a second time
(`configure.py:334-347`). Symbolic links and hostile replacement below the root are not
modelled.

### How the selection modules correspond to the code

`SelectionRules` translates `selection.py`, `profiles.py` and what `backup.py` and
`manifest.py` make of the result. A path is a value with the set of paths above it
(`Above`); a rule is a tree ("/x/**") or a name anywhere ("**/x/**"), an override or
an exclusion may also be a path. The rule `*.tmp`, of file names, has neither shape
and is left out. `Rejects` is Restic's reading of an exclude list, the last match wins;
`--exclude-caches`, which only takes more away, is left out.

`manifest.py` writes a path unescaped into the exclude file, where Restic expands
`$NAME`, trims blanks and takes a backslash for an escape. `ReadAs[p]` are the paths a
line with the text of `p` stands for, and `Plain` the paths that stand for themselves.
`ReadAssumption` asks little of the others: hard roots are plain, and what a rule
matches is not read as an entry of "/". In the instance `/home/$x` is read as `/home`.
The metadata files of the state (`Metadata`, below the backup root) are sources of every
snapshot. The helper refuses what the window does not look for: `Admitted` are the
texts `absolute_path` takes, `Resolved` is `realpath`, `MaxItems` the limit of a list;
`Saved` is empty for a request it refuses.

`SelectionPlan` adds the clicks. In `SelectionReview` the window is one thread;
listings and backups are workers whose results are queued, and the session serves
one of them at a time. `known`, `saved`, `policy` and `on` are the tables of
`cache.py` and survive `Restart`. The database may be one of an earlier version: of the
boolean model, whose checked sources become recursive inclusions and the others
exclusions (`Legacy`, `LegacyOff`), or of the one that froze folders (`Frozen`), which
become recursive the first time it is opened (`opened`). `_refresh_policy_branch`, which
repaints rows, is presentation. Two details are left out: a review refresh also waits for
size scans in flight (`main_window.py:2427`), which only delays it, as browsing does; and
a listing is rendered in slices over several turns of the event loop (1578-1648), which
is one step here.

## Runs

| Run | Configuration | Checks | Instance |
|---|---|---|---|
| `session_safety` | `SessionSafety.cfg` | `TypeOK`, `ResultAuthentic`, `RequestNeverLost`, `ImplementsRpc` | 2 requests, 2 chunks, pipes of 2 frames, callbacks that raise |
| `session_live` | `SessionLive.cfg` | `HelperEnds`, `EveryRequestReturns` | 2 requests, 1 chunk, pipes of 2 and 1 frames |
| `child_safety` | `ChildSafety.cfg` | `TypeOK`, `RunningIsRegistered`, `EndedGroupsAreGone`, `CutShortNeverSucceeds`, `CancelledActionEnds` | 2 commands, 2 group numbers, 1 signal |
| `selection_plan` | `SelectionPlan.cfg` | `TypeOK`, `ManualStaysOut`, `HardStaysOut`, `RefusedForNameOrSize`, `UncheckTakesEffect` | 14 paths with `/boot/efi`, `/etc`, a cache, the backup root with a metadata file, a hard root, a text the helper refuses, one Restic reads as another path and a link into the backup root; 4 rules; lists of 6; 8 rows are clicked |
| `selection_review` | `SelectionReview.cfg` | `TypeOK`, `UndisturbedReviewIsExact`, `OnlyTheUserChooses`, `RefreshEnds` | a file that appears and may become a directory, one that is there all the time, the backup root with a metadata file; sources of every older database; 1 snapshot, 1 timer |
| `repository` | `Repository.cfg` | `TypeOK`, `OneWriter`, `SnapshotIsOnePlan`, `Implements`, `EveryRequestEnds` | 2 helpers, 1 domain, 2 files of the state, 3 requests |
| `credentials` | `Credentials.cfg` | `TypeOK`, `SecretIsOneMoment`, `StaleSecretsGo` | a backup with an external file, a reader with a given password, 3 rewrites |
| `provision` | `Provision.cfg` | `TypeOK`, `ReadyIsOurs`, `StrandedAtOwnOnly`, `RefusalIsClean`, `LoneRefusalHasReason` | 2 windows of one user, 1 request that makes its private tree |
| `handshake` | `Handshake.cfg` | `TypeOK`, `OneReader`, `TermBeforeSessionStops`, `LeavingReaps`, `HelperFollows` | 2 pages, a pipe of 2 frames |
| `stream` | `Stream.cfg` | `SuccessIsWhole`, `CommandEnds` | up to 3 lines, with a summary or without; every order of 4 entries; a pipe of 1 line and of 1 frame |
| `selection_dedupe` | `Selection_ExplicitInclusionIsBackedUp.cfg` | `ExplicitInclusionIsBackedUp`, violated | the same tree, 2 rows |
| `repository_deletesonlylatest` | `Repository_DeletesOnlyLatest.cfg` | `DeletesOnlyLatest`, violated | as `repository` |

Deadlock is checked in `child_safety`, whose end is the action `Stopped`, in
`selection_plan` and in `selection_dedupe`. In the other systems windows and helpers
may stay idle for good, and when a bound is reached nothing more happens.

Bounds. In `Session`, two requests are enough for one to disturb the next;
`MaxChunks` = 2 gives a first and a last chunk, the only two places of the assembly;
`InCap` and `OutCap` = 2 let a pipe hold a frame of an earlier request before one of
the current, be full, and hold a prefix beyond that. In `ChildControl` two commands
let one follow a command that was swallowed or left descendants behind, and two
group numbers let a number be reused by the next command or by another program; one
signal is enough next to a monitor that can request two cancellations. In
`Repository` two helpers and three requests give a backup, a second one, and the
maintenance of either in any overlap; domains do not share anything but the layout.
In `SelectionPlan` the tree has one of everything a rule, the splitting, the checks of
the helper or an exclude line treats differently, and lists of 6 are exceeded. In
`SelectionReview` one snapshot is enough for paths to be known to it or not, and one
path that appears next to one that stays for a scan to find news or not. In `Provision` two helpers of one user share every directory, and the third
process shares the parents. In `Handshake` two pages let the pipe be full in the
middle and at the end of the plan. In `Stream` the pages start at the second entry,
so that the heap holds more than the page and fewer than the directory. The theorems
do not depend on any of these bounds.

What the properties say:

- `ResultAuthentic`: a result or a helper error that `request()` returns is the
  outcome of that very operation.
- `RequestNeverLost`: while the GUI waits in a session that nobody closed, whose
  helper lives and where no earlier request gave up on the stream, its request is
  in the helper's stdin, in the helper, or answered. This fails if the monitor is
  still reading when the response goes out.
- `ImplementsRpc`: see `Rpc`. Each operation is executed at most once, alone, after
  its call; a call that failed says nothing about its operation.
- `HelperEnds`: once the GUI's end of stdin is closed, the helper ends.
- `EveryRequestReturns`: no request blocks its worker for good.
- `RunningIsRegistered`: a cancellation finds whatever command runs, but for the time
  between `Popen` and the registration, which then makes up for it; a registration
  never finds another child.
- `EndedGroupsAreGone`: when a termination is over, the group has no process, also when
  its leader had ended before.
- `CutShortNeverSucceeds`: an action whose command a cancellation signalled is not a
  success, although the discovery functions swallow the exception: the flag stays.
- `CancelledActionEnds`: a cancelled action ends and no command of it runs on, also
  when the command ignores SIGTERM.
- `ManualStaysOut`: whatever was clicked, and whatever overrides and splits follow from
  it, nothing at or below a manual exclusion is in a snapshot, if the text of the
  exclusion is plain. Of any other it is false: a manual exclusion of
  `/x/$RECYCLE.BIN` is read as `/x/.BIN` and the directory is saved. The metadata files
  are the helper's own and are left aside here; the user's lines match them as they match
  any path, so that an exclusion above the backup root keeps them out of the snapshot.
- `HardStaysOut`: of the backup root a snapshot holds the metadata files at most, and
  of a hard root nothing.
- `RefusedForNameOrSize`: the helper refuses a request of the window for the text or
  the target of a path, or for the length of a list, and for no other reason. The window
  looks for none of these: a checked `/home/[x]` makes every backup fail
  (`tests/test_privilege_phase2.py:372-375`). `UncheckTakesEffect`: an unchecked row is not selected any more,
  nor is anything below it, however it came to be.
- `UndisturbedReviewIsExact`: a scan that nothing disturbs leaves exactly the paths
  that need review, whatever was shown before. `OnlyTheUserChooses`: an
  explicit policy is changed by an edit alone, and no restart overwrites it with the
  sources of an old database. Two choices become recursive on their own: a chosen file
  that gave way to a directory, when its row is made, and a folder an earlier version
  froze, when the database is first opened. `RefreshEnds`: the flag that keeps a
  second refresh out is always released.
- `OneWriter`, `SnapshotIsOnePlan`: one backup per domain at a time, and every
  snapshot holds the files of the request that made it, whatever a dead helper left
  behind. `Implements`: see `Archive`. `EveryRequestEnds`: nobody waits for the lock
  for ever.
- `SecretIsOneMoment`: no password is made of two halves of different contents.
  `StaleSecretsGo`: what a request has left for a day, because its helper died or its
  own removal failed unnoticed, is gone when a later request runs, unless a cleanup
  failed on it as well. That a request that ends normally leaves nothing is not stated:
  the code does not promise it, since it swallows failed removals.
- `ReadyIsOurs`: a session that is ready has its directories with the right owner and
  mode, and no other helper takes them away. `StrandedAtOwnOnly`: a user's
  directory that root owns is one whose helper is about to give it away, or was when it
  was cancelled, died or its chown failed; no other failure leaves one.
  `RefusalIsClean`: who refuses the root or an existing directory has changed nothing.
  `LoneRefusalHasReason`: a helper alone refuses because a call failed or a directory in
  its way is not as it must be, never over what it made itself or an older layout.
- `OneReader`: no two threads read the helper's frames. `TermBeforeSessionStops`: a
  SIGTERM before the session is never forgotten. `LeavingReaps`: leaving a
  window, or a startup that fails before there is one, ends the GUI, and it leaves no
  helper and no open pipe unless one of the budgets passed. `HelperFollows`: whatever the
  GUI left behind, an authorized helper ends once its stdin is closed.
- `SuccessIsWhole`: a command that succeeds lost no line, unless the join gave up.
  `CommandEnds`: Restic never waits for a pipe nobody reads.

Fairness. `Session`, `FairSpec`: a thread that can run does, and every bounded wait
(`read_frame_fd_deadline`, `_write`, the chunk deadline, the 30 s of a response, the
cleanup budget of `close()`) ends. An operation is assumed to end only when it was
cancelled (`OperationCancelled`): every handler checks the flag, and a cancelled
child is terminated and then killed. Nobody is assumed to cancel, to close, or to
issue a request, and the 3700 s limit of an operation is not assumed to be reached.
In `ChildControl` the main thread, the signal handler and a monitor that is about to
signal are weakly fair; no command is assumed to end and no deadline to pass: what
ends a cancelled command is the SIGKILL of the main thread. In `Repository` each
helper is weakly fair, because every Restic command has a time limit; the lock has
no limit, and that is what `EveryRequestEnds` is about. In `SelectionReview` the
workers and the delivery of their results are fair; clicks, failures and restarts
are not. In `Handshake` both threads and the helper are fair, because every wait in
them has a budget; the user is not, neither in the window nor in the dialog of polkit
(`Authorize`), but once the window is left the application goes on by itself
(`Leave`). In `Stream` Restic goes on while it can write, the reader and
the main thread run, and the GUI need not read. The other modules state safety only.

### Comments the code does not keep

Two runs show one. The other properties below are definitions of the named module;
given to TLC in place of the properties of the named configuration, each is violated.

| Property | Module and configuration | What the code does |
|---|---|---|
| `ExplicitInclusionIsBackedUp` | run `selection_dedupe` | the exclude list is deduplicated by first occurrence (`manifest.py:67`), although the last match decides: with `/boot` and `/boot/efi` both included, the override of the latter, already emitted for the former, is dropped, and `/boot/efi` is not in the snapshot (`README.md:95`) |
| `DeletesOnlyLatest` | run `repository_deletesonlylatest` | maintenance lists and then forgets without the backup lock: a backup that ends in between makes the snapshot an older one (`maintenance.py:58`) |
| `NeverReusesFailedStream` | `Session`, `SessionSafety.cfg` | only a failed read of a frame closes the session; a message that does not decode, a broken chunk sequence or a write timeout leave it open, and the next request uses the stream (`privilege_broker.py:393-396`) |
| `NoSecondRpcWhileRunning` | `Session`, `SessionSafety.cfg` | late progress of a finished operation makes the GUI give up on the running one and send the next, which the monitor takes for a protocol error (`startup.py:310-313`) |
| `ChildErrorNeverSuccess` | `ChildControl`, `ChildSafety.cfg` | the discovery functions of `system_scan.py` catch every exception: an action succeeds after a command was ended at its deadline (`runtime.py:47`) |
| `ProtocolErrorTold` | `ChildControl`, `ChildSafety.cfg` | a registration after the cancellation and the wait loop of `restic_engine.py` raise "cancelled" whatever code is recorded (`runtime.py:178-179`) |
| `SignalsOnlyChildren` | `ChildControl`, `ChildSafety.cfg` | a signal that follows the reaping of the leader may find its number taken; the kernel hands out numbers in turn, so this needs a full turn in between (`runtime.py:172`) |
| `OverrideSparesOtherRules` | `SelectionPlan`, with the `Tmp` tree of `MCSelectionPlan` and the `Etc` of the other | the override of one rule comes after every earlier one and cancels them too (`selection.py:261-262`) |
| `EditsAreReviewed` | `SelectionReview`, `SelectionReview.cfg` | an edit made while a scan is scheduled or runs is looked at by none (`main_window.py:2464-2465`) |
| `BackedUpIsInSnapshot` | `SelectionReview`, `SelectionReview.cfg` | the manifest takes the selection at the end of the backup: a source selected meanwhile is shown as backed up (`README.md:97`) |
| `ReviewIsNew` | `SelectionReview`, `SelectionReview.cfg` | a browse compares with the snapshot read before it started, and a snapshot knows only what the window saw since the one before: old paths are reported as new (`README.md:97`) |
| `BrowsingKeepsPolicy` | `SelectionReview`, `SelectionReview.cfg` | a chosen file that has become a directory becomes recursive when its row is made (`README.md:93`) |
| `RestartKeepsPolicies` | `SelectionReview`, `SelectionReview.cfg` | a user who has cleared every policy gets the sources of the old database back (`cache.py:223`) |
| `ConsolidationForgetsOlder` | `Repository`, `Repository.cfg` | snapshots are ordered by the text of local times with offsets: after the clocks go back the newest is not the last, and consolidation removes it (`maintenance.py:66`) |
| `ConsolidationKeepsCoverage` | `Repository`, `Repository.cfg` | a partial snapshot is kept and a complete one removed; coverage is not checked (`README.md:18`) |
| `ReceiptCounts` | `Repository`, `Repository.cfg` | the receipt counts a list the manifest does not have: 0 (`tests/test_privilege_phase2.py:446`) |
| `RemovesOnlyAfterCrash` | `Credentials`, `Credentials.cfg` | the age of a directory is by the wall clock: after a suspend, the directory of a live request goes (`paths.py:274`) |
| `CloseOnlyWaits` | `Handshake`, `Handshake.cfg` | `close()` holds the lock the reader needs for its next frame, or writes its cancel to a pipe the reader has closed; it raises either way (`privilege_broker.py:508-509`) |
| `SuccessMeansReady` | `Handshake`, `Handshake.cfg` | an error frame with the code `timeout` or `cancelled` ends `events()` normally, and the window reports a session that is ready with a helper that is gone (`main_window.py:912`) |

`ResultAuthentic` and `ImplementsRpc` hold in spite of the two of `Session`: what
these cost is a failed request, not a wrong answer.

Without a run: an error the helper sends between `done` and `navigation-ready` is
refused by the parser of the GUI, so its reason is lost. A SIGTERM in an idle session
raises a flag that `reset_cancellation` drops at the next request, and no property says
otherwise. The two seconds of
the join in `restic_engine.py:371` are shorter than the ten a progress frame may
take: when the GUI leaves its pipe full a backup may be answered without its snapshot
id (`gaveUp` in `Stream`). `ChildProcessError` of `runtime.py:46` shadows the builtin
exception, so that the loop at `runtime.py:121-127` does not catch what `os.waitpid`
raises; the branch is for callers without a process object, and there are none.

## Proofs

Each theorem holds for every value of the constants that satisfies the assumptions
named with it; the instances of the runs satisfy them too, as TLC checks.

`SessionProofs`. From `SessionAssumption` alone (`NoReq` is no request, the three
numbers are positive, `CallbackMayRaise` is a Boolean), for every set of requests,
every number of chunks and every pipe size. `TypeOK` is not inductive: that `stragglers` holds ids (`Late`) and
that `op` is updated at a request needs `hreq` to be one, which needs the same of
every request frame in `toHelper`. `Identified` says this, together with the
connection between the requester's place and the pending call. `Typed`, their
conjunction, is preserved by the steps of the requester, the closers, the helper
and the monitor (one lemma each, one step per action). What a reader takes from a
pipe is described once, by `TailShifted` and `RestShifted`: what remains holds,
some places later, the frames that were there, and garbage.

For the refinement, a step matters to the RPC only through its effect on requests,
and the lemmas `RequesterEffect`, `CloseEffect`, `HelperEffect` and `MonitorEffect`
sort all steps into eight effects. The invariant `IInv` adds to `Typed`

- `AtMostOnce`: the first frame of a request exists in one place only, unsent, in
  the pipe, in the helper's assembly, or spent on an operation. This is what makes
  an execution unique although frames may be lost.
- `Alone`: the running operation is the helper's.
- `Authentic`: every terminal frame in `toGui` and `out` tells the status its
  operation has, and so does every outcome already returned. That it stays true
  needs statuses to be final, which is `AtMostOnce` again.

`EffectPreserves` shows that no effect breaks it, `EffectRefines` that each effect
is a step of `Rpc` or a stutter. `AnswersAreAuthentic` and `SessionImplementsRpc`
follow.

`RequestNeverLostAlways` needs to know where every frame of the exchange is, since what
excludes a lost request is that no frame of another one is left when it begins. The
invariant `Traced` says so of an intact session (`Intact`: not closed, helper alive,
stream never given up) whose answer pipe has no damaged frame. It is then in one of
five stages: `AtRest`, `Asking` (request frames in the pipe, none read), `Taking` (the
helper has read the first ones), `Serving`, `Answering`. `Carries` says that the
request frames in a pipe have the numbers of an interval, each once at most;
`Underway` that the answer frames written and not yet read are in the pipe, each once.
`Orderly` adds that the monitor only reads while an operation runs, which is why it
never meets a request. Nothing is said once the session was disturbed: `Intact` never
becomes true again (`IntactBefore`), and a damaged frame stays in front of the reader
until it gives up (`TroubleStays`). The lemmas `SendExchange` to `MonitorExchange`
follow one exchange from stage to stage.

`ChildProofs`. From `ChildAssumption` alone, for any number of commands, signals and
group numbers. `IInv` adds to `TypeOK`: `Registered` (the registry holds the current
group exactly while the main thread owns a child), `Started` (commands not started
yet have no process), `Running` (only the current command runs, only at certain
places, and what is left of it after each step of a termination), `Ended`, and
`Caused` (a signal is only sent while the cancellation is recorded, a success only
given in its absence). `CancellationMissesNoChild` needs `Registered` for the branch
of `RegisterClaim` that never happens; `CancellationIsTold` needs `Caused` and that no
command runs after the response. `KillEffect` is the one fact about SIGKILL.

`RepositoryProofs`. From `RepositoryAssumption` and `PartsAssumption` (the files of a
state are a nonempty sequence), for any helpers, domains, files and number of
requests. `IInv` adds to `TypeOK` that a helper that is not idle serves a request of
its own which has no answer (`Serving`), that each handler has its phases (`Kinds`),
that directories come first, that a helper between its lock and its answer holds the
lock of its domain, that the files before its `next` are its own, that a Restic that
has started read lists of its own request, and that a snapshot belongs to a backup
that was asked for. `OneWriterAlways` is the lock; `SnapshotIsOnePlanAlways` needs
the lock and the files together: no other helper can have touched them since.
`RepositoryTypeCorrect` is a part of it. `Invariance` has one lemma per action;
`NextRefines` maps `Begin`, `ResticSaves`,
`ForgetOne` and `Ends` to the steps of `Archive` and every other step to a stutter.

`EngineProofs`, what surrounds one Restic engine. First `Credentials`, from
`CredentialsAssumption` alone, for any requests and any number of rewrites of an
external file. `IInv` adds to the types that only a request
with a directory has a password, and `ReadIsPinned`: what a request has read since it
opened the file is what the file holds unless it was written meanwhile, and what was
found unchanged the file once held. `SecretIsOneMoment` is inductive given both.
`StaleSecretsGoAlways` has a [] below another one: once the directory of a request that
is over is old and a request has not arrived, `Doomed` holds of the two and every step
keeps it (`DoomedStep`), so that the directory is gone, or a cleanup failed on it, or it
is listed to be removed, or the request will never run.

Then `Stream`, from `StreamAssumption` alone, for any outputs, page and pipe sizes. It
says that a page is not empty, that the pipes hold something, and that Restic lists an
entry of a directory once, as names in a directory are distinct. `StreamInv` says where
every line is: what was taken, the pipe and what Restic has left make up what it prints
(`Ordered`); a reader that has ended saw the end of the output of a command that has
ended (`Finished`); unless something was refused, no line taken was too long, a summary
among them was seen or is being told, and the heap holds the first keys of the entries
taken, as many as the page needs (`Kept`, `FirstOf`); and a success was given after the
reader had ended, or after the join gave up (`Judged`). `KeepsFirst` shows that a heap
of the first keys stays one with the next entry, `PageOfFirst` that the page is the same
cut out of the first keys or of all. Both need a greatest element of a finite set
(`MaxIsGreatest`); without induction over an operator, `GreatestExists` takes a smallest
set that has none, which exists because strict inclusion of finite sets is well-founded.

`HandshakeProofs`. From `HandshakeAssumption` alone (the number of pages is a natural
number, the pipe holds a frame), for any number of both. `IInv` adds to the types
`Claimed` (who reads or finalizes has the reader, the main thread holds the lock
exactly while it waits or drains, and it drains only while the worker is not the
reader), from which `OneReader` follows; `Begun` (there is a window, and a worker,
only after the ready frame, so only the main thread ever hands the reader over); and
`Remembered` (the flag a SIGTERM raised is never lowered and keeps the helper out of
its session). The steps of a reader and those of the main thread are each described
once, by `ReaderMoves` and `MainMoves`.

`ProvisionProofs`. From `ProvisionAssumption` alone (no user is root, no helper is of
both kinds), for any helpers, preparers and users. Every step of a helper leaves a
directory as it is, puts its owner or mode right, or makes it where its parent exists
(`Effect`); so what is as it must be stays so (`EffectKeeps`). `Progress` says that
behind a helper's place in its program everything is as it must be, for the root that
is mounted, or was removed by its user; at the end it is `ReadyIsOurs`. It needs
`Seen` (a disk that is mounted later was admitted by nobody before) and `Starting`
(before the first change the place is the first). `StrandedAtOwnOnly` is
inductive given `Effect` and `OwnStep`.

Two more invariants are about a helper that met no other one alive. `CleanInv`, for
`RefusalIsCleanAlways`: nothing is touched before the root is opened (`Untouched`);
while such a helper runs no other does (`Solitary`); and what it found safe in its
preflight stays safe, but for the directory it has made and is giving away
(`StaysSafe`), so that it does not refuse later what it has itself changed. `Present`,
for `LoneRefusalHasReasonAlways`: on a root that stays mounted and approved what was
found or made is still there. `LoneRefuses` then goes through the steps that refuse with
no failed call and finds the unsafe directory of each.

`SelectionPlanProofs`. From the assumptions of `SelectionRules` and `SelectionPlan`, for
any tree, rules and rows. `TreeAssumption` says that the paths above a path are a
chain; `NameAssumption`, that a component of a path is one of what is below it;
`DirsAssumption`, that only a directory has something below it; `HardRootAssumption`,
that no rule matches a proper ancestor of a hard root. The last holds because hard
roots are entries of "/" and no rule matches "/" (`profiles.py:21-47`, `99-105`); were
it otherwise, an override of a later rule could bring a hard root back.
`ReadAssumption` says the same of the paths as Restic reads them. `RequestAssumption`
says that the metadata files are files below the backup root. Only the types
need an induction, the rest follows from lemmas: the resolver (`RuleCovers`,
`OneRoot`, `UnselectedAbove`), the sources split around the backup root (`SplitAvoids`,
`PieceFacts`: a piece lies below a selected source and never reaches into the backup
root), and the exclude list (`NegatedLines`: only an override is negated; `RejectedUnlessOverridden`: a line
that rejects a path is only undone by an override in a later group that Restic reads as
a path around it; `ManualLinesKept`: removing duplicates never drops a manual
exclusion). `RefusedForNameOrSizeAlways` needs of the sources that they are selected and
of the exclusions that they lie below one.
`ManualStaysOutAlways` and `HardStaysOutAlways` combine them; `UncheckTakesEffectAlways`
follows the branches of a click.

`SelectionReviewProofs`. From these assumptions and `ReviewAssumption` (what comes and
goes and the sources of older databases are in the tree, none of the latter in a hard
path or both checked and unchecked; the numbers are positive), for any tree and any number of
snapshots and timers. The types (`Typed`) include that snapshots are numbered without
a gap and that the manifest in memory is the stored one. `Exact` says of a scan that
nothing disturbed that it has the rules and the manifest of now, and has found exactly
what there is in the directories it has done; when none is left this is
`UndisturbedReviewIsExact`. `OnlyTheUserChoosesAlways` needs `ChosenAsFile`: a path
chosen as a file was one to begin with, or is a frozen folder of a database not yet
opened, and directories stay directories; `OthersKeep` sorts the steps that write a
policy into edits, browses and restarts, `FrozenEnds` says that the first opening leaves
no frozen folder.

Only model-checked: the liveness properties (`HelperEnds`, `EveryRequestReturns`,
`CancelledActionEnds`, `RefreshEnds`, `EveryRequestEnds`, `LeavingReaps`,
`HelperFollows`, `CommandEnds`). Fairness is about when an action is enabled, and ENABLED is out of the
prover's reach. Every invariant and every other property of the passing runs is proved.

## Plan

In this order:

1. The one-shot broker with the fixed helpers, composed with `ChildControl`.
2. An abstract action (commands one after the other, one outcome) that `ChildControl`
   and `Stream` implement.
3. Restore and package installation with partial failure; the task registry.

## Not modelled

- One-shot broker, restore and package installation: planned above.
- Size scanner, inventories and inspection: they read and report; their pages are
  separate requests, so a page is of its own moment.
- Validation, theme, telemetry, packaging: pure functions without a protocol,
  presentation, build files.
- The parts the other components leave out are named in their notes in
  `PROJECT.json`, and above under each module.
