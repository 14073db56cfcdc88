# nasdedup: a verification project

`nasdedup` is a daemon that finds duplicate video files on a NAS: it watches
the shared folders, waits until a file has settled, groups files by size and a
sparse hash, compares files of one group byte by byte, and records the result
in SQLite. At this commit it only reports (`DryRunDeduper`); the code for
sharing extents is not wired in. Paths below are relative to `crates/`.

These modules model what makes that hard: several threads, an administrator
and the users of the NAS change one table and the files it describes while a
single worker reads for minutes and writes afterwards; a kernel queue, a
timetable of walks and a flag are to make sure that nothing is overlooked; and
all of it has to stay out of the way of whoever watches a film.

## 1. Inventory

| part | state | operations | met by |
|---|---|---|---|
| row store (`db`, one SQLite connection behind an actor thread) | `files`, `content_groups`, `meta`, `scan_progress` | upsert, CAS transition with secondary updates and a group operation, queries, presence, purge, unskip, requeue | all threads |
| worker (`core/worker.rs`, `core/pipeline`, `linux/daemon/mod.rs`) | the row it took, descriptors | take a due row, run one step, apply the outcome or back off | store, files, backend, governor |
| comparison backend (`core/dedupe.rs`) | none | compare two descriptors, eleven kinds of outcome | worker |
| watcher (`linux/lich/watcher.rs`, `core/handler`) | merged events (`Gom`), half renames (`Ghep`), retries | statx, upsert, mark missing, rename, ask for a walk or a rescan | store, scheduler (walk queue, `rescan_needed`) |
| scheduler (`linux/lich`) | due dates, the single scan slot `CoScan`, a captured flag generation | supplementary walk, delta reconcile, presence and remote scans | store |
| initial scan (`linux/daemon/khoi_dau.rs`) | cursor in `scan_progress` | phase A inserts, phase B wakes or settles | store; runs on the worker's thread before its loop |
| governor (`core/throttle`, `window`, `busy`, `linux/lich/mau_tai.rs`) | token bucket, hysteresis, samples of the load, manual pause | ask for tokens, may heavy work run now, sample | worker, scans, a sampler thread |
| daemon process (`daemon/platform/linux.rs`, `linux/control.rs`, `db/actor`) | control socket, the channel of the database thread, the stop flag | start, probe and bind the socket, serve `pause`, stop and join the threads | every thread |
| recovery (`core/recovery.rs`) | a journal nothing writes yet | decide what to restore | - |
| commands (`daemon/cmd`) | none | `unskip`, reports, `check` | store, from another process |

What makes it hard:

* Read first, write later. A statx result is upserted after other threads have
  written the row; the worker decides on a row, on its canonical row and on two
  open files, and applies the decision by a compare-and-swap that compares
  only the state.
* One transaction, several rows. A new group moves the candidates with it;
  each of them may have changed since it was read.
* Rows that are lost and come back (`missing`, `gone`) resume the state they had.
* Deadlines. `next_ready` returns rows whose `ready_at` is not NULL and past:
  a queued row without one is invisible, and nothing reports it.
* Retries and regrouping that might go on for ever; a heavy window that opens
  and closes; errors the backend reports per pair, per file or per volume.
* Crashes: the events under way are lost, the rows stay. A flag in `meta`
  that two threads read and write without a compare-and-swap.

What must hold, per part: the store keeps groups and rows consistent; the
worker calls two files equal only if it compared those versions, forgets
nothing, never stalls and never spins; the watcher and the scans leave no
overwritten file described by its old content; a loss of events is remembered
until a walk that began after it is complete; no walk concludes from what it
did not see; the timetable starves nobody and lets one thread write the
progress of scans; the bucket keeps its rate and the brake its bounds; the SQL
statements are the store the tests of the pipeline run on. `PROJECT.json` lists
the hazards at their lines, with the properties that watch them, and for those
without a property the reason.

## 2. Modules

| module | models | checked by | proved |
|---|---|---|---|
| `RowStore` | tables `files` and `content_groups` as operators: what an upsert, a transition, a group operation make of a row or a group, and the queries | through `Pipeline` | through `Pipeline` |
| `Pipeline` (extends `RowStore`) | files and writers, watcher, scans, commands and the worker around those tables | `writes`, `queue`, `tables`, `live` | `PipelineProofs` |
| `Verdicts` (extends `MCPipeline`) | the pairs of files told apart: two history variables beside the steps of `Pipeline` | `writes` | - |
| `PipelineClaims` (extends `Pipeline`) | what comments and documents say and the code does not do | section 3, last table | - |
| `Watcher` | from a change on disk through kernel queue, `Gom`, `Ghep` and channel to the row | `watch_files`, `watch_all` | `WatcherProofs` |
| `Walks` | the five walks over a root: loop, handlers, guards, cursor, threshold | `walks`, `forgotten` | `WalksProofs` |
| `Scheduler` | due dates, floors, window, scan slot, naps | `schedule` | `SchedulerProofs` |
| `Repository` | what the trait promises, as `MemoryRepository` keeps it: the abstract store | as the target of `agree` | - |
| `Sqlite` | the same calls as the SQL statements execute them; implements `Repository` | `agree` | `SqliteProofs` |
| `RescanFlag` | `meta.rescan_needed` at the grain of single reads and writes | through `Daemon` | `RescanFlagProofs` |
| `Daemon` (extends `RescanFlag`) | processes, control socket, database thread, start and stop | `daemon` | `DaemonProofs` |
| `Governor` | bucket, detector, sampler, pause, and the worker and walk that obey them | `brakes` | `GovernorProofs` |

`MCPipeline`, `MCWatcher`, `MCWalks`, `MCScheduler`, `MCSqlite` and `MCDaemon`
hold the instances for TLC: functions a `.cfg` cannot write, symmetry sets and
a view. Definitions marked
`Mutant:` are plausible mistakes (a dropped guard, a missing reset); no run uses
them, they show that the property next to them can fail.

The pipeline is cut where the code is: `Watcher` ends at the upsert of a row
that `Pipeline` takes over; `Walks` says which files a walk reaches and may
conclude about, `Pipeline` what a single late write of it does; `Scheduler` says
when, `RescanFlag` and `Daemon` what is remembered between; `Governor` takes
worker and walk as what asks for tokens. Between them a module stands in for
the next by a free choice (a walk's length and outcome in `Scheduler`, `Faults`
and `HeavyAllowed` in `Pipeline`) or by an input set.

### Pipeline

`rows[f]` is the row of `files` that belongs to file `f`, or `NoRow`. Of its
columns `state`, `prev_state`, `ready_at` (NULL, past, future), the
fingerprint, the `enq_*` fingerprint, `sparse_hash`, `group_id`,
`skip_reason`, `attempts` and `heavy_wait_since` are kept; `scope`,
priority, `last_error`, `full_hash` and `magic_ok` are dropped because no
guard modelled here reads them. Of the limits `max_size_group` decides something:
the query for candidates returns no more than that (`Shortlists`), those that have
a hash first and then the oldest; which are the oldest is left open. A fingerprint is a version number: local roots
include `ctime`, and every write gives one the file never had. `groups` is
`content_groups`; its index is the id, so "greater id" has its meaning.
All files are in one domain and of one size, the only case in which they meet.
`history[f]` are the contents `f` has held, so `Body(f, v)` is what version
`v` was: the model can say whether a claim about a version is true.
`pending[f]` are events on their way to the watcher; `seen[t]` is what a thread
has statx'ed and not written yet; `work` is what the worker holds, in the
phases settle, hash, backfill, compare and commit. `compared` is a history
variable: the comparisons made, the versions, the verdict, and whether either
file was written while it ran.

* `Take(f, heavy)` is `worker::mot_vong` up to the first long read:
  `next_ready`, then `settle`, `sized` or `verify` as far as they only look at
  the store and open files. `FinishSettle`, `FinishHash`, `FinishBackfill`,
  `FinishSame`, `FinishDiffers`, `FinishError` are the ends of those reads.
  `Commit` is `Repository::apply`: CAS, secondary updates, group operation,
  one transaction. Other threads and writers step in between.
* `WatchTouched`, `WatchRemoved`, `WatchMovedOut` take one event and look at
  the disk; `WatchCommit` is the upsert that follows.
* `WalkSee`/`WalkInsert` are one file of the initial scan or of a
  supplementary walk, `ScanPhaseB` the end of the initial scan,
  `ReconcileSee`/`ReconcileCommit` and `PresenceSee`/`PresenceCommit` one file
  of those scans. `PresenceFinish` is atomic with the walk's missing the file:
  the SQL refuses rows updated since the walk began.
* `Unskip`, `Purge`, `Requeue`, `Expire` are one transaction each.
* `Write`, `MoveIn`, `Vanish`, `Return`, `Crash` are the environment, `Age`,
  `FallDue`, `Overdue` the clock. A write while the worker reads the file
  needs `"tear"` in `Moves`; then a hash or a comparison may see either
  content, or a mixture.

Choices left open: the verdict of the pre-filters and of the magic check, which
file is the oldest (`mtime` order is the user's), the failures of a step
(`Faults`), whether heavy work is allowed (`HeavyAllowed`). Merged: `Take`
reads the store and the disk in one step; the boot scan, the supplementary
walk, reconcile and presence share one slot of `seen`, as `CoScan` makes them
take turns. Left out: the `Modified` event (it only defers `ready_at`),
`user_undo` (read but never written outside tests), the group operations `Join`
and `Leave` (unreachable), errors of the store itself. A crash is modelled
after phase A. The attempt counter saturates at its limit.

### Watcher

The disk is `at` (path to inode), `dirs`, `ver` and `touched`; `raw` is the
kernel's queue. `User(op)` is one operation of a user with every event inotify
emits for it. `Turn`, `LastTurn` are a round of the reader (`vong.rs`):
translate a batch, pair rename halves (`TakeItem`, `Batch`), merge per path
(`Gather`, `Merged`, `MayReplace`), hand it on, flush what is overdue. `Take`,
`StatX`, `Settle` and `Handle` are the applying thread (`xu_ly`): it takes an
event, asks statx (once or twice), and executes the upsert, mark or rename with
the stale row at the path cleared first. `QueueAgain` is the retry list,
`Count`/`Upsert` the ceiling with its count that is cached for a second,
`Walk` and `Reconciled` what repairs from outside. Assumed: rows restored from
`missing` may overshoot `max_pending`, as in the code. The halves of a rename
are at most 2 s apart unless `Late`. Events in the pairing window at stop are
lost; `Quiet` exempts that, the reconcile finds them. The overflow of the queue
of directories (4096) is not modelled.

### Walks

A path is a tuple of numbers, so the order of the walk is the lexical order of
the code (`Before`), and a directory comes before what is in it. `Begin` is a
job of `viec.rs` or `khoi_dau.rs` with the handler it makes; `Open` is
`opendir`; `Visit` is the loop at the next entry with the handler `Handle`
chooses: `Scan`, `Reconcile`, `Witness` (presence) or `See` (remote).
`Hooked` is the place where `xong_thu_muc` is called: with the outermost
directory the walk has left. `StatxFails`, `ReaddirFails`, `Cut`, `EndDirty`,
`EndUnmounted`, `StoreFails` and `Restart` are every way a walk ends without
`Through`; `SaveBatch`, `Abort` and `Drop` what the handlers do then.
`FinishInitial`, `FinishExtra`, `FinishReconcile`, `Conclude`, `Blocked` are
`xong_root`. `GuardPasses` and `MayExpire` are the guards of the presence
session, with the percentages as constants. The scheduler's date of the pass
(`moc`, from `ghi_moc`) is set in the same step. `steady` is a history
variable: the files that have been at their place since the walk began.
A root whose last file was deleted is never concluded about (below).
Left out: the hour by which `nguong_reconcile` steps back (the model has no
clock skew to need it); a walk of a remote root beside the boot's initial scan;
an abort that fails itself. The finish guard `updated_at < scan_id` is
`walk.touched`; a file moved in has a new ctime.

### Scheduler

`age[j]` is the time since the job's last pass, as `LanCuoi` dates it. `Wake`,
`PutOff`, `RunShort`, `StartPass`, `EndPass`, `Sleep` are `mot_vong` job by job
in the order of `Viec`; `EndPass` covers a pass that was concluded, cut or did
not decide (`ghi_moc` dates the last half a period back). `StartExtra`,
`EndExtra` are the queue of directories. `Lose` and `HonourFlag` are the rescan
flag with its floor (`ton_trong_quet_lai`). The jobs that only tidy the database
(checkpoint, cleaning, sampling) are one job. Whether presence concludes after
the window closed is left open. Time is in ticks: only the order of naps,
floors and periods counts.

### Repository and Sqlite

One action per call of the trait, with the same names in both modules. In
`Sqlite` a call is a sequence of statements inside a transaction, each an
operator on the tables the one before it left (`OnConflict`, `CasUpdate`,
`Uncrown`, `Constraint`, `GroupOp`), a row has the id `1 + max` in use, the
presence session is a pair of temporary tables, and an error rolls back. In
`Repository` the tables are values behind one mutex and ids come from a counter.
`Memory == INSTANCE Repository WITH ...` maps rows to rows, ids to the number of
the insertion (`births`, a history variable), and the session's tables to the
pair the memory keeps; `ActsAsMemory` is `Memory!Spec`, `SameAnswers` says the
two answer alike. A step of `Repository` is judged by the call that was made, whose
name and arguments are the variable `call`. `Hurried` says that a step ends before the row it holds is
purged: without it the id may lead to another file (`reused_id` below). Left out:
priority, attempts, `enq_*`, `nlink`, uid, journal, events, volumes, meta, notes,
the states `deduped` and `failed`, and the order and limit of the candidates. A path
is its own text: `path_to_text` (`db/row.rs:46`) replaces what is not UTF-8, so that
two such names may become one path in the table and stay two in the memory. A patch that names an unknown group is
refused by SQL's foreign key and not by the memory; no caller makes one.

### RescanFlag and Daemon

`RescanFlag`: `Lose` is the read half of `dat_quet_lai(true)` and `Raise` the
write half; `Begin`, `Cut`, `Done` follow `viec.rs::reconcile`; `Look` and
`Clear` are the read and the write of `xoa_quet_lai_neu_khong_doi`. `loss` and
`raced` are history variables. A restart keeps the flag.

`Daemon` puts these steps into a running process. A process is `Start`ed as
`run` or `scan`, opens the database (`OpenDb`, which comes before the socket),
probes, removes and binds `control.sock` (`Exists`, `Connect`, `Unlink`, `Bind`),
runs its threads and, told to stop, joins them, checkpoints and removes its
socket; it may be killed anywhere. A thread `Ask`s by putting a job into the
channel of the database thread (`Send`, room for `QueueCap`), which `Execute`s
one at a time, or `Fail`s it; a caller that is gone is no obstacle. `control` is
the thread that serves one client and hangs up. A second daemon that got past
the socket is there as a process, without threads. `pause` reaches the local
governor only. A scan skips the checkpoint after an error and removes the
socket even if another process bound it meanwhile (`two_daemons`). A panic of
the database thread is not modelled.

### Governor

`tokens`, `stale` are the bucket as the code keeps it (refilled only when
somebody asks), `meter` is a history variable: a leaky meter of what was
granted. `load`, `held`, `mixed` are the disk as others use it, in three
levels; a sample shows some level between the lowest and the highest since the
last one. `Sample`, `SampleFails` are `vong_lay_mau`, `Fed` is
`BoPhatHien.nap`, `Brake` is `should_pause`. `AskBlock` is one turn of
`acquire`'s loop, `Read` the block that follows, if the brakes allow it;
`StartDir`, `KeepPace`, `GiveWay`, `NextEntry`, `AskEntry` are a walk's pace
(`nhip.rs`): at a directory it sleeps for what is left of the pace (`since` is the
age of the last directory), and then gives way for as long as its patience lasts.
Which hours belong to the heavy window is free choice in `StartFile`. Only the
local governor: the worker uses it for remote files, too. A sampler is there; without
a device to sample (`mau_tai.rs:48`) nothing feeds the detector, and the bucket is the
only brake. The clocks are
monotonic (`busy.rs` reads the wall clock). The assumption that a request is at
most the burst is what `Config::validate` ensures for the default block; a
larger one would be clamped, and more be read than is paid for.

## 3. Runs

| run | asks | states |
|---|---|---|
| `writes` | `TypeOK`; `VerifiedSound`: a proven row was compared in the version it records; `HashSound`: a stored hash is that of the stored version; `NothingForgotten`: at rest every file is known as it is; `NoMissedDuplicate`: and no two equal ones are both called unique; `NeverRecompare`: two files told apart are not compared again until one of them starts anew | 1.73 M |
| `queue` | `SettlingHasDeadline`: no queued row waits without a deadline; `ClaimsTracked`: an outdated claim has its event on the way | 2.79 M |
| `tables` | `PointerExists`: groups point at rows that exist, through every operation on the tables | 132 k |
| `live` | `Converges`: the queue drains although reads are torn and reconciles go on; `Heals`: they repair what a crash lost | 410 k |
| `watch_files` | `TypeOK`; `NoGhost`: no live row is left of a file that is gone; `QueueBounded`: the ceiling holds within the second its count is cached | 147 k |
| `watch_all` | `NothingLost`: when all is applied every file of interest has its row, or a reconcile or a rescan will find it | 63 k |
| `walks` | `TypeOK`; `CursorSafe`: the cursor never passes an unrecorded file; `Recorded`: nor does the threshold; `SessionFreed`; `TriedAgain`: a pass without a conclusion is not dated as one; `NoFalseLoss`: nothing that was there all along is taken for lost | 1.09 M |
| `forgotten` | `Forgotten`: a deleted file is found out and forgotten at last, while the root keeps another | 90 k |
| `schedule` | `TypeOK`; `OnTime`: no due job waits longer than a nap; `OneWriter` of `scan_progress`; `Paced`: passes keep their floor; `Walked`: what was put off is done | 383 k |
| `agree` | `TypeOK`, `SameAnswers`, `ActsAsMemory` (refinement) | 191 k |
| `daemon` | `DaemonTypeOK`; `LossRememberedButForRace`; `Reachable`: the socket leads to the process at work; `StopEnds`: SIGTERM ends it; `MadeGood`: a loss of events is made good | 178 k |
| `brakes` | `TypeOK`; `RateKept`; `BrakeReleased`; `GivesWay`; `Stops`: nobody waits for tokens, or in front of a busy disk, for ever once SIGTERM has come | 1.14 M |

All hold. `CHECK_DEADLOCK FALSE` in all but `schedule`: with bounded writes,
operations and starts the systems come to rest. Symmetry permutes files and
contents, in `writes` and `tables` only. `agree` has a view that leaves out the
last call, which the next state does not depend on.

### Bounds

* Pipeline. `writes`: three files, one written twice, three contents of which
  two share a hash, writes that tear a read, comparisons that the backend refuses. Two files are a pair, the smallest
  instance of every race on a group; the third is the second member or the
  second group of one hash. The limit of the query is two, as many candidates as
  there can be. `NeverRecompare` holds as well
  when all contents share one hash, so that a file passes two groups, and with every
  move that changes who leads a group (the instance of `compared_again.cfg`, with
  `HistorySpec` and `Moves = {"vanish", "return", "crash", "expire", "purge",
  "requeue"}`: 381 k states). `queue`: two files and one content (only versions
  matter), the boot scan with phase B, a disappearance, all eleven failures, in
  and out of the window, two attempts so that both branches of each counter
  happen. `tables`: two files of one hash, every administrative and scheduled
  operation, two events under way. `live`: a crash,
  torn reads and reconciles, without failures: a file that fails to settle, or is
  parked, is tried again after every reconcile. Without reconciles the queue drains
  with failures, too (`live.cfg` with `FairSpec`, `Moves = {"crash", "tear"}`,
  `Faults = {"io", "ineligible", "too_large", "unsupported", "fatal"}` and
  `Converges` only: 80 k states); the failures that the code repeats without a limit
  are in the table of claims below.
* Watcher. `watch_files`: three operations, batches as large as the events, a
  queue of one row, an excluded directory. `watch_all`: two operations of any
  kind, directories included, batches of 4 with 2 per path, two failing statx
  calls, overflow, the root gone, stop. Two operations on one path are every
  pair of events that can be merged, reordered or paired wrongly; the third is
  the one that arrives between.
* Walks. Three files in nested directories: one before, in and behind the
  directory where something happens. Two faults, since the first may leave a
  state (a cursor, a session, a book) the second one misuses. One user
  operation. `forgotten`: three operations, enough to empty the root, and one fault. `NeedPct` 60 and 75 of three files put the guard between one and two
  missing files, and between none and one.
* Scheduler. Four jobs, periods 3, 6, 7 and 4 in a day of 7, a window of two
  ticks, floor 3: periods that do and do not divide each other and the day.
* Stores. Two inodes, a local and a remote root, three rows ever inserted (so
  that an id is handed out again), one group more than the start, eight calls;
  starts from an empty library and from one with a group.
* Daemon. Two processes, two starts, a channel with room for one job (so that a
  second sender waits), one loss, one cut, one error.
* Governor. Rate 1, burst 2, blocks of 2, windows 1 and 2, one failed sample, which
  stands for late ones, and a patience of two, so that a walk gives way more than
  once and SIGTERM may meet it there; the proofs below cover the rest.

### Fairness

`Pipeline`'s `FairSpec`: weak fairness of `Watcher`, `Walk` and `Finish` (a
thread goes on with what it has begun), of the passing of time for each file (`Age`,
`FallDue`), and strong fairness of taking some due row in the heavy window: the
window recurs daily, and `next_ready` returns a row when one is due; which one, is
not assumed. `HealingSpec` adds that the delta
reconcile meets each file again and again (six-hourly). Nothing obliges a user
to write or a fault to stop. `Walks`: the scheduler comes back to every job, a
walk goes on, the share comes back, the retention passes; nothing is assumed of
the watcher. `Scheduler`: the thread runs, walks are finite. `Daemon`: a process
goes its way, a job is executed or fails, a walk notices the stop flag, the
control thread answers; strong fairness of hanging up (the socket has a timeout)
and of sending (whoever waits for room gets it). `Governor`: time, worker, walk
and sampler go on.

### What the conditions leave out

`NothingForgotten` says "at rest" because a failed row may keep an old
fingerprint, so it is checked without failures but a refused pair. `ClaimsTracked` supposes that
no event is lost; `Heals` is for the case that one is. `NoMissedDuplicate`
leaves out that a file is overwritten, and that one vanishes: the next arrival
takes over the group of a lost leader uncompared, though a copy of it may lead a
later group (`writes.cfg` with `Moves = {"vanish"}`), and a lost file that
returns is compared with nothing (`UniqueIsUnique`). It also leaves out that more
files have one size than `max_size_group` and the one that asks: the equal one may
be cut off (`cut_off`). `NeverRecompare` ends where a file starts anew, because then
its earlier verdicts are not on record any more: an upsert with another fingerprint,
be it an older one that comes late, and the refusal of a comparison send it back,
and it may be compared with the same file again (`compared_again`). `Forgotten`
leaves out a root whose last file was deleted: a pass that sees no file never
concludes (`phien.rs:282`, `remote.rs:132`), since that is what a share looks like
when it is not mounted; the rows stay live until a file is there again
(`forgotten.cfg` with
`MaxFaults = 0` and `ForgottenWithTheLast`). The code means it so. `LossRememberedButForRace` leaves out the
window `rescan_race` shows. `HashSound` leaves out `unskip` (above), and a file
that returns to its path: `goc_mat_tich` (`verify.rs:378`) marks a canonical row
that is missing already as missing once more, with `prev_state` missing; its
file returns, the row settles with its old hash kept, and when the file was
written before it settled, settling gives the new fingerprint the old hash
(`Moves = {"vanish", "return"}`). It also leaves out that a path is moved in
while rows are purged: without AUTOINCREMENT (`schema.rs:17`, `schema.rs:63`)
the id a late insert names may be another row's by then. `NothingForgotten`
leaves out an error of reading (`"io"`: a row that settles fails with the old
fingerprint) and a file found ineligible (`"ineligible"`: settle skips a row for
the version it opened, though an upsert brought a later one meanwhile and took
its event). `NothingLost` and `NoGhost` suppose that rename
halves come within 2 s and that statx of a rename's source does not fail. With
the fault `unmount_at_open` added to `walks.cfg`, all its properties hold but
`Recorded`: a root unmounted between the check and `opendir` and mounted again
before the end moves the threshold past a walk that saw nothing.

### Claims that do not hold

Comments, documents and tests say more than the code does in places. In each line
TLC finds the behaviour, run with `tlc -config <name>.cfg <module>`. Where a line
names the `.cfg` of another one, or of a run, its constants and its property are
to be replaced as it says: In
`MCPipeline`:

| cfg (property) | claim | what happens |
|---|---|---|
| `transitions` (`DeclaredTransitions`) | `RULES` declares every transition (`state.rs:3`) | `distinct -> hashed` (`group.rs:215`), `hashed -> sized` (`verify.rs:317`) and `settling`/`sized -> failed` (`worker.rs:126`) are not in it |
| `canonical_overwritten` (`VerifiedMatchesCanonical`) | a verified row equals its canonical row (specification, table of states) | an overwritten canonical file of equal hash takes its group back uncompared (`group.rs:64`); `bau_lai_canonical` has no caller |
| `pair_retried` (`PairFailureMakesCanonical`) | a refused pair: the file becomes canonical of a new group (`errno.rs:9`, `verify.rs:316`) | it goes back to `sized`, finds the old group, is refused again, for ever |
| `max_wait` (`MaxWaitServes`) | past `max_wait` heavy work runs outside the window (`sized.rs:131`) | `allow_heavy` ignores the wait (`daemon/mod.rs:169`): the row is put back |
| `torn_comparison` (`ExactVerdict`) | verified means every byte was compared (`verify.rs:3`) | the fingerprints are not checked after the comparison (`verify.rs:134`) |
| `max_wait`, with `HeavyAllowed = {TRUE}`, `Faults = {"busy"}` (`GivesUp`) | `MAX_ATTEMPTS` failures make a row `failed` (`state.rs:9`) | errors of the backend are counted, not limited (`verify.rs:295`) |
| `report_only` (`ReportNoVerifyParks`) | without `report_verify` the row is parked (`dedupe.rs:105`) | it is deferred and taken again for ever |
| `unskip_failed` (`UnskipRevives`) | unskip revives a failed row (`worker.rs:129`) | only a skipped one (`admin.rs:119`) |
| `present_but_missing` (`MissingHasEvidence`) | missing needs evidence (`state.rs:40`); a changed row fails the CAS (`worker.rs:63`) | the file came back, the state did not change, the late mark wins |
| `canonical_overwritten`, with `Hashes = {h, k}`, `HashOf <- OneToOne` (`MemberHasGroupHash`) | a member has its group's hash; a changed candidate is skipped, it alone (`apply.rs:29`) | its CAS is skipped, the group operation is not |
| `unskip_stale_hash` (`HashSound`) | a stored hash must still describe the file (`sized.rs:23`) | unskip keeps the hash, settling refreshes the fingerprint; a canonical row marked missing twice (`verify.rs:378`) gets there too, see below |
| `moved_in` (`NothingStuck`) | a supplementary walk spares its files the wait for reconcile (`bo_sung.rs:3`) | old files get no deadline, and nothing wakes them |
| `cut_off` (`NextOneCompares`) | a distinct file keeps its hash, and the next file of its size is compared with it at once (`group.rs:114`) | only with the first `max_size_group` candidates (`lookup.rs:71`): an equal one behind them is not looked at, and both are unique |
| `compared_again` (`NeverCompareAgain`) | a pair found different is never compared again, no table of such pairs is needed (`verify.rs:188`, `verify.rs:204`) | a refused comparison sends the file back to `sized` (`verify.rs:317`), from where it begins with the first group of its hash |
| `cut_off`, with `MaxWrites <- OnlyFirst`, `MaxSizeGroup = 2` (`UniqueIsUnique`) | a file with no further group to try is the only one of its content (`verify.rs:226`) | its twin was missing or overwritten at that moment; when that one is back nothing compares the two, and both are unique |

Elsewhere:

| cfg, module (property) | claim | what happens |
|---|---|---|
| `rescan_race`, `RescanFlag` (`LossRemembered`) | the generation makes a CAS unnecessary (`khoi_dong.rs:45`) | a loss between the read and the clearing write is forgotten until the timetable's next walk |
| `two_daemons`, `MCDaemon` (`OneAtWork`) | the socket is the latch against two processes that write one database (`control.rs:101`, `linux.rs:73`, `linux.rs:214`) | probe, removal and bind are three steps, and two starts may both pass; a scan that ends removes the socket of a daemon that began meanwhile; the database is open before (`linux.rs:57`) |
| `late_halves`, `MCWatcher` (`NothingLost`) | a file whose first half expired is found again without waiting for a scan (`ghep.rs:61`) | when a directory is renamed its rows are marked missing, and the walk the second half asks for leaves existing rows alone |
| `written_and_renamed`, `MCWatcher` (`Current`) | a file renamed while its events are gathered loses a second at most (`gom.rs:12`) | the write is applied to a path that leads nowhere, the rename keeps the old fingerprint: the row describes the old content until the reconcile |
| `watch_files`, with `MaxOps = 2`, `MaxFaults = 1`, `MCWatcher` (`NoGhost`) | an error of statx that may pass is tried again (`handler/mod.rs:83`) | not that of the source of a rename (`rename.rs:205`): another row at that path stays live |
| `statx_lost`, `MCWalks` (`Recorded`) | a walk that could not read everything does not move the threshold (`linux/walk/mod.rs:182`) | a failed statx of the handler is passed over (`reconcile.rs:54`), and the walk counts as complete |
| `remote_guard`, `MCWalks` (`TriedAgain`) | a remote pass that could not conclude is not dated as one (`viec.rs:193`) | one that the guard at its end blocks is: `hoan_tat` says that the walk was complete |
| `flag_loop`, `MCScheduler` (`FlagPaced`) | a floor between two passes the flag asks for (`lich/mod.rs:47`) | an undecided pass is dated so far back (`lich/mod.rs:297`) that the floor is over at once |
| `reused_id`, `MCSqlite` (`ActsAsMemory`) | SQL and memory are one contract (`core/repo/memory/mod.rs:4`) | the id of a purged row is given to a new file (`schema.rs:63`), and the step a caller holds is applied to that one |
| `agree`, with `SeenBatches <- All`, `MCSqlite` (`ActsAsMemory`) | two entries of one key in a batch of a presence scan are not restored twice, as in the SQLite version (`core/repo/memory/watch.rs:147`) | a row the user undid stays `missing` when its fingerprint changed; the SQL asks for `missing` entry by entry (`db/watch.rs:217`), counts two and keeps the second path, the memory takes the first entry only |

Not a property of a model, but seen while building one: a comparison does not
look at the stop flag (`dedupe.rs:160`), and the sampler stops at SIGTERM, so
its last verdict is frozen for the rest of that comparison; `hash.chunk_len` is
not validated against the burst.

## 4. Proofs

All theorems hold for any values of the constants that satisfy the named
assumptions of the modules (`PipelineAssumption`, `WalksAssumption`,
`SchedulerAssumption`, `GovernorAssumption`, `DaemonAssumption`,
`RescanAssumption`, `PathAssumption` and `QueueAssumption` of `Watcher`,
`TableAssumption` and `CallAssumption` of `Sqlite`, `NullAssumption` of
`RowStore`), which TLC evaluates in every run. Where a
theorem excepts steps or faults (`ASSUME "crash" \notin Moves`), it does so
because TLC shows the property violated with them, as the tables above say;
only `NothingIsForgotten` takes over `unskip`, and `move_in` with `purge`, from
`HashesAreSound`, on which it rests: TLC finds nothing forgotten with these.
Each inductive invariant was checked by TLC before it was proved.

| theorem | property | excepts |
|---|---|---|
| `PipelineProofs!TypeCorrect` | `TypeOK` | |
| `PipelineProofs!VerifiedIsSound` | `VerifiedSound` | |
| `PipelineProofs!PointersLead` | `PointerExists` | |
| `PipelineProofs!NoRowWaitsForEver` | `SettlingHasDeadline` | `move_in`, `unskip` |
| `PipelineProofs!ClaimsAreTracked` | `ClaimsTracked` | `crash` |
| `PipelineProofs!HashesAreSound` | `HashSound` | `unskip`, `return`; `move_in` with `purge` |
| `PipelineProofs!NothingIsForgotten` | `NothingForgotten` | `crash`, `return`, `unskip`; `move_in` with `purge`; faults `io`, `ineligible` |
| `PipelineProofs!NoDuplicateMissed` | `NoMissedDuplicate` | `vanish`; `Files` is finite, and at most `MaxSizeGroup + 1` |
| `WatcherProofs!CeilingHolds` | `QueueBounded` | |
| `WatcherProofs!WatcherTypes` | `TypeOK` | |
| `WalksProofs!TypeCorrect` | `TypeOK` | |
| `WalksProofs!NothingFalselyLost` | `NoFalseLoss` | |
| `WalksProofs!SessionIsFreed` | `SessionFreed` | |
| `WalksProofs!UndecidedTriedAgain` | `TriedAgain` | job `remote` |
| `WalksProofs!CursorIsSafe` | `CursorSafe` | `statx` |
| `WalksProofs!ThresholdIsSafe` | `Recorded` | `statx`, `unmount_at_open` |
| `SchedulerProofs!TypeCorrect` | `TypeOK` | |
| `SchedulerProofs!DueJobsRun` | `OnTime` | |
| `SchedulerProofs!WritersAlone` | `OneWriter` | |
| `SchedulerProofs!PassesArePaced` | `Paced` | |
| `RescanFlagProofs!SignalsKept` | `LossRememberedButForRace` | |
| `DaemonProofs!DaemonRemembers` | `LossRememberedButForRace` | |
| `DaemonProofs!DaemonTypeCorrect` | `DaemonTypeOK` | |
| `DaemonProofs!SocketLeadsThere` | `Reachable` | |
| `GovernorProofs!TypeCorrect` | `TypeOK` | |
| `GovernorProofs!RateIsKept` | `RateKept` | |
| `GovernorProofs!BrakeIsReleased` | `BrakeReleased` | |
| `GovernorProofs!WorkerGivesWay` | `GivesWay` | |
| `SqliteProofs!TablesTyped` | `TypeOK` | |
| `SqliteProofs!QueriesAgree` | `SameAnswers` | |
| `SqliteProofs!SqliteRefinesMemory` | `ActsAsMemory` | a row purged while its step is held (`Hurried`); batches of a presence scan that name a key twice |

### Pipeline

Any files, contents, hashes, bounds and any subset of steps and faults but for
those excepted.

*What is called equal.* `VerifiedSound` is not inductive: the verdict is
reached in `FinishSame` and stored in `Commit`, and in between only the worker
knows it. `IInv` adds `WorkOK(work)`: whatever the worker holds, a transition
to a proven state names the version compared and has its evidence; a transition
to `missing` remembers the state the CAS will require; the versions the worker
opened exist. Evidence is stable (`EvidenceStays`) because histories only grow
(`StepGrows`), which needs `Born` (a present file has a version), and
comparisons only accumulate (`ComparedOK`). `AbsentIsGroupless` is what the
group operations need of rows not in the table. The table lemmas
(`UpsertRowSound`, `CasSound`, `AppliedOK`) say that an upsert or a transition
introduces no claim but justified ones, whichever rows changed meanwhile; the
step lemmas (`SettleOK` ... `BackendErrorOK`) that each decision of the worker
is one of those. `NextInv` has a step per part: `WorkStep`, `BornStep`,
`ComparedStep`, `TableStep`, `OutsideType`.

*Pointers.* `PointerExists` is inductive on top of `IInv` (`PointerStep`): only
a purge removes a row, and it takes the pointers first (`KeepingPoints`,
`AppliedKeeps`: everything else keeps the rows that are there); a transition
sets a pointer only to a row it has found, at its commit, in the state its CAS
requires or present (`AppliedPoints`).

*Deadlines.* `TimeInv` adds that what the worker is about to write is `Timely`
(it gives a queued row a deadline, or parks it with the reason, or leaves both
columns alone) and, but for a verdict, `Modest` (it calls nothing equal and is
no `user_undo`); and that the initial scan is over when phase B is, so that no
late insert leaves a row without a deadline.

*Claims.* `ClaimsTracked` is about the claims a row makes; a missing row that
comes back makes them again, and the verdict the worker has reached is one that
no row makes yet. `TrackInv` says the same of those two: `ClaimOK` is about
`Claims` of the row, and, when the row is `Hashable` (it waits for a comparison,
or will again), about what the worker has `Held` since it read the row. `Tame`
steps are those that make no claim and no hashable row that was not there with
that fingerprint: all but the commit are tame (`TameStep`), and a commit that
is not tame is the verdict, of which the invariant knows that the version
compared is the one of the row. An event under way ends what it is about only
when it is the last one (`EventsOK`).

*Hashes.* `HashInv` says of each row (`RowOK`) that its fingerprint was reached
by the file, that a lost row's file is away, that a settling row knows no hash,
and of the worker (`WorkSound`) that the row it read and the peer it hashes for
either still record the version read or settle again; of a transition under
way (`SoundChange`), that a hash it brings goes with a row whose fingerprint it
leaves alone. Every step but the commit does to a row one of the few things of
`RowStep`. `Fixed` rows record a settled version, and no step takes a fixed row
from one version to another without settling it between: that is what makes the
fingerprint a compare-and-swap of the state does not look at safe to rely on.

*What is known.* At rest no event, walk or row of the queue is left that could
still bring a version to the table, so `KnownInv` says who is going to bring it
as long as somebody is. A file without a row is ahead of the walk, or was met by
it, or has an event (`Coming`), and the row a walk will insert tells its version
unless an event does (`InsertOwed`). A row that is `Settled`, which nobody opens
again before it rests, is `Owed` nothing but what an event will tell. The steps
of the other threads settle nothing (`KnownRows`), and an event is not spent on
such a row without its version becoming that of the row (`TrackedUntil`,
`OwedStays`). The worker settles a row some steps after it looked at the file:
`WorkKnown` says that meanwhile the row, as long as it is sized and so open to
the CAS, owes nothing (`SizedOwedStays`), because the upsert that an event ends
in takes it back to settling. So a commit settles only rows that owe nothing
(`CasKnown`, `CommitKnown`); a verdict is covered by `TrackInv`.

*What is called unique.* `NoMissedDuplicate` speaks of rest, but nothing in the
argument waits for it: as long as no file is overwritten (`Unwritten`), two
files of one content are never both canonical or distinct, and `UniqueInv` says
why. A row that has a group has `Passed` it: the group has the hash of the file,
and no earlier group of that hash is led by its content; so of two canonical
rows of one content the later one would have to have passed the earlier. A
distinct row is `Sole`: no group and no other distinct row has its hash. Every
group is led by a canonical row that is a member (`Led`), which is what
`vanish` breaks: TLC needs one lost leader to find two canonical files of one
content. A step of another thread can only insert a row, or take one from
skipped, verified or, in phase B when it is alone, sized to the next state
(`Visit`); so what the worker concluded from groups and candidates, of which
only its own commits make more, is still true when it commits: `FirstWork` says
of a group about to be created that all leaders of that hash were passed and
all distinct rows of that hash move with it (`Leads`). The latter needs that no
distinct row hides from the candidates because it is young, and so that rows
past settling are not `fresh`. The decisions are in `SettleFirst` ...
`ErrorFirst`, the commit in `RowCommitted` and `LedCommitted`. `Files` has to be
finite because phase B counts the live rows, and no larger than the query allows
(`ClassFits`): then it returns all candidates there are (`ShortlistIsAll`), and
what they do not have, nobody has.

### Rescan flag and daemon

`SignalsKept` rests on an invariant that says where the generations may be
relative to the flag: a raise in progress writes a value that differs from any
the scheduler has captured, unless the scheduler is past its last look.
`DaemonRemembers` is the same for the threads of a daemon whose calls fail and
whose processes die. `SignalInv` states what the flag must show whatever the
scheduler believes (`WalkedWalks`, `CaptureIsOld`, `OwedShows`, `ClearIsDue`);
every step of the daemon is a `SignalStep` (`StepsAreSignals`): a step of
`RescanFlag`, a thread giving up what it was about to do, or neither.
`DaemonTypeCorrect` needs what each process may hold (`ProcsOK`) and that a job
in the channel is the one its thread waits for (`ChannelOK`).
`SocketLeadsThere`: unless two starts were tangled, the socket file is the one
of the process that serves it. `SocketInv` names the `Holder` and says of each
place between the probe and the bind that only one process is there (`Apart`),
for as long as no tangle was noted; `ScansScan` that only a scan removes the
socket at its end without having bound it.

### Walks

Any tree, any percentages and any faults but for those excepted. That nothing is
falsely lost is decided when a pass concludes, from what it counted; so the
invariant `WalkInv` keeps the account of every steady file while the walk is
under way (`Accounted`): it is ahead, or reported to the session, or in the
batch about to be, or was met with an error the walk remembers and that will
keep it from concluding. `Shape` types the walk, `NoLeftovers` says that a
session belongs to the walk under way, `SeenLive` and `TouchedYoung` that what
was seen is a live row no conclusion may take. `AccountKept` proves it with a
lemma per action; `WhoLoses` says that only a concluding pass loses a steady
file, `ConcludingHasMet` that such a pass has met them all. Handlers are set
field by field (`SettingAField`), which is why the model is written with `With`.

`CursorIsSafe` (a cursor that is kept leaves no directory behind it that was not
taken in) needs the order of the walk: a cursor in a directory means that every
entry before it, in the order of `Before`, was met, and none of them is under
the directory the cursor may still name (`Gathered`, `NativeKept`, `OpenFresh`).
`ThresholdIsSafe` (the threshold of the reconcile passes no write that a walk
did not see): `Reconciled` accounts for the stale files during the walk,
`NewIsKnown` and `LostIsStale` for those that come, go and come back,
`OpenMounted` is what the fault `unmount_at_open` takes away.

### Scheduler

`OnTime` speaks of the jobs of a round, which the code collects by a fold over
its list: `DueJobsCollects` proves what the fold yields, by a search for the
least place where it does not (`LeastExists`; induction itself is out of the
prover's reach). `OwedOK` and `StillDue` say where in a round a job stands that
was due, and that it stays due until its turn; `Dated` is what `ghi_moc` may have
written, which with the floor gives `Paced`. `OneWriter` is part of the same
invariant.

### Watcher

`CeilingHolds`: the count of the queue is cached for a second, so the ceiling is
kept only because the cached count is never too low (`Counted`): rows leave the
queue uncounted, but none is let in without the count going up, and those that
come back from `missing` are not let in. No assumption about the operations but
that inodes are finitely many.

`WatcherTypes`: an event is copied, paired, merged and kept for a retry many
times before a row is made of it. `WatchInv` follows it through the kernel
queue, the raw batch, the items `Gom` makes of it, the halves `Ghep` keeps, the
channel, the handler's batch and the retry list, and says what each may hold;
a batch, by assumption, names places and inodes there are. Pairing and
coalescing are folds over a batch. What they preserve is proved for every batch
by the least place where it would go wrong: the fold up to it has the property,
and one more element keeps it.

### Governor

`RateIsKept`: the bucket is refilled only when somebody asks, so `Covered` counts
what it would hold by now: what was granted and has not leaked is missing from
the bucket. `BrakeIsReleased` and `WorkerGivesWay`, for every window, interval,
jitter and number of failed samples, from `Watched`: how long a load has lasted
is bounded by the age of the last sample before anything is known of it, by one
more gap until a streak begins, and by the streak from then on, each failed
sample adding a gap (`Noticed`). A streak never reaches its window without the
sample that ends it (`FedStays`), so the load is noticed within the window and
`(3 + MaxErrors)` gaps (`NoticedInTime`). `TypeCorrect` adds the histories
(`Histories`) and the positions of worker and walk (`WorkerOK`, `WalkOK`,
`Hands`).

### Sqlite

`TablesTyped` and `QueriesAgree`: SQLite gives a new row `1 + max` of the ids in
use, the memory counts. The two number rows differently, but in the same order:
`Order` says that of any two rows in use the one with the smaller id was inserted
first, and that no id is used twice. It is what makes a tie of `next_ready`, the
candidates of a content and the members of a group the same on both sides.
`Edits` is what every call but an insertion and a purge does to a table (ids stay
where they are), so the order is proved once for all of them.

`SqliteRefinesMemory` is the refinement, call by call, with a lemma per call
(`UpsertRefines` ... `PurgeRefines`). The invariant is `RefInv`: what holds of the
tables, and that every canonical pointer leads to a row (`Crowned`) and the row a
caller holds is there, under its id and its birth (`Alive`); without that an id
has no counterpart in the memory. A statement says what it does by conditions on
columns and by `WHERE`, the memory by a function of a row: `ConflictRefines`,
`UncrownedIs`, `CasMaps` and `JoinMaps` say that on rows with ids replaced by
births they are one function. A call that takes a batch is a fold; what it leaves
is compared row by row and in order, by the least entry where the two would
differ (`InsertMaps`, `NoteMaps`, `NoteRestores`), because the ids and the places
an entry finds depend on the entries before it. A verdict is applied as a patch to the
row that is held, to the rows that go with it, and to its group, in this order
(`PatchedRefines`, `RegroupedRefines`, `ApplyRefines`); `ApplyTwins` says
that the transition the memory applies is the one the SQL applied, with the ids in
it replaced. Neither condition can be dropped: TLC finds `reused_id` without
`Hurried`, and `SeenBatches <- All` with a batch that names a key twice. `agree` satisfies
both, and so does a caller that presents each file once; a file with two names is
the one that does not.

### Only model-checked

Liveness (`Converges`, `Heals`, `Forgotten`, `Walked`, `StopEnds`, `MadeGood`,
`Stops`) is out of the prover's reach under fairness. The watcher's `NoGhost`
and `NothingLost` say what is left when a whole batch was merged and applied;
they hold within the timing the model gives the events (section 3), and the
invariant would have to follow each event of each file through every merge.
`NeverRecompare` is not proved either: the invariant would have to say of every pair
on record which groups the two have passed, for all versions and not only for the
first.

## 5. Plan

1. `NeverRecompare` from an invariant of `Verdicts`: of two files apart the one in the
   later group has passed the other's, and no succession brings it back.
2. The watcher's `NoGhost` and `NothingLost`, on top of `WatchInv`: where each
   event of a file is, and that what it says is not older than what was applied.
3. The heavy window as a pure function of the time of day against a reference
   definition; the second bucket and the remote governor.
4. The decision table of `recovery.rs`, once something writes the journal.

## 6. Not modelled

Configuration (parsing, presets, validation) keeps no state; what it guarantees
enters as assumptions on constants. Reports and the read-only commands, schema
migration, the encoding of rows, process priority and the polling of kernel
limits change nothing the properties speak of. `openat2`, reflink ioctls and
file-system detection are I/O, present by their outcomes. The time-zone
arithmetic of the window is not modelled: the open hours are an input. Recovery
of the dedupe journal (`core/recovery.rs`) has nothing to recover at this commit:
the comparison runs with `NoJournal`.
