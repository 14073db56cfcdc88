------------------------------- MODULE Walks -------------------------------
(***************************************************************************)
(* The walks over one root: the initial scan, the delta reconcile, the     *)
(* presence scan, the pass over a remote root and the walk of a directory  *)
(* the watcher heard of (crates/core/src/walk, crates/linux/src/walk,      *)
(* lich/viec.rs, daemon/khoi_dau.rs).  One loop goes through the tree      *)
(* entry by entry and calls the handler of the job; a walk may be cut,     *)
(* meet unreadable entries, lose its mount or its store, or die with the   *)
(* daemon, and what it may conclude then is what this module is about.     *)
(*                                                                         *)
(* A path is a tuple of names and a name is a number; the walk is in the   *)
(* order of the names.  Time is not modelled: a ctime is before or after   *)
(* the threshold of the next reconcile, a missing row within or beyond     *)
(* the retention.                                                          *)
(***************************************************************************)
EXTENDS Integers, Sequences, FiniteSets

CONSTANTS
  Files,          \* the paths at which a file can be
  Library,        \* those with a file when the daemon starts for the first time
  Jobs,           \* the walks this root gets
  NeedPct,        \* TY_LE_LOCAL_PCT or TY_LE_REMOTE_PCT
  NewMissingPct,  \* TRAN_MISSING_MOI_PCT
  BatchMax,       \* LO: rows in one transaction
  Faults,         \* what can go wrong
  MaxFaults,      \* bound: how often it does
  MaxOps          \* bound: how often a user creates, writes or removes a file

ASSUME WalksAssumption ==
  /\ IsFiniteSet(Files) /\ \A f \in Files : f \in Seq(Nat) /\ f # <<>>
  /\ Library \subseteq Files
  /\ Jobs \subseteq {"initial", "reconcile", "presence", "remote", "extra"}
  /\ BatchMax \in Nat \ {0} /\ {NeedPct, NewMissingPct, MaxFaults, MaxOps} \subseteq Nat
  /\ Faults \subseteq {"readdir", "statx", "unread", "mount_lost", "store", "cut", "unmount",
                       "unmount_at_open", "crash"}

VARIABLES
  there,      \* the files on disk
  changed,    \* their ctime: "old", "due" for the next reconcile, "new" since one began
  row,        \* the row of the file
  stale,      \* the files whose row has another fingerprint
  native,     \* history: the files no user touched
  progress,   \* [row, cursor, finished]: the root's row of scan_progress
  books,      \* meta.presence_<root>: files seen by the last pass, 0 is none
  session,    \* [open, seen]: the temporary tables of a presence pass
  walk,       \* the walk that runs
  booted,     \* the initial scan of this boot is over, or was not needed
  mounted,    \* the root is the directory opened at boot
  moc,        \* LanCuoi: how the scheduler dated each job's last pass
  undecided,  \* history: the jobs whose last pass reached no conclusion
  ops, faults

disk == <<there, changed, native, mounted, ops>>
vars == <<there, changed, row, stale, native, progress, books, session, walk, booted,
          mounted, moc, undecided, ops, faults>>

(* ------------------------------- the tree ------------------------------ *)

Under(path, dir) == Len(dir) <= Len(path) /\ SubSeq(path, 1, Len(dir)) = dir

\* so_duong_dan: component by component, a directory before what is in it.
Before(a, b) ==
  \E n \in 1..Len(b) :
    /\ Under(a, SubSeq(b, 1, n - 1))
    /\ Len(a) < n \/ a[n] < b[n]

\* The directories above a file, without the root.
Parents(path) == {SubSeq(path, 1, n) : n \in 1..(Len(path) - 1)}

Dirs == UNION {Parents(f) : f \in Files}

\* Mutant: a directory above the cursor is skipped, too.
SkippedAbove(dir, cursor) == Before(dir, cursor)

\* nen_bo_qua: the directory lies before the cursor altogether.
Skipped(dir, cursor) == Before(dir, cursor) /\ ~Under(cursor, dir)

\* What a walk goes through: not below a skipped directory.
Ahead ==
  [cursor \in Dirs \cup {<<>>} |-> {f \in Files : \A d \in Parents(f) : ~Skipped(d, cursor)}]

Live(r)    == r = "live"
Counted(r) == r \in {"live", "missing", "expired"}
FileCount  == Cardinality({f \in Files : Counted(row[f])})

(* -------------------------------- a walk ------------------------------- *)

None == -1

Closed == [open |-> FALSE, seen |-> {}]

\* A walk before it reads the root: the rows in the table, the files of the
\* pass before.
Fresh(job, phase, total, before) ==
  [job |-> job, phase |-> phase, left |-> {}, at |-> <<>>, dirty |-> FALSE, batch |-> {},
   pending |-> <<>>, safe |-> <<>>, counted |-> {}, unread |-> FALSE, lost |-> FALSE,
   total |-> total, before |-> before, steady |-> {}, touched |-> {}]

Idle == Fresh("none", "none", None, 0)

\* A walk with one field set.
With(w, field, value) == [w EXCEPT ![field] = value]

IsScan     == walk.job \in {"initial", "extra"}
IsPresence == walk.job \in {"presence", "remote"}
Walking    == walk.phase = "entries"

\* The next entry in the order of the names.
After == [f \in Files |-> {g \in Files : Before(f, g)}]
IsNext(f) == f \in walk.left /\ walk.left \ {f} \subseteq After[f]

\* Mutant: only the directories open at the time of an error are dirty.
HookedAnyway(f) ==
  LET done == {d \in Parents(walk.at) : ~Under(f, d)} IN
  IF done = {} THEN walk.pending
  ELSE CHOOSE d \in done : \A e \in done : Len(d) <= Len(e)

\* dong_den_do_sau, xong_thu_muc: the directories the walk has left; the
\* outermost is reported last.  After an unreadable entry none is.
Hooked(f) ==
  LET done == {d \in Parents(walk.at) : ~Under(f, d)} IN
  IF done = {} \/ walk.dirty \/ walk.job # "initial" THEN walk.pending
  ELSE CHOOSE d \in done : \A e \in done : Len(d) <= Len(e)

\* upsert_pending: a row that is gone stays gone unless the file has changed.
Upserted(files) ==
  [f \in Files |-> IF f \in files /\ (row[f] # "gone" \/ f \in stale) THEN "live" ELSE row[f]]

\* scan_insert leaves the rows that exist alone.
Inserted(batch) == [f \in Files |-> IF f \in batch /\ row[f] = "absent" THEN "live" ELSE row[f]]

\* presence_seen restores the missing rows of the batch.
Restored(rows, batch) ==
  [f \in Files |-> IF f \in batch /\ rows[f] \in {"missing", "expired"} THEN "live" ELSE rows[f]]

\* Rows of files in upserted, and rows that came to life, say what the file is.
Rows(new, upserted) ==
  row' = new /\ stale' = {f \in stale \ upserted : new[f] = row[f] \/ new[f] # "live"}

\* ConTro.sau_khi_commit: what is written may be skipped by the next scan.
Flushed(w) ==
  LET saved == With(w, "safe", IF w.pending = <<>> THEN w.safe ELSE w.pending) IN
  With(With(saved, "pending", <<>>), "batch", {})

\* ThemVaoHangDoi.ghi_lo.
Insert(w) ==
  Rows(Inserted(w.batch), {}) /\ walk' = Flushed(w) /\ UNCHANGED session

\* PhienPresence.xa, after the upsert of a remote file: the first batch opens
\* the session.
Report(w, upserted) ==
  /\ Rows(Restored(Upserted(upserted), w.batch), upserted)
  /\ session' = IF w.batch = {} THEN session
                ELSE [open |-> TRUE, seen |-> session.seen \cup w.batch]
  /\ walk' = With(w, "batch", {})

\* An entry that leaves no trace.
Pass(w) == walk' = w /\ UNCHANGED <<row, stale, session>>

\* ghi_moc: a pass that concluded is due after its period, another one soon.
Dated(job, concluded, verdict) ==
  /\ moc' = [moc EXCEPT ![job] = IF concluded THEN "full" ELSE "soon"]
  /\ undecided' = IF verdict THEN undecided \ {job} ELSE undecided \cup {job}
  /\ booted' = (booted \/ job = "initial")
  /\ walk' = Idle

(* ----------------------------- the handlers ---------------------------- *)

Full(w) == Cardinality(w.batch) >= BatchMax

\* ThemVaoHangDoi.file.
Scan(w, f) ==
  LET more == With(w, "batch", w.batch \cup {f}) IN
  IF Full(more) THEN Insert(more) ELSE walk' = more /\ UNCHANGED <<row, stale, session>>

\* Mutant: what changed since the walk began is left to the next one.
ReconcileDue(w, f) ==
  /\ IF changed[f] = "due" THEN Rows(Upserted({f}), {f}) ELSE UNCHANGED <<row, stale>>
  /\ walk' = w /\ UNCHANGED session

\* DeltaReconcile.file: only what changed after the threshold.
Reconcile(w, f) ==
  /\ IF changed[f] # "old" THEN Rows(Upserted({f}), {f}) ELSE UNCHANGED <<row, stale>>
  /\ walk' = w /\ UNCHANGED session

\* PhienPresence.ghi_nhan: a file seen, after the upsert of a remote one.
Witness(w, f, upserted) ==
  LET more == With(w, "batch", w.batch \cup {f}) IN
  IF Full(more) THEN Report(more, upserted)
  ELSE walk' = more /\ Rows(Upserted(upserted), upserted) /\ UNCHANGED session

\* Presence.file, QuetRemote.file: the remote pass also compares size and mtime.
See(w, f) ==
  Witness(With(w, "counted", w.counted \cup {f}), f,
          IF w.job = "remote" /\ (row[f] = "absent" \/ f \in stale) THEN {f} ELSE {})

\* Mutant: a file that cannot be read is passed over.
SkipUnread(w, f) ==
  walk' = With(w, "unread", TRUE) /\ UNCHANGED <<row, stale, session>>

\* ghi_nhan_khong_doc_duoc: what cannot be read is no proof of anything.
Unread(w, f) ==
  LET more == With(w, "unread", TRUE) IN
  IF Live(row[f]) THEN Witness(more, f, {})
  ELSE walk' = more /\ UNCHANGED <<row, stale, session>>

Handle(w, f) ==
  CASE w.job \in {"initial", "extra"} -> Scan(w, f)
    [] w.job = "reconcile"            -> Reconcile(w, f)
    [] OTHER                          -> See(w, f)

(* ------------------------------- the loop ------------------------------ *)

\* mot_root, mot_root_reconcile, mot_root_presence, mot_root_remote: what is
\* taken down before the first entry.  The initial scan runs at boot, before
\* the scheduler may write scan_progress (CoScan); every walk of the scheduler
\* has its turn after it.  di_bo refuses a root that is not the one opened.
Begin(job) ==
  /\ walk.job = "none" /\ job \in Jobs
  /\ IF job = "initial" THEN ~booted /\ ~progress.finished ELSE booted
  /\ progress' = [progress EXCEPT !.row = @ \/ job = "initial"]
  /\ IF mounted
       THEN /\ walk' = Fresh(job, "open", FileCount, books)
            /\ UNCHANGED <<moc, undecided, booted>>
       ELSE Dated(job, FALSE, FALSE)
  /\ changed' = IF job = "reconcile" /\ mounted
                  THEN [f \in Files |-> IF changed[f] = "new" THEN "due" ELSE changed[f]]
                  ELSE changed
  /\ UNCHANGED <<there, native, mounted, ops, row, stale, books, session, faults>>

\* WalkDir reads the root: nothing if it was unmounted meanwhile.  The walk of
\* a new directory keeps to it (chi_trong).
Open ==
  /\ walk.phase = "open"
  /\ \E dir \in IF walk.job = "extra" THEN Dirs ELSE {<<>>} :
       LET tree == Ahead[IF walk.job = "initial" THEN progress.cursor ELSE <<>>]
           left == IF mounted THEN {f \in tree : Under(f, dir)} ELSE {} IN
       walk' = With(With(With(walk, "phase", "entries"), "steady", there), "left", left)
  /\ UNCHANGED <<disk, row, stale, progress, books, session, booted, moc, undecided, faults>>

\* The walk at entry e, with what is left then.
At(e, left) == With(With(With(walk, "left", left), "pending", Hooked(e)), "at", e)

\* The next entry.  One that is not there, or came after its directory was
\* listed, is not met.
Visit(f) ==
  LET w == At(f, walk.left \ {f}) IN
  /\ Walking /\ IsNext(f)
  /\ mounted \/ Parents(f) \subseteq Parents(walk.at)
  /\ \/ f \in there /\ Handle(w, f)
     \/ f \notin walk.steady /\ Pass(w)
  /\ UNCHANGED <<disk, progress, books, booted, moc, undecided, faults>>

\* statx fails for another reason than that the file is not there.  The scan
\* and the reconcile take no notice ("statx"), the presence walks do ("unread").
StatxFails(f) ==
  LET w == At(f, walk.left \ {f}) IN
  /\ Walking /\ IsNext(f) /\ f \in there
  /\ mounted \/ Parents(f) \subseteq Parents(walk.at)
  /\ faults < MaxFaults /\ faults' = faults + 1
  /\ \/ IF IsPresence THEN "unread" \in Faults /\ Unread(w, f)
                       ELSE "statx" \in Faults /\ Pass(w)
     \/ "mount_lost" \in Faults /\ walk.job = "remote" /\ Pass(With(w, "lost", TRUE))
  /\ UNCHANGED <<disk, progress, books, booted, moc, undecided>>

\* A directory cannot be opened: all that is below it is passed over, and no
\* directory is reported from here on (ban_tu_day).
ReaddirFails(f) ==
  /\ Walking /\ IsNext(f)
  /\ IF mounted THEN "readdir" \in Faults /\ faults < MaxFaults /\ faults' = faults + 1
                ELSE faults' = faults
  /\ \E dir \in Parents(f) \ Parents(walk.at) :
       walk' = With(At(dir, {g \in walk.left : ~Under(g, dir)}), "dirty", TRUE)
  /\ UNCHANGED <<disk, row, stale, progress, books, session, booted, moc, undecided>>

(* ---------------------------- how it may end --------------------------- *)

\* Mutant: the cursor is the last entry, not the last directory.
CursorAtEntry(w) == [progress EXCEPT !.cursor = w.at]

\* ghi_con_tro: without a safe directory the old cursor stays.
CursorAfter(w) == IF w.safe = <<>> THEN progress ELSE [progress EXCEPT !.cursor = w.safe]

\* bi_cat of the scans: write what was gathered.
SaveBatch == Rows(Inserted(walk.batch), {}) /\ UNCHANGED session

\* Mutant: the session is left open.
LeaveSession == UNCHANGED <<row, stale, session>>

\* PhienPresence.huy: forget what was seen.
Abort == session' = Closed /\ UNCHANGED <<row, stale>>

GiveUp == IF IsPresence THEN Abort ELSE SaveBatch

\* SIGTERM, or the window of the heavy work closes, between two entries.
Cut ==
  /\ Walking /\ walk.left # {}
  /\ "cut" \in Faults /\ faults < MaxFaults /\ faults' = faults + 1
  /\ GiveUp /\ Dated(walk.job, FALSE, FALSE)
  /\ progress' = IF walk.job = "initial" THEN CursorAfter(Flushed(walk)) ELSE progress
  /\ UNCHANGED <<disk, books>>

\* The tree is through, but some of it could not be read.
EndDirty ==
  /\ Walking /\ walk.left = {} /\ walk.dirty /\ mounted
  /\ GiveUp /\ Dated(walk.job, FALSE, FALSE)
  /\ progress' = IF walk.job = "initial" THEN CursorAfter(Flushed(walk)) ELSE progress
  /\ UNCHANGED <<disk, books, faults>>

\* The root is another directory now: an error, and no cursor is written.
EndUnmounted ==
  /\ Walking /\ walk.left = {} /\ ~mounted
  /\ GiveUp /\ Dated(walk.job, FALSE, FALSE)
  /\ UNCHANGED <<disk, progress, books, faults>>

\* A call to the store fails: an error.  The scan tries once more to write its
\* batch.
StoreFails ==
  /\ Walking /\ "store" \in Faults /\ faults < MaxFaults /\ faults' = faults + 1
  /\ \/ GiveUp
     \/ ~IsPresence /\ UNCHANGED <<row, stale, session>>
  /\ Dated(walk.job, FALSE, FALSE)
  /\ UNCHANGED <<disk, progress, books>>

\* file_count fails: there is nothing to compare with.
CannotCount ==
  /\ walk.phase = "open" /\ walk.total # None
  /\ "store" \in Faults /\ faults < MaxFaults /\ faults' = faults + 1
  /\ walk' = With(walk, "total", None)
  /\ UNCHANGED <<disk, row, stale, progress, books, session, booted, moc, undecided>>

\* Mutant: the end of the walk does not look at what could not be read.
ThroughAnyway == Walking /\ walk.left = {} /\ mounted

Through == Walking /\ walk.left = {} /\ ~walk.dirty /\ mounted

\* The initial scan is complete: the cursor goes, finished_at comes.
FinishInitial ==
  /\ Through /\ walk.job = "initial"
  /\ SaveBatch /\ Dated("initial", TRUE, TRUE)
  /\ progress' = [row |-> TRUE, cursor |-> <<>>, finished |-> TRUE]
  /\ UNCHANGED <<disk, books, faults>>

FinishExtra ==
  /\ Through /\ walk.job = "extra"
  /\ SaveBatch /\ Dated("extra", TRUE, TRUE)
  /\ UNCHANGED <<disk, progress, books, faults>>

\* Mutant: the threshold moves to where the walk ended.
ThresholdAtEnd == [f \in Files |-> "old"]

\* last_reconcile_done is when this reconcile began.
ThresholdAtStart == [f \in Files |-> IF changed[f] = "new" THEN "due" ELSE "old"]

FinishReconcile ==
  /\ Through /\ walk.job = "reconcile"
  /\ changed' = IF progress.row THEN ThresholdAtStart ELSE changed
  /\ Dated("reconcile", TRUE, TRUE)
  /\ UNCHANGED <<there, native, mounted, ops, row, stale, progress, books, session, faults>>

(* -------------------------- the presence guards ------------------------ *)

Seen == Cardinality(walk.counted)

\* QuetRemote.xong_root: an empty tree is a share that fell off.
MountLost == walk.lost \/ (walk.job = "remote" /\ Seen = 0 /\ walk.total > 0)

Enough == Seen * 100 >= walk.total * NeedPct

\* Mutant: too few files are too few, however often they are seen.
GuardAlone == walk.total # None /\ Seen # 0 /\ Enough

\* kiem_guard: enough of the rows were seen, or as many as the last time.
GuardPasses ==
  /\ walk.total # None /\ Seen # 0
  /\ Enough \/ (walk.before > 0 /\ Seen >= walk.before)

\* tin_duoc, ghi_so_sach.
Booked == IF ~walk.unread /\ Seen > 0 /\ walk.total # None THEN Seen ELSE books

\* presence_finish: the rows it takes for missing.
Unseen == {f \in Files : Live(row[f]) /\ f \notin session.seen \cup walk.batch \cup walk.touched}

\* Mutant: errors do not matter.
MayExpireAnyway == Cardinality(Unseen) * 100 <= walk.total * NewMissingPct

\* du_chat: only a quiet pass without an error may forget rows for good.
MayExpire == ~walk.unread /\ Cardinality(Unseen) * 100 <= walk.total * NewMissingPct

Marked(rows)  == [f \in Files |-> IF f \in Unseen THEN "missing" ELSE rows[f]]
Expired(rows) == [f \in Files |-> IF MayExpire /\ rows[f] = "expired" THEN "gone" ELSE rows[f]]

AllSeen == Restored(row, walk.batch)

\* ket_thuc, when the guards let it.
Conclude ==
  /\ Through /\ IsPresence /\ ~MountLost /\ GuardPasses
  /\ Rows(Marked(Expired(AllSeen)), {})
  /\ books' = Booked
  /\ session' = Closed
  /\ Dated(walk.job, TRUE, TRUE)
  /\ UNCHANGED <<disk, progress, faults>>

\* Mutant: an undecided pass counts like another.
BlockedDone == walk.job \in {"remote", "presence"}

\* mot_root_presence wants a result, mot_root_remote only a complete walk.
BlockedCounts == walk.job = "remote"

\* ket_thuc, when they do not: the pass is booked and nothing is concluded.
Blocked ==
  /\ Through /\ IsPresence /\ ~MountLost /\ ~GuardPasses
  /\ Rows(AllSeen, {})
  /\ books' = Booked
  /\ session' = Closed
  /\ Dated(walk.job, BlockedCounts, FALSE)
  /\ UNCHANGED <<disk, progress, faults>>

\* The share fell off: the pass is dropped.
Drop ==
  /\ Through /\ IsPresence /\ MountLost
  /\ Abort /\ Dated(walk.job, FALSE, FALSE)
  /\ UNCHANGED <<disk, progress, books, faults>>

\* presence_finish succeeds, presence_expire fails.
ConcludeHalf ==
  /\ Through /\ IsPresence /\ ~MountLost /\ GuardPasses
  /\ "store" \in Faults /\ faults < MaxFaults /\ faults' = faults + 1
  /\ Rows(Marked(AllSeen), {})
  /\ session' = Closed
  /\ Dated(walk.job, FALSE, FALSE)
  /\ UNCHANGED <<disk, progress, books>>

(* --------------------------- the surroundings -------------------------- *)

Touch(f, isThere) ==
  /\ mounted /\ ops < MaxOps /\ ops' = ops + 1
  /\ there' = IF isThere THEN there \cup {f} ELSE there \ {f}
  /\ walk' = IF isThere THEN walk ELSE With(walk, "steady", walk.steady \ {f})
  /\ native' = native \ {f}
  /\ UNCHANGED <<mounted, row, progress, books, session, booted, moc, undecided, faults>>

\* A user writes a file, new or not, moves one in, or removes one; a file that is
\* moved has a new ctime, so that it never comes back as it was.
Write(f) ==
  /\ Touch(f, TRUE)
  /\ changed' = [changed EXCEPT ![f] = "new"]
  /\ stale' = IF row[f] = "absent" THEN stale ELSE stale \cup {f}
Remove(f) == f \in there /\ Touch(f, FALSE) /\ UNCHANGED <<changed, stale>>

\* The watcher hears of a file; a remote root has none.
Event(f) ==
  /\ "remote" \notin Jobs /\ mounted
  /\ IF f \in there
       THEN (row[f] # "live" \/ f \in stale) /\ Rows(Upserted({f}), {f})
       ELSE Live(row[f]) /\ row' = [row EXCEPT ![f] = "missing"] /\ UNCHANGED stale
  /\ walk' = IF walk.job = "none" THEN walk ELSE With(walk, "touched", walk.touched \cup {f})
  /\ UNCHANGED <<disk, progress, books, session, booted, moc, undecided, faults>>

\* "unmount_at_open" has it between the check of the root and its opendir.
Unmount ==
  /\ IF walk.phase = "open" THEN "unmount_at_open" \in Faults ELSE "unmount" \in Faults
  /\ faults < MaxFaults /\ faults' = faults + 1
  /\ mounted /\ mounted' = FALSE
  /\ UNCHANGED <<there, changed, native, ops, row, stale, progress, books, session, walk,
                 booted, moc, undecided>>

Remount ==
  /\ ~mounted /\ mounted' = TRUE
  /\ UNCHANGED <<there, changed, native, ops, row, stale, progress, books, session, walk,
                 booted, moc, undecided, faults>>

\* The retention goes by.
Age(f) ==
  /\ walk.job = "none" /\ row[f] = "missing"
  /\ row' = [row EXCEPT ![f] = "expired"]
  /\ UNCHANGED <<disk, stale, progress, books, session, walk, booted, moc, undecided, faults>>

\* DonDep: rows gone for longer than the retention are deleted.
Purge(f) ==
  /\ walk.job = "none" /\ row[f] = "gone"
  /\ row' = [row EXCEPT ![f] = "absent"] /\ stale' = stale \ {f}
  /\ UNCHANGED <<disk, progress, books, session, walk, booted, moc, undecided, faults>>

\* The daemon dies and comes back: the temporary tables go with the
\* connection, the last presence scan is read from scan_progress.
Restart ==
  /\ "crash" \in Faults /\ faults < MaxFaults /\ faults' = faults + 1
  /\ walk' = Idle /\ session' = Closed
  /\ booted' = ("initial" \notin Jobs \/ progress.finished)
  /\ moc' = [j \in Jobs |-> IF j = "presence" /\ moc[j] = "full" THEN "full" ELSE "never"]
  /\ UNCHANGED <<disk, row, stale, progress, books, undecided>>

Init ==
  /\ there = Library /\ native = Library /\ mounted = TRUE
  /\ changed = [f \in Files |-> "due"]
  /\ row = [f \in Files |-> "absent"] /\ stale = {}
  /\ progress = [row |-> FALSE, cursor |-> <<>>, finished |-> FALSE]
  /\ books = 0 /\ session = Closed /\ walk = Idle
  /\ booted = ("initial" \notin Jobs)
  /\ moc = [j \in Jobs |-> "never"] /\ undecided = {}
  /\ ops = 0 /\ faults = 0

Step ==
  \/ Open \/ EndDirty \/ EndUnmounted \/ FinishInitial \/ FinishExtra \/ FinishReconcile
  \/ Conclude \/ Blocked \/ Drop
  \/ \E f \in Files : Visit(f)

Fault ==
  \/ Cut \/ StoreFails \/ CannotCount \/ ConcludeHalf \/ Unmount \/ Restart
  \/ \E f \in Files : StatxFails(f) \/ ReaddirFails(f)

Outside ==
  \/ Remount
  \/ \E f \in Files : Write(f) \/ Remove(f) \/ Event(f) \/ Age(f) \/ Purge(f)

Next == (\E job \in Jobs : Begin(job)) \/ Step \/ Fault \/ Outside

Spec == Init /\ [][Next]_vars

\* The scheduler comes back to every job and a walk goes on; a share comes
\* back, the retention goes by.  Nothing is assumed of the watcher.
FairSpec ==
  /\ Spec /\ WF_vars(Step) /\ WF_vars(Remount)
  /\ \A job \in Jobs : SF_vars(Begin(job))
  /\ \A f \in Files : SF_vars(Age(f)) /\ WF_vars(ReaddirFails(f))

(* ------------------------------ properties ----------------------------- *)

\* The types of the variables.
TypeOK ==
  /\ {there, stale, native} \subseteq SUBSET Files
  /\ changed \in [Files -> {"old", "due", "new"}]
  /\ row \in [Files -> {"absent", "live", "missing", "expired", "gone"}]
  /\ progress \in [row : BOOLEAN, cursor : Dirs \cup {<<>>}, finished : BOOLEAN]
  /\ books \in Nat
  /\ session \in [open : BOOLEAN, seen : SUBSET Files]
  /\ walk.job \in Jobs \cup {"none"} /\ walk.phase \in {"none", "open", "entries"}
  /\ {walk.left, walk.batch, walk.counted, walk.steady, walk.touched} \subseteq SUBSET Files
  /\ {walk.pending, walk.safe} \subseteq Dirs \cup {<<>>}
  /\ walk.total \in Nat \cup {None} /\ walk.before \in Nat
  /\ moc \in [Jobs -> {"never", "full", "soon"}] /\ undecided \subseteq Jobs

\* What the next initial scan will skip is in the table: the cursor never
\* stands behind a directory whose files were only gathered, or not read
\* (ConTro, ban_tu_day; BUG-019).
CursorSafe ==
  \A f \in native \ Ahead[progress.cursor] : row[f] # "absent"

\* What no reconcile will look at again is in the table as it is on disk: the
\* threshold never passes a change that was not recorded
\* (DeltaReconcile.xong_root, nguong_reconcile).
Recorded ==
  \A f \in there : changed[f] = "old" => row[f] # "absent" /\ f \notin stale

\* The temporary tables exist only while the walk that made them runs; left
\* over, they would keep every later pass of every root from beginning
\* (presence_begin, don_dep).
SessionFreed == session.open => IsPresence

\* A pass that reached no conclusion is not dated as one that did: it is tried
\* again soon (lich/viec.rs, ghi_moc).
TriedAgain == \A j \in undecided : moc[j] # "full"

\* A pass takes no file for missing, and none for gone, that was on disk from
\* its first entry to its last, or that the watcher recorded meanwhile.
NoFalseLoss ==
  [][\A f \in Files :
       (\/ row[f] = "live" /\ row'[f] = "missing" /\ IsPresence
        \/ row[f] = "expired" /\ row'[f] = "gone")
       => f \notin walk.steady \cup (walk.touched \cap there)]_vars

\* What was deleted is found out and forgotten, whatever was blocked before
\* (kiem_guard's way out, du_chat): as long as the root keeps a file, for a pass
\* that sees none never concludes.
Forgotten ==
  \A f \in Files :
    (f \notin there /\ row[f] # "absent")
      ~> (f \in there \/ row[f] \in {"absent", "gone"} \/ there = {})

\* ... which leaves the rows of a root whose last file was deleted as they are:
\* to the guard such a root looks like a share that is not mounted.
ForgottenWithTheLast ==
  \A f \in Files :
    (f \notin there /\ row[f] # "absent") ~> (f \in there \/ row[f] \in {"absent", "gone"})
=============================================================================
