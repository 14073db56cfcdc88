------------------------------ MODULE Pipeline ------------------------------
(***************************************************************************)
(* The duplicate-detection pipeline of nasdedup around its row store: the  *)
(* files on disk and whoever writes them, the watcher thread that applies  *)
(* file-system events, the scheduler thread that walks directories, and    *)
(* the single worker thread that takes due rows and moves them             *)
(*                                                                         *)
(*   settling -> sized -> hashed -> verified | deduped                     *)
(*                    \-> distinct     \-> canonical of another group      *)
(*                    \-> canonical                                        *)
(*                                                                         *)
(* Every thread reads first and writes later: the watcher and the          *)
(* scheduler keep what statx returned in `seen` until their upsert runs,   *)
(* the worker keeps the row it took, the descriptors it opened and finally *)
(* the transition it decided on in `work`.  Any other thread's step and    *)
(* any write to a file may fall in between.                                *)
(***************************************************************************)
EXTENDS RowStore, FiniteSets

CONSTANTS
  Contents,        \* what a file may hold
  HashOf,          \* the sparse hash of a content: equal hashes may lie
  MaxWrites,       \* bound: writes of each file, the first one included
  MaxMishaps,      \* bound: how often files vanish and the daemon dies
  MaxPending,      \* bound: events under way per file
  MaxAttempts,     \* MAX_ATTEMPTS of the worker
  MaxUnstable,     \* MAX_UNSTABLE_ATTEMPTS of the fingerprint policy
  MaxSizeGroup,    \* policy.max_size_group: candidates looked at in one turn
  HeavyAllowed,    \* what `allow_heavy` may be: subset of BOOLEAN
  ReportVerify,    \* general.report_verify
  SharesExtents,   \* Deduper::shares_extents of the backend
  Booted,          \* FALSE: the initial scan has still to run
  Moves,           \* the optional steps of the environment
  Faults           \* the failures the steps may meet

AllMoves  == {"vanish", "return", "tear", "move_in", "reconcile", "presence",
              "expire", "purge", "unskip", "requeue", "crash"}
AllFaults == {"io", "ineligible", "partial", "too_large",
              "stopped", "eintr", "busy", "changed", "unsupported", "pair", "fatal"}

ASSUME PipelineAssumption ==
  /\ HashOf \in [Contents -> Hashes]
  /\ MaxWrites \in [Files -> Nat] /\ {MaxMishaps, MaxPending} \subseteq Nat
  /\ {MaxAttempts, MaxUnstable, MaxSizeGroup} \subseteq Nat \ {0}
  /\ HeavyAllowed \subseteq BOOLEAN
  /\ {ReportVerify, SharesExtents, Booted} \subseteq BOOLEAN
  /\ Moves \subseteq AllMoves /\ Faults \subseteq AllFaults

VARIABLES
  history,   \* history[f]: the contents f has held, latest last
  present,   \* present[f]: can f be reached under its path
  mishaps,   \* how often a file vanished or the daemon died so far
  fresh,     \* fresh[f]: is the mtime of f younger than settle_delay
  pending,   \* pending[f]: events about f the watcher has still to apply
  seen,      \* what a thread statx'ed and has still to write to the store
  boot,      \* [phase, left]: the initial scan, and the files left to walk
  rows,      \* table files
  groups,    \* table content_groups; the index is the id
  work,      \* what the worker thread holds
  compared   \* history variable: the comparisons made, and what they found

vars == <<history, present, mishaps, fresh, pending, seen, boot, rows, groups, work, compared>>
disk == <<history, present, mishaps, fresh>>
db   == <<rows, groups>>

Threads == {"watcher", "scheduler"}
Nothing == [by |-> "nothing"]
Idle    == [phase |-> "idle"]

Version(f) == Len(history[f])
Body(f, v) == history[f][v]

(* ---------------------------- environment ----------------------------- *)

\* The watcher hears of f; two equal events in a row are merged on the way.
Announce(f, ev) ==
  LET q      == pending[f]
      merged == q # <<>> /\ q[Len(q)] = ev
  IN /\ merged \/ Len(q) < MaxPending
     /\ pending' = [pending EXCEPT ![f] = IF merged THEN @ ELSE Append(@, ev)]

\* The files the worker has looked at and is reading at this moment.
UnderRead(f) ==
  \/ work.phase \in {"settle", "hash", "backfill", "compare"} /\ f = work.file
  \/ work.phase \in {"backfill", "compare"} /\ f = work.peer

\* Somebody writes f.  A write gives the file a fingerprint it never had.
Write(f) ==
  /\ present[f] /\ Version(f) < MaxWrites[f]
  /\ UnderRead(f) => "tear" \in Moves
  /\ \E c \in Contents : history' = [history EXCEPT ![f] = Append(@, c)]
  /\ fresh' = [fresh EXCEPT ![f] = TRUE]
  /\ Announce(f, "touched")
  /\ UNCHANGED <<present, mishaps, seen, boot, db, work, compared>>

\* A whole directory is moved in: its files keep mtime and ctime, and the
\* event names the directory, which becomes a supplementary walk.
MoveIn(f) ==
  /\ "move_in" \in Moves /\ ~present[f] /\ Version(f) = 0
  /\ \E c \in Contents : history' = [history EXCEPT ![f] = <<c>>]
  /\ present' = [present EXCEPT ![f] = TRUE]
  /\ boot' = [boot EXCEPT !.left = @ \union {f}]
  /\ UNCHANGED <<mishaps, fresh, pending, seen, db, work, compared>>

\* f leaves its path: unlinked ("removed"), moved away, or its mount went.
Vanish(f) ==
  /\ "vanish" \in Moves /\ present[f] /\ mishaps < MaxMishaps
  /\ mishaps' = mishaps + 1
  /\ present' = [present EXCEPT ![f] = FALSE]
  /\ \E ev \in {"removed", "moved_out"} : Announce(f, ev)
  /\ UNCHANGED <<history, fresh, seen, boot, db, work, compared>>

\* The same inode is back under its path with the fingerprint it had.
Return(f) ==
  /\ "return" \in Moves /\ ~present[f] /\ Version(f) > 0
  /\ present' = [present EXCEPT ![f] = TRUE]
  /\ Announce(f, "touched")
  /\ UNCHANGED <<history, mishaps, fresh, seen, boot, db, work, compared>>

\* Time passes: the mtime of f is settle_delay old ...
Age(f) ==
  /\ fresh[f]
  /\ fresh' = [fresh EXCEPT ![f] = FALSE]
  /\ UNCHANGED <<history, present, mishaps, pending, seen, boot, db, work, compared>>

\* ... its row falls due ...
FallDue(f) ==
  /\ rows[f].state \in Queued /\ rows[f].ready = "later"
  /\ rows' = [rows EXCEPT ![f].ready = "due"]
  /\ UNCHANGED <<disk, pending, seen, boot, groups, work, compared>>

\* ... and it has waited for the heavy window longer than max_wait.
Overdue(f) ==
  /\ rows[f].hws = "waiting"
  /\ rows' = [rows EXCEPT ![f].hws = "overdue"]
  /\ UNCHANGED <<disk, pending, seen, boot, groups, work, compared>>

\* The daemon dies and starts again: what the threads held is lost, the
\* tables are not.
Crash ==
  /\ "crash" \in Moves /\ boot.phase = "done" /\ mishaps < MaxMishaps
  /\ mishaps' = mishaps + 1
  /\ work' = Idle
  /\ seen' = [t \in Threads |-> Nothing]
  /\ pending' = [f \in Files |-> <<>>]
  /\ boot' = [boot EXCEPT !.left = {}]
  /\ UNCHANGED <<history, present, fresh, db, compared>>

(* ------------------------- watcher, scheduler ------------------------- *)

See(t, entry) == seen' = [seen EXCEPT ![t] = entry]
Drop(t)       == See(t, Nothing)

\* Mutant: the upsert leaves rows that exist alone.
UpsertIgnoring(f, v, ready) ==
  /\ rows' = [rows EXCEPT ![f] = IF @.state = "absent" THEN NewRow(v, ready) ELSE @]
  /\ UNCHANGED groups

\* One upsert transaction on the two tables.
Upsert(f, v, ready) ==
  /\ rows' = [rows EXCEPT ![f] = UpsertRow(@, v, ready)]
  /\ groups' = UpsertGroups(rows, groups, f, v, ready)

TakeEvent(f, ev) ==
  /\ seen["watcher"] = Nothing
  /\ pending[f] # <<>> /\ Head(pending[f]) = ev
  /\ pending' = [pending EXCEPT ![f] = Tail(@)]

\* Closed, MovedIn: statx, then upsert what it saw; ENOENT is ignored.
WatchTouched(f) ==
  /\ TakeEvent(f, "touched")
  /\ IF present[f] THEN See("watcher", [by |-> "upsert", file |-> f, fp |-> Version(f)])
                   ELSE UNCHANGED seen
  /\ UNCHANGED <<disk, boot, db, work, compared>>

\* Removed: mark_missing without asking the disk again.
WatchRemoved(f) ==
  /\ TakeEvent(f, "removed")
  /\ rows' = [rows EXCEPT ![f] = MarkedMissing(@)]
  /\ UNCHANGED <<disk, seen, boot, groups, work, compared>>

\* RemovedUnknown: missing only after statx said ENOENT.
WatchMovedOut(f) ==
  /\ TakeEvent(f, "moved_out")
  /\ \/ /\ ~present[f]
        /\ rows' = [rows EXCEPT ![f] = MarkedMissing(@)]
        /\ UNCHANGED seen
     \/ /\ present[f]
        /\ See("watcher", [by |-> "upsert", file |-> f, fp |-> Version(f)])
        /\ UNCHANGED rows
  /\ UNCHANGED <<disk, boot, groups, work, compared>>

WatchCommit ==
  /\ seen["watcher"] # Nothing
  /\ Upsert(seen["watcher"].file, seen["watcher"].fp, "later")
  /\ Drop("watcher")
  /\ UNCHANGED <<disk, pending, boot, work, compared>>

\* A walk (initial or supplementary) meets f.
WalkSee(f) ==
  /\ seen["scheduler"] = Nothing /\ f \in boot.left
  /\ boot' = [boot EXCEPT !.left = @ \ {f}]
  /\ IF present[f]
     THEN See("scheduler", [by |-> "insert", file |-> f, fp |-> Version(f), fresh |-> fresh[f]])
     ELSE UNCHANGED seen
  /\ UNCHANGED <<disk, pending, db, work, compared>>

\* scan_insert: ON CONFLICT DO NOTHING.  An old file goes straight to sized
\* without a deadline, a young one settles first.
WalkInsert ==
  /\ seen["scheduler"].by = "insert"
  /\ LET e == seen["scheduler"]
     IN rows' = [rows EXCEPT ![e.file] =
          IF @.state # "absent" THEN @
          ELSE IF e.fresh THEN BlankRow("settling", e.fp, "later")
          ELSE BlankRow("sized", e.fp, "null")]
  /\ Drop("scheduler")
  /\ UNCHANGED <<disk, pending, boot, groups, work, compared>>

\* Mutant: a sized row that is alone in its size class is left as it is.
ScanPhaseBLeaving ==
  /\ boot.phase = "A" /\ boot.left = {} /\ seen["scheduler"] = Nothing
  /\ LET live    == {f \in Files : rows[f].state \notin Lost \union {"absent"}}
         parked  == {f \in Files : rows[f].state = "sized" /\ rows[f].ready = "null"}
     IN rows' = [f \in Files |->
          IF f \in parked /\ Cardinality(live) > 1 THEN [rows[f] EXCEPT !.ready = "due"]
                                                   ELSE rows[f]]
  /\ boot' = [boot EXCEPT !.phase = "done"]
  /\ UNCHANGED <<disk, pending, seen, groups, work, compared>>

\* Phase B, after the initial walk went through the whole root: wake the
\* sized rows when the size class holds another live row, else distinct.
ScanPhaseB ==
  /\ boot.phase = "A" /\ boot.left = {} /\ seen["scheduler"] = Nothing
  /\ LET live    == {f \in Files : rows[f].state \notin Lost \union {"absent"}}
         parked  == {f \in Files : rows[f].state = "sized" /\ rows[f].ready = "null"}
     IN rows' = [f \in Files |->
          IF f \notin parked THEN rows[f]
          ELSE IF Cardinality(live) > 1 THEN [rows[f] EXCEPT !.ready = "due"]
          ELSE [rows[f] EXCEPT !.state = "distinct"]]
  /\ boot' = [boot EXCEPT !.phase = "done"]
  /\ UNCHANGED <<disk, pending, seen, groups, work, compared>>

\* Delta reconcile meets f (its ctime is past the threshold) ...
ReconcileSee(f) ==
  /\ "reconcile" \in Moves /\ boot.phase = "done"
  /\ seen["scheduler"] = Nothing /\ present[f]
  /\ See("scheduler", [by |-> "upsert", file |-> f, fp |-> Version(f), fresh |-> fresh[f]])
  /\ UNCHANGED <<disk, pending, boot, db, work, compared>>

\* Mutant: the reconcile only inserts, as the initial walk does.
ReconcileInserting ==
  /\ seen["scheduler"].by = "upsert"
  /\ LET e == seen["scheduler"]
     IN rows' = [rows EXCEPT ![e.file] = IF @.state = "absent" THEN NewRow(e.fp, "due") ELSE @]
  /\ Drop("scheduler")
  /\ UNCHANGED <<disk, pending, boot, groups, work, compared>>

\* Mutant: the reconcile brings the fingerprint of a known row up to date.
ReconcileRefreshing ==
  /\ seen["scheduler"].by = "upsert"
  /\ LET e == seen["scheduler"]
     IN rows' = [rows EXCEPT ![e.file] =
          IF @.state = "absent" THEN NewRow(e.fp, "due") ELSE [@ EXCEPT !.fp = e.fp, !.enq = e.fp]]
  /\ Drop("scheduler")
  /\ UNCHANGED <<disk, pending, boot, groups, work, compared>>

\* ... and upserts it, due at once when the file is old.
ReconcileCommit ==
  /\ seen["scheduler"].by = "upsert"
  /\ LET e == seen["scheduler"]
     IN Upsert(e.file, e.fp, IF e.fresh THEN "later" ELSE "due")
  /\ Drop("scheduler")
  /\ UNCHANGED <<disk, pending, boot, work, compared>>

\* Presence scan: the walk meets f and keeps its fingerprint in a batch ...
PresenceSee(f) ==
  /\ "presence" \in Moves /\ boot.phase = "done"
  /\ seen["scheduler"] = Nothing /\ present[f]
  /\ See("scheduler", [by |-> "presence", file |-> f, fp |-> Version(f)])
  /\ UNCHANGED <<disk, pending, boot, db, work, compared>>

\* ... presence_seen upserts those of the batch that are missing by now.
PresenceCommit ==
  /\ seen["scheduler"].by = "presence"
  /\ LET e == seen["scheduler"]
     IN IF rows[e.file].state = "missing" THEN Upsert(e.file, e.fp, "due")
                                          ELSE UNCHANGED db
  /\ Drop("scheduler")
  /\ UNCHANGED <<disk, pending, boot, work, compared>>

\* presence_finish: a row whose file the walk did not meet.  Only rows not
\* updated since the walk began are marked, so the mark can be put at the
\* moment the walk missed the file.
PresenceFinish(f) ==
  /\ "presence" \in Moves /\ boot.phase = "done" /\ ~present[f]
  /\ rows' = [rows EXCEPT ![f] = MarkedMissing(@)]
  /\ UNCHANGED <<disk, pending, seen, boot, groups, work, compared>>

\* presence_expire: missing for longer than the retention.
Expire(f) ==
  /\ "expire" \in Moves /\ rows[f].state = "missing"
  /\ rows' = [rows EXCEPT ![f].state = "gone"]
  /\ UNCHANGED <<disk, pending, seen, boot, groups, work, compared>>

\* Mutant: the pointers to the row stay.
PurgeRowOnly(f) ==
  /\ "purge" \in Moves /\ rows[f].state = "gone"
  /\ rows' = [rows EXCEPT ![f] = NoRow]
  /\ UNCHANGED <<disk, pending, seen, boot, groups, work, compared>>

\* purge: the pointers to the row go first, then the row.
Purge(f) ==
  /\ "purge" \in Moves /\ rows[f].state = "gone"
  /\ rows' = [rows EXCEPT ![f] = NoRow]
  /\ groups' = [g \in 1..Len(groups) |->
                  [groups[g] EXCEPT !.canon = IF @ = f THEN NoFile ELSE @]]
  /\ UNCHANGED <<disk, pending, seen, boot, work, compared>>

\* nasdedup db unskip <path>, from another process.
Unskip(f) ==
  /\ "unskip" \in Moves /\ rows[f].state \notin {"absent", "gone"}
  /\ rows' = [rows EXCEPT ![f] =
       IF @.state = "skipped"
       THEN [@ EXCEPT !.state = "settling", !.ready = "due", !.prev = "skipped", !.skip = "none"]
       ELSE [@ EXCEPT !.skip = "none"]]
  /\ UNCHANGED <<disk, pending, seen, boot, groups, work, compared>>

\* requeue_verified, when deduplication is switched on for a prefix.
Requeue(f) ==
  /\ "requeue" \in Moves /\ rows[f].state = "verified"
  /\ rows' = [rows EXCEPT ![f].state = "hashed", ![f].ready = "due"]
  /\ UNCHANGED <<disk, pending, seen, boot, groups, work, compared>>

(* ------------------------------- worker ------------------------------- *)
(* A step of the worker: take a due row and look at the disk and the       *)
(* tables (Take...), read what has to be read (Finish...), write the       *)
(* transition (Commit).  `row` is the row as next_ready returned it.       *)

Decide(t) == work' = [phase |-> "commit", t |-> t]
Move(f, from, to, p) == Decide(Transition(f, from, to, p, {}, NoOp))
Stay(f, row, p)      == Move(f, row.state, row.state, p)

\* StepOutcome::Defer, written by worker::hoan.
Defer(f, row, until) == Stay(f, row, [ready |-> until])

\* The file is not under its path.
Lose(f, row) ==
  Move(f, row.state, "missing", [prev |-> row.state, ready |-> "null"])

\* Mutant: the row settles without a deadline.
BackWithoutDeadline(f, row) ==
  Move(f, row.state, "settling", [hash |-> NoHash, group |-> 0, ready |-> "null"])

\* quay_ve_settling: what is known of the content no longer holds.
BackToSettling(f, row) ==
  Move(f, row.state, "settling", [hash |-> NoHash, group |-> 0, ready |-> "later"])

\* cho_khung_gio, of sized and of hashed rows.
WaitHeavy(f, row) ==
  IF row.hws = "no" THEN Stay(f, row, [hws |-> "waiting", ready |-> "later"])
                    ELSE Defer(f, row, "later")

\* worker::that_bai after an error of the step.
Retry(f, row) ==
  IF row.attempts + 1 >= MaxAttempts
  THEN Move(f, row.state, "failed", [attempts |-> row.attempts + 1, ready |-> "null"])
  ELSE Stay(f, row, [attempts |-> row.attempts + 1, ready |-> "later"])

Skip(f, row, p) == Move(f, row.state, "skipped", p)

SkipPatch == [skip |-> "other", ready |-> "null"]

\* settle::buoc up to the open.
Settle(f, row) ==
  CASE ~present[f]                                -> Lose(f, row)
    [] present[f] /\ row.enq \notin {0, Version(f)} ->
         Stay(f, row, [enq |-> Version(f), ready |-> "later"])
    [] present[f] /\ row.enq \in {0, Version(f)} /\ fresh[f] -> Defer(f, row, "later")
    [] OTHER -> work' = [phase |-> "settle", file |-> f, row |-> row]

\* settle::buoc from the open: the identity comes from the descriptor.
SettleOpened(f, row) ==
  \/ ~present[f] /\ Lose(f, row)
  \/ /\ present[f]
     /\ \/ Move(f, "settling", "sized",
             [fp |-> Version(f), enq |-> Version(f), skip |-> "none", ready |-> "due"])
        \/ "ineligible" \in Faults
           /\ Skip(f, row, [fp |-> Version(f), skip |-> "other", ready |-> "null"])
        \/ "partial" \in Faults
           /\ Stay(f, row, [fp |-> Version(f), skip |-> "other", ready |-> "later"])

\* Mutant: a row that is distinct already is not looked at again.
SizedCandidates(f) ==
  {p \in Files \ {f} : rows[p].state = "sized" /\ ~(rows[p].fp = Version(p) /\ fresh[p])}

\* The candidates of f: sized or distinct, with a settled mtime.
Candidates(f) ==
  {p \in Files \ {f} : /\ rows[p].state \in {"sized", "distinct"}
                       /\ ~(rows[p].fp = Version(p) /\ fresh[p])}

\* What the query returns of them: no more than the limit, and those that have
\* a hash first.  Among these the oldest; which they are is left open.
Shortlists(f) ==
  LET all    == Candidates(f)
      hashed == {p \in all : rows[p].hash # NoHash}
  IN {cands \in SUBSET all :
        /\ \/ cands = all /\ Cardinality(all) <= MaxSizeGroup
           \/ Cardinality(cands) = MaxSizeGroup
        /\ cands \subseteq hashed \/ hashed \subseteq cands}

\* sua_ung_vien: change candidate p, and f tries again at once.
Repair(f, p, to, patch) ==
  Decide(Transition(f, "sized", "sized", [ready |-> "due", hws |-> "no"],
                    {Change(p, rows[p].state, to, patch)}, NoOp))

\* backfill up to the read: candidate p has no hash yet.
Backfill(f, row, p) ==
  \/ ~present[p] /\ Repair(f, p, "missing", [prev |-> rows[p].state, ready |-> "null"])
  \/ /\ present[p] /\ Version(p) # rows[p].fp
     /\ Repair(f, p, "settling",
               [fp |-> Version(p), hash |-> NoHash, group |-> 0, ready |-> "later"])
  \/ /\ present[p] /\ Version(p) = rows[p].fp
     /\ \/ work' = [phase |-> "backfill", file |-> f, row |-> row,
                    peer |-> p, peerRow |-> rows[p]]
        \/ "ineligible" \in Faults /\ Repair(f, p, "skipped", SkipPatch)

\* tao_nhom: f and the candidates with its hash become a group around c.
\* Which of them is the oldest is data the model does not keep.
NewGroup(f, row, same, c) ==
  LET ToHashed(p) == Change(p, rows[p].state, "hashed", [ready |-> "due"])
      ToCanon(p)  == Change(p, rows[p].state, "canonical", [ready |-> "null"])
  IN IF c = f
     THEN Decide(Transition(f, "sized", "canonical", [ready |-> "null"],
                            {ToHashed(p) : p \in same}, CreateGroup(f, row.hash)))
     ELSE Decide(Transition(f, "sized", "hashed", [ready |-> "due"],
                            {ToHashed(p) : p \in same \ {c}} \union {ToCanon(c)},
                            CreateGroup(c, row.hash)))

\* tim_ung_vien, from the query on: f among those it returned.
Match(f, row, heavy, cands) ==
  LET blind == {p \in cands : rows[p].hash = NoHash}
      same  == {p \in cands : rows[p].hash = row.hash}
  IN IF blind # {}
     THEN IF heavy THEN \E p \in blind : Backfill(f, row, p) ELSE Defer(f, row, "later")
     ELSE IF same = {}
     THEN Move(f, "sized", "distinct", [ready |-> "null"])
     ELSE \E c \in same \union {f} : NewGroup(f, row, same, c)

\* tim_ung_vien: no group has the hash of f.
FindCandidate(f, row, heavy) ==
  IF \E p \in Files \ {f} : rows[p].state = "settling" /\ rows[p].ready = "later"
  THEN Defer(f, row, "later")
  ELSE \E cands \in Shortlists(f) : Match(f, row, heavy, cands)

\* xep_cho: only the first group with the hash of f is considered.
Place(f, row, heavy) ==
  LET keyed == GroupsByKey(groups, row.hash)
      g     == Lowest(keyed)
      c     == CanonicalOf(rows, groups, g)
  IN IF keyed = {} THEN FindCandidate(f, row, heavy)
     ELSE IF c = NoFile \/ (c # NoFile /\ rows[c].state \in Lost)
     THEN Decide(Transition(f, "sized", "canonical", [group |-> g, ready |-> "null"],
                            {}, SetCanonical(g, f)))
     ELSE IF c = f
     THEN Move(f, "sized", "canonical", [group |-> g, ready |-> "null"])
     ELSE Move(f, "sized", "hashed", [group |-> g, ready |-> "due"])

\* sized::buoc, and tinh_hash up to the read.
Size(f, row, heavy) ==
  IF row.hash # NoHash
  THEN CASE ~present[f]                         -> Lose(f, row)
         [] present[f] /\ Version(f) # row.fp   -> BackToSettling(f, row)
         [] OTHER                               -> Place(f, row, heavy)
  ELSE IF ~heavy THEN WaitHeavy(f, row)
  ELSE \/ ~present[f] /\ Lose(f, row)
       \/ present[f] /\ Version(f) # row.fp /\ BackToSettling(f, row)
       \/ /\ present[f] /\ Version(f) = row.fp
          /\ \/ work' = [phase |-> "hash", file |-> f, row |-> row]
             \/ "ineligible" \in Faults /\ Skip(f, row, SkipPatch)

\* The hash that reading f returned, when reading began at version v: the
\* hash of that version, or of a mixture when somebody wrote meanwhile.
ReadHash(f, v) == IF Version(f) = v THEN {HashOf[Body(f, v)]} ELSE Hashes

\* tinh_hash from the read: fp1 taken from the same descriptor.
Hashed(f, row) ==
  IF Version(f) # row.fp THEN BackToSettling(f, row)
  ELSE Stay(f, row, [hash |-> HashOf[Body(f, row.fp)], hws |-> "no", ready |-> "due"])

\* backfill from the read: no second fingerprint is taken.
Backfilled(f, p, old) ==
  \E h \in ReadHash(p, old.fp) :
    Decide(Transition(f, "sized", "sized", [ready |-> "due", hws |-> "no"],
                      {Change(p, old.state, old.state, [hash |-> h])}, NoOp))

\* goc_mat_tich, goc_da_doi: f takes the place of canonical c in its group.
Succeed(f, g, c, to, patch) ==
  Decide(Transition(f, "hashed", "canonical", [ready |-> "null"],
                    {Change(c, rows[c].state, to, patch)}, SetCanonical(g, f)))

\* verify::xac_minh up to the call of the backend: f against canonical c.
Open(f, row, c) ==
  LET g == row.group
  IN CASE ~present[c] ->
            Succeed(f, g, c, "missing", [prev |-> rows[c].state, ready |-> "null"])
       [] present[c] /\ ~present[f] -> Lose(f, row)
       [] present[c] /\ present[f] /\ Version(f) # row.fp -> BackToSettling(f, row)
       [] present[c] /\ present[f] /\ Version(f) = row.fp /\ Version(c) # rows[c].fp ->
            Succeed(f, g, c, "settling", [hash |-> NoHash, group |-> 0, ready |-> "later"])
       [] OTHER ->
            \/ work' = [phase |-> "compare", file |-> f, row |-> row,
                        peer |-> c, peerRow |-> rows[c]]
            \/ "ineligible" \in Faults /\ Skip(f, row, SkipPatch)

\* verify::buoc.
Verify(f, row, heavy) ==
  LET g == row.group
      c == CanonicalOf(rows, groups, g)
  IN IF g = 0 THEN Move(f, "hashed", "sized", [ready |-> "due"])
     ELSE IF ~heavy THEN WaitHeavy(f, row)
     ELSE IF c = NoFile
     THEN Decide(Transition(f, "hashed", "canonical", [ready |-> "null"],
                            {}, SetCanonical(g, f)))
     ELSE IF c = f THEN Move(f, "hashed", "canonical", [ready |-> "null"])
     ELSE \/ Open(f, row, c)
          \/ "too_large" \in Faults /\ Stay(f, row, [skip |-> "parked", ready |-> "null"])

\* giong_nhau: the backend found f and peer c equal.
Same(f, row) ==
  Move(f, "hashed", IF SharesExtents THEN "deduped" ELSE "verified",
       [fp |-> row.fp, ready |-> "null", attempts |-> 0])

\* Mutant: any other group will do.
DiffersAnywhere(f, row) ==
  LET others == GroupsByKey(groups, row.hash) \ {row.group}
  IN IF others # {}
     THEN Stay(f, row, [group |-> Lowest(others), ready |-> "due"])
     ELSE Decide(Transition(f, "hashed", "canonical", [group |-> 0, ready |-> "null"],
                            {}, CreateGroup(f, row.hash)))

\* khac_nhau: the next group with the same hash, or a new one.
Differs(f, row) ==
  LET next == {g \in GroupsByKey(groups, row.hash) : g > row.group}
  IN IF next # {}
     THEN Stay(f, row, [group |-> Lowest(next), ready |-> "due"])
     ELSE Decide(Transition(f, "hashed", "canonical", [group |-> 0, ready |-> "null"],
                            {}, CreateGroup(f, row.hash)))

\* attempts only ever meets the two limits: counting stops at the larger one.
Counted(n) == IF n < MaxAttempts \/ n < MaxUnstable THEN n + 1 ELSE n

\* xu_ly_loi with the policy of errno.rs for the error of the backend.
BackendError(f, row, policy) ==
  CASE policy = "stopped"     -> Defer(f, row, "later")
    [] policy = "eintr"       -> Defer(f, row, "due")
    [] policy = "changed"     ->
         LET n == Counted(row.attempts)
         IN Move(f, "hashed", "settling",
                 [attempts |-> n, skip |-> IF n >= MaxUnstable THEN "other" ELSE "none",
                  hash |-> NoHash, group |-> 0, ready |-> "later"])
    [] policy = "busy"        -> Stay(f, row, [attempts |-> Counted(row.attempts), ready |-> "later"])
    [] policy = "unsupported" -> Stay(f, row, [skip |-> "parked", ready |-> "null"])
    [] policy = "pair"        -> Move(f, "hashed", "sized",
                                      [group |-> 0, skip |-> "other", ready |-> "due"])
    [] policy = "fatal"       -> Move(f, "hashed", "failed", [ready |-> "null"])

Policies == {"stopped", "eintr", "busy", "changed", "unsupported", "pair", "fatal"}

\* Does the step of row open a file or ask the repository, and so may fail?
Fallible(row, heavy) ==
  \/ row.state = "settling"
  \/ row.state = "sized" /\ (heavy \/ row.hash # NoHash)
  \/ row.state = "hashed" /\ heavy /\ row.group # 0

\* mot_vong: next_ready, and the step of the row up to its long read.
Take(f, heavy) ==
  /\ work = Idle /\ boot.phase = "done" /\ IsReady(rows[f], heavy)
  /\ \/ rows[f].state = "settling" /\ Settle(f, rows[f])
     \/ rows[f].state = "sized" /\ Size(f, rows[f], heavy)
     \/ rows[f].state = "hashed" /\ Verify(f, rows[f], heavy)
     \/ "io" \in Faults /\ Fallible(rows[f], heavy) /\ Retry(f, rows[f])
  /\ UNCHANGED <<disk, pending, seen, boot, db, compared>>

FinishSettle ==
  /\ work.phase = "settle"
  /\ SettleOpened(work.file, work.row)
  /\ UNCHANGED <<disk, pending, seen, boot, db, compared>>

FinishHash ==
  /\ work.phase = "hash"
  /\ \/ Hashed(work.file, work.row)
     \/ "io" \in Faults /\ Retry(work.file, work.row)
  /\ UNCHANGED <<disk, pending, seen, boot, db, compared>>

FinishBackfill ==
  /\ work.phase = "backfill"
  /\ \/ Backfilled(work.file, work.peer, work.peerRow)
     \/ "io" \in Faults /\ Retry(work.file, work.row)
  /\ UNCHANGED <<disk, pending, seen, boot, db, compared>>

\* The comparison of work.file with work.peer as the versions opened, unless
\* somebody wrote one of them while it ran.
Clean == Version(work.file) = work.row.fp /\ Version(work.peer) = work.peerRow.fp

\* Mutant: equal hashes are taken for equal bytes.
EqualHash == HashOf[Body(work.file, work.row.fp)] = HashOf[Body(work.peer, work.peerRow.fp)]

Equal == Body(work.file, work.row.fp) = Body(work.peer, work.peerRow.fp)

Comparison(same) ==
  [file |-> work.file, ver |-> work.row.fp, peer |-> work.peer, pver |-> work.peerRow.fp,
   clean |-> Clean, same |-> same]

FinishSame ==
  /\ work.phase = "compare" /\ ReportVerify
  /\ Clean => Equal
  /\ compared' = compared \union {Comparison(TRUE)}
  /\ Same(work.file, work.row)
  /\ UNCHANGED <<disk, pending, seen, boot, db>>

FinishDiffers ==
  /\ work.phase = "compare" /\ ReportVerify
  /\ Clean => ~Equal
  /\ compared' = compared \union {Comparison(FALSE)}
  /\ Differs(work.file, work.row)
  /\ UNCHANGED <<disk, pending, seen, boot, db>>

FinishError ==
  /\ work.phase = "compare"
  /\ \E policy \in Policies :
       /\ IF ReportVerify THEN policy \in Faults ELSE policy = "stopped"
       /\ BackendError(work.file, work.row, policy)
  /\ UNCHANGED <<disk, pending, seen, boot, db, compared>>

Commit ==
  /\ work.phase = "commit"
  /\ rows' = AppliedRows(rows, groups, work.t)
  /\ groups' = AppliedGroups(rows, groups, work.t)
  /\ work' = Idle
  /\ UNCHANGED <<disk, pending, seen, boot, compared>>

(* ------------------------------ the system ---------------------------- *)

\* At first the table is empty.  Booted: every file was just created.  Not
\* booted: the files were there before the daemon was installed.  A file with
\* an empty history is still outside the watched roots.
Init ==
  /\ history \in [Files -> {<<c>> : c \in Contents} \union
                           (IF "move_in" \in Moves THEN {<<>>} ELSE {})]
  /\ present = [f \in Files |-> history[f] # <<>>]
  /\ mishaps = 0
  /\ fresh \in IF Booted THEN {present} ELSE {s \in [Files -> BOOLEAN] : \A f \in Files : s[f] => present[f]}
  /\ pending = [f \in Files |-> IF Booted /\ present[f] THEN <<"touched">> ELSE <<>>]
  /\ seen = [t \in Threads |-> Nothing]
  /\ boot = IF Booted THEN [phase |-> "done", left |-> {}]
                      ELSE [phase |-> "A", left |-> Files]
  /\ rows = [f \in Files |-> NoRow]
  /\ groups = <<>>
  /\ work = Idle
  /\ compared = {}

Environment ==
  \/ \E f \in Files : \/ Write(f) \/ MoveIn(f) \/ Vanish(f) \/ Return(f)
                      \/ Age(f) \/ FallDue(f) \/ Overdue(f) \/ Unskip(f)
  \/ Crash

Watcher ==
  \/ \E f \in Files : WatchTouched(f) \/ WatchRemoved(f) \/ WatchMovedOut(f)
  \/ WatchCommit

\* The walks that have begun ...
Walk ==
  \/ \E f \in Files : WalkSee(f)
  \/ WalkInsert \/ ScanPhaseB \/ ReconcileCommit \/ PresenceCommit

\* ... and what the scheduler and the commands may begin.
Scheduler ==
  \E f \in Files : \/ ReconcileSee(f) \/ PresenceSee(f) \/ PresenceFinish(f)
                   \/ Expire(f) \/ Purge(f) \/ Requeue(f)

Finish ==
  \/ FinishSettle \/ FinishHash \/ FinishBackfill
  \/ FinishSame \/ FinishDiffers \/ FinishError \/ Commit

Worker == Finish \/ \E f \in Files, heavy \in HeavyAllowed : Take(f, heavy)

Next == Environment \/ Watcher \/ Walk \/ Scheduler \/ Worker

Spec == Init /\ [][Next]_vars

\* The three threads go on with what they have begun; time passes; and as long
\* as rows keep falling due the worker takes one in the heavy window again and
\* again, because the window comes round and next_ready serves what is due.
\* Nothing obliges the environment or the optional steps.
Fairness ==
  /\ WF_vars(Watcher) /\ WF_vars(Walk) /\ WF_vars(Finish)
  /\ \A f \in Files : WF_vars(Age(f)) /\ WF_vars(FallDue(f))
  /\ SF_vars(\E f \in Files : TRUE \in HeavyAllowed /\ Take(f, TRUE))

FairSpec == Spec /\ Fairness

\* The scheduler also keeps to its timetable of delta reconciles.
HealingSpec == FairSpec /\ \A f \in Files : SF_vars(ReconcileSee(f))

(* ----------------------------- properties ----------------------------- *)

SeenEntry ==
  {Nothing}
  \union [by : {"upsert"}, file : Files, fp : Nat]
  \union [by : {"upsert"}, file : Files, fp : Nat, fresh : BOOLEAN]
  \union [by : {"insert"}, file : Files, fp : Nat, fresh : BOOLEAN]
  \union [by : {"presence"}, file : Files, fp : Nat]

\* The types of the variables; what `work` may hold is WorkOK of
\* PipelineProofs.
TypeOK ==
  /\ history \in [Files -> Seq(Contents)]
  /\ present \in [Files -> BOOLEAN]
  /\ mishaps \in 0..MaxMishaps
  /\ fresh \in [Files -> BOOLEAN]
  /\ pending \in [Files -> Seq({"touched", "removed", "moved_out"})]
  /\ DOMAIN seen = Threads /\ \A t \in Threads : seen[t] \in SeenEntry
  /\ boot \in [phase : {"A", "done"}, left : SUBSET Files]
  /\ rows \in [Files -> Row]
  /\ groups \in Seq(Group)

\* A comparison that found f, at version v, equal to another file: equal for
\* sure if neither was written while it ran.
Evidence(f, v) ==
  \E e \in compared : /\ e.file = f /\ e.ver = v /\ e.same
                      /\ e.clean => Body(f, v) = Body(e.peer, e.pver)

\* A row that says verified or deduped, or that would say so again when its
\* missing file returns, is backed by a byte comparison of exactly the version
\* it records: verify.rs is the only place where two files become equal, no
\* matter what the other threads did between the take and the commit.
VerifiedSound ==
  \A f \in Files :
    \/ rows[f].state \in Proven
    \/ rows[f].state = "missing" /\ rows[f].prev \in Proven
    => Evidence(f, rows[f].fp)

\* The watcher knows of every version of f that the row does not record.
Tracked(f) ==
  \/ pending[f] # <<>>
  \/ /\ seen["watcher"] # Nothing
     /\ seen["watcher"].file = f /\ seen["watcher"].fp = Version(f)

\* While no event is lost: a claim of equality about a version that was
\* overwritten always has an event on its way that will withdraw it.  The
\* upsert, the walks holding an older fingerprint and the worker's
\* compare-and-swap may interleave in any order.
ClaimsTracked ==
  \A f \in Files :
    rows[f].state \in Proven /\ present[f] /\ rows[f].fp # Version(f) => Tracked(f)

\* A row in the queue is never without a deadline, so next_ready will return
\* it: but for a sized row the initial scan will wake in its phase B, and a
\* hashed row that is parked with its reason.
SettlingHasDeadline ==
  \A f \in Files :
    /\ rows[f].state = "settling" => rows[f].ready # "null"
    /\ rows[f].state = "sized" /\ rows[f].ready = "null" => boot.phase = "A"
    /\ rows[f].state = "hashed" /\ rows[f].ready = "null" => rows[f].skip = "parked"

\* The hash kept for a version is the hash of that version: nothing read from
\* a file while it was written survives as the hash of what it became.
HashSound ==
  \A f \in Files :
    rows[f].hash # NoHash /\ rows[f].fp = Version(f) /\ rows[f].state \notin Lost
    => rows[f].hash = HashOf[Body(f, rows[f].fp)]

\* A group never points to a row that is not in the table any more, whatever
\* purge, upserts and the worker's group operations do in between.
PointerExists ==
  \A g \in 1..Len(groups) :
    groups[g].canon # NoFile => rows[groups[g].canon].state # "absent"

\* Nothing is under way.
Quiescent ==
  /\ pending = [f \in Files |-> <<>>] /\ seen = [t \in Threads |-> Nothing]
  /\ boot = [phase |-> "done", left |-> {}] /\ work = Idle
  /\ \A f \in Files : rows[f].state \in Queued => rows[f].ready = "null"

\* When the daemon comes to rest it knows every file in its present version.
NothingForgotten ==
  Quiescent =>
    \A f \in Files : present[f] =>
      rows[f].state \notin Lost \union {"absent"} /\ rows[f].fp = Version(f)

\* When the daemon comes to rest no row is left in the queue but those that
\* are parked on purpose: a row without a deadline would wait for ever.
NothingStuck ==
  Quiescent =>
    \A f \in Files : rows[f].state \in Queued =>
      rows[f].state = "hashed" /\ rows[f].skip = "parked"

\* Two files with the same content that are both called unique.
Missed(f, p) ==
  /\ f # p /\ Body(f, Version(f)) = Body(p, Version(p))
  /\ \A q \in {f, p} : present[q] /\ rows[q].state \in {"distinct", "canonical"}

\* No more files of the size than the query returns, and the one that asks.
ClassFits == Cardinality(Files) <= MaxSizeGroup + 1

\* As long as no file is overwritten, of two files with the same content one
\* at least has been found equal to something when the daemon comes to rest,
\* however many groups share the hash: provided that the query for candidates
\* cuts none of them off.
NoMissedDuplicate ==
  Quiescent /\ (\A f \in Files : Len(history[f]) = 1) /\ ClassFits
  => ~\E f, p \in Files : Missed(f, p)

\* ... and two files nobody overwrites do not depend on what becomes of a
\* third: a file that opens a group of its own because all the others differ
\* "is the only copy of the content it carries" (verify.rs:226), so the next
\* copy of it has to find it.
UniqueIsUnique ==
  Quiescent =>
    ~\E f, p \in {q \in Files : Len(history[q]) = 1} : Missed(f, p)

\* Once the files are left alone the queue drains, whatever the delta reconciles
\* that go on for ever tell the database: no row keeps the worker busy, or
\* comes back to it, for ever.
Converges ==
  <>[](work = Idle /\ \A f \in Files : rows[f].state \in Queued => rows[f].ready = "null")

\* Events lost in a crash do not leave a false claim for ever: the delta
\* reconcile finds the overwritten file.
Heals ==
  []<>(\A f \in Files : rows[f].state \in Proven => rows[f].fp = Version(f))
=============================================================================
