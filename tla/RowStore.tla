------------------------------ MODULE RowStore ------------------------------
(***************************************************************************)
(* The two tables the pipeline works on, `files` and `content_groups`, and *)
(* the transactions the repository offers on them (crates/db,              *)
(* crates/core/src/repo).  Everything here is a pure operator: a           *)
(* transaction takes the tables and returns the tables after COMMIT; the   *)
(* database actor runs them one at a time, so each is one step of whoever  *)
(* calls it.                                                               *)
(*                                                                         *)
(* Data abstraction.  Every file lies in one domain and one size class and *)
(* keeps one path.  A fingerprint (size, mtime, ctime) is the number of    *)
(* the write that produced it, so two fingerprints of a file are equal     *)
(* exactly when no write lies between them.  `ready_at` is "null", "due"   *)
(* (<= now) or "later"; `heavy_wait_since` is "no", "waiting" or "overdue" *)
(* (older than max_wait).  0 stands for NULL in `enq` and `group`.         *)
(***************************************************************************)
EXTENDS Naturals, Sequences

CONSTANTS Files,    \* the inodes of the watched roots
          Hashes    \* the values sparse_hash can take

NoFile == "nofile"
NoHash == "nohash"

ASSUME NullAssumption == NoFile \notin Files /\ NoHash \notin Hashes

(* ------------------------------- rows --------------------------------- *)

Queued  == {"settling", "sized", "hashed"}
Proven  == {"verified", "deduped"}
Resting == Proven \union {"distinct", "canonical", "skipped", "failed"}
Lost    == {"missing", "gone"}
State   == Queued \union Resting \union Lost

\* A row of content_groups: the hash of its members, and the canonical one.
Group == [hash : Hashes \union {NoHash}, canon : Files \union {NoFile}]

\* A file without a row in the table is a row in state "absent".
Row == [state    : State \union {"absent"},
        prev     : State \union {"none"},
        ready    : {"null", "due", "later"},
        fp       : Nat,
        enq      : Nat,
        hash     : Hashes \union {NoHash},
        group    : Nat,
        skip     : {"none", "parked", "user_undo", "other"},
        attempts : Nat,
        hws      : {"no", "waiting", "overdue"}]

BlankRow(state, v, ready) ==
  [state |-> state, prev |-> "none", ready |-> ready, fp |-> v, enq |-> v,
   hash |-> NoHash, group |-> 0, skip |-> "none", attempts |-> 0, hws |-> "no"]

NoRow == BlankRow("absent", 0, "null")

\* The INSERT branch of the upsert.
NewRow(v, ready) == BlankRow("settling", v, ready)

\* Table 4.4: what a row found again goes back to.
RestoreTarget(prev) ==
  IF prev \in Queued \union Resting THEN prev ELSE "settling"

\* Mutant: a missing row goes back to what it was without a look at the file.
UpsertedUnchecked(row, v, ready) ==
  IF row.state = "missing"
  THEN [row EXCEPT !.state = RestoreTarget(row.prev), !.ready = "due", !.enq = v]
  ELSE IF row.fp = v THEN [row EXCEPT !.enq = v]
  ELSE [row EXCEPT !.state = "settling", !.ready = ready, !.enq = v, !.hash = NoHash, !.group = 0]

\* Mutant: what was looked at before is looked at again.
UpsertedAnew(row, v, ready) ==
  [row EXCEPT !.state = "settling", !.ready = ready, !.enq = v, !.hash = NoHash, !.group = 0]

\* Mutant: a row that has changed keeps the hash of its old content.
UpsertedKeepingHash(row, v, ready) ==
  IF row.fp = v THEN [row EXCEPT !.enq = v]
  ELSE [row EXCEPT !.state = "settling", !.ready = ready, !.enq = v, !.group = 0]

\* The ON CONFLICT branch: fingerprint v was seen for a row already stored.
Upserted(row, v, ready) ==
  LET same  == row.fp = v
      undo  == row.skip = "user_undo"
      back  == row.state = "missing" /\ same
      state == IF back THEN RestoreTarget(row.prev)
               ELSE IF same \/ undo THEN row.state
               ELSE "settling"
  IN [row EXCEPT
        !.state    = state,
        !.prev     = IF same \/ row.state \in Queued THEN @ ELSE row.state,
        !.ready    = IF back THEN IF state \in Queued THEN ready ELSE "null"
                     ELSE IF same /\ row.state \notin Queued THEN @
                     ELSE ready,
        !.enq      = v,
        !.hws      = IF same THEN @ ELSE "no",
        !.attempts = IF same THEN @ ELSE 0,
        !.hash     = IF same THEN @ ELSE NoHash,
        !.group    = IF same THEN @ ELSE 0,
        !.skip     = IF same \/ undo THEN @ ELSE "none"]

\* Mutant: the INSERT is forgotten.
UpsertRowUpdating(row, v, ready) == Upserted(row, v, ready)

UpsertRow(row, v, ready) ==
  IF row.state = "absent" THEN NewRow(v, ready) ELSE Upserted(row, v, ready)

\* SET_MISSING, skipping the rows that are missing or gone already.
MarkedMissing(row) ==
  IF row.state \in Lost \union {"absent"} THEN row
  ELSE [row EXCEPT !.state = "missing", !.prev = row.state,
                   !.ready = "null", !.hws = "no"]

(* --------------------------- transitions ------------------------------ *)
(* A patch is a record over some of the columns; the columns it does not   *)
(* mention keep their value.  `hws` goes back to NULL when the state       *)
(* changes, unless the patch sets it.                                      *)

Column(p, c, old) == IF c \in DOMAIN p THEN p[c] ELSE old

Patched(row, to, p) ==
  [state    |-> to,
   prev     |-> Column(p, "prev", row.prev),
   ready    |-> Column(p, "ready", row.ready),
   fp       |-> Column(p, "fp", row.fp),
   enq      |-> Column(p, "enq", row.enq),
   hash     |-> Column(p, "hash", row.hash),
   group    |-> Column(p, "group", row.group),
   skip     |-> Column(p, "skip", row.skip),
   attempts |-> Column(p, "attempts", row.attempts),
   hws      |-> Column(p, "hws", IF row.state = to THEN row.hws ELSE "no")]

Change(f, from, to, p) == [file |-> f, from |-> from, to |-> to, patch |-> p]

\* UPDATE files SET ... WHERE id = ? AND state = ?from
CasUpdate(row, c) ==
  IF row.state = c.from THEN Patched(row, c.to, c.patch) ELSE row

NoOp                == [op |-> "none"]
CreateGroup(c, h)   == [op |-> "create", canon |-> c, hash |-> h]
SetCanonical(g, c)  == [op |-> "set_canonical", group |-> g, canon |-> c]

\* A transition: the change of the row itself, the best-effort changes of
\* other rows, and one group operation, all in one transaction.
Transition(f, from, to, p, others, op) ==
  [self |-> Change(f, from, to, p), others |-> others, op |-> op]

\* The constraint checks that abort the transaction before it writes.
Rejected(rows, t) ==
  /\ t.op.op = "create"
  /\ \/ rows[t.self.file].state = "absent"
     \/ rows[t.op.canon].state = "absent"

\* Does the compare-and-swap on the state of the row itself succeed?
Applies(rows, t) == rows[t.self.file].state = t.self.from /\ ~Rejected(rows, t)

ChangedRows(rows, t) ==
  [f \in Files |->
     IF f = t.self.file THEN CasUpdate(rows[f], t.self)
     ELSE IF \E c \in t.others : c.file = f
          THEN CasUpdate(rows[f], CHOOSE c \in t.others : c.file = f)
          ELSE rows[f]]

\* The group column after the group operation of t.
GroupAfter(f, old, t, new) ==
  CASE t.op.op = "create" /\ f \in {t.self.file, t.op.canon} -> new
    [] t.op.op = "set_canonical" /\ f = t.op.canon            -> t.op.group
    [] OTHER                                                  -> old

AppliedRows(rows, groups, t) ==
  IF ~Applies(rows, t) THEN rows
  ELSE LET changed == ChangedRows(rows, t)
       IN [f \in Files |->
             [changed[f] EXCEPT
                !.group = GroupAfter(f, @, t, Len(groups) + 1)]]

AppliedGroups(rows, groups, t) ==
  IF ~Applies(rows, t) THEN groups
  ELSE CASE t.op.op = "create" ->
              Append(groups, [hash |-> t.op.hash, canon |-> t.op.canon])
         [] t.op.op = "set_canonical" ->
              [groups EXCEPT ![t.op.group].canon = t.op.canon]
         [] OTHER -> groups

\* The upsert takes the canonical pointer away from a row that it has just
\* made leave its group.
UpsertGroups(rows, groups, f, v, ready) ==
  LET g == rows[f].group
  IN IF g # 0 /\ UpsertRow(rows[f], v, ready).group = 0 /\ groups[g].canon = f
     THEN [groups EXCEPT ![g].canon = NoFile]
     ELSE groups

(* ----------------------------- queries -------------------------------- *)

\* next_ready: due rows of the queue; a hashed row needs the heavy window or
\* a wait longer than max_wait.
IsReady(row, heavy) ==
  /\ row.state \in Queued /\ row.ready = "due"
  /\ heavy \/ row.state \in {"settling", "sized"} \/ row.hws = "overdue"

Members(rows, g) == {f \in Files : rows[f].group = g}

\* The canonical row of a group as the pipeline looks it up: the pointer,
\* when the row it names is still a member.
CanonicalOf(rows, groups, g) ==
  IF groups[g].canon \in Members(rows, g) THEN groups[g].canon ELSE NoFile

GroupsByKey(groups, h) == {g \in 1..Len(groups) : groups[g].hash = h}

Lowest(S) == CHOOSE g \in S : \A k \in S : g <= k
=============================================================================
