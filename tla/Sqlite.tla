------------------------------- MODULE Sqlite -------------------------------
(***************************************************************************)
(* The repository the daemon runs on: the same calls as module Repository, *)
(* written as the SQL statements of crates/db.  One call is one            *)
(* transaction, so one step, but the statements inside it run one after    *)
(* the other and each sees what the one before it left.                    *)
(*                                                                         *)
(* The table gives a new row the id 1 + the largest one in use (INTEGER    *)
(* PRIMARY KEY without AUTOINCREMENT), the open presence session is a pair *)
(* of temporary tables, and an error half way through rolls back.          *)
(*                                                                         *)
(* That this implements Repository is property ActsAsMemory; `born` and    *)
(* `births` are history variables for it: the ids a counter would have     *)
(* given.                                                                  *)
(***************************************************************************)
EXTENDS Naturals, Sequences, FiniteSets, FiniteSetsExt, SequencesExt

CONSTANTS
  Keys,        \* the inodes
  Kind,        \* Kind[r]: "local" or "remote", for the registered roots r
  Sightings,   \* what the threads saw: [key, fp, loc], loc = [root, path]
  Dirs,        \* the directories that calls name
  Fps,         \* the fingerprints the worker reads
  Waits,       \* how far in the future a deadline is put
  Walked,      \* the roots presence scans walk
  ScanBatches, \* the batches an initial scan inserts: [key, fp, loc, state]
  SeenBatches, \* the batches a presence scan reports
  Allowed,     \* the sets of directories a requeue allows
  Starts,      \* the tables a run may start from: [files, groups]
  MaxCalls,    \* bound: the calls made
  MaxNow,      \* bound: the clock
  MaxRows,     \* bound: rows ever inserted
  MaxGroups,   \* bound: groups ever made
  Undoing,     \* are finished rows taken apart by `undo`
  Hurried      \* does every step end before the row it holds is purged

VARIABLES
  now,
  files,    \* table files, by its unique key; id is the rowid
  content_groups,
  seen,     \* temp.presence_seen
  session,  \* temp.presence_session: the set of its rows, {} without table
  held,     \* [id, from]: the row a caller read; `born` for the history
  born,     \* born[k]: which insertion made the row of k
  births,   \* insertions so far
  call,     \* the last call and its arguments
  answer,   \* what it returned
  calls     \* how many there were

vars == <<now, files, content_groups, seen, session, held, born, births, call, answer, calls>>
tables == <<files, content_groups>>

NULL    == 0
Absent  == [id |-> NULL]
Nobody  == [id |-> NULL, from |-> "none", born |-> 0]
Queue   == {"settling", "sized", "hashed"}
Dead    == {"missing", "gone"}

(* ----------------------------- statements ----------------------------- *)

InUse(f) == {k \in Keys : f[k].id # NULL}

\* Mutant: the number of rows is taken for the largest id.
CountedRowid(f) == Cardinality(InUse(f)) + 1

\* INTEGER PRIMARY KEY
NewRowid(f) == IF InUse(f) = {} THEN 1 ELSE Max({f[k].id : k \in InUse(f)}) + 1

\* UPDATE files SET ... WHERE ...: the set of keys W is the WHERE clause.
Updating(f, W, set(_)) == [k \in Keys |-> IF k \in W THEN set(f[k]) ELSE f[k]]

ById(f, id) == {k \in InUse(f) : f[k].id = id}

\* UPDATE content_groups SET canonical_file_id = NULL WHERE ...
Uncrown(gs, W) == [g \in DOMAIN gs |-> IF g \in W THEN [gs[g] EXCEPT !.canon = NULL] ELSE gs[g]]

\* (size, mtime_ns [, ctime_ns]) IS (...)
FpIs(kind, row, fp) ==
  IF kind = "local" THEN <<row.fp.body, row.fp.ctime>> = <<fp.body, fp.ctime>>
                    ELSE row.fp.body = fp.body

Restored(row) ==
  IF row.prev \in {"settling", "sized", "hashed", "verified", "distinct", "canonical", "skipped"}
  THEN row.prev ELSE "settling"

\* ready_at of a row that comes back in `state`.
Awake(state, ready) == IF state \in Queue THEN ready ELSE NULL

\* INSERT INTO files (...) VALUES (...)
Inserted(f, fp, loc, state, ready) ==
  [id |-> NewRowid(f), loc |-> loc, fp |-> fp, state |-> state, prev |-> "none",
   ready |-> ready, waits |-> NULL, known |-> FALSE, group |-> NULL, skip |-> "none",
   updated |-> now]

\* ON CONFLICT (sub_id, ino) DO UPDATE SET ...: one CASE per column.
OnConflict(row, fp, kind, loc, ready) ==
  LET fp_same == FpIs(kind, row, fp)
  IN [id      |-> row.id,
      fp      |-> row.fp,
      loc     |-> loc,
      state   |-> CASE row.state = "missing" /\ fp_same         -> Restored(row)
                    [] row.state # "missing" /\ fp_same         -> row.state
                    [] ~fp_same /\ row.skip = "user_undo"       -> row.state
                    [] ~fp_same /\ row.skip # "user_undo"       -> "settling",
      prev    |-> IF fp_same \/ row.state \in Queue THEN row.prev ELSE row.state,
      ready   |-> CASE row.state = "missing" /\ fp_same -> Awake(Restored(row), ready)
                    [] row.state \notin Queue \union {"missing"} /\ fp_same -> row.ready
                    [] row.state \in Queue \/ ~fp_same          -> ready,
      waits   |-> IF fp_same THEN row.waits ELSE NULL,
      known   |-> IF fp_same THEN row.known ELSE FALSE,
      group   |-> IF fp_same THEN row.group ELSE NULL,
      skip    |-> IF fp_same \/ row.skip = "user_undo" THEN row.skip ELSE "none",
      updated |-> now]

\* upsert_in_tx on the tables db = [f, gs]: read the old group, insert or
\* update, then take the canonical pointer away from a row that has left.
UpsertInTx(db, k, fp, loc, ready, kind) ==
  LET stored    == k \in InUse(db.f)
      was_group == IF stored THEN db.f[k].group ELSE NULL
      row == IF stored THEN OnConflict(db.f[k], fp, kind, loc, ready)
             ELSE Inserted(db.f, fp, loc, "settling", ready)
      f   == [db.f EXCEPT ![k] = row]
      W   == {g \in DOMAIN db.gs : /\ g = was_group /\ db.gs[g].canon = row.id
                                   /\ f[k].group = NULL}
  IN [f |-> f, gs |-> Uncrown(db.gs, W)]

\* SET_MISSING ... WHERE state NOT IN ('missing','gone')
SetMissing(f, W, at) ==
  LET set(row) == [row EXCEPT !.prev = row.state, !.state = "missing", !.ready = NULL,
                              !.waits = NULL, !.updated = at]
  IN Updating(f, {k \in W : f[k].state \notin Dead}, set)

\* duoi_thu_muc: rel_path = :dir or within the range of :dir/...
Below(loc, dir) ==
  /\ loc.root = dir.root
  /\ \/ dir.path = << >> \/ loc.path = dir.path
     \/ /\ Len(loc.path) > Len(dir.path)
        /\ SubSeq(loc.path, 1, Len(dir.path)) = dir.path

(* ------------------------------- calls -------------------------------- *)

Db        == [f |-> files, gs |-> content_groups]
Commit(db) == files' = db.f /\ content_groups' = db.gs
Ok(n)     == answer' = <<n>>
Called(c) == calls < MaxCalls /\ calls' = calls + 1 /\ call' = c
others    == <<now, seen, session, held, born, births>>
Refuse    == answer' = << >> /\ UNCHANGED <<tables, others>>

Execute(f, n) == Commit([f |-> f, gs |-> content_groups]) /\ Ok(n) /\ UNCHANGED others

UpsertPending(k, fp, loc, wait) ==
  /\ Called(<<"upsert", k, fp, loc, wait>>)
  /\ IF loc.root \notin DOMAIN Kind THEN Refuse
     ELSE LET db    == UpsertInTx(Db, k, fp, loc, now + wait, Kind[loc.root])
              fresh == k \notin InUse(files)
          IN /\ fresh => births < MaxRows
             /\ Commit(db)
             /\ births' = IF fresh THEN births + 1 ELSE births
             /\ born'   = IF fresh THEN [born EXCEPT ![k] = births + 1] ELSE born
             /\ Ok(IF db.f[k].state \in Queue THEN 0 ELSE 1)
             /\ UNCHANGED <<now, seen, session, held>>

\* Row by row in one transaction: look the root up, then INSERT ... ON
\* CONFLICT DO NOTHING; the first root that is not registered rolls back.
InsertEntry(acc, e) ==
  IF acc.bad \/ e.loc.root \notin DOMAIN Kind THEN [acc EXCEPT !.bad = TRUE]
  ELSE IF e.key \in InUse(acc.f) THEN acc
  ELSE [acc EXCEPT !.n = @ + 1, !.born[e.key] = births + acc.n + 1,
          !.f[e.key] = Inserted(acc.f, e.fp, e.loc, e.state,
                                IF e.state = "sized" THEN NULL ELSE now)]

InsertBatch(batch) ==
  FoldLeft(InsertEntry, [f |-> files, n |-> 0, born |-> born, bad |-> FALSE], batch)

ScanInsert(batch) ==
  LET end == InsertBatch(batch)
  IN /\ Called(<<"scan_insert", batch>>)
     /\ IF end.bad THEN Refuse
        ELSE /\ births + end.n <= MaxRows
             /\ files' = end.f /\ born' = end.born /\ births' = births + end.n
             /\ Ok(end.n)
             /\ UNCHANGED <<now, content_groups, seen, session, held>>

\* Two UPDATEs: the first wakes the rows with a twin, the second makes what
\* is still asleep distinct.
ScanPhaseB(root) ==
  LET asleep(f) == {k \in InUse(f) : f[k].loc.root = root /\ f[k].state = "sized"
                                     /\ f[k].ready = NULL}
      count(body) == Cardinality({k \in InUse(files) :
                                    files[k].state \notin Dead /\ files[k].fp.body = body})
      twins    == {k \in asleep(files) : count(files[k].fp.body) > 1}
      wake(row)     == [row EXCEPT !.ready = now, !.updated = now]
      distinct(row) == [row EXCEPT !.state = "distinct", !.updated = now]
      first == Updating(files, twins, wake)
  IN /\ Called(<<"scan_phase_b", root>>)
     /\ files' = Updating(first, asleep(first), distinct)
     /\ answer' = <<Cardinality(twins), Cardinality(asleep(first))>>
     /\ UNCHANGED <<content_groups, others>>

\* Two UPDATEs; when the second hits no row the first is rolled back.
Rename(k, loc) ==
  LET at(j) == files[j].loc = loc
      first == SetMissing(files, {j \in InUse(files) \ {k} : at(j)}, now)
      move(row) == [row EXCEPT !.loc = loc, !.updated = now]
  IN /\ Called(<<"rename", k, loc>>)
     /\ IF k \notin InUse(first) THEN Refuse ELSE Execute(Updating(first, {k}, move), 1)

\* rel_path = :new_dir || substr(rel_path, length(:dir) + 1)
RenamePrefix(old, new) ==
  LET W == {k \in InUse(files) : Below(files[k].loc, old)}
      move(row) == [row EXCEPT !.updated = now,
        !.loc.root = new.root,
        !.loc.path = new.path \o SubSeq(@, Len(old.path) + 1, Len(@))]
  IN Called(<<"rename_prefix", old, new>>) /\ Execute(Updating(files, W, move), Cardinality(W))

MarkMissing(loc) ==
  /\ Called(<<"mark_missing", loc>>)
  /\ Execute(SetMissing(files, {k \in InUse(files) : files[k].loc = loc}, now), 1)

MarkMissingPrefix(dir) ==
  LET W == {k \in InUse(files) : Below(files[k].loc, dir) /\ files[k].state \notin Dead}
  IN Called(<<"mark_missing_prefix", dir>>) /\ Execute(SetMissing(files, W, now), Cardinality(W))

RestoreOrReset(k, fp) ==
  /\ Called(<<"restore", k, fp>>)
  /\ Ok(0)
  /\ IF k \in InUse(files) /\ files[k].state = "missing"
     THEN Commit(UpsertInTx(Db, k, fp, files[k].loc, now, Kind[files[k].loc.root]))
     ELSE UNCHANGED tables
  /\ UNCHANGED others

(* ------------------------------ queries ------------------------------- *)

\* The rows W in the order of an ORDER BY: the keys nothing comes before.
FirstOf(W, before(_, _)) == {k \in W : \A j \in W : j = k \/ before(k, j)}

NextReady(heavy) ==
  LET W == {k \in InUse(files) :
              /\ files[k].state \in Queue
              /\ files[k].ready # NULL /\ files[k].ready <= now
              /\ \/ heavy \/ files[k].state \in {"settling", "sized"}
                 \/ files[k].waits # NULL /\ files[k].waits <= now - 1}
      before(k, j) == \/ files[k].ready < files[j].ready
                      \/ files[k].ready = files[j].ready /\ files[k].id < files[j].id
  IN FirstOf(W, before)

\* Mutant: ORDER BY id alone.
OldestByPath(loc) ==
  LET before(k, j) == files[k].id < files[j].id
  IN FirstOf({k \in InUse(files) : files[k].loc = loc}, before)

\* ORDER BY (state IN ('missing','gone')), id
FindByPath(loc) ==
  LET lost(k) == IF files[k].state \in Dead THEN 1 ELSE 0
      before(k, j) == lost(k) < lost(j) \/ (lost(k) = lost(j) /\ files[k].id < files[j].id)
  IN FirstOf({k \in InUse(files) : files[k].loc = loc}, before)

SameSize(k, states) ==
  {j \in InUse(files) : /\ files[j].fp.body = files[k].fp.body /\ files[j].id # files[k].id
                        /\ files[j].state \in states}
Candidates(k)      == SameSize(k, {"sized", "distinct"})
PendingSameSize(k) == {files[j].ready : j \in SameSize(k, {"settling"})} \ {NULL}
PendingCounts ==
  Cardinality({k \in InUse(files) : files[k].state = "settling" /\ files[k].ready # NULL})
GroupMembers(g) == {k \in InUse(files) : files[k].group = g}
FileCount(root) ==
  Cardinality({k \in InUse(files) : files[k].loc.root = root /\ files[k].state # "gone"})

Hold(name, rows) ==
  /\ Called(name) /\ held = Nobody
  /\ \E k \in rows : held' = [id |-> files[k].id, from |-> files[k].state, born |-> born[k]]
  /\ Ok(1)
  /\ UNCHANGED <<now, tables, seen, session, born, births>>

Take(heavy)       == Hold(<<"next_ready", heavy>>, NextReady(heavy))
TakeFinished(loc) ==
  Hold(<<"find_by_path", loc>>,
       {k \in FindByPath(loc) : Undoing /\ files[k].state = "canonical"})

(* ------------------------------- apply -------------------------------- *)

Column(p, c, old) == IF c \in DOMAIN p THEN p[c] ELSE old

\* UPDATE files SET state, <patch> WHERE id = ? AND state = ?from; it hits
\* the rows CasHits.
CasHits(f, id, from) == {k \in ById(f, id) : f[k].state = from}
CasUpdate(f, id, from, to, p) ==
  LET set(row) ==
        [row EXCEPT !.state = to, !.updated = now,
           !.waits = Column(p, "waits", IF from # to THEN NULL ELSE @),
           !.ready = Column(p, "ready", @), !.skip  = Column(p, "skip", @),
           !.fp    = Column(p, "fp", @),    !.known = Column(p, "known", @),
           !.group = Column(p, "group", @), !.prev  = Column(p, "prev", @)]
  IN Updating(f, CasHits(f, id, from), set)

\* The same for the rows of `others`, whether each is hit or not.
Also(o, f)     == CasUpdate(f, o.id, o.from, o.to, o.patch)
AlsoAll(f, os) == FoldSet(Also, f, os)

\* check_group_op, before the first write.
Constraint(id, op) ==
  CASE op.op = "create" -> ById(files, id) # {} /\ ById(files, op.file) # {}
    [] op.op = "none"   -> TRUE
    [] OTHER            -> op.group \in DOMAIN content_groups

\* apply_group_op; last_insert_rowid is the id of the group just inserted.
GroupOp(db, id, op) ==
  LET join(ids, g) == LET set(row) == [row EXCEPT !.group = g]
                      IN Updating(db.f, {k \in InUse(db.f) : db.f[k].id \in ids}, set)
      gid == Len(db.gs) + 1
  IN CASE op.op = "create" ->
            [f |-> join({id, op.file}, gid),
             gs |-> Append(db.gs, [canon |-> op.file, verified |-> NULL])]
       [] op.op = "join"          -> [db EXCEPT !.f = join({id}, op.group)]
       [] op.op = "set_canonical" ->
            [f |-> join({op.file}, op.group), gs |-> [db.gs EXCEPT ![op.group].canon = op.file]]
       [] op.op = "leave"         ->
            [f |-> join({id}, NULL),
             gs |-> Uncrown(db.gs, {g \in {op.group} : db.gs[g].canon = id})]
       [] op.op = "verified"      ->
            [db EXCEPT !.gs[op.group].verified = IF @ = NULL THEN now ELSE @]
       [] OTHER                   -> db

Apply(c, t) ==
  LET hit    == CasHits(files, held.id, held.from) # {}
      self   == CasUpdate(files, held.id, held.from, t.to, t.patch)
      db     == GroupOp([f |-> AlsoAll(self, t.others), gs |-> content_groups],
                        held.id, t.op)
  IN /\ Called(c) /\ held # Nobody /\ held' = Nobody
     /\ IF ~Constraint(held.id, t.op) THEN answer' = << >> /\ UNCHANGED tables
        ELSE IF ~hit THEN Ok(0) /\ UNCHANGED tables
        ELSE Commit(db) /\ Ok(1)
     /\ UNCHANGED <<now, seen, session, born, births>>

(* ------------------------------ presence ------------------------------ *)

PresenceBegin(root) ==
  /\ Called(<<"presence_begin", root>>)
  /\ IF session # {} THEN Refuse
     ELSE /\ session' = {root} /\ seen' = {} /\ Ok(1)
          /\ UNCHANGED <<now, tables, held, born, births>>

\* DROP TABLE IF EXISTS, twice.
DropSession == session' = {} /\ seen' = {}

PresenceAbort ==
  Called(<<"presence_abort">>) /\ DropSession /\ Ok(1)
  /\ UNCHANGED <<now, tables, held, born, births>>

\* Mutant: the keys met before the error stay in the temporary table.
SeenKept(acc) == acc.seen

\* What the rolled back transaction leaves in the temporary table.
SeenAfterError(acc) == seen

\* Entry by entry in one transaction: remember the key, and upsert the row
\* when it is missing at that moment.
NoteEntry(acc, e) ==
  LET noted == [acc EXCEPT !.seen = @ \union {e.key}]
      missing == e.key \in InUse(acc.db.f) /\ acc.db.f[e.key].state = "missing"
  IN IF acc.bad THEN acc
     ELSE IF ~missing THEN noted
     ELSE IF e.loc.root \notin DOMAIN Kind THEN [noted EXCEPT !.bad = TRUE]
     ELSE [noted EXCEPT !.n = @ + 1,
             !.db = UpsertInTx(@, e.key, e.fp, e.loc, now, Kind[e.loc.root])]

NoteBatch(batch) ==
  FoldLeft(NoteEntry, [db |-> Db, seen |-> seen, n |-> 0, bad |-> FALSE], batch)

PresenceSeen(batch) ==
  LET end == NoteBatch(batch)
  IN /\ Called(<<"presence_seen", batch>>)
     /\ IF session = {} THEN Refuse
        ELSE IF end.bad
        THEN /\ answer' = << >> /\ seen' = SeenAfterError(end)
             /\ UNCHANGED <<now, tables, session, held, born, births>>
        ELSE /\ Commit(end.db) /\ seen' = end.seen /\ Ok(end.n)
             /\ UNCHANGED <<now, session, held, born, births>>

PresenceFinish(root, scan_id) ==
  LET W == {k \in InUse(files) : /\ files[k].loc.root = root /\ files[k].state \notin Dead
                                 /\ files[k].updated < scan_id /\ k \notin seen}
  IN /\ Called(<<"presence_finish", root, scan_id>>)
     /\ IF session # {root} THEN Refuse
        ELSE /\ files' = SetMissing(files, W, scan_id) /\ DropSession /\ Ok(Cardinality(W))
             /\ UNCHANGED <<now, content_groups, held, born, births>>

PresenceExpire(root) ==
  LET W == {k \in InUse(files) : /\ files[k].loc.root = root /\ files[k].state = "missing"
                                 /\ files[k].updated < now}
      set(row) == [row EXCEPT !.state = "gone", !.updated = now]
  IN Called(<<"presence_expire", root>>) /\ Execute(Updating(files, W, set), Cardinality(W))

(* ---------------------------- maintenance ----------------------------- *)

ParkDomain ==
  LET W == {k \in InUse(files) : files[k].state = "hashed" /\ files[k].ready # NULL}
      set(row) == [row EXCEPT !.ready = NULL, !.updated = now]
  IN Called(<<"park_domain">>) /\ Execute(Updating(files, W, set), Cardinality(W))

UnparkDomain ==
  LET W == {k \in InUse(files) : files[k].state = "hashed" /\ files[k].ready = NULL}
      set(row) == [row EXCEPT !.ready = now, !.updated = now]
  IN Called(<<"unpark_domain">>) /\ Execute(Updating(files, W, set), Cardinality(W))

\* One UPDATE for every allowed directory.
RequeueBelow(a, acc) ==
  LET W == {k \in InUse(acc.f) : acc.f[k].state = "verified" /\ Below(acc.f[k].loc, a)}
      set(row) == [row EXCEPT !.state = "hashed", !.ready = now, !.updated = now]
  IN [f |-> Updating(acc.f, W, set), n |-> acc.n + Cardinality(W)]

RequeueAll(allow) == FoldSet(RequeueBelow, [f |-> files, n |-> 0], allow)

RequeueVerified(allow) ==
  LET end == RequeueAll(allow)
  IN Called(<<"requeue_verified", allow>>) /\ Execute(end.f, end.n)

\* The pointers to the rows first, then the rows.
Purge ==
  LET W   == {k \in InUse(files) : files[k].state = "gone" /\ files[k].updated < now}
      ids == {files[k].id : k \in W}
  IN /\ Called(<<"purge">>)
     /\ Hurried => held.id \notin ids
     /\ content_groups' = Uncrown(content_groups,
                            {g \in DOMAIN content_groups : content_groups[g].canon \in ids})
     /\ files' = [k \in Keys |-> IF k \in W THEN Absent ELSE files[k]]
     /\ Ok(Cardinality(W))
     /\ UNCHANGED others

Tick ==
  /\ Called(<<"tick">>) /\ now < MaxNow /\ now' = now + 1
  /\ UNCHANGED <<tables, seen, session, held, born, births, answer>>

(* ----------------------------- refinement ----------------------------- *)

\* A rowid as the counter of the other store would have written it.
Counted(id) == IF ById(files, id) = {} THEN 0 ELSE born[CHOOSE k \in ById(files, id) : TRUE]

Memory == INSTANCE Repository WITH
  table   <- [k \in Keys |-> IF files[k].id = NULL THEN Absent ELSE [files[k] EXCEPT !.id = born[k]]],
  next_id <- births,
  groups  <- [g \in DOMAIN content_groups |->
                [content_groups[g] EXCEPT !.canon = Counted(@)]],
  phien   <- IF session = {} THEN [root |-> 0, seen |-> {}]
             ELSE [root |-> CHOOSE r \in session : TRUE, seen |-> seen],
  held    <- [id |-> held.born, from |-> held.from]

(* --------------------------- specification ---------------------------- *)

\* A place in a root; the names of a path are only copied and compared.
IsLoc(loc) == /\ loc = [root |-> loc.root, path |-> loc.path]
              /\ loc.path \in Seq({loc.path[i] : i \in DOMAIN loc.path})

\* A row as the schema has it; `fp`, `skip` and `updated` are only copied.
WellFormed(row, gs) ==
  /\ DOMAIN row = {"id", "loc", "fp", "state", "prev", "ready", "waits", "known", "group",
                   "skip", "updated"}
  /\ row.id \in Nat \ {0} /\ IsLoc(row.loc)
  /\ row.state \in Memory!State /\ row.prev \in Memory!State \union {"none"}
  /\ {row.ready, row.waits} \subseteq Nat /\ row.known \in BOOLEAN /\ row.group \in 0..Len(gs)

\* A table a run may start from, as a run of the program leaves it.
StartOk(f, gs) ==
  /\ DOMAIN f = Keys /\ gs \in Seq([canon : Nat, verified : Nat])
  /\ \A k \in Keys : f[k] = Absent \/ WellFormed(f[k], gs)
  /\ \A j, k \in InUse(f) : f[j].id = f[k].id => j = k
  /\ \A g \in DOMAIN gs : gs[g].canon # NULL => ById(f, gs[g].canon) # {}

\* A batch is a sequence.
IsBatch(batch) == batch \in Seq({batch[i] : i \in DOMAIN batch})

ASSUME TableAssumption == /\ IsFiniteSet(Keys) /\ Keys # {} /\ NULL \notin DOMAIN Kind
                          /\ \A s \in Starts : StartOk(s.files, s.groups)
ASSUME CallAssumption  ==
  /\ Waits \subseteq Nat
  /\ \A s \in Sightings : s.key \in Keys /\ IsLoc(s.loc)
  /\ \A dir \in Dirs : IsLoc(dir)
  /\ \A allow \in Allowed : IsFiniteSet(allow) /\ \A dir \in allow : IsLoc(dir)
  /\ \A batch \in ScanBatches : IsBatch(batch) /\ \A i \in DOMAIN batch :
       batch[i].key \in Keys /\ IsLoc(batch[i].loc) /\ batch[i].state \in {"settling", "sized"}
  /\ \A batch \in SeenBatches : IsBatch(batch) /\ \A i \in DOMAIN batch : IsLoc(batch[i].loc)

Init ==
  /\ now = 1 /\ \E s \in Starts : files = s.files /\ content_groups = s.groups
  /\ seen = {} /\ session = {} /\ held = Nobody
  /\ born = [k \in Keys |-> files[k].id] /\ births = Max({files[k].id : k \in Keys})
  /\ call = << >> /\ answer = << >> /\ calls = 0

Roots == DOMAIN Kind

ApplyLight(fp) ==
  \E t \in Memory!LightSteps(held.from, fp) : Apply(<<"apply", fp, t.to>>, t)

ApplyGroup(g) ==
  /\ held.from \in {"sized", "hashed"}
  /\ \E t \in Memory!GroupSteps(held.from, held.id, g) : Apply(<<"apply_group", g, t.to>>, t)

ApplyPair(k, from) ==
  /\ held.from = "sized" /\ k \in InUse(files) /\ files[k].id # held.id
  /\ Len(content_groups) < MaxGroups
  /\ Apply(<<"apply_pair", k, from>>, Memory!PairStep(files[k].id, from))

Next ==
  \/ \E s \in Sightings :
       \/ \E wait \in Waits : UpsertPending(s.key, s.fp, s.loc, wait)
       \/ RestoreOrReset(s.key, s.fp) \/ MarkMissing(s.loc) \/ TakeFinished(s.loc)
       \/ (s.loc.root \in Roots /\ Rename(s.key, s.loc))
  \/ \E batch \in ScanBatches : ScanInsert(batch)
  \/ \E batch \in SeenBatches : PresenceSeen(batch)
  \/ \E r \in Roots : \/ ScanPhaseB(r) \/ (r \in Walked /\ PresenceBegin(r)) \/ PresenceExpire(r)
                       \/ \E scan_id \in 1..now : PresenceFinish(r, scan_id)
  \/ \E old, new \in Dirs : old # new /\ RenamePrefix(old, new)
  \/ \E dir \in Dirs : MarkMissingPrefix(dir)
  \/ \E heavy \in BOOLEAN : Take(heavy)
  \/ \E fp \in Fps : ApplyLight(fp)
  \/ \E g \in DOMAIN content_groups : ApplyGroup(g)
  \/ \E k \in Keys, from \in {"sized", "distinct"} : ApplyPair(k, from)
  \/ \E allow \in Allowed : RequeueVerified(allow)
  \/ PresenceAbort \/ ParkDomain \/ UnparkDomain \/ Purge \/ Tick

Spec == Init /\ [][Next]_vars

(* ----------------------------- properties ----------------------------- *)

TypeOK ==
  /\ \A k \in InUse(files) : /\ files[k].state \in Memory!State
                             /\ files[k].group \in 0..Len(content_groups)
                             /\ born[k] \in 1..births
  /\ \A j, k \in InUse(files) : j # k => files[j].id # files[k].id
  /\ Cardinality(session) <= 1

\* Every call leaves the tables and returns the answer that MemoryRepository,
\* the store all the tests of the pipeline run on, would have: the two "must
\* agree" (core/src/repo/memory/mod.rs:4).
ActsAsMemory == Memory!Spec

\* The reading calls agree as well, in every state: which row next_ready
\* returns, whom find_by_path finds, who the candidates are.
SameAnswers ==
  /\ \A heavy \in BOOLEAN : NextReady(heavy) = Memory!NextReady(heavy)
  /\ \A s \in Sightings : FindByPath(s.loc) = Memory!FindByPath(s.loc)
  /\ \A k \in InUse(files) : /\ Candidates(k) = Memory!Candidates(k)
                             /\ PendingSameSize(k) = Memory!PendingSameSize(k)
  /\ \A g \in DOMAIN content_groups : GroupMembers(g) = Memory!GroupMembers(g)
  /\ \A r \in Roots : FileCount(r) = Memory!FileCount(r)
  /\ PendingCounts = Memory!PendingCounts
=============================================================================
