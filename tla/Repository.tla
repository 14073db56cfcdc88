----------------------------- MODULE Repository -----------------------------
(***************************************************************************)
(* What trait Repository promises its callers, as MemoryRepository keeps   *)
(* it: every call is one step under one mutex, either succeeds and answers *)
(* or fails and changes nothing.  Ids are handed out by a counter and are  *)
(* never given to a second row.                                            *)
(*                                                                         *)
(* Data abstraction.  One domain.  A fingerprint is [body, ctime], `body`  *)
(* standing for size and mtime.  A path is the sequence of its names.      *)
(* `known` stands for the columns that describe the content and live and   *)
(* die together (sparse_hash, full_hash, magic_ok, attempts).  0 is NULL.  *)
(* An answer is a sequence of numbers, << >> when the call fails.          *)
(*                                                                         *)
(* The module is the abstract specification module Sqlite implements; what *)
(* the callers may ask for is chosen there.                                *)
(***************************************************************************)
EXTENDS Naturals, Sequences, FiniteSets, SequencesExt

CONSTANTS
  Keys,    \* the inodes
  Kind,    \* Kind[r]: "local" or "remote", for the registered roots r
  Hurried  \* does every step end before the row it holds is purged

VARIABLES
  now,      \* the clock; the calls get it as an argument
  table,    \* table files, by inode
  next_id,  \* the last id handed out
  groups,   \* table content_groups; the index is the id
  phien,    \* [root, seen]: the open presence session, root 0 when none is
  held,     \* [id, from]: the row somebody read and will apply a step to
  call,     \* the last call and its arguments
  answer    \* what it returned

vars == <<now, table, next_id, groups, phien, held, call, answer>>

Queued == {"settling", "sized", "hashed"}
Lost   == {"missing", "gone"}
State  == Queued \union Lost \union {"verified", "distinct", "canonical", "skipped"}

NoRow     == [id |-> 0]
NoSession == [root |-> 0, seen |-> {}]
Nobody    == [id |-> 0, from |-> "none"]
Fail      == << >>

Stored(t)    == {k \in Keys : t[k].id # 0}
KeyOf(t, id) == {k \in Stored(t) : t[k].id = id}

Under(loc, dir) == loc.root = dir.root /\ IsPrefix(dir.path, loc.path)
SameFp(kind, f, g) == f.body = g.body /\ (kind = "local" => f.ctime = g.ctime)

RestoreTarget(prev) == IF prev \in Lost \union {"none"} THEN "settling" ELSE prev

(* ------------------------------- rules -------------------------------- *)

NewRow(id, fp, loc, ready) ==
  [id |-> id, loc |-> loc, fp |-> fp, state |-> "settling", prev |-> "none",
   ready |-> ready, waits |-> 0, known |-> FALSE, group |-> 0, skip |-> "none",
   updated |-> now]

\* decide_upsert and apply_upsert
Upserted(row, fp, kind, loc, ready) ==
  LET same  == SameFp(kind, row.fp, fp)
      undo  == row.skip = "user_undo"
      back  == row.state = "missing" /\ same
      state == IF back THEN RestoreTarget(row.prev)
               ELSE IF same \/ undo THEN row.state ELSE "settling"
  IN [row EXCEPT !.loc = loc, !.state = state, !.updated = now,
        !.prev  = IF same \/ row.state \in Queued THEN @ ELSE row.state,
        !.ready = IF back THEN IF state \in Queued THEN ready ELSE 0
                  ELSE IF same /\ row.state \notin Queued THEN @ ELSE ready,
        !.waits = IF same THEN @ ELSE 0,
        !.known = same /\ @,
        !.group = IF same THEN @ ELSE 0,
        !.skip  = IF same \/ undo THEN @ ELSE "none"]

\* bo_goc_khi_roi_nhom
Uncrowned(gs, before, after) ==
  IF before.group # 0 /\ after.group = 0 /\ gs[before.group].canon = before.id
  THEN [gs EXCEPT ![before.group].canon = 0] ELSE gs

\* set_missing
SetMissing(row) ==
  IF row.state \in Lost THEN row
  ELSE [row EXCEPT !.prev = row.state, !.state = "missing", !.ready = 0,
                   !.waits = 0, !.updated = now]

\* The rows K become what f makes of them.
Changed(t, K, f(_)) == [k \in Keys |-> IF k \in K THEN f(t[k]) ELSE t[k]]

(* ------------------------------- calls -------------------------------- *)

Ok(n)       == answer' = <<n>>
Refuse      == answer' = Fail /\ UNCHANGED <<now, table, next_id, groups, phien, held>>
Only(t)     == table' = t /\ UNCHANGED <<now, next_id, groups, phien, held>>
Update(K, f(_)) == Only(Changed(table, K, f)) /\ Ok(Cardinality(K))

UpsertPending(k, fp, loc, wait) ==
  /\ IF loc.root \notin DOMAIN Kind THEN Refuse
     ELSE /\ IF k \in Stored(table)
             THEN LET row == Upserted(table[k], fp, Kind[loc.root], loc, now + wait)
                  IN /\ table'  = [table EXCEPT ![k] = row]
                     /\ groups' = Uncrowned(groups, table[k], row)
                     /\ Ok(IF row.state \in Queued THEN 0 ELSE 1)
                     /\ UNCHANGED next_id
             ELSE /\ next_id' = next_id + 1
                  /\ table'   = [table EXCEPT ![k] = NewRow(next_id + 1, fp, loc, now + wait)]
                  /\ Ok(0)
                  /\ UNCHANGED groups
          /\ UNCHANGED <<now, phien, held>>

\* A batch is a sequence of [key, fp, loc, state]: a file old enough arrives
\* sized and without a deadline.  The roots are looked up before the first
\* insert; the first entry of a key is the one that counts.
ScanInsert(batch) ==
  /\ IF \E i \in DOMAIN batch : batch[i].loc.root \notin DOMAIN Kind THEN Refuse
     ELSE LET new   == {i \in DOMAIN batch : /\ batch[i].key \notin Stored(table)
                                             /\ \A j \in 1..(i - 1) : batch[j].key # batch[i].key}
              of(k) == {i \in new : batch[i].key = k}
              id(i) == next_id + Cardinality({j \in new : j <= i})
              row(e, n) == [NewRow(n, e.fp, e.loc, now) EXCEPT
                              !.state = e.state, !.ready = IF e.state = "sized" THEN 0 ELSE @]
          IN /\ next_id' = next_id + Cardinality(new)
             /\ table' = [k \in Keys |-> IF of(k) = {} THEN table[k]
                            ELSE LET i == CHOOSE i \in of(k) : TRUE IN row(batch[i], id(i))]
             /\ Ok(Cardinality(new))
             /\ UNCHANGED <<now, groups, phien, held>>

ScanPhaseB(root) ==
  LET parked == {k \in Stored(table) : /\ table[k].loc.root = root
                                       /\ table[k].state = "sized" /\ table[k].ready = 0}
      peers(row) == {k \in Stored(table) : /\ table[k].state \notin Lost
                                           /\ table[k].fp.body = row.fp.body}
      twins == {k \in parked : Cardinality(peers(table[k])) > 1}
      wake(row) == IF Cardinality(peers(row)) > 1
                   THEN [row EXCEPT !.ready = now, !.updated = now]
                   ELSE [row EXCEPT !.state = "distinct", !.updated = now]
  IN /\ Only(Changed(table, parked, wake))
     /\ answer' = <<Cardinality(twins), Cardinality(parked \ twins)>>

Rename(k, loc) ==
  /\ IF k \notin Stored(table) THEN Refuse
     ELSE /\ Only([j \in Keys |->
                     IF j = k THEN [table[k] EXCEPT !.loc = loc, !.updated = now]
                     ELSE IF j \in Stored(table) /\ table[j].loc = loc THEN SetMissing(table[j])
                     ELSE table[j]])
          /\ Ok(1)

RenamePrefix(old, new) ==
  LET move(row) == [row EXCEPT !.updated = now, !.loc =
        [root |-> new.root,
         path |-> new.path \o SubSeq(row.loc.path, Len(old.path) + 1, Len(row.loc.path))]]
  IN Update({k \in Stored(table) : Under(table[k].loc, old)}, move)

MarkMissing(loc) ==
  /\ Only(Changed(table, {k \in Stored(table) : table[k].loc = loc}, SetMissing)) /\ Ok(1)

MarkMissingPrefix(dir) ==
  /\ Update({k \in Stored(table) : Under(table[k].loc, dir) /\ table[k].state \notin Lost},
            SetMissing)

\* restore_or_reset keeps the path of the row.
RestoreOrReset(k, fp) ==
  LET row == IF k \in Stored(table) /\ table[k].state = "missing"
             THEN Upserted(table[k], fp, Kind[table[k].loc.root], table[k].loc, now)
             ELSE table[k]
  IN /\ table'  = [table EXCEPT ![k] = row]
     /\ groups' = IF row = table[k] THEN groups ELSE Uncrowned(groups, table[k], row)
     /\ Ok(0)
     /\ UNCHANGED <<now, next_id, phien, held>>

(* ------------------------------- worker ------------------------------- *)

IsReady(row, heavy) ==
  /\ row.state \in Queued /\ row.ready # 0 /\ row.ready <= now
  /\ heavy \/ row.state # "hashed" \/ (row.waits # 0 /\ row.waits < now)

\* next_ready: the smallest (ready_at, id) of the rows that are due.
NextReady(heavy) ==
  LET due == {k \in Stored(table) : IsReady(table[k], heavy)}
  IN {k \in due : \A j \in due :
        \/ table[k].ready < table[j].ready
        \/ table[k].ready = table[j].ready /\ table[k].id <= table[j].id}

\* find_by_path: a living row before a lost one, then the oldest.
FindByPath(loc) ==
  LET rows == {k \in Stored(table) : table[k].loc = loc}
      live == {k \in rows : table[k].state \notin Lost}
      best == IF live # {} THEN live ELSE rows
  IN {k \in best : \A j \in best : table[k].id <= table[j].id}

PendingCounts ==
  Cardinality({k \in Stored(table) : table[k].state = "settling" /\ table[k].ready # 0})

\* candidates, without its limit and its order: who may be a twin of k.
Candidates(k) ==
  {j \in Stored(table) \ {k} : /\ table[j].state \in {"sized", "distinct"}
                               /\ table[j].fp.body = table[k].fp.body}

\* pending_same_size: the latest deadline among the settling twins.
PendingSameSize(k) ==
  {table[j].ready : j \in {j \in Stored(table) \ {k} :
     table[j].state = "settling" /\ table[j].fp.body = table[k].fp.body /\ table[j].ready # 0}}

GroupMembers(g) == {k \in Stored(table) : table[k].group = g}
FileCount(root) ==
  Cardinality({k \in Stored(table) : table[k].loc.root = root /\ table[k].state # "gone"})

Hold(rows) ==
  /\ held = Nobody
  /\ \E k \in rows : held' = [id |-> table[k].id, from |-> table[k].state]
  /\ Ok(1)
  /\ UNCHANGED <<now, table, next_id, groups, phien>>

Take(heavy)       == Hold(NextReady(heavy))
TakeFinished(loc) ==
  Hold({k \in FindByPath(loc) : table[k].state = "canonical"})

Column(p, c, old) == IF c \in DOMAIN p THEN p[c] ELSE old

\* apply_patch and the assignments after it.
Patched(row, to, p) ==
  [row EXCEPT !.state = to, !.updated = now,
              !.fp    = Column(p, "fp", @),     !.ready = Column(p, "ready", @),
              !.known = Column(p, "known", @),  !.group = Column(p, "group", @),
              !.skip  = Column(p, "skip", @),   !.prev  = Column(p, "prev", @),
              !.waits = Column(p, "waits", IF row.state = to THEN @ ELSE 0)]

\* check_group_op
Rejected(id, op) ==
  CASE op.op = "create" -> KeyOf(table, id) = {} \/ KeyOf(table, op.file) = {}
    [] op.op = "none"   -> FALSE
    [] OTHER            -> op.group \notin DOMAIN groups

\* apply_group_op on the patched rows t: the group column ...
Grouped(t, id, op) ==
  LET into(ids, g) == [k \in Keys |-> IF t[k].id # 0 /\ t[k].id \in ids
                                      THEN [t[k] EXCEPT !.group = g] ELSE t[k]]
  IN CASE op.op = "create"        -> into({id, op.file}, Len(groups) + 1)
       [] op.op = "join"          -> into({id}, op.group)
       [] op.op = "set_canonical" -> into({op.file}, op.group)
       [] op.op = "leave"         -> into({id}, 0)
       [] OTHER                   -> t

\* ... and the table of groups.
Regrouped(id, op) ==
  CASE op.op = "create"        -> Append(groups, [canon |-> op.file, verified |-> 0])
    [] op.op = "set_canonical" -> [groups EXCEPT ![op.group].canon = op.file]
    [] op.op = "leave"         -> [groups EXCEPT ![op.group].canon = IF @ = id THEN 0 ELSE @]
    [] op.op = "verified"      ->
         [groups EXCEPT ![op.group].verified = IF @ = 0 THEN now ELSE @]
    [] OTHER                   -> groups

\* apply: the compare-and-swap on the held row and, when it succeeds, the
\* rows in `others` that still are what they were and the group operation.
Apply(t) ==
  LET self     == KeyOf(table, held.id)
      ok       == \E k \in self : table[k].state = held.from
      hits(k)  == {o \in t.others : o.id = table[k].id /\ o.from = table[k].state}
      patched  == [k \in Keys |->
        IF k \notin Stored(table) THEN table[k]
        ELSE IF k \in self THEN Patched(table[k], t.to, t.patch)
        ELSE IF hits(k) = {} THEN table[k]
        ELSE LET o == CHOOSE o \in hits(k) : TRUE IN Patched(table[k], o.to, o.patch)]
  IN /\ held # Nobody /\ held' = Nobody
     /\ IF Rejected(held.id, t.op) THEN answer' = Fail /\ UNCHANGED <<table, groups>>
        ELSE IF ~ok THEN Ok(0) /\ UNCHANGED <<table, groups>>
        ELSE /\ table'  = Grouped(patched, held.id, t.op)
             /\ groups' = Regrouped(held.id, t.op)
             /\ Ok(1)
     /\ UNCHANGED <<now, next_id, phien>>

\* The transitions the pipeline asks for, by the state of the held row; `id`
\* and `from` are those of a candidate, g is a group.
NoOp == [op |-> "none"]
Step(to, patch) == [to |-> to, patch |-> patch, others |-> {}, op |-> NoOp]
With(t, op)     == [t EXCEPT !.op = op]

LightSteps(from, fp) ==
  {Step("missing", [prev |-> from, ready |-> 0])}
  \union IF from = "settling"
         THEN {Step("sized", [fp |-> fp, ready |-> now]),
               Step("skipped", [skip |-> "other", ready |-> 0])}
         ELSE IF from = "sized" THEN {Step("distinct", [ready |-> 0])}
         ELSE IF from = "hashed" THEN {Step("hashed", [waits |-> now, ready |-> now + 1])}
         ELSE {Step("skipped", [skip |-> "user_undo", ready |-> 0])}

GroupSteps(from, self, g) ==
  IF from = "sized"
  THEN {With(Step("hashed", [known |-> TRUE, ready |-> now]), [op |-> "join", group |-> g])}
  ELSE {With(Step("verified", [ready |-> 0]), [op |-> "verified", group |-> g]),
        With(Step("settling", [known |-> FALSE, ready |-> now + 1]), [op |-> "leave", group |-> g]),
        With(Step("canonical", [ready |-> 0]), [op |-> "set_canonical", group |-> g, file |-> self])}

PairStep(id, from) ==
  [to |-> "hashed", patch |-> [known |-> TRUE, ready |-> now],
   others |-> {[id |-> id, from |-> from, to |-> "canonical", patch |-> [known |-> TRUE, ready |-> 0]]},
   op |-> [op |-> "create", file |-> id]]

ApplyLight(fp, to) == \E t \in LightSteps(held.from, fp) : t.to = to /\ Apply(t)

ApplyGroup(g, to) ==
  /\ held.from \in {"sized", "hashed"}
  /\ \E t \in GroupSteps(held.from, held.id, g) : t.to = to /\ Apply(t)

\* Some other row was read as a candidate; `from` is what it was then.
ApplyPair(k, from) ==
  /\ held.from = "sized" /\ k \in Stored(table) /\ table[k].id # held.id
  /\ Apply(PairStep(table[k].id, from))

(* ------------------------------ presence ------------------------------ *)

PresenceBegin(root) ==
  /\ IF phien # NoSession THEN Refuse
     ELSE /\ phien' = [root |-> root, seen |-> {}] /\ Ok(1)
          /\ UNCHANGED <<now, table, next_id, groups, held>>

PresenceAbort ==
  /\ phien' = NoSession /\ Ok(1) /\ UNCHANGED <<now, table, next_id, groups, held>>

\* The batch is a sequence of [key, fp, loc].  The rows missing when it
\* starts are restored, each once; an unknown root undoes the whole batch.
PresenceSeen(batch) ==
  LET back  == {i \in DOMAIN batch : /\ batch[i].key \in Stored(table)
                                     /\ table[batch[i].key].state = "missing"
                                     /\ \A j \in 1..(i - 1) : batch[j].key # batch[i].key}
      wrong == \E i \in back : batch[i].loc.root \notin DOMAIN Kind
      keys  == {batch[i].key : i \in back}
      entry(k) == batch[CHOOSE i \in back : batch[i].key = k]
      after == [k \in Keys |-> IF k \notin keys THEN table[k]
                ELSE Upserted(table[k], entry(k).fp, Kind[entry(k).loc.root], entry(k).loc, now)]
  IN /\ IF phien = NoSession \/ wrong THEN Refuse
        ELSE /\ phien'  = [phien EXCEPT !.seen = @ \union {batch[i].key : i \in DOMAIN batch}]
             /\ table'  = after
             /\ groups' = [g \in DOMAIN groups |->
                  IF \E k \in keys : Uncrowned(groups, table[k], after[k])[g] # groups[g]
                  THEN [groups[g] EXCEPT !.canon = 0] ELSE groups[g]]
             /\ Ok(Cardinality(back))
             /\ UNCHANGED <<now, next_id, held>>

PresenceFinish(root, scan_id) ==
  LET unseen == {k \in Stored(table) : /\ table[k].loc.root = root
                                       /\ k \notin phien.seen
                                       /\ table[k].state \notin Lost
                                       /\ table[k].updated < scan_id}
      lose(row) == [SetMissing(row) EXCEPT !.updated = scan_id]
  IN /\ IF phien.root # root THEN Refuse
        ELSE /\ table' = Changed(table, unseen, lose)
             /\ phien' = NoSession
             /\ Ok(Cardinality(unseen))
             /\ UNCHANGED <<now, next_id, groups, held>>

PresenceExpire(root) ==
  LET expire(row) == [row EXCEPT !.state = "gone", !.updated = now]
  IN Update({k \in Stored(table) : /\ table[k].loc.root = root
                                      /\ table[k].state = "missing"
                                      /\ table[k].updated < now}, expire)

(* ---------------------------- maintenance ----------------------------- *)

ParkDomain ==
  LET park(row) == [row EXCEPT !.ready = 0, !.updated = now]
  IN Update({k \in Stored(table) : table[k].state = "hashed" /\ table[k].ready # 0}, park)

UnparkDomain ==
  LET unpark(row) == [row EXCEPT !.ready = now, !.updated = now]
  IN Update({k \in Stored(table) : table[k].state = "hashed" /\ table[k].ready = 0}, unpark)

RequeueVerified(allow) ==
  LET requeue(row) == [row EXCEPT !.state = "hashed", !.ready = now, !.updated = now]
  IN Update({k \in Stored(table) : /\ table[k].state = "verified"
                                      /\ \E a \in allow : Under(table[k].loc, a)}, requeue)

Purge ==
  LET dead == {k \in Stored(table) : table[k].state = "gone" /\ table[k].updated < now}
      ids  == {table[k].id : k \in dead}
  IN /\ Hurried => held.id \notin ids
     /\ table'  = [k \in Keys |-> IF k \in dead THEN NoRow ELSE table[k]]
     /\ groups' = [g \in DOMAIN groups |->
                     IF groups[g].canon \in ids THEN [groups[g] EXCEPT !.canon = 0] ELSE groups[g]]
     /\ Ok(Cardinality(dead))
     /\ UNCHANGED <<now, next_id, phien, held>>

Tick ==
  /\ now' = now + 1
  /\ UNCHANGED <<table, next_id, groups, phien, held, answer>>

(* --------------------------- specification ---------------------------- *)

Init ==
  /\ now = 1 /\ phien = NoSession /\ held = Nobody
  /\ \A k \in Keys : table[k].id <= next_id
  /\ call = << >> /\ answer = Fail

\* A step is judged by the call that was made: call'[1] with the arguments after it.
Next ==
  LET is(name) == call'[1] = name
      a == {call'[2]}  b == {call'[3]}  c == {call'[4]}  d == {call'[5]}
  IN \/ is("upsert")           /\ \E k \in a, fp \in b, loc \in c, wait \in d :
                                    UpsertPending(k, fp, loc, wait)
     \/ is("scan_insert")      /\ \E batch \in a : ScanInsert(batch)
     \/ is("scan_phase_b")     /\ \E root \in a : ScanPhaseB(root)
     \/ is("rename")           /\ \E k \in a, loc \in b : Rename(k, loc)
     \/ is("rename_prefix")    /\ \E old \in a, new \in b : RenamePrefix(old, new)
     \/ is("mark_missing")     /\ \E loc \in a : MarkMissing(loc)
     \/ is("mark_missing_prefix") /\ \E dir \in a : MarkMissingPrefix(dir)
     \/ is("restore")          /\ \E k \in a, fp \in b : RestoreOrReset(k, fp)
     \/ is("next_ready")       /\ \E heavy \in a : Take(heavy)
     \/ is("find_by_path")     /\ \E loc \in a : TakeFinished(loc)
     \/ is("apply")            /\ \E fp \in a, to \in b : ApplyLight(fp, to)
     \/ is("apply_group")      /\ \E g \in a, to \in b : ApplyGroup(g, to)
     \/ is("apply_pair")       /\ \E k \in a, from \in b : ApplyPair(k, from)
     \/ is("presence_begin")   /\ \E root \in a : PresenceBegin(root)
     \/ is("presence_abort")   /\ PresenceAbort
     \/ is("presence_seen")    /\ \E batch \in a : PresenceSeen(batch)
     \/ is("presence_finish")  /\ \E root \in a, scan_id \in b : PresenceFinish(root, scan_id)
     \/ is("presence_expire")  /\ \E root \in a : PresenceExpire(root)
     \/ is("park_domain")      /\ ParkDomain
     \/ is("unpark_domain")    /\ UnparkDomain
     \/ is("requeue_verified") /\ \E allow \in a : RequeueVerified(allow)
     \/ is("purge")            /\ Purge
     \/ is("tick")             /\ Tick

Spec == Init /\ [][Next]_vars
=============================================================================
