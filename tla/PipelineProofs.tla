--------------------------- MODULE PipelineProofs ---------------------------
(***************************************************************************)
(* The invariants of the pipeline, for any number of files, writes, walks, *)
(* crashes and failures: no row is called verified or deduped without a    *)
(* byte comparison of the version it records; no queued row is without a   *)
(* deadline; no claim about an overwritten version is without an event     *)
(* that will end it; no hash describes another version than its own; and   *)
(* at rest every row records the version its file has, and of two files    *)
(* that hold the same and are not overwritten one at most is called unique.*)
(*                                                                         *)
(* Each is strengthened by what the threads hold between two steps: the    *)
(* transition the worker will write was right when it was decided, and     *)
(* what made it right cannot be undone, or an upsert in between takes the  *)
(* row out of the state its compare-and-swap asks for.                     *)
(***************************************************************************)
EXTENDS Pipeline, FiniteSetTheorems, WellFoundedInduction, TLAPS

\* A patch sets columns to values of their types.
PatchOK(p) ==
  /\ "prev" \in DOMAIN p => p.prev \in State \union {"none"}
  /\ "ready" \in DOMAIN p => p.ready \in {"null", "due", "later"}
  /\ "fp" \in DOMAIN p => p.fp \in Nat
  /\ "enq" \in DOMAIN p => p.enq \in Nat
  /\ "hash" \in DOMAIN p => p.hash \in Hashes \union {NoHash}
  /\ "group" \in DOMAIN p => p.group \in Nat
  /\ "skip" \in DOMAIN p => p.skip \in {"none", "parked", "user_undo", "other"}
  /\ "attempts" \in DOMAIN p => p.attempts \in Nat
  /\ "hws" \in DOMAIN p => p.hws \in {"no", "waiting", "overdue"}

\* A change declares files equal only on evidence, and keeps the state a lost
\* row had as what it may be restored to.
ChangeOK(c) ==
  /\ c.file \in Files /\ c.to \in State /\ PatchOK(c.patch)
  /\ c.to \in Proven => "fp" \in DOMAIN c.patch /\ Evidence(c.file, c.patch.fp)
  /\ c.to = "missing" => c.patch = [prev |-> c.from, ready |-> "null"]

OpOK(t) ==
  \/ t.op.op = "none"
  \/ t.op.op = "create" /\ t.op.canon \in Files /\ t.op.hash \in Hashes \union {NoHash}
  \/ t.op.op = "set_canonical" /\ t.op.canon = t.self.file /\ t.op.group \in Nat

TransitionOK(t) ==
  /\ ChangeOK(t.self) /\ t.self.from \in Queued
  /\ \A c \in t.others : ChangeOK(c)
  /\ OpOK(t)

QueuedRow == {row \in Row : row.state \in Queued}

Reached(f, v) == v \in 1..Version(f)

\* What the worker holds: a due row, the versions it opened, a transition.
WorkOK(w) ==
  \/ w = Idle
  \/ /\ w \in [phase : {"settle", "hash"}, file : Files, row : QueuedRow]
     /\ w.phase = "hash" => Reached(w.file, w.row.fp)
  \/ /\ w \in [phase : {"backfill"}, file : Files, row : QueuedRow, peer : Files, peerRow : Row]
     /\ w.peerRow.state \in {"sized", "distinct"} /\ Reached(w.peer, w.peerRow.fp)
  \/ /\ w \in [phase : {"compare"}, file : Files, row : QueuedRow, peer : Files, peerRow : Row]
     /\ Reached(w.file, w.row.fp) /\ Reached(w.peer, w.peerRow.fp)
  \/ w = [phase |-> "commit", t |-> w.t] /\ TransitionOK(w.t)

\* A file under its path has been written.
Born == \A f \in Files : present[f] => Version(f) > 0

\* Only versions that exist were compared.
ComparedOK ==
  \A e \in compared : /\ e.file \in Files /\ Reached(e.file, e.ver)
                      /\ e.peer \in Files /\ Reached(e.peer, e.pver)

\* A file without a row is in no group.
AbsentIsGroupless == \A f \in Files : rows[f].state = "absent" => rows[f].group = 0

\* VerifiedSound, of one row.
Claims(row)   == row.state \in Proven \/ (row.state = "missing" /\ row.prev \in Proven)
Sound(f, row) == Claims(row) => Evidence(f, row.fp)

IInv == TypeOK /\ WorkOK(work) /\ Born /\ ComparedOK /\ AbsentIsGroupless /\ VerifiedSound

(* --------------------------- row operators ---------------------------- *)

\* The states are pairwise different strings, and the rows records of them.
LEMMA BlankRowType ==
  ASSUME NEW st \in State \union {"absent"}, NEW v \in Nat,
         NEW ready \in {"null", "due", "later"}
  PROVE  BlankRow(st, v, ready) \in Row
BY DEF BlankRow, Row

\* UPDATE files SET ... yields a row of the right types.
LEMMA PatchedType ==
  ASSUME NEW row \in Row, NEW to \in State, NEW p, PatchOK(p)
  PROVE  Patched(row, to, p) \in Row
BY DEF PatchOK, Patched, Column, Row

\* Setting one column to a value of its type keeps a row a row.
LEMMA ColumnSet ==
  ASSUME NEW row \in Row
  PROVE  /\ \A x \in State \union {"absent"}           : [row EXCEPT !.state = x] \in Row
         /\ \A x \in State \union {"none"}             : [row EXCEPT !.prev = x] \in Row
         /\ \A x \in {"null", "due", "later"}         : [row EXCEPT !.ready = x] \in Row
         /\ \A x \in Nat                             : [row EXCEPT !.enq = x] \in Row
         /\ \A x \in {"no", "waiting", "overdue"}     : [row EXCEPT !.hws = x] \in Row
         /\ \A x \in Nat                             : [row EXCEPT !.attempts = x] \in Row
         /\ \A x \in Hashes \union {NoHash}           : [row EXCEPT !.hash = x] \in Row
         /\ \A x \in Nat                             : [row EXCEPT !.group = x] \in Row
         /\ \A x \in {"none", "parked", "user_undo", "other"} : [row EXCEPT !.skip = x] \in Row
<1>1. ASSUME NEW x \in State \union {"absent"} PROVE [row EXCEPT !.state = x] \in Row
  BY DEF Row
<1>2. ASSUME NEW x \in State \union {"none"} PROVE [row EXCEPT !.prev = x] \in Row
  BY DEF Row
<1>3. ASSUME NEW x \in {"null", "due", "later"} PROVE [row EXCEPT !.ready = x] \in Row
  BY DEF Row
<1>4. ASSUME NEW x \in Nat
      PROVE  /\ [row EXCEPT !.enq = x] \in Row
             /\ [row EXCEPT !.attempts = x] \in Row
             /\ [row EXCEPT !.group = x] \in Row
  BY DEF Row
<1>5. ASSUME NEW x \in {"no", "waiting", "overdue"} PROVE [row EXCEPT !.hws = x] \in Row
  BY DEF Row
<1>6. ASSUME NEW x \in Hashes \union {NoHash} PROVE [row EXCEPT !.hash = x] \in Row
  BY DEF Row
<1>7. ASSUME NEW x \in {"none", "parked", "user_undo", "other"}
      PROVE  [row EXCEPT !.skip = x] \in Row
  BY DEF Row
<1> QED BY <1>1, <1>2, <1>3, <1>4, <1>5, <1>6, <1>7

\* So does the upsert, whichever branch it takes.
LEMMA UpsertRowType ==
  ASSUME NEW row \in Row, NEW v \in Nat, NEW ready \in {"null", "due", "later"}
  PROVE  UpsertRow(row, v, ready) \in Row
<1>1. NewRow(v, ready) \in Row
  BY BlankRowType DEF NewRow, State, Queued
<1>2. RestoreTarget(row.prev) \in State
  BY DEF RestoreTarget, State, Queued
<1>3. ASSUME row.state # "absent" PROVE Upserted(row, v, ready) \in Row
  <2> DEFINE same  == row.fp = v
             undo  == row.skip = "user_undo"
             back  == row.state = "missing" /\ same
             state == IF back THEN RestoreTarget(row.prev)
                      ELSE IF same \/ undo THEN row.state ELSE "settling"
             prev  == IF same \/ row.state \in Queued THEN row.prev ELSE row.state
             due   == IF back THEN IF state \in Queued THEN ready ELSE "null"
                      ELSE IF same /\ row.state \notin Queued THEN row.ready ELSE ready
  <2>1. state \in State \union {"absent"}
    BY <1>2 DEF Row, State, Queued
  <2>2. prev \in State \union {"none"}
    BY <1>3 DEF Row
  <2>3. due \in {"null", "due", "later"}
    BY DEF Row
  <2> DEFINE hws == IF same THEN row.hws ELSE "no"
             att == IF same THEN row.attempts ELSE 0
             hsh == IF same THEN row.hash ELSE NoHash
             grp == IF same THEN row.group ELSE 0
             skp == IF same \/ undo THEN row.skip ELSE "none"
  <2>4. /\ hws \in {"no", "waiting", "overdue"} /\ att \in Nat
        /\ hsh \in Hashes \union {NoHash} /\ grp \in Nat
        /\ skp \in {"none", "parked", "user_undo", "other"}
    BY DEF Row
  <2> DEFINE r1 == [row EXCEPT !.state = state]
             r2 == [r1 EXCEPT !.prev = prev]
             r3 == [r2 EXCEPT !.ready = due]
             r4 == [r3 EXCEPT !.enq = v]
             r5 == [r4 EXCEPT !.hws = hws]
             r6 == [r5 EXCEPT !.attempts = att]
             r7 == [r6 EXCEPT !.hash = hsh]
             r8 == [r7 EXCEPT !.group = grp]
  <2>5. Upserted(row, v, ready) = [r8 EXCEPT !.skip = skp]
    BY Zenon DEF Upserted
  <2> HIDE DEF state, prev, due, hws, att, hsh, grp, skp
  <2>6. r4 \in Row
    BY <2>1, <2>2, <2>3, ColumnSet
  <2> HIDE DEF r4
  <2>7. [r8 EXCEPT !.skip = skp] \in Row
    BY <2>4, <2>6, ColumnSet
  <2> QED BY <2>5, <2>7
<1> QED BY <1>1, <1>3 DEF UpsertRow

\* A row found again is not lost any more, and comes back proven only if it
\* was proven.
LEMMA UpsertRowSound ==
  ASSUME NEW row \in Row, NEW v \in Nat, NEW ready \in {"null", "due", "later"},
         Claims(UpsertRow(row, v, ready))
  PROVE  Claims(row) /\ UpsertRow(row, v, ready).fp = row.fp
<1>1. row.state # "absent"
  BY DEF Claims, UpsertRow, NewRow, BlankRow, Proven
<1>2. UpsertRow(row, v, ready) = Upserted(row, v, ready)
  BY <1>1 DEF UpsertRow
<1> QED BY <1>2 DEF Claims, Upserted, Row, State, Queued, Proven, Resting, Lost, RestoreTarget

(* --------------------------- transactions ----------------------------- *)

\* The compare-and-swap of one row keeps the types of its columns ...
LEMMA CasType ==
  ASSUME NEW row \in Row, NEW c, ChangeOK(c)
  PROVE  CasUpdate(row, c) \in Row
BY PatchedType DEF CasUpdate, ChangeOK

\* ... and every claim it makes has evidence.
LEMMA CasSound ==
  ASSUME NEW row \in Row, NEW c, ChangeOK(c), Sound(c.file, row)
  PROVE  Sound(c.file, CasUpdate(row, c))
<1>1. CASE row.state # c.from
  BY <1>1 DEF CasUpdate
<1>2. CASE row.state = c.from
  <2>1. CasUpdate(row, c) = Patched(row, c.to, c.patch)
    BY <1>2 DEF CasUpdate
  <2>2. CASE c.to \in Proven
    BY <2>1, <2>2 DEF ChangeOK, Sound, Claims, Patched, Column, Proven
  <2>3. CASE c.to = "missing"
    BY <1>2, <2>1, <2>3 DEF ChangeOK, Sound, Claims, Patched, Column, Proven
  <2>4. CASE c.to \notin Proven /\ c.to # "missing"
    BY <2>1, <2>4 DEF Sound, Claims, Patched
  <2> QED BY <2>2, <2>3, <2>4
<1> QED BY <1>1, <1>2

\* A row that is in the table stays there.
LEMMA CasPresent ==
  ASSUME NEW row \in Row, NEW c, ChangeOK(c), CasUpdate(row, c).state = "absent"
  PROVE  row.state = "absent" /\ CasUpdate(row, c) = row
BY DEF CasUpdate, ChangeOK, Patched, State, Queued, Resting, Proven, Lost

\* The rows after a transition, before its group operation: each is the row
\* it was or the result of one change that is right.
LEMMA ChangedBy ==
  ASSUME NEW t, TransitionOK(t), NEW f \in Files
  PROVE  \/ ChangedRows(rows, t)[f] = rows[f]
         \/ \E c \in {t.self} \union t.others :
              ChangeOK(c) /\ c.file = f /\ ChangedRows(rows, t)[f] = CasUpdate(rows[f], c)
<1>1. CASE f = t.self.file
  BY <1>1 DEF ChangedRows, TransitionOK
<1>2. CASE f # t.self.file /\ \E c \in t.others : c.file = f
  <2> DEFINE c == CHOOSE d \in t.others : d.file = f
  <2>1. c \in t.others /\ c.file = f
    BY <1>2
  <2>2. ChangedRows(rows, t)[f] = CasUpdate(rows[f], c)
    BY <1>2 DEF ChangedRows
  <2> QED BY <2>1, <2>2 DEF TransitionOK
<1>3. CASE f # t.self.file /\ ~\E c \in t.others : c.file = f
  BY <1>3 DEF ChangedRows
<1> QED BY <1>1, <1>2, <1>3

\* What a transition that was right when it was decided does to the table.
LEMMA AppliedOK ==
  ASSUME TypeOK, AbsentIsGroupless, VerifiedSound, NEW t, TransitionOK(t)
  PROVE  LET new == AppliedRows(rows, groups, t)
         IN /\ new \in [Files -> Row]
            /\ \A f \in Files : Sound(f, new[f])
            /\ \A f \in Files : new[f].state = "absent" => new[f].group = 0
<1> DEFINE new     == AppliedRows(rows, groups, t)
           changed == ChangedRows(rows, t)
           grp(f)  == GroupAfter(f, changed[f].group, t, Len(groups) + 1)
<1>1. CASE ~Applies(rows, t)
  <2>1. new = rows
    BY <1>1 DEF AppliedRows
  <2> QED BY <2>1 DEF TypeOK, AbsentIsGroupless, VerifiedSound, Sound, Claims
<1>2. CASE Applies(rows, t)
  <2>1. new = [f \in Files |-> [changed[f] EXCEPT !.group = grp(f)]]
    BY <1>2, Zenon DEF AppliedRows
  <2>2. ASSUME NEW f \in Files
        PROVE  /\ new[f] \in Row /\ Sound(f, new[f])
               /\ new[f].state = "absent" => new[f].group = 0
    <3>1. rows[f] \in Row /\ Sound(f, rows[f])
      BY DEF TypeOK, VerifiedSound, Sound, Claims
    <3>2. /\ changed[f] \in Row /\ Sound(f, changed[f])
          /\ changed[f].state = "absent" => rows[f].state = "absent" /\ changed[f] = rows[f]
      BY <3>1, ChangedBy, CasType, CasSound, CasPresent
    <3>3. grp(f) \in Nat
      <4>1. changed[f].group \in Nat
        BY <3>2 DEF Row
      <4>2. Len(groups) + 1 \in Nat
        BY DEF TypeOK
      <4>3. t.op.op = "set_canonical" => t.op.group \in Nat
        BY DEF TransitionOK, OpOK
      <4> HIDE DEF changed
      <4> QED BY <4>1, <4>2, <4>3 DEF GroupAfter
    <3>4. new[f] = [changed[f] EXCEPT !.group = grp(f)]
      BY <2>1
    <3> HIDE DEF changed, grp, new
    <3>5. new[f] \in Row /\ new[f].state = changed[f].state
          /\ new[f].prev = changed[f].prev /\ new[f].fp = changed[f].fp
      BY <3>2, <3>3, <3>4 DEF Row
    <3>6. ASSUME new[f].state = "absent" PROVE new[f].group = 0
      <4>1. rows[f].state = "absent" /\ changed[f] = rows[f] /\ rows[f].group = 0
        BY <3>2, <3>4, <3>6 DEF Row, AbsentIsGroupless
      <4>2. f # t.self.file /\ ~(t.op.op = "create" /\ f = t.op.canon)
        BY <1>2, <4>1 DEF Applies, Rejected, TransitionOK, Queued
      <4>3. ~(t.op.op = "set_canonical" /\ f = t.op.canon)
        BY <4>2 DEF TransitionOK, OpOK
      <4>4. grp(f) = changed[f].group
        BY <4>2, <4>3 DEF GroupAfter, grp
      <4> QED BY <3>2, <3>4, <4>1, <4>4 DEF Row
    <3>7. Sound(f, new[f])
      BY <3>2, <3>5 DEF Sound, Claims
    <3> QED BY <3>5, <3>6, <3>7
  <2>3. DOMAIN new = Files
    BY <2>1
  <2> QED BY <2>1, <2>2
<1> QED BY <1>1, <1>2

\* A table given by its index.
LEMMA IndexedSeq ==
  ASSUME NEW S, NEW n \in Nat, NEW s \in [1..n -> S]
  PROVE  s \in Seq(S)
OBVIOUS

\* A group that changes its canonical row is a group.
LEMMA PointedSeq ==
  ASSUME NEW g, NEW c \in Files \union {NoFile}, TypeOK
  PROVE  [groups EXCEPT ![g].canon = c] \in Seq(Group)
<1> DEFINE new == [groups EXCEPT ![g].canon = c]
<1>1. groups \in [1..Len(groups) -> Group] /\ Len(groups) \in Nat
  BY DEF TypeOK
<1>2. \A r \in Group : [r EXCEPT !.canon = c] \in Group
  BY DEF Group
<1>3. new = [i \in 1..Len(groups) |->
               IF i = g THEN [groups[i] EXCEPT !.canon = c] ELSE groups[i]]
  BY <1>1
<1>4. new \in [1..Len(groups) -> Group]
  BY <1>1, <1>2, <1>3
<1> QED BY <1>1, <1>4, IndexedSeq

\* Groups keep their types too.
LEMMA AppliedGroupsType ==
  ASSUME TypeOK, NEW t, TransitionOK(t)
  PROVE  AppliedGroups(rows, groups, t) \in Seq(Group)
<1>1. groups \in Seq(Group)
  BY DEF TypeOK
<1>2. CASE ~Applies(rows, t) \/ t.op.op = "none"
  BY <1>1, <1>2 DEF AppliedGroups
<1>3. CASE Applies(rows, t) /\ t.op.op = "create"
  <2>1. [hash |-> t.op.hash, canon |-> t.op.canon] \in Group
    BY <1>3 DEF TransitionOK, OpOK, Group
  <2> QED BY <1>1, <1>3, <2>1 DEF AppliedGroups
<1>4. CASE Applies(rows, t) /\ t.op.op = "set_canonical"
  <2>1. t.op.canon \in Files \union {NoFile}
    BY <1>4 DEF TransitionOK, OpOK, ChangeOK
  <2>2. AppliedGroups(rows, groups, t) = [groups EXCEPT ![t.op.group].canon = t.op.canon]
    BY <1>4 DEF AppliedGroups
  <2> DEFINE g == t.op.group
             c == t.op.canon
  <2>3. [groups EXCEPT ![g].canon = c] \in Seq(Group)
    <3> HIDE DEF g, c
    <3>1. c \in Files \union {NoFile}
      BY <2>1 DEF c
    <3> QED BY <3>1, PointedSeq
  <2> QED BY <2>2, <2>3
<1> QED BY <1>2, <1>3, <1>4 DEF TransitionOK, OpOK

\* What every step leaves the two tables in.
TablesOK(R, G) ==
  /\ R \in [Files -> Row] /\ G \in Seq(Group)
  /\ \A f \in Files : Sound(f, R[f]) /\ (R[f].state = "absent" => R[f].group = 0)

\* An update of one row that claims no more than before.
LEMMA OneRow ==
  ASSUME TablesOK(rows, groups), NEW f \in Files, NEW row \in Row,
         row.state = "absent" => row.group = 0,
         Claims(row) => Claims(rows[f]) /\ row.fp = rows[f].fp,
         NEW G \in Seq(Group)
  PROVE  TablesOK([rows EXCEPT ![f] = row], G)
BY DEF TablesOK, Sound

\* mark_missing: the row keeps what it claimed.
LEMMA MarkedOK ==
  ASSUME TablesOK(rows, groups), NEW f \in Files
  PROVE  TablesOK([rows EXCEPT ![f] = MarkedMissing(@)], groups)
<1> DEFINE row == MarkedMissing(rows[f])
<1>1. rows[f] \in Row /\ groups \in Seq(Group) /\ (rows[f].state = "absent" => rows[f].group = 0)
  BY DEF TablesOK
<1>2. row \in Row /\ (row.state = "absent" => row.group = 0)
  <2>1. CASE rows[f].state \in Lost \union {"absent"}
    BY <1>1, <2>1 DEF MarkedMissing
  <2>2. CASE rows[f].state \notin Lost \union {"absent"}
    <3>1. row = [rows[f] EXCEPT !.state = "missing", !.prev = rows[f].state,
                                !.ready = "null", !.hws = "no"]
      BY <2>2, Zenon DEF MarkedMissing
    <3>2. rows[f].state \in State /\ "missing" \in State
      BY <1>1, <2>2 DEF Row, State, Lost
    <3> HIDE DEF row
    <3> QED BY <1>1, <3>1, <3>2 DEF Row
  <2> QED BY <2>1, <2>2
<1>3. Claims(row) => Claims(rows[f]) /\ row.fp = rows[f].fp
  BY <1>1 DEF MarkedMissing, Row, Claims, Lost, Proven
<1> QED BY <1>1, <1>2, <1>3, OneRow

\* The upsert transaction.
LEMMA UpsertOK ==
  ASSUME TypeOK, TablesOK(rows, groups), NEW f \in Files, NEW v \in Nat,
         NEW ready \in {"null", "due", "later"}
  PROVE  TablesOK([rows EXCEPT ![f] = UpsertRow(@, v, ready)],
                  UpsertGroups(rows, groups, f, v, ready))
<1> DEFINE row == UpsertRow(rows[f], v, ready)
<1>1. rows[f] \in Row /\ groups \in Seq(Group)
  BY DEF TablesOK
<1>2. row \in Row
  BY <1>1, UpsertRowType
<1>3. row.state # "absent"
  BY <1>1 DEF UpsertRow, NewRow, BlankRow, Upserted, RestoreTarget, Row, Queued, Resting, Proven
<1>4. Claims(row) => Claims(rows[f]) /\ row.fp = rows[f].fp
  BY <1>1, UpsertRowSound
<1>5. UpsertGroups(rows, groups, f, v, ready) \in Seq(Group)
  BY <1>1, PointedSeq DEF UpsertGroups
<1> QED BY <1>2, <1>3, <1>4, <1>5, OneRow

(* ------------------------------ stability ----------------------------- *)

\* Nothing a step does takes a version or a comparison back.
Grows ==
  /\ compared \subseteq compared'
  /\ \A f \in Files : /\ {Version(f), Version(f)'} \subseteq Nat
                      /\ Version(f) <= Version(f)'
                      /\ \A v \in 1..Version(f) : Body(f, v)' = Body(f, v)

\* Histories and comparisons only grow: nothing takes evidence back.
LEMMA StepGrows == ASSUME TypeOK, [Next]_vars PROVE Grows
<1>1. /\ UNCHANGED history \/ \E f \in Files : Write(f) \/ MoveIn(f)
      /\ compared \subseteq compared'
  BY DEF Next, Environment, Write, MoveIn, Vanish, Return, Age, FallDue, Overdue, Crash,
     Watcher, WatchTouched, WatchRemoved, WatchMovedOut, WatchCommit,
     Walk, WalkSee, WalkInsert, ScanPhaseB, ReconcileCommit, PresenceCommit,
     Scheduler, ReconcileSee, PresenceSee, PresenceFinish, Expire, Purge, Unskip, Requeue,
     Worker, Take, Finish, FinishSettle, FinishHash, FinishBackfill, FinishSame,
     FinishDiffers, FinishError, Commit, vars, disk
<1>2. CASE UNCHANGED history
  BY <1>1, <1>2 DEF Grows, TypeOK, Version, Body
<1>3. ASSUME NEW f \in Files, Write(f) PROVE Grows
  <2>1. PICK c \in Contents : history' = [history EXCEPT ![f] = Append(@, c)]
    BY <1>3 DEF Write
  <2>2. history[f] \in Seq(Contents) /\ history'[f] = Append(history[f], c)
    BY <2>1 DEF TypeOK
  <2> QED BY <1>1, <2>1, <2>2 DEF Grows, TypeOK, Version, Body
<1>4. ASSUME NEW f \in Files, MoveIn(f) PROVE Grows
  BY <1>1, <1>4 DEF Grows, TypeOK, Version, Body, MoveIn
<1> QED BY <1>1, <1>2, <1>3, <1>4

\* Evidence once found remains.
LEMMA EvidenceStays ==
  ASSUME ComparedOK, Grows, NEW f \in Files, NEW v, Evidence(f, v)
  PROVE  Evidence(f, v)'
BY DEF Evidence, ComparedOK, Grows, Reached

\* So does everything the worker relies on.
LEMMA WorkStays ==
  ASSUME ComparedOK, Grows, NEW w, WorkOK(w)
  PROVE  WorkOK(w)'
<1>1. ASSUME NEW f \in Files, NEW v, Reached(f, v) PROVE Reached(f, v)'
  BY <1>1 DEF Reached, Grows
<1>2. ASSUME NEW c, ChangeOK(c) PROVE ChangeOK(c)'
  BY <1>2, EvidenceStays DEF ChangeOK
<1>3. ASSUME NEW t, TransitionOK(t) PROVE TransitionOK(t)'
  BY <1>2, <1>3 DEF TransitionOK
<1> QED BY <1>1, <1>3 DEF WorkOK

(* ------------------------ the worker's decisions ---------------------- *)

\* A transition that is right may be held until it is written.
LEMMA DecideOK ==
  ASSUME NEW t, TransitionOK(t), Decide(t)
  PROVE  WorkOK(work')
BY DEF Decide, WorkOK

\* A change of one row that claims nothing and loses nothing ...
LEMMA MoveOK ==
  ASSUME NEW f \in Files, NEW from \in Queued, NEW to \in State \ (Proven \union {"missing"}),
         NEW p, PatchOK(p), Move(f, from, to, p)
  PROVE  WorkOK(work')
<1>1. ChangeOK(Change(f, from, to, p))
  BY DEF ChangeOK, Change
<1>2. TransitionOK(Transition(f, from, to, p, {}, NoOp))
  BY <1>1 DEF TransitionOK, Transition, Change, OpOK, NoOp
<1> QED BY <1>2, DecideOK DEF Move

\* ... in particular one that leaves the state alone ...
LEMMA StayOK ==
  ASSUME NEW f \in Files, NEW row \in QueuedRow, NEW p, PatchOK(p), Stay(f, row, p)
  PROVE  WorkOK(work')
<1>1. row.state \in Queued /\ row.state \in State \ (Proven \union {"missing"})
  BY DEF QueuedRow, Queued, State, Proven
<1> QED BY <1>1, MoveOK DEF Stay

\* ... and the loss of the row's own file.
LEMMA LoseOK ==
  ASSUME NEW f \in Files, NEW row \in QueuedRow, Lose(f, row)
  PROVE  WorkOK(work')
<1> DEFINE p == [prev |-> row.state, ready |-> "null"]
<1>1. row.state \in Queued /\ row.state \in State
  BY DEF QueuedRow, State
<1>2. PatchOK(p)
  BY <1>1 DEF PatchOK
<1>3. ChangeOK(Change(f, row.state, "missing", p))
  BY <1>2 DEF ChangeOK, Change, State, Lost, Proven
<1>4. TransitionOK(Transition(f, row.state, "missing", p, {}, NoOp))
  BY <1>1, <1>3 DEF TransitionOK, Transition, Change, OpOK, NoOp
<1> QED BY <1>4, DecideOK DEF Lose, Move

\* The outcomes that every step shares.
LEMMA OutcomeOK ==
  ASSUME NEW f \in Files, NEW row \in QueuedRow
  PROVE  /\ \A until \in {"due", "later"} : Defer(f, row, until) => WorkOK(work')
         /\ BackToSettling(f, row) => WorkOK(work')
         /\ WaitHeavy(f, row) => WorkOK(work')
         /\ \A p : PatchOK(p) /\ Skip(f, row, p) => WorkOK(work')
         /\ Retry(f, row) => WorkOK(work')
<1>1. row \in Row /\ row.state \in Queued /\ row.attempts \in Nat
  BY DEF QueuedRow, Row
<1>2. ASSUME NEW until \in {"due", "later"}, Defer(f, row, until) PROVE WorkOK(work')
  <2>1. PatchOK([ready |-> until])
    BY DEF PatchOK
  <2> QED BY <1>2, <2>1, StayOK DEF Defer
<1>3. ASSUME BackToSettling(f, row) PROVE WorkOK(work')
  <2>1. PatchOK([hash |-> NoHash, group |-> 0, ready |-> "later"])
    BY DEF PatchOK
  <2>2. "settling" \in State \ (Proven \union {"missing"})
    BY DEF State, Queued, Proven
  <2> QED BY <1>1, <1>3, <2>1, <2>2, MoveOK DEF BackToSettling
<1>4. ASSUME WaitHeavy(f, row) PROVE WorkOK(work')
  <2>1. PatchOK([hws |-> "waiting", ready |-> "later"])
    BY DEF PatchOK
  <2> QED BY <1>2, <1>4, <2>1, StayOK DEF WaitHeavy
<1>5. ASSUME NEW p, PatchOK(p), Skip(f, row, p) PROVE WorkOK(work')
  <2>1. "skipped" \in State \ (Proven \union {"missing"})
    BY DEF State, Resting, Proven
  <2> QED BY <1>1, <1>5, <2>1, MoveOK DEF Skip
<1>6. ASSUME Retry(f, row) PROVE WorkOK(work')
  <2>1. /\ PatchOK([attempts |-> row.attempts + 1, ready |-> "null"])
        /\ PatchOK([attempts |-> row.attempts + 1, ready |-> "later"])
    BY <1>1 DEF PatchOK
  <2>2. "failed" \in State \ (Proven \union {"missing"})
    BY DEF State, Resting, Proven
  <2> QED BY <1>1, <1>6, <2>1, <2>2, MoveOK, StayOK DEF Retry
<1> QED BY <1>2, <1>3, <1>4, <1>5, <1>6

\* settle::buoc, to the open and from it.
LEMMA SettleOK ==
  ASSUME IInv, NEW f \in Files, NEW row \in QueuedRow,
         Settle(f, row) \/ SettleOpened(f, row)
  PROVE  WorkOK(work')
<1>1. Version(f) \in Nat
  BY DEF IInv, TypeOK, Version
<1>2. CASE Lose(f, row)
  BY <1>2, LoseOK
<1>3. CASE Stay(f, row, [enq |-> Version(f), ready |-> "later"])
  <2>1. PatchOK([enq |-> Version(f), ready |-> "later"])
    BY <1>1 DEF PatchOK
  <2> QED BY <1>3, <2>1, StayOK
<1>4. CASE Defer(f, row, "later")
  BY <1>4, OutcomeOK
<1>5. CASE work' = [phase |-> "settle", file |-> f, row |-> row]
  BY <1>5 DEF WorkOK
<1>6. CASE Move(f, "settling", "sized",
                [fp |-> Version(f), enq |-> Version(f), skip |-> "none", ready |-> "due"])
  <2>1. PatchOK([fp |-> Version(f), enq |-> Version(f), skip |-> "none", ready |-> "due"])
    BY <1>1 DEF PatchOK
  <2>2. "settling" \in Queued /\ "sized" \in State \ (Proven \union {"missing"})
    BY DEF State, Queued, Proven
  <2> QED BY <1>6, <2>1, <2>2, MoveOK
<1>7. CASE Skip(f, row, [fp |-> Version(f), skip |-> "other", ready |-> "null"])
  <2>1. PatchOK([fp |-> Version(f), skip |-> "other", ready |-> "null"])
    BY <1>1 DEF PatchOK
  <2> QED BY <1>7, <2>1, OutcomeOK
<1>8. CASE Stay(f, row, [fp |-> Version(f), skip |-> "other", ready |-> "later"])
  <2>1. PatchOK([fp |-> Version(f), skip |-> "other", ready |-> "later"])
    BY <1>1 DEF PatchOK
  <2> QED BY <1>8, <2>1, StayOK
<1> QED BY <1>2, <1>3, <1>4, <1>5, <1>6, <1>7, <1>8 DEF Settle, SettleOpened

\* sua_ung_vien: what the step of f does to candidate p claims nothing.
LEMMA RepairOK ==
  ASSUME IInv, NEW f \in Files, NEW p \in Files, NEW to, NEW patch,
         ChangeOK(Change(p, rows[p].state, to, patch)), Repair(f, p, to, patch)
  PROVE  WorkOK(work')
<1> DEFINE c == Change(p, rows[p].state, to, patch)
           t == Transition(f, "sized", "sized", [ready |-> "due", hws |-> "no"], {c}, NoOp)
<1>1. PatchOK([ready |-> "due", hws |-> "no"])
  BY DEF PatchOK
<1>2. ChangeOK(t.self)
  BY <1>1 DEF ChangeOK, Transition, Change, State, Queued, Proven
<1>3. t.self.from \in Queued /\ t.others = {c} /\ t.op = NoOp
  BY DEF Transition, Change, Queued
<1>4. ChangeOK(c) /\ t.op.op = "none"
  BY <1>3 DEF NoOp
<1>5. work' = [phase |-> "commit", t |-> t]
  BY DEF Repair, Decide
<1> HIDE DEF c, t
<1>6. TransitionOK(t)
  BY <1>2, <1>3, <1>4 DEF TransitionOK, OpOK
<1> QED BY <1>5, <1>6 DEF WorkOK

\* The query returns candidates.
LEMMA ShortlistIn ==
  ASSUME NEW f, NEW cands \in Shortlists(f)
  PROVE  cands \in SUBSET Candidates(f)
BY DEF Shortlists

\* backfill, up to the read.
LEMMA BackfillOK ==
  ASSUME IInv, NEW f \in Files, NEW row \in QueuedRow, NEW p \in Candidates(f),
         Backfill(f, row, p)
  PROVE  WorkOK(work')
<1>1. /\ p \in Files /\ rows[p] \in Row /\ rows[p].state \in {"sized", "distinct"}
      /\ Version(p) \in Nat /\ (present[p] => Version(p) > 0)
  BY DEF Candidates, IInv, TypeOK, Version, Born
<1>2. CASE Repair(f, p, "missing", [prev |-> rows[p].state, ready |-> "null"])
  <2>1. PatchOK([prev |-> rows[p].state, ready |-> "null"])
    BY <1>1 DEF PatchOK, State, Queued, Resting
  <2>2. ChangeOK(Change(p, rows[p].state, "missing", [prev |-> rows[p].state, ready |-> "null"]))
    BY <1>1, <2>1 DEF ChangeOK, Change, State, Lost, Proven
  <2> QED BY <1>1, <1>2, <2>2, RepairOK
<1>3. CASE Repair(f, p, "settling",
                  [fp |-> Version(p), hash |-> NoHash, group |-> 0, ready |-> "later"])
  <2>1. PatchOK([fp |-> Version(p), hash |-> NoHash, group |-> 0, ready |-> "later"])
    BY <1>1 DEF PatchOK
  <2>2. ChangeOK(Change(p, rows[p].state, "settling",
                 [fp |-> Version(p), hash |-> NoHash, group |-> 0, ready |-> "later"]))
    BY <1>1, <2>1 DEF ChangeOK, Change, State, Queued, Proven
  <2> QED BY <1>1, <1>3, <2>2, RepairOK
<1>4. CASE Repair(f, p, "skipped", SkipPatch)
  <2>1. PatchOK(SkipPatch)
    BY DEF PatchOK, SkipPatch
  <2>2. ChangeOK(Change(p, rows[p].state, "skipped", SkipPatch))
    BY <1>1, <2>1 DEF ChangeOK, Change, State, Resting, Proven
  <2> QED BY <1>1, <1>4, <2>2, RepairOK
<1>5. CASE /\ present[p] /\ Version(p) = rows[p].fp
           /\ work' = [phase |-> "backfill", file |-> f, row |-> row,
                       peer |-> p, peerRow |-> rows[p]]
  <2>1. Reached(p, rows[p].fp)
    BY <1>1, <1>5 DEF Reached
  <2> QED BY <1>1, <1>5, <2>1 DEF WorkOK
<1> QED BY <1>2, <1>3, <1>4, <1>5 DEF Backfill

\* The group with the smallest id exists, and has it.
LEMMA LowestExists ==
  ASSUME NEW S \in SUBSET Nat, S # {}
  PROVE  Lowest(S) \in S /\ \A k \in S : Lowest(S) <= k
<1>1. IsWellFoundedOn(OpToRel(<, Nat), Nat)
  BY NatLessThanWellFounded
<1>2. PICK g \in S : \A k \in S : ~(<<k, g>> \in OpToRel(<, Nat))
  BY <1>1, WFMin
<1>3. \A k \in S : g <= k
  <2>1. ASSUME NEW k \in S, k < g PROVE FALSE
    <3>1. <<k, g>> \in Nat \X Nat /\ <<k, g>>[1] < <<k, g>>[2]
      BY <2>1
    <3>2. <<k, g>> \in OpToRel(<, Nat)
      BY <3>1, Zenon DEF OpToRel
    <3> QED BY <1>2, <2>1, <3>2, Zenon
  <2> QED BY <2>1
<1> QED BY <1>3 DEF Lowest

\* The patches that give a row a new place in the queue or out of it.
LEMMA ReadyPatchOK ==
  ASSUME NEW ready \in {"null", "due", "later"}, NEW g \in Nat
  PROVE  PatchOK([ready |-> ready]) /\ PatchOK([group |-> g, ready |-> ready])
BY DEF PatchOK

\* tao_nhom: every row of the new group changes rightly.
LEMMA NewGroupOK ==
  ASSUME IInv, NEW f \in Files, NEW row \in QueuedRow, NEW same \in SUBSET Candidates(f),
         NEW c \in same \union {f}, NewGroup(f, row, same, c)
  PROVE  WorkOK(work')
<1> DEFINE ToHashed(p) == Change(p, rows[p].state, "hashed", [ready |-> "due"])
           ToCanon(p)  == Change(p, rows[p].state, "canonical", [ready |-> "null"])
           op          == CreateGroup(c, row.hash)
           first       == Transition(f, "sized", "canonical", [ready |-> "null"],
                                     {ToHashed(p) : p \in same}, op)
           second      == Transition(f, "sized", "hashed", [ready |-> "due"],
                                     {ToHashed(p) : p \in same \ {c}} \union {ToCanon(c)}, op)
<1>1. c \in Files /\ same \subseteq Files /\ row.hash \in Hashes \union {NoHash}
  BY DEF Candidates, QueuedRow, Row
<1>2. ASSUME NEW p \in Files, NEW from PROVE
        /\ ChangeOK(Change(p, from, "hashed", [ready |-> "due"]))
        /\ ChangeOK(Change(p, from, "canonical", [ready |-> "null"]))
  <2>1. PatchOK([ready |-> "due"]) /\ PatchOK([ready |-> "null"])
    BY ReadyPatchOK
  <2>2. {"hashed", "canonical"} \subseteq State \ (Proven \union {"missing"})
    BY DEF State, Queued, Resting, Proven
  <2> QED BY <2>1, <2>2 DEF ChangeOK, Change
<1>3. op.op = "create" /\ op.canon = c /\ op.hash = row.hash
  BY DEF CreateGroup
<1>4. TransitionOK(first)
  <2>1. ChangeOK(first.self) /\ first.self.from \in Queued /\ first.op = op
    BY <1>2 DEF Transition, Change, Queued
  <2>2. \A d \in first.others : ChangeOK(d)
    BY <1>1, <1>2 DEF Transition
  <2> HIDE DEF first, op
  <2> QED BY <1>1, <1>3, <2>1, <2>2 DEF TransitionOK, OpOK
<1>5. TransitionOK(second)
  <2>1. ChangeOK(second.self) /\ second.self.from \in Queued /\ second.op = op
    BY <1>2 DEF Transition, Change, Queued
  <2>2. \A d \in second.others : ChangeOK(d)
    BY <1>1, <1>2 DEF Transition
  <2> HIDE DEF second, op
  <2> QED BY <1>1, <1>3, <2>1, <2>2 DEF TransitionOK, OpOK
<1>6. (c = f /\ Decide(first)) \/ (c # f /\ Decide(second))
  BY DEF NewGroup
<1> QED BY <1>4, <1>5, <1>6, DecideOK

\* tim_ung_vien, from the query on.
LEMMA MatchOK ==
  ASSUME IInv, NEW f \in Files, NEW row \in QueuedRow, NEW heavy,
         NEW cands \in SUBSET Candidates(f), Match(f, row, heavy, cands)
  PROVE  WorkOK(work')
<1> DEFINE blind == {p \in cands : rows[p].hash = NoHash}
           same  == {p \in cands : rows[p].hash = row.hash}
<1>1. CASE Defer(f, row, "later")
  BY <1>1, OutcomeOK
<1>2. ASSUME NEW p \in blind, Backfill(f, row, p) PROVE WorkOK(work')
  BY <1>2, BackfillOK
<1>3. CASE Move(f, "sized", "distinct", [ready |-> "null"])
  <2>1. "sized" \in Queued /\ "distinct" \in State \ (Proven \union {"missing"})
    BY DEF State, Queued, Resting, Proven
  <2> QED BY <1>3, <2>1, ReadyPatchOK, MoveOK
<1>4. ASSUME NEW c \in same \union {f}, NewGroup(f, row, same, c) PROVE WorkOK(work')
  BY <1>4, NewGroupOK
<1> QED BY <1>1, <1>2, <1>3, <1>4 DEF Match

\* tim_ung_vien.
LEMMA FindCandidateOK ==
  ASSUME IInv, NEW f \in Files, NEW row \in QueuedRow, NEW heavy,
         FindCandidate(f, row, heavy)
  PROVE  WorkOK(work')
BY ShortlistIn, MatchOK, OutcomeOK DEF FindCandidate

\* A transition of f alone that makes f the canonical row of its group.
LEMMA PromoteOK ==
  ASSUME NEW f \in Files, NEW from \in Queued, NEW p, PatchOK(p), NEW g \in Nat,
         NEW others, \A c \in others : ChangeOK(c),
         Decide(Transition(f, from, "canonical", p, others, SetCanonical(g, f)))
  PROVE  WorkOK(work')
<1> DEFINE t == Transition(f, from, "canonical", p, others, SetCanonical(g, f))
<1>1. ChangeOK(t.self)
  BY DEF ChangeOK, Transition, Change, State, Resting, Proven
<1>2. t.self.from = from /\ t.others = others /\ t.self.file = f /\ t.op = SetCanonical(g, f)
  BY DEF Transition, Change
<1>3. TransitionOK(t)
  BY <1>1, <1>2 DEF TransitionOK, OpOK, SetCanonical
<1> QED BY <1>3, DecideOK

\* xep_cho.
LEMMA PlaceOK ==
  ASSUME IInv, NEW f \in Files, NEW row \in QueuedRow, NEW heavy, Place(f, row, heavy)
  PROVE  WorkOK(work')
<1> DEFINE keyed == GroupsByKey(groups, row.hash)
           g     == Lowest(keyed)
<1>1. CASE keyed = {}
  BY <1>1, FindCandidateOK DEF Place
<1>2. CASE keyed # {}
  <2>1. keyed \in SUBSET Nat
    BY DEF GroupsByKey
  <2>2. g \in Nat
    BY <1>2, <2>1, LowestExists
  <2>3. /\ "sized" \in Queued
        /\ {"canonical", "hashed"} \subseteq State \ (Proven \union {"missing"})
    BY DEF State, Queued, Resting, Proven
  <2>4. /\ PatchOK([group |-> g, ready |-> "null"])
        /\ PatchOK([group |-> g, ready |-> "due"])
    BY <2>2, ReadyPatchOK
  <2> HIDE DEF g, keyed
  <2>5. CASE Decide(Transition(f, "sized", "canonical", [group |-> g, ready |-> "null"],
                               {}, SetCanonical(g, f)))
    BY <2>2, <2>3, <2>4, <2>5, PromoteOK
  <2>6. CASE Move(f, "sized", "canonical", [group |-> g, ready |-> "null"])
    BY <2>3, <2>4, <2>6, MoveOK
  <2>7. CASE Move(f, "sized", "hashed", [group |-> g, ready |-> "due"])
    BY <2>3, <2>4, <2>7, MoveOK
  <2> QED BY <1>2, <2>5, <2>6, <2>7 DEF Place, g, keyed
<1> QED BY <1>1, <1>2

\* sized::buoc, to the read.
LEMMA SizeOK ==
  ASSUME IInv, NEW f \in Files, NEW row \in QueuedRow, NEW heavy, Size(f, row, heavy)
  PROVE  WorkOK(work')
<1>1. CASE Lose(f, row)
  BY <1>1, LoseOK
<1>2. CASE BackToSettling(f, row) \/ WaitHeavy(f, row)
  BY <1>2, OutcomeOK
<1>3. CASE Place(f, row, heavy)
  BY <1>3, PlaceOK
<1>4. CASE /\ present[f] /\ Version(f) = row.fp
           /\ work' = [phase |-> "hash", file |-> f, row |-> row]
  <2>1. Reached(f, row.fp)
    BY <1>4 DEF IInv, Born, TypeOK, Version, Reached
  <2> QED BY <1>4, <2>1 DEF WorkOK
<1>5. CASE Skip(f, row, SkipPatch)
  <2>1. PatchOK(SkipPatch)
    BY DEF PatchOK, SkipPatch
  <2> QED BY <1>5, <2>1, OutcomeOK
<1> QED BY <1>1, <1>2, <1>3, <1>4, <1>5 DEF Size

\* The hash of a version that exists.
LEMMA HashType ==
  ASSUME IInv, NEW f \in Files, NEW v, Reached(f, v)
  PROVE  HashOf[Body(f, v)] \in Hashes
<1>1. history[f] \in Seq(Contents) /\ v \in 1..Len(history[f])
  BY DEF IInv, TypeOK, Reached, Version
<1>2. Body(f, v) \in Contents
  BY <1>1 DEF Body
<1> QED BY <1>2, PipelineAssumption

\* tinh_hash, from the read.
LEMMA HashedOK ==
  ASSUME IInv, NEW f \in Files, NEW row \in QueuedRow, Reached(f, row.fp), Hashed(f, row)
  PROVE  WorkOK(work')
<1> DEFINE h == HashOf[Body(f, row.fp)]
<1>1. CASE BackToSettling(f, row)
  BY <1>1, OutcomeOK
<1>2. CASE Stay(f, row, [hash |-> h, hws |-> "no", ready |-> "due"])
  <2>1. h \in Hashes
    BY HashType
  <2> HIDE DEF h
  <2>2. PatchOK([hash |-> h, hws |-> "no", ready |-> "due"])
    BY <2>1 DEF PatchOK
  <2> QED BY <1>2, <2>2, StayOK
<1> QED BY <1>1, <1>2 DEF Hashed

\* backfill, from the read.
LEMMA BackfilledOK ==
  ASSUME IInv, NEW f \in Files, NEW p \in Files, NEW old, old.state \in {"sized", "distinct"},
         Reached(p, old.fp), Backfilled(f, p, old)
  PROVE  WorkOK(work')
<1>1. PICK h \in ReadHash(p, old.fp) :
        Decide(Transition(f, "sized", "sized", [ready |-> "due", hws |-> "no"],
                          {Change(p, old.state, old.state, [hash |-> h])}, NoOp))
  BY DEF Backfilled
<1> DEFINE c == Change(p, old.state, old.state, [hash |-> h])
           t == Transition(f, "sized", "sized", [ready |-> "due", hws |-> "no"], {c}, NoOp)
<1>2. h \in Hashes
  BY HashType DEF ReadHash
<1>3. PatchOK([hash |-> h]) /\ PatchOK([ready |-> "due", hws |-> "no"])
  BY <1>2 DEF PatchOK
<1>4. ChangeOK(c)
  BY <1>3 DEF ChangeOK, Change, State, Queued, Resting, Proven
<1>5. ChangeOK(t.self)
  BY <1>3 DEF ChangeOK, Transition, Change, State, Queued, Proven
<1>6. t.self.from \in Queued /\ t.others = {c} /\ t.op = NoOp
  BY DEF Transition, Change, Queued
<1> HIDE DEF c
<1>7. TransitionOK(t)
  BY <1>4, <1>5, <1>6 DEF TransitionOK, OpOK, NoOp
<1> QED BY <1>1, <1>7, DecideOK DEF c

\* goc_mat_tich, goc_da_doi: the old canonical row keeps nothing it claimed
\* that could be restored without evidence.
LEMMA SucceedOK ==
  ASSUME NEW f \in Files, NEW g \in Nat, NEW c \in Files, NEW to, NEW patch,
         ChangeOK(Change(c, rows[c].state, to, patch)), Succeed(f, g, c, to, patch)
  PROVE  WorkOK(work')
<1>1. PatchOK([ready |-> "null"]) /\ "hashed" \in Queued
  BY ReadyPatchOK DEF Queued
<1> QED BY <1>1, PromoteOK DEF Succeed

\* xac_minh, to the call of the backend.
LEMMA OpenOK ==
  ASSUME IInv, NEW f \in Files, NEW row \in QueuedRow, row.group # 0,
         NEW c \in Files, rows[c].group = row.group, Open(f, row, c)
  PROVE  WorkOK(work')
<1>1. /\ rows[c] \in Row /\ rows[c].state \in State /\ row.group \in Nat
      /\ Version(f) \in Nat /\ Version(c) \in Nat
      /\ (present[f] => Version(f) > 0) /\ (present[c] => Version(c) > 0)
  <2>1. rows[c] \in Row /\ row \in Row
    BY DEF IInv, TypeOK, QueuedRow
  <2>2. row.group \in Nat /\ rows[c].state \in State \union {"absent"}
    BY <2>1 DEF Row
  <2>3. rows[c].state # "absent"
    BY DEF IInv, AbsentIsGroupless
  <2>4. Version(f) \in Nat /\ Version(c) \in Nat
    BY DEF IInv, TypeOK, Version
  <2>5. (present[f] => Version(f) > 0) /\ (present[c] => Version(c) > 0)
    BY DEF IInv, Born
  <2> QED BY <2>1, <2>2, <2>3, <2>4, <2>5
<1>2. CASE Succeed(f, row.group, c, "missing", [prev |-> rows[c].state, ready |-> "null"])
  <2>1. PatchOK([prev |-> rows[c].state, ready |-> "null"])
    BY <1>1 DEF PatchOK
  <2>2. ChangeOK(Change(c, rows[c].state, "missing", [prev |-> rows[c].state, ready |-> "null"]))
    BY <2>1 DEF ChangeOK, Change, State, Lost, Proven
  <2> QED BY <1>1, <1>2, <2>2, SucceedOK
<1>3. CASE Lose(f, row)
  BY <1>3, LoseOK
<1>4. CASE BackToSettling(f, row)
  BY <1>4, OutcomeOK
<1>5. CASE Succeed(f, row.group, c, "settling", [hash |-> NoHash, group |-> 0, ready |-> "later"])
  <2>1. PatchOK([hash |-> NoHash, group |-> 0, ready |-> "later"])
    BY DEF PatchOK
  <2>2. ChangeOK(Change(c, rows[c].state, "settling",
                        [hash |-> NoHash, group |-> 0, ready |-> "later"]))
    BY <2>1 DEF ChangeOK, Change, State, Queued, Proven
  <2> QED BY <1>1, <1>5, <2>2, SucceedOK
<1>6. CASE /\ present[f] /\ present[c] /\ Version(f) = row.fp /\ Version(c) = rows[c].fp
           /\ work' = [phase |-> "compare", file |-> f, row |-> row,
                       peer |-> c, peerRow |-> rows[c]]
  <2>1. Reached(f, row.fp) /\ Reached(c, rows[c].fp)
    BY <1>1, <1>6 DEF Reached
  <2> QED BY <1>1, <1>6, <2>1 DEF WorkOK
<1>7. CASE Skip(f, row, SkipPatch)
  <2>1. PatchOK(SkipPatch)
    BY DEF PatchOK, SkipPatch
  <2> QED BY <1>7, <2>1, OutcomeOK
<1> QED BY <1>2, <1>3, <1>4, <1>5, <1>6, <1>7 DEF Open

\* verify::buoc, to the call of the backend.
LEMMA VerifyOK ==
  ASSUME IInv, NEW f \in Files, NEW row \in QueuedRow, NEW heavy, Verify(f, row, heavy)
  PROVE  WorkOK(work')
<1> DEFINE g == row.group
           c == CanonicalOf(rows, groups, g)
<1>1. g \in Nat /\ "hashed" \in Queued
      /\ {"sized", "canonical"} \subseteq State \ (Proven \union {"missing"})
  BY DEF QueuedRow, Row, State, Queued, Resting, Proven
<1>2. CASE Move(f, "hashed", "sized", [ready |-> "due"])
  BY <1>1, <1>2, ReadyPatchOK, MoveOK
<1>3. CASE WaitHeavy(f, row)
  BY <1>3, OutcomeOK
<1>4. CASE Decide(Transition(f, "hashed", "canonical", [ready |-> "null"], {}, SetCanonical(g, f)))
  <2>1. PatchOK([ready |-> "null"])
    BY ReadyPatchOK
  <2> HIDE DEF g
  <2> QED BY <1>1, <1>4, <2>1, PromoteOK
<1>5. CASE Move(f, "hashed", "canonical", [ready |-> "null"])
  BY <1>1, <1>5, ReadyPatchOK, MoveOK
<1>6. CASE g # 0 /\ c # NoFile /\ Open(f, row, c)
  <2>1. c \in Files /\ rows[c].group = g
    BY <1>6 DEF CanonicalOf, Members
  <2> QED BY <1>6, <2>1, OpenOK
<1>7. CASE Stay(f, row, [skip |-> "parked", ready |-> "null"])
  <2>1. PatchOK([skip |-> "parked", ready |-> "null"])
    BY DEF PatchOK
  <2> QED BY <1>7, <2>1, StayOK
<1> QED BY <1>2, <1>3, <1>4, <1>5, <1>6, <1>7 DEF Verify

\* khac_nhau.
LEMMA DiffersOK ==
  ASSUME IInv, NEW f \in Files, NEW row \in QueuedRow, Differs(f, row)
  PROVE  WorkOK(work')
<1> DEFINE next == {g \in GroupsByKey(groups, row.hash) : g > row.group}
<1>1. CASE next # {} /\ Stay(f, row, [group |-> Lowest(next), ready |-> "due"])
  <2>1. next \in SUBSET Nat
    BY DEF GroupsByKey
  <2>2. Lowest(next) \in Nat
    BY <1>1, <2>1, LowestExists
  <2> HIDE DEF next
  <2> QED BY <1>1, <2>2, ReadyPatchOK, StayOK
<1>2. CASE Decide(Transition(f, "hashed", "canonical", [group |-> 0, ready |-> "null"],
                             {}, CreateGroup(f, row.hash)))
  <2> DEFINE t == Transition(f, "hashed", "canonical", [group |-> 0, ready |-> "null"],
                             {}, CreateGroup(f, row.hash))
  <2>1. PatchOK([group |-> 0, ready |-> "null"])
    BY ReadyPatchOK
  <2>2. ChangeOK(t.self)
    BY <2>1 DEF ChangeOK, Transition, Change, State, Resting, Proven
  <2>3. /\ t.self.from \in Queued /\ t.others = {}
        /\ t.op.op = "create" /\ t.op.canon = f /\ t.op.hash \in Hashes \union {NoHash}
    BY DEF Transition, Change, CreateGroup, Queued, QueuedRow, Row
  <2>4. TransitionOK(t)
    BY <2>2, <2>3 DEF TransitionOK, OpOK
  <2> QED BY <1>2, <2>4, DecideOK
<1> QED BY <1>1, <1>2 DEF Differs

\* xu_ly_loi.
LEMMA BackendErrorOK ==
  ASSUME IInv, NEW f \in Files, NEW row \in QueuedRow, NEW policy \in Policies,
         BackendError(f, row, policy)
  PROVE  WorkOK(work')
<1>1. Counted(row.attempts) \in Nat /\ "hashed" \in Queued
      /\ {"settling", "sized", "failed"} \subseteq State \ (Proven \union {"missing"})
  BY DEF Counted, QueuedRow, Row, State, Queued, Resting, Proven
<1>2. CASE Defer(f, row, "later") \/ Defer(f, row, "due")
  BY <1>2, OutcomeOK
<1>3. ASSUME NEW skip \in {"other", "none"},
             Move(f, "hashed", "settling",
                  [attempts |-> Counted(row.attempts), skip |-> skip,
                   hash |-> NoHash, group |-> 0, ready |-> "later"])
      PROVE  WorkOK(work')
  <2>1. PatchOK([attempts |-> Counted(row.attempts), skip |-> skip,
                 hash |-> NoHash, group |-> 0, ready |-> "later"])
    BY <1>1 DEF PatchOK
  <2> QED BY <1>1, <1>3, <2>1, MoveOK
<1>4. CASE Stay(f, row, [attempts |-> Counted(row.attempts), ready |-> "later"])
  <2>1. PatchOK([attempts |-> Counted(row.attempts), ready |-> "later"])
    BY <1>1 DEF PatchOK
  <2> QED BY <1>4, <2>1, StayOK
<1>5. CASE Stay(f, row, [skip |-> "parked", ready |-> "null"])
  <2>1. PatchOK([skip |-> "parked", ready |-> "null"])
    BY DEF PatchOK
  <2> QED BY <1>5, <2>1, StayOK
<1>6. CASE Move(f, "hashed", "sized", [group |-> 0, skip |-> "other", ready |-> "due"])
  <2>1. PatchOK([group |-> 0, skip |-> "other", ready |-> "due"])
    BY DEF PatchOK
  <2> QED BY <1>1, <1>6, <2>1, MoveOK
<1>7. CASE Move(f, "hashed", "failed", [ready |-> "null"])
  BY <1>1, <1>7, ReadyPatchOK, MoveOK
<1> QED BY <1>2, <1>3, <1>4, <1>5, <1>6, <1>7 DEF BackendError, Policies

\* giong_nhau: the one transition that claims, and the comparison it rests on.
LEMMA SameOK ==
  ASSUME IInv, FinishSame, NEW f, NEW v, f = work.file, v = work.row.fp
  PROVE  WorkOK(work)'
<1> DEFINE to == IF SharesExtents THEN "deduped" ELSE "verified"
           p  == [fp |-> v, ready |-> "null", attempts |-> 0]
           t  == Transition(f, "hashed", to, p, {}, NoOp)
           e  == Comparison(TRUE)
<1>1. f \in Files /\ v \in Nat
  BY DEF IInv, WorkOK, FinishSame, Idle, QueuedRow, Row
<1>2. Evidence(f, v)'
  <2>1. e \in compared' /\ history' = history
    BY DEF FinishSame, disk
  <2>2. /\ e.file = f /\ e.ver = v /\ e.same
        /\ e.clean => Body(f, v) = Body(e.peer, e.pver)
    BY DEF Comparison, FinishSame, Equal
  <2> HIDE DEF e
  <2> QED BY <2>1, <2>2 DEF Evidence, Body
<1>3. PatchOK(p) /\ "fp" \in DOMAIN p /\ p.fp = v
  BY <1>1 DEF PatchOK
<1>4. to \in Proven /\ to \in State /\ to # "missing"
  BY DEF Proven, State, Resting
<1> HIDE DEF p, to
<1>5. ChangeOK(t.self)'
  BY <1>1, <1>2, <1>3, <1>4 DEF ChangeOK, Transition, Change
<1>6. t.self.from \in Queued /\ t.others = {} /\ t.op.op = "none"
  BY DEF Transition, Change, NoOp, Queued
<1>7. TransitionOK(t)'
  BY <1>5, <1>6 DEF TransitionOK, OpOK
<1>8. work' = [phase |-> "commit", t |-> t]
  BY DEF FinishSame, Same, Move, Decide, p, to
<1> QED BY <1>7, <1>8 DEF WorkOK

(* -------------------------------- steps ------------------------------- *)

\* Every step of the worker leaves it with something right to do.
LEMMA TakeOK ==
  ASSUME IInv, NEW f \in Files, NEW heavy \in HeavyAllowed, Take(f, heavy)
  PROVE  WorkOK(work')
<1>1. rows[f] \in QueuedRow
  BY DEF IInv, TypeOK, Take, IsReady, QueuedRow
<1> QED BY <1>1, SettleOK, SizeOK, VerifyOK, OutcomeOK DEF Take

\* So does the end of its long reads.
LEMMA FinishOK ==
  ASSUME IInv, \/ FinishSettle \/ FinishHash \/ FinishBackfill
               \/ FinishDiffers \/ FinishError
  PROVE  WorkOK(work')
<1>1. WorkOK(work)
  BY DEF IInv
<1>2. CASE FinishSettle
  <2>1. work.file \in Files /\ work.row \in QueuedRow
    BY <1>1, <1>2 DEF FinishSettle, WorkOK, Idle
  <2> QED BY <1>2, <2>1, SettleOK DEF FinishSettle
<1>3. CASE FinishHash
  <2>1. work.file \in Files /\ work.row \in QueuedRow /\ Reached(work.file, work.row.fp)
    BY <1>1, <1>3 DEF FinishHash, WorkOK, Idle
  <2> QED BY <1>3, <2>1, HashedOK, OutcomeOK DEF FinishHash
<1>4. CASE FinishBackfill
  <2>1. /\ work.file \in Files /\ work.row \in QueuedRow /\ work.peer \in Files
        /\ work.peerRow.state \in {"sized", "distinct"} /\ Reached(work.peer, work.peerRow.fp)
    BY <1>1, <1>4 DEF FinishBackfill, WorkOK, Idle
  <2> QED BY <1>4, <2>1, BackfilledOK, OutcomeOK DEF FinishBackfill
<1>5. CASE FinishDiffers \/ FinishError
  <2>1. work.file \in Files /\ work.row \in QueuedRow
    <3>1. work.phase = "compare"
      BY <1>5 DEF FinishDiffers, FinishError
    <3> QED BY <1>1, <3>1 DEF WorkOK, Idle
  <2> QED BY <1>5, <2>1, DiffersOK, BackendErrorOK DEF FinishDiffers, FinishError
<1> QED BY <1>2, <1>3, <1>4, <1>5

\* The invariant of the worker is kept by every step of every thread.
LEMMA WorkStep == ASSUME IInv, [Next]_vars, Grows PROVE WorkOK(work)'
<1>1. WorkOK(work) /\ ComparedOK
  BY DEF IInv
<1>2. CASE work' = work
  BY <1>1, <1>2, WorkStays
<1>3. CASE work' = Idle
  BY <1>3 DEF WorkOK
<1>4. CASE \/ \E f \in Files, heavy \in HeavyAllowed : Take(f, heavy)
           \/ FinishSettle \/ FinishHash \/ FinishBackfill \/ FinishDiffers \/ FinishError
  <2>1. WorkOK(work')
    BY <1>4, TakeOK, FinishOK
  <2> QED BY <1>1, <2>1, WorkStays
<1>5. CASE FinishSame
  BY <1>5, SameOK, Zenon
<1>6. \/ work' = work \/ work' = Idle \/ FinishSame
      \/ \E f \in Files, heavy \in HeavyAllowed : Take(f, heavy)
      \/ FinishSettle \/ FinishHash \/ FinishBackfill \/ FinishDiffers \/ FinishError
  BY DEF Next, Environment, Write, MoveIn, Vanish, Return, Age, FallDue, Overdue, Crash,
     Watcher, WatchTouched, WatchRemoved, WatchMovedOut, WatchCommit,
     Walk, WalkSee, WalkInsert, ScanPhaseB, ReconcileCommit, PresenceCommit,
     Scheduler, ReconcileSee, PresenceSee, PresenceFinish, Expire, Purge, Unskip, Requeue,
     Worker, Finish, Commit, vars
<1> QED BY <1>2, <1>3, <1>4, <1>5, <1>6

\* What is under its path has been written.
LEMMA BornStep == ASSUME IInv, [Next]_vars, Grows PROVE Born'
<1>1. \A f \in Files : (present[f] => Version(f) > 0) /\ history[f] \in Seq(Contents)
  BY DEF IInv, Born, TypeOK
<1>2. CASE UNCHANGED present
  BY <1>1, <1>2 DEF Born, Grows
<1>3. ASSUME NEW f \in Files, MoveIn(f) PROVE Born'
  <2>1. /\ present' = [present EXCEPT ![f] = TRUE] /\ history'[f] # <<>>
        /\ \A p \in Files \ {f} : history'[p] = history[p]
    BY <1>3, <1>1 DEF MoveIn, IInv, TypeOK
  <2>2. Version(f)' > 0
    BY <1>1, <1>3 DEF MoveIn, IInv, TypeOK, Version
  <2> QED BY <1>1, <2>1, <2>2 DEF Born, Version, IInv, TypeOK
<1>4. ASSUME NEW f \in Files, Vanish(f) \/ Return(f) PROVE Born'
  BY <1>1, <1>4 DEF Vanish, Return, Born, Version, IInv, TypeOK
<1>5. UNCHANGED present \/ \E f \in Files : MoveIn(f) \/ Vanish(f) \/ Return(f)
  BY DEF Next, Environment, Write, Age, FallDue, Overdue, Crash,
     Watcher, WatchTouched, WatchRemoved, WatchMovedOut, WatchCommit,
     Walk, WalkSee, WalkInsert, ScanPhaseB, ReconcileCommit, PresenceCommit,
     Scheduler, ReconcileSee, PresenceSee, PresenceFinish, Expire, Purge, Unskip, Requeue,
     Worker, Take, Finish, FinishSettle, FinishHash, FinishBackfill, FinishSame,
     FinishDiffers, FinishError, Commit, vars, disk
<1> QED BY <1>2, <1>3, <1>4, <1>5

\* Only versions that exist were compared.
LEMMA ComparedStep == ASSUME IInv, [Next]_vars, Grows PROVE ComparedOK'
<1>1. ComparedOK /\ WorkOK(work)
  BY DEF IInv
<1>2. CASE UNCHANGED compared
  BY <1>1, <1>2 DEF ComparedOK, Grows, Reached
<1>3. ASSUME NEW same, work.phase = "compare", compared' = compared \union {Comparison(same)}
      PROVE  ComparedOK'
  <2>1. /\ work.file \in Files /\ Reached(work.file, work.row.fp)
        /\ work.peer \in Files /\ Reached(work.peer, work.peerRow.fp)
    BY <1>1, <1>3 DEF WorkOK, Idle
  <2> DEFINE e == Comparison(same)
  <2>2. /\ e.file \in Files /\ Reached(e.file, e.ver)
        /\ e.peer \in Files /\ Reached(e.peer, e.pver)
    BY <2>1 DEF Comparison
  <2>3. compared' = compared \union {e}
    BY <1>3
  <2> HIDE DEF e
  <2> QED BY <1>1, <2>2, <2>3 DEF ComparedOK, Grows, Reached
<1>4. CASE FinishSame \/ FinishDiffers
  BY <1>3, <1>4 DEF FinishSame, FinishDiffers
<1>5. UNCHANGED compared \/ FinishSame \/ FinishDiffers
  BY DEF Next, Environment, Write, MoveIn, Vanish, Return, Age, FallDue, Overdue, Crash,
     Watcher, WatchTouched, WatchRemoved, WatchMovedOut, WatchCommit,
     Walk, WalkSee, WalkInsert, ScanPhaseB, ReconcileCommit, PresenceCommit,
     Scheduler, ReconcileSee, PresenceSee, PresenceFinish, Expire, Purge, Unskip, Requeue,
     Worker, Take, Finish, FinishSettle, FinishHash, FinishBackfill, FinishError, Commit, vars
<1> QED BY <1>2, <1>4, <1>5

\* Every step of every thread leaves the two tables in order.
LEMMA TableStep == ASSUME IInv, [Next]_vars PROVE TablesOK(rows', groups')
<1>1. TypeOK /\ WorkOK(work) /\ TablesOK(rows, groups)
  BY DEF IInv, TypeOK, TablesOK, AbsentIsGroupless, VerifiedSound, Sound, Claims
<1>2. \A f \in Files : rows[f] \in Row
  BY <1>1 DEF TypeOK
<1>3. ASSUME NEW t \in Threads, seen[t].by # "nothing"
      PROVE  seen[t].file \in Files /\ seen[t].fp \in Nat
  BY <1>1, <1>3 DEF TypeOK, SeenEntry, Nothing
<1>4. ASSUME NEW f \in Files, NEW v \in Nat, NEW ready \in {"null", "due", "later"},
             Upsert(f, v, ready)
      PROVE  TablesOK(rows', groups')
  BY <1>1, <1>4, UpsertOK DEF Upsert
<1>5. ASSUME NEW f \in Files, FallDue(f) \/ Overdue(f)
      PROVE  TablesOK(rows', groups')
  <2>1. PICK row : /\ \/ row = [rows[f] EXCEPT !.ready = "due"]
                      \/ row = [rows[f] EXCEPT !.hws = "overdue"]
                   /\ rows' = [rows EXCEPT ![f] = row] /\ groups' = groups
    BY <1>5 DEF FallDue, Overdue
  <2>2. row \in Row /\ row.state = rows[f].state /\ row.prev = rows[f].prev
        /\ row.group = rows[f].group /\ row.fp = rows[f].fp
    BY <1>2, <2>1 DEF Row
  <2>3. (row.state = "absent" => row.group = 0) /\ (Claims(row) => Claims(rows[f]))
    BY <1>1, <2>2 DEF Claims, TablesOK
  <2> QED BY <1>1, <2>1, <2>2, <2>3, OneRow DEF TypeOK
<1>6. ASSUME NEW f \in Files, WatchRemoved(f) \/ WatchMovedOut(f) \/ PresenceFinish(f)
      PROVE  TablesOK(rows', groups')
  BY <1>1, <1>6, MarkedOK DEF WatchRemoved, WatchMovedOut, PresenceFinish
<1>7. ASSUME NEW f \in Files, NEW row, rows' = [rows EXCEPT ![f] = row], groups' = groups,
             row \in Row, row.state # "absent", row.fp = rows[f].fp, Claims(row) => Claims(rows[f])
      PROVE  TablesOK(rows', groups')
  BY <1>1, <1>7, OneRow DEF TypeOK
<1>8. ASSUME NEW f \in Files, Expire(f) PROVE TablesOK(rows', groups')
  <2> DEFINE row == [rows[f] EXCEPT !.state = "gone"]
  <2>1. rows' = [rows EXCEPT ![f] = row] /\ groups' = groups
    BY <1>8 DEF Expire
  <2>2. row \in Row /\ row.state # "absent" /\ row.fp = rows[f].fp /\ ~Claims(row)
    BY <1>2 DEF Row, Claims, State, Lost, Proven
  <2> QED BY <1>7, <2>1, <2>2
<1>9. ASSUME NEW f \in Files, Requeue(f) PROVE TablesOK(rows', groups')
  <2> DEFINE row == [rows[f] EXCEPT !.state = "hashed", !.ready = "due"]
  <2>1. rows' = [rows EXCEPT ![f] = row] /\ groups' = groups
    BY <1>9 DEF Requeue
  <2>2. "hashed" \in State \union {"absent"} /\ "due" \in {"null", "due", "later"}
    BY DEF State, Queued
  <2> DEFINE half == [rows[f] EXCEPT !.state = "hashed"]
  <2>3. rows[f] \in Row
    BY <1>2
  <2>4. half.state = "hashed" /\ half.fp = rows[f].fp
    BY <2>3 DEF Row
  <2>5. half \in Row
    BY <2>2, <2>3, ColumnSet
  <2> HIDE DEF half
  <2>6. [half EXCEPT !.ready = "due"] \in Row
    BY <2>2, <2>5, ColumnSet
  <2>7. row = [half EXCEPT !.ready = "due"]
    BY Zenon DEF half
  <2>8. row.state = "hashed" /\ row.fp = rows[f].fp
    BY <2>4, <2>5, <2>7 DEF Row
  <2> HIDE DEF row
  <2>9. ~Claims(row)
    BY <2>8 DEF Claims, Proven
  <2> QED BY <1>7, <2>1, <2>6, <2>7, <2>8, <2>9
<1>10. ASSUME NEW f \in Files, Unskip(f) PROVE TablesOK(rows', groups')
  <2> DEFINE row == IF rows[f].state = "skipped"
                    THEN [rows[f] EXCEPT !.state = "settling", !.ready = "due",
                                         !.prev = "skipped", !.skip = "none"]
                    ELSE [rows[f] EXCEPT !.skip = "none"]
  <2>1. rows' = [rows EXCEPT ![f] = row] /\ groups' = groups /\ rows[f].state # "absent"
    BY <1>10 DEF Unskip
  <2>2. CASE rows[f].state = "skipped"
    <3> DEFINE half == [rows[f] EXCEPT !.state = "settling", !.ready = "due"]
               back == [half EXCEPT !.prev = "skipped", !.skip = "none"]
    <3>1. row = back
      BY <2>2
    <3>2. "settling" \in State /\ "skipped" \in State
      BY DEF State, Queued, Resting
    <3> rows[f] \in Row
      BY <1>2
    <3>3. half \in Row /\ half.state = "settling" /\ half.fp = rows[f].fp
      BY <3>2 DEF Row
    <3> HIDE DEF half
    <3>4. back \in Row /\ back.state = half.state /\ back.fp = half.fp
      BY <3>2, <3>3 DEF Row
    <3> HIDE DEF back, row
    <3>5. ~Claims(back)
      BY <3>3, <3>4 DEF Claims, Proven
    <3> QED BY <1>7, <2>1, <3>1, <3>3, <3>4, <3>5
  <2>3. CASE rows[f].state # "skipped"
    <3> DEFINE same == [rows[f] EXCEPT !.skip = "none"]
    <3>1. row = same
      BY <2>3
    <3>2. same \in Row /\ same.state = rows[f].state /\ same.prev = rows[f].prev
          /\ same.fp = rows[f].fp
      BY <1>2 DEF Row
    <3> HIDE DEF same, row
    <3>3. Claims(same) => Claims(rows[f])
      BY <3>2 DEF Claims
    <3> QED BY <1>7, <2>1, <3>1, <3>2, <3>3
  <2> QED BY <2>2, <2>3
<1>11. CASE WatchCommit
  <2>1. seen["watcher"].by # "nothing" /\ "watcher" \in Threads
    BY <1>1, <1>11 DEF WatchCommit, TypeOK, SeenEntry, Nothing, Threads
  <2> QED BY <1>3, <1>4, <1>11, <2>1 DEF WatchCommit
<1>12. CASE ReconcileCommit \/ PresenceCommit
  <2>1. seen["scheduler"].by # "nothing" /\ "scheduler" \in Threads
    BY <1>12 DEF ReconcileCommit, PresenceCommit, Threads
  <2>2. seen["scheduler"].file \in Files /\ seen["scheduler"].fp \in Nat
    BY <1>3, <2>1
  <2>3. CASE ReconcileCommit
    BY <1>4, <2>2, <2>3 DEF ReconcileCommit
  <2>4. CASE PresenceCommit
    BY <1>1, <1>4, <2>2, <2>4 DEF PresenceCommit, db
  <2> QED BY <1>12, <2>3, <2>4
<1>13. CASE WalkInsert
  <2> DEFINE e == seen["scheduler"]
             row == IF rows[e.file].state # "absent" THEN rows[e.file]
                    ELSE IF e.fresh THEN BlankRow("settling", e.fp, "later")
                    ELSE BlankRow("sized", e.fp, "null")
  <2>1. e.file \in Files /\ e.fp \in Nat
    BY <1>3, <1>13 DEF WalkInsert, Threads
  <2>2. rows' = [rows EXCEPT ![e.file] = row] /\ groups' = groups
    BY <1>13 DEF WalkInsert
  <2>3. /\ BlankRow("settling", e.fp, "later") \in Row
        /\ BlankRow("sized", e.fp, "null") \in Row
    BY <2>1, BlankRowType DEF State, Queued
  <2>4. row \in Row /\ row.state # "absent"
        /\ (Claims(row) => Claims(rows[e.file]) /\ row.fp = rows[e.file].fp)
    BY <1>2, <2>1, <2>3 DEF BlankRow, Claims, Proven
  <2> HIDE DEF e, row
  <2> QED BY <1>1, <2>1, <2>2, <2>4, OneRow DEF TypeOK
<1>14. CASE ScanPhaseB
  <2>1. rows' \in [Files -> Row] /\ groups' = groups
    <3>1. ASSUME NEW f \in Files PROVE rows'[f] \in Row
      BY <1>2, <1>14 DEF ScanPhaseB, Row, State, Resting
    <3>2. rows' = [f \in Files |-> rows'[f]] /\ groups' = groups
      BY <1>14 DEF ScanPhaseB
    <3> QED BY <3>1, <3>2
  <2>2. ASSUME NEW f \in Files
        PROVE  /\ rows'[f].fp = rows[f].fp /\ rows'[f].group = rows[f].group
               /\ Claims(rows'[f]) => Claims(rows[f])
               /\ rows'[f].state = "absent" => rows[f].state = "absent"
    BY <1>2, <1>14 DEF ScanPhaseB, Row, Claims, Proven
  <2> QED BY <1>1, <2>1, <2>2 DEF TablesOK, Sound
<1>15. ASSUME NEW f \in Files, Purge(f) PROVE TablesOK(rows', groups')
  <2>1. NoRow \in Row /\ NoRow.state = "absent" /\ NoRow.group = 0 /\ ~Claims(NoRow)
    BY BlankRowType DEF NoRow, BlankRow, Claims, Proven
  <2>2. groups' \in Seq(Group)
    <3>1. /\ groups' = [g \in 1..Len(groups) |->
                          [groups[g] EXCEPT !.canon = IF @ = f THEN NoFile ELSE @]]
          /\ groups \in [1..Len(groups) -> Group] /\ Len(groups) \in Nat
      BY <1>1, <1>15 DEF Purge, TypeOK
    <3>2. groups' \in [1..Len(groups) -> Group]
      BY <3>1 DEF Group
    <3> QED BY <3>1, <3>2, IndexedSeq
  <2>3. rows' = [rows EXCEPT ![f] = NoRow]
    BY <1>15 DEF Purge
  <2> QED BY <1>1, <2>1, <2>2, <2>3, OneRow
<1>16. CASE Commit
  <2>1. TransitionOK(work.t)
    BY <1>1, <1>16 DEF WorkOK, Commit, Idle
  <2> QED BY <1>1, <1>16, <2>1, AppliedOK, AppliedGroupsType DEF Commit, IInv, TablesOK
<1>17. CASE UNCHANGED db
  BY <1>1, <1>17 DEF db
<1>18. \/ UNCHANGED db \/ WatchCommit \/ ReconcileCommit \/ PresenceCommit \/ WalkInsert
       \/ ScanPhaseB \/ Commit
       \/ \E f \in Files : \/ FallDue(f) \/ Overdue(f) \/ WatchRemoved(f) \/ WatchMovedOut(f)
                           \/ PresenceFinish(f) \/ Expire(f) \/ Purge(f) \/ Unskip(f) \/ Requeue(f)
  BY DEF Next, Environment, Write, MoveIn, Vanish, Return, Age, Crash,
     Watcher, WatchTouched, Walk, WalkSee, Scheduler, ReconcileSee, PresenceSee,
     Worker, Take, Finish, FinishSettle, FinishHash, FinishBackfill, FinishSame,
     FinishDiffers, FinishError, vars, db
<1> QED BY <1>5, <1>6, <1>8, <1>9, <1>10, <1>11, <1>12, <1>13, <1>14, <1>15, <1>16,
           <1>17, <1>18

\* The variables outside the store keep their types.
OutsideOK ==
  /\ history \in [Files -> Seq(Contents)]
  /\ present \in [Files -> BOOLEAN]
  /\ mishaps \in 0..MaxMishaps
  /\ fresh \in [Files -> BOOLEAN]
  /\ pending \in [Files -> Seq({"touched", "removed", "moved_out"})]
  /\ DOMAIN seen = Threads /\ \A t \in Threads : seen[t] \in SeenEntry
  /\ boot \in [phase : {"A", "done"}, left : SUBSET Files]

\* The environment leaves what lies outside the tables in its types ...
LEMMA EnvironmentType == ASSUME OutsideOK, Environment PROVE OutsideOK'
<1> USE DEF OutsideOK
<1>1. MaxMishaps \in Nat
  BY PipelineAssumption
<1>2. ASSUME NEW f \in Files, NEW ev \in {"touched", "removed", "moved_out"}, Announce(f, ev)
      PROVE  pending' \in [Files -> Seq({"touched", "removed", "moved_out"})]
  BY <1>2 DEF Announce
<1>3. ASSUME NEW f \in Files, Write(f) PROVE OutsideOK'
  BY <1>2, <1>3 DEF Write
<1>4. ASSUME NEW f \in Files, MoveIn(f) PROVE OutsideOK'
  <2>1. PICK c \in Contents : history' = [history EXCEPT ![f] = <<c>>]
    BY <1>4 DEF MoveIn
  <2>2. history' \in [Files -> Seq(Contents)]
    BY <2>1
  <2>3. boot' \in [phase : {"A", "done"}, left : SUBSET Files]
    BY <1>4 DEF MoveIn
  <2> QED BY <1>4, <2>2, <2>3 DEF MoveIn
<1>5. ASSUME NEW f \in Files, Vanish(f) PROVE OutsideOK'
  BY <1>1, <1>2, <1>5 DEF Vanish
<1>6. ASSUME NEW f \in Files, Return(f) PROVE OutsideOK'
  BY <1>2, <1>6 DEF Return
<1>7. ASSUME NEW f \in Files, Age(f) PROVE OutsideOK'
  BY <1>7 DEF Age
<1>8. ASSUME NEW f \in Files, FallDue(f) \/ Overdue(f) \/ Unskip(f) PROVE OutsideOK'
  BY <1>8 DEF FallDue, Overdue, Unskip, disk
<1>9. CASE Crash
  BY <1>1, <1>9 DEF Crash, SeenEntry
<1> QED BY <1>3, <1>4, <1>5, <1>6, <1>7, <1>8, <1>9 DEF Environment

\* ... and so do the threads.
LEMMA OutsideType == ASSUME OutsideOK, [Next]_vars PROVE OutsideOK'
<1> USE DEF OutsideOK
<1>1. CASE Environment
  BY <1>1, EnvironmentType
<1>2. \A f \in Files : Version(f) \in Nat
  BY DEF Version
<1>3. ASSUME NEW f \in Files, NEW ev, TakeEvent(f, ev)
      PROVE  pending' \in [Files -> Seq({"touched", "removed", "moved_out"})]
  BY <1>3 DEF TakeEvent
<1>4. ASSUME NEW t \in Threads, NEW entry \in SeenEntry, See(t, entry) \/ Drop(t)
      PROVE  DOMAIN seen' = Threads /\ \A u \in Threads : seen'[u] \in SeenEntry
  BY <1>4 DEF See, Drop, SeenEntry
<1>5. CASE Watcher
  BY <1>2, <1>3, <1>4, <1>5 DEF Watcher, WatchTouched, WatchRemoved, WatchMovedOut,
     WatchCommit, SeenEntry, Threads, disk
<1>6. CASE Walk
  <2>1. ASSUME NEW f \in Files, WalkSee(f) PROVE OutsideOK'
    <3>1. boot' \in [phase : {"A", "done"}, left : SUBSET Files]
      BY <2>1 DEF WalkSee
    <3>2. DOMAIN seen' = Threads /\ \A u \in Threads : seen'[u] \in SeenEntry
      BY <1>2, <1>4, <2>1 DEF WalkSee, SeenEntry, Threads
    <3> QED BY <2>1, <3>1, <3>2 DEF WalkSee, disk
  <2>2. CASE ScanPhaseB
    BY <2>2 DEF ScanPhaseB, disk
  <2>3. CASE WalkInsert \/ ReconcileCommit \/ PresenceCommit
    BY <1>4, <2>3 DEF WalkInsert, ReconcileCommit, PresenceCommit, SeenEntry, Threads, disk
  <2> QED BY <1>6, <2>1, <2>2, <2>3 DEF Walk
<1>7. CASE Scheduler
  <2>1. ASSUME NEW f \in Files, ReconcileSee(f) \/ PresenceSee(f) PROVE OutsideOK'
    <3>1. PICK entry \in SeenEntry : See("scheduler", entry)
      BY <1>2, <2>1 DEF ReconcileSee, PresenceSee, SeenEntry
    <3> QED BY <1>4, <2>1, <3>1 DEF ReconcileSee, PresenceSee, Threads, disk
  <2>2. ASSUME NEW f \in Files, \/ PresenceFinish(f) \/ Expire(f) \/ Purge(f) \/ Requeue(f)
        PROVE  OutsideOK'
    BY <2>2 DEF PresenceFinish, Expire, Purge, Requeue, disk
  <2> QED BY <1>7, <2>1, <2>2 DEF Scheduler
<1>8. CASE Worker \/ UNCHANGED vars
  BY <1>8 DEF Worker, Take, Finish, FinishSettle, FinishHash, FinishBackfill, FinishSame,
     FinishDiffers, FinishError, Commit, vars, disk
<1> QED BY <1>1, <1>5, <1>6, <1>7, <1>8 DEF Next

(* ------------------------------ theorems ------------------------------ *)

\* The empty store claims nothing.
LEMMA InitInv == ASSUME Init PROVE IInv
<1>1. OutsideOK
  <2>1. history \in [Files -> Seq(Contents)]
    <3> DEFINE S == {<<c>> : c \in Contents} \union (IF "move_in" \in Moves THEN {<<>>} ELSE {})
    <3>1. history \in [Files -> S]
      BY DEF Init
    <3>2. ASSUME NEW s \in S PROVE s \in Seq(Contents)
      <4>1. CASE \E c \in Contents : s = <<c>>
        BY <4>1
      <4>2. CASE s = <<>>
        BY <4>2
      <4> QED BY <3>2, <4>1, <4>2, Zenon
    <3> HIDE DEF S
    <3> QED BY <3>1, <3>2
  <2>2. fresh \in [Files -> BOOLEAN] /\ present \in [Files -> BOOLEAN]
    BY DEF Init
  <2>3. pending \in [Files -> Seq({"touched", "removed", "moved_out"})]
    <3>1. \A f \in Files : pending[f] \in {<<>>, <<"touched">>}
      BY DEF Init
    <3>2. pending = [f \in Files |-> pending[f]]
      BY DEF Init
    <3>3. {<<>>, <<"touched">>} \subseteq Seq({"touched", "removed", "moved_out"})
      OBVIOUS
    <3> QED BY <3>1, <3>2, <3>3
  <2>4. mishaps \in 0..MaxMishaps
    BY PipelineAssumption DEF Init
  <2>5. /\ DOMAIN seen = Threads /\ \A t \in Threads : seen[t] \in SeenEntry
        /\ boot \in [phase : {"A", "done"}, left : SUBSET Files]
    BY DEF Init, SeenEntry
  <2> QED BY <2>1, <2>2, <2>3, <2>4, <2>5 DEF OutsideOK
<1>2. NoRow \in Row /\ NoRow.state = "absent" /\ NoRow.group = 0 /\ ~Claims(NoRow)
  BY BlankRowType DEF NoRow, BlankRow, Claims, Proven
<1>3. \A f \in Files : rows[f] = NoRow
  BY DEF Init
<1>4. TypeOK
  <2>1. rows \in [Files -> Row] /\ groups \in Seq(Group)
    BY <1>2 DEF Init
  <2> QED BY <1>1, <2>1 DEF TypeOK, OutsideOK
<1>5. WorkOK(work) /\ ComparedOK
  BY DEF Init, WorkOK, ComparedOK
<1>6. Born
  <2>1. ASSUME NEW f \in Files, present[f] PROVE history[f] \in Seq(Contents) /\ history[f] # <<>>
    BY <1>1, <2>1 DEF Init, OutsideOK
  <2> QED BY <2>1 DEF Born, Version
<1>7. AbsentIsGroupless /\ VerifiedSound
  BY <1>2, <1>3 DEF AbsentIsGroupless, VerifiedSound, Claims
<1> QED BY <1>4, <1>5, <1>6, <1>7 DEF IInv

\* The invariant is inductive.
LEMMA NextInv == ASSUME IInv, [Next]_vars PROVE IInv'
<1>1. Grows /\ OutsideOK /\ ComparedOK
  BY StepGrows DEF IInv, TypeOK, OutsideOK
<1>2. TablesOK(rows', groups')
  BY TableStep
<1>3. TypeOK'
  BY <1>1, <1>2, OutsideType DEF TypeOK, OutsideOK, TablesOK
<1>4. VerifiedSound'
  BY <1>1, <1>2, EvidenceStays DEF TablesOK, Sound, Claims, VerifiedSound
<1>5. AbsentIsGroupless'
  BY <1>2 DEF TablesOK, AbsentIsGroupless
<1> QED BY <1>1, <1>3, <1>4, <1>5, WorkStep, BornStep, ComparedStep DEF IInv

\* The strengthened invariant holds in every state of every behaviour.
THEOREM Invariance == Spec => []IInv
BY InitInv, NextInv, PTL DEF Spec

\* The variables keep their types: in particular every row and every group
\* stays a row and a group of the schema.
THEOREM TypeCorrect == Spec => []TypeOK
<1>1. IInv => TypeOK BY DEF IInv
<1> QED BY <1>1, Invariance, PTL

\* A row is verified or deduped, or may be restored to that, only when a byte
\* comparison of the version it records found it equal, no matter how many
\* writes, walks, events, crashes and failures came in between.
THEOREM VerifiedIsSound == Spec => []VerifiedSound
<1>1. IInv => VerifiedSound BY DEF IInv
<1> QED BY <1>1, Invariance, PTL

(* ------------------------ pointers of the groups ---------------------- *)

\* A table keeps its rows: those that are there stay.
Keeps(R) == \A f \in Files : rows[f].state # "absent" => R[f].state # "absent"

\* Pointers that stay, or are taken away, lead to rows that stay.
LEMMA KeepingPoints ==
  ASSUME TypeOK, PointerExists, Keeps(rows'), Len(groups') = Len(groups),
         \A g \in 1..Len(groups) : groups'[g].canon \in {groups[g].canon, NoFile}
  PROVE  PointerExists'
<1> SUFFICES ASSUME NEW g \in 1..Len(groups), groups'[g].canon # NoFile
    PROVE  rows'[groups'[g].canon].state # "absent"
  BY DEF PointerExists
<1>1. groups[g] \in Group /\ groups'[g].canon = groups[g].canon
  BY DEF TypeOK
<1>2. groups[g].canon \in Files
  BY <1>1 DEF Group
<1> QED BY <1>1, <1>2 DEF PointerExists, Keeps

\* A change of one row that does not remove it.
LEMMA OneKept ==
  ASSUME TypeOK, NEW f \in Files, NEW row, rows' = [rows EXCEPT ![f] = row],
         rows[f].state # "absent" => row.state # "absent"
  PROVE  Keeps(rows')
BY DEF TypeOK, Keeps

\* An upsert leaves a row that is there, and may take its pointer away.
LEMMA UpsertKeeps ==
  ASSUME TypeOK, PointerExists, NEW f \in Files, NEW v, NEW ready, Upsert(f, v, ready)
  PROVE  PointerExists'
<1> DEFINE g == rows[f].group
<1>1. rows[f] \in Row /\ groups \in Seq(Group)
  BY DEF TypeOK
<1>2. UpsertRow(rows[f], v, ready).state # "absent"
  BY <1>1 DEF UpsertRow, NewRow, BlankRow, Upserted, RestoreTarget, Row, Queued, Resting, Proven
<1>3. Keeps(rows')
  BY <1>2, OneKept DEF Upsert
<1>4. groups' = groups \/ groups' = [groups EXCEPT ![g].canon = NoFile]
  BY DEF Upsert, UpsertGroups
<1> HIDE DEF g
<1>5. /\ Len(groups') = Len(groups)
      /\ \A n \in 1..Len(groups) : groups'[n].canon \in {groups[n].canon, NoFile}
  <2>1. \A n \in 1..Len(groups) : groups[n] \in Group
    BY <1>1
  <2> QED BY <1>1, <1>4, <2>1 DEF Group
<1> QED BY <1>3, <1>5, KeepingPoints

\* mark_missing keeps the row.
LEMMA MarkKeeps ==
  ASSUME NEW row \in Row, row.state # "absent"
  PROVE  MarkedMissing(row).state # "absent"
<1>1. CASE row.state \in Lost \union {"absent"}
  BY <1>1 DEF MarkedMissing
<1>2. CASE row.state \notin Lost \union {"absent"}
  <2> DEFINE a == [row EXCEPT !.state = "missing"]
             b == [a EXCEPT !.prev = row.state]
             c == [b EXCEPT !.ready = "null"]
             d == [c EXCEPT !.hws = "no"]
  <2>1. MarkedMissing(row) = d
    BY <1>2, Zenon DEF MarkedMissing
  <2>2. DOMAIN a = DOMAIN row /\ a.state = "missing" /\ "state" \in DOMAIN row
    BY DEF Row
  <2> HIDE DEF a
  <2>3. DOMAIN b = DOMAIN row /\ b.state = "missing"
    BY <2>2
  <2> HIDE DEF b
  <2>4. DOMAIN c = DOMAIN row /\ c.state = "missing"
    BY <2>2, <2>3
  <2> HIDE DEF c
  <2>5. d.state = "missing"
    BY <2>2, <2>4
  <2> QED BY <2>1, <2>5
<1> QED BY <1>1, <1>2

\* A transition leaves the rows that are there.
LEMMA AppliedKeeps ==
  ASSUME TypeOK, NEW t, TransitionOK(t)
  PROVE  Keeps(AppliedRows(rows, groups, t))
<1> DEFINE new     == AppliedRows(rows, groups, t)
           changed == ChangedRows(rows, t)
           grp(f)  == GroupAfter(f, changed[f].group, t, Len(groups) + 1)
<1> SUFFICES ASSUME NEW f \in Files, rows[f].state # "absent"
    PROVE  new[f].state # "absent"
  BY DEF Keeps
<1>1. CASE ~Applies(rows, t)
  BY <1>1 DEF AppliedRows
<1>2. CASE Applies(rows, t)
  <2>1. new = [h \in Files |-> [changed[h] EXCEPT !.group = grp(h)]]
    BY <1>2, Zenon DEF AppliedRows
  <2>2. changed[f] \in Row /\ changed[f].state # "absent"
    <3>1. rows[f] \in Row
      BY DEF TypeOK
    <3> QED BY <3>1, ChangedBy, CasType, CasPresent
  <2>3. new[f] = [changed[f] EXCEPT !.group = grp(f)]
    BY <2>1
  <2> HIDE DEF changed, grp, new
  <2> QED BY <2>2, <2>3 DEF Row
<1> QED BY <1>1, <1>2

\* A transition points its group at a file whose row is there.
LEMMA AppliedPoints ==
  ASSUME TypeOK, PointerExists, NEW t, TransitionOK(t),
         rows' = AppliedRows(rows, groups, t), groups' = AppliedGroups(rows, groups, t)
  PROVE  PointerExists'
<1>1. Keeps(rows')
  BY AppliedKeeps
<1>2. groups \in Seq(Group) /\ Len(groups) \in Nat
  BY DEF TypeOK
<1>3. CASE groups' = groups
  BY <1>1, <1>2, <1>3, KeepingPoints
<1>4. CASE Applies(rows, t) /\ t.op.op = "create"
  <2> DEFINE c == t.op.canon
             new == [hash |-> t.op.hash, canon |-> c]
  <2>1. c \in Files /\ rows[c].state # "absent"
    BY <1>4 DEF Applies, Rejected, TransitionOK, OpOK
  <2>2. groups' = Append(groups, new)
    BY <1>4 DEF AppliedGroups
  <2>3. ASSUME NEW g \in 1..Len(groups'), groups'[g].canon # NoFile
        PROVE  rows'[groups'[g].canon].state # "absent"
    <3>1. CASE g = Len(groups) + 1
      BY <1>1, <1>2, <2>1, <2>2, <3>1 DEF Keeps
    <3>2. CASE g \in 1..Len(groups)
      <4>1. groups[g] \in Group
        BY <1>2, <3>2
      <4>2. groups'[g] = groups[g]
        BY <1>2, <2>2, <3>2
      <4>3. groups[g].canon \in Files
        BY <2>3, <4>1, <4>2 DEF Group
      <4> QED BY <1>1, <2>3, <3>2, <4>2, <4>3 DEF Keeps, PointerExists
    <3> QED BY <1>2, <2>2, <3>1, <3>2
  <2> QED BY <2>3 DEF PointerExists
<1>5. CASE Applies(rows, t) /\ t.op.op = "set_canonical"
  <2> DEFINE k == t.op.group
             c == t.op.canon
  <2>1. c \in Files /\ rows[c].state # "absent"
    BY <1>5 DEF Applies, TransitionOK, OpOK, ChangeOK, Queued
  <2>2. groups' = [groups EXCEPT ![k].canon = c]
    BY <1>5 DEF AppliedGroups
  <2> HIDE DEF k, c
  <2>3. ASSUME NEW g \in 1..Len(groups)
        PROVE  groups'[g].canon \in {groups[g].canon, c}
    <3>1. groups[g] \in Group
      BY <1>2
    <3> QED BY <1>2, <2>2, <3>1 DEF Group
  <2>4. ASSUME NEW g \in 1..Len(groups'), groups'[g].canon # NoFile
        PROVE  rows'[groups'[g].canon].state # "absent"
    <3>1. g \in 1..Len(groups)
      BY <1>2, <2>2
    <3>2. CASE groups'[g].canon = c
      BY <1>1, <2>1, <3>2 DEF Keeps
    <3>3. CASE groups'[g].canon = groups[g].canon
      <4>1. groups[g] \in Group
        BY <1>2, <3>1
      <4>2. groups[g].canon \in Files
        BY <2>4, <3>3, <4>1 DEF Group
      <4> QED BY <1>1, <2>4, <3>1, <3>3, <4>2 DEF Keeps, PointerExists
    <3> QED BY <2>3, <3>1, <3>2, <3>3
  <2> QED BY <2>4 DEF PointerExists
<1> QED BY <1>3, <1>4, <1>5 DEF AppliedGroups, TransitionOK, OpOK

\* No step leaves a group pointing at a row that is not there.
LEMMA PointerStep == ASSUME IInv, PointerExists, [Next]_vars PROVE PointerExists'
<1>1. TypeOK /\ WorkOK(work) /\ \A f \in Files : rows[f] \in Row
  BY DEF IInv, TypeOK
<1>2. ASSUME Keeps(rows'), groups' = groups PROVE PointerExists'
  BY <1>1, <1>2, KeepingPoints DEF TypeOK
<1>3. ASSUME NEW f \in Files, NEW row, rows' = [rows EXCEPT ![f] = row], groups' = groups,
             rows[f].state # "absent" => row.state # "absent"
      PROVE  PointerExists'
  BY <1>1, <1>2, <1>3, OneKept
<1>4. ASSUME NEW t \in Threads, seen[t].by # "nothing" PROVE seen[t].file \in Files
  BY <1>1, <1>4 DEF TypeOK, SeenEntry, Nothing
<1>5. ASSUME NEW f \in Files, NEW v, NEW ready, Upsert(f, v, ready) PROVE PointerExists'
  BY <1>1, <1>5, UpsertKeeps
<1>6. ASSUME NEW f \in Files, FallDue(f) \/ Overdue(f) \/ Expire(f) PROVE PointerExists'
  <2>1. PICK row : /\ \/ row = [rows[f] EXCEPT !.ready = "due"]
                      \/ row = [rows[f] EXCEPT !.hws = "overdue"]
                      \/ row = [rows[f] EXCEPT !.state = "gone"]
                   /\ rows' = [rows EXCEPT ![f] = row] /\ groups' = groups
    BY <1>6 DEF FallDue, Overdue, Expire
  <2>2. rows[f].state # "absent" => row.state # "absent"
    BY <1>1, <2>1 DEF Row
  <2> QED BY <1>3, <2>1, <2>2
<1>7. ASSUME NEW f \in Files, WatchRemoved(f) \/ WatchMovedOut(f) \/ PresenceFinish(f)
      PROVE  PointerExists'
  <2>1. groups' = groups /\ (rows' = rows \/ rows' = [rows EXCEPT ![f] = MarkedMissing(rows[f])])
    BY <1>7 DEF WatchRemoved, WatchMovedOut, PresenceFinish
  <2>2. rows[f].state # "absent" => MarkedMissing(rows[f]).state # "absent"
    BY <1>1, MarkKeeps
  <2>3. CASE rows' = rows
    BY <1>2, <2>1, <2>3 DEF Keeps
  <2> QED BY <1>3, <2>1, <2>2, <2>3
<1>8. ASSUME NEW f \in Files, Requeue(f) PROVE PointerExists'
  <2> DEFINE half == [rows[f] EXCEPT !.state = "hashed"]
             row  == [half EXCEPT !.ready = "due"]
  <2>1. rows' = [rows EXCEPT ![f] = row] /\ groups' = groups
    BY <1>8, Zenon DEF Requeue
  <2>2. half.state = "hashed" /\ DOMAIN half = DOMAIN rows[f] /\ "state" \in DOMAIN rows[f]
    BY <1>1 DEF Row
  <2> HIDE DEF half
  <2>3. row.state = "hashed"
    BY <2>2
  <2> HIDE DEF row
  <2> QED BY <1>3, <2>1, <2>3
<1>9. ASSUME NEW f \in Files, Unskip(f) PROVE PointerExists'
  <2> DEFINE a == [rows[f] EXCEPT !.state = "settling"]
             b == [a EXCEPT !.ready = "due"]
             c == [b EXCEPT !.prev = "skipped"]
             d == [c EXCEPT !.skip = "none"]
             same == [rows[f] EXCEPT !.skip = "none"]
  <2>1. groups' = groups /\ (rows' = [rows EXCEPT ![f] = d] \/ rows' = [rows EXCEPT ![f] = same])
    <3>1. CASE rows[f].state = "skipped"
      BY <1>9, <3>1 DEF Unskip
    <3>2. CASE rows[f].state # "skipped"
      BY <1>9, <3>2 DEF Unskip
    <3> QED BY <3>1, <3>2
  <2>2. "state" \in DOMAIN rows[f] /\ same.state = rows[f].state
    BY <1>1 DEF Row
  <2>3. a.state = "settling" /\ DOMAIN a = DOMAIN rows[f]
    BY <2>2
  <2> HIDE DEF a, same
  <2>4. b.state = "settling" /\ DOMAIN b = DOMAIN rows[f]
    BY <2>2, <2>3
  <2> HIDE DEF b
  <2>5. c.state = "settling" /\ DOMAIN c = DOMAIN rows[f]
    BY <2>2, <2>4
  <2> HIDE DEF c
  <2>6. d.state = "settling"
    BY <2>2, <2>5
  <2> HIDE DEF d
  <2> QED BY <1>3, <2>1, <2>2, <2>6
<1>10. CASE WatchCommit
  <2>1. seen["watcher"].by # "nothing" /\ "watcher" \in Threads
    BY <1>1, <1>10 DEF WatchCommit, TypeOK, SeenEntry, Nothing, Threads
  <2> QED BY <1>4, <1>5, <1>10, <2>1 DEF WatchCommit
<1>11. CASE ReconcileCommit \/ PresenceCommit
  <2>1. seen["scheduler"].file \in Files
    BY <1>4, <1>11 DEF ReconcileCommit, PresenceCommit, Threads
  <2>2. CASE ReconcileCommit
    BY <1>5, <2>1, <2>2 DEF ReconcileCommit
  <2>3. CASE PresenceCommit
    BY <1>2, <1>5, <2>1, <2>3 DEF PresenceCommit, db, Keeps
  <2> QED BY <1>11, <2>2, <2>3
<1>12. CASE WalkInsert
  <2>1. seen["scheduler"].file \in Files
    BY <1>4, <1>12 DEF WalkInsert, Threads
  <2>2. Keeps(rows') /\ groups' = groups
    BY <1>1, <1>12, <2>1 DEF WalkInsert, Keeps, TypeOK
  <2> QED BY <1>2, <2>2
<1>13. CASE ScanPhaseB
  <2>1. Keeps(rows') /\ groups' = groups
    BY <1>1, <1>13 DEF ScanPhaseB, Keeps, Row
  <2> QED BY <1>2, <2>1
<1>14. ASSUME NEW f \in Files, Purge(f) PROVE PointerExists'
  <2>1. /\ groups' = [g \in 1..Len(groups) |->
                        [groups[g] EXCEPT !.canon = IF @ = f THEN NoFile ELSE @]]
        /\ groups \in [1..Len(groups) -> Group] /\ Len(groups) \in Nat
    BY <1>1, <1>14 DEF Purge, TypeOK
  <2>2. Len(groups') = Len(groups)
    BY <2>1
  <2>3. ASSUME NEW g \in 1..Len(groups), groups'[g].canon # NoFile
        PROVE  rows'[groups'[g].canon].state # "absent"
    <3>1. groups[g] \in Group
      BY <2>1
    <3>2. groups'[g].canon = groups[g].canon /\ groups[g].canon # f /\ groups[g].canon \in Files
      BY <2>1, <2>3, <3>1 DEF Group
    <3>3. rows'[groups[g].canon] = rows[groups[g].canon]
      BY <1>1, <1>14, <3>2 DEF Purge, TypeOK
    <3> QED BY <2>3, <3>2, <3>3 DEF PointerExists
  <2> QED BY <2>2, <2>3 DEF PointerExists
<1>15. CASE Commit
  <2>1. TransitionOK(work.t)
    BY <1>1, <1>15 DEF WorkOK, Commit, Idle
  <2> QED BY <1>1, <1>15, <2>1, AppliedPoints DEF Commit
<1>16. CASE UNCHANGED db
  BY <1>2, <1>16 DEF db, Keeps
<1>17. \/ UNCHANGED db \/ WatchCommit \/ ReconcileCommit \/ PresenceCommit \/ WalkInsert
       \/ ScanPhaseB \/ Commit
       \/ \E f \in Files : \/ FallDue(f) \/ Overdue(f) \/ WatchRemoved(f) \/ WatchMovedOut(f)
                           \/ PresenceFinish(f) \/ Expire(f) \/ Purge(f) \/ Unskip(f) \/ Requeue(f)
  BY DEF Next, Environment, Write, MoveIn, Vanish, Return, Age, Crash,
     Watcher, WatchTouched, Walk, WalkSee, Scheduler, ReconcileSee, PresenceSee,
     Worker, Take, Finish, FinishSettle, FinishHash, FinishBackfill, FinishSame,
     FinishDiffers, FinishError, vars, db
<1> QED BY <1>6, <1>7, <1>8, <1>9, <1>10, <1>11, <1>12, <1>13, <1>14, <1>15, <1>16, <1>17

\* The canonical pointer of a group never leads to a row that is not in the
\* table: a purge takes the pointers away before the row, and a group is
\* created around, or handed to, a row the same transaction has checked.
THEOREM PointersLead == Spec => []PointerExists
<1>1. Init => PointerExists
  BY DEF Init, PointerExists
<1>2. IInv /\ PointerExists /\ [Next]_vars => PointerExists'
  BY PointerStep
<1> QED BY <1>1, <1>2, Invariance, PTL DEF Spec

(* ----------------------- deadlines of the queue ----------------------- *)

\* SettlingHasDeadline, of one row while the initial scan is in a phase.
Timed(row, phase) ==
  /\ row.state = "settling" => row.ready # "null"
  /\ row.state = "sized" /\ row.ready = "null" => phase = "A"
  /\ row.state = "hashed" /\ row.ready = "null" => row.skip = "parked"

\* A change that leaves its row in the queue gives it a deadline, or parks it
\* with the reason, or touches neither.
Timely(c) ==
  c.to \in Queued =>
    \/ "ready" \in DOMAIN c.patch /\ c.patch.ready # "null"
    \/ c.to = "hashed" /\ "skip" \in DOMAIN c.patch /\ c.patch.skip = "parked"
    \/ c.to = c.from /\ {"ready", "skip"} \cap DOMAIN c.patch = {}

\* A change that calls nothing equal, and does not undo.
Modest(c) ==
  /\ c.to \notin Proven
  /\ "skip" \in DOMAIN c.patch => c.patch.skip # "user_undo"

Calm(c) == Timely(c) /\ Modest(c)

\* giong_nhau: a hashed row is called equal, and nothing else happens.
Verdict(t) ==
  /\ t.others = {} /\ t.op = NoOp
  /\ t.self.from = "hashed" /\ t.self.to \in Proven /\ "skip" \notin DOMAIN t.self.patch

\* What the worker is about to write is timely, and modest but for a verdict;
\* only hashed rows are compared.
WorkCalm(w) ==
  /\ w.phase = "commit" => Calm(w.t.self) /\ \A c \in w.t.others : Calm(c)
  /\ w.phase = "compare" => w.row.state = "hashed"

WorkTimely(w) ==
  \/ WorkCalm(w)
  \/ w.phase = "commit" /\ Timely(w.t.self) /\ Verdict(w.t)

\* The initial scan is over when phase B is, also its last insert.
ScanOver == boot.phase = "done" => boot.left = {} /\ seen["scheduler"].by # "insert"

TimeInv == SettlingHasDeadline /\ WorkTimely(work) /\ ScanOver

\* An upsert that leaves its row in the queue gives it the deadline it brings.
LEMMA UpsertTimed ==
  ASSUME NEW row \in Row, NEW v \in Nat, NEW ready \in {"due", "later"}, NEW phase
  PROVE  Timed(UpsertRow(row, v, ready), phase)
<1>1. CASE row.state = "absent"
  BY <1>1 DEF UpsertRow, NewRow, BlankRow, Timed
<1>2. CASE row.state # "absent"
  <2>1. UpsertRow(row, v, ready) = Upserted(row, v, ready)
    BY <1>2 DEF UpsertRow
  <2>2. Upserted(row, v, ready).state \in Queued => Upserted(row, v, ready).ready = ready
    BY <1>2 DEF Upserted, Row, RestoreTarget, State, Queued, Resting, Lost, Proven
  <2> QED BY <2>1, <2>2 DEF Timed, Queued
<1> QED BY <1>1, <1>2

\* A change that is timely keeps its row timed.
LEMMA CasTimed ==
  ASSUME NEW row \in Row, NEW c, ChangeOK(c), Timely(c), NEW phase, Timed(row, phase)
  PROVE  Timed(CasUpdate(row, c), phase)
<1>1. CASE row.state # c.from
  BY <1>1 DEF CasUpdate
<1>2. CASE row.state = c.from
  <2>1. CasUpdate(row, c) = Patched(row, c.to, c.patch)
    BY <1>2 DEF CasUpdate
  <2> QED BY <1>2, <2>1 DEF Timely, Timed, Patched, Column, Queued
<1> QED BY <1>1, <1>2

\* A transition whose changes are timely keeps the table timed.
LEMMA AppliedTimed ==
  ASSUME TypeOK, NEW t, TransitionOK(t), Timely(t.self), \A c \in t.others : Timely(c),
         NEW phase, \A f \in Files : Timed(rows[f], phase)
  PROVE  \A f \in Files : Timed(AppliedRows(rows, groups, t)[f], phase)
<1> DEFINE new     == AppliedRows(rows, groups, t)
           changed == ChangedRows(rows, t)
           grp(f)  == GroupAfter(f, changed[f].group, t, Len(groups) + 1)
<1> SUFFICES ASSUME NEW f \in Files PROVE Timed(new[f], phase)
  OBVIOUS
<1>1. CASE ~Applies(rows, t)
  BY <1>1 DEF AppliedRows
<1>2. CASE Applies(rows, t)
  <2>1. new = [h \in Files |-> [changed[h] EXCEPT !.group = grp(h)]]
    BY <1>2, Zenon DEF AppliedRows
  <2>2. changed[f] \in Row /\ Timed(changed[f], phase)
    <3>1. rows[f] \in Row
      BY DEF TypeOK
    <3> QED BY <3>1, ChangedBy, CasType, CasTimed
  <2>3. new[f] = [changed[f] EXCEPT !.group = grp(f)]
    BY <2>1
  <2> HIDE DEF changed, grp, new
  <2> QED BY <2>2, <2>3 DEF Row, Timed
<1> QED BY <1>1, <1>2

\* The worker decides on a change of one row.
LEMMA MoveTimely ==
  ASSUME NEW f, NEW from, NEW to, NEW p, Calm(Change(f, from, to, p)),
         Move(f, from, to, p)
  PROVE  WorkCalm(work')
BY DEF Calm, Move, Decide, Transition, WorkCalm

\* The worker decides on changes of several.
LEMMA DecideTimely ==
  ASSUME NEW f, NEW from, NEW to, NEW p, Calm(Change(f, from, to, p)),
         NEW others, \A c \in others : Calm(c), NEW op,
         Decide(Transition(f, from, to, p, others, op))
  PROVE  WorkCalm(work')
BY DEF Calm, Decide, Transition, WorkCalm

\* The changes that give a deadline, and those that take the row out of the
\* queue.
LEMMA CalmChange ==
  ASSUME NEW f, NEW from, NEW to, NEW p,
         to \notin Proven, "skip" \in DOMAIN p => p.skip # "user_undo",
         \/ to \notin Queued
         \/ "ready" \in DOMAIN p /\ p.ready # "null"
         \/ to = "hashed" /\ "skip" \in DOMAIN p /\ p.skip = "parked"
         \/ to = from /\ {"ready", "skip"} \cap DOMAIN p = {}
  PROVE  Calm(Change(f, from, to, p))
BY DEF Calm, Timely, Modest, Change

\* The outcomes that every step shares.
LEMMA OutcomeTimely ==
  ASSUME NEW f, NEW row, row.state \in Queued
  PROVE  /\ \A until \in {"due", "later"} : Defer(f, row, until) => WorkCalm(work')
         /\ BackToSettling(f, row) => WorkCalm(work')
         /\ WaitHeavy(f, row) => WorkCalm(work')
         /\ \A p : p.skip = "other" /\ Skip(f, row, p) => WorkCalm(work')
         /\ Retry(f, row) => WorkCalm(work')
         /\ Lose(f, row) => WorkCalm(work')
<1>1. \A until \in {"due", "later"} : Defer(f, row, until) => WorkCalm(work')
  BY CalmChange, MoveTimely DEF Defer, Stay, Queued, Proven
<1>2. BackToSettling(f, row) => WorkCalm(work')
  BY CalmChange, MoveTimely DEF BackToSettling, Queued, Proven
<1>3. WaitHeavy(f, row) => WorkCalm(work')
  BY <1>1, CalmChange, MoveTimely DEF WaitHeavy, Stay, Queued, Proven
<1>4. \A p : p.skip = "other" /\ Skip(f, row, p) => WorkCalm(work')
  BY CalmChange, MoveTimely DEF Skip, Queued, Proven
<1>5. Retry(f, row) => WorkCalm(work')
  BY CalmChange, MoveTimely DEF Retry, Stay, Queued, Proven
<1>6. Lose(f, row) => WorkCalm(work')
  BY CalmChange, MoveTimely DEF Lose, Queued, Proven
<1> QED BY <1>1, <1>2, <1>3, <1>4, <1>5, <1>6

\* settle::buoc, to the open and from it.
LEMMA SettleTimely ==
  ASSUME NEW f, NEW row, row.state \in Queued, Settle(f, row) \/ SettleOpened(f, row)
  PROVE  WorkCalm(work')
<1>1. CASE Stay(f, row, [enq |-> Version(f), ready |-> "later"])
  BY <1>1, CalmChange, MoveTimely DEF Stay, Queued, Proven
<1>2. CASE work' = [phase |-> "settle", file |-> f, row |-> row]
  BY <1>2 DEF WorkCalm
<1>3. CASE Move(f, "settling", "sized",
                [fp |-> Version(f), enq |-> Version(f), skip |-> "none", ready |-> "due"])
  BY <1>3, CalmChange, MoveTimely DEF Queued, Proven
<1>4. CASE Stay(f, row, [fp |-> Version(f), skip |-> "other", ready |-> "later"])
  BY <1>4, CalmChange, MoveTimely DEF Stay, Queued, Proven
<1> QED BY <1>1, <1>2, <1>3, <1>4, OutcomeTimely DEF Settle, SettleOpened

\* sua_ung_vien puts f back into the queue with a deadline.
LEMMA RepairTimely ==
  ASSUME NEW f, NEW p, NEW to, NEW patch, Calm(Change(p, rows[p].state, to, patch)),
         Repair(f, p, to, patch)
  PROVE  WorkCalm(work')
<1>1. Calm(Change(f, "sized", "sized", [ready |-> "due", hws |-> "no"]))
  BY CalmChange DEF Queued, Proven
<1> QED BY <1>1, DecideTimely DEF Repair

\* backfill, up to the read.
LEMMA BackfillTimely ==
  ASSUME NEW f, NEW row, NEW p, Backfill(f, row, p)
  PROVE  WorkCalm(work')
<1>1. /\ Calm(Change(p, rows[p].state, "missing", [prev |-> rows[p].state, ready |-> "null"]))
      /\ Calm(Change(p, rows[p].state, "settling",
                       [fp |-> Version(p), hash |-> NoHash, group |-> 0, ready |-> "later"]))
      /\ Calm(Change(p, rows[p].state, "skipped", SkipPatch))
  BY CalmChange DEF Queued, Proven, SkipPatch
<1>2. CASE work' = [phase |-> "backfill", file |-> f, row |-> row,
                    peer |-> p, peerRow |-> rows[p]]
  BY <1>2 DEF WorkCalm
<1> QED BY <1>1, <1>2, RepairTimely DEF Backfill

\* tao_nhom: the members are due, the canonical row leaves the queue.
LEMMA NewGroupTimely ==
  ASSUME NEW f, NEW row, NEW same, NEW c, NewGroup(f, row, same, c)
  PROVE  WorkCalm(work')
<1> DEFINE ToHashed(p) == Change(p, rows[p].state, "hashed", [ready |-> "due"])
           ToCanon(p)  == Change(p, rows[p].state, "canonical", [ready |-> "null"])
<1>1. ASSUME NEW p, NEW from PROVE
        /\ Calm(Change(p, from, "hashed", [ready |-> "due"]))
        /\ Calm(Change(p, from, "canonical", [ready |-> "null"]))
  BY CalmChange DEF Queued, Proven
<1>2. CASE c = f
  <2>1. \A d \in {ToHashed(p) : p \in same} : Calm(d)
    BY <1>1
  <2> QED BY <1>1, <1>2, <2>1, DecideTimely DEF NewGroup
<1>3. CASE c # f
  <2>1. \A d \in {ToHashed(p) : p \in same \ {c}} \union {ToCanon(c)} : Calm(d)
    BY <1>1
  <2> QED BY <1>1, <1>3, <2>1, DecideTimely DEF NewGroup
<1> QED BY <1>2, <1>3

\* xep_cho and tim_ung_vien.
LEMMA PlaceTimely ==
  ASSUME NEW f, NEW row, row.state \in Queued, NEW heavy, Place(f, row, heavy)
  PROVE  WorkCalm(work')
<1> DEFINE g == Lowest(GroupsByKey(groups, row.hash))
<1>1. CASE FindCandidate(f, row, heavy)
  <2>1. CASE Move(f, "sized", "distinct", [ready |-> "null"])
    <3>1. Calm(Change(f, "sized", "distinct", [ready |-> "null"]))
      BY CalmChange DEF Queued, Proven
    <3> QED BY <2>1, <3>1, MoveTimely
  <2>2. ASSUME NEW p, Backfill(f, row, p) PROVE WorkCalm(work')
    BY <2>2, BackfillTimely
  <2>3. ASSUME NEW S, NEW c, NewGroup(f, row, S, c) PROVE WorkCalm(work')
    BY <2>3, NewGroupTimely
  <2>4. CASE Defer(f, row, "later")
    BY <2>4, OutcomeTimely
  <2>5. ASSUME NEW cands, Match(f, row, heavy, cands) PROVE WorkCalm(work')
    BY <2>1, <2>2, <2>3, <2>4, <2>5 DEF Match
  <2> QED BY <1>1, <2>4, <2>5 DEF FindCandidate
<1>2. CASE Decide(Transition(f, "sized", "canonical", [group |-> g, ready |-> "null"],
                             {}, SetCanonical(g, f)))
  <2>1. Calm(Change(f, "sized", "canonical", [group |-> g, ready |-> "null"]))
    BY CalmChange DEF Queued, Proven
  <2> HIDE DEF g
  <2> QED BY <1>2, <2>1, DecideTimely
<1>3. CASE Move(f, "sized", "canonical", [group |-> g, ready |-> "null"])
  <2>1. Calm(Change(f, "sized", "canonical", [group |-> g, ready |-> "null"]))
    BY CalmChange DEF Queued, Proven
  <2> HIDE DEF g
  <2> QED BY <1>3, <2>1, MoveTimely
<1>4. CASE Move(f, "sized", "hashed", [group |-> g, ready |-> "due"])
  <2> HIDE DEF g
  <2> QED BY <1>4, CalmChange, MoveTimely DEF Queued, Proven
<1> QED BY <1>1, <1>2, <1>3, <1>4 DEF Place

\* sized::buoc, to the read.
LEMMA SizeTimely ==
  ASSUME NEW f, NEW row, row.state \in Queued, NEW heavy, Size(f, row, heavy)
  PROVE  WorkCalm(work')
<1>1. CASE work' = [phase |-> "hash", file |-> f, row |-> row]
  BY <1>1 DEF WorkCalm
<1> QED BY <1>1, OutcomeTimely, PlaceTimely DEF Size, SkipPatch

\* goc_mat_tich, goc_da_doi.
LEMMA SucceedTimely ==
  ASSUME NEW f, NEW g, NEW c, NEW to, NEW patch, Calm(Change(c, rows[c].state, to, patch)),
         Succeed(f, g, c, to, patch)
  PROVE  WorkCalm(work')
<1>1. Calm(Change(f, "hashed", "canonical", [ready |-> "null"]))
  BY CalmChange DEF Queued, Proven
<1> QED BY <1>1, DecideTimely DEF Succeed

\* xac_minh, to the call of the backend.
LEMMA OpenTimely ==
  ASSUME NEW f, NEW row, row.state = "hashed", NEW c, Open(f, row, c)
  PROVE  WorkCalm(work')
<1>1. /\ Calm(Change(c, rows[c].state, "missing", [prev |-> rows[c].state, ready |-> "null"]))
      /\ Calm(Change(c, rows[c].state, "settling",
                       [hash |-> NoHash, group |-> 0, ready |-> "later"]))
  BY CalmChange DEF Queued, Proven
<1>2. CASE work' = [phase |-> "compare", file |-> f, row |-> row,
                    peer |-> c, peerRow |-> rows[c]]
  BY <1>2 DEF WorkCalm
<1>3. row.state \in Queued
  BY DEF Queued
<1> QED BY <1>1, <1>2, <1>3, OutcomeTimely, SucceedTimely DEF Open, SkipPatch

\* verify::buoc, to the call of the backend.
LEMMA VerifyTimely ==
  ASSUME NEW f, NEW row, row.state = "hashed", NEW heavy, Verify(f, row, heavy)
  PROVE  WorkCalm(work')
<1> DEFINE g == row.group
           c == CanonicalOf(rows, groups, g)
<1>1. /\ row.state \in Queued
      /\ Calm(Change(f, "hashed", "sized", [ready |-> "due"]))
      /\ Calm(Change(f, "hashed", "canonical", [ready |-> "null"]))
      /\ Calm(Change(f, "hashed", "hashed", [skip |-> "parked", ready |-> "null"]))
  BY CalmChange DEF Queued, Proven
<1>2. CASE Decide(Transition(f, "hashed", "canonical", [ready |-> "null"],
                             {}, SetCanonical(g, f)))
  <2> HIDE DEF g
  <2> QED BY <1>1, <1>2, DecideTimely
<1>3. CASE Open(f, row, c)
  <2> HIDE DEF c
  <2> QED BY <1>1, <1>3, OpenTimely
<1>4. CASE Stay(f, row, [skip |-> "parked", ready |-> "null"])
  BY <1>1, <1>4, MoveTimely DEF Stay
<1> QED BY <1>1, <1>2, <1>3, <1>4, OutcomeTimely, MoveTimely DEF Verify

\* tinh_hash and backfill, from the read.
LEMMA ReadTimely ==
  ASSUME NEW f, NEW row, row.state \in Queued
  PROVE  /\ Hashed(f, row) => WorkCalm(work')
         /\ \A p, old : old.state \notin Proven /\ Backfilled(f, p, old) => WorkCalm(work')
<1>1. ASSUME Hashed(f, row) PROVE WorkCalm(work')
  <2>1. ASSUME NEW h, Stay(f, row, [hash |-> h, hws |-> "no", ready |-> "due"])
        PROVE  WorkCalm(work')
    BY <2>1, CalmChange, MoveTimely DEF Stay, Queued, Proven
  <2> QED BY <1>1, <2>1, OutcomeTimely DEF Hashed
<1>2. ASSUME NEW p, NEW old, old.state \notin Proven, Backfilled(f, p, old)
      PROVE  WorkCalm(work')
  <2>1. PICK h : Decide(Transition(f, "sized", "sized", [ready |-> "due", hws |-> "no"],
                                   {Change(p, old.state, old.state, [hash |-> h])}, NoOp))
    BY <1>2 DEF Backfilled
  <2>2. /\ Calm(Change(f, "sized", "sized", [ready |-> "due", hws |-> "no"]))
        /\ Calm(Change(p, old.state, old.state, [hash |-> h]))
    BY <1>2, CalmChange DEF Queued, Proven
  <2> QED BY <2>1, <2>2, DecideTimely
<1> QED BY <1>1, <1>2

\* giong_nhau is the one outcome that calls two files equal.
LEMMA SameTimely ==
  ASSUME NEW f, NEW row, Same(f, row)
  PROVE  /\ work'.phase = "commit" /\ Timely(work'.t.self) /\ Verdict(work'.t)
         /\ work'.t.self.file = f /\ work'.t.self.patch.fp = row.fp
<1>1. PICK to \in Proven :
        work' = [phase |-> "commit",
                 t |-> Transition(f, "hashed", to, [fp |-> row.fp, ready |-> "null", attempts |-> 0],
                                  {}, NoOp)]
  BY DEF Same, Move, Decide, Proven
<1> QED BY <1>1 DEF Transition, Change, Timely, Verdict, Queued, Proven

\* khac_nhau, xu_ly_loi.
LEMMA VerdictTimely ==
  ASSUME NEW f, NEW row, row.state = "hashed",
         Differs(f, row) \/ \E policy \in Policies : BackendError(f, row, policy)
  PROVE  WorkCalm(work')
<1>1. row.state \in Queued
  BY DEF Queued
<1>2. CASE Differs(f, row)
  <2>1. ASSUME NEW g, Stay(f, row, [group |-> g, ready |-> "due"]) PROVE WorkCalm(work')
    BY <2>1, CalmChange, MoveTimely DEF Stay, Queued, Proven
  <2>2. Calm(Change(f, "hashed", "canonical", [group |-> 0, ready |-> "null"]))
    BY CalmChange DEF Queued, Proven
  <2> QED BY <1>2, <2>1, <2>2, DecideTimely DEF Differs
<1>3. ASSUME NEW policy \in Policies, BackendError(f, row, policy) PROVE WorkCalm(work')
  <2> DEFINE n == Counted(row.attempts)
  <2>1. ASSUME NEW k, NEW skip \in {"other", "none"},
               \/ Move(f, "hashed", "settling", [attempts |-> k, skip |-> skip,
                       hash |-> NoHash, group |-> 0, ready |-> "later"])
               \/ Stay(f, row, [attempts |-> k, ready |-> "later"])
        PROVE  WorkCalm(work')
    BY <1>1, <2>1, CalmChange, MoveTimely DEF Stay, Queued, Proven
  <2>2. CASE Stay(f, row, [skip |-> "parked", ready |-> "null"])
    BY <2>2, CalmChange, MoveTimely DEF Stay, Queued, Proven
  <2>3. CASE Move(f, "hashed", "sized", [group |-> 0, skip |-> "other", ready |-> "due"])
    BY <2>3, CalmChange, MoveTimely DEF Queued, Proven
  <2>4. CASE Move(f, "hashed", "failed", [ready |-> "null"])
    BY <2>4, CalmChange, MoveTimely DEF Queued, Proven
  <2> QED BY <1>1, <1>3, <2>1, <2>2, <2>3, <2>4, OutcomeTimely DEF BackendError, Policies
<1> QED BY <1>2, <1>2, <1>3

\* What the worker does in a step.
LEMMA WorkFates ==
  ASSUME [Next]_vars
  PROVE  \/ work' = work \/ work' = Idle
         \/ \E f \in Files, heavy \in HeavyAllowed : Take(f, heavy)
         \/ FinishSettle \/ FinishHash \/ FinishBackfill
         \/ FinishSame \/ FinishDiffers \/ FinishError
BY DEF Next, Environment, Write, MoveIn, Vanish, Return, Age, FallDue, Overdue, Crash,
   Watcher, WatchTouched, WatchRemoved, WatchMovedOut, WatchCommit,
   Walk, WalkSee, WalkInsert, ScanPhaseB, ReconcileCommit, PresenceCommit,
   Scheduler, ReconcileSee, PresenceSee, PresenceFinish, Expire, Purge, Unskip, Requeue,
   Worker, Finish, Commit, vars

\* Whatever it decides is calm, but for the verdict.
LEMMA StepCalm ==
  ASSUME IInv, WorkTimely(work),
         \/ \E f \in Files, heavy \in HeavyAllowed : Take(f, heavy)
         \/ FinishSettle \/ FinishHash \/ FinishBackfill \/ FinishDiffers \/ FinishError
  PROVE  WorkCalm(work')
<1>1. ASSUME NEW f \in Files, NEW heavy \in HeavyAllowed, Take(f, heavy) PROVE WorkCalm(work')
  <2>1. rows[f].state \in Queued
    BY <1>1 DEF Take, IsReady
  <2> QED BY <1>1, <2>1, SettleTimely, SizeTimely, VerifyTimely, OutcomeTimely DEF Take
<1>2. CASE FinishSettle \/ FinishHash \/ FinishBackfill
  <2>1. work.row.state \in Queued
    BY <1>2 DEF IInv, FinishSettle, FinishHash, FinishBackfill, WorkOK, QueuedRow, Idle
  <2>2. work.phase = "backfill" => work.peerRow.state \notin Proven
    BY DEF IInv, WorkOK, Idle, Proven
  <2> QED BY <1>2, <2>1, <2>2, SettleTimely, ReadTimely, OutcomeTimely
          DEF FinishSettle, FinishHash, FinishBackfill
<1>3. CASE FinishDiffers \/ FinishError
  <2>1. work.row.state = "hashed"
    BY <1>3 DEF FinishDiffers, FinishError, WorkTimely, WorkCalm
  <2> QED BY <1>3, <2>1, VerdictTimely DEF FinishDiffers, FinishError
<1> QED BY <1>1, <1>2, <1>3

\* Every step leaves the worker with something timely to write.
LEMMA WorkTimelyStep == ASSUME IInv, WorkTimely(work), [Next]_vars PROVE WorkTimely(work)'
<1>1. CASE work' = Idle
  BY <1>1 DEF WorkTimely, WorkCalm, Idle
<1>2. CASE FinishSame
  <2>1. WorkTimely(work')
    BY <1>2, SameTimely DEF FinishSame, WorkTimely
  <2> QED BY <2>1 DEF WorkTimely, WorkCalm
<1>3. ASSUME WorkCalm(work') PROVE WorkTimely(work)'
  BY <1>3 DEF WorkTimely, WorkCalm
<1>4. CASE work' = work
  BY <1>4 DEF WorkTimely, WorkCalm
<1> QED BY <1>1, <1>2, <1>3, <1>4, WorkFates, StepCalm

\* No walk begins or goes on once the initial scan is over.
LEMMA ScanOverStep ==
  ASSUME IInv, ScanOver, "move_in" \notin Moves, [Next]_vars PROVE ScanOver'
<1>1. DOMAIN seen = Threads /\ "scheduler" \in Threads /\ "watcher" \in Threads
  BY DEF IInv, TypeOK, Threads
<1>2. ASSUME NEW f \in Files, WalkSee(f) PROVE ScanOver'
  BY <1>1, <1>2 DEF WalkSee, ScanOver, See
<1>3. CASE ScanPhaseB
  BY <1>3 DEF ScanPhaseB, ScanOver, Nothing, IInv, TypeOK
<1>4. CASE Crash
  BY <1>4 DEF Crash, Nothing, ScanOver, IInv, TypeOK, Threads
<1>5. ASSUME NEW e, boot' = boot, See("watcher", e) \/ Drop("watcher") PROVE ScanOver'
  BY <1>1, <1>5 DEF See, Drop, ScanOver
<1>6. ASSUME NEW e, boot' = boot, See("scheduler", e), e.by # "insert" PROVE ScanOver'
  BY <1>1, <1>6 DEF See, ScanOver
<1>7. ASSUME NEW f \in Files, WatchTouched(f) \/ WatchMovedOut(f) \/ ReconcileSee(f) \/ PresenceSee(f)
      PROVE  ScanOver'
  <2> DEFINE up  == [by |-> "upsert", file |-> f, fp |-> Version(f)]
             rec == [by |-> "upsert", file |-> f, fp |-> Version(f), fresh |-> fresh[f]]
             pre == [by |-> "presence", file |-> f, fp |-> Version(f)]
  <2>1. rec.by # "insert" /\ pre.by # "insert"
    OBVIOUS
  <2>2. boot' = boot /\ (See("watcher", up) \/ seen' = seen
                         \/ See("scheduler", rec) \/ See("scheduler", pre))
    BY <1>7 DEF WatchTouched, WatchMovedOut, ReconcileSee, PresenceSee
  <2> HIDE DEF up, rec, pre
  <2> QED BY <1>5, <1>6, <2>1, <2>2 DEF ScanOver
<1>8. CASE WatchCommit \/ WalkInsert \/ ReconcileCommit \/ PresenceCommit
  <2>1. Nothing.by # "insert" /\ boot' = boot /\ (Drop("watcher") \/ See("scheduler", Nothing))
    BY <1>8 DEF WatchCommit, WalkInsert, ReconcileCommit, PresenceCommit, Drop, Nothing
  <2> QED BY <1>5, <1>6, <2>1
<1>9. CASE UNCHANGED <<boot, seen>>
  BY <1>9 DEF ScanOver
<1>10. \/ UNCHANGED <<boot, seen>> \/ ScanPhaseB \/ Crash
       \/ WatchCommit \/ WalkInsert \/ ReconcileCommit \/ PresenceCommit
       \/ \E f \in Files : \/ WalkSee(f) \/ WatchTouched(f) \/ WatchMovedOut(f)
                           \/ ReconcileSee(f) \/ PresenceSee(f)
  BY DEF Next, Environment, Write, MoveIn, Vanish, Return, Age, FallDue, Overdue,
     Watcher, WatchRemoved, Walk, Scheduler, PresenceFinish, Expire, Purge, Unskip, Requeue,
     Worker, Take, Finish, FinishSettle, FinishHash, FinishBackfill, FinishSame,
     FinishDiffers, FinishError, Commit, vars
<1> QED BY <1>2, <1>3, <1>4, <1>7, <1>8, <1>9, <1>10

\* No step leaves a row in the queue that nothing will take out of it.
LEMMA TimedStep ==
  ASSUME IInv, TimeInv, {"move_in", "unskip"} \cap Moves = {}, [Next]_vars
  PROVE  SettlingHasDeadline'
<1>1. /\ TypeOK /\ WorkOK(work) /\ ScanOver
      /\ \A f \in Files : rows[f] \in Row /\ Timed(rows[f], boot.phase)
  BY DEF IInv, TypeOK, TimeInv, SettlingHasDeadline, Timed
<1>2. ASSUME rows' = rows, boot'.phase = boot.phase PROVE SettlingHasDeadline'
  BY <1>2 DEF TimeInv, SettlingHasDeadline
<1>3. ASSUME NEW f \in Files, NEW row, rows' = [rows EXCEPT ![f] = row],
             boot'.phase = boot.phase, Timed(row, boot.phase)
      PROVE  SettlingHasDeadline'
  BY <1>1, <1>3 DEF TypeOK, Timed, SettlingHasDeadline
<1>4. ASSUME NEW t \in Threads, seen[t].by # "nothing"
      PROVE  seen[t].file \in Files /\ seen[t].fp \in Nat
  BY <1>1, <1>4 DEF TypeOK, SeenEntry, Nothing
<1>5. ASSUME NEW f \in Files, NEW v \in Nat, NEW ready \in {"due", "later"},
             Upsert(f, v, ready), boot' = boot
      PROVE  SettlingHasDeadline'
  BY <1>1, <1>3, <1>5, UpsertTimed DEF Upsert
<1>6. ASSUME NEW f \in Files, FallDue(f) \/ Overdue(f) \/ Expire(f) PROVE SettlingHasDeadline'
  <2>1. PICK row : /\ \/ row = [rows[f] EXCEPT !.ready = "due"]
                      \/ row = [rows[f] EXCEPT !.hws = "overdue"]
                      \/ row = [rows[f] EXCEPT !.state = "gone"]
                   /\ rows' = [rows EXCEPT ![f] = row] /\ boot' = boot
    BY <1>6 DEF FallDue, Overdue, Expire
  <2>2. Timed(row, boot.phase)
    BY <1>1, <2>1 DEF Row, Timed
  <2> QED BY <1>3, <2>1, <2>2
<1>7. ASSUME NEW f \in Files, WatchRemoved(f) \/ WatchMovedOut(f) \/ PresenceFinish(f)
      PROVE  SettlingHasDeadline'
  <2>1. boot' = boot /\ (rows' = rows \/ rows' = [rows EXCEPT ![f] = MarkedMissing(rows[f])])
    BY <1>7 DEF WatchRemoved, WatchMovedOut, PresenceFinish
  <2>2. Timed(MarkedMissing(rows[f]), boot.phase)
    BY <1>1 DEF MarkedMissing, Timed, Row, Lost
  <2> QED BY <1>2, <1>3, <2>1, <2>2
<1>8. ASSUME NEW f \in Files, Requeue(f) PROVE SettlingHasDeadline'
  <2> DEFINE half == [rows[f] EXCEPT !.state = "hashed"]
             row  == [half EXCEPT !.ready = "due"]
  <2>1. rows' = [rows EXCEPT ![f] = row] /\ boot' = boot
    BY <1>8, Zenon DEF Requeue
  <2>2. half.state = "hashed" /\ DOMAIN half = DOMAIN rows[f]
        /\ {"state", "ready"} \subseteq DOMAIN rows[f]
    BY <1>1 DEF Row
  <2> HIDE DEF half
  <2>3. row.state = "hashed" /\ row.ready = "due"
    BY <2>2
  <2> HIDE DEF row
  <2> QED BY <1>3, <2>1, <2>3 DEF Timed
<1>9. ASSUME NEW f \in Files, Purge(f) PROVE SettlingHasDeadline'
  BY <1>3, <1>9 DEF Purge, NoRow, BlankRow, Timed
<1>10. CASE WatchCommit
  <2>1. seen["watcher"].by # "nothing" /\ "watcher" \in Threads
    BY <1>1, <1>10 DEF WatchCommit, TypeOK, SeenEntry, Nothing, Threads
  <2> QED BY <1>4, <1>5, <1>10, <2>1 DEF WatchCommit
<1>11. CASE ReconcileCommit \/ PresenceCommit
  <2>1. seen["scheduler"].file \in Files /\ seen["scheduler"].fp \in Nat
    BY <1>4, <1>11 DEF ReconcileCommit, PresenceCommit, Threads
  <2>2. CASE ReconcileCommit
    BY <1>5, <2>1, <2>2 DEF ReconcileCommit
  <2>3. CASE PresenceCommit
    BY <1>2, <1>5, <2>1, <2>3 DEF PresenceCommit, db
  <2> QED BY <1>11, <2>2, <2>3
<1>12. CASE WalkInsert
  <2> DEFINE e == seen["scheduler"]
             row == IF rows[e.file].state # "absent" THEN rows[e.file]
                    ELSE IF e.fresh THEN BlankRow("settling", e.fp, "later")
                    ELSE BlankRow("sized", e.fp, "null")
  <2>1. e.file \in Files /\ boot.phase = "A" /\ boot' = boot
    BY <1>1, <1>4, <1>12 DEF WalkInsert, Threads, ScanOver, TypeOK
  <2>2. rows' = [rows EXCEPT ![e.file] = row]
    BY <1>12 DEF WalkInsert
  <2>3. Timed(row, boot.phase)
    BY <1>1, <2>1 DEF Timed, BlankRow
  <2> HIDE DEF e, row
  <2> QED BY <1>3, <2>1, <2>2, <2>3
<1>13. CASE ScanPhaseB
  <2> SUFFICES ASSUME NEW f \in Files PROVE Timed(rows'[f], "done")
    BY <1>1, <1>13 DEF ScanPhaseB, SettlingHasDeadline, Timed, TypeOK
  <2>1. \/ rows'[f] = rows[f] /\ ~(rows[f].state = "sized" /\ rows[f].ready = "null")
        \/ rows'[f] = [rows[f] EXCEPT !.ready = "due"]
        \/ rows'[f] = [rows[f] EXCEPT !.state = "distinct"]
    BY <1>13 DEF ScanPhaseB
  <2> QED BY <1>1, <2>1 DEF Timed, Row
<1>14. CASE Commit
  <2>1. TransitionOK(work.t)
    BY <1>1, <1>14 DEF WorkOK, Commit, Idle
  <2>2. Timely(work.t.self) /\ \A c \in work.t.others : Timely(c)
    BY <1>14 DEF TimeInv, WorkTimely, WorkCalm, Verdict, Calm, Commit
  <2>3. \A f \in Files : Timed(rows'[f], boot.phase)
    BY <1>1, <1>14, <2>1, <2>2, AppliedTimed DEF Commit
  <2> QED BY <1>14, <2>3 DEF Commit, Timed, SettlingHasDeadline
<1>15. \/ rows' = rows /\ boot'.phase = boot.phase
       \/ WatchCommit \/ ReconcileCommit \/ PresenceCommit \/ WalkInsert
       \/ ScanPhaseB \/ Commit
       \/ \E f \in Files : \/ FallDue(f) \/ Overdue(f) \/ WatchRemoved(f) \/ WatchMovedOut(f)
                           \/ PresenceFinish(f) \/ Expire(f) \/ Purge(f) \/ Requeue(f)
  BY <1>1 DEF Next, Environment, Write, MoveIn, Vanish, Return, Age, Crash, Unskip, TypeOK,
     Watcher, WatchTouched, Walk, WalkSee, Scheduler, ReconcileSee, PresenceSee,
     Worker, Take, Finish, FinishSettle, FinishHash, FinishBackfill, FinishSame,
     FinishDiffers, FinishError, vars, db
<1> QED BY <1>2, <1>6, <1>7, <1>8, <1>9, <1>10, <1>11, <1>12, <1>13, <1>14, <1>15

\* A row in the queue is never without a deadline, but for what phase B will
\* wake and what is parked with its reason, whatever the threads and the
\* environment do; the two steps excepted are the ones that break it: unskip
\* takes the reason from a parked row, and a supplementary walk over a
\* directory moved in inserts rows that no phase B follows (bo_sung.rs).
THEOREM NoRowWaitsForEver ==
  ASSUME {"move_in", "unskip"} \cap Moves = {} PROVE Spec => []SettlingHasDeadline
<1>1. Init => TimeInv
  BY DEF Init, TimeInv, SettlingHasDeadline, WorkTimely, WorkCalm, ScanOver, NoRow, BlankRow, Idle,
         Nothing, Threads
<1>2. IInv /\ TimeInv /\ [Next]_vars => TimeInv'
  BY TimedStep, WorkTimelyStep, ScanOverStep DEF TimeInv
<1>3. TimeInv => SettlingHasDeadline
  BY DEF TimeInv
<1> QED BY <1>1, <1>2, <1>3, Invariance, PTL DEF Spec

(* ------------------------ claims and their events --------------------- *)

\* The row waits for a comparison or has passed one, or would be such a row
\* again when its file returns.
Hashable(row) ==
  \/ row.state \in {"hashed"} \union Proven
  \/ row.state = "missing" /\ row.prev \in {"hashed"} \union Proven

\* The worker compares version v of f, or is about to call it equal.
Held(w, f, v) ==
  \/ w.phase = "compare" /\ w.file = f /\ w.row.fp = v
  \/ /\ w.phase = "commit" /\ w.t.self.to \in Proven
     /\ w.t.self.file = f /\ w.t.self.patch.fp = v

\* Nothing is owed to f, or an event is on its way.
Owed(f) == present[f] /\ rows[f].fp # Version(f) => Tracked(f)

\* ClaimsTracked of one file, for the claims the row makes, for those it
\* would make again, and for the one the worker may be about to make.
ClaimOK(f) ==
  /\ Claims(rows[f]) => Owed(f)
  /\ \A v : Held(work, f, v) /\ Hashable(rows[f]) => rows[f].fp = v /\ Owed(f)

\* The last event about a file under its path is not that it was removed.
EventsOK(f) ==
  pending[f] # <<>> =>
    /\ Version(f) > 0
    /\ present[f] => pending[f][Len(pending[f])] = "touched"

\* The pipeline itself never undoes.
NoUndo == \A f \in Files : rows[f].skip # "user_undo"

TrackInv ==
  /\ WorkTimely(work) /\ NoUndo
  /\ \A f \in Files : ClaimOK(f) /\ EventsOK(f)

\* A row that makes, and might come to make, no claim it did not make before.
Tame(old, new) ==
  /\ Hashable(new) => Hashable(old) /\ new.fp = old.fp
  /\ Claims(new) => Claims(old)
  /\ new.skip = "user_undo" => old.skip = "user_undo"

\* An upsert is tame, and a claim survives it only when the version seen is
\* the version it is about.
LEMMA UpsertTame ==
  ASSUME NEW row \in Row, NEW v \in Nat, NEW ready \in {"null", "due", "later"},
         row.skip # "user_undo"
  PROVE  /\ Tame(row, UpsertRow(row, v, ready))
         /\ Hashable(UpsertRow(row, v, ready)) => row.fp = v
<1>1. CASE row.state = "absent"
  BY <1>1 DEF UpsertRow, NewRow, BlankRow, Tame, Hashable, Claims, Proven
<1>2. CASE row.state # "absent"
  <2>1. UpsertRow(row, v, ready) = Upserted(row, v, ready)
    BY <1>2 DEF UpsertRow
  <2> DEFINE new == Upserted(row, v, ready)
  <2>2. /\ new.fp = row.fp
        /\ new.skip # "user_undo"
        /\ new.state = IF row.state = "missing" /\ row.fp = v THEN RestoreTarget(row.prev)
                       ELSE IF row.fp = v THEN row.state ELSE "settling"
        /\ row.fp = v => new.prev = row.prev
    BY DEF Upserted, Row
  <2> HIDE DEF new
  <2>3. Tame(row, new) /\ (Hashable(new) => row.fp = v)
    BY <2>2 DEF Tame, Hashable, Claims, RestoreTarget, Queued, Resting, Proven
  <2> QED BY <2>1, <2>3 DEF new
<1> QED BY <1>1, <1>2

\* mark_missing is tame.
LEMMA MarkedTame == ASSUME NEW row \in Row PROVE Tame(row, MarkedMissing(row))
BY DEF MarkedMissing, Row, Tame, Hashable, Claims, Lost, Proven

\* So is a modest change of the worker, of the claims that are made.
LEMMA CasTame ==
  ASSUME NEW row \in Row, NEW c, ChangeOK(c), Modest(c), row.skip # "user_undo"
  PROVE  /\ Claims(CasUpdate(row, c)) => Claims(row) /\ CasUpdate(row, c).fp = row.fp
         /\ CasUpdate(row, c).skip # "user_undo"
<1>1. CASE row.state # c.from
  BY <1>1 DEF CasUpdate
<1>2. CASE row.state = c.from
  <2>1. CasUpdate(row, c) = Patched(row, c.to, c.patch)
    BY <1>2 DEF CasUpdate
  <2> QED BY <1>2, <2>1 DEF ChangeOK, Modest, Claims, Patched, Column, Proven
<1> QED BY <1>1, <1>2

\* Every step but the commit of the worker is tame.
LEMMA TameStep ==
  ASSUME IInv, NoUndo, [Next]_vars
  PROVE  Commit \/ \A f \in Files : Tame(rows[f], rows'[f])
<1>1. /\ TypeOK /\ rows \in [Files -> Row]
      /\ \A f \in Files : rows[f] \in Row /\ rows[f].skip # "user_undo"
  BY DEF IInv, TypeOK, NoUndo
<1>2. ASSUME rows' = rows PROVE \A f \in Files : Tame(rows[f], rows'[f])
  BY <1>2 DEF Tame
<1>3. ASSUME NEW f \in Files, NEW row, rows' = [rows EXCEPT ![f] = row], Tame(rows[f], row)
      PROVE  \A g \in Files : Tame(rows[g], rows'[g])
  BY <1>1, <1>3 DEF Tame
<1>4. ASSUME NEW t \in Threads, seen[t].by # "nothing"
      PROVE  seen[t].file \in Files /\ seen[t].fp \in Nat
  BY <1>1, <1>4 DEF TypeOK, SeenEntry, Nothing
<1>5. ASSUME NEW f \in Files, NEW v \in Nat, NEW ready \in {"due", "later"}, Upsert(f, v, ready)
      PROVE  \A g \in Files : Tame(rows[g], rows'[g])
  BY <1>1, <1>3, <1>5, UpsertTame DEF Upsert
<1>6. ASSUME NEW f \in Files, \/ FallDue(f) \/ Overdue(f) \/ Expire(f) \/ Unskip(f)
                              \/ Requeue(f) \/ Purge(f)
      PROVE  \A g \in Files : Tame(rows[g], rows'[g])
  <2>1. CASE FallDue(f) \/ Overdue(f) \/ Expire(f)
    <3>1. PICK row : /\ \/ row = [rows[f] EXCEPT !.ready = "due"]
                        \/ row = [rows[f] EXCEPT !.hws = "overdue"]
                        \/ row = [rows[f] EXCEPT !.state = "gone"]
                     /\ rows' = [rows EXCEPT ![f] = row]
      BY <2>1 DEF FallDue, Overdue, Expire
    <3>2. Tame(rows[f], row)
      BY <1>1, <3>1 DEF Row, Tame, Hashable, Claims, Proven
    <3> QED BY <1>3, <3>1, <3>2
  <2>2. CASE Unskip(f)
    <3> DEFINE row == IF rows[f].state = "skipped"
                      THEN [rows[f] EXCEPT !.state = "settling", !.ready = "due",
                                           !.prev = "skipped", !.skip = "none"]
                      ELSE [rows[f] EXCEPT !.skip = "none"]
    <3>1. rows' = [rows EXCEPT ![f] = row]
      BY <2>2 DEF Unskip
    <3>2. Tame(rows[f], row)
      BY <1>1 DEF Row, Tame, Hashable, Claims, Proven
    <3> HIDE DEF row
    <3> QED BY <1>3, <3>1, <3>2
  <2>3. CASE Requeue(f)
    <3> DEFINE half == [rows[f] EXCEPT !.state = "hashed"]
               row  == [half EXCEPT !.ready = "due"]
    <3>1. rows' = [rows EXCEPT ![f] = row] /\ rows[f].state = "verified"
      BY <2>3, Zenon DEF Requeue
    <3>2. half.state = "hashed" /\ half.fp = rows[f].fp /\ half.skip = rows[f].skip
      BY <1>1 DEF Row
    <3> HIDE DEF half
    <3>3. row.state = half.state /\ row.fp = half.fp /\ row.skip = half.skip
      OBVIOUS
    <3> HIDE DEF row
    <3>4. Tame(rows[f], row)
      BY <3>1, <3>2, <3>3 DEF Tame, Hashable, Claims, Proven
    <3> QED BY <1>3, <3>1, <3>4
  <2>4. CASE Purge(f)
    BY <1>1, <1>3, <2>4 DEF Purge, NoRow, BlankRow, Tame, Hashable, Claims, Proven
  <2> QED BY <1>6, <2>1, <2>2, <2>3, <2>4
<1>7. ASSUME NEW f \in Files, WatchRemoved(f) \/ WatchMovedOut(f) \/ PresenceFinish(f)
      PROVE  \A g \in Files : Tame(rows[g], rows'[g])
  <2>1. rows' = rows \/ rows' = [rows EXCEPT ![f] = MarkedMissing(rows[f])]
    BY <1>7 DEF WatchRemoved, WatchMovedOut, PresenceFinish
  <2> QED BY <1>1, <1>2, <1>3, <2>1, MarkedTame
<1>8. CASE WatchCommit
  <2>1. seen["watcher"].by # "nothing" /\ "watcher" \in Threads
    BY <1>1, <1>8 DEF WatchCommit, TypeOK, SeenEntry, Nothing, Threads
  <2> QED BY <1>4, <1>5, <1>8, <2>1 DEF WatchCommit
<1>9. CASE ReconcileCommit \/ PresenceCommit
  <2>1. seen["scheduler"].file \in Files /\ seen["scheduler"].fp \in Nat
    BY <1>4, <1>9 DEF ReconcileCommit, PresenceCommit, Threads
  <2>2. CASE ReconcileCommit
    BY <1>5, <2>1, <2>2 DEF ReconcileCommit
  <2>3. CASE PresenceCommit
    BY <1>2, <1>5, <2>1, <2>3 DEF PresenceCommit, db
  <2> QED BY <1>9, <2>2, <2>3
<1>10. CASE WalkInsert
  <2> DEFINE e == seen["scheduler"]
             row == IF rows[e.file].state # "absent" THEN rows[e.file]
                    ELSE IF e.fresh THEN BlankRow("settling", e.fp, "later")
                    ELSE BlankRow("sized", e.fp, "null")
  <2>1. e.file \in Files
    BY <1>4, <1>10 DEF WalkInsert, Threads
  <2>2. rows' = [rows EXCEPT ![e.file] = row]
    BY <1>10 DEF WalkInsert
  <2>3. Tame(rows[e.file], row)
    BY DEF BlankRow, Tame, Hashable, Claims, Proven
  <2> HIDE DEF e, row
  <2> QED BY <1>3, <2>1, <2>2, <2>3
<1>11. CASE ScanPhaseB
  <2> SUFFICES ASSUME NEW f \in Files PROVE Tame(rows[f], rows'[f])
    OBVIOUS
  <2>1. \/ rows'[f] = rows[f]
        \/ rows'[f] = [rows[f] EXCEPT !.ready = "due"]
        \/ rows'[f] = [rows[f] EXCEPT !.state = "distinct"]
    BY <1>11 DEF ScanPhaseB
  <2> QED BY <1>1, <2>1 DEF Row, Tame, Hashable, Claims, Proven
<1>12. \/ rows' = rows \/ WatchCommit \/ ReconcileCommit \/ PresenceCommit \/ WalkInsert
       \/ ScanPhaseB \/ Commit
       \/ \E f \in Files : \/ FallDue(f) \/ Overdue(f) \/ WatchRemoved(f) \/ WatchMovedOut(f)
                           \/ PresenceFinish(f) \/ Expire(f) \/ Purge(f) \/ Unskip(f) \/ Requeue(f)
  BY DEF Next, Environment, Write, MoveIn, Vanish, Return, Age, Crash,
     Watcher, WatchTouched, Walk, WalkSee, Scheduler, ReconcileSee, PresenceSee,
     Worker, Take, Finish, FinishSettle, FinishHash, FinishBackfill, FinishSame,
     FinishDiffers, FinishError, vars, db
<1> QED BY <1>2, <1>6, <1>7, <1>8, <1>9, <1>10, <1>11, <1>12

\* An event announced is the last one on its way ...
LEMMA AnnouncedLast ==
  ASSUME TypeOK, NEW f \in Files, NEW ev, Announce(f, ev)
  PROVE  /\ pending'[f] # <<>> /\ pending'[f][Len(pending'[f])] = ev
         /\ \A g \in Files \ {f} : pending'[g] = pending[g]
<1> DEFINE q == pending[f]
<1>1. q \in Seq({"touched", "removed", "moved_out"})
  BY DEF TypeOK
<1>2. pending'[f] = IF q # <<>> /\ q[Len(q)] = ev THEN q ELSE Append(q, ev)
  BY DEF Announce, TypeOK
<1>3. \A g \in Files \ {f} : pending'[g] = pending[g]
  BY DEF Announce, TypeOK
<1> HIDE DEF q
<1>4. Append(q, ev) # <<>> /\ Append(q, ev)[Len(Append(q, ev))] = ev
  BY <1>1
<1> QED BY <1>2, <1>3, <1>4

\* ... and those taken leave the last one where it is.
LEMMA TakenLast ==
  ASSUME TypeOK, NEW f \in Files, NEW ev, TakeEvent(f, ev)
  PROVE  /\ pending[f] # <<>> /\ Head(pending[f]) = ev
         /\ pending'[f] = <<>> => pending[f][Len(pending[f])] = ev
         /\ pending'[f] # <<>> => pending'[f][Len(pending'[f])] = pending[f][Len(pending[f])]
         /\ \A g \in Files \ {f} : pending'[g] = pending[g]
<1> DEFINE q == pending[f]
<1>1. q \in Seq({"touched", "removed", "moved_out"}) /\ q # <<>> /\ Head(q) = ev
  BY DEF TypeOK, TakeEvent
<1>2. pending'[f] = Tail(q) /\ \A g \in Files \ {f} : pending'[g] = pending[g]
  BY DEF TakeEvent, TypeOK
<1> HIDE DEF q
<1> DEFINE n == Len(q)
<1>3. n \in Nat \ {0} /\ Len(Tail(q)) = n - 1 /\ Head(q) = q[1]
  BY <1>1
<1>4. \A i \in 1..n - 1 : Tail(q)[i] = q[i + 1]
  BY <1>1
<1>5. Tail(q) \in Seq({"touched", "removed", "moved_out"})
  BY <1>1
<1>6. Tail(q) = <<>> => n = 1
  BY <1>3
<1>7. Tail(q) # <<>> => Tail(q)[n - 1] = q[n]
  <2>1. Tail(q) # <<>> => n - 1 \in 1..n - 1
    BY <1>3, <1>5
  <2> QED BY <1>3, <1>4, <2>1
<1> QED BY <1>1, <1>2, <1>3, <1>6, <1>7 DEF q

\* What happens to the files and to the events about them in a step.
LEMMA DiskFates ==
  ASSUME [Next]_vars
  PROVE  \/ UNCHANGED <<history, present, pending>>
         \/ Crash
         \/ \E f \in Files : \/ Write(f) \/ MoveIn(f) \/ Vanish(f) \/ Return(f)
                             \/ WatchTouched(f) \/ WatchRemoved(f) \/ WatchMovedOut(f)
BY DEF Next, Environment, Age, FallDue, Overdue, Watcher, WatchCommit,
   Walk, WalkSee, WalkInsert, ScanPhaseB, ReconcileCommit, PresenceCommit,
   Scheduler, ReconcileSee, PresenceSee, PresenceFinish, Expire, Purge, Unskip, Requeue,
   Worker, Take, Finish, FinishSettle, FinishHash, FinishBackfill, FinishSame,
   FinishDiffers, FinishError, Commit, vars, disk

\* A file under its path is never left with its removal as the last event.
LEMMA EventsStep ==
  ASSUME IInv, \A f \in Files : EventsOK(f), [Next]_vars
  PROVE  \A f \in Files : EventsOK(f)'
<1>1. TypeOK /\ \A f \in Files : Version(f)' \in Nat /\ Version(f) \in Nat /\ Version(f) <= Version(f)'
  BY StepGrows DEF IInv, Grows
<1> SUFFICES ASSUME NEW f \in Files PROVE EventsOK(f)'
  OBVIOUS
<1>2. ASSUME pending'[f] = pending[f], present'[f] = present[f] PROVE EventsOK(f)'
  BY <1>1, <1>2 DEF EventsOK
<1>3. ASSUME NEW g \in Files, Write(g) PROVE EventsOK(f)'
  <2>1. Version(g) > 0 /\ Announce(g, "touched") /\ present' = present
    BY <1>3 DEF Write, IInv, Born
  <2> QED BY <1>1, <1>2, <2>1, AnnouncedLast DEF EventsOK
<1>4. ASSUME NEW g \in Files, Return(g) PROVE EventsOK(f)'
  <2>1. Version(g) > 0 /\ Announce(g, "touched") /\ present' = [present EXCEPT ![g] = TRUE]
    BY <1>4 DEF Return
  <2>2. f # g => present'[f] = present[f]
    BY <1>1, <2>1 DEF TypeOK
  <2> QED BY <1>1, <1>2, <2>1, <2>2, AnnouncedLast DEF EventsOK
<1>5. ASSUME NEW g \in Files, Vanish(g) PROVE EventsOK(f)'
  <2>1. PICK ev \in {"removed", "moved_out"} : Announce(g, ev)
    BY <1>5 DEF Vanish
  <2>2. Version(g) > 0 /\ present' = [present EXCEPT ![g] = FALSE]
    BY <1>5 DEF Vanish, IInv, Born
  <2>3. (f # g => present'[f] = present[f]) /\ ~present'[g]
    BY <1>1, <2>2 DEF TypeOK
  <2> QED BY <1>1, <1>2, <2>1, <2>2, <2>3, AnnouncedLast DEF EventsOK
<1>6. ASSUME NEW g \in Files, MoveIn(g) PROVE EventsOK(f)'
  <2>1. Version(g) = 0 /\ present' = [present EXCEPT ![g] = TRUE] /\ pending' = pending
    BY <1>6 DEF MoveIn
  <2>2. CASE f = g
    BY <2>1, <2>2 DEF EventsOK
  <2>3. CASE f # g
    BY <1>1, <1>2, <2>1, <2>3 DEF TypeOK
  <2> QED BY <2>2, <2>3
<1>7. ASSUME NEW g \in Files, NEW ev, TakeEvent(g, ev), present' = present PROVE EventsOK(f)'
  <2>1. CASE f = g
    BY <1>1, <1>7, <2>1, TakenLast DEF EventsOK
  <2>2. CASE f # g
    BY <1>1, <1>2, <1>7, <2>2, TakenLast
  <2> QED BY <2>1, <2>2
<1>8. CASE Crash
  BY <1>8 DEF Crash, EventsOK
<1>9. ASSUME NEW g \in Files, WatchTouched(g) \/ WatchRemoved(g) \/ WatchMovedOut(g)
      PROVE  EventsOK(f)'
  BY <1>7, <1>9 DEF WatchTouched, WatchRemoved, WatchMovedOut, disk
<1> QED BY <1>2, <1>3, <1>4, <1>5, <1>6, <1>8, <1>9, DiskFates

\* The watcher brings the last version it has seen of f to its row.
Reaches(f) ==
  /\ seen["watcher"] # Nothing /\ seen["watcher"].file = f /\ pending[f] = <<>>
  /\ seen["watcher"].fp \in Nat
  /\ rows'[f] = UpsertRow(rows[f], seen["watcher"].fp, "later")
  /\ UNCHANGED <<history, present>>

\* As long as the daemon lives, a version that is overwritten or found again
\* is announced, and an event is not done with before it has reached the row.
LEMMA TrackedUntil ==
  ASSUME IInv, NEW f \in Files, EventsOK(f), "crash" \notin Moves, [Next]_vars, present'[f]
  PROVE  \/ Tracked(f)' \/ Version(f) = 0 \/ Reaches(f)
         \/ Version(f)' = Version(f) /\ present[f] /\ (Tracked(f) => Tracked(f)')
<1> DEFINE Goal == \/ Tracked(f)' \/ Version(f) = 0 \/ Reaches(f)
                   \/ Version(f)' = Version(f) /\ present[f] /\ (Tracked(f) => Tracked(f)')
<1>1. /\ TypeOK /\ DOMAIN seen = Threads /\ {"watcher", "scheduler"} = Threads
      /\ rows \in [Files -> Row] /\ rows[f] \in Row
  BY DEF IInv, TypeOK, Threads
<1>2. ASSUME history'[f] = history[f], present'[f] = present[f], pending'[f] = pending[f],
             seen'["watcher"] = seen["watcher"]
      PROVE  Goal
  BY <1>2 DEF Tracked, Version
<1>3. ASSUME NEW g \in Files, NEW ev, Announce(g, ev), seen' = seen,
             \A h \in Files \ {g} : history'[h] = history[h] /\ present'[h] = present[h]
      PROVE  Goal
  <2>1. CASE f = g
    BY <1>1, <1>3, <2>1, AnnouncedLast DEF Tracked
  <2>2. CASE f # g
    BY <1>1, <1>2, <1>3, <2>2, AnnouncedLast
  <2> QED BY <2>1, <2>2
<1>4. ASSUME NEW g \in Files, Write(g) \/ Vanish(g) \/ Return(g) PROVE Goal
  BY <1>1, <1>3, <1>4 DEF Write, Vanish, Return, TypeOK
<1>5. ASSUME NEW g \in Files, MoveIn(g) PROVE Goal
  BY <1>1, <1>2, <1>5 DEF MoveIn, TypeOK
<1>6. ASSUME NEW g \in Files, NEW ev, TakeEvent(g, ev), UNCHANGED <<history, present>>,
             g = f => \/ seen'["watcher"] # Nothing /\ seen'["watcher"].file = f
                         /\ seen'["watcher"].fp = Version(f)
                      \/ ev # "touched" /\ seen' = seen
      PROVE  Goal
  <2>1. CASE f = g
    BY <1>1, <1>6, <2>1, TakenLast DEF Tracked, EventsOK, Version
  <2>2. CASE f # g
    BY <1>1, <1>6, <2>2, TakenLast DEF Tracked, TakeEvent, Version
  <2> QED BY <2>1, <2>2
<1>7. ASSUME NEW g \in Files, WatchTouched(g) \/ WatchRemoved(g) \/ WatchMovedOut(g) PROVE Goal
  <2> DEFINE entry == [by |-> "upsert", file |-> g, fp |-> Version(g)]
  <2>1. entry # Nothing /\ entry.file = g /\ entry.fp = Version(g)
    BY DEF Nothing
  <2>2. ASSUME See("watcher", entry) PROVE seen'["watcher"] = entry
    BY <1>1, <2>2 DEF See
  <2>3. UNCHANGED <<history, present>>
        /\ \/ TakeEvent(g, "touched") /\ (present[g] => See("watcher", entry))
           \/ TakeEvent(g, "removed") /\ seen' = seen
           \/ TakeEvent(g, "moved_out") /\ (seen' = seen \/ See("watcher", entry))
    BY <1>7 DEF WatchTouched, WatchRemoved, WatchMovedOut, disk
  <2> HIDE DEF entry
  <2> QED BY <1>6, <2>1, <2>2, <2>3
<1>8. CASE WatchCommit
  <2>1. seen["watcher"] # Nothing /\ seen["watcher"] \in SeenEntry
    BY <1>1, <1>8 DEF WatchCommit, TypeOK
  <2>2. /\ seen["watcher"].file \in Files /\ seen["watcher"].fp \in Nat
        /\ UNCHANGED <<history, present, pending>>
    BY <1>8, <2>1 DEF WatchCommit, SeenEntry, Nothing, disk
  <2>3. CASE seen["watcher"].file = f /\ pending[f] = <<>>
    <3>1. rows'[f] = UpsertRow(rows[f], seen["watcher"].fp, "later")
      BY <1>1, <1>8, <2>2, <2>3 DEF WatchCommit, Upsert
    <3> QED BY <2>1, <2>2, <2>3, <3>1 DEF Reaches
  <2>4. CASE seen["watcher"].file # f \/ pending[f] # <<>>
    BY <2>2, <2>4 DEF Tracked, Version
  <2> QED BY <2>3, <2>4
<1>9. \/ UNCHANGED <<history, present, pending>> /\ seen'["watcher"] = seen["watcher"]
      \/ WatchCommit
      \/ \E g \in Files : \/ Write(g) \/ MoveIn(g) \/ Vanish(g) \/ Return(g)
                          \/ WatchTouched(g) \/ WatchRemoved(g) \/ WatchMovedOut(g)
  <2>1. ASSUME NEW e, See("scheduler", e) PROVE seen'["watcher"] = seen["watcher"]
    BY <1>1, <2>1 DEF See
  <2>2. \/ seen' = seen \/ WatchCommit \/ Crash \/ (\E e : See("scheduler", e))
        \/ \E g \in Files : WatchTouched(g) \/ WatchMovedOut(g)
    <3>1. ASSUME NEW g \in Files, WalkSee(g) \/ ReconcileSee(g) \/ PresenceSee(g)
          PROVE  seen' = seen \/ \E e : See("scheduler", e)
      BY <3>1 DEF WalkSee, ReconcileSee, PresenceSee
    <3>2. WalkInsert \/ ReconcileCommit \/ PresenceCommit => \E e : See("scheduler", e)
      BY DEF WalkInsert, ReconcileCommit, PresenceCommit, Drop
    <3>3. \/ seen' = seen \/ WatchCommit \/ Crash \/ WalkInsert \/ ReconcileCommit \/ PresenceCommit
          \/ \E g \in Files : \/ WatchTouched(g) \/ WatchMovedOut(g)
                              \/ WalkSee(g) \/ ReconcileSee(g) \/ PresenceSee(g)
      BY DEF Next, Environment, Write, MoveIn, Vanish, Return, Age, FallDue, Overdue,
         Watcher, WatchRemoved, Walk, ScanPhaseB,
         Scheduler, PresenceFinish, Expire, Purge, Unskip, Requeue,
         Worker, Take, Finish, FinishSettle, FinishHash, FinishBackfill, FinishSame,
         FinishDiffers, FinishError, Commit, vars
    <3> QED BY <3>1, <3>2, <3>3
  <2>3. ~Crash
    BY DEF Crash
  <2> QED BY <2>1, <2>2, <2>3, DiskFates
<1> QED BY <1>2, <1>4, <1>5, <1>7, <1>8, <1>9

\* Then a hashed row records that version already.
LEMMA TrackedStep ==
  ASSUME IInv, NoUndo, NEW f \in Files, EventsOK(f), "crash" \notin Moves, [Next]_vars,
         Hashable(rows'[f]), present'[f], rows'[f].fp # Version(f)'
  PROVE  \/ Tracked(f)' \/ Version(f) = 0
         \/ Version(f)' = Version(f) /\ present[f] /\ (Tracked(f) => Tracked(f)')
<1>1. CASE Reaches(f)
  <2>1. rows[f] \in Row /\ rows[f].skip # "user_undo"
    BY DEF IInv, TypeOK, NoUndo
  <2>2. rows'[f].fp = seen["watcher"].fp
    BY <1>1, <2>1, UpsertTame DEF Reaches, Tame
  <2> QED BY <1>1, <2>2 DEF Reaches, Tracked, Version
<1> QED BY <1>1, TrackedUntil

\* A comparison is only begun by verify, on the version the row records.
LEMMA TakeCompares ==
  ASSUME NEW g, NEW heavy, Take(g, heavy), work'.phase = "compare"
  PROVE  work'.file = g /\ work'.row = rows[g] /\ rows[g].fp = Version(g)
<1> DEFINE row == rows[g]
<1>1. ASSUME NEW t, Decide(t) PROVE FALSE
  BY <1>1 DEF Decide
<1>2. ASSUME NEW from, NEW to, NEW p, Move(g, from, to, p) PROVE FALSE
  BY <1>1, <1>2 DEF Move
<1>3. ASSUME NEW p, Stay(g, row, p) PROVE FALSE
  BY <1>2, <1>3 DEF Stay
<1>4. /\ ~Lose(g, row) /\ ~BackToSettling(g, row) /\ ~WaitHeavy(g, row) /\ ~Retry(g, row)
      /\ \A until : ~Defer(g, row, until)
      /\ \A p : ~Skip(g, row, p)
  BY <1>2, <1>3 DEF Lose, BackToSettling, WaitHeavy, Retry, Defer, Skip
<1>5. ~Settle(g, row)
  BY <1>3, <1>4 DEF Settle
<1>6. ASSUME NEW p, Backfill(g, row, p) PROVE FALSE
  <2>1. \A to, patch : ~Repair(g, p, to, patch)
    BY <1>1 DEF Repair
  <2> QED BY <1>6, <2>1 DEF Backfill
<1>7. ASSUME NEW same, NEW c, NewGroup(g, row, same, c) PROVE FALSE
  BY <1>1, <1>7 DEF NewGroup
<1>8. ~Size(g, row, heavy)
  <2>1. ~FindCandidate(g, row, heavy)
    BY <1>2, <1>4, <1>6, <1>7 DEF FindCandidate, Match
  <2>2. ~Place(g, row, heavy)
    BY <1>1, <1>2, <2>1 DEF Place
  <2> QED BY <1>4, <2>2 DEF Size
<1>9. Verify(g, row, heavy)
  BY <1>4, <1>5, <1>8 DEF Take
<1>10. PICK c : Open(g, row, c)
  BY <1>1, <1>2, <1>3, <1>4, <1>9 DEF Verify
<1>11. \A to, patch : ~Succeed(g, row.group, c, to, patch)
  BY <1>1 DEF Succeed
<1> QED BY <1>4, <1>10, <1>11 DEF Open

\* Only what the worker has compared does it call equal, and nobody changes
\* the version it compares.
LEMMA HeldStep ==
  ASSUME IInv, WorkTimely(work), [Next]_vars, NEW f, NEW v, Held(work', f, v)
  PROVE  \/ Held(work, f, v)
         \/ rows' = rows /\ history' = history /\ rows[f].fp = v /\ Version(f) = v
<1>1. CASE work' = work
  BY <1>1
<1>2. CASE work' = Idle
  BY <1>2 DEF Held, Idle
<1>3. CASE FinishSame
  <2>1. work'.t.self.file = work.file /\ work'.t.self.patch.fp = work.row.fp
        /\ work'.phase = "commit"
    BY <1>3, SameTimely DEF FinishSame
  <2> QED BY <1>3, <2>1 DEF Held, FinishSame
<1>4. ASSUME WorkCalm(work') PROVE work'.phase = "compare"
  BY <1>4 DEF WorkCalm, Calm, Modest, Held
<1>5. ASSUME NEW g \in Files, NEW heavy \in HeavyAllowed, Take(g, heavy)
      PROVE  rows' = rows /\ history' = history /\ rows[f].fp = v /\ Version(f) = v
  <2>1. work'.phase = "compare"
    BY <1>4, <1>5, StepCalm
  <2> QED BY <1>5, <2>1, TakeCompares DEF Held, Take, disk, db
<1>6. CASE FinishSettle \/ FinishHash \/ FinishBackfill \/ FinishDiffers \/ FinishError
  <2>1. work'.phase = "compare"
    BY <1>4, <1>6, StepCalm
  <2>2. \A t : ~Decide(t)
    BY <2>1 DEF Decide
  <2>3. \A g, from, to, p : ~Move(g, from, to, p)
    BY <2>2 DEF Move
  <2>4. \A g, row, p : ~Stay(g, row, p)
    BY <2>3 DEF Stay
  <2>5. /\ \A g, row : ~Lose(g, row) /\ ~BackToSettling(g, row) /\ ~Retry(g, row)
        /\ \A g, row, until : ~Defer(g, row, until)
        /\ \A g, row, p : ~Skip(g, row, p)
    BY <2>3, <2>4 DEF Lose, BackToSettling, Retry, Defer, Skip
  <2>6. ~FinishSettle /\ ~FinishHash /\ ~FinishBackfill
    BY <2>2, <2>3, <2>4, <2>5
       DEF FinishSettle, SettleOpened, FinishHash, Hashed, FinishBackfill, Backfilled
  <2>7. ~FinishDiffers /\ ~FinishError
    BY <2>2, <2>3, <2>4, <2>5 DEF FinishDiffers, Differs, FinishError, BackendError, Policies
  <2> QED BY <1>6, <2>6, <2>7
<1> QED BY <1>1, <1>2, <1>3, <1>5, <1>6, WorkFates

\* The transaction of the worker makes no claim about a version that nobody
\* is going to look at.
LEMMA CommitTracked ==
  ASSUME IInv, TrackInv, Commit, NEW f \in Files
  PROVE  Claims(rows'[f]) => rows'[f].fp = rows[f].fp /\ Owed(f)
<1> DEFINE t       == work.t
           changed == ChangedRows(rows, t)
           grp     == GroupAfter(f, changed[f].group, t, Len(groups) + 1)
<1>1. /\ TypeOK /\ TransitionOK(t) /\ rows[f] \in Row /\ rows[f].skip # "user_undo"
      /\ rows' = AppliedRows(rows, groups, t)
      /\ Claims(rows[f]) => Owed(f)
  BY DEF IInv, WorkOK, Commit, Idle, TypeOK, TrackInv, NoUndo, ClaimOK
<1>2. CASE ~Applies(rows, t)
  BY <1>1, <1>2 DEF AppliedRows
<1>3. CASE Applies(rows, t)
  <2>1. rows' = [h \in Files |-> [changed[h] EXCEPT
                                   !.group = GroupAfter(h, changed[h].group, t, Len(groups) + 1)]]
    BY <1>1, <1>3, Zenon DEF AppliedRows
  <2>2. rows'[f] = [changed[f] EXCEPT !.group = grp]
    BY <2>1
  <2>3. changed[f] \in Row
    BY <1>1, ChangedBy, CasType
  <2>4. rows'[f].state = changed[f].state /\ rows'[f].prev = changed[f].prev
        /\ rows'[f].fp = changed[f].fp
    <3> HIDE DEF changed, grp
    <3> QED BY <2>2, <2>3 DEF Row
  <2>5. CASE WorkCalm(work)
    <3>1. \A c \in {t.self} \union t.others : Modest(c)
      BY <2>5 DEF WorkCalm, Calm, Commit
    <3>2. Claims(changed[f]) => Claims(rows[f]) /\ changed[f].fp = rows[f].fp
      BY <1>1, <3>1, ChangedBy, CasTame
    <3> HIDE DEF changed
    <3> QED BY <1>1, <2>4, <3>2 DEF Claims
  <2>6. CASE Verdict(t)
    <3>1. CASE f = t.self.file
      <4>1. changed[f] = CasUpdate(rows[f], t.self)
        BY <3>1 DEF ChangedRows
      <4>2. rows[f].state = "hashed" /\ t.self.from = "hashed"
        BY <1>3, <2>6, <3>1 DEF Applies, Verdict
      <4>3. changed[f].fp = t.self.patch.fp
        BY <1>1, <2>6, <4>1, <4>2
           DEF CasUpdate, Patched, Column, TransitionOK, ChangeOK, Verdict
      <4>4. Held(work, f, t.self.patch.fp) /\ Hashable(rows[f])
        BY <2>6, <3>1, <4>2 DEF Held, Hashable, Verdict, Commit
      <4> HIDE DEF changed
      <4> QED BY <2>4, <4>3, <4>4 DEF TrackInv, ClaimOK
    <3>2. CASE f # t.self.file
      <4>1. changed[f] = rows[f]
        BY <2>6, <3>2 DEF ChangedRows, Verdict
      <4> HIDE DEF changed
      <4> QED BY <1>1, <2>4, <4>1 DEF Claims
    <3> QED BY <3>1, <3>2
  <2> QED BY <2>5, <2>6 DEF TrackInv, WorkTimely
<1> QED BY <1>2, <1>3

\* No step leaves a claim about an overwritten version alone.
LEMMA ClaimStep ==
  ASSUME IInv, TrackInv, "crash" \notin Moves, [Next]_vars, NEW f \in Files
  PROVE  ClaimOK(f)'
<1>1. /\ TypeOK /\ WorkTimely(work) /\ NoUndo /\ ClaimOK(f) /\ EventsOK(f)
      /\ Version(f) \in Nat
  BY StepGrows DEF IInv, TrackInv, Grows
<1>2. CASE Commit
  <2>1. /\ work' = Idle /\ UNCHANGED <<history, present, pending, seen>>
        /\ Claims(rows'[f]) => rows'[f].fp = rows[f].fp /\ Owed(f)
    BY <1>2, CommitTracked DEF Commit, disk
  <2>2. \A v : ~Held(work', f, v)
    BY <2>1 DEF Held, Idle
  <2> QED BY <2>1, <2>2 DEF ClaimOK, Claims, Held, Owed, Tracked, Version
<1>3. CASE ~Commit
  <2>1. Tame(rows[f], rows'[f])
    BY <1>1, <1>3, TameStep
  <2>2. ASSUME Owed(f), Hashable(rows'[f]), Version(f) > 0 PROVE Owed(f)'
    <3>1. CASE present'[f] /\ rows'[f].fp # Version(f)'
      <4>1. \/ Tracked(f)'
            \/ Version(f)' = Version(f) /\ present[f] /\ (Tracked(f) => Tracked(f)')
        BY <1>1, <2>2, <3>1, TrackedStep
      <4> QED BY <2>1, <2>2, <3>1, <4>1 DEF Owed, Tame
    <3> QED BY <3>1 DEF Owed
  <2>3. ASSUME Claims(rows'[f]) PROVE Owed(f)'
    <3>1. Claims(rows[f]) /\ Hashable(rows'[f])
      BY <2>1, <2>3 DEF Tame, Claims, Hashable
    <3>2. Owed(f) /\ Version(f) > 0
      <4>1. Evidence(f, rows[f].fp)
        BY <3>1 DEF IInv, VerifiedSound, Claims
      <4> QED BY <1>1, <3>1, <4>1 DEF IInv, ComparedOK, Evidence, Reached, ClaimOK
    <3> QED BY <2>2, <3>1, <3>2
  <2>4. ASSUME NEW v, Held(work', f, v), Hashable(rows'[f]) PROVE rows'[f].fp = v /\ Owed(f)'
    <3>1. CASE Held(work, f, v)
      <4>1. Hashable(rows[f]) /\ rows'[f].fp = rows[f].fp
        BY <2>1, <2>4 DEF Tame
      <4>2. rows[f].fp = v /\ Owed(f)
        BY <1>1, <3>1, <4>1 DEF ClaimOK
      <4>3. Version(f) > 0
        <5>1. CASE work.phase = "compare"
          BY <1>1, <3>1, <5>1 DEF IInv, WorkOK, Idle, Held, Reached
        <5>2. CASE work.phase = "commit"
          <6>1. TransitionOK(work.t) /\ work.t.self.to \in Proven /\ work.t.self.file = f
            BY <3>1, <5>2 DEF IInv, WorkOK, Idle, Held
          <6> QED BY <1>1, <6>1 DEF TransitionOK, ChangeOK, IInv, ComparedOK, Evidence, Reached
        <5> QED BY <3>1, <5>1, <5>2 DEF Held
      <4> QED BY <2>2, <2>4, <4>1, <4>2, <4>3
    <3>2. CASE rows' = rows /\ history' = history /\ rows[f].fp = v /\ Version(f) = v
      BY <3>2 DEF Owed, Version
    <3> QED BY <1>1, <2>4, <3>1, <3>2, HeldStep
  <2> QED BY <2>3, <2>4 DEF ClaimOK, Claims, Held, Hashable
<1> QED BY <1>2, <1>3

\* No step of the pipeline undoes.
LEMMA UndoStep == ASSUME IInv, TrackInv, [Next]_vars PROVE NoUndo'
<1>1. NoUndo
  BY DEF TrackInv
<1>2. CASE Commit
  <2> DEFINE t       == work.t
             changed == ChangedRows(rows, t)
  <2>1. /\ TypeOK /\ TransitionOK(t)
        /\ rows' = AppliedRows(rows, groups, t)
    BY <1>2 DEF IInv, WorkOK, Commit, Idle
  <2> SUFFICES ASSUME NEW f \in Files PROVE rows'[f].skip # "user_undo"
    BY DEF NoUndo
  <2>2. rows[f] \in Row /\ rows[f].skip # "user_undo"
    BY <1>1, <2>1 DEF TypeOK, NoUndo
  <2>3. CASE ~Applies(rows, t)
    BY <2>1, <2>2, <2>3 DEF AppliedRows
  <2>4. CASE Applies(rows, t)
    <3>1. rows' = [h \in Files |-> [changed[h] EXCEPT
                                     !.group = GroupAfter(h, changed[h].group, t, Len(groups) + 1)]]
      BY <2>1, <2>4, Zenon DEF AppliedRows
    <3>2. \A c \in {t.self} \union t.others :
            "skip" \in DOMAIN c.patch => c.patch.skip # "user_undo"
      BY <1>2 DEF TrackInv, WorkTimely, WorkCalm, Calm, Modest, Verdict, Commit
    <3>3. changed[f] \in Row /\ changed[f].skip # "user_undo"
      <4>1. ASSUME NEW c \in {t.self} \union t.others, ChangeOK(c)
            PROVE  CasUpdate(rows[f], c).skip # "user_undo"
        BY <2>2, <3>2, <4>1 DEF CasUpdate, Patched, Column
      <4> QED BY <2>1, <2>2, <4>1, ChangedBy, CasType
    <3> DEFINE grp == GroupAfter(f, changed[f].group, t, Len(groups) + 1)
    <3>4. rows'[f] = [changed[f] EXCEPT !.group = grp]
      BY <3>1
    <3> HIDE DEF changed, grp
    <3> QED BY <3>3, <3>4 DEF Row
  <2> QED BY <2>3, <2>4
<1> QED BY <1>1, <1>2, TameStep DEF NoUndo, Tame

\* All this is kept.
LEMMA EventsLead == ASSUME "crash" \notin Moves PROVE Spec => []TrackInv
<1>1. Init => TrackInv
  <2> SUFFICES ASSUME Init PROVE TrackInv
    OBVIOUS
  <2>1. WorkTimely(work) /\ NoUndo
    BY DEF Init, WorkTimely, WorkCalm, Idle, NoUndo, NoRow, BlankRow
  <2>2. ASSUME NEW f \in Files PROVE ClaimOK(f) /\ EventsOK(f)
    <3>1. ClaimOK(f)
      BY DEF Init, ClaimOK, Claims, Held, Idle, Hashable, NoRow, BlankRow, Proven
    <3>2. history[f] \in Seq(Contents) /\ (present[f] => Len(history[f]) > 0)
      BY InitInv DEF IInv, TypeOK, Born, Version
    <3>3. pending[f] # <<>> => present[f] /\ pending[f] = <<"touched">>
      BY DEF Init
    <3> QED BY <3>1, <3>2, <3>3 DEF EventsOK, Version
  <2> QED BY <2>1, <2>2 DEF TrackInv
<1>2. IInv /\ TrackInv /\ [Next]_vars => TrackInv'
  <2> SUFFICES ASSUME IInv, TrackInv, [Next]_vars PROVE TrackInv'
    OBVIOUS
  <2>1. WorkTimely(work)' /\ NoUndo'
    BY WorkTimelyStep, UndoStep DEF TrackInv
  <2>2. \A f \in Files : ClaimOK(f)' /\ EventsOK(f)'
    BY ClaimStep, EventsStep DEF TrackInv
  <2> QED BY <2>1, <2>2 DEF TrackInv
<1> QED BY <1>1, <1>2, Invariance, PTL DEF Spec

\* Whatever the threads and the environment do, a claim about a version that
\* was overwritten has an event on its way: between the take and the commit of
\* the worker an upsert either takes the row out of the states the verdict
\* needs or leaves the version it read.  Only a crash loses events; then the
\* claim waits for the delta reconcile (Heals).
THEOREM ClaimsAreTracked == ASSUME "crash" \notin Moves PROVE Spec => []ClaimsTracked
<1>1. TrackInv => ClaimsTracked
  BY DEF TrackInv, ClaimOK, Claims, Owed, ClaimsTracked
<1> QED BY <1>1, EventsLead, PTL

(* -------------------------- hashes of versions ------------------------ *)

\* The row records a version the worker has settled, or would again.
Fixed(row) ==
  LET fixed == (Queued \union Resting) \ {"settling"}
  IN row.state \in fixed \/ (row.state = "missing" /\ row.prev \in fixed)

\* HashSound of one row, whatever its state; the rows of files that are gone
\* from their path stay without them, and a row that settles knows no hash.
RowOK(f, row) ==
  /\ IF row.state = "absent" THEN row.hash = NoHash ELSE Reached(f, row.fp)
  /\ row.state \in Lost => ~present[f]
  /\ row.state = "settling" /\ present[f] => row.hash = NoHash
  /\ row.hash # NoHash /\ row.fp = Version(f) => row.hash = HashOf[Body(f, Version(f))]

\* f has been written and has a row, which only a purge takes out of the table.
Stored(f) == Version(f) > 0 /\ ("purge" \notin Moves => rows[f].state # "absent")

\* A change that the worker has decided on leaves the row of its file right,
\* whatever became of the file and of the row since.
SoundChange(c) ==
  LET f == c.file  row == rows[f]  p == c.patch
  IN /\ Stored(f) /\ c.from # "absent"
     /\ "fp" \in DOMAIN p => Reached(f, p.fp)
     /\ "fp" \in DOMAIN p /\ "hash" \notin DOMAIN p =>
          row.hash = NoHash \/ (c.from = "hashed" /\ (Fixed(row) => row.fp = p.fp))
     /\ "hash" \in DOMAIN p /\ p.hash # NoHash =>
          /\ "fp" \notin DOMAIN p /\ c.to # "settling" /\ c.from \in {"sized", "distinct"}
          /\ Fixed(row) /\ row.fp = Version(f) => p.hash = HashOf[Body(f, Version(f))]
     /\ c.to = "settling" => c.from = "settling" \/ ("hash" \in DOMAIN p /\ p.hash = NoHash)
     /\ c.to \in Lost => ~present[f]

\* What the worker holds leads to such changes: the row it took or peers with
\* records the version it read, or has to settle again.
WorkSound(w) ==
  /\ w.phase \in {"settle", "hash", "backfill", "compare"} => Stored(w.file)
  /\ w.phase = "settle" => w.row.state = "settling" /\ rows[w.file].hash = NoHash
  /\ w.phase = "hash" => w.row.state = "sized"
  /\ w.phase = "backfill" =>
       Stored(w.peer) /\ (Fixed(rows[w.peer]) => rows[w.peer].fp = w.peerRow.fp)
  /\ w.phase = "compare" =>
       w.row.state = "hashed" /\ (Fixed(rows[w.file]) => rows[w.file].fp = w.row.fp)
  /\ w.phase = "commit" => SoundChange(w.t.self) /\ \A c \in w.t.others : SoundChange(c)

\* What a thread has seen of a file was there.
SeenOK == \A t \in Threads : seen[t] # Nothing => Reached(seen[t].file, seen[t].fp)

\* A file that was unlinked does not come back under its path.
RemovedOK(f) ==
  \A i \in 1..Len(pending[f]) : pending[f][i] = "removed" => ~present[f]

\* The worker waits for the initial scan, and that is over when it is done.
BootOK ==
  /\ work # Idle => boot.phase = "done"
  /\ "move_in" \notin Moves => ScanOver

HashInv ==
  /\ WorkSound(work) /\ SeenOK /\ BootOK
  /\ \A f \in Files : RowOK(f, rows[f]) /\ RemovedOK(f) /\ EventsOK(f)
\* What a step of another thread may do to the row of f.
RowStep(f, old, new) ==
  /\ new.state = "absent" =>
       new.hash = NoHash /\ (old.state = "absent" \/ "purge" \in Moves)
  /\ new.state # "absent" => IF old.state # "absent" THEN new.fp = old.fp ELSE Reached(f, new.fp)
  /\ new.state \in Lost => old.state # "absent" /\ (old.state \in Lost \/ ~present[f])
  /\ new.state = "settling" => old.state \in {"settling"} \union Lost \/ new.hash = NoHash
  /\ new.hash # NoHash => new.hash = old.hash /\ new.fp = old.fp
  /\ Fixed(new) => \/ Fixed(old) /\ new.fp = old.fp
                   \/ old.state = "absent" /\ seen["scheduler"].by = "insert"

\* A row that nothing happens to.
LEMMA SameRowStep == ASSUME NEW f \in Files, NEW row, RowOK(f, row) PROVE RowStep(f, row, row)
BY DEF RowStep, RowOK, Lost

\* The upsert is such a step ...
LEMMA UpsertRowStep ==
  ASSUME NEW f \in Files, NEW row \in Row, RowOK(f, row), NEW v \in Nat, Reached(f, v),
         NEW ready \in {"null", "due", "later"}
  PROVE  RowStep(f, row, UpsertRow(row, v, ready))
<1>1. CASE row.state = "absent"
  BY <1>1 DEF UpsertRow, NewRow, BlankRow, RowStep, Fixed, Lost
<1>2. CASE row.state # "absent"
  <2>1. UpsertRow(row, v, ready) = Upserted(row, v, ready)
    BY <1>2 DEF UpsertRow
  <2> DEFINE new == Upserted(row, v, ready)
  <2>2. /\ new.fp = row.fp
        /\ new.state = IF row.state = "missing" /\ row.fp = v THEN RestoreTarget(row.prev)
                       ELSE IF row.fp = v \/ row.skip = "user_undo" THEN row.state
                       ELSE "settling"
        /\ new.prev = IF row.fp = v \/ row.state \in Queued THEN row.prev ELSE row.state
        /\ new.hash = IF row.fp = v THEN row.hash ELSE NoHash
    BY DEF Upserted, Row
  <2> HIDE DEF new
  <2>3. new.state = "settling" => row.state \in {"settling"} \union Lost \/ new.hash = NoHash
    BY <1>2, <2>2 DEF Lost
  <2>4. new.state # "absent" /\ (new.state \in Lost => row.state \in Lost)
    BY <1>2, <2>2 DEF RestoreTarget, Queued, Resting, Proven, Lost
  <2>5. Fixed(new) => Fixed(row)
    BY <2>2 DEF Fixed, RestoreTarget, Queued, Resting, Proven
  <2>6. RowStep(f, row, new)
    BY <1>2, <2>2, <2>3, <2>4, <2>5 DEF RowStep
  <2> QED BY <2>1, <2>6 DEF new
<1> QED BY <1>1, <1>2

\* ... and so is mark_missing, of a file that is not there.
LEMMA MarkedRowStep ==
  ASSUME NEW f \in Files, NEW row \in Row, RowOK(f, row), ~present[f]
  PROVE  RowStep(f, row, MarkedMissing(row))
<1>1. CASE row.state \in Lost \union {"absent"}
  BY <1>1, SameRowStep DEF MarkedMissing
<1>2. CASE row.state \notin Lost \union {"absent"}
  <2> DEFINE new == MarkedMissing(row)
  <2>1. /\ new.state = "missing" /\ new.prev = row.state
        /\ new.fp = row.fp /\ new.hash = row.hash
    BY <1>2 DEF MarkedMissing, Row
  <2> HIDE DEF new
  <2>2. RowStep(f, row, new)
    BY <1>2, <2>1 DEF RowStep, Fixed, Queued, Resting, Proven, Lost
  <2> QED BY <2>2 DEF new
<1> QED BY <1>1, <1>2

\* Every step but the commit of the worker leaves the rows to such steps.
LEMMA RowsStep ==
  ASSUME IInv, HashInv, "unskip" \notin Moves, [Next]_vars
  PROVE  Commit \/ \A f \in Files : RowStep(f, rows[f], rows'[f])
<1>1. /\ TypeOK /\ rows \in [Files -> Row]
      /\ \A f \in Files : rows[f] \in Row /\ RowOK(f, rows[f])
  BY DEF IInv, TypeOK, HashInv
<1>2. ASSUME rows' = rows PROVE \A f \in Files : RowStep(f, rows[f], rows'[f])
  BY <1>1, <1>2, SameRowStep
<1>3. ASSUME NEW f \in Files, NEW row, rows' = [rows EXCEPT ![f] = row], RowStep(f, rows[f], row)
      PROVE  \A g \in Files : RowStep(g, rows[g], rows'[g])
  BY <1>1, <1>3, SameRowStep
<1>4. ASSUME NEW t \in Threads, seen[t].by # "nothing"
      PROVE  seen[t].file \in Files /\ seen[t].fp \in Nat /\ Reached(seen[t].file, seen[t].fp)
  BY <1>1, <1>4 DEF TypeOK, SeenEntry, Nothing, HashInv, SeenOK
<1>5. ASSUME NEW f \in Files, NEW v \in Nat, Reached(f, v), NEW ready \in {"due", "later"},
             Upsert(f, v, ready)
      PROVE  \A g \in Files : RowStep(g, rows[g], rows'[g])
  BY <1>1, <1>3, <1>5, UpsertRowStep DEF Upsert
<1>6. ASSUME NEW f \in Files, FallDue(f) \/ Overdue(f) \/ Expire(f) \/ Requeue(f) \/ Purge(f)
      PROVE  \A g \in Files : RowStep(g, rows[g], rows'[g])
  <2>1. CASE FallDue(f) \/ Overdue(f)
    <3>1. PICK row : /\ \/ row = [rows[f] EXCEPT !.ready = "due"]
                        \/ row = [rows[f] EXCEPT !.hws = "overdue"]
                     /\ rows' = [rows EXCEPT ![f] = row]
      BY <2>1 DEF FallDue, Overdue
    <3>2. /\ row.state = rows[f].state /\ row.prev = rows[f].prev
          /\ row.fp = rows[f].fp /\ row.hash = rows[f].hash
      BY <1>1, <3>1 DEF Row
    <3>3. RowStep(f, rows[f], row)
      BY <1>1, <3>2 DEF RowStep, RowOK, Fixed, Lost
    <3> QED BY <1>3, <3>1, <3>3
  <2>2. CASE Expire(f)
    <3> DEFINE row == [rows[f] EXCEPT !.state = "gone"]
    <3>1. rows' = [rows EXCEPT ![f] = row] /\ rows[f].state = "missing"
      BY <2>2 DEF Expire
    <3>2. row.state = "gone" /\ row.fp = rows[f].fp /\ row.hash = rows[f].hash
      BY <1>1 DEF Row
    <3> HIDE DEF row
    <3>3. RowStep(f, rows[f], row)
      BY <3>1, <3>2 DEF RowStep, Fixed, Queued, Resting, Proven, Lost
    <3> QED BY <1>3, <3>1, <3>3
  <2>3. CASE Requeue(f)
    <3> DEFINE half == [rows[f] EXCEPT !.state = "hashed"]
               row  == [half EXCEPT !.ready = "due"]
    <3>1. rows' = [rows EXCEPT ![f] = row] /\ rows[f].state = "verified"
      BY <2>3, Zenon DEF Requeue
    <3>2. half.state = "hashed" /\ half.fp = rows[f].fp /\ half.hash = rows[f].hash
      BY <1>1 DEF Row
    <3> HIDE DEF half
    <3>3. row.state = half.state /\ row.fp = half.fp /\ row.hash = half.hash
      OBVIOUS
    <3> HIDE DEF row
    <3>4. RowStep(f, rows[f], row)
      BY <3>1, <3>2, <3>3 DEF RowStep, Fixed, Queued, Resting, Proven, Lost
    <3> QED BY <1>3, <3>1, <3>4
  <2>4. CASE Purge(f)
    <3>1. rows' = [rows EXCEPT ![f] = NoRow] /\ "purge" \in Moves
      BY <2>4 DEF Purge
    <3>2. RowStep(f, rows[f], NoRow)
      BY <3>1 DEF NoRow, BlankRow, RowStep, Fixed, Queued, Resting, Proven, Lost
    <3> QED BY <1>3, <3>1, <3>2
  <2> QED BY <1>6, <2>1, <2>2, <2>3, <2>4
<1>7. ASSUME NEW f \in Files, WatchRemoved(f) \/ WatchMovedOut(f) \/ PresenceFinish(f)
      PROVE  \A g \in Files : RowStep(g, rows[g], rows'[g])
  <2>1. \/ rows' = rows
        \/ rows' = [rows EXCEPT ![f] = MarkedMissing(rows[f])] /\ ~present[f]
    <3>1. ASSUME WatchRemoved(f) PROVE ~present[f]
      <4>1. /\ pending[f] \in Seq({"touched", "removed", "moved_out"}) /\ pending[f] # <<>>
            /\ Head(pending[f]) = "removed"
        BY <1>1, <3>1 DEF WatchRemoved, TakeEvent, TypeOK
      <4>2. 1 \in 1..Len(pending[f]) /\ pending[f][1] = "removed"
        BY <4>1
      <4> QED BY <4>2 DEF HashInv, RemovedOK
    <3> QED BY <1>7, <3>1 DEF WatchRemoved, WatchMovedOut, PresenceFinish
  <2> QED BY <1>1, <1>2, <1>3, <2>1, MarkedRowStep
<1>8. CASE WatchCommit
  <2>1. seen["watcher"].by # "nothing" /\ "watcher" \in Threads
    BY <1>1, <1>8 DEF WatchCommit, TypeOK, SeenEntry, Nothing, Threads
  <2> QED BY <1>4, <1>5, <1>8, <2>1 DEF WatchCommit
<1>9. CASE ReconcileCommit \/ PresenceCommit
  <2>1. /\ seen["scheduler"].file \in Files /\ seen["scheduler"].fp \in Nat
        /\ Reached(seen["scheduler"].file, seen["scheduler"].fp)
    BY <1>4, <1>9 DEF ReconcileCommit, PresenceCommit, Threads
  <2>2. CASE ReconcileCommit
    BY <1>5, <2>1, <2>2 DEF ReconcileCommit
  <2>3. CASE PresenceCommit
    BY <1>2, <1>5, <2>1, <2>3 DEF PresenceCommit, db
  <2> QED BY <1>9, <2>2, <2>3
<1>10. CASE WalkInsert
  <2> DEFINE e == seen["scheduler"]
             row == IF rows[e.file].state # "absent" THEN rows[e.file]
                    ELSE IF e.fresh THEN BlankRow("settling", e.fp, "later")
                    ELSE BlankRow("sized", e.fp, "null")
  <2>1. e.file \in Files /\ Reached(e.file, e.fp) /\ e.by = "insert"
    BY <1>4, <1>10 DEF WalkInsert, Threads
  <2>2. rows' = [rows EXCEPT ![e.file] = row]
    BY <1>10 DEF WalkInsert
  <2>3. RowStep(e.file, rows[e.file], row)
    <3>1. CASE rows[e.file].state # "absent"
      BY <1>1, <2>1, <3>1, SameRowStep
    <3>2. CASE rows[e.file].state = "absent"
      <4>1. /\ row.state \in {"settling", "sized"} /\ row.hash = NoHash /\ row.fp = e.fp
        BY <3>2 DEF BlankRow
      <4> HIDE DEF row, e
      <4>2. row.state \notin Lost \union {"absent"}
        BY <4>1 DEF Lost
      <4> QED BY <2>1, <3>2, <4>1, <4>2 DEF RowStep, e
    <3> QED BY <3>1, <3>2
  <2> HIDE DEF e, row
  <2> QED BY <1>3, <2>1, <2>2, <2>3
<1>11. CASE ScanPhaseB
  <2> SUFFICES ASSUME NEW f \in Files PROVE RowStep(f, rows[f], rows'[f])
    OBVIOUS
  <2>1. \/ rows'[f] = rows[f]
        \/ rows'[f] = [rows[f] EXCEPT !.ready = "due"]
        \/ rows'[f] = [rows[f] EXCEPT !.state = "distinct"] /\ rows[f].state = "sized"
    BY <1>11 DEF ScanPhaseB
  <2>2. /\ \/ rows'[f].state = rows[f].state
           \/ rows'[f].state = "distinct" /\ rows[f].state = "sized"
        /\ rows'[f].prev = rows[f].prev
        /\ rows'[f].fp = rows[f].fp /\ rows'[f].hash = rows[f].hash
    BY <1>1, <2>1 DEF Row
  <2> QED BY <1>1, <2>2 DEF RowStep, RowOK, Fixed, Queued, Resting, Proven, Lost
<1>12. \/ rows' = rows \/ WatchCommit \/ ReconcileCommit \/ PresenceCommit \/ WalkInsert
       \/ ScanPhaseB \/ Commit
       \/ \E f \in Files : \/ FallDue(f) \/ Overdue(f) \/ WatchRemoved(f) \/ WatchMovedOut(f)
                           \/ PresenceFinish(f) \/ Expire(f) \/ Purge(f) \/ Requeue(f)
  BY DEF Next, Environment, Write, MoveIn, Vanish, Return, Age, Crash, Unskip,
     Watcher, WatchTouched, Walk, WalkSee, Scheduler, ReconcileSee, PresenceSee,
     Worker, Take, Finish, FinishSettle, FinishHash, FinishBackfill, FinishSame,
     FinishDiffers, FinishError, vars, db
<1> QED BY <1>2, <1>6, <1>7, <1>8, <1>9, <1>10, <1>11, <1>12

\* A file that left its path stays away.
LEMMA AwayStays ==
  ASSUME TypeOK, "return" \notin Moves, [Next]_vars, NEW f \in Files, present'[f], Version(f) > 0
  PROVE  present[f]
<1>1. ~\E g \in Files : Return(g)
  BY DEF Return
<1>2. ASSUME NEW g \in Files, MoveIn(g) PROVE present[f]
  BY <1>2 DEF MoveIn, TypeOK
<1>3. ASSUME NEW g \in Files, Vanish(g) PROVE present[f]
  BY <1>3 DEF Vanish, TypeOK
<1>4. UNCHANGED present \/ \E g \in Files : MoveIn(g) \/ Vanish(g)
  BY <1>1 DEF Next, Environment, Write, Age, FallDue, Overdue, Crash,
     Watcher, WatchTouched, WatchRemoved, WatchMovedOut, WatchCommit,
     Walk, WalkSee, WalkInsert, ScanPhaseB, ReconcileCommit, PresenceCommit,
     Scheduler, ReconcileSee, PresenceSee, PresenceFinish, Expire, Purge, Unskip, Requeue,
     Worker, Take, Finish, FinishSettle, FinishHash, FinishBackfill, FinishSame,
     FinishDiffers, FinishError, Commit, vars, disk
<1> QED BY <1>2, <1>3, <1>4

\* What every step but the commit does to a file and to its row, seen from a
\* worker that is busy.
Onward(f) ==
  /\ Version(f) \in Nat /\ Version(f)' \in Nat /\ Version(f) <= Version(f)'
  /\ \A v \in 1..Version(f) : Body(f, v)' = Body(f, v)
  /\ present'[f] /\ Version(f) > 0 => present[f]
  /\ RowOK(f, rows[f]) /\ RowStep(f, rows[f], rows'[f])

\* The row stays right ...
LEMMA RowOKStays == ASSUME TypeOK, NEW f \in Files, Onward(f) PROVE RowOK(f, rows[f])'
<1>1. rows[f] \in Row
  BY DEF TypeOK
<1> DEFINE old == rows[f]
           new == rows'[f]
<1>2. old.state # "absent" => old.fp \in 1..Version(f) /\ Version(f) > 0
  BY <1>1 DEF Onward, RowOK, Reached, Row
<1>3. IF new.state = "absent" THEN new.hash = NoHash ELSE new.fp \in 1..Version(f)'
  BY <1>2 DEF Onward, RowStep, Reached
<1>4. new.state \in Lost => ~present'[f]
  BY <1>2 DEF Onward, RowStep, RowOK
<1>5. ASSUME new.state = "settling", present'[f] PROVE new.hash = NoHash
  <2>1. CASE old.state \in {"settling"} \union Lost
    <3>1. present[f]
      BY <1>2, <1>5, <2>1 DEF Onward, Lost
    <3> QED BY <1>5, <2>1, <3>1 DEF Onward, RowStep, RowOK
  <2> QED BY <1>5, <2>1 DEF Onward, RowStep
<1>6. ASSUME new.hash # NoHash, new.fp = Version(f)' PROVE new.hash = HashOf[Body(f, Version(f))']
  <2>1. /\ new.hash = old.hash /\ new.fp = old.fp /\ old.state # "absent"
    BY <1>6 DEF Onward, RowStep, RowOK
  <2>2. Version(f)' = Version(f) /\ Body(f, Version(f))' = Body(f, Version(f))
    BY <1>2, <1>6, <2>1 DEF Onward, Body
  <2> QED BY <1>6, <2>1, <2>2 DEF Onward, RowOK
<1> QED BY <1>3, <1>4, <1>5, <1>6 DEF RowOK, Reached

\* ... a change that is decided stays right for it ...
LEMMA ChangeStays ==
  ASSUME TypeOK, NEW c, c.file \in Files, Onward(c.file), SoundChange(c),
         "purge" \notin Moves \/ seen["scheduler"].by # "insert"
  PROVE  SoundChange(c)'
<1> DEFINE f   == c.file
           p   == c.patch
           old == rows[f]
           new == rows'[f]
<1>1. old \in Row /\ f \in Files
  BY DEF TypeOK
<1>2. Stored(f) /\ Version(f) > 0
  BY DEF SoundChange, Stored
<1>3. Stored(f)' /\ (\A v : Reached(f, v) => Reached(f, v)')
  BY <1>2 DEF Onward, RowStep, Stored, Reached
<1>4. Fixed(new) => Fixed(old) /\ new.fp = old.fp
  BY <1>2 DEF Onward, RowStep, Stored
<1>5. old.hash = NoHash => new.hash = NoHash
  BY DEF Onward, RowStep
<1>6. ASSUME Fixed(new), new.fp = Version(f)'
      PROVE  Fixed(old) /\ old.fp = Version(f) /\ Body(f, Version(f))' = Body(f, Version(f))
  <2>1. Fixed(old) /\ new.fp = old.fp
    BY <1>4, <1>6
  <2>2. old.fp \in 1..Version(f)
    BY <2>1 DEF Onward, RowOK, Reached, Fixed, Queued, Resting, Proven
  <2>3. Version(f)' = Version(f)
    BY <1>6, <2>1, <2>2 DEF Onward
  <2>4. Body(f, Version(f))' = Body(f, Version(f))
    BY <1>2, <2>3 DEF Onward, Body
  <2> QED BY <1>6, <2>1, <2>3, <2>4
<1>7. ~present[f] => ~present'[f]
  BY <1>2 DEF Onward
<1>8. /\ c.from # "absent"
      /\ "fp" \in DOMAIN p => Reached(f, p.fp)
      /\ "fp" \in DOMAIN p /\ "hash" \notin DOMAIN p =>
           old.hash = NoHash \/ (c.from = "hashed" /\ (Fixed(old) => old.fp = p.fp))
      /\ "hash" \in DOMAIN p /\ p.hash # NoHash =>
           /\ "fp" \notin DOMAIN p /\ c.to # "settling" /\ c.from \in {"sized", "distinct"}
           /\ Fixed(old) /\ old.fp = Version(f) => p.hash = HashOf[Body(f, Version(f))]
      /\ c.to = "settling" => c.from = "settling" \/ ("hash" \in DOMAIN p /\ p.hash = NoHash)
      /\ c.to \in Lost => ~present[f]
  BY DEF SoundChange
<1>9. "hash" \in DOMAIN p /\ p.hash # NoHash /\ Fixed(new) /\ new.fp = Version(f)' =>
        p.hash = HashOf[Body(f, Version(f))']
  BY <1>6, <1>8
<1>10. /\ Stored(f)' /\ c.from # "absent"
       /\ "fp" \in DOMAIN p => Reached(f, p.fp)'
       /\ "fp" \in DOMAIN p /\ "hash" \notin DOMAIN p =>
            new.hash = NoHash \/ (c.from = "hashed" /\ (Fixed(new) => new.fp = p.fp))
       /\ "hash" \in DOMAIN p /\ p.hash # NoHash =>
            /\ "fp" \notin DOMAIN p /\ c.to # "settling" /\ c.from \in {"sized", "distinct"}
            /\ Fixed(new) /\ new.fp = Version(f)' => p.hash = HashOf[Body(f, Version(f))']
       /\ c.to = "settling" => c.from = "settling" \/ ("hash" \in DOMAIN p /\ p.hash = NoHash)
       /\ c.to \in Lost => ~present'[f]
  BY <1>3, <1>4, <1>5, <1>7, <1>8, <1>9
<1> QED BY <1>10 DEF SoundChange, Fixed

\* ... and so does all that the worker holds.
LEMMA WorkSoundStays ==
  ASSUME TypeOK, WorkOK(work), WorkSound(work), \A f \in Files : Onward(f), work' = work,
         "purge" \notin Moves \/ seen["scheduler"].by # "insert"
  PROVE  WorkSound(work)'
<1>1. ASSUME NEW f \in Files, Stored(f)
      PROVE  /\ Stored(f)'
             /\ rows[f].hash = NoHash => rows'[f].hash = NoHash
             /\ \A v : (Fixed(rows[f]) => rows[f].fp = v) => (Fixed(rows'[f]) => rows'[f].fp = v)
  <2>1. Onward(f)
    OBVIOUS
  <2> QED BY <1>1, <2>1 DEF Onward, RowStep, Stored
<1>2. CASE work.phase # "commit"
  <2>1. work.phase \in {"settle", "hash", "backfill", "compare"} => work.file \in Files
    BY DEF WorkOK, Idle
  <2>2. work.phase = "backfill" => work.peer \in Files
    BY DEF WorkOK, Idle
  <2>3. work.phase \in {"settle", "hash", "backfill", "compare"} => Stored(work.file)'
    BY <1>1, <2>1 DEF WorkSound
  <2>4. work.phase = "settle" => rows'[work.file].hash = NoHash
    BY <1>1, <2>1 DEF WorkSound
  <2>5. work.phase = "backfill" =>
          Stored(work.peer)' /\ (Fixed(rows'[work.peer]) => rows'[work.peer].fp = work.peerRow.fp)
    BY <1>1, <2>2 DEF WorkSound
  <2>6. work.phase = "compare" =>
          (Fixed(rows'[work.file]) => rows'[work.file].fp = work.row.fp)
    BY <1>1, <2>1 DEF WorkSound
  <2>7. /\ work.phase \in {"settle", "hash", "backfill", "compare"} => Stored(work.file)'
        /\ work.phase = "settle" => work.row.state = "settling" /\ rows'[work.file].hash = NoHash
        /\ work.phase = "hash" => work.row.state = "sized"
        /\ work.phase = "compare" => work.row.state = "hashed"
    BY <2>3, <2>4 DEF WorkSound
  <2> QED BY <1>2, <2>5, <2>6, <2>7 DEF WorkSound, Fixed
<1>3. CASE work.phase = "commit"
  <2>1. TransitionOK(work.t) /\ SoundChange(work.t.self) /\ \A c \in work.t.others : SoundChange(c)
    BY <1>3 DEF WorkOK, Idle, WorkSound
  <2>2. work.t.self.file \in Files /\ \A c \in work.t.others : c.file \in Files
    BY <2>1 DEF TransitionOK, ChangeOK
  <2>3. SoundChange(work.t.self)' /\ \A c \in work.t.others : SoundChange(c)'
    BY <2>1, <2>2, ChangeStays
  <2> QED BY <1>3, <2>3 DEF WorkSound
<1> QED BY <1>2, <1>3

\* A change that is right for the row leaves it right ...
LEMMA CasRowOK ==
  ASSUME NEW f \in Files, rows[f] \in Row, RowOK(f, rows[f]), Version(f) \in Nat,
         NEW c, c.file = f, ChangeOK(c), SoundChange(c)
  PROVE  RowOK(f, CasUpdate(rows[f], c))
<1>1. CASE rows[f].state # c.from
  BY <1>1 DEF CasUpdate
<1>2. CASE rows[f].state = c.from
  <2> DEFINE old == rows[f]
             new == CasUpdate(rows[f], c)
             p   == c.patch
  <2>1. /\ new.state = c.to /\ new.fp = Column(p, "fp", old.fp)
        /\ new.hash = Column(p, "hash", old.hash)
    BY <1>2 DEF CasUpdate, Patched
  <2> HIDE DEF new
  <2>2. c.to # "absent" /\ old.state # "absent" /\ Reached(f, old.fp)
    BY <1>2 DEF ChangeOK, SoundChange, State, Queued, Resting, Proven, Lost, RowOK
  <2>3. Reached(f, new.fp)
    BY <2>1, <2>2 DEF SoundChange, Column
  <2>4. new.state \in Lost => ~present[f]
    BY <2>1 DEF SoundChange
  <2>5. new.state = "settling" /\ present[f] => new.hash = NoHash
    BY <1>2, <2>1 DEF SoundChange, RowOK, Column
  <2>6. ASSUME new.hash # NoHash, new.fp = Version(f) PROVE new.hash = HashOf[Body(f, Version(f))]
    <3>1. CASE "hash" \in DOMAIN p
      <4>1. /\ new.hash = p.hash /\ new.fp = old.fp
            /\ old.state \in {"sized", "distinct"}
        BY <1>2, <2>1, <2>6, <3>1 DEF SoundChange, Column
      <4>2. Fixed(old)
        BY <4>1 DEF Fixed, Queued, Resting
      <4> QED BY <2>6, <3>1, <4>1, <4>2 DEF SoundChange
    <3>2. CASE "hash" \notin DOMAIN p
      <4>1. new.hash = old.hash
        BY <2>1, <3>2 DEF Column
      <4>2. new.fp = old.fp
        <5>1. CASE "fp" \in DOMAIN p
          <6>1. c.from = "hashed" /\ (Fixed(old) => old.fp = p.fp)
            BY <2>6, <3>2, <4>1, <5>1 DEF SoundChange
          <6>2. Fixed(old)
            BY <1>2, <6>1 DEF Fixed, Queued
          <6> QED BY <2>1, <5>1, <6>1, <6>2 DEF Column
        <5>2. CASE "fp" \notin DOMAIN p
          BY <2>1, <5>2 DEF Column
        <5> QED BY <5>1, <5>2
      <4> QED BY <2>6, <4>1, <4>2 DEF RowOK
    <3> QED BY <3>1, <3>2
  <2>7. RowOK(f, new)
    BY <2>1, <2>2, <2>3, <2>4, <2>5, <2>6 DEF RowOK
  <2> QED BY <2>7 DEF new
<1> QED BY <1>1, <1>2

\* ... and so does the transaction of the worker.
LEMMA CommitRowOK ==
  ASSUME IInv, HashInv, Commit, NEW f \in Files
  PROVE  RowOK(f, rows[f])'
<1> DEFINE t       == work.t
           changed == ChangedRows(rows, t)
           grp     == GroupAfter(f, changed[f].group, t, Len(groups) + 1)
<1>1. /\ TypeOK /\ TransitionOK(t) /\ rows[f] \in Row /\ RowOK(f, rows[f]) /\ Version(f) \in Nat
      /\ rows' = AppliedRows(rows, groups, t)
      /\ \A c \in {t.self} \union t.others : SoundChange(c)
  BY DEF IInv, WorkOK, Commit, Idle, TypeOK, HashInv, WorkSound, Version
<1>2. RowOK(f, rows'[f])
  <2>1. CASE ~Applies(rows, t)
    BY <1>1, <2>1 DEF AppliedRows
  <2>2. CASE Applies(rows, t)
    <3>1. rows' = [h \in Files |-> [changed[h] EXCEPT
                                     !.group = GroupAfter(h, changed[h].group, t, Len(groups) + 1)]]
      BY <1>1, <2>2, Zenon DEF AppliedRows
    <3>2. rows'[f] = [changed[f] EXCEPT !.group = grp]
      BY <3>1
    <3>3. changed[f] \in Row /\ RowOK(f, changed[f])
      BY <1>1, ChangedBy, CasType, CasRowOK
    <3> HIDE DEF changed, grp
    <3>4. /\ rows'[f].state = changed[f].state /\ rows'[f].hash = changed[f].hash
          /\ rows'[f].fp = changed[f].fp
      BY <3>2, <3>3 DEF Row
    <3> QED BY <3>3, <3>4 DEF RowOK
  <2> QED BY <2>1, <2>2
<1>3. UNCHANGED <<history, present>>
  BY DEF Commit, disk
<1> QED BY <1>2, <1>3 DEF RowOK, Reached, Version, Body

\* The changes that leave hash and fingerprint alone, forget the hash, or
\* record a version of a file without one.
LEMMA RightChange ==
  ASSUME NEW f, Stored(f), NEW from, from # "absent", NEW to, NEW p,
         to \in Lost => ~present[f],
         "fp" \in DOMAIN p => Reached(f, p.fp),
         \/ {"fp", "hash"} \cap DOMAIN p = {} /\ (to = "settling" => from = "settling")
         \/ "hash" \in DOMAIN p /\ p.hash = NoHash
         \/ "hash" \notin DOMAIN p /\ rows[f].hash = NoHash /\ (to = "settling" => from = "settling")
  PROVE  SoundChange(Change(f, from, to, p))
BY DEF SoundChange, Change

\* The worker decides on a change of one row.
LEMMA MoveSound ==
  ASSUME NEW f, NEW from, NEW to, NEW p, SoundChange(Change(f, from, to, p)),
         Move(f, from, to, p)
  PROVE  WorkSound(work')
BY DEF Move, Decide, Transition, WorkSound

\* The worker decides on changes of several.
LEMMA DecideSound ==
  ASSUME NEW f, NEW from, NEW to, NEW p, SoundChange(Change(f, from, to, p)),
         NEW others, \A c \in others : SoundChange(c), NEW op,
         Decide(Transition(f, from, to, p, others, op))
  PROVE  WorkSound(work')
BY DEF Decide, Transition, WorkSound

\* The outcomes that every step shares.
LEMMA OutcomeSound ==
  ASSUME NEW f, NEW row, row.state \in Queued, Stored(f)
  PROVE  /\ \A until \in {"due", "later"} : Defer(f, row, until) => WorkSound(work')
         /\ BackToSettling(f, row) => WorkSound(work')
         /\ WaitHeavy(f, row) => WorkSound(work')
         /\ Skip(f, row, SkipPatch) => WorkSound(work')
         /\ Retry(f, row) => WorkSound(work')
         /\ ~present[f] /\ Lose(f, row) => WorkSound(work')
<1>1. row.state # "absent" /\ row.state \notin Lost
  BY DEF Queued, Lost
<1>2. ASSUME NEW p, {"fp", "hash"} \cap DOMAIN p = {}, Stay(f, row, p) PROVE WorkSound(work')
  BY <1>1, <1>2, RightChange, MoveSound DEF Stay
<1>3. \A until \in {"due", "later"} : Defer(f, row, until) => WorkSound(work')
  BY <1>2 DEF Defer
<1>4. BackToSettling(f, row) => WorkSound(work')
  BY <1>1, RightChange, MoveSound DEF BackToSettling, Lost
<1>5. WaitHeavy(f, row) => WorkSound(work')
  BY <1>2, <1>3 DEF WaitHeavy
<1>6. Skip(f, row, SkipPatch) => WorkSound(work')
  BY <1>1, RightChange, MoveSound DEF Skip, SkipPatch, Lost
<1>7. Retry(f, row) => WorkSound(work')
  <2>1. ASSUME NEW n, Move(f, row.state, "failed", [attempts |-> n, ready |-> "null"])
        PROVE  WorkSound(work')
    BY <1>1, <2>1, RightChange, MoveSound DEF Lost
  <2> QED BY <1>2, <2>1 DEF Retry
<1>8. ~present[f] /\ Lose(f, row) => WorkSound(work')
  BY <1>1, RightChange, MoveSound DEF Lose
<1> QED BY <1>3, <1>4, <1>5, <1>6, <1>7, <1>8

\* settle::buoc, to the open ...
LEMMA SettleSound ==
  ASSUME NEW f, NEW row, row = rows[f], row.state = "settling", RowOK(f, row), Stored(f),
         Settle(f, row)
  PROVE  WorkSound(work')
<1>1. row.state \in Queued
  BY DEF Queued
<1>2. CASE Stay(f, row, [enq |-> Version(f), ready |-> "later"])
  BY <1>2, RightChange, MoveSound DEF Stay, Lost
<1>3. CASE present[f] /\ work' = [phase |-> "settle", file |-> f, row |-> row]
  BY <1>3 DEF WorkSound, RowOK
<1> QED BY <1>1, <1>2, <1>3, OutcomeSound DEF Settle

\* ... and from it: the row of a file that settles has no hash to keep.
LEMMA SettleOpenedSound ==
  ASSUME NEW f, NEW row, row.state = "settling", Stored(f), Version(f) \in Nat,
         rows[f].hash = NoHash, SettleOpened(f, row)
  PROVE  WorkSound(work')
<1>1. row.state \in Queued /\ Reached(f, Version(f))
  BY DEF Queued, Stored, Reached
<1>2. CASE Move(f, "settling", "sized",
                [fp |-> Version(f), enq |-> Version(f), skip |-> "none", ready |-> "due"])
  BY <1>1, <1>2, RightChange, MoveSound DEF Lost
<1>3. CASE Skip(f, row, [fp |-> Version(f), skip |-> "other", ready |-> "null"])
  BY <1>1, <1>3, RightChange, MoveSound DEF Skip, Lost
<1>4. CASE Stay(f, row, [fp |-> Version(f), skip |-> "other", ready |-> "later"])
  BY <1>1, <1>4, RightChange, MoveSound DEF Stay, Lost
<1> QED BY <1>1, <1>2, <1>3, <1>4, OutcomeSound DEF SettleOpened

\* sua_ung_vien.
LEMMA RepairSound ==
  ASSUME NEW f, Stored(f), NEW p, NEW to, NEW patch,
         SoundChange(Change(p, rows[p].state, to, patch)), Repair(f, p, to, patch)
  PROVE  WorkSound(work')
<1>1. SoundChange(Change(f, "sized", "sized", [ready |-> "due", hws |-> "no"]))
  BY RightChange DEF Lost
<1> QED BY <1>1, DecideSound DEF Repair

\* backfill, up to the read.
LEMMA BackfillSound ==
  ASSUME NEW f, Stored(f), NEW row, NEW p \in Files, Stored(p), Version(p) \in Nat,
         rows[p].state \in {"sized", "distinct"}, Backfill(f, row, p)
  PROVE  WorkSound(work')
<1>1. Reached(p, Version(p)) /\ rows[p].state # "absent"
  BY DEF Stored, Reached
<1>2. CASE ~present[p] /\ Repair(f, p, "missing", [prev |-> rows[p].state, ready |-> "null"])
  BY <1>1, <1>2, RightChange, RepairSound
<1>3. CASE Repair(f, p, "settling",
                  [fp |-> Version(p), hash |-> NoHash, group |-> 0, ready |-> "later"])
  BY <1>1, <1>3, RightChange, RepairSound DEF Lost
<1>4. CASE Repair(f, p, "skipped", SkipPatch)
  BY <1>1, <1>4, RightChange, RepairSound DEF Lost, SkipPatch
<1>5. CASE work' = [phase |-> "backfill", file |-> f, row |-> row,
                    peer |-> p, peerRow |-> rows[p]]
  BY <1>5 DEF WorkSound
<1> QED BY <1>2, <1>3, <1>4, <1>5 DEF Backfill

\* tao_nhom.
LEMMA NewGroupSound ==
  ASSUME NEW f, Stored(f), NEW row, NEW same,
         \A p \in same : Stored(p) /\ rows[p].state # "absent",
         NEW c \in same \union {f}, NewGroup(f, row, same, c)
  PROVE  WorkSound(work')
<1> DEFINE ToHashed(p) == Change(p, rows[p].state, "hashed", [ready |-> "due"])
           ToCanon(p)  == Change(p, rows[p].state, "canonical", [ready |-> "null"])
<1>1. ASSUME NEW p \in same PROVE SoundChange(ToHashed(p)) /\ SoundChange(ToCanon(p))
  BY <1>1, RightChange DEF Lost
<1>2. /\ SoundChange(Change(f, "sized", "canonical", [ready |-> "null"]))
      /\ SoundChange(Change(f, "sized", "hashed", [ready |-> "due"]))
  BY RightChange DEF Lost
<1>3. CASE c = f
  <2>1. \A d \in {ToHashed(p) : p \in same} : SoundChange(d)
    BY <1>1
  <2> QED BY <1>2, <1>3, <2>1, DecideSound DEF NewGroup
<1>4. CASE c # f
  <2>1. \A d \in {ToHashed(p) : p \in same \ {c}} \union {ToCanon(c)} : SoundChange(d)
    BY <1>1, <1>4
  <2> QED BY <1>2, <1>4, <2>1, DecideSound DEF NewGroup
<1> QED BY <1>3, <1>4

\* A file with a row that is right is stored.
LEMMA RowStored ==
  ASSUME NEW f \in Files, RowOK(f, rows[f]), rows[f].state # "absent", Version(f) \in Nat
  PROVE  Stored(f)
BY DEF RowOK, Stored, Reached

\* xep_cho and tim_ung_vien.
LEMMA PlaceSound ==
  ASSUME NEW f, Stored(f), NEW row, row.state \in Queued, NEW heavy, Place(f, row, heavy),
         \A p \in Files : RowOK(p, rows[p]) /\ Version(p) \in Nat
  PROVE  WorkSound(work')
<1> DEFINE g == Lowest(GroupsByKey(groups, row.hash))
<1>1. ASSUME NEW p \in Candidates(f)
      PROVE  p \in Files /\ rows[p].state \in {"sized", "distinct"} /\ Stored(p)
  <2>1. p \in Files /\ rows[p].state \in {"sized", "distinct"}
    BY DEF Candidates
  <2> QED BY <2>1, RowStored
<1>2. CASE FindCandidate(f, row, heavy)
  <2>1. CASE Move(f, "sized", "distinct", [ready |-> "null"])
    BY <2>1, RightChange, MoveSound DEF Lost
  <2>2. ASSUME NEW p \in Candidates(f), Backfill(f, row, p) PROVE WorkSound(work')
    BY <1>1, <2>2, BackfillSound
  <2>3. ASSUME NEW S \in SUBSET Candidates(f), NEW c \in S \union {f}, NewGroup(f, row, S, c)
        PROVE  WorkSound(work')
    <3>1. \A p \in S : Stored(p) /\ rows[p].state # "absent"
      BY <1>1
    <3> QED BY <2>3, <3>1, NewGroupSound
  <2>4. CASE Defer(f, row, "later")
    BY <2>4, OutcomeSound
  <2>5. ASSUME NEW cands \in SUBSET Candidates(f), Match(f, row, heavy, cands)
        PROVE  WorkSound(work')
    <3>1. {p \in cands : rows[p].hash = row.hash} \in SUBSET Candidates(f)
      OBVIOUS
    <3> QED BY <2>1, <2>2, <2>3, <2>4, <2>5, <3>1 DEF Match
  <2> QED BY <1>2, <2>4, <2>5, ShortlistIn DEF FindCandidate
<1>3. /\ SoundChange(Change(f, "sized", "canonical", [group |-> g, ready |-> "null"]))
      /\ SoundChange(Change(f, "sized", "hashed", [group |-> g, ready |-> "due"]))
  <2> HIDE DEF g
  <2> QED BY RightChange DEF Lost
<1>4. CASE Decide(Transition(f, "sized", "canonical", [group |-> g, ready |-> "null"],
                             {}, SetCanonical(g, f)))
  <2> HIDE DEF g
  <2> QED BY <1>3, <1>4, DecideSound
<1>5. CASE \/ Move(f, "sized", "canonical", [group |-> g, ready |-> "null"])
           \/ Move(f, "sized", "hashed", [group |-> g, ready |-> "due"])
  <2> HIDE DEF g
  <2> QED BY <1>3, <1>5, MoveSound
<1> QED BY <1>2, <1>4, <1>5 DEF Place

\* sized::buoc, to the read.
LEMMA SizeSound ==
  ASSUME NEW f, Stored(f), NEW row, row.state = "sized", NEW heavy, Size(f, row, heavy),
         \A p \in Files : RowOK(p, rows[p]) /\ Version(p) \in Nat
  PROVE  WorkSound(work')
<1>1. row.state \in Queued
  BY DEF Queued
<1>2. CASE work' = [phase |-> "hash", file |-> f, row |-> row]
  BY <1>2 DEF WorkSound
<1> QED BY <1>1, <1>2, OutcomeSound, PlaceSound DEF Size

\* goc_mat_tich, goc_da_doi.
LEMMA SucceedSound ==
  ASSUME NEW f, Stored(f), NEW g, NEW c, NEW to, NEW patch,
         SoundChange(Change(c, rows[c].state, to, patch)), Succeed(f, g, c, to, patch)
  PROVE  WorkSound(work')
<1>1. SoundChange(Change(f, "hashed", "canonical", [ready |-> "null"]))
  BY RightChange DEF Lost
<1> QED BY <1>1, DecideSound DEF Succeed

\* xac_minh, to the call of the backend.
LEMMA OpenSound ==
  ASSUME NEW f, Stored(f), NEW row, row.state = "hashed", row = rows[f],
         NEW c, Stored(c), rows[c].state # "absent", Open(f, row, c)
  PROVE  WorkSound(work')
<1>1. row.state \in Queued
  BY DEF Queued
<1>2. CASE ~present[c] /\ Succeed(f, row.group, c, "missing", [prev |-> rows[c].state, ready |-> "null"])
  BY <1>2, RightChange, SucceedSound
<1>3. CASE Succeed(f, row.group, c, "settling", [hash |-> NoHash, group |-> 0, ready |-> "later"])
  BY <1>3, RightChange, SucceedSound DEF Lost
<1>4. CASE work' = [phase |-> "compare", file |-> f, row |-> row,
                    peer |-> c, peerRow |-> rows[c]]
  BY <1>4 DEF WorkSound
<1> QED BY <1>1, <1>2, <1>3, <1>4, OutcomeSound DEF Open

\* verify::buoc, to the call of the backend.
LEMMA VerifySound ==
  ASSUME NEW f, Stored(f), NEW row, row.state = "hashed", row = rows[f], NEW heavy,
         Verify(f, row, heavy), AbsentIsGroupless,
         \A p \in Files : RowOK(p, rows[p]) /\ Version(p) \in Nat
  PROVE  WorkSound(work')
<1> DEFINE g == row.group
           c == CanonicalOf(rows, groups, g)
<1>1. /\ row.state \in Queued
      /\ SoundChange(Change(f, "hashed", "sized", [ready |-> "due"]))
      /\ SoundChange(Change(f, "hashed", "canonical", [ready |-> "null"]))
      /\ SoundChange(Change(f, "hashed", "hashed", [skip |-> "parked", ready |-> "null"]))
  BY RightChange DEF Queued, Lost
<1>2. CASE Decide(Transition(f, "hashed", "canonical", [ready |-> "null"],
                             {}, SetCanonical(g, f)))
  <2> HIDE DEF g
  <2> QED BY <1>1, <1>2, DecideSound
<1>3. CASE Open(f, row, c) /\ g # 0 /\ c # NoFile
  <2>1. c \in Files /\ rows[c].group = g
    BY <1>3 DEF CanonicalOf, Members
  <2>2. rows[c].state # "absent" /\ Stored(c)
    BY <1>3, <2>1, RowStored DEF AbsentIsGroupless
  <2> HIDE DEF c
  <2> QED BY <1>3, <2>2, OpenSound
<1>4. CASE Stay(f, row, [skip |-> "parked", ready |-> "null"])
  BY <1>1, <1>4, MoveSound DEF Stay
<1> QED BY <1>1, <1>2, <1>3, <1>4, OutcomeSound, MoveSound DEF Verify

\* tinh_hash: the hash is that of the version the file has now ...
LEMMA HashedSound ==
  ASSUME NEW f, Stored(f), NEW row, row.state = "sized", Hashed(f, row)
  PROVE  WorkSound(work')
<1>1. CASE Version(f) # row.fp
  <2>1. row.state \in Queued
    BY DEF Queued
  <2> QED BY <1>1, <2>1, OutcomeSound DEF Hashed
<1>2. CASE Version(f) = row.fp
  <2> DEFINE p == [hash |-> HashOf[Body(f, row.fp)], hws |-> "no", ready |-> "due"]
             c == Change(f, "sized", "sized", p)
  <2>1. /\ p.hash = HashOf[Body(f, Version(f))]
        /\ "hash" \in DOMAIN p /\ "fp" \notin DOMAIN p
        /\ c.file = f /\ c.from = "sized" /\ c.to = "sized" /\ c.patch = p
    BY <1>2 DEF Change
  <2>2. Move(f, "sized", "sized", p)
    BY <1>2 DEF Hashed, Stay
  <2> HIDE DEF p, c
  <2>3. SoundChange(c)
    BY <2>1 DEF SoundChange, Lost
  <2> QED BY <2>2, <2>3, MoveSound DEF c
<1> QED BY <1>1, <1>2

\* ... and backfill's too, or the row of the candidate is not about that.
LEMMA BackfilledSound ==
  ASSUME NEW f, Stored(f), NEW p, Stored(p), NEW old, old.state \in {"sized", "distinct"},
         Fixed(rows[p]) => rows[p].fp = old.fp, Backfilled(f, p, old)
  PROVE  WorkSound(work')
<1>1. PICK h \in ReadHash(p, old.fp) :
        Decide(Transition(f, "sized", "sized", [ready |-> "due", hws |-> "no"],
                          {Change(p, old.state, old.state, [hash |-> h])}, NoOp))
  BY DEF Backfilled
<1>2. SoundChange(Change(f, "sized", "sized", [ready |-> "due", hws |-> "no"]))
  BY RightChange DEF Lost
<1>3. SoundChange(Change(p, old.state, old.state, [hash |-> h]))
  <2>1. Version(p) = old.fp => h = HashOf[Body(p, Version(p))]
    BY <1>1 DEF ReadHash
  <2> QED BY <2>1 DEF SoundChange, Change, Lost
<1> QED BY <1>1, <1>2, <1>3, DecideSound

\* giong_nhau writes the fingerprint the row has.
LEMMA SameSound ==
  ASSUME NEW f, Stored(f), NEW row, Reached(f, row.fp),
         Fixed(rows[f]) => rows[f].fp = row.fp, Same(f, row)
  PROVE  WorkSound(work')
<1>1. ASSUME NEW to \in Proven
      PROVE  SoundChange(Change(f, "hashed", to, [fp |-> row.fp, ready |-> "null", attempts |-> 0]))
  BY <1>1 DEF SoundChange, Change, Proven, Lost
<1> QED BY <1>1, MoveSound DEF Same, Proven

\* khac_nhau, xu_ly_loi.
LEMMA VerdictSound ==
  ASSUME NEW f, Stored(f), NEW row, row.state = "hashed",
         Differs(f, row) \/ \E policy \in Policies : BackendError(f, row, policy)
  PROVE  WorkSound(work')
<1>1. row.state \in Queued
  BY DEF Queued
<1>2. CASE Differs(f, row)
  <2>1. ASSUME NEW g, Stay(f, row, [group |-> g, ready |-> "due"]) PROVE WorkSound(work')
    BY <2>1, RightChange, MoveSound DEF Stay, Lost
  <2>2. SoundChange(Change(f, "hashed", "canonical", [group |-> 0, ready |-> "null"]))
    BY RightChange DEF Lost
  <2> QED BY <1>2, <2>1, <2>2, DecideSound DEF Differs
<1>3. ASSUME NEW policy \in Policies, BackendError(f, row, policy) PROVE WorkSound(work')
  <2> DEFINE n == Counted(row.attempts)
  <2>1. ASSUME NEW k, NEW skip,
               \/ Move(f, "hashed", "settling", [attempts |-> k, skip |-> skip,
                       hash |-> NoHash, group |-> 0, ready |-> "later"])
               \/ Stay(f, row, [attempts |-> k, ready |-> "later"])
        PROVE  WorkSound(work')
    BY <2>1, RightChange, MoveSound DEF Stay, Lost
  <2>2. CASE Stay(f, row, [skip |-> "parked", ready |-> "null"])
    BY <2>2, RightChange, MoveSound DEF Stay, Lost
  <2>3. CASE Move(f, "hashed", "sized", [group |-> 0, skip |-> "other", ready |-> "due"])
    BY <2>3, RightChange, MoveSound DEF Lost
  <2>4. CASE Move(f, "hashed", "failed", [ready |-> "null"])
    BY <2>4, RightChange, MoveSound DEF Lost
  <2> QED BY <1>1, <1>3, <2>1, <2>2, <2>3, <2>4, OutcomeSound DEF BackendError, Policies
<1> QED BY <1>2, <1>3

\* Whatever the worker takes or finishes, it holds what is right.
LEMMA WorkSoundStep ==
  ASSUME IInv, WorkTimely(work), HashInv,
         {"unskip", "return"} \cap Moves = {}, ~({"move_in", "purge"} \subseteq Moves),
         [Next]_vars
  PROVE  WorkSound(work)'
<1>1. /\ TypeOK /\ WorkOK(work) /\ WorkSound(work) /\ Grows /\ AbsentIsGroupless
      /\ \A f \in Files : rows[f] \in Row /\ RowOK(f, rows[f]) /\ Version(f) \in Nat
  BY StepGrows DEF IInv, TypeOK, HashInv, Grows
<1>2. CASE work' = Idle
  BY <1>2 DEF WorkSound, Idle
<1>3. CASE work' = work /\ work # Idle
  <2>1. ~Commit
    BY <1>3 DEF Commit, Idle
  <2>2. \A f \in Files : Onward(f)
    BY <1>1, <2>1, RowsStep, AwayStays DEF Onward, Grows
  <2>3. "purge" \notin Moves \/ seen["scheduler"].by # "insert"
    BY <1>3 DEF HashInv, BootOK, ScanOver
  <2> QED BY <1>1, <1>3, <2>2, <2>3, WorkSoundStays
<1>4. ASSUME WorkSound(work'), UNCHANGED <<history, present, rows>> PROVE WorkSound(work)'
  BY <1>4 DEF WorkSound, SoundChange, Stored, Fixed, RowOK, Reached, Version, Body
<1>5. ASSUME NEW f \in Files, NEW heavy \in HeavyAllowed, Take(f, heavy) PROVE WorkSound(work')
  <2>1. /\ rows[f].state \in Queued /\ rows[f].state # "absent" /\ Stored(f)
        /\ rows[f].state \in {"settling", "sized", "hashed"}
    BY <1>1, <1>5, RowStored DEF Take, IsReady, Queued
  <2> QED BY <1>1, <1>5, <2>1, SettleSound, SizeSound, VerifySound, OutcomeSound DEF Take
<1>6. ASSUME FinishSettle \/ FinishHash \/ FinishBackfill PROVE WorkSound(work')
  <2>1. work.row.state \in Queued /\ work.file \in Files /\ Stored(work.file)
    BY <1>1, <1>6 DEF FinishSettle, FinishHash, FinishBackfill, WorkOK, QueuedRow, Idle, WorkSound
  <2>2. PICK f \in Files, row \in {work.row} :
          f = work.file /\ row.state \in Queued /\ Stored(f) /\ Version(f) \in Nat
    BY <1>1, <2>1
  <2>3. CASE FinishSettle
    <3>1. row.state = "settling" /\ rows[f].hash = NoHash
      BY <1>1, <2>2, <2>3 DEF FinishSettle, WorkSound
    <3>2. SettleOpened(f, row)
      BY <2>2, <2>3 DEF FinishSettle
    <3> QED BY <2>2, <3>1, <3>2, SettleOpenedSound
  <2>4. CASE FinishHash
    <3>1. row.state = "sized"
      BY <1>1, <2>2, <2>4 DEF FinishHash, WorkSound
    <3>2. Hashed(f, row) \/ Retry(f, row)
      BY <2>2, <2>4 DEF FinishHash
    <3> QED BY <2>2, <3>1, <3>2, HashedSound, OutcomeSound
  <2>5. CASE FinishBackfill
    <3>1. work.peerRow.state \in {"sized", "distinct"} /\ work.phase = "backfill"
      BY <1>1, <2>5 DEF FinishBackfill, WorkOK, Idle
    <3>2. PICK p \in {work.peer}, old \in {work.peerRow} :
            /\ Stored(p) /\ old.state \in {"sized", "distinct"}
            /\ Fixed(rows[p]) => rows[p].fp = old.fp
      BY <1>1, <3>1 DEF WorkSound
    <3>3. Backfilled(f, p, old) \/ Retry(f, row)
      BY <2>2, <2>5, <3>2 DEF FinishBackfill
    <3> QED BY <2>2, <3>2, <3>3, BackfilledSound, OutcomeSound
  <2> QED BY <1>6, <2>3, <2>4, <2>5
<1>7. ASSUME FinishSame \/ FinishDiffers \/ FinishError PROVE WorkSound(work')
  <2>1. /\ work.phase = "compare" /\ Stored(work.file) /\ work.row.state = "hashed"
        /\ Fixed(rows[work.file]) => rows[work.file].fp = work.row.fp
    BY <1>1, <1>7 DEF FinishSame, FinishDiffers, FinishError, WorkSound
  <2>2. Reached(work.file, work.row.fp)
    BY <1>1, <2>1 DEF WorkOK, Idle
  <2>3. PICK f \in {work.file}, row \in {work.row} :
          /\ Stored(f) /\ row.state = "hashed" /\ Reached(f, row.fp)
          /\ Fixed(rows[f]) => rows[f].fp = row.fp
    BY <2>1, <2>2
  <2>4. CASE FinishSame
    <3>1. Same(f, row)
      BY <2>3, <2>4 DEF FinishSame
    <3> QED BY <2>3, <3>1, SameSound
  <2>5. CASE FinishDiffers \/ FinishError
    <3>1. Differs(f, row) \/ \E policy \in Policies : BackendError(f, row, policy)
      BY <2>3, <2>5 DEF FinishDiffers, FinishError
    <3> QED BY <2>3, <3>1, VerdictSound
  <2> QED BY <1>7, <2>4, <2>5
<1>8. \/ UNCHANGED <<history, present, rows>>
      \/ ~(\/ \E f \in Files, heavy \in HeavyAllowed : Take(f, heavy)
           \/ FinishSettle \/ FinishHash \/ FinishBackfill
           \/ FinishSame \/ FinishDiffers \/ FinishError)
  BY DEF Take, FinishSettle, FinishHash, FinishBackfill,
         FinishSame, FinishDiffers, FinishError, disk, db
<1> QED BY <1>2, <1>3, <1>4, <1>5, <1>6, <1>7, <1>8, WorkFates

\* A thread only sees what is there.
LEMMA SeenStep ==
  ASSUME IInv, SeenOK, [Next]_vars PROVE SeenOK'
<1>1. /\ TypeOK /\ Grows /\ DOMAIN seen = Threads /\ Threads = {"watcher", "scheduler"}
      /\ \A f \in Files : present[f] => Version(f) > 0
  BY StepGrows DEF IInv, TypeOK, Born, Threads
<1>2. ASSUME NEW t \in Threads, seen'[t] = seen[t], seen'[t] # Nothing
      PROVE  Reached(seen[t].file, seen[t].fp)'
  <2>1. PICK f \in Files : seen[t].file = f
    BY <1>1, <1>2 DEF TypeOK, SeenEntry, Nothing
  <2>2. seen[t].fp \in 1..Len(history[f])
    BY <1>2, <2>1 DEF SeenOK, Reached, Version
  <2>3. Len(history[f]) \in Nat /\ Len(history'[f]) \in Nat /\ Len(history[f]) <= Len(history'[f])
    BY <1>1, <2>1 DEF Grows, Version
  <2>4. seen[t].fp \in 1..Len(history'[f])
    BY <2>2, <2>3
  <2> QED BY <1>2, <2>1, <2>4 DEF Reached, Version
<1>3. CASE seen' = seen
  BY <1>2, <1>3 DEF SeenOK
<1>4. ASSUME NEW u \in Threads, NEW e, See(u, e), e = Nothing \/ Reached(e.file, e.fp)'
      PROVE  SeenOK'
  <2>1. seen'[u] = e /\ \A t \in Threads \ {u} : seen'[t] = seen[t]
    BY <1>1, <1>4 DEF See
  <2>2. seen'[u] # Nothing => Reached(seen[u].file, seen[u].fp)'
    BY <1>4, <2>1 DEF Reached, Version
  <2> QED BY <1>2, <2>1, <2>2 DEF SeenOK
<1>5. ASSUME NEW u \in Threads, Drop(u) PROVE SeenOK'
  BY <1>4, <1>5 DEF Drop
<1>6. ASSUME NEW f \in Files, present[f], history' = history, NEW u \in Threads, NEW e,
             e.file = f, e.fp = Version(f), See(u, e)
      PROVE  SeenOK'
  <2>1. Reached(e.file, e.fp)'
    BY <1>1, <1>6 DEF Reached, Version, Grows
  <2> QED BY <1>4, <1>6, <2>1
<1>7. ASSUME NEW f \in Files, \/ WatchTouched(f) \/ WatchMovedOut(f)
                              \/ WalkSee(f) \/ ReconcileSee(f) \/ PresenceSee(f)
      PROVE  SeenOK'
  <2> DEFINE up  == [by |-> "upsert", file |-> f, fp |-> Version(f)]
             rec == [by |-> "upsert", file |-> f, fp |-> Version(f), fresh |-> fresh[f]]
             ins == [by |-> "insert", file |-> f, fp |-> Version(f), fresh |-> fresh[f]]
             pre == [by |-> "presence", file |-> f, fp |-> Version(f)]
  <2>1. /\ up.file = f /\ up.fp = Version(f) /\ rec.file = f /\ rec.fp = Version(f)
        /\ ins.file = f /\ ins.fp = Version(f) /\ pre.file = f /\ pre.fp = Version(f)
    OBVIOUS
  <2>2. /\ history' = history
        /\ \/ seen' = seen
           \/ /\ present[f]
              /\ See("watcher", up) \/ See("scheduler", rec) \/ See("scheduler", ins)
                 \/ See("scheduler", pre)
    BY <1>7 DEF WatchTouched, WatchMovedOut, WalkSee, ReconcileSee, PresenceSee, disk
  <2> HIDE DEF up, rec, ins, pre
  <2> QED BY <1>1, <1>3, <1>6, <2>1, <2>2
<1>8. CASE Crash
  BY <1>8 DEF Crash, SeenOK
<1>9. CASE WatchCommit \/ WalkInsert \/ ReconcileCommit \/ PresenceCommit
  BY <1>1, <1>5, <1>9 DEF WatchCommit, WalkInsert, ReconcileCommit, PresenceCommit
<1>10. \/ seen' = seen \/ Crash \/ WatchCommit \/ WalkInsert \/ ReconcileCommit \/ PresenceCommit
       \/ \E f \in Files : \/ WatchTouched(f) \/ WatchMovedOut(f)
                           \/ WalkSee(f) \/ ReconcileSee(f) \/ PresenceSee(f)
  BY DEF Next, Environment, Write, MoveIn, Vanish, Return, Age, FallDue, Overdue,
     Watcher, WatchRemoved, Walk, ScanPhaseB,
     Scheduler, PresenceFinish, Expire, Purge, Unskip, Requeue,
     Worker, Take, Finish, FinishSettle, FinishHash, FinishBackfill, FinishSame,
     FinishDiffers, FinishError, Commit, vars
<1> QED BY <1>3, <1>7, <1>8, <1>9, <1>10

\* An unlinked file stays away.
LEMMA RemovedStep ==
  ASSUME IInv, "return" \notin Moves, [Next]_vars, NEW f \in Files, RemovedOK(f), EventsOK(f)
  PROVE  RemovedOK(f)'
<1>1. TypeOK /\ pending[f] \in Seq({"touched", "removed", "moved_out"})
  BY DEF IInv, TypeOK
<1>2. ASSUME pending'[f] = pending[f] PROVE RemovedOK(f)'
  <2>1. CASE pending[f] = <<>>
    BY <1>2, <2>1 DEF RemovedOK
  <2>2. CASE pending[f] # <<>>
    <3>1. present'[f] => present[f]
      BY <1>1, <2>2, AwayStays DEF EventsOK
    <3> QED BY <1>2, <3>1 DEF RemovedOK
  <2> QED BY <2>1, <2>2
<1>3. ASSUME NEW g \in Files, NEW ev, TakeEvent(g, ev), present' = present PROVE RemovedOK(f)'
  <2>1. CASE g # f
    BY <1>1, <1>2, <1>3, <2>1, TakenLast
  <2>2. CASE g = f
    <3>1. pending'[f] = Tail(pending[f]) /\ pending[f] # <<>>
      BY <1>1, <1>3, <2>2 DEF TakeEvent, TypeOK
    <3>2. ASSUME NEW i \in 1..Len(Tail(pending[f]))
          PROVE  i + 1 \in 1..Len(pending[f]) /\ Tail(pending[f])[i] = pending[f][i + 1]
      BY <1>1, <3>1
    <3> QED BY <1>3, <3>1, <3>2 DEF RemovedOK
  <2> QED BY <2>1, <2>2
<1>4. ASSUME NEW g \in Files, NEW ev, Announce(g, ev),
             g = f => ~present'[f] \/ (ev # "removed" /\ (present'[f] => present[f]))
      PROVE  RemovedOK(f)'
  <2>1. CASE g # f
    BY <1>1, <1>2, <1>4, <2>1, AnnouncedLast
  <2>2. CASE g = f
    <3> DEFINE q == pending[f]
    <3>1. pending'[f] = q \/ pending'[f] = Append(q, ev)
      BY <1>1, <1>4, <2>2 DEF Announce, TypeOK
    <3>5. q \in Seq({"touched", "removed", "moved_out"})
      BY <1>1
    <3> HIDE DEF q
    <3>2. ASSUME NEW i \in 1..Len(Append(q, ev))
          PROVE  Append(q, ev)[i] = ev \/ (i \in 1..Len(q) /\ Append(q, ev)[i] = q[i])
      BY <3>2, <3>5
    <3>3. CASE pending'[f] = q
      BY <1>2, <3>3 DEF q
    <3>4. CASE pending'[f] = Append(q, ev)
      BY <1>4, <2>2, <3>2, <3>4 DEF RemovedOK, q
    <3> QED BY <3>1, <3>3, <3>4
  <2> QED BY <2>1, <2>2
<1>5. ASSUME NEW g \in Files, Write(g) \/ Vanish(g) PROVE RemovedOK(f)'
  BY <1>1, <1>4, <1>5 DEF Write, Vanish, TypeOK
<1>6. ASSUME NEW g \in Files, MoveIn(g) PROVE RemovedOK(f)'
  BY <1>2, <1>6 DEF MoveIn
<1>7. ASSUME NEW g \in Files, WatchTouched(g) \/ WatchRemoved(g) \/ WatchMovedOut(g)
      PROVE  RemovedOK(f)'
  BY <1>3, <1>7 DEF WatchTouched, WatchRemoved, WatchMovedOut, disk
<1>8. CASE Crash
  BY <1>8 DEF Crash, RemovedOK
<1>9. ~\E g \in Files : Return(g)
  BY DEF Return
<1> QED BY <1>2, <1>5, <1>6, <1>7, <1>8, <1>9, DiskFates

\* The worker starts after the initial scan, which does not start again.
LEMMA BootStep == ASSUME IInv, BootOK, [Next]_vars PROVE BootOK'
<1>1. work' # Idle => boot'.phase = "done"
  <2>1. boot'.phase = boot.phase \/ boot'.phase = "done"
    <3>1. boot \in [phase : {"A", "done"}, left : SUBSET Files]
      BY DEF IInv, TypeOK
    <3>2. ASSUME NEW f \in Files, MoveIn(f) \/ WalkSee(f) PROVE boot'.phase = boot.phase
      BY <3>1, <3>2 DEF MoveIn, WalkSee
    <3>3. CASE Crash \/ ScanPhaseB
      BY <3>1, <3>3 DEF Crash, ScanPhaseB
    <3>4. \/ boot' = boot \/ Crash \/ ScanPhaseB \/ \E f \in Files : MoveIn(f) \/ WalkSee(f)
      BY DEF Next, Environment, Write, Vanish, Return, Age, FallDue, Overdue,
         Watcher, WatchTouched, WatchRemoved, WatchMovedOut, WatchCommit,
         Walk, WalkInsert, ReconcileCommit, PresenceCommit,
         Scheduler, ReconcileSee, PresenceSee, PresenceFinish, Expire, Purge, Unskip, Requeue,
         Worker, Take, Finish, FinishSettle, FinishHash, FinishBackfill, FinishSame,
         FinishDiffers, FinishError, Commit, vars
    <3> QED BY <3>2, <3>3, <3>4
  <2>2. CASE boot.phase = "done"
    BY <2>1, <2>2
  <2>3. CASE work = Idle /\ boot.phase # "done"
    BY <2>3, WorkFates DEF Take, FinishSettle, FinishHash, FinishBackfill, FinishSame,
       FinishDiffers, FinishError, Idle
  <2> QED BY <2>2, <2>3 DEF BootOK
<1>2. "move_in" \notin Moves => ScanOver'
  BY ScanOverStep DEF BootOK
<1> QED BY <1>1, <1>2 DEF BootOK

\* The steps of all threads keep the invariant.
LEMMA HashesKept ==
  ASSUME {"unskip", "return"} \cap Moves = {}, ~({"move_in", "purge"} \subseteq Moves)
  PROVE  Spec => [](WorkTimely(work) /\ HashInv)
<1>1. Init => WorkTimely(work) /\ HashInv
  <2> SUFFICES ASSUME Init PROVE WorkTimely(work) /\ HashInv
    OBVIOUS
  <2>1. work = Idle /\ WorkTimely(work) /\ WorkSound(work)
    BY DEF Init, WorkTimely, WorkCalm, WorkSound, Idle
  <2>2. SeenOK /\ BootOK
    BY DEF Init, SeenOK, BootOK, ScanOver, Nothing, Threads
  <2>3. ASSUME NEW f \in Files PROVE RowOK(f, rows[f]) /\ RemovedOK(f) /\ EventsOK(f)
    <3>1. RowOK(f, rows[f])
      BY DEF Init, RowOK, NoRow, BlankRow, Lost
    <3>2. history[f] \in Seq(Contents) /\ (present[f] => Len(history[f]) > 0)
      BY InitInv DEF IInv, TypeOK, Born, Version
    <3>3. pending[f] # <<>> => present[f] /\ pending[f] = <<"touched">>
      BY DEF Init
    <3> QED BY <3>1, <3>2, <3>3 DEF RemovedOK, EventsOK, Version
  <2> QED BY <2>1, <2>2, <2>3 DEF HashInv
<1>2. IInv /\ WorkTimely(work) /\ HashInv /\ [Next]_vars => WorkTimely(work)' /\ HashInv'
  <2> SUFFICES ASSUME IInv, WorkTimely(work), HashInv, [Next]_vars
               PROVE  WorkTimely(work)' /\ HashInv'
    OBVIOUS
  <2>1. WorkTimely(work)' /\ WorkSound(work)'
    BY WorkTimelyStep, WorkSoundStep
  <2>2. SeenOK' /\ BootOK'
    BY SeenStep, BootStep DEF HashInv
  <2>3. \A f \in Files : RemovedOK(f)' /\ EventsOK(f)'
    BY RemovedStep, EventsStep DEF HashInv
  <2>4. \A f \in Files : RowOK(f, rows[f])'
    <3>1. CASE Commit
      BY <3>1, CommitRowOK
    <3>2. CASE ~Commit
      <4>1. ASSUME NEW f \in Files PROVE Onward(f)
        BY <3>2, RowsStep, AwayStays, StepGrows DEF Onward, Grows, IInv, HashInv
      <4> QED BY <4>1, RowOKStays DEF IInv
    <3> QED BY <3>1, <3>2
  <2> QED BY <2>1, <2>2, <2>3, <2>4 DEF HashInv
<1> QED BY <1>1, <1>2, Invariance, PTL DEF Spec

\* A hash kept for a version is the hash of that version, however writes fall
\* between the reads of the worker and its transactions.  Excepted are an
\* unskip, which settles a row anew with the hash it had (sized.rs:23), a file
\* that returns after its row was given up twice (verify.rs:378), and a row
\* that is purged and inserted again under the same id while the worker still
\* holds what it read.
THEOREM HashesAreSound ==
  ASSUME {"unskip", "return"} \cap Moves = {}, ~({"move_in", "purge"} \subseteq Moves)
  PROVE  Spec => []HashSound
<1>1. HashInv => HashSound
  BY DEF HashInv, RowOK, HashSound
<1> QED BY <1>1, HashesKept, PTL

(* --------------------------- nothing forgotten ------------------------ *)

\* The fingerprint of the row is relied on without another look at the file:
\* also when a peer brings the hash of both together (tao_nhom).
Settled(row) ==
  \/ row.state \in {"hashed"} \union Resting
  \/ row.state = "sized" /\ (row.hash # NoHash \/ row.ready = "null")

\* A settling row has a deadline, whatever became of the scan.
Waits(row) == row.state = "settling" => row.ready # "null"

\* A file without a row is on its way to one ...
Coming(f) ==
  present[f] /\ rows[f].state = "absent" =>
    \/ f \in boot.left \/ Tracked(f)
    \/ seen["scheduler"].by \in {"insert", "upsert"} /\ seen["scheduler"].file = f

\* ... and the row it will get from a walk tells its version.
InsertOwed(f) ==
  /\ seen["scheduler"].by = "insert" /\ seen["scheduler"].file = f
  /\ present[f] /\ rows[f].state = "absent"
  => seen["scheduler"].fp = Version(f) \/ Tracked(f)

\* While f is sized, it owes nothing.
SizedOwed(f) == rows[f].state = "sized" => Owed(f)

\* A change settles only what was settled, or a sized row that owes nothing;
\* it sets a fingerprint only where it settles, or takes the row back to that.
KnownChange(c) ==
  /\ c.from \in Lost => c.to = "missing"
  /\ c.from = "settling" =>
       /\ c.to \in {"settling", "sized", "missing"}
       /\ "hash" \in DOMAIN c.patch => c.patch.hash = NoHash
  /\ /\ c.from = "sized"
     /\ c.to \in {"hashed"} \union Resting \/ (c.to = "sized" /\ "hash" \in DOMAIN c.patch)
     => SizedOwed(c.file)
  /\ "fp" \in DOMAIN c.patch =>
       c.to \in Proven \union {"settling"} \/ (c.from = "settling" /\ c.to = "sized")

\* What the worker holds leads to such changes.
WorkKnown(w) ==
  /\ w.phase = "hash" => SizedOwed(w.file)
  /\ w.phase = "backfill" => SizedOwed(w.peer)
  /\ w.phase = "commit" => KnownChange(w.t.self) /\ \A c \in w.t.others : KnownChange(c)

KnownInv ==
  /\ WorkKnown(work)
  /\ \A f \in Files : /\ Coming(f) /\ InsertOwed(f) /\ (Settled(rows[f]) => Owed(f))
                      /\ Waits(rows[f])

(* The rows, under the steps of all but the worker. *)

\* A row that is no more settled than it was.
Kept(old, new) ==
  /\ Settled(new) => Settled(old) /\ new.fp = old.fp
  /\ new.state = "sized" => old.state = "sized" /\ new.fp = old.fp
  /\ new.state = "absent" => old.state = "absent"

\* A row that a walk inserts.
Inserted(f, old, new) ==
  /\ old.state = "absent" /\ seen["scheduler"].by = "insert" /\ seen["scheduler"].file = f
  /\ new.fp = seen["scheduler"].fp /\ new.state \in {"settling", "sized"}

\* What a step of another thread may do to the row of f, unless f was away.
KnownStep(f, old, new) ==
  /\ Waits(old) => Waits(new)
  /\ old.state \in Lost \/ Kept(old, new) \/ Inserted(f, old, new)

LEMMA SameKnown == ASSUME NEW f, NEW row PROVE KnownStep(f, row, row)
BY DEF KnownStep, Kept

\* An upsert settles no row, and leaves it settled only in the version seen.
LEMMA UpsertKnown ==
  ASSUME NEW f, NEW row \in Row, row.skip # "user_undo", NEW v \in Nat,
         NEW ready \in {"due", "later"}
  PROVE  /\ KnownStep(f, row, UpsertRow(row, v, ready))
         /\ UpsertRow(row, v, ready).state # "absent"
         /\ /\ row.state \notin Lost
            /\ Settled(UpsertRow(row, v, ready)) \/ UpsertRow(row, v, ready).state = "sized"
            => UpsertRow(row, v, ready).fp = v
<1> DEFINE new == UpsertRow(row, v, ready)
<1>1. CASE row.state = "absent"
  <2>1. new.state = "settling" /\ new.ready = ready
    BY <1>1 DEF UpsertRow, NewRow, BlankRow
  <2> HIDE DEF new
  <2>2. KnownStep(f, row, new) /\ new.state # "absent" /\ ~Settled(new)
    BY <2>1 DEF KnownStep, Kept, Waits, Settled, Resting, Proven
  <2> QED BY <2>1, <2>2 DEF new
<1>2. CASE row.state # "absent"
  <2>1. new = Upserted(row, v, ready)
    BY <1>2 DEF UpsertRow
  <2>2. /\ new.fp = row.fp
        /\ new.state = IF row.state = "missing" /\ row.fp = v THEN RestoreTarget(row.prev)
                       ELSE IF row.fp = v THEN row.state ELSE "settling"
        /\ new.hash = IF row.fp = v THEN row.hash ELSE NoHash
        /\ row.state = "sized" => new.ready = ready
        /\ new.state = "settling" => new.ready = ready
    <3>1. row.state \in State
      BY <1>2 DEF Row
    <3> QED BY <2>1, <3>1 DEF Upserted, Row, RestoreTarget, State, Queued, Resting, Proven, Lost
  <2> HIDE DEF new
  <2>3. new.state # "absent" /\ Waits(new)
    BY <1>2, <2>2 DEF Waits, RestoreTarget, Queued, Resting, Proven
  <2>4. ASSUME row.state \notin Lost PROVE Kept(row, new)
    BY <2>2, <2>3, <2>4 DEF Kept, Settled, Lost, Resting, Proven
  <2>5. ASSUME row.state \notin Lost, Settled(new) \/ new.state = "sized" PROVE new.fp = v
    BY <2>2, <2>5 DEF Settled, Lost, Resting, Proven
  <2> QED BY <2>3, <2>4, <2>5 DEF KnownStep, new
<1> QED BY <1>1, <1>2
\* mark_missing settles nothing.
LEMMA MarkedKnown == ASSUME NEW f, NEW row \in Row PROVE KnownStep(f, row, MarkedMissing(row))
<1>1. CASE row.state \in Lost \union {"absent"}
  BY <1>1, SameKnown DEF MarkedMissing
<1>2. CASE row.state \notin Lost \union {"absent"}
  <2>1. MarkedMissing(row).state = "missing"
    BY <1>2 DEF MarkedMissing, Row
  <2> QED BY <2>1 DEF KnownStep, Kept, Waits, Settled, Resting, Proven
<1> QED BY <1>1, <1>2

\* Every step but the commit of the worker leaves the rows to such steps.
LEMMA KnownRows ==
  ASSUME IInv, NoUndo, "unskip" \notin Moves, [Next]_vars
  PROVE  Commit \/ \A f \in Files : KnownStep(f, rows[f], rows'[f])
<1>1. /\ TypeOK /\ rows \in [Files -> Row]
      /\ \A f \in Files : rows[f] \in Row /\ rows[f].skip # "user_undo"
  BY DEF IInv, TypeOK, NoUndo
<1>2. ASSUME rows' = rows PROVE \A f \in Files : KnownStep(f, rows[f], rows'[f])
  BY <1>2, SameKnown
<1>3. ASSUME NEW f \in Files, NEW row, rows' = [rows EXCEPT ![f] = row],
             KnownStep(f, rows[f], row)
      PROVE  \A g \in Files : KnownStep(g, rows[g], rows'[g])
  BY <1>1, <1>3, SameKnown
<1>4. ASSUME NEW t \in Threads, seen[t].by # "nothing"
      PROVE  seen[t].file \in Files /\ seen[t].fp \in Nat
  BY <1>1, <1>4 DEF TypeOK, SeenEntry, Nothing
<1>5. ASSUME NEW f \in Files, NEW v \in Nat, NEW ready \in {"due", "later"}, Upsert(f, v, ready)
      PROVE  \A g \in Files : KnownStep(g, rows[g], rows'[g])
  BY <1>1, <1>3, <1>5, UpsertKnown DEF Upsert
<1>6. ASSUME NEW f \in Files, FallDue(f) \/ Overdue(f) \/ Expire(f) \/ Requeue(f) \/ Purge(f)
      PROVE  \A g \in Files : KnownStep(g, rows[g], rows'[g])
  <2>1. CASE FallDue(f) \/ Overdue(f)
    <3>1. PICK row : /\ \/ row = [rows[f] EXCEPT !.ready = "due"]
                        \/ row = [rows[f] EXCEPT !.hws = "overdue"]
                     /\ rows' = [rows EXCEPT ![f] = row]
      BY <2>1 DEF FallDue, Overdue
    <3>2. /\ row.state = rows[f].state /\ row.fp = rows[f].fp /\ row.hash = rows[f].hash
          /\ row.ready \in {"due", rows[f].ready}
      BY <1>1, <3>1 DEF Row
    <3>3. KnownStep(f, rows[f], row)
      BY <3>2 DEF KnownStep, Kept, Waits, Settled
    <3> QED BY <1>3, <3>1, <3>3
  <2>2. CASE Expire(f)
    <3> DEFINE row == [rows[f] EXCEPT !.state = "gone"]
    <3>1. rows' = [rows EXCEPT ![f] = row] /\ rows[f].state = "missing"
      BY <2>2 DEF Expire
    <3>2. row.state = "gone"
      BY <1>1 DEF Row
    <3> HIDE DEF row
    <3>3. KnownStep(f, rows[f], row)
      BY <3>1, <3>2 DEF KnownStep, Waits, Lost
    <3> QED BY <1>3, <3>1, <3>3
  <2>3. CASE Requeue(f)
    <3> DEFINE half == [rows[f] EXCEPT !.state = "hashed"]
               row  == [half EXCEPT !.ready = "due"]
    <3>1. rows' = [rows EXCEPT ![f] = row] /\ rows[f].state = "verified"
      BY <2>3, Zenon DEF Requeue
    <3>2. half.state = "hashed" /\ half.fp = rows[f].fp
      BY <1>1 DEF Row
    <3> HIDE DEF half
    <3>3. row.state = half.state /\ row.fp = half.fp
      OBVIOUS
    <3> HIDE DEF row
    <3>4. KnownStep(f, rows[f], row)
      BY <3>1, <3>2, <3>3 DEF KnownStep, Kept, Waits, Settled, Resting, Proven
    <3> QED BY <1>3, <3>1, <3>4
  <2>4. CASE Purge(f)
    <3>1. rows' = [rows EXCEPT ![f] = NoRow] /\ rows[f].state = "gone"
      BY <2>4 DEF Purge
    <3>2. KnownStep(f, rows[f], NoRow)
      BY <3>1 DEF NoRow, BlankRow, KnownStep, Waits, Lost
    <3> QED BY <1>3, <3>1, <3>2
  <2> QED BY <1>6, <2>1, <2>2, <2>3, <2>4
<1>7. ASSUME NEW f \in Files, WatchRemoved(f) \/ WatchMovedOut(f) \/ PresenceFinish(f)
      PROVE  \A g \in Files : KnownStep(g, rows[g], rows'[g])
  <2>1. rows' = rows \/ rows' = [rows EXCEPT ![f] = MarkedMissing(rows[f])]
    BY <1>7 DEF WatchRemoved, WatchMovedOut, PresenceFinish
  <2> QED BY <1>1, <1>2, <1>3, <2>1, MarkedKnown
<1>8. CASE WatchCommit
  <2>1. seen["watcher"].by # "nothing" /\ "watcher" \in Threads
    BY <1>1, <1>8 DEF WatchCommit, TypeOK, SeenEntry, Nothing, Threads
  <2> QED BY <1>4, <1>5, <1>8, <2>1 DEF WatchCommit
<1>9. CASE ReconcileCommit \/ PresenceCommit
  <2>1. seen["scheduler"].file \in Files /\ seen["scheduler"].fp \in Nat
    BY <1>4, <1>9 DEF ReconcileCommit, PresenceCommit, Threads
  <2>2. CASE ReconcileCommit
    BY <1>5, <2>1, <2>2 DEF ReconcileCommit
  <2>3. CASE PresenceCommit
    BY <1>2, <1>5, <2>1, <2>3 DEF PresenceCommit, db
  <2> QED BY <1>9, <2>2, <2>3
<1>10. CASE WalkInsert
  <2> DEFINE e == seen["scheduler"]
             row == IF rows[e.file].state # "absent" THEN rows[e.file]
                    ELSE IF e.fresh THEN BlankRow("settling", e.fp, "later")
                    ELSE BlankRow("sized", e.fp, "null")
  <2>1. e.file \in Files /\ e.by = "insert"
    BY <1>4, <1>10 DEF WalkInsert, Threads
  <2>2. rows' = [rows EXCEPT ![e.file] = row]
    BY <1>10 DEF WalkInsert
  <2>3. KnownStep(e.file, rows[e.file], row)
    <3>1. CASE rows[e.file].state # "absent"
      BY <3>1, SameKnown
    <3>2. CASE rows[e.file].state = "absent"
      <4>1. /\ row.state \in {"settling", "sized"} /\ row.fp = e.fp
            /\ row.state = "settling" => row.ready = "later"
        BY <3>2 DEF BlankRow
      <4> HIDE DEF row, e
      <4>2. Inserted(e.file, rows[e.file], row) /\ Waits(row)
        BY <2>1, <3>2, <4>1 DEF Inserted, Waits, e
      <4> QED BY <4>2 DEF KnownStep
    <3> QED BY <3>1, <3>2
  <2> HIDE DEF e, row
  <2> QED BY <1>3, <2>1, <2>2, <2>3
<1>11. CASE ScanPhaseB
  <2> SUFFICES ASSUME NEW f \in Files PROVE KnownStep(f, rows[f], rows'[f])
    OBVIOUS
  <2>1. \/ rows'[f] = rows[f]
        \/ /\ rows[f].state = "sized" /\ rows[f].ready = "null"
           /\ \/ rows'[f] = [rows[f] EXCEPT !.ready = "due"]
              \/ rows'[f] = [rows[f] EXCEPT !.state = "distinct"]
    BY <1>11 DEF ScanPhaseB
  <2>2. CASE rows'[f] # rows[f]
    <3>1. /\ rows'[f].state \in {"sized", "distinct"} /\ rows'[f].fp = rows[f].fp
          /\ rows[f].state = "sized" /\ rows[f].ready = "null"
      BY <1>1, <2>1, <2>2 DEF Row
    <3> QED BY <3>1 DEF KnownStep, Kept, Waits, Settled
  <2> QED BY <2>2, SameKnown
<1>12. \/ rows' = rows \/ WatchCommit \/ ReconcileCommit \/ PresenceCommit \/ WalkInsert
       \/ ScanPhaseB \/ Commit
       \/ \E f \in Files : \/ FallDue(f) \/ Overdue(f) \/ WatchRemoved(f) \/ WatchMovedOut(f)
                           \/ PresenceFinish(f) \/ Expire(f) \/ Purge(f) \/ Requeue(f)
  BY DEF Next, Environment, Write, MoveIn, Vanish, Return, Age, Crash, Unskip,
     Watcher, WatchTouched, Walk, WalkSee, Scheduler, ReconcileSee, PresenceSee,
     Worker, Take, Finish, FinishSettle, FinishHash, FinishBackfill, FinishSame,
     FinishDiffers, FinishError, vars, db
<1> QED BY <1>2, <1>6, <1>7, <1>8, <1>9, <1>10, <1>11, <1>12

\* What is owed to a row that stays as settled as it was stays under way.
LEMMA OwedStays ==
  ASSUME IInv, HashInv, NoUndo, {"crash", "return"} \cap Moves = {}, [Next]_vars, NEW f \in Files,
         rows[f].state \notin Lost \union {"absent"}, rows'[f].fp = rows[f].fp,
         Settled(rows'[f]) \/ rows'[f].state = "sized", Owed(f)
  PROVE  Owed(f)'
<1> SUFFICES ASSUME present'[f], rows'[f].fp # Version(f)' PROVE Tracked(f)'
  BY DEF Owed
<1>1. /\ rows[f] \in Row /\ rows[f].skip # "user_undo" /\ EventsOK(f)
      /\ Version(f) \in Nat /\ Version(f) # 0
  <2>1. rows[f] \in Row /\ Version(f) \in Nat /\ Reached(f, rows[f].fp)
    BY StepGrows DEF IInv, TypeOK, Grows, HashInv, RowOK
  <2> QED BY <2>1 DEF NoUndo, HashInv, Reached
<1>2. CASE Reaches(f)
  <2>1. rows'[f].fp = seen["watcher"].fp
    <3>1. PICK v \in Nat : v = seen["watcher"].fp /\ rows'[f] = UpsertRow(rows[f], v, "later")
      BY <1>2 DEF Reaches
    <3> DEFINE new == UpsertRow(rows[f], v, "later")
    <3>2. rows[f].state \notin Lost /\ (Settled(new) \/ new.state = "sized") => new.fp = v
      BY <1>1, UpsertKnown
    <3> HIDE DEF new
    <3>3. rows'[f] = new
      BY <3>1 DEF new
    <3> QED BY <3>1, <3>2, <3>3
  <2>2. ~Tracked(f) /\ present[f] /\ rows[f].fp # Version(f)
    BY <1>2, <2>1 DEF Reaches, Tracked, Version
  <2> QED BY <2>2 DEF Owed
<1>3. CASE Version(f)' = Version(f) /\ present[f] /\ (Tracked(f) => Tracked(f)')
  BY <1>3 DEF Owed
<1> QED BY <1>1, <1>2, <1>3, TrackedUntil

\* What the worker relies on of a sized row stays so ...
LEMMA SizedOwedStays ==
  ASSUME IInv, HashInv, NoUndo, {"crash", "unskip", "return"} \cap Moves = {},
         [Next]_vars, ~Commit, NEW f \in Files, SizedOwed(f), Stored(f),
         "purge" \notin Moves \/ seen["scheduler"].by # "insert"
  PROVE  SizedOwed(f)'
<1> SUFFICES ASSUME rows'[f].state = "sized", present'[f] PROVE Owed(f)'
  BY DEF SizedOwed, Owed
<1>1. present[f] /\ rows[f].state \notin Lost
  <2>1. TypeOK /\ RowOK(f, rows[f]) /\ Version(f) > 0
    BY DEF IInv, HashInv, Stored
  <2>2. present[f]
    BY <2>1, AwayStays
  <2> QED BY <2>1, <2>2 DEF RowOK
<1>2. Kept(rows[f], rows'[f]) \/ Inserted(f, rows[f], rows'[f])
  BY <1>1, KnownRows DEF KnownStep
<1>3. rows[f].state = "sized" /\ rows'[f].fp = rows[f].fp
  BY <1>2 DEF Kept, Inserted, Stored
<1> QED BY <1>1, <1>3, OwedStays DEF SizedOwed

\* ... and with it all that the worker holds.
LEMMA WorkKnownStays ==
  ASSUME IInv, HashInv, NoUndo, {"crash", "unskip", "return"} \cap Moves = {},
         ~({"move_in", "purge"} \subseteq Moves),
         [Next]_vars, work' = work, work # Idle, WorkKnown(work)
  PROVE  WorkKnown(work)'
<1>1. /\ ~Commit /\ WorkOK(work) /\ WorkSound(work)
      /\ "purge" \notin Moves \/ seen["scheduler"].by # "insert"
  <2>1. ~Commit
    BY DEF Commit, Idle
  <2>2. "purge" \notin Moves \/ seen["scheduler"].by # "insert"
    BY DEF HashInv, BootOK, ScanOver
  <2> QED BY <2>1, <2>2 DEF IInv, HashInv
<1>2. ASSUME NEW f \in Files, SizedOwed(f), Stored(f) PROVE SizedOwed(f)'
  BY <1>1, <1>2, SizedOwedStays
<1>3. ASSUME work.phase = "hash" PROVE SizedOwed(work.file)'
  <2>1. work.file \in Files /\ Stored(work.file) /\ SizedOwed(work.file)
    BY <1>1, <1>3 DEF WorkOK, Idle, WorkSound, WorkKnown
  <2> QED BY <1>2, <2>1
<1>4. ASSUME work.phase = "backfill" PROVE SizedOwed(work.peer)'
  <2>1. work.peer \in Files /\ Stored(work.peer) /\ SizedOwed(work.peer)
    BY <1>1, <1>4 DEF WorkOK, Idle, WorkSound, WorkKnown
  <2> QED BY <1>2, <2>1
<1>5. ASSUME work.phase = "commit"
      PROVE  \A c \in {work.t.self} \union work.t.others : KnownChange(c)'
  <2> SUFFICES ASSUME NEW c \in {work.t.self} \union work.t.others PROVE KnownChange(c)'
    OBVIOUS
  <2>1. c.file \in Files /\ Stored(c.file) /\ KnownChange(c)
    BY <1>1, <1>5 DEF WorkOK, Idle, TransitionOK, ChangeOK, WorkSound, SoundChange, WorkKnown
  <2>2. SizedOwed(c.file) => SizedOwed(c.file)'
    BY <1>2, <2>1
  <2> QED BY <2>1, <2>2 DEF KnownChange
<1> QED BY <1>3, <1>4, <1>5 DEF WorkKnown
(* What the worker decides settles only what it has looked at. *)

\* The changes that leave the fingerprint alone.
LEMMA PlainChange ==
  ASSUME NEW f, NEW from, NEW to, NEW p, "fp" \notin DOMAIN p,
         from \in Lost => to = "missing",
         from = "settling" =>
           /\ to \in {"settling", "missing"}
           /\ "hash" \in DOMAIN p => p.hash = NoHash,
         /\ from = "sized"
         /\ to \in {"hashed"} \union Resting \/ (to = "sized" /\ "hash" \in DOMAIN p)
         => SizedOwed(f)
  PROVE  KnownChange(Change(f, from, to, p))
BY DEF KnownChange, Change

\* The worker decides on a change of one row.
LEMMA MoveKnown ==
  ASSUME NEW f, NEW from, NEW to, NEW p, KnownChange(Change(f, from, to, p)),
         Move(f, from, to, p)
  PROVE  WorkKnown(work')
BY DEF Move, Decide, Transition, WorkKnown

\* The worker decides on changes of several.
LEMMA DecideKnown ==
  ASSUME NEW f, NEW from, NEW to, NEW p, KnownChange(Change(f, from, to, p)),
         NEW others, \A c \in others : KnownChange(c), NEW op,
         Decide(Transition(f, from, to, p, others, op))
  PROVE  WorkKnown(work')
BY DEF Decide, Transition, WorkKnown

\* The outcomes that every step shares, but for failing and skipping.
LEMMA OutcomeKnown ==
  ASSUME NEW f, NEW row, row.state \in Queued
  PROVE  /\ \A until \in {"due", "later"} : Defer(f, row, until) => WorkKnown(work')
         /\ BackToSettling(f, row) => WorkKnown(work')
         /\ WaitHeavy(f, row) => WorkKnown(work')
         /\ Lose(f, row) => WorkKnown(work')
<1>1. row.state \notin Lost \union Resting
  BY DEF Queued, Lost, Resting, Proven
<1>2. ASSUME NEW p, {"fp", "hash"} \cap DOMAIN p = {}, row.state # "hashed", Stay(f, row, p)
      PROVE  WorkKnown(work')
  BY <1>1, <1>2, PlainChange, MoveKnown DEF Stay, Queued
<1>3. ASSUME NEW p, {"fp", "hash"} \cap DOMAIN p = {}, row.state = "hashed", Stay(f, row, p)
      PROVE  WorkKnown(work')
  BY <1>1, <1>3, PlainChange, MoveKnown DEF Stay
<1>4. \A until \in {"due", "later"} : Defer(f, row, until) => WorkKnown(work')
  BY <1>2, <1>3 DEF Defer
<1>5. BackToSettling(f, row) => WorkKnown(work')
  BY <1>1, PlainChange, MoveKnown DEF BackToSettling, Resting, Proven
<1>6. WaitHeavy(f, row) => WorkKnown(work')
  BY <1>2, <1>3, <1>4 DEF WaitHeavy
<1>7. Lose(f, row) => WorkKnown(work')
  BY <1>1, PlainChange, MoveKnown DEF Lose, Resting, Proven
<1> QED BY <1>4, <1>5, <1>6, <1>7

\* settle::buoc, to the open ...
LEMMA SettleKnown ==
  ASSUME NEW f, NEW row, row.state = "settling", Settle(f, row)
  PROVE  WorkKnown(work')
<1>1. row.state \in Queued
  BY DEF Queued
<1>2. CASE Stay(f, row, [enq |-> Version(f), ready |-> "later"])
  BY <1>2, PlainChange, MoveKnown DEF Stay, Lost
<1>3. CASE work' = [phase |-> "settle", file |-> f, row |-> row]
  BY <1>3 DEF WorkKnown
<1> QED BY <1>1, <1>2, <1>3, OutcomeKnown DEF Settle

\* ... and from it.
LEMMA SettleOpenedKnown ==
  ASSUME NEW f, NEW row, row.state = "settling", "ineligible" \notin Faults, SettleOpened(f, row)
  PROVE  WorkKnown(work')
<1>1. row.state \in Queued
  BY DEF Queued
<1>2. KnownChange(Change(f, "settling", "sized",
        [fp |-> Version(f), enq |-> Version(f), skip |-> "none", ready |-> "due"]))
  BY DEF KnownChange, Change, Lost
<1>3. KnownChange(Change(f, "settling", "settling",
        [fp |-> Version(f), skip |-> "other", ready |-> "later"]))
  BY DEF KnownChange, Change, Lost
<1> QED BY <1>1, <1>2, <1>3, OutcomeKnown, MoveKnown DEF SettleOpened, Stay

\* sua_ung_vien.
LEMMA RepairKnown ==
  ASSUME NEW f, NEW p, NEW to, NEW patch,
         KnownChange(Change(p, rows[p].state, to, patch)), Repair(f, p, to, patch)
  PROVE  WorkKnown(work')
<1>1. KnownChange(Change(f, "sized", "sized", [ready |-> "due", hws |-> "no"]))
  BY PlainChange DEF Lost, Resting, Proven
<1> QED BY <1>1, DecideKnown DEF Repair

\* backfill, up to the read.
LEMMA BackfillKnown ==
  ASSUME NEW f, NEW row, NEW p, rows[p].state \in {"sized", "distinct"},
         "ineligible" \notin Faults, Backfill(f, row, p)
  PROVE  WorkKnown(work')
<1>1. CASE Repair(f, p, "missing", [prev |-> rows[p].state, ready |-> "null"])
  BY <1>1, PlainChange, RepairKnown DEF Resting, Proven
<1>2. CASE Repair(f, p, "settling",
                  [fp |-> Version(p), hash |-> NoHash, group |-> 0, ready |-> "later"])
  <2>1. KnownChange(Change(p, rows[p].state, "settling",
          [fp |-> Version(p), hash |-> NoHash, group |-> 0, ready |-> "later"]))
    BY DEF KnownChange, Change, Lost, Resting, Proven
  <2> QED BY <1>2, <2>1, RepairKnown
<1>3. CASE /\ Version(p) = rows[p].fp
           /\ work' = [phase |-> "backfill", file |-> f, row |-> row,
                       peer |-> p, peerRow |-> rows[p]]
  BY <1>3 DEF WorkKnown, SizedOwed, Owed
<1> QED BY <1>1, <1>2, <1>3 DEF Backfill

\* tao_nhom.
LEMMA NewGroupKnown ==
  ASSUME NEW f, SizedOwed(f), NEW row, NEW same,
         \A p \in same : SizedOwed(p) /\ rows[p].state \in {"sized", "distinct"},
         NEW c \in same \union {f}, NewGroup(f, row, same, c)
  PROVE  WorkKnown(work')
<1> DEFINE ToHashed(p) == Change(p, rows[p].state, "hashed", [ready |-> "due"])
           ToCanon(p)  == Change(p, rows[p].state, "canonical", [ready |-> "null"])
<1>1. ASSUME NEW p \in same PROVE KnownChange(ToHashed(p)) /\ KnownChange(ToCanon(p))
  BY <1>1, PlainChange DEF Lost
<1>2. /\ KnownChange(Change(f, "sized", "canonical", [ready |-> "null"]))
      /\ KnownChange(Change(f, "sized", "hashed", [ready |-> "due"]))
  BY PlainChange DEF Lost
<1>3. CASE c = f
  <2>1. \A d \in {ToHashed(p) : p \in same} : KnownChange(d)
    BY <1>1
  <2> QED BY <1>2, <1>3, <2>1, DecideKnown DEF NewGroup
<1>4. CASE c # f
  <2>1. \A d \in {ToHashed(p) : p \in same \ {c}} \union {ToCanon(c)} : KnownChange(d)
    BY <1>1, <1>4
  <2> QED BY <1>2, <1>4, <2>1, DecideKnown DEF NewGroup
<1> QED BY <1>3, <1>4
\* xep_cho and tim_ung_vien.
LEMMA PlaceKnown ==
  ASSUME NEW f, SizedOwed(f), NEW row, row.state \in Queued, row.hash # NoHash, NEW heavy,
         \A p \in Files : Settled(rows[p]) => Owed(p), "ineligible" \notin Faults,
         Place(f, row, heavy)
  PROVE  WorkKnown(work')
<1> DEFINE g == Lowest(GroupsByKey(groups, row.hash))
<1>1. \A p \in Candidates(f) : p \in Files /\ rows[p].state \in {"sized", "distinct"}
  BY DEF Candidates
<1>2. CASE FindCandidate(f, row, heavy)
  <2>1. CASE Move(f, "sized", "distinct", [ready |-> "null"])
    BY <2>1, PlainChange, MoveKnown DEF Lost
  <2>2. ASSUME NEW p \in Candidates(f), Backfill(f, row, p) PROVE WorkKnown(work')
    BY <1>1, <2>2, BackfillKnown
  <2>3. ASSUME NEW S \in SUBSET Candidates(f), \A p \in S : rows[p].hash = row.hash,
               NEW c \in S \union {f}, NewGroup(f, row, S, c)
        PROVE  WorkKnown(work')
    <3>1. \A p \in S : SizedOwed(p) /\ rows[p].state \in {"sized", "distinct"}
      BY <1>1, <2>3 DEF Settled, SizedOwed
    <3> QED BY <2>3, <3>1, NewGroupKnown
  <2>4. CASE Defer(f, row, "later")
    BY <2>4, OutcomeKnown
  <2>5. ASSUME NEW cands \in SUBSET Candidates(f), Match(f, row, heavy, cands)
        PROVE  WorkKnown(work')
    <3> DEFINE S == {p \in cands : rows[p].hash = row.hash}
    <3>1. S \in SUBSET Candidates(f) /\ \A p \in S : rows[p].hash = row.hash
      OBVIOUS
    <3> QED BY <2>1, <2>2, <2>3, <2>4, <2>5, <3>1 DEF Match
  <2> QED BY <1>2, <2>4, <2>5, ShortlistIn DEF FindCandidate
<1>3. /\ KnownChange(Change(f, "sized", "canonical", [group |-> g, ready |-> "null"]))
      /\ KnownChange(Change(f, "sized", "hashed", [group |-> g, ready |-> "due"]))
  <2> HIDE DEF g
  <2> QED BY PlainChange DEF Lost
<1>4. CASE Decide(Transition(f, "sized", "canonical", [group |-> g, ready |-> "null"],
                             {}, SetCanonical(g, f)))
  <2> HIDE DEF g
  <2> QED BY <1>3, <1>4, DecideKnown
<1>5. CASE \/ Move(f, "sized", "canonical", [group |-> g, ready |-> "null"])
           \/ Move(f, "sized", "hashed", [group |-> g, ready |-> "due"])
  <2> HIDE DEF g
  <2> QED BY <1>3, <1>5, MoveKnown
<1> QED BY <1>2, <1>4, <1>5 DEF Place

\* sized::buoc, to the read.
LEMMA SizeKnown ==
  ASSUME NEW f, NEW row, row = rows[f], row.state = "sized", NEW heavy, Size(f, row, heavy),
         \A p \in Files : Settled(rows[p]) => Owed(p), "ineligible" \notin Faults
  PROVE  WorkKnown(work')
<1>1. row.state \in Queued /\ (Version(f) = row.fp => SizedOwed(f))
  BY DEF Queued, SizedOwed, Owed
<1>2. CASE Version(f) = row.fp /\ work' = [phase |-> "hash", file |-> f, row |-> row]
  BY <1>1, <1>2 DEF WorkKnown
<1>3. CASE Version(f) = row.fp /\ row.hash # NoHash /\ Place(f, row, heavy)
  BY <1>1, <1>3, PlaceKnown
<1>4. CASE Lose(f, row) \/ BackToSettling(f, row) \/ WaitHeavy(f, row)
  BY <1>1, <1>4, OutcomeKnown
<1>5. ASSUME row.hash # NoHash, ~Lose(f, row), ~BackToSettling(f, row)
      PROVE  Version(f) = row.fp /\ Place(f, row, heavy)
  <2>1. CASE ~present[f]
    BY <1>5, <2>1 DEF Size
  <2>2. CASE present[f]
    BY <1>5, <2>2 DEF Size
  <2> QED BY <2>1, <2>2
<1>6. ASSUME row.hash = NoHash
      PROVE  \/ Lose(f, row) \/ BackToSettling(f, row) \/ WaitHeavy(f, row)
             \/ Version(f) = row.fp /\ work' = [phase |-> "hash", file |-> f, row |-> row]
  BY <1>6 DEF Size
<1> QED BY <1>2, <1>3, <1>4, <1>5, <1>6

\* goc_mat_tich, goc_da_doi.
LEMMA SucceedKnown ==
  ASSUME NEW f, NEW g, NEW c, NEW to, NEW patch,
         KnownChange(Change(c, rows[c].state, to, patch)), Succeed(f, g, c, to, patch)
  PROVE  WorkKnown(work')
<1>1. KnownChange(Change(f, "hashed", "canonical", [ready |-> "null"]))
  BY PlainChange DEF Lost
<1> QED BY <1>1, DecideKnown DEF Succeed

\* xac_minh, to the call of the backend.
LEMMA OpenKnown ==
  ASSUME NEW f, NEW row, row.state = "hashed", NEW c, present[c] => rows[c].state \notin Lost,
         "ineligible" \notin Faults, Open(f, row, c)
  PROVE  WorkKnown(work')
<1>1. row.state \in Queued
  BY DEF Queued
<1>2. CASE Succeed(f, row.group, c, "missing", [prev |-> rows[c].state, ready |-> "null"])
  BY <1>2, PlainChange, SucceedKnown DEF Resting, Proven
<1>3. CASE present[c] /\ Succeed(f, row.group, c, "settling",
                                 [hash |-> NoHash, group |-> 0, ready |-> "later"])
  BY <1>3, PlainChange, SucceedKnown DEF Resting, Proven
<1>4. CASE work' = [phase |-> "compare", file |-> f, row |-> row,
                    peer |-> c, peerRow |-> rows[c]]
  BY <1>4 DEF WorkKnown
<1> QED BY <1>1, <1>2, <1>3, <1>4, OutcomeKnown DEF Open

\* verify::buoc, to the call of the backend.
LEMMA VerifyKnown ==
  ASSUME NEW f, NEW row, row.state = "hashed", NEW heavy, Verify(f, row, heavy),
         \A p \in Files : present[p] => rows[p].state \notin Lost, "ineligible" \notin Faults
  PROVE  WorkKnown(work')
<1> DEFINE g == row.group
           c == CanonicalOf(rows, groups, g)
<1>1. /\ row.state \in Queued
      /\ KnownChange(Change(f, "hashed", "sized", [ready |-> "due"]))
      /\ KnownChange(Change(f, "hashed", "canonical", [ready |-> "null"]))
      /\ KnownChange(Change(f, "hashed", "hashed", [skip |-> "parked", ready |-> "null"]))
  BY PlainChange DEF Queued, Lost
<1>2. CASE Decide(Transition(f, "hashed", "canonical", [ready |-> "null"],
                             {}, SetCanonical(g, f)))
  <2> HIDE DEF g
  <2> QED BY <1>1, <1>2, DecideKnown
<1>3. CASE Open(f, row, c) /\ c # NoFile
  <2>1. c \in Files
    BY <1>3 DEF CanonicalOf, Members
  <2> HIDE DEF c
  <2> QED BY <1>3, <2>1, OpenKnown
<1>4. CASE Stay(f, row, [skip |-> "parked", ready |-> "null"])
  BY <1>1, <1>4, MoveKnown DEF Stay
<1> QED BY <1>1, <1>2, <1>3, <1>4, OutcomeKnown, MoveKnown DEF Verify

\* tinh_hash ...
LEMMA HashedKnown ==
  ASSUME NEW f, SizedOwed(f), NEW row, row.state = "sized", Hashed(f, row)
  PROVE  WorkKnown(work')
<1>1. CASE BackToSettling(f, row)
  <2>1. row.state \in Queued
    BY DEF Queued
  <2> QED BY <1>1, <2>1, OutcomeKnown
<1>2. CASE Stay(f, row, [hash |-> HashOf[Body(f, row.fp)], hws |-> "no", ready |-> "due"])
  <2> DEFINE p == [hash |-> HashOf[Body(f, row.fp)], hws |-> "no", ready |-> "due"]
  <2>1. "fp" \notin DOMAIN p /\ Move(f, "sized", "sized", p)
    BY <1>2 DEF Stay
  <2> HIDE DEF p
  <2>2. KnownChange(Change(f, "sized", "sized", p))
    BY <2>1, PlainChange DEF Lost
  <2> QED BY <2>1, <2>2, MoveKnown
<1> QED BY <1>1, <1>2 DEF Hashed

\* ... and that of backfill.
LEMMA BackfilledKnown ==
  ASSUME NEW f, NEW p, SizedOwed(p), NEW old, old.state \in {"sized", "distinct"},
         Backfilled(f, p, old)
  PROVE  WorkKnown(work')
<1>1. PICK h :
        Decide(Transition(f, "sized", "sized", [ready |-> "due", hws |-> "no"],
                          {Change(p, old.state, old.state, [hash |-> h])}, NoOp))
  BY DEF Backfilled
<1>2. KnownChange(Change(f, "sized", "sized", [ready |-> "due", hws |-> "no"]))
  BY PlainChange DEF Lost, Resting, Proven
<1>3. KnownChange(Change(p, old.state, old.state, [hash |-> h]))
  BY PlainChange DEF Lost
<1> QED BY <1>1, <1>2, <1>3, DecideKnown

\* giong_nhau, khac_nhau, xu_ly_loi.
LEMMA VerdictKnown ==
  ASSUME NEW f, NEW row, row.state = "hashed",
         \/ Same(f, row) \/ Differs(f, row)
         \/ \E policy \in Policies : BackendError(f, row, policy)
  PROVE  WorkKnown(work')
<1>1. row.state \in Queued
  BY DEF Queued
<1>2. CASE Same(f, row)
  <2>1. ASSUME NEW to \in Proven
        PROVE  KnownChange(Change(f, "hashed", to,
                                  [fp |-> row.fp, ready |-> "null", attempts |-> 0]))
    BY <2>1 DEF KnownChange, Change, Lost
  <2> QED BY <1>2, <2>1, MoveKnown DEF Same, Proven
<1>3. CASE Differs(f, row)
  <2>1. ASSUME NEW g, Stay(f, row, [group |-> g, ready |-> "due"]) PROVE WorkKnown(work')
    BY <2>1, PlainChange, MoveKnown DEF Stay, Lost
  <2>2. KnownChange(Change(f, "hashed", "canonical", [group |-> 0, ready |-> "null"]))
    BY PlainChange DEF Lost
  <2> QED BY <1>3, <2>1, <2>2, DecideKnown DEF Differs
<1>4. ASSUME NEW policy \in Policies, BackendError(f, row, policy) PROVE WorkKnown(work')
  <2>1. ASSUME NEW k, NEW skip,
               \/ Move(f, "hashed", "settling", [attempts |-> k, skip |-> skip,
                       hash |-> NoHash, group |-> 0, ready |-> "later"])
               \/ Stay(f, row, [attempts |-> k, ready |-> "later"])
        PROVE  WorkKnown(work')
    BY <2>1, PlainChange, MoveKnown DEF Stay, Lost
  <2>2. CASE Stay(f, row, [skip |-> "parked", ready |-> "null"])
    BY <2>2, PlainChange, MoveKnown DEF Stay, Lost
  <2>3. CASE Move(f, "hashed", "sized", [group |-> 0, skip |-> "other", ready |-> "due"])
    BY <2>3, PlainChange, MoveKnown DEF Lost
  <2>4. CASE Move(f, "hashed", "failed", [ready |-> "null"])
    BY <2>4, PlainChange, MoveKnown DEF Lost
  <2> QED BY <1>1, <1>4, <2>1, <2>2, <2>3, <2>4, OutcomeKnown DEF BackendError, Policies
<1> QED BY <1>2, <1>3, <1>4
\* Whatever the worker takes or finishes, it holds what settles rightly.
LEMMA WorkKnownStep ==
  ASSUME IInv, HashInv, NoUndo, KnownInv, {"crash", "unskip", "return"} \cap Moves = {},
         ~({"move_in", "purge"} \subseteq Moves), {"io", "ineligible"} \cap Faults = {},
         [Next]_vars
  PROVE  WorkKnown(work)'
<1>1. /\ WorkOK(work) /\ WorkSound(work) /\ WorkKnown(work)
      /\ "io" \notin Faults /\ "ineligible" \notin Faults
      /\ \A f \in Files : Settled(rows[f]) => Owed(f)
      /\ \A f \in Files : present[f] => rows[f].state \notin Lost
  BY DEF IInv, HashInv, KnownInv, RowOK
<1>2. CASE work' = Idle
  BY <1>2 DEF WorkKnown, Idle
<1>3. CASE work' = work /\ work # Idle
  BY <1>1, <1>3, WorkKnownStays
<1>4. ASSUME WorkKnown(work'), UNCHANGED <<history, present, pending, seen, rows>>
      PROVE  WorkKnown(work)'
  BY <1>4 DEF WorkKnown, KnownChange, SizedOwed, Owed, Tracked, Version
<1>5. ASSUME NEW f \in Files, NEW heavy \in HeavyAllowed, Take(f, heavy) PROVE WorkKnown(work')
  BY <1>1, <1>5, SettleKnown, SizeKnown, VerifyKnown DEF Take
<1>6. ASSUME FinishSettle PROVE WorkKnown(work')
  <2>1. work.row.state = "settling"
    BY <1>1, <1>6 DEF FinishSettle, WorkSound
  <2> QED BY <1>1, <1>6, <2>1, SettleOpenedKnown DEF FinishSettle
<1>7. ASSUME FinishHash PROVE WorkKnown(work')
  <2>1. work.row.state = "sized" /\ SizedOwed(work.file)
    BY <1>1, <1>7 DEF FinishHash, WorkSound, WorkKnown
  <2> QED BY <1>1, <1>7, <2>1, HashedKnown DEF FinishHash
<1>8. ASSUME FinishBackfill PROVE WorkKnown(work')
  <2>1. work.peerRow.state \in {"sized", "distinct"} /\ SizedOwed(work.peer)
    BY <1>1, <1>8 DEF FinishBackfill, WorkOK, Idle, WorkKnown
  <2> QED BY <1>1, <1>8, <2>1, BackfilledKnown DEF FinishBackfill
<1>9. ASSUME FinishSame \/ FinishDiffers \/ FinishError PROVE WorkKnown(work')
  <2>1. work.row.state = "hashed"
    BY <1>1, <1>9 DEF FinishSame, FinishDiffers, FinishError, WorkSound
  <2> QED BY <1>9, <2>1, VerdictKnown DEF FinishSame, FinishDiffers, FinishError
<1>10. \/ UNCHANGED <<history, present, pending, seen, rows>>
       \/ ~(\/ \E f \in Files, heavy \in HeavyAllowed : Take(f, heavy)
            \/ FinishSettle \/ FinishHash \/ FinishBackfill
            \/ FinishSame \/ FinishDiffers \/ FinishError)
  BY DEF Take, FinishSettle, FinishHash, FinishBackfill,
         FinishSame, FinishDiffers, FinishError, disk, db
<1> QED BY <1>2, <1>3, <1>4, <1>5, <1>6, <1>7, <1>8, <1>9, <1>10, WorkFates
\* A change that is right, timely and known settles no row that owes
\* something, but for a verdict.
LEMMA CasKnown ==
  ASSUME NEW f \in Files, NEW row, row = rows[f], row \in Row, RowOK(f, row), Waits(row),
         Settled(row) => Owed(f),
         NEW c, c.file = f, ChangeOK(c), SoundChange(c), KnownChange(c), Timely(c)
  PROVE  /\ Waits(CasUpdate(row, c))
         /\ CasUpdate(row, c).state = "absent" => row.state = "absent"
         /\ /\ present[f] /\ Settled(CasUpdate(row, c))
            /\ CasUpdate(row, c).state \notin Proven
            => CasUpdate(row, c).fp = row.fp /\ Owed(f)
<1>1. CASE row.state # c.from
  BY <1>1 DEF CasUpdate
<1>2. CASE row.state = c.from
  <2> DEFINE new == CasUpdate(row, c)
             p   == c.patch
  <2>1. /\ new.state = c.to /\ new.fp = Column(p, "fp", row.fp)
        /\ new.hash = Column(p, "hash", row.hash) /\ new.ready = Column(p, "ready", row.ready)
    BY <1>2 DEF CasUpdate, Patched
  <2> HIDE DEF new
  <2>2. c.to # "absent" /\ row.state # "absent"
    BY <1>2 DEF ChangeOK, SoundChange, State, Queued, Resting, Proven, Lost
  <2>3. c.to \in Queued /\ new.ready = "null" =>
          c.to = "hashed" \/ (c.to = row.state /\ row.ready = "null")
    BY <1>2, <2>1 DEF Timely, Column
  <2>4. Waits(new)
    BY <2>1, <2>3 DEF Waits, Queued
  <2>5. ASSUME present[f], c.to \in ({"hashed"} \union Resting) \ Proven
        PROVE  new.fp = row.fp /\ Owed(f)
    <3>1. "fp" \notin DOMAIN p
      BY <2>5 DEF KnownChange, Resting
    <3>2. Settled(row) \/ (row.state = "sized" /\ SizedOwed(f))
      <4>1. row.state \in {"settling", "sized", "hashed"} \union Resting \union Lost
        BY <2>2 DEF Row, State, Queued
      <4>2. row.state \notin Lost \union {"settling"}
        BY <1>2, <2>5 DEF KnownChange, Resting, Proven
      <4>3. row.state = "sized" => SizedOwed(f)
        BY <1>2, <2>5 DEF KnownChange
      <4> QED BY <4>1, <4>2, <4>3 DEF Settled
    <3>3. Owed(f)
      BY <3>2 DEF SizedOwed
    <3> QED BY <2>1, <3>1, <3>3 DEF Column
  <2>6. ASSUME present[f], c.to = "sized", new.hash # NoHash \/ new.ready = "null"
        PROVE  new.fp = row.fp /\ Owed(f)
    <3>1. row.state \in {"settling", "sized", "hashed"} \union Resting
      <4>1. row.state \in State
        BY <2>2 DEF Row
      <4>2. row.state \notin Lost
        BY <1>2, <2>6 DEF KnownChange
      <4> QED BY <4>1, <4>2 DEF State, Queued
    <3>2. row.state # "settling"
      <4> SUFFICES ASSUME row.state = "settling" PROVE FALSE
        OBVIOUS
      <4>1. new.hash = NoHash
        BY <1>2, <2>1, <2>6 DEF KnownChange, RowOK, Column
      <4> QED BY <2>3, <2>6, <4>1 DEF Queued
    <3>3. "fp" \notin DOMAIN p
      BY <1>2, <2>6, <3>2 DEF KnownChange, Proven
    <3>4. Settled(row) \/ (row.state = "sized" /\ SizedOwed(f))
      <4>1. CASE row.state = "sized" /\ "hash" \in DOMAIN p
        BY <1>2, <2>6, <4>1 DEF KnownChange
      <4>2. CASE row.state = "sized" /\ "hash" \notin DOMAIN p
        BY <2>1, <2>3, <2>6, <4>2 DEF Settled, Column, Queued
      <4> QED BY <3>1, <3>2, <4>1, <4>2 DEF Settled
    <3>5. Owed(f)
      BY <3>4 DEF SizedOwed
    <3> QED BY <2>1, <3>3, <3>5 DEF Column
  <2>7. ASSUME present[f], Settled(new), new.state \notin Proven PROVE new.fp = row.fp /\ Owed(f)
    BY <2>1, <2>5, <2>6, <2>7 DEF Settled
  <2> QED BY <2>1, <2>2, <2>4, <2>7 DEF new
<1> QED BY <1>1, <1>2

\* Neither does the transaction of the worker.
LEMMA CommitKnown ==
  ASSUME IInv, WorkTimely(work), HashInv, KnownInv, Commit, NEW f \in Files
  PROVE  /\ Waits(rows'[f])
         /\ rows'[f].state = "absent" => rows[f].state = "absent"
         /\ present[f] /\ Settled(rows'[f]) /\ rows'[f].state \notin Proven =>
              rows'[f].fp = rows[f].fp /\ Owed(f)
<1> DEFINE t       == work.t
           changed == ChangedRows(rows, t)
           grp     == GroupAfter(f, changed[f].group, t, Len(groups) + 1)
<1>1. /\ TransitionOK(t) /\ rows[f] \in Row /\ RowOK(f, rows[f])
      /\ Waits(rows[f]) /\ (Settled(rows[f]) => Owed(f))
      /\ rows' = AppliedRows(rows, groups, t)
  BY DEF IInv, WorkOK, Commit, Idle, TypeOK, HashInv, KnownInv
<1>2. \A c \in {t.self} \union t.others : SoundChange(c) /\ KnownChange(c) /\ Timely(c)
  <2>1. \A c \in {t.self} \union t.others : SoundChange(c) /\ KnownChange(c)
    BY DEF Commit, HashInv, WorkSound, KnownInv, WorkKnown
  <2>2. \A c \in {t.self} \union t.others : Timely(c)
    BY DEF Commit, WorkTimely, WorkCalm, Calm, Verdict
  <2> QED BY <2>1, <2>2
<1>3. CASE ~Applies(rows, t)
  BY <1>1, <1>3 DEF AppliedRows
<1>4. CASE Applies(rows, t)
  <2>1. rows' = [h \in Files |-> [changed[h] EXCEPT
                                   !.group = GroupAfter(h, changed[h].group, t, Len(groups) + 1)]]
    BY <1>1, <1>4, Zenon DEF AppliedRows
  <2>2. rows'[f] = [changed[f] EXCEPT !.group = grp]
    BY <2>1
  <2>3. changed[f] \in Row
    BY <1>1, ChangedBy, CasType
  <2>4. /\ Waits(changed[f]) /\ (changed[f].state = "absent" => rows[f].state = "absent")
        /\ present[f] /\ Settled(changed[f]) /\ changed[f].state \notin Proven =>
             changed[f].fp = rows[f].fp /\ Owed(f)
    <3>1. \/ changed[f] = rows[f]
          \/ \E c \in {t.self} \union t.others :
               ChangeOK(c) /\ c.file = f /\ changed[f] = CasUpdate(rows[f], c)
      BY <1>1, ChangedBy
    <3>2. CASE changed[f] = rows[f]
      BY <1>1, <3>2
    <3>3. ASSUME NEW c \in {t.self} \union t.others, ChangeOK(c), c.file = f,
                 changed[f] = CasUpdate(rows[f], c)
          PROVE  /\ Waits(changed[f]) /\ (changed[f].state = "absent" => rows[f].state = "absent")
                 /\ present[f] /\ Settled(changed[f]) /\ changed[f].state \notin Proven =>
                      changed[f].fp = rows[f].fp /\ Owed(f)
      <4> DEFINE new == CasUpdate(rows[f], c)
      <4>1. /\ Waits(new) /\ (new.state = "absent" => rows[f].state = "absent")
            /\ present[f] /\ Settled(new) /\ new.state \notin Proven =>
                 new.fp = rows[f].fp /\ Owed(f)
        BY <1>1, <1>2, <3>3, CasKnown
      <4>2. changed[f] = new
        BY <3>3
      <4> HIDE DEF new, changed
      <4> QED BY <4>1, <4>2
    <3> QED BY <3>1, <3>2, <3>3
  <2> HIDE DEF changed, grp
  <2>5. /\ rows'[f].state = changed[f].state /\ rows'[f].hash = changed[f].hash
        /\ rows'[f].fp = changed[f].fp /\ rows'[f].ready = changed[f].ready
    BY <2>2, <2>3 DEF Row
  <2> QED BY <2>4, <2>5 DEF Waits, Settled
<1> QED BY <1>3, <1>4
(* What is under way to the table. *)

\* A file that is found without a row had none, and was there unless it is new.
LEMMA AbsentBefore ==
  ASSUME IInv, TrackInv, HashInv, KnownInv, {"unskip", "return"} \cap Moves = {},
         [Next]_vars, NEW f \in Files, present'[f], rows'[f].state = "absent"
  PROVE  rows[f].state = "absent" /\ (Version(f) > 0 => present[f])
<1>1. Version(f) > 0 => present[f]
  BY AwayStays DEF IInv
<1>2. rows[f].state \notin Lost
  <2>1. RowOK(f, rows[f]) /\ Version(f) \in Nat
    BY StepGrows DEF IInv, Grows, HashInv
  <2> QED BY <1>1, <2>1 DEF RowOK, Reached, Lost
<1>3. CASE Commit
  BY <1>1, <1>3, CommitKnown DEF TrackInv
<1>4. CASE ~Commit
  BY <1>1, <1>2, <1>4, KnownRows DEF KnownStep, Kept, Inserted, TrackInv
<1> QED BY <1>3, <1>4

\* What the scheduler has seen stays in its hands until it is written.
LEMMA SchedulerFates ==
  ASSUME TypeOK, [Next]_vars
  PROVE  \/ seen'["scheduler"] = seen["scheduler"]
         \/ Crash \/ WalkInsert \/ ReconcileCommit \/ PresenceCommit
         \/ /\ seen["scheduler"] = Nothing
            /\ \E f \in Files : WalkSee(f) \/ ReconcileSee(f) \/ PresenceSee(f)
<1>1. DOMAIN seen = Threads /\ Threads = {"watcher", "scheduler"}
  BY DEF TypeOK, Threads
<1>2. ASSUME NEW e, See("watcher", e) PROVE seen'["scheduler"] = seen["scheduler"]
  BY <1>1, <1>2 DEF See
<1>3. ASSUME NEW f \in Files, WatchTouched(f) \/ WatchMovedOut(f)
      PROVE  seen'["scheduler"] = seen["scheduler"]
  BY <1>2, <1>3 DEF WatchTouched, WatchMovedOut
<1>4. ASSUME WatchCommit PROVE seen'["scheduler"] = seen["scheduler"]
  BY <1>2, <1>4 DEF WatchCommit, Drop
<1>5. \/ seen' = seen \/ WatchCommit \/ Crash \/ WalkInsert \/ ReconcileCommit \/ PresenceCommit
      \/ \E f \in Files : \/ WatchTouched(f) \/ WatchMovedOut(f)
                          \/ WalkSee(f) \/ ReconcileSee(f) \/ PresenceSee(f)
  BY DEF Next, Environment, Write, MoveIn, Vanish, Return, Age, FallDue, Overdue,
     Watcher, WatchRemoved, Walk, ScanPhaseB,
     Scheduler, PresenceFinish, Expire, Purge, Unskip, Requeue,
     Worker, Take, Finish, FinishSettle, FinishHash, FinishBackfill, FinishSame,
     FinishDiffers, FinishError, Commit, vars
<1>6. \A f \in Files : WalkSee(f) \/ ReconcileSee(f) \/ PresenceSee(f) => seen["scheduler"] = Nothing
  BY DEF WalkSee, ReconcileSee, PresenceSee
<1> QED BY <1>3, <1>4, <1>5, <1>6

\* A file whose event or walk is done with has a row.
LEMMA Delivered ==
  ASSUME IInv, NoUndo, NEW f \in Files,
         Reaches(f) \/ (seen["scheduler"].file = f /\ (WalkInsert \/ ReconcileCommit))
  PROVE  rows'[f].state # "absent"
<1>1. /\ rows \in [Files -> Row] /\ rows[f] \in Row /\ rows[f].skip # "user_undo"
  BY DEF IInv, TypeOK, NoUndo
<1>2. ASSUME NEW v \in Nat, NEW ready \in {"due", "later"}, rows'[f] = UpsertRow(rows[f], v, ready)
      PROVE  rows'[f].state # "absent"
  BY <1>1, <1>2, UpsertKnown
<1>3. CASE Reaches(f)
  BY <1>2, <1>3 DEF Reaches
<1>4. CASE seen["scheduler"].file = f /\ ReconcileCommit
  <2>1. seen["scheduler"].fp \in Nat
    BY <1>4 DEF ReconcileCommit, IInv, TypeOK, SeenEntry, Nothing, Threads
  <2> QED BY <1>1, <1>2, <1>4, <2>1 DEF ReconcileCommit, Upsert
<1>5. CASE seen["scheduler"].file = f /\ WalkInsert
  <2> DEFINE e == seen["scheduler"]
             row == IF rows[f].state # "absent" THEN rows[f]
                    ELSE IF e.fresh THEN BlankRow("settling", e.fp, "later")
                    ELSE BlankRow("sized", e.fp, "null")
  <2>1. rows' = [rows EXCEPT ![f] = row]
    BY <1>5 DEF WalkInsert
  <2>2. row.state # "absent"
    BY DEF BlankRow
  <2> HIDE DEF row
  <2> QED BY <1>1, <2>1, <2>2
<1> QED BY <1>3, <1>4, <1>5

\* A file without a row stays on its way to one ...
LEMMA ComingStep ==
  ASSUME IInv, TrackInv, HashInv, KnownInv, {"crash", "unskip", "return"} \cap Moves = {},
         [Next]_vars, NEW f \in Files
  PROVE  Coming(f)'
<1> SUFFICES ASSUME present'[f], rows'[f].state = "absent"
             PROVE  \/ f \in boot'.left \/ Tracked(f)'
                    \/ seen'["scheduler"].by \in {"insert", "upsert"} /\ seen'["scheduler"].file = f
  BY DEF Coming
<1>1. /\ TypeOK /\ NoUndo /\ EventsOK(f) /\ ~Crash /\ Version(f) \in Nat
      /\ rows[f].state = "absent" /\ (Version(f) > 0 => present[f])
      /\ DOMAIN seen = Threads /\ Threads = {"watcher", "scheduler"}
      /\ boot \in [phase : {"A", "done"}, left : SUBSET Files]
  <2>1. Version(f) \in Nat
    BY StepGrows DEF IInv, Grows
  <2> QED BY <2>1, AbsentBefore DEF IInv, TypeOK, TrackInv, Crash, Threads
<1>2. CASE Version(f) = 0
  <2>1. ~present[f] /\ present \in [Files -> BOOLEAN]
    BY <1>2 DEF IInv, Born, TypeOK
  <2>2. MoveIn(f)
    <3>1. ASSUME NEW g \in Files,
                 \/ Write(g) \/ Vanish(g) \/ Return(g)
                 \/ WatchTouched(g) \/ WatchRemoved(g) \/ WatchMovedOut(g)
          PROVE  FALSE
      BY <2>1, <3>1 DEF Write, Vanish, Return, WatchTouched, WatchRemoved, WatchMovedOut, disk
    <3>2. ASSUME NEW g \in Files, MoveIn(g), g # f PROVE FALSE
      BY <2>1, <3>2 DEF MoveIn
    <3> QED BY <1>1, <2>1, <3>1, <3>2, DiskFates
  <2> QED BY <1>1, <2>2 DEF MoveIn
<1>3. CASE Version(f) # 0
  <2>1. /\ present[f]
        /\ \/ f \in boot.left \/ Tracked(f)
           \/ seen["scheduler"].by \in {"insert", "upsert"} /\ seen["scheduler"].file = f
    BY <1>1, <1>3 DEF KnownInv, Coming
  <2>2. CASE Tracked(f)
    BY <1>1, <1>3, <2>2, TrackedUntil, Delivered
  <2>3. CASE seen["scheduler"].by \in {"insert", "upsert"} /\ seen["scheduler"].file = f
    <3>1. seen["scheduler"] # Nothing /\ ~PresenceCommit
      BY <2>3 DEF Nothing, PresenceCommit
    <3> QED BY <1>1, <2>3, <3>1, SchedulerFates, Delivered
  <2>4. CASE f \in boot.left
    <3>1. ASSUME WalkSee(f)
          PROVE  seen'["scheduler"].by = "insert" /\ seen'["scheduler"].file = f
      <4> DEFINE e == [by |-> "insert", file |-> f, fp |-> Version(f), fresh |-> fresh[f]]
      <4>1. e.by = "insert" /\ e.file = f /\ See("scheduler", e)
        BY <2>1, <3>1 DEF WalkSee
      <4> HIDE DEF e
      <4>2. seen'["scheduler"] = e
        BY <1>1, <4>1 DEF See
      <4> QED BY <4>1, <4>2
    <3>2. ASSUME NEW g \in Files, WalkSee(g) \/ MoveIn(g), ~WalkSee(f) PROVE f \in boot'.left
      BY <1>1, <2>4, <3>2 DEF WalkSee, MoveIn
    <3>3. CASE ScanPhaseB
      BY <2>4, <3>3 DEF ScanPhaseB
    <3>4. \/ boot' = boot \/ Crash \/ ScanPhaseB \/ \E g \in Files : MoveIn(g) \/ WalkSee(g)
      BY DEF Next, Environment, Write, Vanish, Return, Age, FallDue, Overdue,
         Watcher, WatchTouched, WatchRemoved, WatchMovedOut, WatchCommit,
         Walk, WalkInsert, ReconcileCommit, PresenceCommit,
         Scheduler, ReconcileSee, PresenceSee, PresenceFinish, Expire, Purge, Unskip, Requeue,
         Worker, Take, Finish, FinishSettle, FinishHash, FinishBackfill, FinishSame,
         FinishDiffers, FinishError, Commit, vars
    <3> QED BY <1>1, <2>4, <3>1, <3>2, <3>3, <3>4
  <2> QED BY <2>1, <2>2, <2>3, <2>4
<1> QED BY <1>2, <1>3

\* ... and the walk that will insert it knows its version, or an event does.
LEMMA InsertOwedStep ==
  ASSUME IInv, TrackInv, HashInv, KnownInv, {"crash", "unskip", "return"} \cap Moves = {},
         [Next]_vars, NEW f \in Files
  PROVE  InsertOwed(f)'
<1> SUFFICES ASSUME seen'["scheduler"].by = "insert", seen'["scheduler"].file = f,
                    present'[f], rows'[f].state = "absent"
             PROVE  seen'["scheduler"].fp = Version(f)' \/ Tracked(f)'
  BY DEF InsertOwed
<1>1. /\ TypeOK /\ NoUndo /\ EventsOK(f) /\ ~Crash
      /\ rows[f].state = "absent" /\ (Version(f) > 0 => present[f])
      /\ DOMAIN seen = Threads /\ Threads = {"watcher", "scheduler"}
  BY AbsentBefore DEF IInv, TypeOK, TrackInv, Crash, Threads
<1>2. CASE seen'["scheduler"] = seen["scheduler"]
  <2>1. seen["scheduler"].by = "insert" /\ seen["scheduler"].file = f
    BY <1>2
  <2>2. Version(f) > 0
    <3>1. Reached(f, seen["scheduler"].fp) /\ Version(f) \in Nat
      BY <1>1, <2>1, StepGrows DEF HashInv, SeenOK, Nothing, IInv, Grows
    <3> QED BY <3>1 DEF Reached
  <2>3. seen["scheduler"].fp = Version(f) \/ Tracked(f)
    BY <1>1, <2>1, <2>2 DEF KnownInv, InsertOwed
  <2> QED BY <1>1, <1>2, <2>2, <2>3, TrackedUntil, Delivered
<1>3. ASSUME NEW e, See("scheduler", e) PROVE seen'["scheduler"] = e
  BY <1>1, <1>3 DEF See
<1>4. CASE WalkInsert \/ ReconcileCommit \/ PresenceCommit
  BY <1>3, <1>4 DEF WalkInsert, ReconcileCommit, PresenceCommit, Drop, Nothing
<1>5. ASSUME NEW g \in Files, WalkSee(g) \/ ReconcileSee(g) \/ PresenceSee(g),
             seen["scheduler"] = Nothing
      PROVE  seen'["scheduler"].fp = Version(f)'
  <2> DEFINE rec == [by |-> "upsert", file |-> g, fp |-> Version(g), fresh |-> fresh[g]]
             ins == [by |-> "insert", file |-> g, fp |-> Version(g), fresh |-> fresh[g]]
             pre == [by |-> "presence", file |-> g, fp |-> Version(g)]
  <2>1. /\ rec.by = "upsert" /\ pre.by = "presence"
        /\ ins.by = "insert" /\ ins.file = g /\ ins.fp = Version(g)
    OBVIOUS
  <2>2. /\ history' = history
        /\ \/ seen' = seen \/ See("scheduler", rec) \/ See("scheduler", ins)
           \/ See("scheduler", pre)
    BY <1>5 DEF WalkSee, ReconcileSee, PresenceSee, disk
  <2> HIDE DEF rec, ins, pre
  <2>3. seen'["scheduler"] = ins
    BY <1>3, <1>5, <2>1, <2>2 DEF Nothing
  <2> QED BY <2>1, <2>2, <2>3 DEF Version
<1> QED BY <1>1, <1>2, <1>4, <1>5, SchedulerFates
\* A row that is settled owes nothing, whichever step settled it.
LEMMA SettledStep ==
  ASSUME IInv, TrackInv, HashInv, KnownInv, {"crash", "unskip", "return"} \cap Moves = {},
         [Next]_vars, NEW f \in Files, Settled(rows'[f])
  PROVE  Owed(f)'
<1> SUFFICES ASSUME present'[f] PROVE Owed(f)'
  BY DEF Owed
<1>1. /\ NoUndo /\ EventsOK(f) /\ WorkTimely(work) /\ RowOK(f, rows[f]) /\ Version(f) \in Nat
      /\ Settled(rows[f]) => Owed(f)
      /\ Version(f) > 0 => present[f]
  <2>1. Version(f) \in Nat
    BY StepGrows DEF IInv, Grows
  <2>2. Version(f) > 0 => present[f]
    BY AwayStays DEF IInv
  <2> QED BY <2>1, <2>2 DEF TrackInv, HashInv, KnownInv
<1>2. CASE Commit
  <2>1. UNCHANGED <<history, present, pending, seen>>
    BY <1>2 DEF Commit, disk
  <2>2. CASE rows'[f].state \in Proven
    <3>1. ClaimOK(f)'
      BY ClaimStep
    <3> QED BY <2>2, <3>1 DEF ClaimOK, Claims
  <2>3. CASE rows'[f].state \notin Proven
    <3>1. rows'[f].fp = rows[f].fp /\ Owed(f)
      BY <1>1, <1>2, <2>1, <2>3, CommitKnown
    <3> QED BY <2>1, <3>1 DEF Owed, Tracked, Version
  <2> QED BY <2>2, <2>3
<1>3. CASE ~Commit
  <2>1. rows[f].state \notin Lost
    BY <1>1 DEF RowOK, Reached, Lost
  <2>2. Kept(rows[f], rows'[f]) \/ Inserted(f, rows[f], rows'[f])
    BY <1>1, <1>3, <2>1, KnownRows DEF KnownStep
  <2>3. CASE Kept(rows[f], rows'[f])
    <3>1. Settled(rows[f]) /\ rows'[f].fp = rows[f].fp
      BY <2>3 DEF Kept
    <3>2. rows[f].state # "absent"
      BY <3>1 DEF Settled, Resting, Proven
    <3> QED BY <1>1, <2>1, <3>1, <3>2, OwedStays
  <2>4. CASE Inserted(f, rows[f], rows'[f])
    <3>1. /\ rows[f].state = "absent" /\ rows'[f].fp = seen["scheduler"].fp
          /\ seen["scheduler"].by = "insert" /\ seen["scheduler"].file = f
      BY <2>4 DEF Inserted
    <3>2. Version(f) > 0
      <4>1. Reached(f, seen["scheduler"].fp)
        BY <3>1 DEF HashInv, SeenOK, Nothing, Threads
      <4> QED BY <1>1, <4>1 DEF Reached
    <3>3. seen["scheduler"].fp = Version(f) \/ Tracked(f)
      BY <1>1, <3>1, <3>2 DEF KnownInv, InsertOwed
    <3>4. ~Reaches(f)
      <4> SUFFICES ASSUME Reaches(f) PROVE FALSE
        OBVIOUS
      <4>1. rows'[f].state = "settling"
        BY <3>1 DEF Reaches, UpsertRow, NewRow, BlankRow
      <4> QED BY <4>1 DEF Settled, Resting, Proven
    <3>5. Tracked(f)' \/ (Version(f)' = Version(f) /\ (Tracked(f) => Tracked(f)'))
      BY <1>1, <3>2, <3>4, TrackedUntil
    <3> QED BY <3>1, <3>3, <3>5 DEF Owed
  <2> QED BY <2>2, <2>3, <2>4
<1> QED BY <1>2, <1>3

\* All this is kept.
LEMMA KnownInvStep ==
  ASSUME IInv, TrackInv, HashInv, KnownInv, {"crash", "unskip", "return"} \cap Moves = {},
         ~({"move_in", "purge"} \subseteq Moves), {"io", "ineligible"} \cap Faults = {},
         [Next]_vars
  PROVE  KnownInv'
<1>1. NoUndo /\ WorkTimely(work)
  BY DEF TrackInv
<1>2. WorkKnown(work)'
  BY <1>1, WorkKnownStep
<1>3. ASSUME NEW f \in Files
      PROVE  Coming(f)' /\ InsertOwed(f)' /\ (Settled(rows'[f]) => Owed(f)')
  BY ComingStep, InsertOwedStep, SettledStep
<1>4. ASSUME NEW f \in Files PROVE Waits(rows'[f])
  <2>1. CASE Commit
    BY <1>1, <2>1, CommitKnown
  <2>2. CASE ~Commit
    BY <1>1, <2>2, KnownRows DEF KnownStep, KnownInv
  <2> QED BY <2>1, <2>2
<1> QED BY <1>2, <1>3, <1>4 DEF KnownInv, Settled, Waits

\* When the daemon comes to rest, every file under its path has a row, and the
\* row tells the version the file has: whatever events, walks and upserts fell
\* between the reads of the worker and its commits, an event or a walk that
\* knows better is never spent on a row that then settles in an older version.
\* Excepted are a crash, which loses the events (the delta reconcile repairs
\* that); an I/O error, after which a settling row may fail in the version it
\* was queued with (worker.rs); a file that settle finds ineligible, whose row
\* then rests in the version that was opened, whatever was written since; and,
\* because the argument needs HashesAreSound, what that theorem excepts.
THEOREM NothingIsForgotten ==
  ASSUME {"crash", "unskip", "return"} \cap Moves = {},
         ~({"move_in", "purge"} \subseteq Moves), {"io", "ineligible"} \cap Faults = {}
  PROVE  Spec => []NothingForgotten
<1>1. Init => KnownInv
  <2> SUFFICES ASSUME Init PROVE KnownInv
    OBVIOUS
  <2>1. WorkKnown(work)
    BY DEF Init, WorkKnown, Idle
  <2>2. ASSUME NEW f \in Files
        PROVE  Coming(f) /\ InsertOwed(f) /\ ~Settled(rows[f]) /\ Waits(rows[f])
    <3>1. rows[f].state = "absent" /\ seen["scheduler"] = Nothing
      BY <2>2 DEF Init, NoRow, BlankRow, Threads
    <3>2. present[f] => pending[f] # <<>> \/ f \in boot.left
      BY <2>2 DEF Init
    <3> QED BY <3>1, <3>2 DEF Coming, Tracked, InsertOwed, Nothing, Settled, Waits, Resting, Proven
  <2> QED BY <2>1, <2>2 DEF KnownInv
<1>2. /\ IInv /\ TrackInv /\ WorkTimely(work) /\ HashInv /\ KnownInv /\ [Next]_vars
      => KnownInv'
  BY KnownInvStep
<1>3. IInv /\ HashInv /\ KnownInv => NothingForgotten
  <2> SUFFICES ASSUME IInv, HashInv, KnownInv, Quiescent, NEW f \in Files, present[f]
               PROVE  rows[f].state \notin Lost \union {"absent"} /\ rows[f].fp = Version(f)
    BY DEF NothingForgotten
  <2>1. /\ pending[f] = <<>> /\ seen["watcher"] = Nothing /\ seen["scheduler"] = Nothing
        /\ boot.left = {} /\ (rows[f].state \in Queued => rows[f].ready = "null")
    BY DEF Quiescent, Threads
  <2>2. ~Tracked(f)
    BY <2>1 DEF Tracked
  <2>3. rows[f].state \notin Lost \union {"absent"}
    BY <2>1, <2>2 DEF HashInv, RowOK, KnownInv, Coming, Nothing
  <2>4. Settled(rows[f])
    <3>1. rows[f].state \in State /\ rows[f].state # "settling"
      BY <2>1, <2>3 DEF IInv, TypeOK, Row, KnownInv, Waits, Queued
    <3> QED BY <2>1, <2>3, <3>1 DEF Settled, State, Queued
  <2> QED BY <2>2, <2>3, <2>4 DEF KnownInv, Owed
<1>4. (Spec => []TrackInv) /\ (Spec => [](WorkTimely(work) /\ HashInv))
  BY EventsLead, HashesKept
<1> QED BY <1>1, <1>2, <1>3, <1>4, Invariance, PTL DEF Spec

(* ------------------- files that are never overwritten ------------------ *)

\* The argument for NoMissedDuplicate.  Once a file is overwritten nothing is
\* claimed any more, so each invariant below is about states in which every
\* version is 0 or 1, and every row that exists is about version 1.
Unwritten    == \A f \in Files : Version(f) <= 1
FirstHash(f) == HashOf[Body(f, 1)]

\* The rows whose file was found settled, and those that a group was found for.
Past   == {"sized", "hashed", "distinct", "canonical"} \union Proven
Placed == {"hashed", "canonical"} \union Proven

\* No group before g that has the hash of f is led by a file of f's content.
Passed(f, g) ==
  /\ g \in 1..Len(groups) /\ groups[g].hash = FirstHash(f)
  /\ \A i \in 1..(g - 1) : groups[i].hash = FirstHash(f) => Body(groups[i].canon, 1) # Body(f, 1)

\* A distinct row: no group and no other distinct row can be of its content.
Sole(f) ==
  /\ \A g \in 1..Len(groups) : rows[f].hash # NoHash /\ groups[g].hash # rows[f].hash
  /\ \A p \in Files \ {f} : rows[p].state = "distinct" =>
       rows[f].hash # NoHash /\ rows[p].hash # NoHash /\ rows[f].hash # rows[p].hash

\* What is true of the row of f.
FirstRow(f) ==
  LET row == rows[f]
  IN row.state # "absent" =>
       /\ present[f] /\ row.fp = 1 /\ row.state \notin Lost
       /\ row.hash \in {NoHash, FirstHash(f)}
       /\ row.state \in Placed => row.hash # NoHash
       /\ row.state \in Past => ~fresh[f]
       /\ row.group # 0 => Passed(f, row.group)
       /\ row.state = "canonical" => row.group # 0 /\ groups[row.group].canon = f
       /\ row.state = "distinct" => Sole(f)

\* Every group is led by a canonical row that is its member.
Led == \A g \in 1..Len(groups) :
         LET c == groups[g].canon IN c \in Files /\ rows[c].state = "canonical" /\ rows[c].group = g

\* Outside the tables, too, only first versions of files that are there.
FirstSeen ==
  /\ \A f \in Files : /\ Version(f) > 0 => present[f]
                      /\ fresh[f] => present[f]
                      /\ \A i \in DOMAIN pending[f] : pending[f][i] = "touched"
  /\ \A t \in Threads : seen[t] # Nothing => present[seen[t].file] /\ seen[t].fp = 1
  /\ seen["scheduler"].by = "insert" /\ ~seen["scheduler"].fresh => ~fresh[seen["scheduler"].file]
  /\ boot.phase = "A" => groups = <<>> /\ work = Idle

\* A change the worker decided on, in a transition with group operation op.
FirstChange(c, op) ==
  LET p == c.patch  row == rows[c.file]
  IN /\ c.from \notin {"canonical", "absent"} /\ c.to \notin Lost
     /\ row.state # "absent"
     /\ "fp" \in DOMAIN p => p.fp = 1
     /\ "hash" \in DOMAIN p => \/ p.hash = NoHash /\ c.to = "settling"
                               \/ p.hash = FirstHash(c.file) /\ c.from = c.to
     /\ "group" \in DOMAIN p => p.group = 0 \/ Passed(c.file, p.group)
     /\ c.to \in Past => c.from \in Past \/ ~fresh[c.file]
     /\ c.to \in Placed => row.hash # NoHash
     /\ c.to = "canonical" =>
          c.from \in {"sized", "distinct", "hashed"} /\ op.op = "create" /\ op.canon = c.file
     /\ c.to = "distinct" => \/ c.from = "distinct" /\ row.hash = NoHash
                             \/ op = NoOp /\ row.hash # NoHash /\ "hash" \notin DOMAIN p /\ Sole(c.file)

\* The group t creates: its first members differ from all that lead groups of
\* the same hash, and the distinct rows of that hash become members.
Leads(t) ==
  LET c == t.op.canon  all == {t.self} \union t.others
  IN /\ \E ch \in all : ch.file = c /\ ch.to = "canonical" /\ rows[c].state = ch.from
     /\ \A f \in {c, t.self.file} :
          /\ t.op.hash = FirstHash(f)
          /\ \A i \in 1..Len(groups) : groups[i].hash = t.op.hash => Body(groups[i].canon, 1) # Body(f, 1)
     /\ \A p \in Files : rows[p].state = "distinct" =>
          /\ rows[p].hash # NoHash
          /\ rows[p].hash = t.op.hash =>
               \E ch \in t.others : ch.file = p /\ ch.from = "distinct" /\ ch.to \in {"hashed", "canonical"}

\* What the worker holds.
FirstWork(w) ==
  /\ w.phase = "settle" => w.row.state = "settling" /\ ~fresh[w.file]
  /\ w.phase = "hash" => w.row.state = "sized"
  /\ w.phase = "backfill" =>
       /\ w.row.state = "sized" /\ w.peer # w.file /\ w.peerRow.fp = 1
       /\ rows[w.peer].state = w.peerRow.state /\ rows[w.peer].hash = NoHash
  /\ w.phase = "compare" =>
       /\ w.row.state = "hashed" /\ w.row.hash = FirstHash(w.file) /\ w.peerRow.fp = 1
       /\ Passed(w.file, w.row.group) /\ groups[w.row.group].canon = w.peer
  /\ w.phase = "commit" =>
       /\ \A c \in {w.t.self} \union w.t.others : FirstChange(c, w.t.op)
       /\ \A c, d \in w.t.others : c.file = d.file => c = d
       /\ \A c \in w.t.others : c.file # w.t.self.file /\ (c.to = "distinct" => c.from = "distinct")
       /\ w.t.op = NoOp \/ (w.t.op.op = "create" /\ Leads(w.t))
  /\ w.phase \in {"settle", "hash", "backfill", "compare"} =>
       LET row == rows[w.file]
       IN row.state = w.row.state /\ row.hash = w.row.hash /\ row.group = w.row.group /\ w.row.fp = 1

\* The invariant.
FirstInv  == (\A f \in Files : FirstRow(f)) /\ Led /\ FirstSeen
UniqueInv == Unwritten => FirstInv /\ FirstWork(work)

\* What the lemmas below suppose of the tables.
Placid == IInv /\ Unwritten /\ FirstInv

\* A file with a row is there, in its first version.
LEMMA FirstFacts ==
  ASSUME Placid, NEW f \in Files
  PROVE  /\ rows[f] \in Row /\ Version(f) \in Nat /\ Version(f) <= 1
         /\ present[f] <=> Version(f) = 1
         /\ rows[f].state # "absent" => /\ present[f] /\ Version(f) = 1 /\ rows[f].fp = 1
                                        /\ rows[f].state \notin Lost
         /\ rows[f].state = "absent" => rows[f].group = 0
<1>1. /\ rows[f] \in Row /\ Version(f) \in Nat /\ Version(f) <= 1
      /\ rows[f].state = "absent" => rows[f].group = 0
  BY DEF Placid, IInv, TypeOK, Version, Unwritten, AbsentIsGroupless
<1>2. present[f] <=> Version(f) = 1
  BY <1>1 DEF Placid, IInv, Born, FirstInv, FirstSeen
<1> QED BY <1>1, <1>2 DEF Placid, FirstInv, FirstRow

\* What a step leaves of a file that is there ...
Remains(f) == /\ present'[f] /\ Version(f)' = 1 /\ Body(f, 1)' = Body(f, 1)
              /\ fresh'[f] => fresh[f]

\* ... when it makes none vanish and writes nothing a second time.
LEMMA FilesRemain ==
  ASSUME Placid, "vanish" \notin Moves, [Next]_vars, Unwritten'
  PROVE  \A f \in Files : /\ present[f] => Remains(f)
                          /\ Version(f)' > 0 => present'[f]
                          /\ fresh'[f] => present'[f]
<1>1. /\ TypeOK /\ Grows /\ \A f \in Files : present[f] <=> Version(f) = 1
      /\ \A f \in Files : Version(f) \in Nat /\ (fresh[f] => present[f])
  BY StepGrows, FirstFacts DEF Placid, IInv, FirstInv, FirstSeen
<1> SUFFICES ASSUME NEW f \in Files
             PROVE  /\ present[f] => Remains(f)
                    /\ Version(f)' > 0 => present'[f]
                    /\ fresh'[f] => present'[f]
  OBVIOUS
<1>2. /\ Version(f)' \in Nat /\ Version(f)' <= 1 /\ Version(f) <= Version(f)'
      /\ present[f] => Version(f)' = 1 /\ Body(f, 1)' = Body(f, 1)
  BY <1>1 DEF Grows, Unwritten
<1>3. ASSUME present'[f] = present[f] \/ present'[f], Version(f)' = Version(f) \/ present'[f],
             fresh'[f] = fresh[f] \/ ~fresh'[f]
      PROVE  /\ present[f] => Remains(f)
             /\ Version(f)' > 0 => present'[f]
             /\ fresh'[f] => present'[f]
  BY <1>1, <1>2, <1>3 DEF Remains
<1>4. ASSUME NEW g \in Files, Write(g) PROVE FALSE
  <2>1. PICK c \in Contents : history' = [history EXCEPT ![g] = Append(@, c)]
    BY <1>4 DEF Write
  <2>2. history[g] \in Seq(Contents) /\ history'[g] = Append(history[g], c) /\ Version(g) = 1
    BY <1>1, <1>4, <2>1 DEF TypeOK, Write
  <2>3. Version(g)' = 2
    BY <2>2 DEF Version
  <2> QED BY <2>3 DEF Unwritten
<1>5. ASSUME NEW g \in Files, MoveIn(g) PROVE present' = [present EXCEPT ![g] = TRUE] /\ fresh' = fresh
  BY <1>5 DEF MoveIn
<1>6. ASSUME NEW g \in Files, MoveIn(g), f # g PROVE Version(f)' = Version(f)
  BY <1>1, <1>6 DEF MoveIn, TypeOK, Version
<1>7. ASSUME NEW g \in Files, Return(g) PROVE FALSE
  BY <1>7 DEF Return, Placid, FirstInv, FirstSeen
<1>8. ASSUME NEW g \in Files, Age(g) PROVE UNCHANGED <<history, present>> /\ (fresh'[f] => fresh[f])
  BY <1>1, <1>8 DEF Age, TypeOK
<1>9. \/ UNCHANGED <<history, present, fresh>>
      \/ \E g \in Files : Write(g) \/ MoveIn(g) \/ Return(g) \/ Age(g)
  BY DEF Next, Environment, Vanish, FallDue, Overdue, Crash, Watcher, WatchTouched, WatchRemoved,
     WatchMovedOut, WatchCommit,
     Walk, WalkSee, WalkInsert, ScanPhaseB, ReconcileCommit, PresenceCommit,
     Scheduler, ReconcileSee, PresenceSee, PresenceFinish, Expire, Purge, Unskip, Requeue,
     Worker, Take, Finish, FinishSettle, FinishHash, FinishBackfill, FinishSame,
     FinishDiffers, FinishError, Commit, vars, disk
<1>10. CASE UNCHANGED <<history, present, fresh>>
  BY <1>3, <1>10 DEF Version
<1>11. ASSUME NEW g \in Files, MoveIn(g)
       PROVE  /\ present[f] => Remains(f)
              /\ Version(f)' > 0 => present'[f]
              /\ fresh'[f] => present'[f]
  <2>1. present'[f] = present[f] \/ present'[f]
    BY <1>1, <1>5, <1>11 DEF TypeOK
  <2>2. Version(f)' = Version(f) \/ present'[f]
    BY <1>1, <1>5, <1>6, <1>11 DEF TypeOK
  <2> QED BY <1>3, <1>5, <1>11, <2>1, <2>2
<1>12. ASSUME NEW g \in Files, Age(g)
       PROVE  /\ present[f] => Remains(f)
              /\ Version(f)' > 0 => present'[f]
              /\ fresh'[f] => present'[f]
  <2>1. present' = present /\ Version(f)' = Version(f) /\ (fresh'[f] => fresh[f])
    BY <1>8, <1>12 DEF Version
  <2> QED BY <1>1, <1>2, <2>1 DEF Remains
<1> QED BY <1>4, <1>7, <1>9, <1>10, <1>11, <1>12

\* What a step of another thread may do to the row of f.
Visit(f) ==
  LET old == rows[f]  new == rows'[f]
  IN \/ /\ new.fp = old.fp /\ new.hash = old.hash /\ new.group = old.group
        /\ \/ new.state = old.state
           \/ old.state = "skipped" /\ new.state = "settling"
           \/ old.state = "verified" /\ new.state = "hashed"
           \/ /\ old.state = "sized" /\ new.state = "distinct" /\ boot.phase = "A"
              /\ \A p \in Files \ {f} : rows[p].state = "absent" /\ rows'[p].state = "absent"
     \/ /\ old.state = "absent" /\ present[f]
        /\ new.fp = 1 /\ new.hash = NoHash /\ new.group = 0
        /\ new.state = "settling" \/ (new.state = "sized" /\ ~fresh[f])

\* The upsert of a first version inserts a row or leaves it what it is.
LEMMA UpsertVisits ==
  ASSUME Placid, NEW f \in Files, present[f], NEW ready, Upsert(f, 1, ready)
  PROVE  groups' = groups /\ \A g \in Files : Visit(g)
<1>1. /\ rows \in [Files -> Row] /\ rows[f] \in Row
      /\ rows[f].state = "absent" => rows[f].group = 0
      /\ rows[f].state # "absent" => rows[f].fp = 1 /\ rows[f].state # "missing"
  BY FirstFacts DEF Placid, IInv, TypeOK, Lost
<1> DEFINE row == UpsertRow(rows[f], 1, ready)
<1>2. rows' = [rows EXCEPT ![f] = row] /\ groups' = UpsertGroups(rows, groups, f, 1, ready)
  BY DEF Upsert
<1>3. CASE rows[f].state = "absent"
  <2>1. row.state = "settling" /\ row.fp = 1 /\ row.hash = NoHash /\ row.group = 0
    BY <1>3 DEF UpsertRow, NewRow, BlankRow
  <2>2. groups' = groups
    BY <1>1, <1>2, <1>3 DEF UpsertGroups
  <2> HIDE DEF row
  <2> QED BY <1>1, <1>2, <1>3, <2>1, <2>2 DEF Visit
<1>4. CASE rows[f].state # "absent"
  <2>1. row.state = rows[f].state /\ row.fp = rows[f].fp /\ row.hash = rows[f].hash
        /\ row.group = rows[f].group
    BY <1>1, <1>4 DEF UpsertRow, Upserted, Row
  <2>2. groups' = groups
    BY <1>2, <2>1 DEF UpsertGroups
  <2> HIDE DEF row
  <2> QED BY <1>1, <1>2, <2>1, <2>2 DEF Visit
<1> QED BY <1>3, <1>4

\* Phase B calls a row distinct only when it is the only one.
LEMMA PhaseBVisits ==
  ASSUME Placid, IsFiniteSet(Files), ScanPhaseB
  PROVE  \A f \in Files : Visit(f)
<1>1. rows \in [Files -> Row]
  BY DEF Placid, IInv, TypeOK
<1> DEFINE live == {f \in Files : rows[f].state \notin Lost \union {"absent"}}
<1> SUFFICES ASSUME NEW f \in Files PROVE Visit(f)
  OBVIOUS
<1>2. CASE rows'[f] = rows[f] \/ rows'[f] = [rows[f] EXCEPT !.ready = "due"]
  BY <1>1, <1>2 DEF Visit, Row
<1>3. ASSUME rows[f].state = "sized", ~(Cardinality(live) > 1),
             rows'[f] = [rows[f] EXCEPT !.state = "distinct"]
      PROVE  Visit(f)
  <2>1. IsFiniteSet(live) /\ f \in live /\ live \subseteq Files
    BY <1>3, FS_Subset DEF Lost
  <2>2. live = {f}
    <3>1. Cardinality(live) \in Nat /\ Cardinality({f}) = 1 /\ IsFiniteSet({f})
      BY <2>1, FS_CardinalityType, FS_Singleton
    <3>2. Cardinality({f}) <= Cardinality(live) /\ (Cardinality({f}) = Cardinality(live) => {f} = live)
      <4>1. {f} \subseteq live
        BY <2>1
      <4> HIDE DEF live
      <4> QED BY <2>1, <4>1, FS_Subset
    <3> QED BY <1>3, <3>1, <3>2
  <2>3. \A p \in Files \ {f} : rows[p].state = "absent"
    <3> SUFFICES ASSUME NEW p \in Files \ {f} PROVE rows[p].state = "absent"
      OBVIOUS
    <3>1. p \notin live
      BY <2>2
    <3> QED BY <3>1, FirstFacts
  <2>4. \A p \in Files \ {f} : rows'[p].state = "absent"
    <3> SUFFICES ASSUME NEW p \in Files \ {f} PROVE rows'[p].state = "absent"
      OBVIOUS
    <3>1. rows[p].state = "absent"
      BY <2>3
    <3>2. rows'[p] = rows[p]
      BY <3>1 DEF ScanPhaseB
    <3> QED BY <3>1, <3>2
  <2>5. /\ rows'[f].state = "distinct" /\ rows'[f].fp = rows[f].fp
        /\ rows'[f].hash = rows[f].hash /\ rows'[f].group = rows[f].group
    BY <1>1, <1>3 DEF Row
  <2>6. boot.phase = "A"
    BY DEF ScanPhaseB
  <2> QED BY <1>3, <2>3, <2>4, <2>5, <2>6 DEF Visit
<1> QED BY <1>2, <1>3 DEF ScanPhaseB

\* Every step but the commit of the worker visits the rows.
LEMMA StepVisits ==
  ASSUME Placid, "vanish" \notin Moves, IsFiniteSet(Files), [Next]_vars
  PROVE  Commit \/ (groups' = groups /\ \A f \in Files : Visit(f))
<1>1. /\ TypeOK /\ rows \in [Files -> Row] /\ FirstSeen
      /\ \A f \in Files : rows[f] \in Row
  BY DEF Placid, IInv, TypeOK, FirstInv
<1>2. ASSUME rows' = rows PROVE \A f \in Files : Visit(f)
  BY <1>2 DEF Visit
<1>3. ASSUME NEW f \in Files, NEW row, rows' = [rows EXCEPT ![f] = row],
             row.fp = rows[f].fp, row.hash = rows[f].hash, row.group = rows[f].group,
             \/ row.state = rows[f].state
             \/ rows[f].state = "skipped" /\ row.state = "settling"
             \/ rows[f].state = "verified" /\ row.state = "hashed"
      PROVE  \A g \in Files : Visit(g)
  BY <1>1, <1>3 DEF Visit
<1>4. ASSUME NEW t \in Threads, seen[t].by # "nothing"
      PROVE  seen[t].file \in Files /\ present[seen[t].file] /\ seen[t].fp = 1
  BY <1>1, <1>4 DEF TypeOK, SeenEntry, Nothing, FirstSeen
<1>5. ASSUME NEW f \in Files, FallDue(f) \/ Overdue(f)
      PROVE  groups' = groups /\ \A g \in Files : Visit(g)
  <2>1. PICK row : /\ \/ row = [rows[f] EXCEPT !.ready = "due"]
                      \/ row = [rows[f] EXCEPT !.hws = "overdue"]
                   /\ rows' = [rows EXCEPT ![f] = row]
    BY <1>5 DEF FallDue, Overdue
  <2>2. /\ row.fp = rows[f].fp /\ row.hash = rows[f].hash /\ row.group = rows[f].group
        /\ row.state = rows[f].state
    BY <1>1, <2>1 DEF Row
  <2> QED BY <1>3, <1>5, <2>1, <2>2 DEF FallDue, Overdue
<1>6. ASSUME NEW f \in Files, Unskip(f)
      PROVE  groups' = groups /\ \A g \in Files : Visit(g)
  <2> DEFINE row == IF rows[f].state = "skipped"
                    THEN [rows[f] EXCEPT !.state = "settling", !.ready = "due",
                                         !.prev = "skipped", !.skip = "none"]
                    ELSE [rows[f] EXCEPT !.skip = "none"]
  <2>1. rows' = [rows EXCEPT ![f] = row] /\ groups' = groups
    BY <1>6 DEF Unskip
  <2>2. /\ row.fp = rows[f].fp /\ row.hash = rows[f].hash /\ row.group = rows[f].group
        /\ row.state = rows[f].state \/ (rows[f].state = "skipped" /\ row.state = "settling")
    BY <1>1 DEF Row
  <2> HIDE DEF row
  <2> QED BY <1>3, <2>1, <2>2
<1>7. ASSUME NEW f \in Files, Requeue(f)
      PROVE  groups' = groups /\ \A g \in Files : Visit(g)
  <2> DEFINE half == [rows[f] EXCEPT !.state = "hashed"]
             row  == [half EXCEPT !.ready = "due"]
  <2>1. rows' = [rows EXCEPT ![f] = row] /\ rows[f].state = "verified" /\ groups' = groups
    BY <1>7, Zenon DEF Requeue
  <2>2. /\ half.state = "hashed" /\ half.fp = rows[f].fp /\ half.hash = rows[f].hash
        /\ half.group = rows[f].group
    BY <1>1 DEF Row
  <2> HIDE DEF half
  <2>3. /\ row.state = half.state /\ row.fp = half.fp /\ row.hash = half.hash
        /\ row.group = half.group
    OBVIOUS
  <2> HIDE DEF row
  <2> QED BY <1>3, <2>1, <2>2, <2>3
<1>8. ASSUME NEW f \in Files, Expire(f) \/ Purge(f) PROVE FALSE
  <2>1. rows[f].state \in Lost
    BY <1>8 DEF Expire, Purge, Lost
  <2> QED BY <2>1, FirstFacts DEF Lost
<1>9. ASSUME NEW f \in Files, WatchRemoved(f) PROVE FALSE
  <2>1. pending[f] \in Seq({"touched", "removed", "moved_out"}) /\ pending[f] # <<>>
        /\ Head(pending[f]) = "removed"
    BY <1>1, <1>9 DEF WatchRemoved, TakeEvent, TypeOK
  <2>2. 1 \in DOMAIN pending[f] /\ Head(pending[f]) = pending[f][1]
    BY <2>1
  <2> QED BY <1>1, <2>1, <2>2 DEF FirstSeen
<1>10. ASSUME NEW f \in Files, WatchMovedOut(f) PROVE FALSE
  <2>1. pending[f] \in Seq({"touched", "removed", "moved_out"}) /\ pending[f] # <<>>
        /\ Head(pending[f]) = "moved_out"
    BY <1>1, <1>10 DEF WatchMovedOut, TakeEvent, TypeOK
  <2>2. 1 \in DOMAIN pending[f] /\ Head(pending[f]) = pending[f][1]
    BY <2>1
  <2> QED BY <1>1, <2>1, <2>2 DEF FirstSeen
<1>11. ASSUME NEW f \in Files, PresenceFinish(f)
       PROVE  groups' = groups /\ \A g \in Files : Visit(g)
  <2>1. rows[f].state = "absent"
    BY <1>11, FirstFacts DEF PresenceFinish
  <2>2. rows' = [rows EXCEPT ![f] = rows[f]] /\ groups' = groups
    BY <1>11, <2>1 DEF PresenceFinish, MarkedMissing
  <2>3. rows' = rows
    BY <1>1, <2>2
  <2> QED BY <1>2, <2>2, <2>3
<1>12. CASE WatchCommit
  <2>1. seen["watcher"].by # "nothing" /\ "watcher" \in Threads
    BY <1>1, <1>12 DEF WatchCommit, TypeOK, SeenEntry, Nothing, Threads
  <2>2. Upsert(seen["watcher"].file, 1, "later")
    BY <1>4, <1>12, <2>1 DEF WatchCommit
  <2> QED BY <1>4, <2>1, <2>2, UpsertVisits
<1>13. CASE ReconcileCommit \/ PresenceCommit
  <2>1. /\ seen["scheduler"].file \in Files /\ present[seen["scheduler"].file]
        /\ seen["scheduler"].fp = 1
    BY <1>4, <1>13 DEF ReconcileCommit, PresenceCommit, Threads
  <2>2. UNCHANGED db \/ \E ready \in {"due", "later"} : Upsert(seen["scheduler"].file, 1, ready)
    BY <1>13, <2>1 DEF ReconcileCommit, PresenceCommit
  <2> QED BY <1>2, <2>1, <2>2, UpsertVisits DEF db
<1>14. CASE WalkInsert
  <2> DEFINE e == seen["scheduler"]
             row == IF rows[e.file].state # "absent" THEN rows[e.file]
                    ELSE IF e.fresh THEN BlankRow("settling", e.fp, "later")
                    ELSE BlankRow("sized", e.fp, "null")
  <2>1. /\ e.file \in Files /\ present[e.file] /\ e.fp = 1
        /\ ~e.fresh => ~fresh[e.file]
    BY <1>1, <1>4, <1>14 DEF WalkInsert, Threads, FirstSeen
  <2>2. rows' = [rows EXCEPT ![e.file] = row] /\ groups' = groups
    BY <1>14 DEF WalkInsert
  <2>3. \/ row = rows[e.file]
        \/ /\ rows[e.file].state = "absent" /\ row.fp = 1 /\ row.hash = NoHash /\ row.group = 0
           /\ row.state = "settling" \/ (row.state = "sized" /\ ~fresh[e.file])
    BY <2>1 DEF BlankRow
  <2> HIDE DEF e, row
  <2> QED BY <1>1, <2>1, <2>2, <2>3 DEF Visit
<1>15. CASE ScanPhaseB
  BY <1>15, PhaseBVisits DEF ScanPhaseB
<1>16. \/ (rows' = rows /\ groups' = groups) \/ WatchCommit \/ ReconcileCommit \/ PresenceCommit
       \/ WalkInsert \/ ScanPhaseB \/ Commit
       \/ \E f \in Files : \/ FallDue(f) \/ Overdue(f) \/ WatchRemoved(f) \/ WatchMovedOut(f)
                           \/ PresenceFinish(f) \/ Expire(f) \/ Purge(f) \/ Unskip(f) \/ Requeue(f)
  BY DEF Next, Environment, Write, MoveIn, Vanish, Return, Age, Crash,
     Watcher, WatchTouched, Walk, WalkSee, Scheduler, ReconcileSee, PresenceSee,
     Worker, Take, Finish, FinishSettle, FinishHash, FinishBackfill, FinishSame,
     FinishDiffers, FinishError, vars, db
<1> QED BY <1>2, <1>5, <1>6, <1>7, <1>8, <1>9, <1>10, <1>11, <1>12, <1>13, <1>14, <1>15, <1>16

\* What the threads have seen and heard is of a first version.
LEMMA FirstSeenStep ==
  ASSUME Placid, "vanish" \notin Moves, [Next]_vars, Unwritten'
  PROVE  /\ \A t \in Threads : seen'[t] # Nothing => present'[seen'[t].file] /\ seen'[t].fp = 1
         /\ seen'["scheduler"].by = "insert" /\ ~seen'["scheduler"].fresh =>
              ~fresh'[seen'["scheduler"].file]
<1>1. /\ TypeOK /\ DOMAIN seen = Threads /\ Threads = {"watcher", "scheduler"} /\ FirstSeen
      /\ \A f \in Files : present[f] => Version(f) = 1
  BY FirstFacts DEF Placid, IInv, TypeOK, Threads, FirstInv
<1> DEFINE Goal == /\ \A t \in Threads : seen'[t] # Nothing => present'[seen'[t].file] /\ seen'[t].fp = 1
                   /\ seen'["scheduler"].by = "insert" /\ ~seen'["scheduler"].fresh =>
                        ~fresh'[seen'["scheduler"].file]
<1>2. ASSUME NEW t \in Threads, seen'[t] = seen[t]
      PROVE  /\ seen'[t] # Nothing => present'[seen'[t].file] /\ seen'[t].fp = 1
             /\ t = "scheduler" /\ seen'[t].by = "insert" /\ ~seen'[t].fresh =>
                  ~fresh'[seen'[t].file]
  <2>1. seen[t] # Nothing => seen[t].file \in Files /\ present[seen[t].file] /\ seen[t].fp = 1
    BY <1>1 DEF TypeOK, SeenEntry, FirstSeen
  <2>2. seen[t] # Nothing => Remains(seen[t].file)
    BY <2>1, FilesRemain
  <2>3. seen[t].by = "insert" => seen[t] # Nothing
    BY DEF Nothing
  <2> QED BY <1>1, <1>2, <2>1, <2>2, <2>3 DEF Remains, FirstSeen
<1>3. CASE seen' = seen
  BY <1>1, <1>2, <1>3
<1>4. ASSUME NEW t \in Threads, seen' = [seen EXCEPT ![t] = Nothing] PROVE Goal
  <2>1. seen'[t] = Nothing /\ \A s \in Threads \ {t} : seen'[s] = seen[s]
    BY <1>1, <1>4
  <2>2. Nothing.by # "insert"
    BY DEF Nothing
  <2> QED BY <1>1, <1>2, <2>1, <2>2
<1>5. ASSUME NEW t \in Threads, NEW f \in Files, present[f], NEW e,
             e.file = f, e.fp = Version(f), e.by # "insert" \/ e.fresh = fresh[f],
             seen' = [seen EXCEPT ![t] = e]
      PROVE  Goal
  <2>1. seen'[t] = e /\ \A s \in Threads \ {t} : seen'[s] = seen[s]
    BY <1>1, <1>5
  <2>2. e.fp = 1 /\ Remains(f)
    BY <1>1, <1>5, FilesRemain
  <2> QED BY <1>1, <1>2, <1>5, <2>1, <2>2 DEF Remains
<1>6. ASSUME NEW f \in Files, WatchTouched(f) \/ WatchMovedOut(f) PROVE Goal
  <2>1. \/ seen' = seen
        \/ /\ present[f]
           /\ seen' = [seen EXCEPT !["watcher"] = [by |-> "upsert", file |-> f, fp |-> Version(f)]]
    BY <1>6 DEF WatchTouched, WatchMovedOut, See
  <2> QED BY <1>1, <1>3, <1>5, <2>1
<1>7. ASSUME NEW f \in Files, WalkSee(f) \/ ReconcileSee(f) \/ PresenceSee(f) PROVE Goal
  <2>1. \/ seen' = seen
        \/ /\ present[f]
           /\ \/ seen' = [seen EXCEPT !["scheduler"] =
                             [by |-> "insert", file |-> f, fp |-> Version(f), fresh |-> fresh[f]]]
              \/ seen' = [seen EXCEPT !["scheduler"] =
                             [by |-> "upsert", file |-> f, fp |-> Version(f), fresh |-> fresh[f]]]
              \/ seen' = [seen EXCEPT !["scheduler"] =
                             [by |-> "presence", file |-> f, fp |-> Version(f)]]
    BY <1>7 DEF WalkSee, ReconcileSee, PresenceSee, See
  <2> QED BY <1>1, <1>3, <1>5, <2>1
<1>8. CASE Crash
  BY <1>8 DEF Crash, Nothing, Threads
<1>9. \/ seen' = seen \/ Crash \/ \E t \in Threads : seen' = [seen EXCEPT ![t] = Nothing]
      \/ \E f \in Files : \/ WatchTouched(f) \/ WatchMovedOut(f)
                          \/ WalkSee(f) \/ ReconcileSee(f) \/ PresenceSee(f)
  BY DEF Threads, Drop, See, Next, Environment, Write, MoveIn, Vanish, Return, Age, FallDue, Overdue,
     Watcher, WatchRemoved, WatchCommit, Walk, WalkInsert, ScanPhaseB, ReconcileCommit, PresenceCommit,
     Scheduler, PresenceFinish, Expire, Purge, Unskip, Requeue,
     Worker, Take, Finish, FinishSettle, FinishHash, FinishBackfill, FinishSame,
     FinishDiffers, FinishError, Commit, vars
<1> QED BY <1>3, <1>4, <1>6, <1>7, <1>8, <1>9

\* The watcher hears of writes only.
LEMMA OnlyTouched ==
  ASSUME Placid, "vanish" \notin Moves, [Next]_vars, Unwritten'
  PROVE  \A f \in Files : \A i \in DOMAIN pending'[f] : pending'[f][i] = "touched"
<1>1. TypeOK /\ \A f \in Files : \A i \in DOMAIN pending[f] : pending[f][i] = "touched"
  BY DEF Placid, IInv, FirstInv, FirstSeen
<1> SUFFICES ASSUME NEW f \in Files PROVE \A i \in DOMAIN pending'[f] : pending'[f][i] = "touched"
  OBVIOUS
<1>2. pending[f] \in Seq({"touched", "removed", "moved_out"})
  BY <1>1 DEF TypeOK
<1>3. CASE pending'[f] = pending[f]
  BY <1>1, <1>3
<1>4. ASSUME NEW g \in Files, Announce(g, "touched")
      PROVE  pending'[f] = pending[f] \/ pending'[f] = Append(pending[f], "touched")
  BY <1>1, <1>4 DEF Announce, TypeOK
<1>5. CASE pending'[f] = Append(pending[f], "touched")
  BY <1>1, <1>2, <1>5
<1>6. ASSUME NEW g \in Files, NEW ev, TakeEvent(g, ev)
      PROVE  pending'[f] = pending[f] \/ (pending[f] # <<>> /\ pending'[f] = Tail(pending[f]))
  BY <1>1, <1>6 DEF TakeEvent, TypeOK
<1>7. CASE pending[f] # <<>> /\ pending'[f] = Tail(pending[f])
  <2>1. \A i \in 1..Len(pending[f]) - 1 : Tail(pending[f])[i] = pending[f][i + 1]
    BY <1>2, <1>7
  <2>2. DOMAIN Tail(pending[f]) = 1..Len(pending[f]) - 1 /\ DOMAIN pending[f] = 1..Len(pending[f])
        /\ Len(pending[f]) \in Nat
    BY <1>2, <1>7
  <2> QED BY <1>1, <1>7, <2>1, <2>2
<1>8. CASE Crash
  BY <1>8 DEF Crash
<1> QED BY <1>3, <1>4, <1>5, <1>6, <1>7, <1>8, DiskFates
     DEF Write, MoveIn, Vanish, Return, WatchTouched, WatchRemoved, WatchMovedOut

\* What is outside the tables.
LEMMA OutsideFirst ==
  ASSUME Placid, "vanish" \notin Moves, [Next]_vars, Unwritten', Commit \/ groups' = groups
  PROVE  FirstSeen'
<1>1. boot'.phase = "A" => groups' = <<>> /\ work' = Idle
  <2>1. boot.phase = "A" => groups = <<>> /\ work = Idle
    BY DEF Placid, FirstInv, FirstSeen
  <2>2. boot'.phase = "A" => boot.phase = "A"
    BY DEF Placid, IInv, TypeOK, Next, Environment, Write, MoveIn, Vanish, Return, Age, FallDue,
       Overdue, Crash, Watcher, WatchTouched, WatchRemoved, WatchMovedOut, WatchCommit,
       Walk, WalkSee, WalkInsert, ScanPhaseB, ReconcileCommit, PresenceCommit,
       Scheduler, ReconcileSee, PresenceSee, PresenceFinish, Expire, Purge, Unskip, Requeue,
       Worker, Take, Finish, FinishSettle, FinishHash, FinishBackfill, FinishSame,
       FinishDiffers, FinishError, Commit, vars
  <2>3. work = Idle /\ boot.phase = "A" => work' = Idle /\ ~Commit
    BY WorkFates DEF Take, FinishSettle, FinishHash, FinishBackfill, FinishSame,
       FinishDiffers, FinishError, Commit, Idle
  <2> QED BY <2>1, <2>2, <2>3
<1>2. \A f \in Files : (Version(f)' > 0 => present'[f]) /\ (fresh'[f] => present'[f])
  BY FilesRemain
<1> QED BY <1>1, <1>2, FirstSeenStep, OnlyTouched DEF FirstSeen

\* A group that f has passed stays passed while the groups stay.
LEMMA PassedStays ==
  ASSUME Placid, "vanish" \notin Moves, [Next]_vars, Unwritten', groups' = groups,
         NEW f \in Files, present[f], NEW g
  PROVE  /\ FirstHash(f)' = FirstHash(f)
         /\ Passed(f, g) => Passed(f, g)'
         /\ \A i \in 1..Len(groups) : Body(groups[i].canon, 1)' = Body(groups[i].canon, 1)
<1>1. Body(f, 1)' = Body(f, 1)
  BY FilesRemain DEF Remains
<1>2. ASSUME NEW i \in 1..Len(groups)
      PROVE  Body(groups[i].canon, 1)' = Body(groups[i].canon, 1)
  <2>1. groups[i].canon \in Files /\ rows[groups[i].canon].state = "canonical"
    BY DEF Placid, FirstInv, Led
  <2>2. present[groups[i].canon]
    BY <2>1, FirstFacts
  <2> QED BY <2>1, <2>2, FilesRemain DEF Remains
<1>3. FirstHash(f)' = FirstHash(f)
  BY <1>1 DEF FirstHash
<1>4. ASSUME Passed(f, g) PROVE Passed(f, g)'
  <2>1. /\ g \in 1..Len(groups) /\ groups[g].hash = FirstHash(f)
        /\ \A i \in 1..(g - 1) : groups[i].hash = FirstHash(f) => Body(groups[i].canon, 1) # Body(f, 1)
    BY <1>4 DEF Passed
  <2>2. Len(groups) \in Nat
    BY DEF Placid, IInv, TypeOK
  <2>3. \A i \in 1..(g - 1) : Body(groups[i].canon, 1)' = Body(groups[i].canon, 1)
    BY <1>2, <2>1, <2>2
  <2>4. \A i \in 1..(g - 1) : groups'[i].hash = FirstHash(f)' => Body(groups[i].canon, 1)' # Body(f, 1)'
    BY <1>1, <1>3, <2>1, <2>3
  <2> QED BY <1>3, <2>1, <2>4 DEF Passed
<1> QED BY <1>2, <1>3, <1>4

\* What a visit leaves of a row that is there.
LEMMA VisitFacts ==
  ASSUME Placid, NEW f \in Files, Visit(f), rows[f].state # "absent"
  PROVE  /\ rows'[f].state # "absent" /\ rows'[f].fp = rows[f].fp
         /\ rows'[f].hash = rows[f].hash /\ rows'[f].group = rows[f].group
         /\ boot.phase # "A" => \/ rows'[f].state = rows[f].state
                                \/ rows[f].state = "skipped" /\ rows'[f].state = "settling"
                                \/ rows[f].state = "verified" /\ rows'[f].state = "hashed"
BY DEF Visit

\* Only phase B makes a row distinct, when there is no other.
LEMMA DistinctVisits ==
  ASSUME NEW f \in Files, Visit(f), rows'[f].state = "distinct"
  PROVE  /\ rows'[f].hash = rows[f].hash
         /\ \/ rows[f].state = "distinct"
            \/ /\ boot.phase = "A" /\ rows[f].state = "sized"
               /\ \A p \in Files \ {f} : rows'[p].state = "absent" /\ rows[p].state = "absent"
BY DEF Visit

\* A row that is the only one of its content stays so while others visit the rows.
LEMMA SoleStays ==
  ASSUME Placid, \A p \in Files : Visit(p), groups' = groups, NEW f \in Files, Sole(f),
         rows[f].state # "absent",
         boot.phase # "A" \/ rows[f].state = "distinct"
  PROVE  Sole(f)'
<1>1. rows'[f].hash = rows[f].hash
  BY VisitFacts
<1>2. ASSUME NEW p \in Files \ {f}, rows'[p].state = "distinct"
      PROVE  rows'[p].hash = rows[p].hash /\ rows[p].state = "distinct"
  BY <1>2, DistinctVisits
<1> QED BY <1>1, <1>2 DEF Sole

\* A visit leaves a row that is right.
LEMMA RowVisited ==
  ASSUME Placid, "vanish" \notin Moves, [Next]_vars, Unwritten', groups' = groups,
         \A p \in Files : Visit(p), NEW f \in Files
  PROVE  FirstRow(f)'
<1>1. CASE rows[f].state = "absent"
  <2>1. \/ rows'[f].state = "absent"
        \/ /\ present[f] /\ rows'[f].fp = 1 /\ rows'[f].hash = NoHash /\ rows'[f].group = 0
           /\ rows'[f].state = "settling" \/ (rows'[f].state = "sized" /\ ~fresh[f])
    BY <1>1 DEF Visit
  <2>2. present[f] => present'[f] /\ (fresh'[f] => fresh[f])
    BY FilesRemain DEF Remains
  <2> QED BY <2>1, <2>2 DEF FirstRow, Lost, Past, Placed, Proven
<1>2. CASE rows[f].state # "absent"
  <2> DEFINE old == rows[f]
             new == rows'[f]
  <2>1. /\ new.state # "absent" /\ new.fp = old.fp /\ new.hash = old.hash /\ new.group = old.group
        /\ \/ new.state = old.state
           \/ old.state = "skipped" /\ new.state = "settling"
           \/ old.state = "verified" /\ new.state = "hashed"
           \/ /\ old.state = "sized" /\ new.state = "distinct" /\ boot.phase = "A"
              /\ \A p \in Files \ {f} : rows'[p].state = "absent"
    BY <1>2, VisitFacts DEF Visit
  <2>2. /\ present[f] /\ old.fp = 1 /\ old.state \notin Lost
        /\ old.hash \in {NoHash, FirstHash(f)}
        /\ old.state \in Placed => old.hash # NoHash
        /\ old.state \in Past => ~fresh[f]
        /\ old.group # 0 => Passed(f, old.group)
        /\ old.state = "canonical" => old.group # 0 /\ groups[old.group].canon = f
        /\ old.state = "distinct" => Sole(f)
    BY <1>2 DEF Placid, FirstInv, FirstRow
  <2>3. present'[f] /\ (fresh'[f] => fresh[f]) /\ FirstHash(f)' = FirstHash(f)
        /\ (new.group # 0 => Passed(f, old.group)')
    BY <2>1, <2>2, FilesRemain, PassedStays DEF Remains
  <2>4. ASSUME new.state = "distinct" PROVE Sole(f)'
    <3>1. CASE old.state = "distinct"
      BY <1>2, <2>2, <3>1, SoleStays
    <3>2. CASE old.state # "distinct"
      <4>1. boot.phase = "A" /\ \A p \in Files \ {f} : rows'[p].state = "absent"
        BY <2>1, <2>4, <3>2
      <4>2. groups' = <<>>
        BY <4>1 DEF Placid, FirstInv, FirstSeen
      <4> QED BY <4>1, <4>2 DEF Sole
    <3> QED BY <3>1, <3>2
  <2>5. /\ new.state \notin Lost
        /\ new.state \in Placed => new.hash # NoHash
        /\ new.state \in Past => ~fresh'[f]
        /\ new.state = "canonical" => old.state = "canonical"
    BY <2>1, <2>2, <2>3 DEF Lost, Past, Placed, Proven
  <2>6. /\ present'[f] /\ rows'[f].fp = 1 /\ rows'[f].state \notin Lost
        /\ rows'[f].hash \in {NoHash, FirstHash(f)'}
        /\ rows'[f].group # 0 => Passed(f, rows[f].group)'
        /\ rows'[f].state = "canonical" =>
             rows'[f].group # 0 /\ groups'[rows'[f].group].canon = f
    BY <2>1, <2>2, <2>3, <2>5
  <2> QED BY <2>4, <2>5, <2>6, Zenon DEF FirstRow
<1> QED BY <1>1, <1>2

\* ... and the groups led.
LEMMA LedVisited ==
  ASSUME Placid, groups' = groups, \A p \in Files : Visit(p)
  PROVE  Led'
<1> SUFFICES ASSUME NEW g \in 1..Len(groups), NEW c, c = groups[g].canon
             PROVE  c \in Files /\ rows'[c].state = "canonical" /\ rows'[c].group = g
  BY DEF Led
<1>1. c \in Files /\ rows[c].state = "canonical" /\ rows[c].group = g
  BY DEF Placid, FirstInv, Led
<1> QED BY <1>1 DEF Visit

\* What the worker has decided on stays right while others visit the rows ...
LEMMA FirstChangeStays ==
  ASSUME Placid, "vanish" \notin Moves, [Next]_vars, Unwritten', groups' = groups,
         \A p \in Files : Visit(p), boot.phase # "A",
         NEW c, NEW op, c.file \in Files, FirstChange(c, op)
  PROVE  FirstChange(c, op)' /\ FirstHash(c.file)' = FirstHash(c.file)
<1> DEFINE f == c.file
           p == c.patch
<1>1. rows[f].state # "absent" /\ present[f]
  BY FirstFacts DEF FirstChange
<1>2. rows'[f].state # "absent" /\ rows'[f].hash = rows[f].hash
  BY <1>1, VisitFacts
<1>3. (fresh'[f] => fresh[f]) /\ FirstHash(f)' = FirstHash(f)
      /\ \A g : Passed(f, g) => Passed(f, g)'
  BY <1>1, FilesRemain, PassedStays DEF Remains
<1>4. Sole(f) => Sole(f)'
  BY <1>1, SoleStays
<1> HIDE DEF f, p
<1>5. f = c.file /\ p = c.patch
  BY DEF f, p
<1>6. /\ c.from \notin {"canonical", "absent"} /\ c.to \notin Lost
      /\ "fp" \in DOMAIN p => p.fp = 1
      /\ "hash" \in DOMAIN p => \/ p.hash = NoHash /\ c.to = "settling"
                                \/ p.hash = FirstHash(f) /\ c.from = c.to
      /\ "group" \in DOMAIN p => p.group = 0 \/ Passed(f, p.group)
      /\ c.to \in Past => c.from \in Past \/ ~fresh[f]
      /\ c.to \in Placed => rows[f].hash # NoHash
      /\ c.to = "canonical" =>
           c.from \in {"sized", "distinct", "hashed"} /\ op.op = "create" /\ op.canon = f
      /\ c.to = "distinct" =>
           \/ c.from = "distinct" /\ rows[f].hash = NoHash
           \/ op = NoOp /\ rows[f].hash # NoHash /\ "hash" \notin DOMAIN p /\ Sole(f)
  BY <1>5 DEF FirstChange
<1>7. FirstChange(c, op)'
  BY <1>2, <1>3, <1>4, <1>5, <1>6, Zenon DEF FirstChange
<1> QED BY <1>3, <1>5, <1>7

\* A group about to be created stays new ...
LEMMA LeadsStays ==
  ASSUME Placid, "vanish" \notin Moves, [Next]_vars, Unwritten', groups' = groups,
         \A p \in Files : Visit(p), boot.phase # "A",
         NEW t, t.self.file \in Files, t.op.canon \in Files, Leads(t),
         \A c \in {t.self} \union t.others : FirstChange(c, t.op)
  PROVE  Leads(t)'
<1> DEFINE all == {t.self} \union t.others
           c   == t.op.canon
<1>1. PICK ch \in all : ch.file = c /\ ch.to = "canonical" /\ rows[c].state = ch.from
  BY DEF Leads
<1>2. rows[c].state \in {"sized", "distinct", "hashed"}
  BY <1>1 DEF FirstChange
<1>3. rows'[c].state = ch.from
  BY <1>1, <1>2, VisitFacts
<1>4. rows[t.self.file].state # "absent"
  BY DEF FirstChange
<1>5. ASSUME NEW f \in {c, t.self.file}
      PROVE  /\ t.op.hash = FirstHash(f)'
             /\ \A i \in 1..Len(groups) : groups[i].hash = t.op.hash =>
                  Body(groups[i].canon, 1)' # Body(f, 1)'
  <2>1. f \in Files /\ present[f]
    BY <1>2, <1>4, FirstFacts
  <2>2. /\ t.op.hash = FirstHash(f)
        /\ \A i \in 1..Len(groups) : groups[i].hash = t.op.hash => Body(groups[i].canon, 1) # Body(f, 1)
    BY DEF Leads
  <2>3. /\ FirstHash(f)' = FirstHash(f) /\ Body(f, 1)' = Body(f, 1)
        /\ \A i \in 1..Len(groups) : Body(groups[i].canon, 1)' = Body(groups[i].canon, 1)
    BY <2>1, PassedStays, FilesRemain DEF Remains
  <2> QED BY <2>2, <2>3
<1>6. ASSUME NEW p \in Files, rows'[p].state = "distinct"
      PROVE  /\ rows'[p].hash # NoHash
             /\ rows'[p].hash = t.op.hash =>
                  \E d \in t.others : d.file = p /\ d.from = "distinct" /\ d.to \in {"hashed", "canonical"}
  <2>1. rows[p].state = "distinct" /\ rows'[p].hash = rows[p].hash
    BY <1>6, DistinctVisits
  <2> QED BY <2>1 DEF Leads
<1>7. \E d \in all : d.file = c /\ d.to = "canonical" /\ rows'[c].state = d.from
  BY <1>1, <1>3
<1> QED BY <1>5, <1>6, <1>7 DEF Leads

\* ... and so does whatever else the worker holds.
LEMMA FirstWorkStays ==
  ASSUME Placid, FirstWork(work), "vanish" \notin Moves, [Next]_vars, Unwritten', groups' = groups,
         \A p \in Files : Visit(p), work' = work
  PROVE  FirstWork(work)'
<1>1. WorkOK(work) /\ (work # Idle => boot.phase # "A")
  BY DEF Placid, IInv, FirstInv, FirstSeen
<1>2. CASE work = Idle
  BY <1>2 DEF FirstWork, Idle
<1>3. CASE work.phase \in {"settle", "hash", "backfill", "compare"}
  <2>1. boot.phase # "A" /\ work.file \in Files /\ work.row.state \in Queued
        /\ (work.phase = "backfill" => work.peer \in Files /\ work.peerRow.state \in {"sized", "distinct"})
    BY <1>1, <1>3 DEF WorkOK, Idle, QueuedRow
  <2>2. PICK f \in Files : f = work.file
    BY <2>1
  <2>3. rows[f].state = work.row.state /\ rows[f].state # "absent" /\ present[f]
    BY <1>3, <2>1, <2>2, FirstFacts DEF FirstWork, Queued
  <2>4. /\ rows'[f].state = rows[f].state /\ rows'[f].hash = rows[f].hash
        /\ rows'[f].group = rows[f].group
    BY <2>1, <2>3, VisitFacts DEF Queued
  <2>5. (fresh'[f] => fresh[f]) /\ FirstHash(f)' = FirstHash(f)
        /\ \A g : Passed(f, g) => Passed(f, g)'
    BY <2>3, FilesRemain, PassedStays DEF Remains
  <2>6. work.phase = "backfill" =>
          rows'[work.peer].state = work.peerRow.state /\ rows'[work.peer].hash = NoHash
    <3> SUFFICES ASSUME work.phase = "backfill", NEW p \in Files, p = work.peer
                 PROVE  rows'[p].state = work.peerRow.state /\ rows'[p].hash = NoHash
      BY <2>1
    <3>1. rows[p].state = work.peerRow.state /\ rows[p].hash = NoHash
      BY DEF FirstWork
    <3> QED BY <2>1, <3>1, VisitFacts
  <2>7. work.phase # "commit"
    BY <1>3
  <2> QED BY <1>3, <2>2, <2>4, <2>5, <2>6, <2>7, Zenon DEF FirstWork
<1>4. CASE work.phase = "commit"
  <2>1. TransitionOK(work.t) /\ boot.phase # "A"
    BY <1>1, <1>4 DEF WorkOK, Idle
  <2>2. PICK t : t = work.t
    OBVIOUS
  <2>3. /\ \A c \in {t.self} \union t.others : c.file \in Files
        /\ t.op.op = "create" => t.op.canon \in Files
    BY <2>1, <2>2 DEF TransitionOK, ChangeOK, OpOK
  <2>4. /\ \A c \in {t.self} \union t.others : FirstChange(c, t.op)
        /\ \A c, d \in t.others : c.file = d.file => c = d
        /\ \A c \in t.others : c.file # t.self.file /\ (c.to = "distinct" => c.from = "distinct")
        /\ t.op = NoOp \/ (t.op.op = "create" /\ Leads(t))
    BY <1>4, <2>2, Zenon DEF FirstWork
  <2>5. \A c \in {t.self} \union t.others : FirstChange(c, t.op)'
    BY <2>1, <2>3, <2>4, FirstChangeStays
  <2>6. t.op.op = "create" /\ Leads(t) => Leads(t)'
    BY <2>1, <2>3, <2>4, LeadsStays
  <2>7. work.phase \notin {"settle", "hash", "backfill", "compare"}
    BY <1>4
  <2> QED BY <1>4, <2>2, <2>4, <2>5, <2>6, <2>7, Zenon DEF FirstWork
<1> QED BY <1>1, <1>2, <1>3, <1>4 DEF WorkOK, Idle

\* The worker holds the row of f as it is in the table.
Holding(f, row) ==
  /\ f \in Files /\ row.state \in Queued /\ row.fp = 1
  /\ rows[f].state = row.state /\ rows[f].hash = row.hash /\ rows[f].group = row.group

\* What is known of a row the worker holds.
LEMMA HoldingFacts ==
  ASSUME Placid, NEW f, NEW row, Holding(f, row)
  PROVE  /\ f \in Files /\ FirstRow(f) /\ present[f] /\ Version(f) = 1 /\ rows[f].state # "absent"
         /\ row.state \notin Lost \union {"canonical", "distinct", "absent"}
         /\ row.hash \in {NoHash, FirstHash(f)}
         /\ row.state \in Placed => row.hash # NoHash
         /\ row.state \in Past => ~fresh[f]
         /\ row.group # 0 => Passed(f, row.group)
<1>1. f \in Files /\ FirstRow(f) /\ rows[f].state # "absent"
      /\ row.state \notin Lost \union {"canonical", "distinct", "absent"}
  BY DEF Holding, Queued, Lost, Placid, FirstInv
<1> QED BY <1>1, FirstFacts DEF Holding, FirstRow

\* The hash of a first version is a hash.
LEMMA FirstHashed ==
  ASSUME Placid, NEW f \in Files, Version(f) = 1
  PROVE  FirstHash(f) \in Hashes /\ FirstHash(f) # NoHash
<1>1. history[f] \in Seq(Contents) /\ Len(history[f]) = 1
  BY DEF Placid, IInv, TypeOK, Version
<1>2. Body(f, 1) \in Contents
  BY <1>1 DEF Body
<1> QED BY <1>2, PipelineAssumption, NullAssumption DEF FirstHash

\* A change that neither calls a file unique nor learns a hash.
LEMMA OrdinaryChange ==
  ASSUME NEW f, rows[f].state # "absent", NEW from, from \notin {"canonical", "absent"},
         NEW to, to \notin Lost \union {"canonical", "distinct"},
         NEW p, "fp" \in DOMAIN p => p.fp = 1,
         "hash" \in DOMAIN p => p.hash = NoHash /\ to = "settling",
         "group" \in DOMAIN p => p.group = 0 \/ Passed(f, p.group),
         to \in Past => from \in Past \/ ~fresh[f],
         to \in Placed => rows[f].hash # NoHash, NEW op
  PROVE  FirstChange(Change(f, from, to, p), op)
<1> DEFINE c == Change(f, from, to, p)
<1>1. c.file = f /\ c.from = from /\ c.to = to /\ c.patch = p
  BY DEF Change
<1> HIDE DEF c
<1>2. FirstChange(c, op)
  BY <1>1 DEF FirstChange
<1> QED BY <1>2 DEF c

\* The worker decides on a change of one row.
LEMMA MoveFirst ==
  ASSUME NEW f, NEW from, NEW to, NEW p, FirstChange(Change(f, from, to, p), NoOp),
         Move(f, from, to, p)
  PROVE  FirstWork(work')
BY DEF Move, Decide, Transition, FirstWork

\* The row stays in the queue where it is.
LEMMA StayFirst ==
  ASSUME Placid, NEW f, NEW row, Holding(f, row), NEW p, {"fp", "hash"} \cap DOMAIN p = {},
         "group" \in DOMAIN p => Passed(f, p.group), Stay(f, row, p)
  PROVE  FirstWork(work')
<1>1. FirstChange(Change(f, row.state, row.state, p), NoOp)
  BY HoldingFacts, OrdinaryChange DEF Holding
<1> QED BY <1>1, MoveFirst DEF Stay

\* What every step may come to; a file that is there is not lost.
LEMMA OutcomeFirst ==
  ASSUME Placid, NEW f, NEW row, Holding(f, row)
  PROVE  /\ \A until \in {"due", "later"} : Defer(f, row, until) => FirstWork(work')
         /\ BackToSettling(f, row) => FirstWork(work')
         /\ WaitHeavy(f, row) => FirstWork(work')
         /\ Skip(f, row, SkipPatch) => FirstWork(work')
         /\ Retry(f, row) => FirstWork(work')
         /\ present[f]
<1>1. ASSUME NEW p, {"fp", "hash", "group"} \cap DOMAIN p = {}, Stay(f, row, p)
      PROVE  FirstWork(work')
  BY <1>1, StayFirst
<1>2. /\ FirstChange(Change(f, row.state, "settling",
                            [hash |-> NoHash, group |-> 0, ready |-> "later"]), NoOp)
      /\ FirstChange(Change(f, row.state, "skipped", SkipPatch), NoOp)
      /\ \A n : FirstChange(Change(f, row.state, "failed", [attempts |-> n, ready |-> "null"]), NoOp)
  BY HoldingFacts, OrdinaryChange DEF SkipPatch, Lost, Past, Placed, Proven
<1>3. \A until \in {"due", "later"} : Defer(f, row, until) => FirstWork(work')
  BY <1>1 DEF Defer
<1>4. BackToSettling(f, row) => FirstWork(work')
  BY <1>2, MoveFirst DEF BackToSettling
<1>5. WaitHeavy(f, row) => FirstWork(work')
  BY <1>1, <1>3 DEF WaitHeavy
<1>6. Skip(f, row, SkipPatch) => FirstWork(work')
  BY <1>2, MoveFirst DEF Skip
<1>7. Retry(f, row) => FirstWork(work')
  <2>1. ASSUME NEW n, Move(f, row.state, "failed", [attempts |-> n, ready |-> "null"])
        PROVE  FirstWork(work')
    BY <1>2, <2>1, MoveFirst
  <2> QED BY <1>1, <2>1 DEF Retry
<1> QED BY <1>3, <1>4, <1>5, <1>6, <1>7, HoldingFacts

\* settle::buoc, to the open ...
LEMMA SettleFirst ==
  ASSUME Placid, NEW f, NEW row, Holding(f, row), row.state = "settling", Settle(f, row)
  PROVE  FirstWork(work')
<1>1. CASE Stay(f, row, [enq |-> Version(f), ready |-> "later"])
  BY <1>1, StayFirst
<1>2. CASE ~fresh[f] /\ work' = [phase |-> "settle", file |-> f, row |-> row]
  BY <1>2 DEF FirstWork, Holding
<1> QED BY <1>1, <1>2, OutcomeFirst DEF Settle

\* ... and from it.
LEMMA SettleOpenedFirst ==
  ASSUME Placid, NEW f, NEW row, Holding(f, row), row.state = "settling", ~fresh[f],
         SettleOpened(f, row)
  PROVE  FirstWork(work')
<1>1. Version(f) = 1 /\ rows[f].state # "absent" /\ present[f]
  BY HoldingFacts
<1>2. CASE Move(f, "settling", "sized",
                [fp |-> Version(f), enq |-> Version(f), skip |-> "none", ready |-> "due"])
  BY <1>1, <1>2, OrdinaryChange, MoveFirst DEF Lost, Placed, Proven
<1>3. CASE Skip(f, row, [fp |-> Version(f), skip |-> "other", ready |-> "null"])
  BY <1>1, <1>3, OrdinaryChange, MoveFirst DEF Skip, Lost, Past, Placed, Proven
<1>4. CASE Stay(f, row, [fp |-> Version(f), skip |-> "other", ready |-> "later"])
  BY <1>1, <1>4, OrdinaryChange, MoveFirst DEF Stay, Lost, Past, Placed, Proven
<1> QED BY <1>1, <1>2, <1>3, <1>4 DEF SettleOpened

\* sua_ung_vien: another row changes, and f is looked at once more.
LEMMA RepairFirst ==
  ASSUME Placid, NEW f, NEW row, Holding(f, row), row.state = "sized", NEW p, p # f,
         NEW c, c.file = p, FirstChange(c, NoOp), c.to = "distinct" => c.from = "distinct",
         Decide(Transition(f, "sized", "sized", [ready |-> "due", hws |-> "no"], {c}, NoOp))
  PROVE  FirstWork(work')
<1>1. FirstChange(Change(f, "sized", "sized", [ready |-> "due", hws |-> "no"]), NoOp)
  BY HoldingFacts, OrdinaryChange DEF Lost, Past, Placed, Proven
<1> QED BY <1>1 DEF Decide, Transition, FirstWork, Change

\* backfill, up to the read: nobody wrote the candidate a second time.
LEMMA BackfillFirst ==
  ASSUME Placid, NEW f, NEW row, Holding(f, row), row.state = "sized",
         NEW p \in Candidates(f), rows[p].hash = NoHash, Backfill(f, row, p)
  PROVE  FirstWork(work')
<1>1. p \in Files /\ p # f /\ rows[p].state \in {"sized", "distinct"}
  BY DEF Candidates
<1>2. present[p] /\ Version(p) = 1 /\ rows[p].fp = 1
  BY <1>1, FirstFacts
<1>3. CASE Repair(f, p, "skipped", SkipPatch)
  <2>1. FirstChange(Change(p, rows[p].state, "skipped", SkipPatch), NoOp)
    BY <1>1, OrdinaryChange DEF SkipPatch, Lost, Past, Placed, Proven
  <2> DEFINE c == Change(p, rows[p].state, "skipped", SkipPatch)
  <2>2. c.file = p /\ c.to = "skipped"
    BY DEF Change
  <2> HIDE DEF c
  <2> QED BY <1>1, <1>3, <2>1, <2>2, RepairFirst DEF Repair, c
<1>4. CASE work' = [phase |-> "backfill", file |-> f, row |-> row,
                    peer |-> p, peerRow |-> rows[p]]
  BY <1>1, <1>2, <1>4 DEF FirstWork, Holding
<1> QED BY <1>2, <1>3, <1>4 DEF Backfill

\* A change that makes the first member of a new group its canonical file.
LEMMA LeaderChange ==
  ASSUME NEW f, rows[f].hash # NoHash, rows[f].state # "absent",
         NEW from \in {"sized", "distinct", "hashed"},
         NEW p, {"fp", "hash"} \cap DOMAIN p = {}, "group" \in DOMAIN p => p.group = 0,
         NEW op, op.op = "create", op.canon = f
  PROVE  FirstChange(Change(f, from, "canonical", p), op)
<1> DEFINE c == Change(f, from, "canonical", p)
<1>1. c.file = f /\ c.from = from /\ c.to = "canonical" /\ c.patch = p
  BY DEF Change
<1> HIDE DEF c
<1>2. FirstChange(c, op)
  BY <1>1 DEF FirstChange, Lost, Past
<1> QED BY <1>2 DEF c

\* tao_nhom: nobody led the hash of f, and every distinct row that has it joins.
LEMMA NewGroupFirst ==
  ASSUME Placid, NEW f, NEW row, Holding(f, row), row.state = "sized", row.hash # NoHash,
         \A i \in 1..Len(groups) : groups[i].hash # row.hash,
         NEW same \in SUBSET Candidates(f), \A p \in same : rows[p].hash = row.hash,
         \A p \in Files \ {f} : rows[p].state = "distinct" =>
           rows[p].hash # NoHash /\ (rows[p].hash = row.hash => p \in same),
         NEW c \in same \union {f}, NewGroup(f, row, same, c)
  PROVE  FirstWork(work')
<1> DEFINE ToHashed(p) == Change(p, rows[p].state, "hashed", [ready |-> "due"])
           ToCanon(p)  == Change(p, rows[p].state, "canonical", [ready |-> "null"])
           op     == CreateGroup(c, row.hash)
           self   == IF c = f THEN Change(f, "sized", "canonical", [ready |-> "null"])
                              ELSE Change(f, "sized", "hashed", [ready |-> "due"])
           others == IF c = f THEN {ToHashed(p) : p \in same}
                              ELSE {ToHashed(p) : p \in same \ {c}} \union {ToCanon(c)}
           t      == [self |-> self, others |-> others, op |-> op]
<1>1. /\ f \in Files /\ rows[f].state = "sized" /\ rows[f].hash = row.hash
      /\ row.hash = FirstHash(f)
  BY HoldingFacts DEF Holding
<1>2. ASSUME NEW p \in same
      PROVE  /\ p \in Files \ {f} /\ rows[p].state \in {"sized", "distinct"}
             /\ rows[p].hash = row.hash /\ FirstHash(p) = row.hash
  <2>1. p \in Files \ {f} /\ rows[p].state \in {"sized", "distinct"}
    BY DEF Candidates
  <2> QED BY <2>1 DEF Placid, FirstInv, FirstRow
<1>3. work' = [phase |-> "commit", t |-> t]
  BY DEF NewGroup, Decide, Transition
<1>4. op.op = "create" /\ op.canon = c /\ op.hash = row.hash
  BY DEF CreateGroup
<1>5. /\ self.file = f /\ self.from = "sized" /\ (c = f => self.to = "canonical")
      /\ \A p : /\ ToHashed(p).file = p /\ ToCanon(p).file = p
                /\ ToHashed(p).from = rows[p].state /\ ToCanon(p).from = rows[p].state
                /\ ToHashed(p).to = "hashed" /\ ToCanon(p).to = "canonical"
  BY DEF Change
<1> HIDE DEF op
<1>6. FirstChange(self, op)
  <2>1. CASE c = f
    BY <1>1, <1>4, <2>1, LeaderChange
  <2>2. CASE c # f
    BY <1>1, <2>2, OrdinaryChange DEF Lost, Past
  <2> QED BY <2>1, <2>2
<1>7. \A p \in same : FirstChange(ToHashed(p), op)
  BY <1>2, OrdinaryChange DEF Lost, Past
<1>8. c # f => c \in same /\ FirstChange(ToCanon(c), op)
  BY <1>2, <1>4, LeaderChange
<1> HIDE DEF self, ToHashed, ToCanon
<1>9. ASSUME NEW d \in others
      PROVE  /\ d.file \in same /\ FirstChange(d, op)
             /\ d = IF d.file = c THEN ToCanon(c) ELSE ToHashed(d.file)
  <2>1. CASE c = f
    <3>1. PICK p \in same : d = ToHashed(p)
      BY <2>1
    <3> QED BY <1>2, <1>5, <1>7, <2>1, <3>1
  <2>2. CASE c # f
    BY <1>5, <1>7, <1>8, <2>2
  <2> QED BY <2>1, <2>2
<1>10. \A p \in same : \E d \in others : /\ d.file = p /\ d.from = rows[p].state
                                         /\ d.to = IF p = c THEN "canonical" ELSE "hashed"
  <2> SUFFICES ASSUME NEW p \in same
               PROVE  \E d \in others : /\ d.file = p /\ d.from = rows[p].state
                                        /\ d.to = IF p = c THEN "canonical" ELSE "hashed"
    OBVIOUS
  <2>1. CASE p = c
    BY <1>2, <1>5, <2>1
  <2>2. CASE p # c
    BY <1>5, <2>2
  <2> QED BY <2>1, <2>2
<1> HIDE DEF others
<1>11. t.self = self /\ t.others = others /\ t.op = op
  OBVIOUS
<1> HIDE DEF t
<1>12. Leads(t)
  <2>1. \E ch \in {self} \union others : ch.file = c /\ ch.to = "canonical" /\ rows[c].state = ch.from
    BY <1>1, <1>5, <1>8, <1>10
  <2>2. \A g \in {c, f} : FirstHash(g) = row.hash
    BY <1>1, <1>2
  <2>3. ASSUME NEW p \in Files, rows[p].state = "distinct"
        PROVE  /\ rows[p].hash # NoHash
               /\ rows[p].hash = row.hash =>
                    \E d \in others : d.file = p /\ d.from = "distinct" /\ d.to \in {"hashed", "canonical"}
    BY <1>1, <1>10, <2>3
  <2> QED BY <1>4, <1>5, <1>11, <2>1, <2>2, <2>3 DEF Leads
<1>13. \A d \in others : d.to \in {"hashed", "canonical"} /\ d.file # f
  BY <1>2, <1>5, <1>9
<1>14. \A d, e \in others : d.file = e.file => d = e
  BY <1>9
<1> QED BY <1>3, <1>4, <1>5, <1>6, <1>9, <1>11, <1>12, <1>13, <1>14 DEF FirstWork

\* In a small class of size the query returns all candidates.
LEMMA ShortlistIsAll ==
  ASSUME NEW f \in Files, NEW cands \in Shortlists(f), IsFiniteSet(Files),
         ClassFits
  PROVE  cands = Candidates(f)
<1>1. Candidates(f) \subseteq Files \ {f} /\ cands \subseteq Candidates(f) /\ MaxSizeGroup \in Nat
  BY PipelineAssumption DEF Candidates, Shortlists
<1>2. IsFiniteSet(Files \ {f}) /\ Cardinality(Files \ {f}) = Cardinality(Files) - 1
  BY FS_RemoveElement
<1>3. Cardinality(Files) \in Nat
  BY FS_CardinalityType
<1>4. /\ IsFiniteSet(Candidates(f))
      /\ Cardinality(Candidates(f)) <= Cardinality(Files \ {f})
  BY <1>1, <1>2, FS_Subset
<1>5. Cardinality(Candidates(f)) \in Nat /\ Cardinality(Candidates(f)) <= MaxSizeGroup
  BY <1>1, <1>2, <1>3, <1>4, FS_CardinalityType DEF ClassFits
<1>6. cands = Candidates(f) \/ Cardinality(cands) = MaxSizeGroup
  BY DEF Shortlists
<1>7. CASE Cardinality(cands) = MaxSizeGroup
  <2>1. Cardinality(cands) <= Cardinality(Candidates(f))
    BY <1>1, <1>4, FS_Subset
  <2>2. Cardinality(cands) = Cardinality(Candidates(f))
    BY <1>1, <1>5, <1>7, <2>1
  <2> QED BY <1>1, <1>4, <2>2, FS_Subset
<1> QED BY <1>6, <1>7

\* tim_ung_vien, when the query has returned every candidate.
LEMMA MatchFirst ==
  ASSUME Placid, NEW f, NEW row, Holding(f, row), row.state = "sized", row.hash # NoHash,
         GroupsByKey(groups, row.hash) = {}, NEW heavy, Match(f, row, heavy, Candidates(f))
  PROVE  FirstWork(work')
<1> DEFINE cands == Candidates(f)
           blind == {p \in cands : rows[p].hash = NoHash}
           same  == {p \in cands : rows[p].hash = row.hash}
<1>1. \A i \in 1..Len(groups) : groups[i].hash # row.hash
  BY DEF GroupsByKey
<1>2. /\ f \in Files /\ rows[f].state = "sized" /\ rows[f].hash = row.hash
  BY HoldingFacts DEF Holding
<1>3. \A p \in Files \ {f} : rows[p].state = "distinct" => p \in cands
  BY DEF Placid, FirstInv, FirstRow, Past, Candidates
<1>4. CASE Defer(f, row, "later")
  BY <1>4, OutcomeFirst
<1>5. ASSUME NEW p \in blind, Backfill(f, row, p) PROVE FirstWork(work')
  BY <1>5, BackfillFirst
<1>6. CASE blind = {} /\ same = {} /\ Move(f, "sized", "distinct", [ready |-> "null"])
  <2> DEFINE c == Change(f, "sized", "distinct", [ready |-> "null"])
  <2>1. /\ c.file = f /\ c.from = "sized" /\ c.to = "distinct"
        /\ {"fp", "hash", "group"} \cap DOMAIN c.patch = {}
    BY DEF Change
  <2>2. Sole(f)
    BY <1>1, <1>2, <1>3, <1>6 DEF Sole
  <2> HIDE DEF c
  <2>3. FirstChange(c, NoOp)
    BY <1>2, <2>1, <2>2 DEF FirstChange, Lost, Past, Placed, Proven
  <2> QED BY <1>6, <2>3, MoveFirst DEF c
<1>7. ASSUME blind = {}, NEW c \in same \union {f}, NewGroup(f, row, same, c) PROVE FirstWork(work')
  <2>1. /\ same \in SUBSET Candidates(f) /\ \A p \in same : rows[p].hash = row.hash
        /\ \A p \in Files \ {f} : rows[p].state = "distinct" =>
             rows[p].hash # NoHash /\ (rows[p].hash = row.hash => p \in same)
    BY <1>3, <1>7
  <2> HIDE DEF same
  <2> QED BY <1>1, <1>7, <2>1, NewGroupFirst
<1> QED BY <1>4, <1>5, <1>6, <1>7 DEF Match

\* tim_ung_vien.
LEMMA FindFirst ==
  ASSUME Placid, NEW f, NEW row, Holding(f, row), row.state = "sized",
         row.hash # NoHash, IsFiniteSet(Files), ClassFits,
         GroupsByKey(groups, row.hash) = {}, NEW heavy, FindCandidate(f, row, heavy)
  PROVE  FirstWork(work')
BY HoldingFacts, ShortlistIsAll, MatchFirst, OutcomeFirst DEF FindCandidate

\* A group is led by a canonical row that is its member.
LEMMA LedBy ==
  ASSUME Placid, NEW g \in 1..Len(groups)
  PROVE  /\ CanonicalOf(rows, groups, g) = groups[g].canon
         /\ groups[g].canon \in Files /\ rows[groups[g].canon].state = "canonical"
         /\ rows[groups[g].canon].group = g /\ groups[g].canon # NoFile
BY NullAssumption DEF Placid, FirstInv, Led, CanonicalOf, Members

\* xep_cho: f joins the first group that has its hash.
LEMMA PlaceFirst ==
  ASSUME Placid, NEW f, NEW row, Holding(f, row), row.state = "sized", row.hash # NoHash,
         IsFiniteSet(Files), ClassFits, NEW heavy, Place(f, row, heavy)
  PROVE  FirstWork(work')
<1> DEFINE keyed == GroupsByKey(groups, row.hash)
           g     == Lowest(keyed)
<1>1. CASE keyed = {}
  BY <1>1, FindFirst DEF Place
<1>2. CASE keyed # {}
  <2>1. keyed \in SUBSET Nat /\ keyed \subseteq 1..Len(groups) /\ Len(groups) \in Nat
    BY DEF GroupsByKey, Placid, IInv, TypeOK
  <2>2. g \in keyed /\ \A k \in keyed : g <= k
    BY <1>2, <2>1, LowestExists
  <2>3. f \in Files /\ rows[f].state = "sized" /\ rows[f].hash = row.hash /\ row.hash = FirstHash(f)
    BY HoldingFacts DEF Holding
  <2>4. g \in 1..Len(groups) /\ groups[g].hash = row.hash
    BY <2>2 DEF GroupsByKey
  <2>5. ASSUME NEW i \in 1..(g - 1) PROVE groups[i].hash # row.hash
    <3>1. i \in 1..Len(groups) /\ i < g
      BY <2>1, <2>4
    <3> QED BY <2>1, <2>2, <2>4, <3>1 DEF GroupsByKey
  <2>6. Move(f, "sized", "hashed", [group |-> g, ready |-> "due"])
    <3>1. /\ CanonicalOf(rows, groups, g) \notin {NoFile, f}
          /\ rows[CanonicalOf(rows, groups, g)].state \notin Lost
      <4> HIDE DEF g
      <4> QED BY <2>3, <2>4, LedBy DEF Lost
    <3> QED BY <1>2, <3>1, Zenon DEF Place
  <2> HIDE DEF g, keyed
  <2>7. Passed(f, g)
    BY <2>3, <2>4, <2>5 DEF Passed
  <2>8. FirstChange(Change(f, "sized", "hashed", [group |-> g, ready |-> "due"]), NoOp)
    BY <2>3, <2>7, OrdinaryChange DEF Lost, Past
  <2> QED BY <2>6, <2>8, MoveFirst
<1> QED BY <1>1, <1>2

\* sized::buoc, to the read.
LEMMA SizeFirst ==
  ASSUME Placid, NEW f, NEW row, Holding(f, row), row.state = "sized",
         IsFiniteSet(Files), ClassFits, NEW heavy, Size(f, row, heavy)
  PROVE  FirstWork(work')
<1>1. CASE work' = [phase |-> "hash", file |-> f, row |-> row]
  BY <1>1 DEF FirstWork, Holding
<1> QED BY <1>1, OutcomeFirst, PlaceFirst DEF Size

\* xac_minh, to the call of the backend: the canonical file is there.
LEMMA OpenFirst ==
  ASSUME Placid, NEW f, NEW row, Holding(f, row), row.state = "hashed", row.group # 0,
         NEW c \in Files, c = groups[row.group].canon, rows[c].state = "canonical",
         Open(f, row, c)
  PROVE  FirstWork(work')
<1>1. /\ present[c] /\ Version(c) = 1 /\ rows[c].fp = 1
      /\ present[f] /\ Passed(f, row.group) /\ row.hash = FirstHash(f)
  BY FirstFacts, HoldingFacts DEF Placed
<1>2. CASE work' = [phase |-> "compare", file |-> f, row |-> row,
                    peer |-> c, peerRow |-> rows[c]]
  BY <1>1, <1>2 DEF FirstWork, Holding
<1> QED BY <1>1, <1>2, OutcomeFirst DEF Open

\* verify::buoc, to the call of the backend.
LEMMA VerifyFirst ==
  ASSUME Placid, NEW f, NEW row, Holding(f, row), row.state = "hashed", NEW heavy,
         Verify(f, row, heavy)
  PROVE  FirstWork(work')
<1>1. /\ f \in Files /\ rows[f].state = "hashed" /\ rows[f].hash # NoHash
      /\ rows[f].state # "absent" /\ (row.group # 0 => Passed(f, row.group))
  BY HoldingFacts DEF Holding, Placed
<1>2. CASE row.group = 0
  <2>1. Move(f, "hashed", "sized", [ready |-> "due"])
    BY <1>2 DEF Verify
  <2>2. FirstChange(Change(f, "hashed", "sized", [ready |-> "due"]), NoOp)
    BY <1>1, OrdinaryChange DEF Lost, Past, Placed, Proven
  <2> QED BY <2>1, <2>2, MoveFirst
<1>3. CASE row.group # 0
  <2> DEFINE c == groups[row.group].canon
  <2>1. row.group \in 1..Len(groups)
    BY <1>1, <1>3 DEF Passed
  <2>2. CanonicalOf(rows, groups, row.group) = c /\ c \in Files /\ rows[c].state = "canonical"
        /\ c # NoFile
    BY <2>1, LedBy
  <2>3. c # f
    BY <1>1, <2>2
  <2> HIDE DEF c
  <2>4. \/ WaitHeavy(f, row) \/ Open(f, row, c)
        \/ Stay(f, row, [skip |-> "parked", ready |-> "null"])
    BY <1>3, <2>2, <2>3 DEF Verify
  <2>5. CASE Open(f, row, c)
    <3>1. c = groups[row.group].canon
      BY DEF c
    <3> QED BY <1>3, <2>2, <2>5, <3>1, OpenFirst
  <2>6. CASE Stay(f, row, [skip |-> "parked", ready |-> "null"])
    BY <2>6, StayFirst
  <2> QED BY <2>4, <2>5, <2>6, OutcomeFirst
<1> QED BY <1>2, <1>3

\* tinh_hash ...
LEMMA HashedFirst ==
  ASSUME Placid, NEW f, NEW row, Holding(f, row), row.state = "sized", Hashed(f, row)
  PROVE  FirstWork(work')
<1> DEFINE p == [hash |-> HashOf[Body(f, row.fp)], hws |-> "no", ready |-> "due"]
           c == Change(f, "sized", "sized", p)
<1>1. /\ f \in Files /\ Version(f) = 1 /\ row.fp = 1 /\ rows[f].state # "absent" /\ ~fresh[f]
  BY HoldingFacts DEF Holding, Past
<1>2. /\ p.hash = FirstHash(f) /\ "fp" \notin DOMAIN p /\ "group" \notin DOMAIN p
      /\ c.file = f /\ c.from = "sized" /\ c.to = "sized" /\ c.patch = p
  BY <1>1 DEF Change, FirstHash
<1>3. Move(f, "sized", "sized", p)
  BY <1>1 DEF Hashed, Stay
<1> HIDE DEF p, c
<1>4. FirstChange(c, NoOp)
  BY <1>1, <1>2 DEF FirstChange, Lost, Past, Placed, Proven
<1> QED BY <1>3, <1>4, MoveFirst DEF c

\* ... and backfill.
LEMMA BackfilledFirst ==
  ASSUME Placid, NEW f, NEW row, Holding(f, row), row.state = "sized", NEW p \in Files, p # f,
         NEW old, old.fp = 1, old.state \in {"sized", "distinct"},
         rows[p].state = old.state, rows[p].hash = NoHash, Backfilled(f, p, old)
  PROVE  FirstWork(work')
<1>1. Version(p) = 1 /\ rows[p].state # "absent"
  BY FirstFacts
<1>2. PICK h \in ReadHash(p, old.fp) :
        Decide(Transition(f, "sized", "sized", [ready |-> "due", hws |-> "no"],
                          {Change(p, old.state, old.state, [hash |-> h])}, NoOp))
  BY DEF Backfilled
<1>3. h = FirstHash(p)
  BY <1>1, <1>2 DEF ReadHash, FirstHash
<1> DEFINE patch == [hash |-> h]
           c     == Change(p, old.state, old.state, patch)
<1>4. /\ patch.hash = h /\ "fp" \notin DOMAIN patch /\ "group" \notin DOMAIN patch
      /\ c.file = p /\ c.from = old.state /\ c.to = old.state /\ c.patch = patch
  BY DEF Change
<1>5. Decide(Transition(f, "sized", "sized", [ready |-> "due", hws |-> "no"], {c}, NoOp))
  BY <1>2
<1> HIDE DEF patch, c
<1>6. FirstChange(c, NoOp)
  BY <1>1, <1>3, <1>4 DEF FirstChange, Lost, Past, Placed, Proven
<1> QED BY <1>4, <1>5, <1>6, RepairFirst

\* giong_nhau.
LEMMA SameFirst ==
  ASSUME Placid, NEW f, NEW row, Holding(f, row), row.state = "hashed", Same(f, row)
  PROVE  FirstWork(work')
<1>1. rows[f].state # "absent" /\ rows[f].hash # NoHash /\ row.fp = 1
  BY HoldingFacts DEF Holding, Placed
<1>2. \A to \in Proven :
        FirstChange(Change(f, "hashed", to, [fp |-> row.fp, ready |-> "null", attempts |-> 0]), NoOp)
  BY <1>1, OrdinaryChange DEF Proven, Lost, Past
<1> QED BY <1>2, MoveFirst DEF Same, Proven

\* khac_nhau: f differs from the leader of its group, and from those before.
LEMMA DiffersFirst ==
  ASSUME Placid, NEW f, NEW row, Holding(f, row), row.state = "hashed",
         Passed(f, row.group), row.hash = FirstHash(f),
         Body(groups[row.group].canon, 1) # Body(f, 1), Differs(f, row)
  PROVE  FirstWork(work')
<1> DEFINE next == {g \in GroupsByKey(groups, row.hash) : g > row.group}
           low  == Lowest(next)
<1>1. /\ f \in Files /\ rows[f].state = "hashed" /\ rows[f].hash = row.hash /\ row.hash # NoHash
      /\ rows[f].state # "absent"
  BY HoldingFacts DEF Holding, Placed
<1>2. /\ row.group \in 1..Len(groups) /\ groups[row.group].hash = FirstHash(f) /\ Len(groups) \in Nat
      /\ \A i \in 1..row.group : groups[i].hash = FirstHash(f) =>
           Body(groups[i].canon, 1) # Body(f, 1)
  BY DEF Passed, Placid, IInv, TypeOK
<1>3. CASE next # {}
  <2>1. next \in SUBSET Nat
    BY <1>2 DEF GroupsByKey
  <2>2. low \in next /\ \A k \in next : low <= k
    BY <1>3, <2>1, LowestExists
  <2>3. low \in 1..Len(groups) /\ groups[low].hash = row.hash /\ low > row.group
    BY <2>2 DEF GroupsByKey
  <2>4. ASSUME NEW i \in 1..(low - 1), groups[i].hash = row.hash
        PROVE  Body(groups[i].canon, 1) # Body(f, 1)
    <3>1. i \in 1..Len(groups) /\ i < low
      BY <1>2, <2>3, <2>4
    <3>2. i \notin next
      <4> HIDE DEF low, next
      <4> QED BY <1>2, <2>2, <2>3, <3>1
    <3>3. ~(i > row.group)
      BY <2>4, <3>1, <3>2 DEF GroupsByKey
    <3> QED BY <1>2, <2>4, <3>1, <3>3
  <2>5. Stay(f, row, [group |-> low, ready |-> "due"])
    BY <1>3, Zenon DEF Differs
  <2> HIDE DEF low, next
  <2>6. Passed(f, low)
    BY <2>3, <2>4 DEF Passed
  <2> QED BY <2>5, <2>6, StayFirst
<1>4. CASE next = {}
  <2> DEFINE self == Change(f, "hashed", "canonical", [group |-> 0, ready |-> "null"])
             op   == CreateGroup(f, row.hash)
             t    == [self |-> self, others |-> {}, op |-> op]
  <2>1. work' = [phase |-> "commit", t |-> t]
    BY <1>4 DEF Differs, Decide, Transition
  <2>2. op.op = "create" /\ op.canon = f /\ op.hash = row.hash
    BY DEF CreateGroup
  <2>3. self.file = f /\ self.from = "hashed" /\ self.to = "canonical"
    BY DEF Change
  <2> HIDE DEF op
  <2>4. FirstChange(self, op)
    BY <1>1, <2>2, LeaderChange
  <2> HIDE DEF self
  <2>5. t.self = self /\ t.others = {} /\ t.op = op
    OBVIOUS
  <2> HIDE DEF t
  <2>6. ASSUME NEW i \in 1..Len(groups), groups[i].hash = row.hash
        PROVE  Body(groups[i].canon, 1) # Body(f, 1)
    <3>1. i \in 1..row.group
      BY <1>2, <1>4, <2>6 DEF GroupsByKey
    <3> QED BY <1>2, <2>6, <3>1
  <2>7. ASSUME NEW p \in Files, rows[p].state = "distinct"
        PROVE  rows[p].hash # NoHash /\ rows[p].hash # row.hash
    BY <1>2, <2>7 DEF Placid, FirstInv, FirstRow, Sole
  <2>8. Leads(t)
    BY <1>1, <2>2, <2>3, <2>5, <2>6, <2>7 DEF Leads
  <2> QED BY <2>1, <2>2, <2>3, <2>4, <2>5, <2>8 DEF FirstWork
<1> QED BY <1>3, <1>4

\* xu_ly_loi.
LEMMA ErrorFirst ==
  ASSUME Placid, NEW f, NEW row, Holding(f, row), row.state = "hashed",
         NEW policy \in Policies, BackendError(f, row, policy)
  PROVE  FirstWork(work')
<1>1. rows[f].state # "absent"
  BY HoldingFacts
<1>2. ASSUME NEW n, NEW skip,
             Move(f, "hashed", "settling", [attempts |-> n, skip |-> skip,
                  hash |-> NoHash, group |-> 0, ready |-> "later"])
      PROVE  FirstWork(work')
  BY <1>1, <1>2, OrdinaryChange, MoveFirst DEF Lost, Past, Placed, Proven
<1>3. ASSUME NEW n, Stay(f, row, [attempts |-> n, ready |-> "later"]) PROVE FirstWork(work')
  BY <1>3, StayFirst
<1>4. CASE Stay(f, row, [skip |-> "parked", ready |-> "null"])
  BY <1>4, StayFirst
<1>5. CASE Move(f, "hashed", "sized", [group |-> 0, skip |-> "other", ready |-> "due"])
  BY <1>1, <1>5, OrdinaryChange, MoveFirst DEF Lost, Past, Placed, Proven
<1>6. CASE Move(f, "hashed", "failed", [ready |-> "null"])
  BY <1>1, <1>6, OrdinaryChange, MoveFirst DEF Lost, Past, Placed, Proven
<1> QED BY <1>2, <1>3, <1>4, <1>5, <1>6, OutcomeFirst DEF BackendError, Policies

\* Whatever the worker takes or finishes, it holds what is right.
LEMMA WorkFirstStep ==
  ASSUME Placid, FirstWork(work), "vanish" \notin Moves, IsFiniteSet(Files), ClassFits,
         [Next]_vars, Unwritten'
  PROVE  FirstWork(work)'
<1>1. /\ TypeOK /\ WorkOK(work) /\ \A f \in Files : rows[f] \in Row
  BY DEF Placid, IInv, TypeOK
<1>2. CASE work' = Idle
  BY <1>2 DEF FirstWork, Idle
<1>3. CASE work' = work /\ work # Idle
  <2>1. ~Commit
    BY <1>3 DEF Commit, Idle
  <2> QED BY <1>3, <2>1, StepVisits, FirstWorkStays
<1>4. ASSUME FirstWork(work'), UNCHANGED <<history, fresh, rows, groups>> PROVE FirstWork(work)'
  BY <1>4 DEF FirstWork, FirstChange, Leads, Sole, Passed, FirstHash, Body
<1>5. ASSUME NEW f \in Files, NEW heavy \in HeavyAllowed, Take(f, heavy) PROVE FirstWork(work')
  <2>1. Holding(f, rows[f]) /\ rows[f].state \in {"settling", "sized", "hashed"}
    BY <1>5, FirstFacts DEF Holding, Take, IsReady, Queued
  <2> QED BY <1>5, <2>1, SettleFirst, SizeFirst, VerifyFirst, OutcomeFirst DEF Take
<1>6. ASSUME FinishSettle \/ FinishHash \/ FinishBackfill \/ FinishSame \/ FinishDiffers \/ FinishError
      PROVE  FirstWork(work')
  <2>1. work.phase \in {"settle", "hash", "backfill", "compare"}
    BY <1>6 DEF FinishSettle, FinishHash, FinishBackfill, FinishSame, FinishDiffers, FinishError
  <2>2. work.file \in Files /\ work.row.state \in Queued
    BY <1>1, <2>1 DEF WorkOK, QueuedRow, Idle
  <2>3. Holding(work.file, work.row)
    BY <2>1, <2>2 DEF FirstWork, Holding
  <2>4. PICK f \in {work.file}, row \in {work.row} : Holding(f, row)
    BY <2>3
  <2>5. CASE FinishSettle
    <3>1. row.state = "settling" /\ ~fresh[f] /\ SettleOpened(f, row)
      BY <2>4, <2>5 DEF FinishSettle, FirstWork
    <3> QED BY <2>4, <3>1, SettleOpenedFirst
  <2>6. CASE FinishHash
    <3>1. row.state = "sized" /\ (Hashed(f, row) \/ Retry(f, row))
      BY <2>4, <2>6 DEF FinishHash, FirstWork
    <3> QED BY <2>4, <3>1, HashedFirst, OutcomeFirst
  <2>7. CASE FinishBackfill
    <3>1. work.peerRow.state \in {"sized", "distinct"} /\ work.peer \in Files /\ row.state = "sized"
      BY <1>1, <2>4, <2>7 DEF FinishBackfill, FirstWork, WorkOK, Idle
    <3>2. PICK p \in {work.peer}, old \in {work.peerRow} :
            /\ p \in Files /\ p # f /\ old.fp = 1 /\ old.state \in {"sized", "distinct"}
            /\ rows[p].state = old.state /\ rows[p].hash = NoHash
      BY <2>7, <3>1 DEF FinishBackfill, FirstWork
    <3>3. Backfilled(f, p, old) \/ Retry(f, row)
      BY <2>4, <2>7, <3>2 DEF FinishBackfill
    <3> QED BY <2>4, <3>1, <3>2, <3>3, BackfilledFirst, OutcomeFirst
  <2>8. CASE FinishSame \/ FinishDiffers \/ FinishError
    <3>1. /\ row.state = "hashed" /\ row.hash = FirstHash(f) /\ work.peerRow.fp = 1
          /\ Passed(f, row.group) /\ groups[row.group].canon = work.peer
      BY <2>4, <2>8 DEF FinishSame, FinishDiffers, FinishError, FirstWork
    <3>2. CASE FinishSame
      <4>1. Same(f, row)
        BY <2>4, <3>2 DEF FinishSame
      <4> QED BY <2>4, <3>1, <4>1, SameFirst
    <3>3. CASE FinishDiffers
      <4>1. row.group \in 1..Len(groups) /\ f = work.file /\ row = work.row
        BY <2>4, <3>1 DEF Passed
      <4>2. work.peer \in Files /\ rows[work.peer].state = "canonical"
        BY <3>1, <4>1, LedBy
      <4>3. Version(work.peer) = 1 /\ Version(f) = 1 /\ row.fp = 1
        BY <2>4, <4>2, FirstFacts, HoldingFacts DEF Holding
      <4>4. Differs(f, row) /\ Body(f, 1) # Body(work.peer, 1)
        BY <3>1, <3>3, <4>1, <4>3 DEF FinishDiffers, Clean, Equal
      <4> QED BY <2>4, <3>1, <4>4, DiffersFirst
    <3>4. CASE FinishError
      <4>1. PICK policy \in Policies : BackendError(f, row, policy)
        BY <2>4, <3>4 DEF FinishError
      <4> QED BY <2>4, <3>1, <4>1, ErrorFirst
    <3> QED BY <2>8, <3>2, <3>3, <3>4
  <2> QED BY <1>6, <2>5, <2>6, <2>7, <2>8
<1>7. \/ UNCHANGED <<history, fresh, rows, groups>>
      \/ ~(\/ \E f \in Files, heavy \in HeavyAllowed : Take(f, heavy)
           \/ FinishSettle \/ FinishHash \/ FinishBackfill
           \/ FinishSame \/ FinishDiffers \/ FinishError)
  BY DEF Take, FinishSettle, FinishHash, FinishBackfill,
         FinishSame, FinishDiffers, FinishError, disk, db
<1> QED BY <1>2, <1>3, <1>4, <1>5, <1>6, <1>7, WorkFates

\* The row of f after a commit that applies: one change of it, or none.
LEMMA CommitRow ==
  ASSUME Placid, FirstWork(work), Commit, NEW t, t = work.t, Applies(rows, t), NEW f \in Files
  PROVE  LET N == Len(groups) + 1  all == {t.self} \union t.others
         IN \/ /\ rows'[f].state = rows[f].state /\ rows'[f].fp = rows[f].fp
               /\ rows'[f].hash = rows[f].hash
               /\ rows'[f].group = GroupAfter(f, rows[f].group, t, N)
               /\ \A c \in all : c.file = f => c.from # rows[f].state
            \/ \E c \in all :
                 /\ c.file = f /\ c.from = rows[f].state /\ rows'[f].state = c.to
                 /\ rows'[f].fp = Column(c.patch, "fp", rows[f].fp)
                 /\ rows'[f].hash = Column(c.patch, "hash", rows[f].hash)
                 /\ rows'[f].group = GroupAfter(f, Column(c.patch, "group", rows[f].group), t, N)
<1> DEFINE N       == Len(groups) + 1
           all     == {t.self} \union t.others
           changed == ChangedRows(rows, t)
<1>1. /\ TransitionOK(t) /\ rows[f] \in Row /\ rows' = AppliedRows(rows, groups, t)
      /\ \A c, d \in t.others : c.file = d.file => c = d
      /\ \A c \in t.others : c.file # t.self.file
  BY DEF Placid, IInv, WorkOK, Commit, Idle, TypeOK, FirstWork
<1>2. \A c, d \in all : c.file = d.file => c = d
  BY <1>1
<1>3. rows' = [h \in Files |-> [changed[h] EXCEPT !.group = GroupAfter(h, changed[h].group, t, N)]]
  BY <1>1, Zenon DEF AppliedRows
<1>4. rows'[f] = [changed[f] EXCEPT !.group = GroupAfter(f, changed[f].group, t, N)]
  BY <1>3
<1>5. \/ changed[f] = rows[f] /\ \A c \in all : c.file # f
      \/ \E c \in all : ChangeOK(c) /\ c.file = f /\ changed[f] = CasUpdate(rows[f], c)
  <2>1. CASE \E c \in all : c.file = f
    <3>1. CASE f = t.self.file
      BY <1>1, <3>1 DEF ChangedRows, TransitionOK
    <3>2. CASE f # t.self.file
      <4> DEFINE c == CHOOSE d \in t.others : d.file = f
      <4>1. c \in t.others /\ c.file = f
        BY <2>1, <3>2
      <4>2. changed[f] = CasUpdate(rows[f], c)
        BY <3>2, <4>1 DEF ChangedRows
      <4> HIDE DEF c, changed
      <4> QED BY <1>1, <4>1, <4>2 DEF TransitionOK
    <3> QED BY <3>1, <3>2
  <2>2. CASE ~\E c \in all : c.file = f
    BY <2>2 DEF ChangedRows
  <2> QED BY <2>1, <2>2
<1> HIDE DEF changed
<1>6. CASE changed[f] = rows[f] /\ \A c \in all : c.file = f => c.from # rows[f].state
  BY <1>1, <1>4, <1>6 DEF Row
<1>7. ASSUME NEW c \in all, c.file = f, c.from = rows[f].state, ChangeOK(c),
             changed[f] = CasUpdate(rows[f], c)
      PROVE  /\ rows'[f].state = c.to
             /\ rows'[f].fp = Column(c.patch, "fp", rows[f].fp)
             /\ rows'[f].hash = Column(c.patch, "hash", rows[f].hash)
             /\ rows'[f].group = GroupAfter(f, Column(c.patch, "group", rows[f].group), t, N)
  <2>1. changed[f] = Patched(rows[f], c.to, c.patch) /\ changed[f] \in Row
    BY <1>1, <1>7, CasType DEF CasUpdate
  <2>2. /\ changed[f].state = c.to /\ changed[f].fp = Column(c.patch, "fp", rows[f].fp)
        /\ changed[f].hash = Column(c.patch, "hash", rows[f].hash)
        /\ changed[f].group = Column(c.patch, "group", rows[f].group)
    BY <2>1 DEF Patched
  <2> QED BY <1>4, <2>1, <2>2 DEF Row
<1> HIDE DEF all, N
<1>8. CASE \E c \in all : ChangeOK(c) /\ c.file = f /\ changed[f] = CasUpdate(rows[f], c)
  <2>1. PICK c \in all : ChangeOK(c) /\ c.file = f /\ changed[f] = CasUpdate(rows[f], c)
    BY <1>8
  <2>2. CASE c.from = rows[f].state
    BY <1>7, <2>1, <2>2 DEF all, N
  <2>3. CASE c.from # rows[f].state
    <3>1. changed[f] = rows[f] /\ \A d \in all : d.file = f => d.from # rows[f].state
      BY <1>2, <2>1, <2>3 DEF CasUpdate
    <3> QED BY <1>6, <3>1 DEF all, N
  <2> QED BY <2>2, <2>3
<1> QED BY <1>5, <1>6, <1>8 DEF all, N

\* The groups after a commit that applies: a new one at most.
LEMMA CommitGroups ==
  ASSUME Placid, FirstWork(work), Commit, NEW t, t = work.t, Applies(rows, t)
  PROVE  /\ \A c \in {t.self} \union t.others : FirstChange(c, t.op)
         /\ \/ t.op = NoOp /\ groups' = groups
            \/ /\ t.op.op = "create" /\ t.op.canon \in Files /\ Leads(t)
               /\ groups' = Append(groups, [hash |-> t.op.hash, canon |-> t.op.canon])
         /\ \A g \in 1..Len(groups) : groups'[g] = groups[g]
         /\ Len(groups') \in {Len(groups), Len(groups) + 1}
<1>1. /\ TransitionOK(t) /\ groups' = AppliedGroups(rows, groups, t) /\ groups \in Seq(Group)
      /\ \A c \in {t.self} \union t.others : FirstChange(c, t.op)
      /\ t.op = NoOp \/ (t.op.op = "create" /\ Leads(t))
  BY DEF Placid, IInv, WorkOK, Commit, Idle, TypeOK, FirstWork
<1>2. CASE t.op = NoOp
  <2>1. groups' = groups
    BY <1>1, <1>2 DEF AppliedGroups, NoOp
  <2> QED BY <1>1, <1>2, <2>1
<1>3. CASE t.op.op = "create" /\ Leads(t)
  <2>1. t.op.canon \in Files /\ t.op.hash \in Hashes \union {NoHash}
    BY <1>1, <1>3 DEF TransitionOK, OpOK
  <2> DEFINE r == [hash |-> t.op.hash, canon |-> t.op.canon]
  <2>2. groups' = Append(groups, r)
    BY <1>1, <1>3 DEF AppliedGroups
  <2>3. r \in Group
    BY <2>1 DEF Group
  <2> HIDE DEF r
  <2>4. Len(groups') = Len(groups) + 1 /\ \A g \in 1..Len(groups) : groups'[g] = groups[g]
    BY <1>1, <2>2, <2>3
  <2> QED BY <1>1, <1>3, <2>1, <2>2, <2>4 DEF r
<1> QED BY <1>1, <1>2, <1>3

\* A group that f has passed stays passed when another comes after it ...
LEMMA PassedKept ==
  ASSUME Placid, FirstWork(work), Commit, NEW t, t = work.t, Applies(rows, t),
         NEW f \in Files, NEW g, Passed(f, g)
  PROVE  Passed(f, g)'
<1>1. /\ g \in 1..Len(groups) /\ groups[g].hash = FirstHash(f) /\ Len(groups) \in Nat
      /\ \A i \in 1..(g - 1) : groups[i].hash = FirstHash(f) => Body(groups[i].canon, 1) # Body(f, 1)
  BY DEF Passed, Placid, IInv, TypeOK
<1>2. (\A i \in 1..Len(groups) : groups'[i] = groups[i]) /\ Len(groups') \in {Len(groups), Len(groups) + 1}
  BY CommitGroups
<1>3. history' = history
  BY DEF Commit, disk
<1>4. g \in 1..Len(groups') /\ \A i \in 1..(g - 1) : i \in 1..Len(groups)
  BY <1>1, <1>2
<1> QED BY <1>1, <1>2, <1>3, <1>4 DEF Passed, FirstHash, Body

\* ... and the first members of the new one have passed all the others.
LEMMA PassedNew ==
  ASSUME Placid, FirstWork(work), Commit, NEW t, t = work.t, Applies(rows, t),
         t.op.op = "create", NEW N, N = Len(groups) + 1, NEW f \in {t.op.canon, t.self.file}
  PROVE  /\ Passed(f, N)' /\ Len(groups') = N
         /\ groups'[N].canon = t.op.canon /\ groups'[N].hash = t.op.hash
<1> DEFINE r == [hash |-> t.op.hash, canon |-> t.op.canon]
<1>1. NoOp.op # "create"
  BY DEF NoOp
<1>2. /\ groups' = Append(groups, r) /\ Leads(t) /\ groups \in Seq(Group) /\ r \in Group
      /\ \A g \in 1..Len(groups) : groups'[g] = groups[g]
  <2>1. /\ groups' = Append(groups, r) /\ Leads(t)
        /\ \A g \in 1..Len(groups) : groups'[g] = groups[g]
    BY <1>1, CommitGroups
  <2>2. TransitionOK(t) /\ groups \in Seq(Group)
    BY DEF Placid, IInv, WorkOK, Commit, Idle, TypeOK
  <2>3. r \in Group
    BY <2>2 DEF TransitionOK, OpOK, Group
  <2> QED BY <2>1, <2>2, <2>3
<1>3. r.hash = t.op.hash /\ r.canon = t.op.canon
  OBVIOUS
<1> HIDE DEF r
<1>4. N \in 1..Len(groups') /\ groups'[N] = r /\ Len(groups') = N
      /\ \A i \in 1..(N - 1) : i \in 1..Len(groups)
  BY <1>2
<1>5. /\ t.op.hash = FirstHash(f)
      /\ \A i \in 1..Len(groups) : groups[i].hash = t.op.hash => Body(groups[i].canon, 1) # Body(f, 1)
  BY <1>2 DEF Leads
<1>6. history' = history
  BY DEF Commit, disk
<1>7. \A i \in 1..(N - 1) : groups'[i].hash = FirstHash(f) => Body(groups'[i].canon, 1) # Body(f, 1)
  BY <1>2, <1>4, <1>5
<1>8. N \in 1..Len(groups') /\ groups'[N].hash = t.op.hash /\ groups'[N].canon = t.op.canon
  BY <1>3, <1>4
<1>9. Passed(f, N)'
  BY <1>5, <1>6, <1>7, <1>8 DEF Passed, FirstHash, Body
<1> QED BY <1>4, <1>8, <1>9

\* No commit takes a leader away from its group.
LEMMA LeadersStay ==
  ASSUME Placid, FirstWork(work), Commit, NEW t, t = work.t, Applies(rows, t),
         NEW f \in Files, rows[f].state = "canonical"
  PROVE  rows'[f].state = "canonical" /\ rows'[f].group = rows[f].group
<1> DEFINE all == {t.self} \union t.others
<1>1. /\ \A c \in all : c.from # "canonical"
      /\ t.op = NoOp \/ (t.op.op = "create" /\ Leads(t))
  BY CommitGroups DEF FirstChange
<1>2. f # t.self.file
  BY <1>1 DEF Applies
<1>3. t.op.op = "create" => f # t.op.canon
  BY <1>1 DEF Leads, NoOp
<1>4. GroupAfter(f, rows[f].group, t, Len(groups) + 1) = rows[f].group
  BY <1>1, <1>2, <1>3 DEF GroupAfter, NoOp
<1> QED BY <1>1, <1>4, CommitRow

\* Every group is led by its canonical row, the new one too.
LEMMA LedCommitted ==
  ASSUME Placid, FirstWork(work), Commit, NEW t, t = work.t, Applies(rows, t)
  PROVE  Led'
<1> SUFFICES ASSUME NEW g \in 1..Len(groups'), NEW c, c = groups'[g].canon
             PROVE  c \in Files /\ rows'[c].state = "canonical" /\ rows'[c].group = g
  BY DEF Led
<1>1. Len(groups) \in Nat
  BY DEF Placid, IInv, TypeOK
<1>2. CASE g \in 1..Len(groups)
  <2>1. c = groups[g].canon
    BY <1>2, CommitGroups
  <2> QED BY <1>2, <2>1, LedBy, LeadersStay
<1>3. CASE g \notin 1..Len(groups)
  <2>1. /\ t.op.op = "create" /\ t.op.canon \in Files /\ Leads(t) /\ g = Len(groups) + 1
    <3>1. groups' # groups /\ g = Len(groups) + 1
      <4>1. Len(groups') \in {Len(groups), Len(groups) + 1}
        BY CommitGroups, Zenon
      <4> QED BY <1>1, <1>3, <4>1
    <3> QED BY <3>1, CommitGroups
  <2>2. c = t.op.canon
    BY <2>1, PassedNew
  <2>3. PICK ch \in {t.self} \union t.others :
          ch.file = c /\ ch.to = "canonical" /\ rows[c].state = ch.from
    BY <2>1, <2>2 DEF Leads
  <2>4. GroupAfter(c, rows[c].group, t, Len(groups) + 1) = Len(groups) + 1
        /\ \A old : GroupAfter(c, old, t, Len(groups) + 1) = Len(groups) + 1
    BY <2>1, <2>2 DEF GroupAfter
  <2>5. \E d \in {t.self} \union t.others :
          /\ d.file = c /\ rows'[c].state = d.to
          /\ rows'[c].group = Len(groups) + 1
    BY <2>1, <2>2, <2>3, <2>4, CommitRow
  <2>6. \A d, e \in {t.self} \union t.others : d.file = e.file => d = e
    BY DEF FirstWork, Commit
  <2> QED BY <2>1, <2>2, <2>3, <2>5, <2>6
<1> QED BY <1>2, <1>3

\* A row that a commit leaves distinct, or calls so.
LEMMA DistinctCommitted ==
  ASSUME Placid, FirstWork(work), Commit, NEW t, t = work.t, Applies(rows, t),
         NEW f \in Files, rows'[f].state = "distinct"
  PROVE  /\ Sole(f) /\ (rows[f].state = "distinct" \/ f = t.self.file)
         /\ rows[f].hash # NoHash => rows'[f].hash = rows[f].hash
         /\ \/ t.op = NoOp
            \/ rows[f].state = "distinct" /\ rows[f].hash # NoHash /\ rows[f].hash # t.op.hash
<1> DEFINE all == {t.self} \union t.others
<1>1. /\ \A c \in all : FirstChange(c, t.op)
      /\ t.op = NoOp \/ (t.op.op = "create" /\ Leads(t))
      /\ \A c, d \in all : c.file = d.file => c = d
      /\ \A c \in t.others : c.to = "distinct" => c.from = "distinct"
      /\ rows[f].state = "distinct" => Sole(f)
  BY CommitGroups DEF FirstWork, Commit, Placid, FirstInv, FirstRow
<1>2. ASSUME rows[f].state = "distinct", t.op # NoOp
      PROVE  rows[f].hash # NoHash /\ rows[f].hash # t.op.hash
  <2>1. rows[f].hash # NoHash
    BY <1>1, <1>2 DEF Leads
  <2>2. ASSUME rows[f].hash = t.op.hash PROVE FALSE
    <3>1. PICK d \in t.others : d.file = f /\ d.from = "distinct" /\ d.to \in {"hashed", "canonical"}
      BY <1>1, <1>2, <2>2 DEF Leads
    <3>2. \E c \in all : c.file = f /\ rows'[f].state = c.to
      BY <1>2, <3>1, CommitRow
    <3> QED BY <1>1, <3>1, <3>2
  <2> QED BY <2>1, <2>2
<1>3. CASE rows'[f].state = rows[f].state /\ rows'[f].hash = rows[f].hash
  BY <1>1, <1>2, <1>3
<1>4. ASSUME NEW c \in all, c.file = f, c.from = rows[f].state, rows'[f].state = c.to,
             rows'[f].hash = Column(c.patch, "hash", rows[f].hash)
      PROVE  /\ Sole(f) /\ (rows[f].state = "distinct" \/ f = t.self.file)
             /\ rows[f].hash # NoHash => rows'[f].hash = rows[f].hash
             /\ \/ t.op = NoOp
                \/ rows[f].state = "distinct" /\ rows[f].hash # NoHash /\ rows[f].hash # t.op.hash
  <2>1. \/ rows[f].state = "distinct" /\ rows[f].hash = NoHash
        \/ t.op = NoOp /\ rows[f].hash # NoHash /\ "hash" \notin DOMAIN c.patch /\ Sole(f)
    BY <1>1, <1>4 DEF FirstChange
  <2>2. rows[f].state = "distinct" \/ f = t.self.file
    BY <1>1, <1>4
  <2> QED BY <1>1, <1>2, <1>4, <2>1, <2>2 DEF Column
<1> QED BY <1>3, <1>4, CommitRow

\* ... is the only one of its content.
LEMMA SoleCommitted ==
  ASSUME Placid, FirstWork(work), Commit, NEW t, t = work.t, Applies(rows, t),
         NEW f \in Files, rows'[f].state = "distinct"
  PROVE  Sole(f)'
<1>1. Len(groups) \in Nat
  BY DEF Placid, IInv, TypeOK
<1>2. /\ Sole(f) /\ (rows[f].state = "distinct" \/ f = t.self.file)
      /\ rows[f].hash # NoHash => rows'[f].hash = rows[f].hash
      /\ t.op = NoOp \/ (rows[f].hash # NoHash /\ rows[f].hash # t.op.hash)
  BY DistinctCommitted
<1>3. ASSUME NEW g \in 1..Len(groups')
      PROVE  rows'[f].hash # NoHash /\ groups'[g].hash # rows'[f].hash
  <2>1. CASE g \in 1..Len(groups)
    <3>1. groups'[g] = groups[g]
      BY <2>1, CommitGroups
    <3> QED BY <1>2, <2>1, <3>1 DEF Sole
  <2>2. CASE g \notin 1..Len(groups)
    <3>1. groups' # groups /\ g = Len(groups) + 1
      <4>1. Len(groups') \in {Len(groups), Len(groups) + 1}
        BY CommitGroups, Zenon
      <4> QED BY <1>1, <1>3, <2>2, <4>1
    <3>2. t.op.op = "create" /\ t.op # NoOp
      <4>1. t.op.op = "create"
        BY <3>1, CommitGroups, Zenon
      <4> QED BY <4>1 DEF NoOp
    <3>3. groups'[g].hash = t.op.hash
      BY <3>1, <3>2, PassedNew
    <3> QED BY <1>2, <3>2, <3>3
  <2> QED BY <2>1, <2>2
<1>4. ASSUME NEW p \in Files \ {f}, rows'[p].state = "distinct"
      PROVE  rows'[f].hash # NoHash /\ rows'[p].hash # NoHash /\ rows'[f].hash # rows'[p].hash
  <2>1. /\ Sole(p) /\ (rows[p].state = "distinct" \/ p = t.self.file)
        /\ rows[p].hash # NoHash => rows'[p].hash = rows[p].hash
    BY <1>4, DistinctCommitted
  <2>2. rows[f].hash # NoHash /\ rows[p].hash # NoHash /\ rows[f].hash # rows[p].hash
    BY <1>2, <2>1 DEF Sole
  <2> QED BY <1>2, <2>1, <2>2
<1> QED BY <1>3, <1>4 DEF Sole

\* A commit that applies leaves a row that is right.
LEMMA RowCommitted ==
  ASSUME Placid, FirstWork(work), Commit, NEW t, t = work.t, Applies(rows, t), NEW f \in Files
  PROVE  FirstRow(f)'
<1> DEFINE all == {t.self} \union t.others
<1>1. /\ UNCHANGED <<history, present, fresh>> /\ FirstHash(f)' = FirstHash(f)
      /\ \A c \in all : FirstChange(c, t.op)
  <2>1. UNCHANGED <<history, present, fresh>>
    BY DEF Commit, disk
  <2> QED BY <2>1, CommitGroups DEF FirstHash, Body
<1> SUFFICES ASSUME rows'[f].state # "absent" PROVE FirstRow(f)'
  BY DEF FirstRow
<1>2. PICK N : N = Len(groups) + 1
  OBVIOUS
<1>3. rows[f].state # "absent"
  BY <1>1, CommitRow DEF FirstChange
<1>4. /\ present[f] /\ Version(f) = 1 /\ rows[f].fp = 1 /\ rows[f].state \notin Lost
      /\ FirstHash(f) # NoHash
  BY <1>3, FirstFacts, FirstHashed
<1>5. /\ rows[f].hash \in {NoHash, FirstHash(f)}
      /\ rows[f].state \in Placed => rows[f].hash # NoHash
      /\ rows[f].state \in Past => ~fresh[f]
      /\ rows[f].group # 0 => Passed(f, rows[f].group)
      /\ rows[f].state = "canonical" => rows[f].group # 0 /\ groups[rows[f].group].canon = f
  BY <1>3 DEF Placid, FirstInv, FirstRow
<1>6. ASSUME t.op.op = "create", f \in {t.op.canon, t.self.file}
      PROVE  Passed(f, N)' /\ groups'[N].canon = t.op.canon /\ N # 0
  <2>1. Len(groups) \in Nat
    BY DEF Placid, IInv, TypeOK
  <2> QED BY <1>2, <1>6, <2>1, PassedNew
<1>7. t.op = NoOp \/ t.op.op = "create"
  BY CommitGroups
<1>8. ASSUME NEW old, old # 0 => Passed(f, old), NEW G, G # 0, G = GroupAfter(f, old, t, N)
      PROVE  Passed(f, G)'
  <2>1. CASE t.op.op = "create" /\ f \in {t.op.canon, t.self.file}
    <3>1. G = N
      BY <1>8, <2>1 DEF GroupAfter
    <3> QED BY <1>6, <2>1, <3>1
  <2>2. CASE ~(t.op.op = "create" /\ f \in {t.op.canon, t.self.file})
    <3>1. G = old
      BY <1>7, <1>8, <2>2 DEF GroupAfter, NoOp
    <3> QED BY <1>8, <3>1, PassedKept
  <2> QED BY <2>1, <2>2
<1>9. \/ /\ rows'[f].state = rows[f].state /\ rows'[f].fp = 1 /\ rows'[f].hash = rows[f].hash
         /\ rows'[f].group = GroupAfter(f, rows[f].group, t, N)
      \/ \E c \in all : /\ c.file = f /\ c.from = rows[f].state /\ rows'[f].state = c.to
                        /\ rows'[f].fp = Column(c.patch, "fp", 1)
                        /\ rows'[f].hash = Column(c.patch, "hash", rows[f].hash)
                        /\ rows'[f].group = GroupAfter(f, Column(c.patch, "group", rows[f].group), t, N)
  BY <1>2, <1>4, CommitRow
<1>10. ASSUME NEW c \in all, c.file = f, c.from = rows[f].state, rows'[f].state = c.to,
              rows'[f].fp = Column(c.patch, "fp", 1),
              rows'[f].hash = Column(c.patch, "hash", rows[f].hash)
       PROVE  /\ rows'[f].fp = 1 /\ rows'[f].state \notin Lost
              /\ rows'[f].hash \in {NoHash, FirstHash(f)}
              /\ rows'[f].state \in Placed => rows'[f].hash # NoHash
              /\ rows'[f].state \in Past => ~fresh[f]
              /\ Column(c.patch, "group", rows[f].group) # 0 =>
                   Passed(f, Column(c.patch, "group", rows[f].group))
              /\ rows'[f].state = "canonical" => t.op.op = "create" /\ t.op.canon = f
  <2>1. FirstChange(c, t.op)
    BY <1>1
  <2>2. "settling" \notin Placed
    BY DEF Placed, Proven
  <2> QED BY <1>4, <1>5, <1>10, <2>1, <2>2 DEF FirstChange, Column
<1>11. /\ rows'[f].fp = 1 /\ rows'[f].state \notin Lost
       /\ rows'[f].hash \in {NoHash, FirstHash(f)}
       /\ rows'[f].state \in Placed => rows'[f].hash # NoHash
       /\ rows'[f].state \in Past => ~fresh[f]
  BY <1>4, <1>5, <1>9, <1>10
<1>12. \E old : (old # 0 => Passed(f, old)) /\ rows'[f].group = GroupAfter(f, old, t, N)
  BY <1>5, <1>9, <1>10
<1>13. PICK G : G = rows'[f].group
  OBVIOUS
<1>14. G # 0 => Passed(f, G)'
  BY <1>8, <1>12, <1>13
<1>15. rows'[f].state = "canonical" => G # 0 /\ groups'[G].canon = f
  <2> SUFFICES ASSUME rows'[f].state = "canonical" PROVE G # 0 /\ groups'[G].canon = f
    OBVIOUS
  <2>1. CASE rows[f].state = "canonical"
    <3>1. G = rows[f].group
      BY <1>13, <2>1, LeadersStay
    <3>2. G \in 1..Len(groups)
      BY <1>5, <2>1, <3>1 DEF Passed
    <3>3. groups'[G] = groups[G]
      BY <3>2, CommitGroups
    <3> QED BY <1>5, <2>1, <3>1, <3>3
  <2>2. CASE rows[f].state # "canonical"
    <3>1. t.op.op = "create" /\ t.op.canon = f
      BY <1>9, <1>10, <2>2
    <3>2. G = N
      BY <1>9, <1>13, <3>1 DEF GroupAfter
    <3> QED BY <1>6, <3>1, <3>2
  <2> QED BY <2>1, <2>2
<1>16. rows'[f].state = "distinct" => Sole(f)'
  BY SoleCommitted
<1>17. /\ rows'[f].group # 0 => Passed(f, rows[f].group)'
       /\ rows'[f].state = "canonical" => rows'[f].group # 0 /\ groups'[rows'[f].group].canon = f
  BY <1>13, <1>14, <1>15 DEF Passed
<1> QED BY <1>1, <1>4, <1>11, <1>16, <1>17, Zenon DEF FirstRow

\* Every step keeps the invariant, as long as no file is written again.
LEMMA UniqueStep ==
  ASSUME IInv, UniqueInv, "vanish" \notin Moves, IsFiniteSet(Files), ClassFits, [Next]_vars
  PROVE  UniqueInv'
<1> SUFFICES ASSUME Unwritten' PROVE (FirstInv /\ FirstWork(work))'
  BY DEF UniqueInv
<1>1. Unwritten
  <2>1. Grows
    BY StepGrows DEF IInv
  <2> SUFFICES ASSUME NEW f \in Files PROVE Version(f) <= 1
    BY DEF Unwritten
  <2>2. Version(f) \in Nat /\ Version(f)' \in Nat /\ Version(f) <= Version(f)' /\ Version(f)' <= 1
    BY <2>1 DEF Grows, Unwritten
  <2> QED BY <2>2
<1>2. Placid /\ FirstWork(work)
  BY <1>1 DEF UniqueInv, Placid
<1>3. CASE Commit /\ Applies(rows, work.t)
  <2>1. PICK t : t = work.t
    OBVIOUS
  <2>2. \A f \in Files : FirstRow(f)'
    BY <1>2, <1>3, <2>1, RowCommitted
  <2>3. Led'
    BY <1>2, <1>3, <2>1, LedCommitted
  <2> QED BY <1>2, <1>3, <2>2, <2>3, OutsideFirst, WorkFirstStep DEF FirstInv
<1>4. CASE ~(Commit /\ Applies(rows, work.t))
  <2>1. groups' = groups /\ \A f \in Files : Visit(f)
    <3>1. CASE Commit
      <4>1. rows' = rows /\ groups' = groups
        BY <1>4, <3>1 DEF Commit, AppliedRows, AppliedGroups
      <4> QED BY <4>1 DEF Visit
    <3>2. CASE ~Commit
      BY <1>2, <3>2, StepVisits
    <3> QED BY <3>1, <3>2
  <2>2. \A f \in Files : FirstRow(f)'
    BY <1>2, <2>1, RowVisited
  <2>3. Led'
    BY <1>2, <2>1, LedVisited
  <2> QED BY <1>2, <2>1, <2>2, <2>3, OutsideFirst, WorkFirstStep DEF FirstInv
<1> QED BY <1>3, <1>4

\* Of two files of equal content one is not called unique.
LEMMA OneOfTwo ==
  ASSUME Placid, NEW f \in Files, NEW p \in Files \ {f}, Body(f, 1) = Body(p, 1),
         \A q \in {f, p} : rows[q].state \in {"distinct", "canonical"}
  PROVE  FALSE
<1>1. /\ FirstRow(f) /\ FirstRow(p) /\ FirstHash(f) = FirstHash(p) /\ Len(groups) \in Nat
  BY DEF Placid, FirstInv, IInv, TypeOK, FirstHash
<1>2. ASSUME NEW a \in {f, p}, NEW b \in {f, p} \ {a}, rows[a].state = "distinct" PROVE FALSE
  <2>1. Sole(a) /\ rows[a].hash \in {NoHash, FirstHash(a)}
        /\ rows[b].hash \in {NoHash, FirstHash(a)}
    BY <1>1, <1>2 DEF FirstRow
  <2>2. CASE rows[b].state = "distinct"
    BY <1>2, <2>1, <2>2 DEF Sole
  <2>3. CASE rows[b].state = "canonical"
    <3>1. rows[b].group \in 1..Len(groups) /\ groups[rows[b].group].hash = FirstHash(a)
      BY <1>1, <1>2, <2>3 DEF FirstRow, Passed
    <3> QED BY <2>1, <3>1 DEF Sole
  <2> QED BY <1>2, <2>2, <2>3
<1>3. ASSUME rows[f].state = "canonical", rows[p].state = "canonical" PROVE FALSE
  <2>1. \A q \in {f, p} : /\ rows[q].group \in 1..Len(groups) /\ Passed(q, rows[q].group)
                          /\ groups[rows[q].group].canon = q
                          /\ groups[rows[q].group].hash = FirstHash(f)
    BY <1>1, <1>3 DEF FirstRow, Passed
  <2>2. ASSUME NEW a \in {f, p}, NEW b \in {f, p}, rows[a].group < rows[b].group PROVE FALSE
    <3>1. rows[a].group \in 1..(rows[b].group - 1)
      BY <1>1, <2>1, <2>2
    <3>2. Body(groups[rows[a].group].canon, 1) # Body(b, 1)
      BY <1>1, <2>1, <3>1 DEF Passed
    <3> QED BY <2>1, <3>2
  <2>3. rows[f].group # rows[p].group
    BY <2>1
  <2> QED BY <1>1, <2>1, <2>2, <2>3
<1> QED BY <1>2, <1>3

\* As long as no file is overwritten, of two files with the same content one
\* at least has been found equal to something, whenever the worker has looked
\* at both: of the rows of one content only the first to open a group is its
\* canonical file, every later one passes that group before it opens another,
\* and a row is called distinct only when no group and no distinct row could be
\* of its content.  No fault of a step, no crash, walk or command takes that
\* away.  Excepted are files that vanish (a leader that is missing hands its
\* group on without a comparison); and there must be no more files of the size
\* than the query for candidates returns and the one that asks, for the others
\* are cut off and never looked at.
THEOREM NoDuplicateMissed ==
  ASSUME "vanish" \notin Moves, IsFiniteSet(Files), ClassFits
  PROVE  Spec => []NoMissedDuplicate
<1>1. Init => UniqueInv
  <2> SUFFICES ASSUME Init PROVE FirstInv /\ FirstWork(work)
    BY DEF UniqueInv
  <2>1. \A f \in Files : FirstRow(f)
    BY DEF Init, FirstRow, NoRow, BlankRow
  <2>2. Led /\ FirstWork(work)
    BY DEF Init, Led, FirstWork, Idle
  <2>3. FirstSeen
    <3>1. ASSUME NEW f \in Files
          PROVE  /\ Version(f) > 0 => present[f]
                 /\ fresh[f] => present[f]
                 /\ \A i \in DOMAIN pending[f] : pending[f][i] = "touched"
      <4>1. Version(f) > 0 => present[f]
        <5>1. history[f] # <<>> => present[f]
          BY DEF Init
        <5>2. history[f] = <<>> => Version(f) = 0
          BY DEF Version
        <5> QED BY <5>1, <5>2
      <4>2. fresh[f] => present[f]
        BY DEF Init
      <4>3. pending[f] \in {<<>>, <<"touched">>}
        BY DEF Init
      <4> QED BY <4>1, <4>2, <4>3
    <3>2. seen["scheduler"].by = "nothing" /\ \A t \in Threads : seen[t] = Nothing
      BY DEF Init, Threads, Nothing
    <3>3. groups = <<>> /\ work = Idle
      BY DEF Init
    <3> QED BY <3>1, <3>2, <3>3 DEF FirstSeen
  <2> QED BY <2>1, <2>2, <2>3 DEF FirstInv
<1>2. IInv /\ UniqueInv /\ [Next]_vars => UniqueInv'
  BY UniqueStep
<1>3. IInv /\ UniqueInv => NoMissedDuplicate
  <2> SUFFICES ASSUME IInv, UniqueInv, \A f \in Files : Len(history[f]) = 1,
                      NEW f \in Files, NEW p \in Files, Missed(f, p)
               PROVE  FALSE
    BY DEF NoMissedDuplicate
  <2>1. \A q \in Files : Version(q) = 1
    BY DEF Version
  <2>2. Placid
    BY <2>1 DEF Unwritten, UniqueInv, Placid
  <2> QED BY <2>1, <2>2, OneOfTwo DEF Missed
<1> QED BY <1>1, <1>2, <1>3, Invariance, PTL DEF Spec
=============================================================================
