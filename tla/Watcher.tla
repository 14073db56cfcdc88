------------------------------- MODULE Watcher -------------------------------
(***************************************************************************)
(* From a change on the disk to the row that records it: the queue of the  *)
(* kernel, the reader thread (crates/linux/src/watch) that translates raw  *)
(* events batch by batch, coalesces them (handler/gom.rs) and pairs the    *)
(* halves of a rename (handler/ghep.rs), the channel, and the thread that  *)
(* applies the events to the repository (handler, lich/watcher.rs).        *)
(*                                                                         *)
(* Paths and inodes are apart: the disk says which inode a path leads to,  *)
(* a row which path an inode was last seen at.  A path is <<dir, name>>,   *)
(* the path of a directory <<dir>>.  A version of an inode counts its      *)
(* writes and stands for its fingerprint.                                  *)
(***************************************************************************)
EXTENDS Integers, FiniteSets, Sequences, SequencesExt

CONSTANTS Inodes, Dirs, Names,
          Excluded,      \* directories of the exclusion list (#recycle, @eaDir)
          Unwanted,      \* names the pre-filter refuses (temporary, not a video)
          Denied,        \* inodes whose open fails for ever (EACCES, ELOOP)
          Start,         \* where the inodes are when the watcher starts
          Ops,           \* what users do: see User
          MaxOps,        \* bound: how many user operations
          MaxFaults,     \* bound: how many transient errors of statx
          Late,          \* may the halves of a rename be further apart than 2 s?
          BatchMax,      \* LO_TOI_DA
          PerPath,       \* TRAN_MOI_DUONG_DAN
          MaxTries,      \* THU_LAI_TOI_DA
          RetryCap,      \* THU_LAI_TRAN
          MaxPending     \* watch.max_pending

Nothing == "nothing"
Paths   == Dirs \X Names
DirPath == Dirs \X {Nothing}
NoLoc   == <<Nothing, Nothing>>
Locs    == Paths \union DirPath

ASSUME PathAssumption == /\ Nothing \notin Inodes \union Dirs \union Names
                         /\ Start \in [Paths -> Inodes \union {Nothing}]
ASSUME QueueAssumption == IsFiniteSet(Inodes) /\ IsFiniteSet(Names) /\ {MaxPending, MaxOps} \subseteq Nat

VARIABLES at,       \* the disk: path -> inode
          dirs,     \* the directories that exist
          ver,      \* the writes of each inode
          touched,  \* the inodes whose ctime is later than the last reconcile
          raw,      \* events of the kernel nobody has read
          left,     \* user operations that may still happen
          ghep,     \* GhepRename: the halves that wait, and the pairs made
          gom,      \* Gom: per path, in order of arrival, the events kept
          chan,     \* the channel between the two threads
          ap,       \* the event being applied, and what statx has told
          retry,    \* events waiting for another try
          walks,    \* HangWalk: directories to walk
          rescan,   \* meta.rescan_needed
          counted,  \* DemHangDoi: the cached length of the queue
          faults,   \* transient errors that may still happen
          rows,     \* the table `files`, by inode
          mode      \* "run", "stopping" (SIGTERM seen), "stopped"

disk    == <<at, dirs, ver, touched, left>>
reader  == <<ghep, gom, mode>>
applier == <<ap, retry, counted, faults, rescan>>
vars    == <<disk, raw, reader, chan, applier, walks, rows>>

(* ------------------------------- events ------------------------------- *)

\* FsEvent; `from` is the second path of a rename.
Ev(k, loc)         == [k |-> k, loc |-> loc, from |-> NoLoc]
Move(k, from, to)  == [k |-> k, loc |-> to, from |-> from]
NeedsRescan        == Ev("rescan", NoLoc)

\* A raw event of notify.
Raw(k, loc)           == [k |-> k, c |-> 0, from |-> NoLoc, loc |-> loc]
Half(k, c, from, to)  == [k |-> k, c |-> c, from |-> from, loc |-> to]

InDir(loc)      == loc[1]
IsDir(loc)      == loc \in DirPath
IsExcluded(loc) == InDir(loc) \in Excluded
IsWanted(p)     == ~IsExcluded(p) /\ p \in Paths /\ p[2] \notin Unwanted
Under(loc)      == {p \in Paths : InDir(p) = InDir(loc)} \* strictly below

(* ----------------------- the users and the kernel --------------------- *)

\* The queue of the kernel overflows, or a watched root itself is moved: the
\* events are lost, one marker is left.
Emit(evs) == \/ raw' = raw \o evs
             \/ "overflow" \in Ops /\ raw' = Append(raw, Raw("overflow", NoLoc))
             \/ "root_gone" \in Ops /\ raw' = Append(raw, Raw("root_gone", NoLoc))

\* notify adds a watch for a new directory when it reads the event of its
\* creation: until then the files made in it are made in silence.
Watched(d) == ~\E n \in 1..Len(raw) :
                 /\ raw[n].loc = <<d, Nothing>>
                 /\ \/ raw[n].k = "created_dir"
                    \/ /\ raw[n].k = "to"
                       /\ ~\E m \in 1..Len(raw) : raw[m].k = "both" /\ raw[m].c = raw[n].c

Tell(d, evs) == IF Watched(d) THEN Emit(evs) ELSE UNCHANGED raw

Act(op) == op \in Ops /\ left > 0 /\ left' = left - 1 /\ mode = "run"

Touch(i) == touched' = touched \union {i}

Free == {i \in Inodes : \A p \in Paths : at[p] # i}

Create(p, i) ==
  /\ Act("create") /\ InDir(p) \in dirs /\ at[p] = Nothing /\ i \in Free
  /\ at' = [at EXCEPT ![p] = i]
  /\ ver' = [ver EXCEPT ![i] = @ + 1]
  /\ Touch(i)
  /\ Tell(InDir(p), <<Raw("create", p), Raw("close_write", p)>>)
  /\ UNCHANGED dirs

Write(p) ==
  /\ Act("write") /\ at[p] # Nothing
  /\ ver' = [ver EXCEPT ![at[p]] = @ + 1]
  /\ Touch(at[p])
  /\ Tell(InDir(p), <<Raw("modify", p), Raw("close_write", p)>>)
  /\ UNCHANGED <<at, dirs>>

Delete(p) ==
  /\ Act("remove") /\ at[p] # Nothing
  /\ at' = [at EXCEPT ![p] = Nothing]
  /\ Touch(at[p])
  /\ Tell(InDir(p), <<Raw("remove_file", p)>>)
  /\ UNCHANGED <<dirs, ver>>

Link(p, q) ==
  /\ Act("link") /\ at[p] # Nothing /\ at[q] = Nothing /\ InDir(q) \in dirs
  /\ at' = [at EXCEPT ![q] = at[p]]
  /\ Touch(at[p])
  /\ Tell(InDir(q), <<Raw("create", q)>>)
  /\ UNCHANGED <<dirs, ver>>

\* The three events notify makes of one rename; the cookie is its number.
Pair(from, to) == <<Half("from", left, from, NoLoc),
                    Half("to", left, NoLoc, to),
                    Half("both", left, from, to)>>

\* mv p q, replacing what q led to without an event for it.
Rename(p, q) ==
  /\ Act("rename") /\ at[p] # Nothing /\ at[p] # at[q] /\ InDir(q) \in dirs
  /\ at' = [at EXCEPT ![p] = Nothing, ![q] = at[p]]
  /\ Touch(at[p])
  /\ Emit(CASE Watched(InDir(p)) /\ Watched(InDir(q)) -> Pair(p, q)
            [] Watched(InDir(p)) -> <<Half("from", left, p, NoLoc)>>
            [] Watched(InDir(q)) -> <<Half("to", left, NoLoc, q)>>
            [] OTHER             -> <<>>)
  /\ UNCHANGED <<dirs, ver>>

MoveOut(p) ==
  /\ Act("move_out") /\ at[p] # Nothing
  /\ at' = [at EXCEPT ![p] = Nothing]
  /\ Touch(at[p])
  /\ Emit(<<Half("from", left, p, NoLoc)>>)
  /\ UNCHANGED <<dirs, ver>>

MoveIn(p, i) ==
  /\ Act("move_in") /\ InDir(p) \in dirs /\ i \in Free
  /\ at' = [at EXCEPT ![p] = i]
  /\ ver' = [ver EXCEPT ![i] = Max({@, 1})]
  /\ Touch(i)
  /\ Emit(<<Half("to", left, NoLoc, p)>>)
  /\ UNCHANGED dirs

MakeDir(d) ==
  /\ Act("mkdir") /\ d \notin dirs
  /\ dirs' = dirs \union {d}
  /\ Emit(<<Raw("created_dir", <<d, Nothing>>)>>)
  /\ UNCHANGED <<at, ver, touched>>

\* rm -r d: the files first, then the directory.
RemoveDir(d) ==
  LET files == SetToSeq({p \in Under(<<d>>) : at[p] # Nothing})
  IN /\ Act("rmdir") /\ d \in dirs
     /\ at' = [p \in Paths |-> IF InDir(p) = d THEN Nothing ELSE at[p]]
     /\ dirs' = dirs \ {d}
     /\ Emit([n \in 1..Len(files) |-> Raw("remove_file", files[n])]
             \o <<Raw("remove_dir", <<d, Nothing>>)>>)
     /\ UNCHANGED <<ver, touched>>

RenameDir(d, e) ==
  /\ Act("rename_dir") /\ d \in dirs /\ e \notin dirs
  /\ at' = [p \in Paths |-> IF InDir(p) = d THEN Nothing
                            ELSE IF InDir(p) = e THEN at[<<d, p[2]>>] ELSE at[p]]
  /\ dirs' = (dirs \ {d}) \union {e}
  /\ Emit(Pair(<<d, Nothing>>, <<e, Nothing>>))
  /\ UNCHANGED <<ver, touched>>

MoveDirOut(d) ==
  /\ Act("move_dir_out") /\ d \in dirs
  /\ at' = [p \in Paths |-> IF InDir(p) = d THEN Nothing ELSE at[p]]
  /\ dirs' = dirs \ {d}
  /\ Emit(<<Half("from", left, <<d, Nothing>>, NoLoc)>>)
  /\ UNCHANGED <<ver, touched>>

\* A directory moved in with a file nobody has seen, or, under another name of
\* its own, with one that was here before: its ctime tells nothing.
MoveDirIn(d, n, i) ==
  /\ \/ Act("move_dir_in") /\ ver[i] = 0
     \/ Act("move_dir_back") /\ ver[i] > 0
  /\ d \notin dirs /\ i \in Free
  /\ at' = [at EXCEPT ![<<d, n>>] = i]
  /\ ver' = [ver EXCEPT ![i] = Max({@, 1})]
  /\ dirs' = dirs \union {d}
  /\ Emit(<<Half("to", left, NoLoc, <<d, Nothing>>)>>)
  /\ UNCHANGED touched

User ==
  /\ \/ \E p \in Paths, i \in Inodes : Create(p, i) \/ MoveIn(p, i)
     \/ \E p \in Paths : Write(p) \/ Delete(p) \/ MoveOut(p)
     \/ \E p, q \in Paths : Rename(p, q) \/ Link(p, q)
     \/ \E d \in Dirs : MakeDir(d) \/ RemoveDir(d) \/ MoveDirOut(d)
     \/ \E d, e \in Dirs : RenameDir(d, e)
     \/ \E d \in Dirs, n \in Names, i \in Inodes : MoveDirIn(d, n, i)
  /\ UNCHANGED <<reader, chan, applier, walks, rows>>

(* --------------------- the reader: translating a batch ---------------- *)

\* What is known of the rename with cookie c from one batch alone.
HalvesOf(batch, c) == {n \in 1..Len(batch) : batch[n].c = c}
FromOf(batch, c)   == LET S == {n \in HalvesOf(batch, c) : batch[n].from # NoLoc}
                      IN IF S = {} THEN NoLoc ELSE batch[CHOOSE n \in S : TRUE].from
ToOf(batch, c)     == LET S == {n \in HalvesOf(batch, c) : batch[n].loc # NoLoc}
                      IN IF S = {} THEN NoLoc ELSE batch[CHOOSE n \in S : TRUE].loc

Item(t, c, from, to) ==
  [t |-> t, c |-> c, from |-> from, to |-> to, dir |-> InDir(to) \in dirs /\ IsDir(to)]

Ready(k, loc) == Item(k, 0, NoLoc, loc)

\* A rename is reported once, at the last event of the batch that names it.
RenameItem(batch, n) ==
  LET c    == batch[n].c
      from == FromOf(batch, c)
      to   == ToOf(batch, c)
      kind == CASE to = NoLoc   -> "from"
                [] from = NoLoc -> "to"
                [] OTHER -> IF \A m \in HalvesOf(batch, c) : batch[m].k = "both"
                            THEN "confirmed" ELSE "both"
  IN IF \E m \in HalvesOf(batch, c) : m > n THEN <<>>
     ELSE <<Item(kind, c, from, to)>>

\* dich_don, and the marker of a lost queue.
PlainItem(e) ==
  CASE e.k \in {"create", "close_write"} -> Ready("closed", e.loc)
    [] e.k = "modify"                    -> Ready("modified", e.loc)
    [] e.k = "remove_file"               -> Ready("removed", e.loc)
    [] e.k = "remove_dir"                -> Ready("removed_dir", e.loc)
    [] e.k = "created_dir"               -> Ready("created_dir", e.loc)
    [] e.k = "overflow"                  -> Ready("rescan", NoLoc)
    [] e.k = "root_gone"                 -> Ready("root_gone", NoLoc)

Translate(batch) ==
  FlattenSeq([n \in 1..Len(batch) |->
                IF batch[n].c = 0 THEN <<PlainItem(batch[n])>> ELSE RenameItem(batch, n)])

(* ------------------------- Gom: coalescing ---------------------------- *)

Weak(e)    == e.k = "modified"
Carries(e) == e.k \in {"renamed", "renamed_dir", "removed_dir"}

\* Mutant: a stronger event replaces the one before it, whatever it carries.
MayReplaceAny(last, e) == Weak(last) \/ ~Weak(e)

MayReplace(last, e) == Weak(last) \/ (last.k = e.k /\ ~Carries(last))

Merged(evs, e) ==
  LET last == evs[Len(evs)]
  IN IF Weak(e) /\ ~Weak(last) THEN evs
     ELSE IF MayReplace(last, e) \/ Len(evs) >= PerPath THEN [evs EXCEPT ![Len(evs)] = e]
     ELSE Append(evs, e)

\* Gom::nhan on the slots; an event without a path is urgent.
Gather(s, e) ==
  LET here == {n \in 1..Len(s.gom) : s.gom[n].loc = e.loc}
  IN IF e.k = "rescan" THEN [s EXCEPT !.urgent = Append(@, e)]
     ELSE IF here = {} THEN [s EXCEPT !.gom = Append(@, [loc |-> e.loc, evs |-> <<e>>])]
     ELSE LET n == CHOOSE n \in here : TRUE IN [s EXCEPT !.gom[n].evs = Merged(@, e)]

(* ------------------------ GhepRename: pairing ------------------------- *)

WaitsFor(s, c) == \E n \in 1..Len(s.wait) : s.wait[n].c = c

HalfOf(s, c) == s.wait[CHOOSE n \in 1..Len(s.wait) : s.wait[n].c = c].loc

\* The halves of `wait` without those of the cookies cs.
Without(wait, cs) ==
  FlattenSeq([n \in 1..Len(wait) |-> IF wait[n].c \in cs THEN <<>> ELSE <<wait[n]>>])

Dropped(s, c) == [s EXCEPT !.wait = Without(@, {c})]

TakeFrom(s, c, loc) ==
  IF WaitsFor(s, c) THEN s ELSE [s EXCEPT !.wait = Append(@, [c |-> c, loc |-> loc])]

\* theo_loai: the type of the target was read when the batch was translated.
Typed(e, isdir) ==
  CASE isdir /\ e.k = "renamed"  -> [e EXCEPT !.k = "renamed_dir"]
    [] isdir /\ e.k = "moved_in" -> [e EXCEPT !.k = "created_dir"]
    [] OTHER                     -> e

\* nhan_to: `old` are the halves older than the window.
TakeTo(s, c, to, old, isdir) ==
  IF WaitsFor(s, c) /\ c \notin old
  THEN Gather([Dropped(s, c) EXCEPT !.made = @ \union {c}],
              Typed(Move("renamed", HalfOf(s, c), to), isdir))
  ELSE Gather(s, Typed(Ev("moved_in", to), isdir))

\* Mutant: a pair seen whole goes out without the pairing table.
TakePairDirectly(s, i, old) ==
  Gather(s, Typed(Move("renamed", i.from, i.to), i.dir))

\* nhan_from then nhan_to: an orphan half of an earlier batch is renewed.
TakePair(s, i, old) == TakeTo(TakeFrom(s, i.c, i.from), i.c, i.to, old \ {i.c}, i.dir)

\* nhan_both: the confirmation of a pair already made is dropped.
TakeConfirmed(s, i) ==
  IF i.c \in s.made THEN s
  ELSE Gather(Dropped(s, i.c), Typed(Move("renamed", i.from, i.to), i.dir))

\* vong::xu_ly
TakeItem(s, i, old) ==
  CASE i.t = "from"      -> TakeFrom(s, i.c, i.from)
    [] i.t = "to"        -> TakeTo(s, i.c, i.to, old, i.dir)
    [] i.t = "both"      -> TakePair(s, i, old)
    [] i.t = "confirmed" -> TakeConfirmed(s, i)
    [] i.t = "root_gone" -> [s EXCEPT !.out = Append(@, NeedsRescan)]
    [] OTHER             -> Gather(s, Ev(i.t, i.to))

(* ---------------------------- the reader ------------------------------ *)

\* Which of the waiting halves may be older than the window: the oldest ones,
\* and, unless halves come late, none whose other half is still to be read.
Overdue == {h \in 0..Len(ghep.wait) :
              Late \/ \A n \in 1..h, m \in 1..Len(raw) : raw[m].c # ghep.wait[n].c}

Batch(n) == SubSeq(raw, 1, n)

TakeAll(start, items, old) == FoldLeft(LAMBDA s, i : TakeItem(s, i, old), start, items)

Taken(n, old) ==
  TakeAll([wait |-> ghep.wait, made |-> ghep.made, gom |-> gom, urgent |-> <<>>,
           out |-> IF n = BatchMax THEN Append(chan, NeedsRescan) ELSE chan],
          Translate(Batch(n)), old)

EventsOf(slots) == FlattenSeq([k \in 1..Len(slots) |-> slots[k].evs])

\* The halves of `old` that still wait become RemovedUnknown.
Expired(s, old) ==
  FlattenSeq([n \in 1..Len(s.wait) |->
                IF s.wait[n].c \in old THEN <<Ev("removed_unknown", s.wait[n].loc)>> ELSE <<>>])

\* A flush sends what is urgent, the first `due` slots and the expired halves,
\* and forgets the pairs whose confirmation has come (it follows at once).
Flushed(s, due, old) ==
  [s EXCEPT !.out  = @ \o s.urgent \o EventsOf(SubSeq(s.gom, 1, due)) \o Expired(s, old),
            !.gom  = SubSeq(@, due + 1, Len(@)),
            !.wait = Without(@, old),
            !.made = {c \in @ : \E m \in 1..Len(raw) : raw[m].c = c}]

Store(s, n) ==
  /\ raw'  = SubSeq(raw, n + 1, Len(raw))
  /\ ghep' = [wait |-> s.wait, made |-> s.made]
  /\ gom'  = s.gom
  /\ chan' = s.out
  /\ UNCHANGED <<disk, applier, walks, rows>>

\* One turn of the loop: a batch, then a flush if something is urgent or the
\* second is over; a slot is due a second after its first event.
Turn(n, flush, due, h) ==
  LET old == {ghep.wait[k].c : k \in 1..h}
      s   == Taken(n, old)
  IN /\ mode = "run" /\ n <= BatchMax
     /\ n > 0 \/ due > 0 \/ h > 0
     /\ flush \/ (due = 0 /\ s.urgent = <<>>)
     /\ Store(IF flush THEN Flushed(s, due, old) ELSE s, n)
     /\ UNCHANGED mode

\* SIGTERM: one more batch, everything gathered is sent, and of the halves
\* only those whose window is over.
LastTurn(n, h) ==
  LET old == {ghep.wait[k].c : k \in 1..h}
      s   == Taken(n, old)
  IN /\ mode = "run" /\ "stop" \in Ops /\ n <= BatchMax
     /\ Store(Flushed(s, Len(s.gom), old), n)
     /\ mode' = "stopped"

Reader ==
  \E n \in 0..Len(raw), h \in Overdue :
    \/ \E flush \in BOOLEAN, due \in 0..Len(gom) : Turn(n, flush, due, h)
    \/ LastTurn(n, h)

(* ------------------------ the table, by inode -------------------------- *)

NoRow   == [st |-> "absent", prev |-> "absent", path |-> NoLoc, fp |-> 0]
Live(r) == r.st \notin {"absent", "missing"}

MarkIf(rs, Cond(_)) ==
  [i \in Inodes |-> IF Live(rs[i]) /\ Cond(rs[i].path)
                    THEN [rs[i] EXCEPT !.st = "missing", !.prev = rs[i].st] ELSE rs[i]]

\* Mutant: a row that is missing already is marked once more.
MarkMissingAgain(rs, loc) ==
  [i \in Inodes |-> IF rs[i].path = loc
                    THEN [rs[i] EXCEPT !.st = "missing", !.prev = rs[i].st] ELSE rs[i]]

MarkMissing(rs, loc)       == MarkIf(rs, LAMBDA p : p = loc)
MarkMissingPrefix(rs, loc) == MarkIf(rs, LAMBDA p : IsDir(loc) /\ p \in Under(loc))

\* danh_dau_chac_chan: the path itself, then what lies under it.
MarkGone(rs, loc) == MarkMissingPrefix(MarkMissing(rs, loc), loc)

\* Repository::rename: whoever else held the path has been overwritten.
RenamedRow(rs, i, loc) ==
  [[j \in Inodes |-> IF j = i THEN rs[j] ELSE MarkMissing(rs, loc)[j]]
     EXCEPT ![i].path = loc]

Moved(loc, from, to) ==
  IF IsDir(from) /\ loc \in Under(from) THEN <<InDir(to), loc[2]>> ELSE loc

\* rename_prefix: every row under the directory, the missing ones too.
RenamedPrefix(rs, from, to) == [i \in Inodes |-> [rs[i] EXCEPT !.path = Moved(@, from, to)]]

\* upsert_pending and restore_or_reset for version v of inode i.
Fresh(r, v) == IF r.st = "missing" /\ r.fp = v THEN r.prev
               ELSE IF r.fp = v /\ Live(r) THEN r.st ELSE "settling"
Stored(rs, i, v, loc) ==
  [rs EXCEPT ![i] = [st   |-> Fresh(@, v), path |-> loc, fp |-> v,
                       prev |-> IF @.st = "missing" THEN "missing" ELSE @.prev]]
Restored(rs, i, v) == IF rs[i].st = "missing" THEN Stored(rs, i, v, rs[i].path) ELSE rs

\* don_row_la_o: find_by_path prefers a live row; one of another inode is
\* renamed away from, or marked.
PathCleared(rs, i, loc) ==
  LET here == {j \in Inodes : rs[j].st # "absent" /\ rs[j].path = loc}
      hit  == IF \E j \in here : Live(rs[j]) THEN {j \in here : Live(rs[j])} ELSE here
  IN IF hit = {} \/ i \in hit THEN rs
     ELSE IF rs[i].st # "absent" THEN RenamedRow(rs, i, loc) ELSE MarkMissing(rs, loc)

Queue(rs) == Cardinality({i \in Inodes : rs[i].st = "settling"})

(* --------------------------- the applier ------------------------------ *)

NoId == [k |-> "none"]
Rest == [why |-> "rest", ev |-> NeedsRescan, tries |-> 0, id |-> NoId,
         loc |-> NoLoc, seen |-> NoId]

\* statx of loc now.
StatX(loc) ==
  IF IsDir(loc) THEN IF InDir(loc) \in dirs THEN [k |-> "dir"] ELSE [k |-> "gone"]
  ELSE IF at[loc] = Nothing  THEN [k |-> "gone"]
  ELSE IF at[loc] \in Denied THEN [k |-> "denied"]
  ELSE [k |-> "file", ino |-> at[loc], v |-> ver[at[loc]]]

\* Ask for loc on behalf of an event; the answer is used in a later step.
Look(why, ev, tries, loc, id) ==
  \E error \in {FALSE} \union (IF faults > 0 THEN {TRUE} ELSE {}) :
    /\ ap' = [why |-> why, ev |-> ev, tries |-> tries, id |-> id, loc |-> loc,
              seen |-> IF error THEN [k |-> "error"] ELSE StatX(loc)]
    /\ faults' = IF error THEN faults - 1 ELSE faults

Leave == UNCHANGED <<rows, walks, rescan, counted>>

Ask(why, ev, tries, loc) == Look(why, ev, tries, loc, NoId) /\ Leave

Settle == ap' = Rest /\ UNCHANGED faults
WalkTo(d) == /\ walks' = IF IsExcluded(d) THEN walks ELSE walks \union {InDir(d)}
             /\ UNCHANGED <<rows, rescan, counted>>
SetRows(rs) == rows' = rs /\ UNCHANGED <<walks, rescan, counted>>

\* doi_ten_thu_muc, once the target is known not to be excluded.
RenameTree(from, to) ==
  /\ IF \E i \in Inodes : rows[i].st # "absent" /\ Moved(rows[i].path, from, to) # rows[i].path
     THEN SetRows(RenamedPrefix(rows, from, to))
     ELSE WalkTo(to)
  /\ Settle

\* handler::xu_ly: what each event asks first, or writes at once.
Handle(e, tries) ==
  \/ /\ \/ e.k = "closed" /\ ~IsWanted(e.loc)
        \/ e.k = "moved_in" /\ IsExcluded(e.loc)
     /\ Settle /\ Leave
  \/ /\ \/ e.k = "closed" /\ IsWanted(e.loc)
        \/ e.k = "moved_in" /\ ~IsExcluded(e.loc)
     /\ Ask("add", e, tries, e.loc)
  \/ e.k = "modified" /\ Ask("push", e, tries, e.loc)
  \/ /\ e.k \in {"renamed", "renamed_dir"} /\ IsExcluded(e.loc)
     /\ Ask("gone", e, tries, e.from)
  \/ e.k = "renamed" /\ ~IsExcluded(e.loc) /\ Ask("move", e, tries, e.loc)
  \/ e.k = "renamed_dir" /\ ~IsExcluded(e.loc) /\ RenameTree(e.from, e.loc)
  \/ e.k = "removed_unknown" /\ Ask("gone", e, tries, e.loc)
  \/ e.k = "removed"     /\ SetRows(MarkMissing(rows, e.loc)) /\ Settle
  \/ e.k = "removed_dir" /\ SetRows(MarkMissingPrefix(rows, e.loc)) /\ Settle
  \/ e.k = "created_dir" /\ WalkTo(e.loc) /\ Settle
  \/ e.k = "rescan" /\ rescan' = TRUE /\ UNCHANGED <<rows, walks, counted>> /\ Settle

Take ==
  /\ ap = Rest
  /\ \/ /\ chan # <<>>
        /\ chan' = Tail(chan)
        /\ Handle(Head(chan), 0)
        /\ UNCHANGED retry
     \/ /\ retry # <<>> /\ (mode = "run" \/ chan # <<>>)
        /\ retry' = Tail(retry)
        /\ Handle(Head(retry).ev, Head(retry).tries)
        /\ UNCHANGED chan
  /\ UNCHANGED <<disk, raw, reader>>

\* xep_thu_lai
QueueAgain(e) ==
  IF ap.tries + 1 > MaxTries THEN UNCHANGED <<retry, rescan>>
  ELSE IF Len(retry) >= RetryCap THEN rescan' = TRUE /\ UNCHANGED retry
  ELSE /\ retry' = Append(retry, [ev |-> e, tries |-> ap.tries + 1])
       /\ UNCHANGED rescan

\* DemHangDoi::doc, from the cache or from the table.
Count(fresh) == IF fresh \/ counted = -1 THEN Queue(rows) ELSE counted

\* Mutant: the cache does not count what was added since.
UpsertUncounted(rs, s, loc, fresh) ==
  IF ~IsWanted(loc) THEN SetRows(rs)
  ELSE IF Count(fresh) >= MaxPending
       THEN /\ rescan' = TRUE /\ rows' = rs /\ counted' = Count(fresh)
            /\ UNCHANGED walks
       ELSE /\ rows' = Stored(PathCleared(rs, s.ino, loc), s.ino, s.v, loc)
            /\ counted' = Count(fresh)
            /\ UNCHANGED <<walks, rescan>>

\* upsert_su_kien, on the table rs: into the queue unless the queue is full.
Upsert(rs, s, loc, fresh) ==
  IF ~IsWanted(loc) THEN SetRows(rs)
  ELSE IF Count(fresh) >= MaxPending
       THEN /\ rescan' = TRUE /\ rows' = rs /\ counted' = Count(fresh)
            /\ UNCHANGED walks
       ELSE /\ rows' = Stored(PathCleared(rs, s.ino, loc), s.ino, s.v, loc)
            /\ counted' = Count(fresh) + 1
            /\ UNCHANGED <<walks, rescan>>

Add(s, fresh) ==
  /\ CASE s.k = "file" -> Upsert(rows, s, ap.loc, fresh)
       [] s.k = "dir" /\ ap.ev.k = "moved_in" -> WalkTo(ap.loc)
       [] OTHER -> Leave
  /\ Settle

\* day_ready_at: only the row that settles under this very path.
Push(s) ==
  /\ IF s.k = "file" /\ rows[s.ino].st = "settling" /\ rows[s.ino].path = ap.loc
     THEN SetRows(Stored(rows, s.ino, s.v, ap.loc)) ELSE Leave
  /\ Settle

\* doi_ten, with what statx said of the target.
MoveTo(s) ==
  LET from  == ap.ev.from
      to    == ap.loc
      known == rows[s.ino].st # "absent"
  IN CASE s.k = "denied" -> Settle /\ Leave
       [] s.k = "dir"    -> RenameTree(from, to)
       [] s.k = "gone" \/ (s.k = "file" /\ ~IsWanted(to)) ->
            Ask("gone", ap.ev, ap.tries, from)
       [] OTHER ->
            /\ Look("source", ap.ev, ap.tries, from, IF known THEN NoId ELSE s)
            /\ IF known THEN SetRows(Restored(RenamedRow(rows, s.ino, to), s.ino, s.v))
               ELSE Leave

\* danh_dau_da_xoa_cua
Gone(s, fresh) ==
  /\ CASE s.k = "gone" -> SetRows(MarkGone(rows, ap.loc))
       [] s.k = "file" -> Upsert(rows, s, ap.loc, fresh)
       [] s.k = "dir"  -> WalkTo(ap.loc)
       [] OTHER        -> Leave
  /\ Settle

\* don_nguon, then the upsert of a file nobody knew.
Source(s, fresh) ==
  LET rs == IF s.k = "gone" THEN MarkGone(rows, ap.loc) ELSE rows
  IN /\ IF ap.id = NoId THEN SetRows(rs) ELSE Upsert(rs, ap.id, ap.ev.loc, fresh)
     /\ Settle

\* The answer of statx arrives; a transient error puts the event aside, except
\* for the source of a rename that has been written already.
Answer ==
  /\ ap # Rest
  /\ \E fresh \in BOOLEAN :
       \/ /\ ap.seen.k = "error" /\ ap.why # "source"
          /\ QueueAgain(ap.ev) /\ Settle /\ UNCHANGED <<rows, walks, counted>>
       \/ /\ ap.seen.k # "error" \/ ap.why = "source"
          /\ \/ ap.why = "add"    /\ Add(ap.seen, fresh)
             \/ ap.why = "push"   /\ Push(ap.seen)
             \/ ap.why = "move"   /\ MoveTo(ap.seen)
             \/ ap.why = "gone"   /\ Gone(ap.seen, fresh)
             \/ ap.why = "source" /\ Source(ap.seen, fresh)
          /\ UNCHANGED retry
  /\ UNCHANGED <<disk, raw, reader, chan>>

\* The scheduler walks a directory of HangWalk: only unknown keys are inserted.
Walk(d) ==
  LET found == {i \in Inodes \ Denied : \E p \in Under(<<d>>) : at[p] = i /\ IsWanted(p)}
      PathOf(i) == CHOOSE p \in Under(<<d>>) : at[p] = i /\ IsWanted(p)
  IN /\ d \in walks /\ walks' = walks \ {d}
     /\ rows' = [i \in Inodes |->
                   IF i \in found /\ rows[i].st = "absent"
                   THEN [st |-> "sized", prev |-> "absent", path |-> PathOf(i), fp |-> ver[i]]
                   ELSE rows[i]]
     /\ UNCHANGED <<disk, raw, reader, chan, applier>>

\* The paths under which somebody may look for i.
PathsOf(i) == {p \in Paths : at[p] = i /\ IsWanted(p)}

\* The delta reconcile: an upsert of every file whose ctime is in its window,
\* at the path the walk finds it under, without a look at who holds the path.
Reconciled(rs) ==
  [i \in Inodes |->
     IF i \in touched \ Denied /\ PathsOf(i) # {}
     THEN Stored(rs, i, ver[i], CHOOSE p \in PathsOf(i) : TRUE)[i] ELSE rs[i]]

\* The worker: what it read of a file is the version it then was.
Work(i) ==
  /\ "work" \in Ops /\ rows[i].st \in {"settling", "sized"} /\ rows[i].path \in Paths
  /\ at[rows[i].path] = i
  /\ rows' = [rows EXCEPT ![i].st = "done", ![i].fp = ver[i]]
  /\ UNCHANGED <<disk, raw, reader, chan, applier, walks>>

Init ==
  /\ at = Start /\ left = MaxOps /\ touched = {}
  /\ dirs = {d \in Dirs : \E p \in Under(<<d>>) : Start[p] # Nothing}
  /\ ver = [i \in Inodes |-> IF i \in Free THEN 0 ELSE 1]
  /\ raw = <<>> /\ chan = <<>> /\ gom = <<>> /\ retry = <<>>
  /\ ghep = [wait |-> <<>>, made |-> {}]
  /\ ap = Rest /\ walks = {} /\ rescan = FALSE /\ counted = -1
  /\ faults = MaxFaults /\ mode = "run"
  /\ rows = [i \in Inodes |->
               IF \E p \in Paths : Start[p] = i /\ IsWanted(p) /\ i \notin Denied
               THEN [st |-> "done", prev |-> "absent", fp |-> 1,
                     path |-> CHOOSE p \in Paths : Start[p] = i /\ IsWanted(p)]
               ELSE NoRow]

Next == User \/ Reader \/ Take \/ Answer \/ (\E d \in walks : Walk(d))
             \/ (\E i \in Inodes : Work(i))

Spec == Init /\ [][Next]_vars

(* ---------------------------- properties ------------------------------ *)

\* Types of what the two threads share; a missing row remembers the state it
\* was lost in, which is what restore_or_reset gives it back.
TypeOK ==
  /\ at \in [Paths -> Inodes \union {Nothing}] /\ ver \in [Inodes -> Nat]
  /\ walks \subseteq Dirs /\ rescan \in BOOLEAN /\ counted \in Nat \union {-1}
  /\ \A i \in Inodes :
       /\ rows[i].st \in {"absent", "settling", "sized", "done", "missing"}
       /\ rows[i].st = "missing" => rows[i].prev \in {"settling", "sized", "done"}

Quiet == /\ raw = <<>> /\ ghep.wait = <<>> /\ gom = <<>> /\ chan = <<>>
         /\ ap = Rest /\ retry = <<>> /\ walks = {}

\* Once every event has been applied, every readable file of interest has a live
\* row under one of its paths, or the nightly reconcile will give it one (its
\* ctime is in the window), or a rescan has been asked for.
NothingLost ==
  Quiet /\ ~rescan =>
    \A i \in Inodes \ Denied :
      PathsOf(i) # {} => LET r == Reconciled(rows)[i] IN Live(r) /\ r.path \in PathsOf(i)

\* Once every event has been applied, no live row is left of a file that is no
\* longer there, or a rescan has been asked for.
NoGhost ==
  Quiet /\ ~rescan => \A i \in Inodes : PathsOf(i) = {} => ~Live(rows[i])

\* A file renamed while its events are gathered only waits a second longer
\* (gom.rs): what is known of a file is known of its present content.
Current == Quiet /\ ~rescan =>
             \A i \in Inodes : rows[i].st = "done" => rows[i].fp = ver[i]

\* Back-pressure: the watcher does not let the queue grow beyond its ceiling,
\* however many files arrive within the second the count is cached for; the
\* rows that come back from missing are let in whatever the ceiling.
QueueBounded ==
  Cardinality({i \in Inodes : rows[i].st = "settling" /\ rows[i].prev # "missing"}) <= MaxPending
=============================================================================
