----------------------------- MODULE WalksProofs -----------------------------
(***************************************************************************)
(* A presence pass takes no file for lost that was there all along, for    *)
(* every tree, every percentage of the guards, every fault and any number  *)
(* of them.  What a walk may conclude depends on all it did before, so the *)
(* invariant keeps account of the files: each that was there from the      *)
(* first entry on is still ahead, or has been reported, or was met with an *)
(* error that is remembered.                                               *)
(***************************************************************************)
EXTENDS Walks, FiniteSetTheorems, SequenceTheorems, WellFoundedInduction, TLAPS

\* A walk has its fields, whatever they hold.
Names == {"job", "phase", "left", "at", "dirty", "batch", "pending", "safe", "counted",
          "unread", "lost", "total", "before", "steady", "touched"}
Fields(w) == w = [n \in Names |-> w[n]]

\* The steady files are there, and a walk that does not run knows nothing.
Shape ==
  /\ there \subseteq Files
  /\ row \in [Files -> {"absent", "live", "missing", "expired", "gone"}]
  /\ Fields(walk) /\ walk.steady \subseteq there
  /\ walk.job \in Jobs \cup {"none"} /\ walk.phase \in {"none", "open", "entries"}
  /\ (walk.phase = "none") <=> (walk.job = "none")
  /\ walk.phase = "none" => walk.touched = {}
  /\ walk.phase # "entries" => walk.steady = {} /\ walk.counted = {}

\* The temporary tables belong to the walk that runs.
NoLeftovers == session # Closed => IsPresence /\ Walking

\* f is in the batch or was reported, or could not be read, which is remembered,
\* and its row is not at stake.
Reported(f) ==
  \/ f \in session.seen \cup walk.batch
  \/ walk.unread /\ (row[f] # "live" \/ f \in walk.touched)

\* A pass that may conclude has met every steady file, but for an empty tree,
\* of which it counts nothing.
Accounted ==
  Walking /\ IsPresence /\ ~walk.dirty /\ ~walk.lost =>
    \/ walk.left = {} /\ walk.counted = {}
    \/ \A f \in walk.steady \ walk.left : Reported(f)

\* What was reported has come back to life, and nothing makes it ill again.
SeenLive == \A f \in walk.steady \cap session.seen : row[f] \notin {"missing", "expired"}

\* What the watcher recorded meanwhile is not about to be forgotten.
TouchedYoung == \A f \in Files \cap walk.touched : row[f] # "expired"

WalkInv == Shape /\ NoLeftovers /\ Accounted /\ SeenLive /\ TouchedYoung

RowTypes == [Files -> {"absent", "live", "missing", "expired", "gone"}]

\* What the calls make of the rows are rows, and no call but the retention
\* makes one expired.
LEMMA RowsKeepType ==
  ASSUME row \in RowTypes, NEW S
  PROVE  /\ Upserted(S) \in RowTypes /\ Inserted(S) \in RowTypes
         /\ \A r \in RowTypes : Restored(r, S) \in RowTypes
         /\ \A f \in Files : /\ Upserted(S)[f] \in {"live", row[f]}
                             /\ f \notin S => Upserted(S)[f] = row[f]
                             /\ Inserted(S)[f] \in {"live", row[f]}
BY DEF RowTypes, Upserted, Inserted, Restored

\* The same, of the end of a presence pass.
LEMMA ConcludingKeepsType ==
  ASSUME NEW r \in RowTypes
  PROVE  Marked(r) \in RowTypes /\ Expired(r) \in RowTypes
BY DEF RowTypes, Marked, Expired

\* A walk from the root without a cursor leaves out nothing.
LEMMA WholeTree ==
  ASSUME NEW f \in Files PROVE f \in Ahead[<<>>] /\ Under(f, <<>>)
<1>1. f \in Seq(Nat)
  BY WalksAssumption
<1>2. Under(f, <<>>)
  <2>1. Len(f) \in Nat /\ SubSeq(f, 1, 0) = <<>>
    BY <1>1
  <2> QED BY <2>1 DEF Under
<1>3. \A d : ~Skipped(d, <<>>)
  BY DEF Skipped, Before
<1>4. f \in Ahead[<<>>]
  BY <1>3 DEF Ahead
<1> QED BY <1>2, <1>4

\* What a fresh walk holds, and what it means to set a field.
LEMMA FreshWalk ==
  ASSUME NEW job, NEW phase, NEW total, NEW before, NEW w, w = Fresh(job, phase, total, before)
  PROVE  /\ Fields(w) /\ w.job = job /\ w.phase = phase
         /\ w.steady = {} /\ w.touched = {} /\ w.counted = {} /\ w.batch = {}
BY DEF Fresh, Fields, Names

LEMMA SettingAField ==
  ASSUME NEW w, Fields(w), NEW field \in Names, NEW value
  PROVE  /\ Fields(With(w, field, value)) /\ With(w, field, value)[field] = value
         /\ \A n \in Names \ {field} : With(w, field, value)[n] = w[n]
BY DEF Fields, With

\* The same of a field that is raised.
LEMMA RaisingAField ==
  ASSUME NEW w, Fields(w), NEW field \in Names
  PROVE  /\ Fields(With(w, field, TRUE)) /\ With(w, field, TRUE)[field]
         /\ \A n \in Names \ {field} : With(w, field, TRUE)[n] = w[n]
BY DEF Fields, With

\* At first no walk runs.
LEMMA InitWalk == ASSUME Init PROVE WalkInv
<1>1. /\ Fields(walk) /\ walk.job = "none" /\ walk.phase = "none"
      /\ walk.steady = {} /\ walk.touched = {} /\ walk.counted = {}
  BY FreshWalk DEF Init, Idle
<1> QED BY <1>1, WalksAssumption
        DEF Init, Closed, WalkInv, Shape, NoLeftovers, Accounted, SeenLive, TouchedYoung, Walking

\* However a walk ends, nothing of it is left.
LEMMA EndKeeps ==
  ASSUME WalkInv, walk' = Idle, session' = Closed, there' = there, row' \in RowTypes
  PROVE  WalkInv'
<1>1. /\ Fields(walk') /\ walk'.job = "none" /\ walk'.phase = "none"
      /\ walk'.steady = {} /\ walk'.touched = {} /\ walk'.counted = {}
  BY FreshWalk DEF Idle
<1> QED BY <1>1 DEF WalkInv, Shape, RowTypes, Closed, NoLeftovers, Accounted, SeenLive,
                    TouchedYoung, Walking

\* A walk that is no presence pass has no session and makes no row expired.
LEMMA OtherWalkKeeps ==
  ASSUME WalkInv, Walking, ~IsPresence, session' = session, there' = there,
         Fields(walk'), walk'.job = walk.job, walk'.phase = walk.phase,
         walk'.steady = walk.steady, walk'.touched = walk.touched,
         row' \in RowTypes, \A f \in Files : row'[f] = "expired" => row[f] = "expired"
  PROVE  WalkInv'
<1>1. session' = Closed
  BY DEF WalkInv, NoLeftovers
<1>2. Shape'
  BY DEF WalkInv, Shape, RowTypes, Walking
<1>3. NoLeftovers' /\ SeenLive'
  BY <1>1 DEF NoLeftovers, SeenLive, Closed
<1>4. Accounted'
  BY DEF Accounted, IsPresence
<1>5. TouchedYoung'
  BY DEF WalkInv, TouchedYoung
<1> QED BY <1>2, <1>3, <1>4, <1>5 DEF WalkInv

\* A walk begins with nothing behind it.
LEMMA BeginKeeps == ASSUME WalkInv, NEW job \in Jobs, Begin(job) PROVE WalkInv'
<1>1. session = Closed /\ walk.job = "none"
  BY DEF Begin, WalkInv, NoLeftovers, IsPresence
<1>2. job # "none"
  BY WalksAssumption
<1>3. CASE mounted
  <2>1. walk' = Fresh(job, "open", FileCount, books) /\ UNCHANGED <<session, there, row>>
    BY <1>3 DEF Begin
  <2>2. /\ Fields(walk') /\ walk'.job = job /\ walk'.phase = "open"
        /\ walk'.steady = {} /\ walk'.touched = {} /\ walk'.counted = {}
    BY <2>1, FreshWalk
  <2> QED BY <1>1, <1>2, <2>1, <2>2
          DEF WalkInv, Shape, NoLeftovers, Accounted, SeenLive, TouchedYoung, Walking
<1>4. CASE ~mounted
  <2>1. walk' = Idle /\ UNCHANGED <<session, there, row>>
    BY <1>4 DEF Begin, Dated
  <2> QED BY <1>1, <2>1, EndKeeps DEF WalkInv, Shape, RowTypes
<1> QED BY <1>3, <1>4

\* The root is read: everything that is there lies ahead, or it was unmounted
\* and nothing will be counted.
LEMMA OpenKeeps == ASSUME WalkInv, Open PROVE WalkInv'
<1>1. PICK dir \in IF walk.job = "extra" THEN Dirs ELSE {<<>>} :
        LET tree == Ahead[IF walk.job = "initial" THEN progress.cursor ELSE <<>>]
            left == IF mounted THEN {f \in tree : Under(f, dir)} ELSE {} IN
        walk' = With(With(With(walk, "phase", "entries"), "steady", there), "left", left)
  BY DEF Open
<1>2. /\ walk.phase = "open" /\ UNCHANGED <<there, row, session>>
  BY DEF Open, disk
<1>3. /\ Fields(walk') /\ walk'.phase = "entries" /\ walk'.steady = there
      /\ walk'.job = walk.job /\ walk'.touched = walk.touched /\ walk'.counted = walk.counted
      /\ walk'.left = LET tree == Ahead[IF walk.job = "initial" THEN progress.cursor ELSE <<>>]
                      IN IF mounted THEN {f \in tree : Under(f, dir)} ELSE {}
  BY <1>1, SettingAField DEF WalkInv, Shape, Names
<1>4. session = Closed /\ walk'.counted = {}
  BY <1>2, <1>3 DEF WalkInv, Shape, NoLeftovers, Walking
<1>5. Accounted'
  <2>1. CASE IsPresence' /\ mounted
    <3>1. walk'.left = {f \in Ahead[<<>>] : Under(f, <<>>)}
      BY <1>1, <1>3, <2>1 DEF IsPresence
    <3>2. there' \subseteq walk'.left
      BY <3>1, <1>2, WholeTree DEF WalkInv, Shape
    <3> QED BY <3>2, <1>2, <1>3 DEF Accounted
  <2>2. CASE ~mounted
    BY <1>3, <1>4, <2>2 DEF Accounted
  <2>3. CASE ~IsPresence'
    BY <2>3 DEF Accounted
  <2> QED BY <2>1, <2>2, <2>3
<1> QED BY <1>2, <1>3, <1>4, <1>5
        DEF WalkInv, Shape, NoLeftovers, SeenLive, TouchedYoung, Closed, Walking

\* The entry that is met: walk w is walk with f behind it.
Behind(w, f) ==
  /\ Fields(w) /\ w.job = walk.job /\ w.phase = walk.phase /\ w.left = walk.left \ {f}
  /\ w.batch = walk.batch /\ w.steady = walk.steady /\ w.touched = walk.touched
  /\ w.dirty = walk.dirty /\ (walk.lost => w.lost) /\ (walk.unread => w.unread)

\* A file put into the batch, which may be reported at once.
LEMMA WitnessKeeps ==
  ASSUME WalkInv, Walking, IsPresence, there' = there,
         NEW f \in Files, f \in walk.left, NEW w, Behind(w, f), NEW S \in SUBSET {f},
         Witness(w, f, S)
  PROVE  WalkInv'
<1> DEFINE more == With(w, "batch", w.batch \cup {f})
<1> DEFINE told == With(more, "batch", {})
<1>1. /\ more.job = walk.job /\ more.phase = walk.phase /\ more.left = walk.left \ {f}
      /\ more.steady = walk.steady /\ more.touched = walk.touched
      /\ more.dirty = walk.dirty /\ (walk.lost => more.lost)
      /\ (walk.unread => more.unread)
      /\ Fields(more) /\ more.batch = walk.batch \cup {f}
  BY SettingAField DEF Behind, Names
<1> HIDE DEF more
<1>2. /\ told.job = walk.job /\ told.phase = walk.phase /\ told.left = walk.left \ {f}
      /\ told.steady = walk.steady /\ told.touched = walk.touched
      /\ told.dirty = walk.dirty /\ (walk.lost => told.lost)
      /\ (walk.unread => told.unread)
      /\ Fields(told) /\ told.batch = {}
  BY <1>1, SettingAField DEF Names
<1>3. row \in RowTypes /\ walk.phase = "entries"
  BY DEF WalkInv, Shape, RowTypes, Walking
<1>4. CASE Full(more)
  <2>1. Report(more, S)
    BY <1>4 DEF Witness, more
  <2>2. walk' = told /\ row' = Restored(Upserted(S), more.batch)
    BY <2>1 DEF Report, Rows
  <2>3. session' = IF more.batch = {} THEN session
                   ELSE [open |-> TRUE, seen |-> session.seen \cup more.batch]
    BY <2>1 DEF Report
  <2> HIDE DEF told
  <2>4. session'.seen = session.seen \cup walk.batch \cup {f}
    BY <1>1, <2>3
  <2>5. /\ row' \in RowTypes
        /\ \A g \in Files : /\ row'[g] \in {"live", row[g]}
                            /\ g \notin walk.batch \cup {f} => row'[g] = row[g]
                            /\ g \in walk.batch \cup {f} => row'[g] \notin {"missing", "expired"}
    BY <1>1, <1>3, <2>2, RowsKeepType DEF RowTypes, Restored
  <2>6. Shape' /\ NoLeftovers' /\ TouchedYoung'
    BY <1>2, <2>2, <2>5
       DEF WalkInv, Shape, NoLeftovers, TouchedYoung, RowTypes, IsPresence, Walking
  <2>7. SeenLive'
    BY <1>2, <2>2, <2>4, <2>5 DEF WalkInv, Shape, SeenLive
  <2>8. Accounted'
    BY <1>2, <2>2, <2>4, <2>5 DEF WalkInv, Shape, Accounted, Reported, Walking, IsPresence
  <2> QED BY <2>6, <2>7, <2>8 DEF WalkInv
<1>5. CASE ~Full(more)
  <2>1. row' = Upserted(S) /\ walk' = more /\ session' = session
    BY <1>5 DEF Witness, Rows, more
  <2> HIDE DEF told
  <2>2. /\ row' \in RowTypes
        /\ \A g \in Files : row'[g] \in {"live", row[g]} /\ (g # f => row'[g] = row[g])
    BY <1>3, <2>1, RowsKeepType
  <2>3. Shape' /\ NoLeftovers' /\ TouchedYoung'
    BY <1>1, <1>3, <2>1, <2>2
       DEF WalkInv, Shape, NoLeftovers, TouchedYoung, RowTypes, IsPresence, Walking
  <2>4. SeenLive'
    BY <1>1, <2>1, <2>2 DEF WalkInv, Shape, SeenLive
  <2>5. Accounted'
    BY <1>1, <2>1, <2>2 DEF WalkInv, Shape, Accounted, Reported, Walking, IsPresence
  <2> QED BY <2>3, <2>4, <2>5 DEF WalkInv
<1> QED BY <1>4, <1>5

\* The walk at an entry: the entry is behind it.
LEMMA AtEntry ==
  ASSUME Shape, NEW e, NEW left, NEW w, w = At(e, left)
  PROVE  /\ Fields(w) /\ w.job = walk.job /\ w.phase = walk.phase /\ w.left = left
         /\ w.batch = walk.batch /\ w.steady = walk.steady /\ w.touched = walk.touched
         /\ w.dirty = walk.dirty /\ w.lost = walk.lost /\ w.unread = walk.unread
         /\ w.counted = walk.counted
<1> DEFINE a == With(walk, "left", left)
<1> DEFINE b == With(a, "pending", Hooked(e))
<1>1. /\ Fields(a) /\ a.left = left /\ \A n \in Names \ {"left"} : a[n] = walk[n]
  BY SettingAField DEF Shape, Names
<1> HIDE DEF a
<1>2. /\ Fields(b) /\ b.left = left /\ \A n \in Names \ {"left", "pending"} : b[n] = walk[n]
  BY <1>1, SettingAField DEF Names
<1>3. w = With(b, "at", e)
  BY Zenon DEF At, a
<1> HIDE DEF b
<1> QED BY <1>2, <1>3, SettingAField DEF Names

\* A walk whose batch was written goes on.
LEMMA FlushedWalk ==
  ASSUME NEW w, Fields(w)
  PROVE  /\ Fields(Flushed(w)) /\ Flushed(w).job = w.job /\ Flushed(w).phase = w.phase
         /\ Flushed(w).steady = w.steady /\ Flushed(w).touched = w.touched
<1> DEFINE a == With(w, "safe", IF w.pending = <<>> THEN w.safe ELSE w.pending)
<1> DEFINE b == With(a, "pending", <<>>)
<1>1. Fields(a) /\ \A n \in Names \ {"safe"} : a[n] = w[n]
  BY SettingAField DEF Names
<1> HIDE DEF a
<1>2. Fields(b) /\ \A n \in Names \ {"safe", "pending"} : b[n] = w[n]
  BY <1>1, SettingAField DEF Names
<1>3. Flushed(w) = With(b, "batch", {})
  BY Zenon DEF Flushed, a
<1> HIDE DEF b
<1> QED BY <1>2, <1>3, SettingAField DEF Names

\* A handler that only writes rows, or nothing.
LEMMA HandledKeeps ==
  ASSUME WalkInv, Walking, ~IsPresence, there' = there,
         NEW f \in Files, NEW w, Behind(w, f), Scan(w, f) \/ Reconcile(w, f) \/ Pass(w)
  PROVE  WalkInv'
<1>1. row \in RowTypes
  BY DEF WalkInv, Shape, RowTypes
<1>2. CASE Scan(w, f)
  <2> DEFINE more == With(w, "batch", w.batch \cup {f})
  <2>1. /\ more.job = walk.job /\ more.phase = walk.phase /\ Fields(more)
        /\ more.steady = walk.steady /\ more.touched = walk.touched
    BY SettingAField DEF Behind, Names
  <2>2. CASE Full(more)
    <3>1. Insert(more)
      BY <1>2, <2>2 DEF Scan
    <3> HIDE DEF more
    <3>2. /\ Fields(Flushed(more)) /\ Flushed(more).job = more.job
          /\ Flushed(more).phase = more.phase /\ Flushed(more).steady = more.steady
          /\ Flushed(more).touched = more.touched
      BY <2>1, FlushedWalk
    <3>3. row' = Inserted(more.batch) /\ walk' = Flushed(more) /\ session' = session
      BY <3>1 DEF Insert, Rows
    <3> QED BY <1>1, <2>1, <3>2, <3>3, RowsKeepType, OtherWalkKeeps
  <2>3. CASE ~Full(more)
    <3>1. walk' = more /\ UNCHANGED <<row, session>>
      BY <1>2, <2>3 DEF Scan
    <3> HIDE DEF more
    <3> QED BY <1>1, <2>1, <3>1, OtherWalkKeeps
  <2> QED BY <2>2, <2>3
<1>3. CASE Reconcile(w, f)
  <2>1. row' \in {row, Upserted({f})} /\ walk' = w /\ session' = session
    BY <1>3 DEF Reconcile, Rows
  <2> QED BY <1>1, <2>1, RowsKeepType, OtherWalkKeeps DEF Behind
<1>4. CASE Pass(w)
  BY <1>1, <1>4, OtherWalkKeeps DEF Pass, Behind
<1> QED BY <1>2, <1>3, <1>4

\* A presence pass leaves an entry that was not there all along, or whose error
\* it remembers.
LEMMA ExcusedKeeps ==
  ASSUME WalkInv, Walking, IsPresence, there' = there,
         NEW f \in Files, f \in walk.left, NEW w, Behind(w, f),
         walk' = w, row' = row, session' = session,
         f \notin walk.steady \/ w.lost \/ (w.unread /\ row[f] # "live")
  PROVE  WalkInv'
<1>1. Shape' /\ NoLeftovers' /\ TouchedYoung'
  BY DEF Behind, WalkInv, Shape, NoLeftovers, TouchedYoung, IsPresence, Walking
<1>2. SeenLive'
  BY DEF Behind, WalkInv, SeenLive
<1>3. Accounted'
  BY DEF Behind, WalkInv, Shape, Accounted, Reported, IsPresence, Walking
<1> QED BY <1>1, <1>2, <1>3 DEF WalkInv

\* The next entry is handled, or is not met.
LEMMA VisitKeeps == ASSUME WalkInv, NEW f \in Files, Visit(f) PROVE WalkInv'
<1> DEFINE w == At(f, walk.left \ {f})
<1>1. /\ Walking /\ f \in walk.left /\ there' = there
      /\ (f \in there /\ Handle(w, f)) \/ (f \notin walk.steady /\ Pass(w))
  BY DEF Visit, IsNext, disk
<1>2. Behind(w, f)
  BY AtEntry DEF Behind, WalkInv
<1>3. w.job = walk.job
  BY <1>2 DEF Behind
<1> HIDE DEF w
<1>4. CASE ~IsPresence /\ Handle(w, f)
  <2>1. w.job \in {"initial", "extra", "reconcile"}
    BY <1>1, <1>3, <1>4, WalksAssumption DEF WalkInv, Shape, IsPresence, Walking
  <2>2. Scan(w, f) \/ Reconcile(w, f)
    BY <1>4, <2>1 DEF Handle
  <2> QED BY <1>1, <1>2, <1>4, <2>2, HandledKeeps
<1>5. CASE IsPresence /\ Handle(w, f)
  <2> DEFINE counting == With(w, "counted", w.counted \cup {f})
  <2> DEFINE S == IF w.job = "remote" /\ (row[f] = "absent" \/ f \in stale) THEN {f} ELSE {}
  <2>1. See(w, f)
    BY <1>3, <1>5 DEF Handle, IsPresence
  <2>2. Witness(counting, f, S)
    BY <2>1 DEF See
  <2>3. Behind(counting, f)
    BY <1>2, SettingAField DEF Behind, Names
  <2>4. S \in SUBSET {f}
    OBVIOUS
  <2> HIDE DEF counting, S
  <2> QED BY <1>1, <1>5, <2>2, <2>3, <2>4, WitnessKeeps
<1>6. CASE f \notin walk.steady /\ Pass(w)
  <2>1. CASE IsPresence
    BY <1>1, <1>2, <1>6, <2>1, ExcusedKeeps DEF Pass
  <2>2. CASE ~IsPresence
    BY <1>1, <1>2, <1>6, <2>2, HandledKeeps
  <2> QED BY <2>1, <2>2
<1> QED BY <1>1, <1>4, <1>5, <1>6

\* An entry that cannot be read is remembered as that, or as the loss of the
\* mount; a scan or a reconcile takes no notice.
LEMMA StatxFailsKeeps == ASSUME WalkInv, NEW f \in Files, StatxFails(f) PROVE WalkInv'
<1> DEFINE w == At(f, walk.left \ {f})
<1> DEFINE lost == With(w, "lost", TRUE)
<1>1. /\ Walking /\ f \in walk.left /\ there' = there
      /\ \/ IF IsPresence THEN Unread(w, f) ELSE Pass(w)
         \/ walk.job = "remote" /\ Pass(lost)
  BY DEF StatxFails, IsNext, disk
<1>2. Behind(w, f)
  BY AtEntry DEF Behind, WalkInv
<1> HIDE DEF w
<1>3. Behind(lost, f) /\ lost.lost
  <2>1. Fields(lost) /\ lost.lost /\ \A n \in Names \ {"lost"} : lost[n] = w[n]
    <3>1. Fields(w)
      BY <1>2 DEF Behind
    <3> QED BY <3>1, RaisingAField DEF Names
  <2> HIDE DEF lost
  <2>2. lost.unread = w.unread /\ lost.dirty = w.dirty
    BY <2>1 DEF Names
  <2> QED BY <1>2, <2>1, <2>2 DEF Behind, Names
<1> HIDE DEF lost
<1>4. CASE walk.job = "remote" /\ Pass(lost)
  BY <1>1, <1>3, <1>4, ExcusedKeeps DEF Pass, IsPresence
<1>5. CASE ~IsPresence /\ Pass(w)
  BY <1>1, <1>2, <1>5, HandledKeeps
<1>6. CASE IsPresence /\ Unread(w, f)
  <2> DEFINE more == With(w, "unread", TRUE)
  <2>1. Behind(more, f) /\ more.unread
    <3>1. Fields(more) /\ more.unread /\ \A n \in Names \ {"unread"} : more[n] = w[n]
      <4>1. Fields(w)
        BY <1>2 DEF Behind
      <4> QED BY <4>1, RaisingAField DEF Names
    <3> HIDE DEF more
    <3>2. more.lost = w.lost /\ more.dirty = w.dirty
      BY <3>1 DEF Names
    <3> QED BY <1>2, <3>1, <3>2 DEF Behind, Names
  <2>2. CASE Live(row[f])
    <3>1. Witness(more, f, {})
      BY <1>6, <2>2 DEF Unread
    <3> HIDE DEF more
    <3> QED BY <1>1, <1>6, <2>1, <3>1, WitnessKeeps
  <2>3. CASE ~Live(row[f])
    <3>1. walk' = more /\ UNCHANGED <<row, session>>
      BY <1>6, <2>3 DEF Unread
    <3> HIDE DEF more
    <3> QED BY <1>1, <1>6, <2>1, <2>3, <3>1, ExcusedKeeps DEF Live
  <2> QED BY <2>2, <2>3
<1> QED BY <1>1, <1>4, <1>5, <1>6

\* After a directory that could not be opened nothing will be concluded.
LEMMA ReaddirFailsKeeps == ASSUME WalkInv, NEW f \in Files, ReaddirFails(f) PROVE WalkInv'
<1>1. PICK dir \in Parents(f) \ Parents(walk.at) :
        walk' = With(At(dir, {g \in walk.left : ~Under(g, dir)}), "dirty", TRUE)
  BY DEF ReaddirFails
<1>2. Walking /\ UNCHANGED <<there, row, session>>
  BY DEF ReaddirFails, disk
<1> DEFINE w == At(dir, {g \in walk.left : ~Under(g, dir)})
<1>3. /\ Fields(w) /\ w.job = walk.job /\ w.phase = walk.phase
      /\ w.steady = walk.steady /\ w.touched = walk.touched
  BY AtEntry DEF WalkInv
<1> HIDE DEF w
<1>4. /\ Fields(walk') /\ walk'.job = walk.job /\ walk'.phase = walk.phase
      /\ walk'.steady = walk.steady /\ walk'.touched = walk.touched /\ walk'.dirty
  <2> DEFINE dirty == With(w, "dirty", TRUE)
  <2>1. walk' = dirty
    BY <1>1 DEF w
  <2>2. Fields(dirty) /\ dirty.dirty /\ \A n \in Names \ {"dirty"} : dirty[n] = w[n]
    BY <1>3, RaisingAField DEF Names
  <2> HIDE DEF dirty
  <2> QED BY <1>3, <2>1, <2>2 DEF Names
<1> QED BY <1>2, <1>4
        DEF WalkInv, Shape, NoLeftovers, Accounted, SeenLive, TouchedYoung, IsPresence, Walking

\* Whatever ends a walk leaves no walk, no session and rows.
LEMMA EndingKeeps ==
  ASSUME WalkInv,
         \/ Cut \/ EndDirty \/ EndUnmounted \/ StoreFails \/ FinishInitial \/ FinishExtra
         \/ FinishReconcile \/ Conclude \/ ConcludeHalf \/ Blocked \/ Drop \/ Restart
  PROVE  WalkInv'
<1> USE DEF Dated, disk
<1>1. row \in RowTypes /\ (~IsPresence => session = Closed)
  BY DEF WalkInv, Shape, RowTypes, NoLeftovers
<1>2. AllSeen \in RowTypes
  BY <1>1, RowsKeepType DEF AllSeen
<1>3. GiveUp => session' = Closed /\ row' \in RowTypes
  BY <1>1, RowsKeepType DEF GiveUp, Abort, SaveBatch, Rows
<1>4. walk' = Idle /\ there' = there
  BY DEF Cut, EndDirty, EndUnmounted, StoreFails, FinishInitial, FinishExtra, FinishReconcile,
         Conclude, ConcludeHalf, Blocked, Drop, Restart
<1>5. session' = Closed /\ row' \in RowTypes
  <2>1. CASE Cut \/ EndDirty \/ EndUnmounted
    BY <1>3, <2>1 DEF Cut, EndDirty, EndUnmounted
  <2>2. CASE StoreFails
    BY <1>1, <1>3, <2>2 DEF StoreFails
  <2>3. CASE FinishInitial \/ FinishExtra
    BY <1>1, <2>3, RowsKeepType DEF FinishInitial, FinishExtra, SaveBatch, Rows, IsPresence
  <2>4. CASE FinishReconcile \/ Restart
    BY <1>1, <2>4 DEF FinishReconcile, Restart, IsPresence
  <2>5. CASE Conclude \/ ConcludeHalf \/ Blocked
    BY <1>2, <2>5, ConcludingKeepsType DEF Conclude, ConcludeHalf, Blocked, Rows
  <2>6. CASE Drop
    BY <1>1, <2>6 DEF Drop, Abort
  <2> QED BY <2>1, <2>2, <2>3, <2>4, <2>5, <2>6
<1> QED BY <1>4, <1>5, EndKeeps

\* Users, the watcher, the clock and the administrator do what they like.
LEMMA OutsideKeeps ==
  ASSUME WalkInv, CannotCount \/ Unmount \/ Outside PROVE WalkInv'
<1>1. CASE CannotCount
  <2>1. /\ walk.phase = "open" /\ UNCHANGED <<there, row, session>>
        /\ walk' = With(walk, "total", None)
    BY <1>1 DEF CannotCount, disk
  <2>2. Fields(walk') /\ \A n \in Names \ {"total"} : walk'[n] = walk[n]
    BY <2>1, SettingAField DEF WalkInv, Shape, Names
  <2> QED BY <2>1, <2>2
          DEF WalkInv, Shape, NoLeftovers, Accounted, SeenLive, TouchedYoung, Walking, Names,
              IsPresence
<1>2. CASE Unmount \/ Remount
  BY <1>2 DEF Unmount, Remount, WalkInv, Shape, NoLeftovers, Accounted, Reported, SeenLive,
              TouchedYoung, Walking, IsPresence
<1>3. ASSUME NEW f \in Files, Write(f) PROVE WalkInv'
  BY <1>3 DEF Write, Touch, WalkInv, Shape, NoLeftovers, Accounted, Reported, SeenLive,
              TouchedYoung, Walking, IsPresence
<1>4. ASSUME NEW f \in Files, Remove(f) PROVE WalkInv'
  <2>1. /\ there' = there \ {f} /\ UNCHANGED <<row, session>>
        /\ walk' = With(walk, "steady", walk.steady \ {f})
    BY <1>4 DEF Remove, Touch
  <2>2. /\ Fields(walk') /\ walk'.steady = walk.steady \ {f}
        /\ \A n \in Names \ {"steady"} : walk'[n] = walk[n]
    BY <2>1, SettingAField DEF WalkInv, Shape, Names
  <2> QED BY <2>1, <2>2
          DEF WalkInv, Shape, NoLeftovers, Accounted, Reported, SeenLive, TouchedYoung, Walking,
              Names, IsPresence
<1>5. ASSUME NEW f \in Files, Age(f) \/ Purge(f) PROVE WalkInv'
  BY <1>5 DEF Age, Purge, disk, WalkInv, Shape, NoLeftovers, Accounted, SeenLive, TouchedYoung,
              Walking, IsPresence, Closed
<1>6. ASSUME NEW f \in Files, Event(f) PROVE WalkInv'
  <2>1. /\ row' = IF f \in there THEN Upserted({f}) ELSE [row EXCEPT ![f] = "missing"]
        /\ UNCHANGED <<there, session>>
        /\ walk' = IF walk.job = "none" THEN walk
                   ELSE With(walk, "touched", walk.touched \cup {f})
    BY <1>6 DEF Event, Rows, disk
  <2>2. /\ row' \in RowTypes /\ \A g \in Files \ {f} : row'[g] = row[g]
        /\ f \in there => row'[f] \in {"live", row[f]}
        /\ f \notin there => row'[f] = "missing"
    BY <2>1, RowsKeepType DEF WalkInv, Shape, RowTypes
  <2>3. f \in there => row'[f] # "expired"
    BY <2>1 DEF Upserted
  <2>4. CASE walk.job = "none"
    BY <2>1, <2>2, <2>4
       DEF WalkInv, Shape, NoLeftovers, Accounted, SeenLive, TouchedYoung, Walking, IsPresence,
           RowTypes, Closed
  <2>5. CASE walk.job # "none"
    <3>1. /\ Fields(walk') /\ walk'.touched = walk.touched \cup {f}
          /\ \A n \in Names \ {"touched"} : walk'[n] = walk[n]
      BY <2>1, <2>5, SettingAField DEF WalkInv, Shape, Names
    <3>2. Shape' /\ NoLeftovers' /\ TouchedYoung'
      BY <2>1, <2>2, <2>3, <2>5, <3>1
         DEF WalkInv, Shape, NoLeftovers, TouchedYoung, Walking, IsPresence, RowTypes, Names
    <3>3. SeenLive'
      BY <2>1, <2>2, <3>1 DEF WalkInv, Shape, SeenLive, Names
    <3>4. Accounted'
      <4>1. \A g \in walk.steady : Reported(g) => Reported(g)'
        BY <2>1, <2>2, <3>1 DEF WalkInv, Shape, Reported, Names
      <4> QED BY <3>1, <4>1 DEF WalkInv, Accounted, Walking, IsPresence, Names
    <3> QED BY <3>2, <3>3, <3>4 DEF WalkInv
  <2> QED BY <2>4, <2>5
<1> QED BY <1>1, <1>2, <1>3, <1>4, <1>5, <1>6 DEF Outside

\* The account holds in every state.
THEOREM AccountKept == Spec => []WalkInv
<1>1. ASSUME WalkInv, [Next]_vars PROVE WalkInv'
  <2>1. CASE \E job \in Jobs : Begin(job)
    BY <1>1, <2>1, BeginKeeps
  <2>2. CASE Step
    <3>1. CASE Open
      BY <1>1, <3>1, OpenKeeps
    <3>2. CASE \E f \in Files : Visit(f)
      BY <1>1, <3>2, VisitKeeps
    <3> QED BY <1>1, <2>2, <3>1, <3>2, EndingKeeps DEF Step
  <2>3. CASE Fault
    <3>1. CASE \E f \in Files : StatxFails(f) \/ ReaddirFails(f)
      BY <1>1, <3>1, StatxFailsKeeps, ReaddirFailsKeeps
    <3>2. CASE CannotCount \/ Unmount
      BY <1>1, <3>2, OutsideKeeps
    <3> QED BY <1>1, <2>3, <3>1, <3>2, EndingKeeps DEF Fault
  <2>4. CASE Outside
    BY <1>1, <2>4, OutsideKeeps
  <2>5. CASE UNCHANGED vars
    BY <1>1, <2>5
       DEF vars, WalkInv, Shape, NoLeftovers, Accounted, Reported, SeenLive, TouchedYoung,
           Walking, IsPresence
  <2> QED BY <1>1, <2>1, <2>2, <2>3, <2>4, <2>5 DEF Next
<1> QED BY <1>1, InitWalk, PTL DEF Spec

\* What is done with an entry brings rows to life, or leaves them.
LEMMA EntriesGiveLife ==
  ASSUME row \in RowTypes, NEW f \in Files, NEW w, Handle(w, f) \/ Unread(w, f) \/ Pass(w)
  PROVE  \A g \in Files : row'[g] \in {"live", row[g]}
<1>1. ASSUME NEW z, NEW S, Report(z, S) \/ Insert(z)
      PROVE  \A g \in Files : row'[g] \in {"live", row[g]}
  BY <1>1, RowsKeepType DEF Report, Insert, Rows, Restored, RowTypes
<1>2. ASSUME NEW z, NEW S, Witness(z, f, S) PROVE \A g \in Files : row'[g] \in {"live", row[g]}
  BY <1>1, <1>2, RowsKeepType DEF Witness, Rows
<1>3. CASE Scan(w, f)
  BY <1>1, <1>3 DEF Scan
<1>4. CASE Reconcile(w, f)
  BY <1>4, RowsKeepType DEF Reconcile, Rows
<1>5. CASE See(w, f)
  BY <1>2, <1>5 DEF See
<1>6. CASE Unread(w, f)
  BY <1>2, <1>6 DEF Unread
<1>7. CASE Pass(w)
  BY <1>7 DEF Pass
<1> QED BY <1>3, <1>4, <1>5, <1>6, <1>7 DEF Handle

\* Only the watcher and the end of a presence pass take rows for lost, and only
\* that end forgets them.
LEMMA WhoLoses ==
  ASSUME Shape, Next, NEW f \in Files,
         \/ row[f] = "live" /\ row'[f] = "missing"
         \/ row[f] = "expired" /\ row'[f] = "gone"
  PROVE  Conclude \/ ConcludeHalf \/ (Event(f) /\ row'[f] = "missing")
<1>1. row \in RowTypes
  BY DEF Shape, RowTypes
<1>2. row'[f] \notin {"live", row[f]}
  OBVIOUS
<1>3. ASSUME NEW job \in Jobs, Begin(job) PROVE FALSE
  BY <1>2, <1>3 DEF Begin
<1>4. ASSUME NEW g \in Files, Visit(g) PROVE FALSE
  BY <1>1, <1>2, <1>4, EntriesGiveLife DEF Visit
<1>5. ASSUME NEW g \in Files, StatxFails(g) \/ ReaddirFails(g) PROVE FALSE
  BY <1>1, <1>2, <1>5, EntriesGiveLife DEF StatxFails, ReaddirFails, Pass
<1>6. GiveUp \/ SaveBatch \/ Rows(AllSeen, {}) => row'[f] \in {"live", row[f]}
  BY <1>1, RowsKeepType DEF GiveUp, Abort, SaveBatch, Rows, AllSeen, Restored, RowTypes
<1>7. CASE Open \/ EndDirty \/ EndUnmounted \/ FinishInitial \/ FinishExtra \/ FinishReconcile
           \/ Blocked \/ Drop
  BY <1>2, <1>6, <1>7 DEF Open, EndDirty, EndUnmounted, FinishInitial, FinishExtra,
                          FinishReconcile, Blocked, Drop, Abort
<1>8. CASE Cut \/ StoreFails \/ CannotCount \/ Unmount \/ Restart \/ Remount
  BY <1>2, <1>6, <1>8 DEF Cut, StoreFails, CannotCount, Unmount, Restart, Remount
<1>9. ASSUME NEW g \in Files, Write(g) \/ Remove(g) \/ Age(g) \/ Purge(g) PROVE FALSE
  BY <1>1, <1>9 DEF Write, Remove, Touch, Age, Purge, RowTypes
<1>10. ASSUME NEW g \in Files, Event(g) PROVE g = f /\ row'[f] = "missing"
  BY <1>1, <1>2, <1>10, RowsKeepType DEF Event, Rows, RowTypes
<1> QED BY <1>2, <1>3, <1>4, <1>5, <1>7, <1>8, <1>9, <1>10 DEF Next, Step, Fault, Outside

\* A pass that concludes has met every steady file.
LEMMA ConcludingHasMet ==
  ASSUME WalkInv, Conclude \/ ConcludeHalf
  PROVE  \A f \in walk.steady : Reported(f)
<1>1. /\ Walking /\ IsPresence /\ ~walk.dirty /\ walk.left = {}
      /\ ~walk.lost /\ Seen # 0
  BY DEF Conclude, ConcludeHalf, Through, MountLost, GuardPasses
<1>2. walk.counted # {}
  BY <1>1, FS_EmptySet DEF Seen
<1> QED BY <1>1, <1>2 DEF WalkInv, Accounted

\* What is lost, or forgotten, by a pass or in its time.
LostByPass(f) ==
  \/ row[f] = "live" /\ row'[f] = "missing" /\ IsPresence
  \/ row[f] = "expired" /\ row'[f] = "gone"

\* It was not there all along, and not recorded by the watcher and still there.
LEMMA LostWasNot ==
  ASSUME WalkInv, Next, NEW f \in Files, LostByPass(f)
  PROVE  f \notin walk.steady \cup (walk.touched \cap there)
<1> USE DEF LostByPass
<1>1. CASE Event(f) /\ row'[f] = "missing"
  <2>1. f \notin there
    BY <1>1, RowsKeepType DEF Event, Rows, WalkInv, Shape, RowTypes
  <2> QED BY <2>1 DEF WalkInv, Shape
<1>2. CASE Conclude \/ ConcludeHalf
  <2>1. row \in RowTypes /\ AllSeen \in RowTypes /\ Expired(AllSeen) \in RowTypes
    BY RowsKeepType, ConcludingKeepsType DEF WalkInv, Shape, RowTypes, AllSeen
  <2>2. row' \in {Marked(Expired(AllSeen)), Marked(AllSeen)}
    BY <1>2 DEF Conclude, ConcludeHalf, Rows
  <2>3. AllSeen[f] = IF f \in walk.batch /\ row[f] \in {"missing", "expired"} THEN "live"
                     ELSE row[f]
    BY DEF AllSeen, Restored
  <2>4. CASE row[f] = "live" /\ row'[f] = "missing"
    <3>1. AllSeen[f] = "live" /\ Expired(AllSeen)[f] = "live"
      BY <2>3, <2>4 DEF Expired
    <3>2. f \in Unseen
      BY <2>2, <2>4, <3>1 DEF Marked
    <3>3. f \notin walk.steady
      BY <1>2, <2>4, <3>2, ConcludingHasMet DEF Reported, Unseen
    <3> QED BY <3>2, <3>3 DEF Unseen
  <2>5. CASE row[f] = "expired" /\ row'[f] = "gone"
    <3>1. f \notin Unseen
      BY <2>5 DEF Unseen, Live
    <3>2. MayExpire /\ AllSeen[f] = "expired"
      BY <2>2, <2>3, <2>5, <3>1 DEF Marked, Expired
    <3>3. ~walk.unread /\ f \notin walk.batch
      BY <2>3, <2>5, <3>2 DEF MayExpire
    <3>4. f \notin walk.steady
      BY <1>2, <2>5, <3>3, ConcludingHasMet DEF Reported, WalkInv, SeenLive
    <3>5. f \notin walk.touched
      BY <2>5 DEF WalkInv, TouchedYoung
    <3> QED BY <3>4, <3>5
  <2> QED BY <2>4, <2>5
<1> QED BY <1>1, <1>2, WhoLoses DEF WalkInv

\* A pass takes no file for missing, and none for gone, that was on disk from
\* its first entry to its last, or that the watcher recorded meanwhile
\* (PhienPresence.ket_thuc, db/watch.rs presence_finish).
THEOREM NothingFalselyLost == Spec => NoFalseLoss
<1>1. ASSUME WalkInv, [Next]_vars
      PROVE  [\A f \in Files :
                (\/ row[f] = "live" /\ row'[f] = "missing" /\ IsPresence
                 \/ row[f] = "expired" /\ row'[f] = "gone")
                => f \notin walk.steady \cup (walk.touched \cap there)]_vars
  BY <1>1, LostWasNot DEF LostByPass
<1> QED BY <1>1, AccountKept, PTL DEF NoFalseLoss, Spec

\* The temporary tables of a pass go with it, however it ends (presence_abort).
THEOREM SessionIsFreed == Spec => []SessionFreed
<1>1. WalkInv => SessionFreed
  BY DEF WalkInv, NoLeftovers, SessionFreed, Closed
<1> QED BY <1>1, AccountKept, PTL

(* ------------------------------- the types ----------------------------- *)

\* What each field of a walk may hold.
FieldType ==
  [job |-> Jobs \cup {"none"}, phase |-> {"none", "open", "entries"}, left |-> SUBSET Files,
   at |-> Files \cup Dirs \cup {<<>>}, dirty |-> BOOLEAN, batch |-> SUBSET Files,
   pending |-> Dirs \cup {<<>>}, safe |-> Dirs \cup {<<>>}, counted |-> SUBSET Files,
   unread |-> BOOLEAN, lost |-> BOOLEAN, total |-> Nat \cup {None}, before |-> Nat,
   steady |-> SUBSET Files, touched |-> SUBSET Files]

\* A walk of that type; it is at a directory only after one that failed to open.
WalkTyped(w) ==
  /\ Fields(w) /\ \A n \in Names : w[n] \in FieldType[n]
  /\ ~w.dirty => w.at \in Files \cup {<<>>}

Typed ==
  /\ stale \subseteq Files /\ native \subseteq Files /\ WalkTyped(walk)
  /\ changed \in [Files -> {"old", "due", "new"}]
  /\ progress \in [row : BOOLEAN, cursor : Dirs \cup {<<>>}, finished : BOOLEAN]
  /\ books \in Nat /\ session \in [open : BOOLEAN, seen : SUBSET Files]
  /\ moc \in [Jobs -> {"never", "full", "soon"}] /\ undecided \subseteq Jobs

\* A field set to a value of its type; the entry is set with its own lemma.
LEMMA SettingTyped ==
  ASSUME NEW w, WalkTyped(w), NEW n \in Names \ {"at", "dirty"}, NEW v \in FieldType[n]
  PROVE  WalkTyped(With(w, n, v))
<1> DEFINE z == With(w, n, v)
<1>1. Fields(z) /\ z[n] = v /\ \A k \in Names \ {n} : z[k] = w[k]
  BY SettingAField DEF WalkTyped
<1> HIDE DEF z
<1>2. z.dirty = w.dirty /\ z.at = w.at
  BY <1>1 DEF Names
<1>3. \A k \in Names : z[k] \in FieldType[k]
  BY <1>1 DEF WalkTyped
<1>4. WalkTyped(z)
  BY <1>1, <1>2, <1>3 DEF WalkTyped
<1> QED BY <1>4 DEF z

\* A set of numbers that is not empty has a least one.
LEMMA LeastExists ==
  ASSUME NEW S \in SUBSET Nat, S # {}
  PROVE  \E n \in S : \A k \in S : n <= k
<1>1. IsWellFoundedOn(OpToRel(<, Nat), Nat)
  BY NatLessThanWellFounded
<1>2. PICK n \in S : \A k \in S : ~(<<k, n>> \in OpToRel(<, Nat))
  BY <1>1, WFMin
<1>3. ASSUME NEW k \in S, k < n PROVE FALSE
  <2>1. <<k, n>> \in Nat \X Nat /\ <<k, n>>[1] < <<k, n>>[2]
    BY <1>3
  <2>2. <<k, n>> \in OpToRel(<, Nat)
    BY <2>1, Zenon DEF OpToRel
  <2> QED BY <1>2, <1>3, <2>2, Zenon
<1>4. \A k \in S : n <= k
  BY <1>3
<1> QED BY <1>4

\* The directories above an entry are directories, of some depth.
LEMMA ParentsAre ==
  ASSUME NEW e \in Files \cup {<<>>}
  PROVE  /\ Parents(e) \subseteq Dirs /\ Parents(<<>>) = {}
         /\ \A d \in Parents(e) : d \in Seq(Nat) /\ Len(d) \in Nat /\ Under(e, d) /\ d # <<>>
<1>1. Parents(<<>>) = {}
  BY DEF Parents
<1>2. CASE e \in Files
  <2>1. e \in Seq(Nat) /\ Len(e) \in Nat
    BY <1>2, WalksAssumption
  <2>2. Parents(e) \subseteq Dirs
    BY <1>2 DEF Dirs
  <2>3. ASSUME NEW n \in 1..(Len(e) - 1)
        PROVE  LET d == SubSeq(e, 1, n) IN
               d \in Seq(Nat) /\ Len(d) \in Nat /\ Under(e, d) /\ d # <<>>
    <3>1. SubSeq(e, 1, n) \in Seq(Nat) /\ Len(SubSeq(e, 1, n)) = n
      BY <2>1
    <3> QED BY <2>1, <3>1 DEF Under
  <2> QED BY <1>1, <2>2, <2>3 DEF Parents
<1>3. CASE e = <<>>
  BY <1>1, <1>3
<1> QED BY <1>2, <1>3

\* The directory the walk reports when it goes on to entry e, if any: one it has
\* left.
LEMMA HookedIs ==
  ASSUME NEW e, walk.at \in Files \cup {<<>>},
         Hooked(e) # walk.pending
  PROVE  /\ ~walk.dirty /\ walk.job = "initial"
         /\ Hooked(e) \in Parents(walk.at) /\ ~Under(e, Hooked(e))
<1> DEFINE done == {d \in Parents(walk.at) : ~Under(e, d)}
<1>1. /\ done # {} /\ ~walk.dirty /\ walk.job = "initial"
      /\ Hooked(e) = CHOOSE d \in done : \A c \in done : Len(d) <= Len(c)
  BY DEF Hooked
<1>2. \E d \in done : \A c \in done : Len(d) <= Len(c)
  <2> DEFINE S == {Len(d) : d \in done}
  <2>1. \A d \in done : Len(d) \in Nat
    BY ParentsAre
  <2> HIDE DEF done
  <2>2. S \in SUBSET Nat /\ S # {}
    BY <1>1, <2>1
  <2> HIDE DEF S
  <2>3. PICK n \in S : \A k \in S : n <= k
    BY <2>2, LeastExists
  <2> QED BY <2>3 DEF S
<1> HIDE DEF done
<1>3. Hooked(e) \in done
  BY <1>1, <1>2
<1> QED BY <1>1, <1>3 DEF done

\* The walk goes on to a file, ...
LEMMA AtTyped ==
  ASSUME WalkTyped(walk), NEW f \in Files, NEW left \in SUBSET Files
  PROVE  WalkTyped(At(f, left))
<1> DEFINE a == With(walk, "left", left)
           b == With(a, "pending", Hooked(f))
           c == With(b, "at", f)
<1>1. WalkTyped(a)
  BY SettingTyped DEF Names, FieldType
<1>2. Hooked(f) \in Dirs \cup {<<>>}
  <2>1. CASE Hooked(f) = walk.pending
    BY <2>1 DEF WalkTyped, Names, FieldType
  <2>2. CASE walk.dirty
    <3>1. Hooked(f) = walk.pending
      BY <2>2 DEF Hooked
    <3> QED BY <2>1, <3>1
  <2>3. CASE ~walk.dirty /\ Hooked(f) # walk.pending
    BY <2>3, HookedIs, ParentsAre DEF WalkTyped
  <2> QED BY <2>1, <2>2, <2>3
<1> HIDE DEF a
<1>3. WalkTyped(b)
  BY <1>1, <1>2, SettingTyped DEF Names, FieldType
<1> HIDE DEF b
<1>4. Fields(c) /\ c.at = f /\ \A k \in Names \ {"at"} : c[k] = b[k]
  BY <1>3, SettingAField DEF WalkTyped, Names
<1>5. At(f, left) = c
  BY Zenon DEF At, a, b
<1> HIDE DEF c
<1>6. \A k \in Names : c[k] \in FieldType[k]
  BY <1>3, <1>4 DEF WalkTyped, Names, FieldType
<1>7. WalkTyped(c)
  BY <1>4, <1>6 DEF WalkTyped
<1> QED BY <1>5, <1>7

\* ... or passes a directory over.
LEMMA DirtyTyped ==
  ASSUME WalkTyped(walk), NEW d \in Dirs, NEW e, NEW left \in SUBSET Files, e = d
  PROVE  WalkTyped(With(At(e, left), "dirty", TRUE))
<1> DEFINE a == With(walk, "left", left)
           b == With(a, "pending", Hooked(e))
           c == With(b, "at", e)
           z == With(c, "dirty", TRUE)
<1>1. WalkTyped(a)
  BY SettingTyped DEF Names, FieldType
<1>2. Hooked(e) \in Dirs \cup {<<>>}
  <2>1. CASE Hooked(e) = walk.pending
    BY <2>1 DEF WalkTyped, Names, FieldType
  <2>2. CASE walk.dirty
    <3>1. Hooked(e) = walk.pending
      BY <2>2 DEF Hooked
    <3> QED BY <2>1, <3>1
  <2>3. CASE ~walk.dirty /\ Hooked(e) # walk.pending
    BY <2>3, HookedIs, ParentsAre DEF WalkTyped
  <2> QED BY <2>1, <2>2, <2>3
<1> HIDE DEF a
<1>3. WalkTyped(b)
  BY <1>1, <1>2, SettingTyped DEF Names, FieldType
<1> HIDE DEF b
<1>4. Fields(c) /\ c.at = e /\ \A k \in Names \ {"at"} : c[k] = b[k]
  BY <1>3, SettingAField DEF WalkTyped, Names
<1>5. At(e, left) = c
  BY Zenon DEF At, a, b
<1> HIDE DEF c
<1>6. Fields(z) /\ z.dirty /\ \A k \in Names \ {"dirty"} : z[k] = c[k]
  BY <1>4, RaisingAField DEF Names
<1>7. z["dirty"] \in BOOLEAN
  <2>1. "dirty" \in DOMAIN c
    BY <1>4, Zenon DEF Fields, Names
  <2>2. z["dirty"] = TRUE
    BY <2>1, Zenon DEF With
  <2> QED BY <2>2
<1> HIDE DEF z
<1>8. \A k \in Names : z[k] \in FieldType[k]
  <2>1. z["dirty"] \in FieldType["dirty"] /\ z["at"] \in FieldType["at"]
    BY <1>4, <1>6, <1>7 DEF Names, FieldType
  <2>2. \A k \in Names \ {"dirty", "at"} : z[k] = b[k] /\ b[k] \in FieldType[k]
    BY <1>3, <1>4, <1>6 DEF WalkTyped
  <2> QED BY <2>1, <2>2
<1>9. WalkTyped(z)
  BY <1>6, <1>8 DEF WalkTyped
<1> QED BY <1>5, <1>9 DEF z

\* A walk before its first entry.
LEMMA FreshTyped ==
  ASSUME NEW job \in Jobs \cup {"none"}, NEW phase \in {"none", "open"},
         NEW total \in Nat \cup {None}, NEW before \in Nat
  PROVE  WalkTyped(Fresh(job, phase, total, before))
<1> DEFINE w == Fresh(job, phase, total, before)
<1>1. Fields(w)
  BY FreshWalk
<1>2. \A n \in Names : w[n] \in FieldType[n]
  <2>1. /\ w.job \in FieldType.job /\ w.phase \in FieldType.phase /\ w.left \in FieldType.left
        /\ w.at \in FieldType.at /\ w.batch \in FieldType.batch
        /\ w.pending \in FieldType.pending /\ w.safe \in FieldType.safe
        /\ w.counted \in FieldType.counted /\ w.total \in FieldType.total
        /\ w.before \in FieldType.before /\ w.steady \in FieldType.steady
        /\ w.touched \in FieldType.touched
    BY DEF Fresh, FieldType
  <2>2. w.dirty \in FieldType.dirty /\ w.unread \in FieldType.unread /\ w.lost \in FieldType.lost
    BY DEF Fresh, FieldType
  <2> HIDE DEF w
  <2> QED BY <2>1, <2>2 DEF Names
<1>3. w.at = <<>>
  BY DEF Fresh
<1> QED BY <1>1, <1>2, <1>3 DEF WalkTyped

\* What was counted is a number.
LEMMA CountsAre == FileCount \in Nat /\ (walk.counted \subseteq Files => Seen \in Nat)
<1>1. \A S : S \subseteq Files => Cardinality(S) \in Nat
  BY FS_Subset, FS_CardinalityType, WalksAssumption
<1> QED BY <1>1 DEF FileCount, Seen

Sessions == [open : BOOLEAN, seen : SUBSET Files]

\* A raised field is typed as well.
LEMMA RaisingTyped ==
  ASSUME NEW w, WalkTyped(w), NEW n \in {"unread", "lost"}
  PROVE  WalkTyped(With(w, n, TRUE))
<1>1. n \in Names \ {"at", "dirty"}
  BY DEF Names
<1>2. FieldType[n] = BOOLEAN
  BY DEF FieldType
<1> HIDE DEF FieldType
<1>3. TRUE \in FieldType[n]
  BY <1>2
<1> QED BY <1>1, <1>3, SettingTyped

\* What is done with an entry keeps the walk, the session and the rows typed.
LEMMA HandledTyped ==
  ASSUME NEW w, WalkTyped(w), NEW f \in Files, stale \subseteq Files, session \in Sessions,
         Handle(w, f) \/ Unread(w, f) \/ Pass(w)
  PROVE  WalkTyped(walk') /\ stale' \subseteq Files /\ session' \in Sessions
<1>1. ASSUME NEW z, WalkTyped(z), NEW S, Report(z, S)
      PROVE  WalkTyped(walk') /\ stale' \subseteq Files /\ session' \in Sessions
  <2>1. walk' = With(z, "batch", {}) /\ stale' \subseteq Files
    BY <1>1 DEF Report, Rows
  <2>2. WalkTyped(walk')
    BY <1>1, <2>1, SettingTyped DEF FieldType, Names
  <2>3. z.batch \in SUBSET Files
    BY <1>1 DEF WalkTyped, FieldType, Names
  <2>4. session' \in Sessions
    BY <1>1, <2>3 DEF Report, Sessions
  <2> QED BY <2>1, <2>2, <2>4
<1>2. ASSUME NEW z, WalkTyped(z), Insert(z)
      PROVE  WalkTyped(walk') /\ stale' \subseteq Files /\ session' \in Sessions
  <2> DEFINE a == With(z, "safe", IF z.pending = <<>> THEN z.safe ELSE z.pending)
             b == With(a, "pending", <<>>)
  <2>1. z.pending \in Dirs \cup {<<>>} /\ z.safe \in Dirs \cup {<<>>}
    BY <1>2 DEF WalkTyped, FieldType, Names
  <2>2. WalkTyped(a)
    BY <1>2, <2>1, SettingTyped DEF FieldType, Names
  <2> HIDE DEF a
  <2>3. WalkTyped(b)
    BY <2>2, SettingTyped DEF FieldType, Names
  <2> HIDE DEF b
  <2>4. WalkTyped(With(b, "batch", {}))
    BY <2>3, SettingTyped DEF FieldType, Names
  <2>5. Flushed(z) = With(b, "batch", {})
    BY Zenon DEF Flushed, a, b
  <2> QED BY <1>2, <2>4, <2>5 DEF Insert, Rows
<1>3. ASSUME NEW z, WalkTyped(z) PROVE WalkTyped(With(z, "batch", z.batch \cup {f}))
  <2>1. z.batch \in SUBSET Files
    BY <1>3 DEF WalkTyped, FieldType, Names
  <2> QED BY <1>3, <2>1, SettingTyped DEF FieldType, Names
<1>4. ASSUME NEW z, WalkTyped(z), NEW S, Witness(z, f, S)
      PROVE  WalkTyped(walk') /\ stale' \subseteq Files /\ session' \in Sessions
  BY <1>1, <1>3, <1>4 DEF Witness, Rows
<1>5. CASE Scan(w, f)
  BY <1>2, <1>3, <1>5 DEF Scan
<1>6. CASE Reconcile(w, f)
  BY <1>6 DEF Reconcile, Rows
<1>7. CASE See(w, f)
  <2> DEFINE counting == With(w, "counted", w.counted \cup {f})
  <2>1. w.counted \in SUBSET Files
    BY DEF WalkTyped, FieldType, Names
  <2>2. WalkTyped(counting)
    BY <2>1, SettingTyped DEF FieldType, Names
  <2>3. PICK S : Witness(counting, f, S)
    BY <1>7 DEF See
  <2> HIDE DEF counting
  <2> QED BY <1>4, <2>2, <2>3
<1>8. CASE Unread(w, f)
  <2> DEFINE more == With(w, "unread", TRUE)
  <2>1. WalkTyped(more)
    BY RaisingTyped
  <2>2. Witness(more, f, {}) \/ (walk' = more /\ UNCHANGED <<row, stale, session>>)
    BY <1>8 DEF Unread
  <2> HIDE DEF more
  <2> QED BY <1>4, <2>1, <2>2
<1>9. CASE Pass(w)
  BY <1>9 DEF Pass
<1> QED BY <1>5, <1>6, <1>7, <1>8, <1>9 DEF Handle

\* Whatever ends a walk leaves typed books.
LEMMA EndingTyped ==
  ASSUME Typed, Shape,
         \/ Cut \/ EndDirty \/ EndUnmounted \/ StoreFails \/ FinishInitial \/ FinishExtra
         \/ FinishReconcile \/ Conclude \/ ConcludeHalf \/ Blocked \/ Drop \/ Restart
  PROVE  Typed'
<1>1. walk' = Idle
  BY DEF Cut, EndDirty, EndUnmounted, StoreFails, FinishInitial, FinishExtra, FinishReconcile,
         Conclude, ConcludeHalf, Blocked, Drop, Restart, Dated
<1>2. WalkTyped(walk')
  BY <1>1, FreshTyped DEF Idle
<1>3. Closed \in Sessions
  BY DEF Closed, Sessions
<1>4. GiveUp \/ SaveBatch => stale' \subseteq Files /\ session' \in Sessions
  BY <1>3 DEF GiveUp, Abort, SaveBatch, Rows, Typed, Sessions
<1>5. stale' \subseteq Files /\ session' \in Sessions
  <2>1. CASE Cut \/ EndDirty \/ EndUnmounted \/ StoreFails \/ FinishInitial \/ FinishExtra
    BY <1>4, <2>1 DEF Cut, EndDirty, EndUnmounted, StoreFails, FinishInitial, FinishExtra, Typed,
                      Sessions
  <2>2. CASE FinishReconcile \/ Conclude \/ ConcludeHalf \/ Blocked \/ Drop \/ Restart
    BY <1>3, <2>2 DEF FinishReconcile, Conclude, ConcludeHalf, Blocked, Drop, Restart, Rows,
                      Abort, Typed, Sessions
  <2> QED BY <2>1, <2>2
<1>6. native' \subseteq Files /\ changed' \in [Files -> {"old", "due", "new"}]
  <2>1. CASE FinishReconcile
    BY <2>1 DEF FinishReconcile, ThresholdAtStart, Typed
  <2>2. CASE ~FinishReconcile
    BY <2>2 DEF Cut, EndDirty, EndUnmounted, StoreFails, FinishInitial, FinishExtra,
       Conclude, ConcludeHalf, Blocked, Drop, Restart, disk, Typed
  <2> QED BY <2>1, <2>2
<1>7. progress' \in [row : BOOLEAN, cursor : Dirs \cup {<<>>}, finished : BOOLEAN]
  <2>1. CursorAfter(Flushed(walk)) \in [row : BOOLEAN, cursor : Dirs \cup {<<>>}, finished : BOOLEAN]
    <3> DEFINE a == With(walk, "safe", IF walk.pending = <<>> THEN walk.safe ELSE walk.pending)
               b == With(a, "pending", <<>>)
    <3>1. walk.pending \in Dirs \cup {<<>>} /\ walk.safe \in Dirs \cup {<<>>}
      BY DEF Typed, WalkTyped, FieldType, Names
    <3>2. Fields(a) /\ a.safe \in Dirs \cup {<<>>}
      BY <3>1, SettingAField DEF Names, Shape
    <3> HIDE DEF a
    <3>3. Fields(b) /\ b.safe = a.safe
      BY <3>2, SettingAField DEF Names
    <3> HIDE DEF b
    <3>4. With(b, "batch", {}).safe = a.safe
      BY <3>3, SettingAField DEF Names
    <3>5. Flushed(walk) = With(b, "batch", {})
      BY Zenon DEF Flushed, a, b
    <3> QED BY <3>2, <3>4, <3>5 DEF CursorAfter, Typed
  <2>2. CASE Cut \/ EndDirty
    BY <2>1, <2>2 DEF Cut, EndDirty, Typed
  <2>3. CASE FinishInitial
    BY <2>3 DEF FinishInitial
  <2>4. CASE EndUnmounted \/ StoreFails \/ FinishExtra \/ FinishReconcile \/ Conclude
             \/ ConcludeHalf \/ Blocked \/ Drop \/ Restart
    BY <2>4 DEF EndUnmounted, StoreFails, FinishExtra, FinishReconcile, Conclude, ConcludeHalf,
       Blocked, Drop, Restart, Typed
  <2> QED BY <2>2, <2>3, <2>4
<1>8. books' \in Nat
  <2>1. Booked \in Nat
    <3>1. walk.counted \subseteq Files
      BY DEF Typed, WalkTyped, FieldType, Names
    <3> QED BY <3>1, CountsAre DEF Booked, Typed
  <2> QED BY <2>1 DEF Cut, EndDirty, EndUnmounted, StoreFails, FinishInitial, FinishExtra,
       FinishReconcile, Conclude, ConcludeHalf, Blocked, Drop, Restart, Typed
<1>9. moc' \in [Jobs -> {"never", "full", "soon"}] /\ undecided' \subseteq Jobs
  <2>1. CASE Restart
    BY <2>1 DEF Restart, Typed
  <2>2. CASE ~Restart
    <3>1. walk.job \in Jobs
      BY <2>2 DEF Cut, EndDirty, EndUnmounted, StoreFails, FinishInitial, FinishExtra,
         FinishReconcile, Conclude, ConcludeHalf, Blocked, Drop, Through, Walking, Shape
    <3>2. \E concluded, verdict \in BOOLEAN : Dated(walk.job, concluded, verdict)
      BY <2>2 DEF Cut, EndDirty, EndUnmounted, StoreFails, FinishInitial, FinishExtra,
         FinishReconcile, Conclude, ConcludeHalf, Blocked, Drop, BlockedCounts
    <3> QED BY <3>1, <3>2 DEF Dated, Typed
  <2> QED BY <2>1, <2>2
<1> QED BY <1>2, <1>5, <1>6, <1>7, <1>8, <1>9 DEF Typed, Sessions

\* Nothing outside a walk disturbs a type.
LEMMA OutsideTyped == ASSUME Typed, Shape, CannotCount \/ Unmount \/ Outside PROVE Typed'
<1>1. CASE CannotCount
  <2>1. WalkTyped(walk')
    BY <1>1, SettingTyped DEF CannotCount, Typed, FieldType, Names
  <2> QED BY <1>1, <2>1 DEF CannotCount, Typed, disk
<1>2. CASE Unmount \/ Remount
  BY <1>2 DEF Unmount, Remount, Typed
<1>3. ASSUME NEW f \in Files, Write(f) PROVE Typed'
  BY <1>3 DEF Write, Touch, Typed
<1>4. ASSUME NEW f \in Files, Remove(f) PROVE Typed'
  <2>1. walk.steady \in SUBSET Files
    BY DEF Typed, WalkTyped, FieldType, Names
  <2>2. WalkTyped(walk')
    BY <1>4, <2>1, SettingTyped DEF Remove, Touch, Typed, FieldType, Names
  <2> QED BY <1>4, <2>2 DEF Remove, Touch, Typed
<1>5. ASSUME NEW f \in Files, Age(f) \/ Purge(f) PROVE Typed'
  BY <1>5 DEF Age, Purge, Typed, disk
<1>6. ASSUME NEW f \in Files, Event(f) PROVE Typed'
  <2>1. walk.touched \in SUBSET Files
    BY DEF Typed, WalkTyped, FieldType, Names
  <2>2. WalkTyped(walk')
    BY <1>6, <2>1, SettingTyped DEF Event, Typed, FieldType, Names
  <2> QED BY <1>6, <2>2 DEF Event, Rows, Typed, disk
<1> QED BY <1>1, <1>2, <1>3, <1>4, <1>5, <1>6 DEF Outside

\* Every variable keeps its type.
LEMMA TypedStep == ASSUME Typed, Shape, [Next]_vars PROVE Typed'
<1>1. ASSUME NEW job \in Jobs, Begin(job) PROVE Typed'
  <2>1. WalkTyped(walk')
    <3>1. WalkTyped(Idle)
      BY FreshTyped DEF Idle
    <3>2. WalkTyped(Fresh(job, "open", FileCount, books))
      BY FreshTyped, CountsAre DEF Typed
    <3> QED BY <1>1, <3>1, <3>2 DEF Begin, Dated
  <2>2. /\ moc' \in [Jobs -> {"never", "full", "soon"}] /\ undecided' \subseteq Jobs
        /\ changed' \in [Files -> {"old", "due", "new"}]
        /\ progress' \in [row : BOOLEAN, cursor : Dirs \cup {<<>>}, finished : BOOLEAN]
    BY <1>1 DEF Begin, Dated, Typed
  <2> QED BY <1>1, <2>1, <2>2 DEF Begin, Typed
<1>2. CASE Open
  <2>1. PICK dir \in IF walk.job = "extra" THEN Dirs ELSE {<<>>} :
          LET tree == Ahead[IF walk.job = "initial" THEN progress.cursor ELSE <<>>]
              left == IF mounted THEN {f \in tree : Under(f, dir)} ELSE {} IN
          walk' = With(With(With(walk, "phase", "entries"), "steady", there), "left", left)
    BY <1>2 DEF Open
  <2> DEFINE c == IF walk.job = "initial" THEN progress.cursor ELSE <<>>
             left == IF mounted THEN {f \in Ahead[c] : Under(f, dir)} ELSE {}
             a == With(walk, "phase", "entries")
             b == With(a, "steady", there)
  <2>2. walk' = With(b, "left", left)
    BY <2>1, Zenon
  <2>3. c \in Dirs \cup {<<>>}
    BY DEF Typed
  <2> HIDE DEF c
  <2>4. left \in SUBSET Files
    BY <2>3 DEF Ahead
  <2> HIDE DEF left
  <2>5. WalkTyped(a)
    BY SettingTyped DEF Typed, FieldType, Names
  <2> HIDE DEF a
  <2>6. WalkTyped(b)
    BY <2>5, SettingTyped DEF Shape, FieldType, Names
  <2> HIDE DEF b
  <2>7. WalkTyped(walk')
    BY <2>2, <2>4, <2>6, SettingTyped DEF FieldType, Names
  <2> QED BY <1>2, <2>7 DEF Open, Typed, disk
<1>3. ASSUME NEW f \in Files, Visit(f) \/ StatxFails(f) PROVE Typed'
  <2> DEFINE w == At(f, walk.left \ {f})
             lost == With(w, "lost", TRUE)
  <2>1. walk.left \ {f} \in SUBSET Files
    BY DEF Typed, WalkTyped, FieldType, Names
  <2>2. WalkTyped(w)
    BY <2>1, AtTyped DEF Typed
  <2>3. Handle(w, f) \/ Unread(w, f) \/ Pass(w) \/ Pass(lost)
    BY <1>3 DEF Visit, StatxFails
  <2> HIDE DEF w
  <2>4. WalkTyped(lost)
    BY <2>2, RaisingTyped
  <2> HIDE DEF lost
  <2>5. WalkTyped(walk') /\ stale' \subseteq Files /\ session' \in Sessions
    BY <2>2, <2>3, <2>4, HandledTyped DEF Typed, Sessions
  <2> QED BY <1>3, <2>5 DEF Visit, StatxFails, Typed, disk, Sessions
<1>4. ASSUME NEW f \in Files, ReaddirFails(f) PROVE Typed'
  <2>1. PICK dir \in Parents(f) \ Parents(walk.at) :
          walk' = With(At(dir, {g \in walk.left : ~Under(g, dir)}), "dirty", TRUE)
    BY <1>4 DEF ReaddirFails
  <2>2. dir \in Dirs /\ {g \in walk.left : ~Under(g, dir)} \in SUBSET Files
    BY ParentsAre DEF Typed, WalkTyped, FieldType, Names
  <2>3. WalkTyped(walk')
    BY <2>1, <2>2, DirtyTyped DEF Typed
  <2> QED BY <1>4, <2>3 DEF ReaddirFails, Typed, disk
<1>5. CASE UNCHANGED vars
  BY <1>5 DEF vars, Typed
<1> QED BY <1>1, <1>2, <1>3, <1>4, <1>5, EndingTyped, OutsideTyped DEF Next, Step, Fault

LEMMA InitTyped == ASSUME Init PROVE Typed
<1>1. WalkTyped(walk)
  BY FreshTyped DEF Init, Idle
<1> QED BY <1>1, WalksAssumption DEF Init, Typed, Closed

LEMMA AllTyped == Spec => []Typed
BY InitTyped, TypedStep, AccountKept, PTL DEF Spec, WalkInv

\* Every variable keeps its type: among others a walk is at most at a directory
\* of the tree, and the cursor and the count of the last pass are values a later
\* walk can start from.
THEOREM TypeCorrect == Spec => []TypeOK
<1>1. Typed /\ Shape => TypeOK
  BY DEF Typed, Shape, WalkTyped, FieldType, Names, TypeOK
<1> QED BY <1>1, AllTyped, AccountKept, PTL DEF WalkInv

\* A pass that reached no conclusion is dated to be tried again soon, after a
\* restart too; of the passes over a remote root this is not so (BlockedCounts),
\* which is why they are excepted (lich/viec.rs, ghi_moc).
THEOREM UndecidedTriedAgain == ASSUME "remote" \notin Jobs PROVE Spec => []TriedAgain
<1>1. Init => TriedAgain
  BY DEF Init, TriedAgain
<1>2. ASSUME TriedAgain, Typed, Shape, [Next]_vars PROVE TriedAgain'
  <2>1. ASSUME NEW job \in Jobs, NEW concluded \in BOOLEAN, NEW verdict \in BOOLEAN,
               concluded => verdict, Dated(job, concluded, verdict)
        PROVE  TriedAgain'
    BY <1>2, <2>1 DEF Dated, TriedAgain, Typed
  <2>2. CASE UNCHANGED <<moc, undecided>>
    BY <1>2, <2>2 DEF TriedAgain
  <2>3. CASE Restart
    BY <1>2, <2>3 DEF Restart, TriedAgain, Typed
  <2>4. ASSUME NEW job \in Jobs, Begin(job) PROVE TriedAgain'
    BY <2>1, <2>2, <2>4 DEF Begin
  <2>5. CASE \/ Cut \/ EndDirty \/ EndUnmounted \/ StoreFails \/ FinishInitial \/ FinishExtra
             \/ FinishReconcile \/ Conclude \/ ConcludeHalf \/ Blocked \/ Drop
    <3>1. walk.job \in Jobs
      BY <1>2, <2>5 DEF Cut, EndDirty, EndUnmounted, StoreFails, FinishInitial, FinishExtra,
         FinishReconcile, Conclude, ConcludeHalf, Blocked, Drop, Through, Walking, Shape
    <3>2. \E concluded, verdict \in BOOLEAN :
             (concluded => verdict) /\ Dated(walk.job, concluded, verdict)
      BY <2>5, <3>1 DEF Cut, EndDirty, EndUnmounted, StoreFails, FinishInitial, FinishExtra,
         FinishReconcile, Conclude, ConcludeHalf, Blocked, Drop, BlockedCounts
    <3> QED BY <2>1, <3>1, <3>2
  <2>6. CASE CannotCount \/ Unmount \/ Outside
    BY <2>2, <2>6 DEF CannotCount, Unmount, Outside, Remount, Write, Remove, Touch, Event, Age,
       Purge
  <2>7. CASE Open \/ \E f \in Files : Visit(f) \/ StatxFails(f) \/ ReaddirFails(f)
    BY <2>2, <2>7 DEF Open, Visit, StatxFails, ReaddirFails
  <2>8. CASE UNCHANGED vars
    BY <2>2, <2>8 DEF vars
  <2> QED BY <1>2, <2>3, <2>4, <2>5, <2>6, <2>7, <2>8 DEF Next, Step, Fault
<1> QED BY <1>1, <1>2, AllTyped, AccountKept, PTL DEF Spec, WalkInv

(* ----------------------- the order of the entries ---------------------- *)

\* To lie under a directory is to begin with it.
LEMMA UnderIs ==
  ASSUME NEW a \in Seq(Nat), NEW d \in Seq(Nat)
  PROVE  Under(a, d) <=> Len(d) <= Len(a) /\ \A i \in 1..Len(d) : a[i] = d[i]
<1>1. CASE Len(d) <= Len(a)
  <2> DEFINE s == SubSeq(a, 1, Len(d))
  <2>1. s \in Seq(Nat) /\ Len(s) = Len(d) /\ \A i \in 1..Len(d) : s[i] = a[i]
    BY <1>1
  <2> HIDE DEF s
  <2>2. (\A i \in 1..Len(d) : s[i] = d[i]) => s = d
    BY <2>1, SeqEqual
  <2> QED BY <1>1, <2>1, <2>2 DEF Under, s
<1>2. CASE ~(Len(d) <= Len(a))
  BY <1>2 DEF Under
<1> QED BY <1>1, <1>2

\* Where two paths part, the names decide.
LEMMA BeforeIs ==
  ASSUME NEW a \in Seq(Nat), NEW b \in Seq(Nat)
  PROVE  Before(a, b) <=>
           \E n \in 1..Len(b) :
             /\ n - 1 <= Len(a) /\ \A i \in 1..(n - 1) : a[i] = b[i]
             /\ Len(a) < n \/ a[n] < b[n]
<1>1. ASSUME NEW n \in 1..Len(b)
      PROVE  Under(a, SubSeq(b, 1, n - 1)) <=> n - 1 <= Len(a) /\ \A i \in 1..(n - 1) : a[i] = b[i]
  <2> DEFINE s == SubSeq(b, 1, n - 1)
  <2>1. s \in Seq(Nat) /\ Len(s) = n - 1 /\ \A i \in 1..(n - 1) : s[i] = b[i]
    OBVIOUS
  <2> HIDE DEF s
  <2>2. Under(a, s) <=> Len(s) <= Len(a) /\ \A i \in 1..Len(s) : a[i] = s[i]
    BY <2>1, UnderIs
  <2> QED BY <2>1, <2>2 DEF s
<1> QED BY <1>1 DEF Before

\* What lies in a directory before d, but not above it, comes before all in d.
LEMMA SkippedIsBehind ==
  ASSUME NEW d \in Seq(Nat), NEW p \in Seq(Nat), NEW e \in Seq(Nat), NEW g \in Seq(Nat),
         Skipped(p, d), Under(e, d), Under(g, p)
  PROVE  ~Before(e, g)
<1>1. PICK n \in 1..Len(d) :
        /\ n - 1 <= Len(p) /\ \A i \in 1..(n - 1) : p[i] = d[i]
        /\ Len(p) < n \/ p[n] < d[n]
  BY BeforeIs DEF Skipped
<1>2. /\ Len(d) <= Len(e) /\ \A i \in 1..Len(d) : e[i] = d[i]
      /\ Len(p) <= Len(g) /\ \A i \in 1..Len(p) : g[i] = p[i]
  BY UnderIs
<1>3. Len(d) \in Nat /\ Len(p) \in Nat /\ Len(e) \in Nat /\ Len(g) \in Nat
  OBVIOUS
<1>4. ~(Len(p) < n)
  <2>1. SUFFICES ASSUME Len(p) < n PROVE FALSE
    OBVIOUS
  <2>2. Len(p) = n - 1 /\ Len(p) <= Len(d)
    BY <1>1, <1>3, <2>1
  <2>3. \A i \in 1..Len(p) : d[i] = p[i]
    BY <1>1, <2>2
  <2>4. Under(d, p)
    BY <2>2, <2>3, UnderIs
  <2> QED BY <2>4 DEF Skipped
<1>5. n \in 1..Len(e) /\ n \in 1..Len(g) /\ n \in 1..Len(p) /\ n \in 1..Len(d) /\ n \in Nat
  <2>1. Len(d) <= Len(e) /\ Len(p) <= Len(g)
    BY <1>2
  <2>2. n \in Nat /\ 1 <= n /\ n <= Len(d) /\ n <= Len(p)
    BY <1>3, <1>4
  <2> QED BY <1>3, <2>1, <2>2
<1>6. e[n] = d[n] /\ g[n] = p[n] /\ p[n] < d[n]
  BY <1>1, <1>2, <1>4, <1>5
<1>7. \A i \in 1..(n - 1) : e[i] = g[i]
  <2>1. SUFFICES ASSUME NEW i \in 1..(n - 1) PROVE e[i] = g[i]
    OBVIOUS
  <2>2. i \in 1..Len(d) /\ i \in 1..Len(p)
    BY <1>3, <1>5
  <2>3. p[i] = d[i]
    BY <1>1
  <2> QED BY <1>2, <2>2, <2>3
<1>8. e[n] \in Nat /\ g[n] \in Nat
  BY <1>5
<1>9. g[n] < e[n]
  BY <1>6
<1>10. SUFFICES ASSUME Before(e, g) PROVE FALSE
  OBVIOUS
<1>11. PICK m \in 1..Len(g) :
        /\ m - 1 <= Len(e) /\ \A i \in 1..(m - 1) : e[i] = g[i]
        /\ Len(e) < m \/ e[m] < g[m]
  BY <1>10, BeforeIs
<1>12. CASE m < n
  <2>1. m \in 1..(n - 1) /\ m \in 1..Len(e)
    BY <1>3, <1>5, <1>12
  <2>2. e[m] = g[m] /\ e[m] \in Nat /\ ~(Len(e) < m)
    BY <1>3, <1>7, <2>1
  <2> QED BY <1>11, <2>2
<1>13. CASE m = n
  <2>1. ~(Len(e) < n)
    BY <1>3, <1>5
  <2> QED BY <1>8, <1>9, <1>11, <1>13, <2>1
<1>14. CASE m > n
  <2>1. n \in 1..(m - 1)
    BY <1>5, <1>14
  <2> QED BY <1>8, <1>9, <1>11, <2>1
<1> QED BY <1>5, <1>12, <1>13, <1>14

(* ------------------------- rows and walks go on ------------------------ *)

\* The lives of a row, and who may end one.
LEMMA RowsGo ==
  ASSUME Shape, Next, NEW f \in Files
  PROVE  \/ row'[f] \in {row[f], "live"}
         \/ row[f] = "live" /\ row'[f] = "missing" /\ (Conclude \/ ConcludeHalf \/ f \notin there)
         \/ row[f] = "expired" /\ row'[f] = "gone" /\ (Conclude \/ ConcludeHalf)
         \/ row[f] = "missing" /\ row'[f] = "expired"
         \/ row[f] = "gone" /\ row'[f] = "absent" /\ walk.job = "none"
<1>1. row \in RowTypes
  BY DEF Shape, RowTypes
<1>2. ASSUME NEW job \in Jobs, Begin(job) PROVE row' = row
  BY <1>2 DEF Begin
<1>3. ASSUME NEW g \in Files, Visit(g) \/ StatxFails(g) \/ ReaddirFails(g)
      PROVE  row'[f] \in {row[f], "live"}
  BY <1>1, <1>3, EntriesGiveLife DEF Visit, StatxFails, ReaddirFails, Pass
<1>4. GiveUp \/ SaveBatch \/ Rows(AllSeen, {}) => row'[f] \in {"live", row[f]}
  BY <1>1, RowsKeepType DEF GiveUp, Abort, SaveBatch, Rows, AllSeen, Restored, RowTypes
<1>5. CASE \/ Open \/ EndDirty \/ EndUnmounted \/ FinishInitial \/ FinishExtra \/ FinishReconcile
           \/ Blocked \/ Drop
  BY <1>4, <1>5 DEF Open, EndDirty, EndUnmounted, FinishInitial, FinishExtra,
                    FinishReconcile, Blocked, Drop, Abort
<1>6. CASE Cut \/ StoreFails \/ CannotCount \/ Unmount \/ Restart \/ Remount
  BY <1>4, <1>6 DEF Cut, StoreFails, CannotCount, Unmount, Restart, Remount
<1>7. CASE Conclude \/ ConcludeHalf
  <2>1. AllSeen \in RowTypes /\ Expired(AllSeen) \in RowTypes
    BY <1>1, RowsKeepType, ConcludingKeepsType DEF AllSeen
  <2>2. row' \in {Marked(Expired(AllSeen)), Marked(AllSeen)}
    BY <1>7 DEF Conclude, ConcludeHalf, Rows
  <2>3. AllSeen[f] \in {row[f], "live"}
        /\ (row[f] \notin {"missing", "expired"} => AllSeen[f] = row[f])
    BY DEF AllSeen, Restored
  <2>4. /\ Expired(AllSeen)[f] = AllSeen[f]
           \/ (Expired(AllSeen)[f] = "gone" /\ AllSeen[f] = "expired")
    <3>1. CASE MayExpire
      BY <3>1 DEF Expired
    <3>2. CASE ~MayExpire
      BY <3>2 DEF Expired
    <3> QED BY <3>1, <3>2
  <2>5. CASE f \in Unseen
    <3>1. row[f] = "live" /\ row'[f] = "missing"
      BY <2>2, <2>5 DEF Marked, Unseen, Live
    <3> QED BY <1>7, <3>1
  <2>6. CASE f \notin Unseen
    <3>1. row'[f] \in {Expired(AllSeen)[f], AllSeen[f]}
      BY <2>2, <2>6 DEF Marked
    <3> QED BY <1>7, <2>3, <2>4, <3>1
  <2> QED BY <2>5, <2>6
<1>8. ASSUME NEW g \in Files, Write(g) \/ Remove(g) PROVE row' = row
  BY <1>8 DEF Write, Remove, Touch
<1>9. ASSUME NEW g \in Files, Age(g)
      PROVE  row'[f] = row[f] \/ (row[f] = "missing" /\ row'[f] = "expired")
  <2>1. row[g] = "missing" /\ row' = [row EXCEPT ![g] = "expired"]
    BY <1>9 DEF Age
  <2> QED BY <1>1, <2>1 DEF RowTypes
<1>10. ASSUME NEW g \in Files, Purge(g)
       PROVE  row'[f] = row[f] \/ (row[f] = "gone" /\ row'[f] = "absent" /\ walk.job = "none")
  <2>1. row[g] = "gone" /\ row' = [row EXCEPT ![g] = "absent"] /\ walk.job = "none"
    BY <1>10 DEF Purge
  <2> QED BY <1>1, <2>1 DEF RowTypes
<1>11. ASSUME NEW g \in Files, Event(g)
       PROVE  \/ row'[f] \in {row[f], "live"}
              \/ row[f] = "live" /\ row'[f] = "missing" /\ f \notin there
  BY <1>1, <1>11, RowsKeepType DEF Event, Rows, Live, RowTypes
<1> QED BY <1>2, <1>3, <1>5, <1>6, <1>7, <1>8, <1>9, <1>10, <1>11 DEF Next, Step, Fault, Outside

\* The walk at an entry, once more: all its fields.
LEMMA AtWhere ==
  ASSUME NEW w, Fields(walk), NEW e, NEW left, w = At(e, left)
  PROVE  /\ Fields(w) /\ w.left = left /\ w.at = e /\ w.pending = Hooked(e)
         /\ \A n \in Names \ {"left", "at", "pending"} : w[n] = walk[n]
<1> DEFINE a == With(walk, "left", left)
           b == With(a, "pending", Hooked(e))
<1>1. Fields(a) /\ a.left = left /\ \A n \in Names \ {"left"} : a[n] = walk[n]
  BY SettingAField DEF Names
<1> HIDE DEF a
<1>2. /\ Fields(b) /\ b.left = left /\ b.pending = Hooked(e)
      /\ \A n \in Names \ {"left", "pending"} : b[n] = walk[n]
  BY <1>1, SettingAField DEF Names
<1>3. w = With(b, "at", e)
  BY Zenon DEF At, a
<1> HIDE DEF b
<1> QED BY <1>2, <1>3, SettingAField DEF Names

\* The walk whose batch was written, once more.
LEMMA FlushedWhere ==
  ASSUME NEW w, Fields(w), NEW z, z = Flushed(w)
  PROVE  /\ Fields(z) /\ z.batch = {} /\ z.pending = <<>>
         /\ z.safe = IF w.pending = <<>> THEN w.safe ELSE w.pending
         /\ \A n \in Names \ {"batch", "pending", "safe"} : z[n] = w[n]
<1> DEFINE v == IF w.pending = <<>> THEN w.safe ELSE w.pending
           a == With(w, "safe", v)
           b == With(a, "pending", <<>>)
<1>1. Fields(a) /\ a.safe = v /\ \A n \in Names \ {"safe"} : a[n] = w[n]
  BY SettingAField DEF Names
<1> HIDE DEF a
<1>2. /\ Fields(b) /\ b.safe = v /\ b.pending = <<>>
      /\ \A n \in Names \ {"safe", "pending"} : b[n] = w[n]
  BY <1>1, SettingAField DEF Names
<1>3. z = With(b, "batch", {})
  BY Zenon DEF Flushed, a
<1> HIDE DEF b, v
<1>4. /\ Fields(z) /\ z.safe = v /\ z.pending = <<>> /\ z.batch = {}
      /\ \A n \in Names \ {"batch", "safe", "pending"} : z[n] = w[n]
  BY <1>2, <1>3, SettingAField DEF Names
<1> QED BY <1>4 DEF v

\* What no handler touches.
LEMMA HandledWalk ==
  ASSUME NEW w, Fields(w), NEW f, Handle(w, f) \/ Unread(w, f) \/ Pass(w)
  PROVE  /\ Fields(walk')
         /\ \A n \in Names \ {"batch", "pending", "safe", "counted", "unread"} : walk'[n] = w[n]
<1> DEFINE Like(z) == Fields(z) /\ \A n \in Names \ {"batch", "pending", "safe", "counted", "unread"} :
                                     z[n] = w[n]
<1>1. ASSUME NEW z, Like(z), NEW v PROVE Like(With(z, "batch", v))
  BY <1>1, SettingAField DEF Names
<1>2. ASSUME NEW z, Like(z), Insert(z) PROVE Like(walk')
  BY <1>2, FlushedWhere DEF Insert
<1>3. ASSUME NEW z, Like(z), NEW S, Witness(z, f, S) PROVE Like(walk')
  BY <1>1, <1>3 DEF Witness, Report
<1>4. CASE Scan(w, f)
  BY <1>1, <1>2, <1>4 DEF Scan
<1>5. CASE Reconcile(w, f)
  BY <1>5 DEF Reconcile
<1>6. CASE See(w, f)
  <2> DEFINE z == With(w, "counted", w.counted \cup {f})
  <2>1. Like(z)
    BY SettingAField DEF Names
  <2>2. PICK S : Witness(z, f, S)
    BY <1>6 DEF See
  <2> HIDE DEF z
  <2> QED BY <1>3, <2>1, <2>2
<1>7. CASE Unread(w, f)
  <2> DEFINE z == With(w, "unread", TRUE)
  <2>1. Fields(z) /\ \A n \in Names \ {"unread"} : z[n] = w[n]
    BY RaisingAField DEF Names
  <2>2. Witness(z, f, {}) \/ walk' = z
    BY <1>7 DEF Unread
  <2> HIDE DEF z
  <2>3. Like(z)
    BY <2>1
  <2> QED BY <1>3, <2>2, <2>3
<1>8. CASE Pass(w)
  BY <1>8 DEF Pass
<1> QED BY <1>4, <1>5, <1>6, <1>7, <1>8 DEF Handle

\* A walk under way was under way, or has been opened; what was there from the
\* first entry on is what was there then, without what was removed.
LEMMA WalkGoesOn ==
  ASSUME Shape, Next, Walking'
  PROVE  \/ Open /\ walk'.steady = there /\ walk'.job = walk.job
         \/ /\ Walking /\ walk'.job = walk.job
            /\ \/ walk'.steady = walk.steady
               \/ \E f \in Files : Remove(f) /\ walk'.steady = walk.steady \ {f}
<1>1. Fields(walk)
  BY DEF Shape
<1>2. Idle.phase # "entries" /\ \A j, t, b : Fresh(j, "open", t, b).phase # "entries"
  BY DEF Idle, Fresh
<1>3. ASSUME NEW job \in Jobs, Begin(job) PROVE FALSE
  BY <1>2, <1>3 DEF Begin, Dated, Walking
<1>4. CASE \/ Cut \/ EndDirty \/ EndUnmounted \/ StoreFails \/ FinishInitial \/ FinishExtra
           \/ FinishReconcile \/ Conclude \/ ConcludeHalf \/ Blocked \/ Drop \/ Restart
  BY <1>2, <1>4 DEF Cut, EndDirty, EndUnmounted, StoreFails, FinishInitial, FinishExtra,
     FinishReconcile, Conclude, ConcludeHalf, Blocked, Drop, Restart, Dated, Walking
<1>5. CASE Open
  <2>1. walk'.steady = there /\ walk'.job = walk.job
    BY <1>1, <1>5, SettingAField DEF Open, Names
  <2> QED BY <1>5, <2>1
<1>6. ASSUME NEW f \in Files, Visit(f) \/ StatxFails(f)
      PROVE  Walking /\ walk'.job = walk.job /\ walk'.steady = walk.steady
  <2> DEFINE w == At(f, walk.left \ {f})
             lost == With(w, "lost", TRUE)
  <2>1. Fields(w) /\ w.job = walk.job /\ w.steady = walk.steady
    BY AtEntry
  <2>2. Walking /\ (Handle(w, f) \/ Unread(w, f) \/ Pass(w) \/ Pass(lost))
    BY <1>6 DEF Visit, StatxFails
  <2> HIDE DEF w
  <2>3. Fields(lost) /\ \A n \in Names \ {"lost"} : lost[n] = w[n]
    BY <2>1, RaisingAField DEF Names
  <2> HIDE DEF lost
  <2>4. lost.job = walk.job /\ lost.steady = walk.steady
    BY <2>1, <2>3 DEF Names
  <2>5. CASE Pass(lost)
    BY <2>2, <2>4, <2>5 DEF Pass
  <2>6. CASE Handle(w, f) \/ Unread(w, f) \/ Pass(w)
    <3>1. walk'.job = w.job /\ walk'.steady = w.steady
      BY <2>1, <2>6, HandledWalk DEF Names
    <3> QED BY <2>1, <2>2, <3>1
  <2> QED BY <2>2, <2>5, <2>6
<1>7. ASSUME NEW f \in Files, ReaddirFails(f)
      PROVE  Walking /\ walk'.job = walk.job /\ walk'.steady = walk.steady
  <2>1. PICK dir : walk' = With(At(dir, {g \in walk.left : ~Under(g, dir)}), "dirty", TRUE)
    BY <1>7 DEF ReaddirFails
  <2> DEFINE w == At(dir, {g \in walk.left : ~Under(g, dir)})
  <2>2. Fields(w) /\ w.job = walk.job /\ w.steady = walk.steady
    BY AtEntry
  <2> HIDE DEF w
  <2> DEFINE dirty == With(w, "dirty", TRUE)
  <2>3. \A n \in Names \ {"dirty"} : dirty[n] = w[n]
    BY <2>2, RaisingAField DEF Names
  <2>4. walk' = dirty
    BY <2>1 DEF w
  <2> HIDE DEF dirty
  <2>5. walk'.job = walk.job /\ walk'.steady = walk.steady
    BY <2>2, <2>3, <2>4 DEF Names
  <2> QED BY <1>7, <2>5 DEF ReaddirFails
<1>8. CASE CannotCount
  <2>1. walk'.phase = "open"
    BY <1>1, <1>8, SettingAField DEF CannotCount, Names
  <2> QED BY <2>1 DEF Walking
<1>9. CASE Unmount \/ Remount \/ \E f \in Files : Age(f) \/ Purge(f) \/ Write(f)
  BY <1>9 DEF Unmount, Remount, Age, Purge, Write, Touch, Walking
<1>10. ASSUME NEW f \in Files, Remove(f)
       PROVE  Walking /\ walk'.job = walk.job /\ walk'.steady = walk.steady \ {f}
  <2>1. walk' = With(walk, "steady", walk.steady \ {f})
    BY <1>10 DEF Remove, Touch
  <2>2. walk'.steady = walk.steady \ {f} /\ walk'.job = walk.job /\ walk'.phase = walk.phase
    BY <1>1, <2>1, SettingAField DEF Names
  <2> QED BY <2>2 DEF Walking
<1>11. ASSUME NEW f \in Files, Event(f)
       PROVE  Walking /\ walk'.job = walk.job /\ walk'.steady = walk.steady
  <2>1. walk' = walk \/ walk' = With(walk, "touched", walk.touched \cup {f})
    BY <1>11 DEF Event
  <2>2. walk'.steady = walk.steady /\ walk'.job = walk.job /\ walk'.phase = walk.phase
    BY <1>1, <2>1, SettingAField DEF Names
  <2> QED BY <2>2 DEF Walking
<1> QED BY <1>3, <1>4, <1>5, <1>6, <1>7, <1>8, <1>9, <1>10, <1>11 DEF Next, Step, Fault, Outside

(* ------------------- what the next initial scan skips ------------------ *)

\* A file no user touched is there, and nobody took it for lost.
NativeKept ==
  /\ native \subseteq there /\ (Walking => native \subseteq walk.steady)
  /\ \A f \in native : row[f] \in {"absent", "live"}

\* A walk that is about to read the root has gathered nothing.
OpenFresh ==
  walk.phase = "open" =>
    walk.at = <<>> /\ walk.pending = <<>> /\ walk.safe = <<>> /\ ~walk.dirty /\ walk.batch = {}

\* What a walk has left behind is in the table, if it lies before the directory
\* that is safe; it is there or in the batch, if it lies before the one that is
\* pending, or before the walk altogether, unless it could not be read.  The
\* walk of a root that was unmounted before it was read stands nowhere.
GatheredIn(w) ==
  /\ w.safe # <<>> => \A f \in native \ Ahead[w.safe] : row[f] # "absent"
  /\ w.pending # <<>> =>
       \A f \in native \ Ahead[w.pending] : row[f] # "absent" \/ f \in w.batch
  /\ ~w.dirty =>
       \/ w.left = {} /\ w.at = <<>>
       \/ \A f \in native \ w.left : row[f] # "absent" \/ f \in w.batch
  /\ ~w.dirty /\ w.at # <<>> => \A g \in w.left : Before(w.at, g)

Gathered == Walking /\ walk.job = "initial" => GatheredIn(walk)

CursorInv == NativeKept /\ OpenFresh /\ Gathered /\ CursorSafe

\* No pass takes a file for lost that no user touched.
LEMMA NativeStep == ASSUME WalkInv, NativeKept, Next PROVE NativeKept'
<1>1. native' \subseteq native /\ native' \subseteq there'
  <2>1. ASSUME NEW f \in Files, Write(f) \/ Remove(f)
        PROVE  native' \subseteq native /\ native' \subseteq there'
    BY <2>1 DEF Write, Remove, Touch, NativeKept
  <2>2. CASE UNCHANGED <<native, there>>
    BY <2>2 DEF NativeKept
  <2>3. (\E job \in Jobs : Begin(job)) \/ Step \/ Fault => UNCHANGED <<native, there>>
    BY DEF Begin, Step, Fault, Open, Visit, EndDirty, EndUnmounted, FinishInitial, FinishExtra,
       FinishReconcile, Conclude, Blocked, Drop, Cut, StoreFails, CannotCount, ConcludeHalf,
       Unmount, Restart, StatxFails, ReaddirFails, disk
  <2>4. ASSUME NEW f \in Files, Event(f) \/ Age(f) \/ Purge(f) PROVE UNCHANGED <<native, there>>
    BY <2>4 DEF Event, Age, Purge, disk
  <2>5. Remount => UNCHANGED <<native, there>>
    BY DEF Remount
  <2> QED BY <2>1, <2>2, <2>3, <2>4, <2>5 DEF Next, Outside
<1>2. ASSUME NEW f \in native' PROVE row'[f] \in {"absent", "live"}
  <2>1. f \in native /\ f \in there /\ f \in Files /\ row[f] \in {"absent", "live"}
    BY <1>1 DEF NativeKept, WalkInv, Shape
  <2>2. CASE row[f] = "live" /\ row'[f] = "missing" /\ (Conclude \/ ConcludeHalf)
    <3>1. IsPresence /\ Walking
      BY <2>2 DEF Conclude, ConcludeHalf, Through
    <3>2. f \notin walk.steady
      BY <2>1, <2>2, <3>1, LostWasNot DEF LostByPass
    <3> QED BY <2>1, <3>1, <3>2 DEF NativeKept
  <2> QED BY <2>1, <2>2, RowsGo DEF WalkInv
<1>3. ASSUME Walking' PROVE native' \subseteq walk'.steady
  <2>1. CASE Open /\ walk'.steady = there
    BY <1>1, <2>1 DEF NativeKept
  <2>2. CASE Walking /\ walk'.steady = walk.steady
    BY <1>1, <2>2 DEF NativeKept
  <2>3. ASSUME NEW f \in Files, Walking, Remove(f), walk'.steady = walk.steady \ {f}
        PROVE  native' \subseteq walk'.steady
    <3>1. native' = native \ {f}
      BY <2>3 DEF Remove, Touch
    <3> QED BY <2>3, <3>1 DEF NativeKept
  <2> QED BY <1>3, <2>1, <2>2, <2>3, WalkGoesOn DEF WalkInv
<1> QED BY <1>1, <1>2, <1>3 DEF NativeKept

\* Nor does the row of such a file go.
LEMMA NativeRowsStay ==
  ASSUME WalkInv, NativeKept, Next
  PROVE  native' \subseteq native /\ \A f \in native' : row[f] # "absent" => row'[f] # "absent"
<1>1. NativeKept' /\ native' \subseteq native
  <2>1. ASSUME NEW f \in Files, Write(f) \/ Remove(f) PROVE native' \subseteq native
    BY <2>1 DEF Write, Remove, Touch
  <2>2. (\E job \in Jobs : Begin(job)) \/ Step \/ Fault => native' = native
    BY DEF Begin, Step, Fault, Open, Visit, EndDirty, EndUnmounted, FinishInitial, FinishExtra,
       FinishReconcile, Conclude, Blocked, Drop, Cut, StoreFails, CannotCount, ConcludeHalf,
       Unmount, Restart, StatxFails, ReaddirFails, disk
  <2>3. ASSUME NEW f \in Files, Event(f) \/ Age(f) \/ Purge(f) PROVE native' = native
    BY <2>3 DEF Event, Age, Purge, disk
  <2>4. Remount => native' = native
    BY DEF Remount
  <2> QED BY <2>1, <2>2, <2>3, <2>4, NativeStep DEF Next, Outside
<1>2. ASSUME NEW f \in native', row[f] # "absent" PROVE row'[f] # "absent"
  <2>1. f \in Files /\ row[f] \in {"absent", "live"}
    BY <1>1 DEF NativeKept, WalkInv, Shape
  <2> QED BY <1>2, <2>1, RowsGo DEF WalkInv
<1> QED BY <1>1, <1>2

\* What the walk reports as left behind is behind it: all before it is gathered.
LEMMA HookGathers ==
  ASSUME Typed, WalkInv, NativeKept, GatheredIn(walk), NEW e, Hooked(e) # walk.pending
  PROVE  \A f \in native \ Ahead[Hooked(e)] : row[f] # "absent" \/ f \in walk.batch
<1> DEFINE d == Hooked(e)
<1>0. walk.at \in Files \cup {<<>>}
  <2>1. CASE walk.dirty
    BY <2>1 DEF Hooked
  <2> QED BY <2>1 DEF Typed, WalkTyped
<1>1. ~walk.dirty /\ d \in Parents(walk.at)
  BY <1>0, HookedIs
<1>2. walk.at # <<>> /\ walk.at \in Files
  BY <1>0, <1>1, ParentsAre
<1>3. /\ d \in Dirs /\ d \in Seq(Nat) /\ walk.at \in Seq(Nat) /\ Under(walk.at, d)
  BY <1>1, <1>2, ParentsAre, WalksAssumption
<1> HIDE DEF d
<1>4. \A g \in walk.left : g \in Files /\ Before(walk.at, g)
  BY <1>1, <1>2 DEF GatheredIn, Typed, WalkTyped, FieldType, Names
<1>5. ASSUME NEW f \in native, f \notin Ahead[d] PROVE f \notin walk.left
  <2>1. f \in Files /\ f \in Seq(Nat)
    BY WalksAssumption DEF NativeKept, WalkInv, Shape
  <2>2. PICK p \in Parents(f) : Skipped(p, d)
    BY <1>3, <1>5, <2>1 DEF Ahead
  <2>3. p \in Seq(Nat) /\ Under(f, p)
    BY <2>1, ParentsAre
  <2>4. ~Before(walk.at, f)
    BY <1>3, <2>1, <2>2, <2>3, SkippedIsBehind
  <2> QED BY <1>4, <2>4
<1>6. \A f \in native \ walk.left : row[f] # "absent" \/ f \in walk.batch
  BY <1>1, <1>2 DEF GatheredIn
<1> QED BY <1>5, <1>6 DEF d

\* The walk goes on to entry e: what it has gathered it still has.
LEMMA AtGathers ==
  ASSUME Typed, WalkInv, NativeKept, GatheredIn(walk), NEW e, NEW left, NEW w, w = At(e, left)
  PROVE  /\ w.safe # <<>> => \A f \in native \ Ahead[w.safe] : row[f] # "absent"
         /\ w.pending # <<>> =>
              \A f \in native \ Ahead[w.pending] : row[f] # "absent" \/ f \in w.batch
<1>1. w.pending = Hooked(e) /\ w.safe = walk.safe /\ w.batch = walk.batch
  BY AtWhere DEF WalkInv, Shape, Names
<1> QED BY <1>1, HookGathers DEF GatheredIn

\* Writing the batch makes safe what was pending.
LEMMA FlushGathers ==
  ASSUME WalkInv, NativeKept, native' = native, NEW w, Fields(w), GatheredIn(w),
         row' = Inserted(w.batch), NEW z, z = Flushed(w)
  PROVE  GatheredIn(z)'
<1>1. /\ z.batch = {} /\ z.pending = <<>> /\ z.left = w.left /\ z.at = w.at /\ z.dirty = w.dirty
      /\ z.safe = IF w.pending = <<>> THEN w.safe ELSE w.pending
  BY FlushedWhere DEF Names
<1>2. \A f \in native : row[f] # "absent" \/ f \in w.batch => row'[f] # "absent"
  BY DEF Inserted, NativeKept, WalkInv, Shape
<1> QED BY <1>1, <1>2 DEF GatheredIn

\* What a walk has gathered outlives whatever leaves the walk alone.
LEMMA GatheredStays ==
  ASSUME WalkInv, NativeKept, Next, GatheredIn(walk), NEW z,
         z.safe = walk.safe, z.pending = walk.pending, z.batch = walk.batch,
         z.dirty = walk.dirty, z.left = walk.left, z.at = walk.at
  PROVE  GatheredIn(z)'
<1>1. native' \subseteq native /\ \A f \in native' : row[f] # "absent" => row'[f] # "absent"
  BY NativeRowsStay
<1> QED BY <1>1 DEF GatheredIn

\* The next entry of the initial scan, with what the handler puts in the batch.
LEMMA EntryGathers ==
  ASSUME Typed, WalkInv, NativeKept, GatheredIn(walk), NEW f \in Files, IsNext(f),
         NEW z, NEW w, w = At(f, walk.left \ {f}), f \in z.batch \/ f \notin native,
         walk.batch \subseteq z.batch, z.safe = w.safe, z.pending = w.pending,
         z.dirty = w.dirty, z.left = w.left, z.at = w.at
  PROVE  GatheredIn(z)
<1>1. /\ w.left = walk.left \ {f} /\ w.at = f /\ w.dirty = walk.dirty /\ w.batch = walk.batch
  BY AtWhere DEF WalkInv, Shape, Names
<1>2. /\ z.safe # <<>> => \A g \in native \ Ahead[z.safe] : row[g] # "absent"
      /\ z.pending # <<>> =>
           \A g \in native \ Ahead[z.pending] : row[g] # "absent" \/ g \in z.batch
  <2>1. /\ w.safe # <<>> => \A g \in native \ Ahead[w.safe] : row[g] # "absent"
        /\ w.pending # <<>> =>
             \A g \in native \ Ahead[w.pending] : row[g] # "absent" \/ g \in w.batch
    <3> DEFINE left == walk.left \ {f}
    <3>1. w = At(f, left)
      OBVIOUS
    <3> HIDE DEF left
    <3> QED BY <3>1, AtGathers
  <2> QED BY <1>1, <2>1
<1>3. \A g \in z.left : Before(z.at, g)
  BY <1>1 DEF IsNext, After
<1>4. ~z.dirty => \A g \in native \ z.left : row[g] # "absent" \/ g \in z.batch
  BY <1>1 DEF GatheredIn, IsNext
<1> QED BY <1>2, <1>3, <1>4 DEF GatheredIn

\* The root is read: the walk starts where the cursor stands.
LEMMA OpenGathers ==
  ASSUME Typed, WalkInv, CursorInv, Open, walk.job = "initial" PROVE GatheredIn(walk)'
<1> DEFINE left == IF mounted THEN {f \in Ahead[progress.cursor] : Under(f, <<>>)} ELSE {}
<1>1. walk' = With(With(With(walk, "phase", "entries"), "steady", there), "left", left)
  BY DEF Open
<1> HIDE DEF left
<1>2. walk'.left = left /\ \A n \in Names \ {"phase", "steady", "left"} : walk'[n] = walk[n]
  <2> DEFINE a == With(walk, "phase", "entries")
             b == With(a, "steady", there)
  <2>1. Fields(a) /\ \A n \in Names \ {"phase"} : a[n] = walk[n]
    BY SettingAField DEF WalkInv, Shape, Names
  <2>2. walk' = With(b, "left", left)
    BY <1>1
  <2> HIDE DEF a
  <2>3. Fields(b) /\ \A n \in Names \ {"phase", "steady"} : b[n] = walk[n]
    BY <2>1, SettingAField DEF Names
  <2> HIDE DEF b
  <2> QED BY <2>2, <2>3, SettingAField DEF Names
<1>3. /\ walk'.at = <<>> /\ walk'.pending = <<>> /\ walk'.safe = <<>> /\ walk'.left = left
  BY <1>2 DEF Open, CursorInv, OpenFresh, Names
<1>4. native' = native /\ row' = row
  BY DEF Open, disk
<1>5. CASE mounted
  <2>1. \A f \in native \ left : row[f] # "absent"
    BY <1>5, WholeTree DEF left, CursorInv, CursorSafe, NativeKept, WalkInv, Shape
  <2> QED BY <1>3, <1>4, <2>1 DEF GatheredIn
<1>6. CASE ~mounted
  BY <1>3, <1>4, <1>6 DEF left, GatheredIn
<1> QED BY <1>5, <1>6

\* The scan at its next entry.
LEMMA VisitGathers ==
  ASSUME Typed, WalkInv, CursorInv, Gathered, NEW f \in Files, Visit(f), walk.job = "initial"
  PROVE  GatheredIn(walk)'
<1> DEFINE w == At(f, walk.left \ {f})
           more == With(w, "batch", w.batch \cup {f})
<1>1. /\ IsNext(f) /\ GatheredIn(walk) /\ NativeKept /\ native' = native /\ native \subseteq walk.steady
      /\ (f \in there /\ Handle(w, f)) \/ (f \notin walk.steady /\ Pass(w))
  BY DEF Visit, disk, CursorInv, Gathered, NativeKept
<1>2. Fields(w) /\ w.job = "initial" /\ w.batch = walk.batch
  BY AtEntry DEF WalkInv
<1>3. w = At(f, walk.left \ {f})
  OBVIOUS
<1> HIDE DEF w
<1>4. /\ Fields(more) /\ more.batch = w.batch \cup {f}
      /\ \A n \in Names \ {"batch"} : more[n] = w[n]
  BY <1>2, SettingAField DEF Names
<1>5. CASE Handle(w, f)
  <2>1. Scan(w, f)
    BY <1>2, <1>5 DEF Handle
  <2>2. /\ more.safe = w.safe /\ more.pending = w.pending /\ more.dirty = w.dirty
        /\ more.left = w.left /\ more.at = w.at
    BY <1>4 DEF Names
  <2>3. Insert(more) \/ (walk' = more /\ row' = row)
    BY <2>1 DEF Scan
  <2> HIDE DEF more
  <2>4. GatheredIn(more)
    BY <1>1, <1>2, <1>3, <1>4, <2>2, EntryGathers
  <2>5. CASE Insert(more)
    <3>1. row' = Inserted(more.batch) /\ walk' = Flushed(more)
      BY <2>5 DEF Insert, Rows
    <3> QED BY <1>1, <1>4, <2>4, <3>1, FlushGathers
  <2>6. CASE walk' = more /\ row' = row
    BY <1>1, <2>4, <2>6 DEF GatheredIn
  <2> QED BY <2>3, <2>5, <2>6
<1>6. CASE f \notin walk.steady /\ Pass(w)
  <2>1. GatheredIn(w)
    BY <1>1, <1>2, <1>3, <1>6, EntryGathers
  <2> QED BY <1>1, <1>6, <2>1 DEF GatheredIn, Pass
<1> QED BY <1>1, <1>5, <1>6

\* A directory that cannot be opened: what is below it is not gathered, and the
\* walk says so.
LEMMA ReaddirGathers ==
  ASSUME Typed, WalkInv, CursorInv, Gathered, NEW f \in Files, ReaddirFails(f),
         walk.job = "initial"
  PROVE  GatheredIn(walk)'
<1>1. PICK dir : walk' = With(At(dir, {g \in walk.left : ~Under(g, dir)}), "dirty", TRUE)
  BY DEF ReaddirFails
<1> DEFINE w == At(dir, {g \in walk.left : ~Under(g, dir)})
           z == With(w, "dirty", TRUE)
<1>2. Fields(w)
  BY AtEntry DEF WalkInv
<1>3. /\ w.safe # <<>> => \A g \in native \ Ahead[w.safe] : row[g] # "absent"
      /\ w.pending # <<>> =>
           \A g \in native \ Ahead[w.pending] : row[g] # "absent" \/ g \in w.batch
  BY AtGathers DEF ReaddirFails, Gathered, CursorInv
<1> HIDE DEF w
<1>4. z.dirty /\ \A n \in Names \ {"dirty"} : z[n] = w[n]
  BY <1>2, RaisingAField DEF Names
<1>5. walk' = z
  BY <1>1 DEF w
<1> HIDE DEF z
<1>6. z.safe = w.safe /\ z.pending = w.pending /\ z.batch = w.batch
  BY <1>4 DEF Names
<1>7. native' = native /\ row' = row
  BY DEF ReaddirFails, disk
<1> QED BY <1>3, <1>4, <1>5, <1>6, <1>7 DEF GatheredIn

\* The walk of an initial scan gathers what it leaves behind.
LEMMA GatheredStep ==
  ASSUME Typed, WalkInv, CursorInv, Next, "statx" \notin Faults PROVE Gathered'
<1>1. SUFFICES ASSUME Walking', walk'.job = "initial" PROVE GatheredIn(walk)'
  BY DEF Gathered
<1>2. Walking \/ Open
  BY <1>1, WalkGoesOn DEF WalkInv
<1>3. walk.job = "initial"
  BY <1>1, WalkGoesOn DEF WalkInv
<1>4. ~IsPresence /\ walk.job # "remote"
  BY <1>3 DEF IsPresence
<1>5. NativeKept /\ Fields(walk)
  BY DEF CursorInv, WalkInv, Shape
<1>6. CASE Open
  BY <1>3, <1>6, OpenGathers
<1>7. ASSUME NEW f \in Files, Visit(f) PROVE GatheredIn(walk)'
  BY <1>3, <1>7, VisitGathers DEF CursorInv
<1>8. ASSUME NEW f \in Files, StatxFails(f) PROVE FALSE
  BY <1>4, <1>8 DEF StatxFails
<1>9. ASSUME NEW f \in Files, ReaddirFails(f) PROVE GatheredIn(walk)'
  BY <1>3, <1>9, ReaddirGathers DEF CursorInv
<1>10. ASSUME Walking,
              \/ CannotCount \/ Unmount \/ Remount
              \/ \E f \in Files : Write(f) \/ Remove(f) \/ Event(f) \/ Age(f) \/ Purge(f)
       PROVE  GatheredIn(walk)'
  <2>1. \/ walk' = walk
        \/ \E n \in {"total", "steady", "touched"} : \E v : walk' = With(walk, n, v)
    BY <1>10 DEF CannotCount, Unmount, Remount, Write, Remove, Touch, Event, Age, Purge
  <2>2. /\ walk'.safe = walk.safe /\ walk'.pending = walk.pending /\ walk'.batch = walk.batch
        /\ walk'.dirty = walk.dirty /\ walk'.left = walk.left /\ walk'.at = walk.at
    BY <1>5, <2>1, SettingAField DEF Names
  <2>3. GatheredIn(walk)
    BY <1>3, <1>10 DEF CursorInv, Gathered
  <2> QED BY <1>5, <2>2, <2>3, GatheredStays
<1>11. CASE \/ Cut \/ EndDirty \/ EndUnmounted \/ StoreFails \/ FinishInitial \/ FinishExtra
            \/ FinishReconcile \/ Conclude \/ ConcludeHalf \/ Blocked \/ Drop \/ Restart
  <2>1. walk' = Idle
    BY <1>11 DEF Cut, EndDirty, EndUnmounted, StoreFails, FinishInitial, FinishExtra,
       FinishReconcile, Conclude, ConcludeHalf, Blocked, Drop, Restart, Dated
  <2> QED BY <1>1, <2>1 DEF Walking, Idle, Fresh
<1>12. ASSUME NEW job \in Jobs, Begin(job) PROVE FALSE
  BY <1>2, <1>3, <1>12, WalksAssumption DEF Begin
<1> QED BY <1>2, <1>6, <1>7, <1>8, <1>9, <1>10, <1>11, <1>12 DEF Next, Step, Fault, Outside

\* A walk reads the root before anything else.
LEMMA OpenFreshStep == ASSUME Shape, OpenFresh, Next PROVE OpenFresh'
<1>1. SUFFICES ASSUME walk'.phase = "open"
      PROVE  /\ walk'.at = <<>> /\ walk'.pending = <<>> /\ walk'.safe = <<>>
             /\ ~walk'.dirty /\ walk'.batch = {}
  BY DEF OpenFresh
<1>2. ASSUME NEW job \in Jobs, Begin(job), walk' # Idle
      PROVE  walk' = Fresh(job, "open", FileCount, books)
  BY <1>2 DEF Begin, Dated
<1>3. \A j, p, t, b : LET w == Fresh(j, p, t, b) IN
        w.at = <<>> /\ w.pending = <<>> /\ w.safe = <<>> /\ ~w.dirty /\ w.batch = {}
  BY DEF Fresh
<1>4. walk' # Idle
  BY <1>1 DEF Idle, Fresh
<1>5. ASSUME NEW n \in {"total", "steady", "touched"}, NEW v,
             walk' = walk \/ walk' = With(walk, n, v)
      PROVE  /\ walk'.at = <<>> /\ walk'.pending = <<>> /\ walk'.safe = <<>>
             /\ ~walk'.dirty /\ walk'.batch = {}
  <2>1. \A k \in Names \ {"total", "steady", "touched"} : walk'[k] = walk[k]
    BY <1>5, SettingAField DEF Shape, Names
  <2> QED BY <1>1, <2>1 DEF OpenFresh, Names
<1>6. CASE \/ CannotCount \/ Unmount \/ Remount
           \/ \E f \in Files : Write(f) \/ Remove(f) \/ Event(f) \/ Age(f) \/ Purge(f)
  <2>1. \/ walk' = walk
        \/ \E n \in {"total", "steady", "touched"} : \E v : walk' = With(walk, n, v)
    BY <1>6 DEF CannotCount, Unmount, Remount, Write, Remove, Touch, Event, Age, Purge
  <2> QED BY <1>5, <2>1
<1>7. CASE \/ Cut \/ EndDirty \/ EndUnmounted \/ StoreFails \/ FinishInitial \/ FinishExtra
           \/ FinishReconcile \/ Conclude \/ ConcludeHalf \/ Blocked \/ Drop \/ Restart
  BY <1>4, <1>7 DEF Cut, EndDirty, EndUnmounted, StoreFails, FinishInitial, FinishExtra,
     FinishReconcile, Conclude, ConcludeHalf, Blocked, Drop, Restart, Dated
<1>8. ASSUME NEW job \in Jobs, Begin(job)
      PROVE  /\ walk'.at = <<>> /\ walk'.pending = <<>> /\ walk'.safe = <<>>
             /\ ~walk'.dirty /\ walk'.batch = {}
  BY <1>2, <1>3, <1>4, <1>8
<1>9. CASE Open \/ \E f \in Files : Visit(f) \/ StatxFails(f) \/ ReaddirFails(f)
  <2>1. Open => walk'.phase = "entries"
    BY SettingAField DEF Open, Shape, Names
  <2>2. ASSUME NEW f \in Files, Visit(f) \/ StatxFails(f) PROVE walk'.phase = "entries"
    <3> DEFINE w == At(f, walk.left \ {f})
               lost == With(w, "lost", TRUE)
    <3>0. walk.phase = "entries"
      BY <2>2 DEF Visit, StatxFails, Walking
    <3>1. Fields(w) /\ w.phase = walk.phase
      BY AtEntry
    <3>2. Handle(w, f) \/ Unread(w, f) \/ Pass(w) \/ Pass(lost)
      BY <2>2 DEF Visit, StatxFails
    <3> HIDE DEF w
    <3>3. \A n \in Names \ {"lost"} : lost[n] = w[n]
      BY <3>1, RaisingAField DEF Names
    <3> HIDE DEF lost
    <3>4. lost.phase = w.phase
      BY <3>3 DEF Names
    <3>5. Handle(w, f) \/ Unread(w, f) \/ Pass(w) => walk'.phase = w.phase
      BY <3>1, HandledWalk DEF Names
    <3> QED BY <3>0, <3>1, <3>2, <3>4, <3>5 DEF Pass
  <2>3. ASSUME NEW f \in Files, ReaddirFails(f) PROVE walk'.phase = "entries"
    <3>1. PICK dir : walk' = With(At(dir, {g \in walk.left : ~Under(g, dir)}), "dirty", TRUE)
      BY <2>3 DEF ReaddirFails
    <3> DEFINE w == At(dir, {g \in walk.left : ~Under(g, dir)})
               z == With(w, "dirty", TRUE)
    <3>2. Fields(w) /\ w.phase = "entries"
      BY <2>3, AtEntry DEF ReaddirFails, Walking
    <3> HIDE DEF w
    <3>3. \A n \in Names \ {"dirty"} : z[n] = w[n]
      BY <3>2, RaisingAField DEF Names
    <3>4. walk' = z
      BY <3>1 DEF w
    <3> HIDE DEF z
    <3> QED BY <3>2, <3>3, <3>4 DEF Names
  <2> QED BY <1>1, <1>9, <2>1, <2>2, <2>3
<1> QED BY <1>6, <1>7, <1>8, <1>9 DEF Next, Step, Fault, Outside

\* The cursor moves to what is safe, or to the root when all is in the table.
LEMMA CursorStep ==
  ASSUME Typed, WalkInv, CursorInv, Next PROVE CursorSafe'
<1>1. NativeKept /\ Fields(walk)
  BY DEF CursorInv, WalkInv, Shape
<1>2. native' \subseteq native /\ \A f \in native' : row[f] # "absent" => row'[f] # "absent"
  BY <1>1, NativeRowsStay
<1>3. CASE progress'.cursor = progress.cursor
  BY <1>2, <1>3 DEF CursorInv, CursorSafe
<1>4. CASE (Cut \/ EndDirty) /\ walk.job = "initial"
  <2>1. Walking /\ native' = native /\ row' = Inserted(walk.batch)
    BY <1>4 DEF Cut, EndDirty, GiveUp, SaveBatch, Rows, IsPresence, disk
  <2>2. progress' = CursorAfter(Flushed(walk))
    BY <1>4 DEF Cut, EndDirty
  <2>3. PICK z : z = Flushed(walk)
    OBVIOUS
  <2>4. GatheredIn(z)'
    BY <1>1, <1>4, <2>1, <2>3, FlushGathers DEF CursorInv, Gathered
  <2>5. CASE z.safe = <<>>
    BY <1>3, <2>2, <2>3, <2>5 DEF CursorAfter
  <2>6. CASE z.safe # <<>>
    <3>1. progress'.cursor = z.safe
      BY <2>2, <2>3, <2>6 DEF CursorAfter, Typed
    <3> QED BY <2>4, <2>6, <3>1 DEF GatheredIn, CursorSafe
  <2> QED BY <2>5, <2>6
<1>5. CASE FinishInitial
  <2>1. progress'.cursor = <<>>
    BY <1>5 DEF FinishInitial
  <2>2. \A f \in native' : f \in Ahead[<<>>]
    BY <1>2, WholeTree DEF NativeKept, CursorInv, WalkInv, Shape
  <2> QED BY <2>1, <2>2 DEF CursorSafe
<1>6. \/ progress'.cursor = progress.cursor \/ FinishInitial
      \/ (Cut \/ EndDirty) /\ walk.job = "initial"
  <2>1. ASSUME NEW job \in Jobs, Begin(job) PROVE progress'.cursor = progress.cursor
    BY <2>1 DEF Begin, Typed
  <2>2. CASE \/ Open \/ EndUnmounted \/ FinishExtra \/ FinishReconcile
             \/ Conclude \/ Blocked \/ Drop
             \/ StoreFails \/ CannotCount \/ ConcludeHalf \/ Unmount \/ Restart \/ Remount
    BY <2>2 DEF Open, EndUnmounted, FinishExtra, FinishReconcile,
       Conclude, Blocked, Drop, StoreFails, CannotCount, ConcludeHalf, Unmount, Restart, Remount
  <2>3. CASE Cut \/ EndDirty
    BY <2>3 DEF Cut, EndDirty
  <2>4. CASE \E f \in Files : Visit(f) \/ StatxFails(f) \/ ReaddirFails(f)
    BY <2>4 DEF Visit, StatxFails, ReaddirFails
  <2>5. CASE \E f \in Files : Write(f) \/ Remove(f) \/ Event(f) \/ Age(f) \/ Purge(f)
    BY <2>5 DEF Write, Remove, Touch, Event, Age, Purge
  <2> QED BY <2>1, <2>2, <2>3, <2>4, <2>5 DEF Next, Step, Fault, Outside
<1> QED BY <1>3, <1>4, <1>5, <1>6

LEMMA CursorKept ==
  ASSUME "statx" \notin Faults PROVE Spec => []CursorInv
<1>1. ASSUME Init PROVE CursorInv
  <2>1. WalkInv /\ walk.phase = "none" /\ progress.cursor = <<>>
    BY <1>1, InitWalk, FreshWalk DEF Init, Idle
  <2>2. native = there /\ \A f \in Files : row[f] = "absent"
    BY <1>1 DEF Init
  <2>3. \A f \in native : f \in Ahead[<<>>]
    BY <2>1, <2>2, WholeTree DEF WalkInv, Shape
  <2> QED BY <2>1, <2>2, <2>3
          DEF CursorInv, NativeKept, OpenFresh, Gathered, CursorSafe, Walking, WalkInv, Shape
<1>2. ASSUME CursorInv, Typed, WalkInv, [Next]_vars PROVE CursorInv'
  <2>1. CASE Next
    <3>1. NativeKept' /\ OpenFresh'
      BY <1>2, <2>1, NativeStep, OpenFreshStep DEF CursorInv, WalkInv
    <3> QED BY <1>2, <2>1, <3>1, GatheredStep, CursorStep DEF CursorInv
  <2>2. CASE UNCHANGED vars
    BY <1>2, <2>2 DEF vars, CursorInv, NativeKept, OpenFresh, Gathered, GatheredIn, CursorSafe,
                      Walking
  <2> QED BY <1>2, <2>1, <2>2
<1> QED BY <1>1, <1>2, AllTyped, AccountKept, PTL DEF Spec

\* The cursor of the initial scan never stands behind a file that is not in the
\* table, as long as statx fails only for files that are not there: a scan takes
\* no notice of a file it cannot read (ThemVaoHangDoi.file), and that exception
\* is needed (ConTro, ban_tu_day, ghi_con_tro).
THEOREM CursorIsSafe == ASSUME "statx" \notin Faults PROVE Spec => []CursorSafe
<1>1. CursorInv => CursorSafe
  BY DEF CursorInv
<1> QED BY <1>1, CursorKept, PTL

(* ----------------- what no reconcile will look at again ---------------- *)

\* The fingerprints a call puts right are those of rows that live then.
LEMMA RowsStale ==
  ASSUME NEW new, NEW S, Rows(new, S), \A f \in S \cap stale : new[f] = "live"
  PROVE  stale' \subseteq stale /\ \A f \in stale \ stale' : row'[f] = "live"
BY DEF Rows

LEMMA HandledStale ==
  ASSUME row \in RowTypes, stale \subseteq Files, NEW f \in Files, NEW w,
         Handle(w, f) \/ Unread(w, f) \/ Pass(w)
  PROVE  stale' \subseteq stale /\ \A g \in stale \ stale' : row'[g] = "live"
<1>1. \A S : \A g \in S \cap stale : Upserted(S)[g] = "live"
  BY DEF Upserted
<1>2. \A S, B : \A g \in S \cap stale : Restored(Upserted(S), B)[g] = "live"
  BY <1>1 DEF Restored
<1>3. ASSUME NEW z, NEW S, Witness(z, f, S)
      PROVE  stale' \subseteq stale /\ \A g \in stale \ stale' : row'[g] = "live"
  <2>1. PICK new : Rows(new, S) /\ \A g \in S \cap stale : new[g] = "live"
    BY <1>1, <1>2, <1>3 DEF Witness, Report
  <2> QED BY <2>1, RowsStale
<1>4. CASE Scan(w, f)
  <2>1. (\E new : Rows(new, {})) \/ stale' = stale
    BY <1>4 DEF Scan, Insert
  <2> QED BY <2>1, RowsStale
<1>5. CASE Reconcile(w, f)
  <2>1. Rows(Upserted({f}), {f}) \/ stale' = stale
    BY <1>5 DEF Reconcile
  <2> QED BY <1>1, <2>1, RowsStale
<1>6. CASE See(w, f)
  BY <1>3, <1>6 DEF See
<1>7. CASE Unread(w, f)
  BY <1>3, <1>7 DEF Unread
<1>8. CASE Pass(w)
  BY <1>8 DEF Pass
<1> QED BY <1>4, <1>5, <1>6, <1>7, <1>8 DEF Handle

\* A fingerprint is wrong from a write on, until the row lives with the right one
\* or is deleted.
LEMMA StaleGoes ==
  ASSUME Shape, Typed, Next
  PROVE  /\ \A f \in stale' \ stale : Write(f)
         /\ \A f \in stale \ stale' : row'[f] = "live" \/ (row[f] = "gone" /\ row'[f] = "absent")
<1> DEFINE Goes == /\ \A f \in stale' \ stale : Write(f)
                   /\ \A f \in stale \ stale' :
                        row'[f] = "live" \/ (row[f] = "gone" /\ row'[f] = "absent")
<1>1. row \in RowTypes /\ stale \subseteq Files
  BY DEF Shape, RowTypes, Typed
<1>2. ASSUME stale' \subseteq stale, \A g \in stale \ stale' : row'[g] = "live" PROVE Goes
  <2>1. \A f \in stale' \ stale : Write(f)
    BY <1>2, Zenon
  <2>2. \A f \in stale \ stale' : row'[f] = "live" \/ (row[f] = "gone" /\ row'[f] = "absent")
    BY <1>2
  <2> QED BY <2>1, <2>2
<1>3. ASSUME NEW new, Rows(new, {}) PROVE Goes
  <2>1. \A f \in {} \cap stale : new[f] = "live"
    OBVIOUS
  <2>2. stale' \subseteq stale /\ \A g \in stale \ stale' : row'[g] = "live"
    BY <1>3, <2>1, RowsStale
  <2> QED BY <1>2, <2>2
<1>4. stale' = stale => Goes
  OBVIOUS
<1>5. ASSUME NEW job \in Jobs, Begin(job) PROVE Goes
  BY <1>5 DEF Begin
<1>6. CASE \/ Cut \/ EndDirty \/ EndUnmounted \/ StoreFails \/ FinishInitial \/ FinishExtra
           \/ FinishReconcile \/ Conclude \/ ConcludeHalf \/ Blocked \/ Drop \/ Restart
  <2>1. (\E new : Rows(new, {})) \/ stale' = stale
    BY <1>6 DEF Cut, EndDirty, EndUnmounted, StoreFails, FinishInitial, FinishExtra,
       FinishReconcile, Conclude, ConcludeHalf, Blocked, Drop, Restart, GiveUp, SaveBatch, Abort
  <2> QED BY <1>3, <1>4, <2>1
<1>7. CASE Open \/ CannotCount \/ Unmount \/ Remount
  BY <1>7 DEF Open, CannotCount, Unmount, Remount
<1>8. ASSUME NEW f \in Files, Visit(f) \/ StatxFails(f) PROVE Goes
  <2>1. PICK w : Handle(w, f) \/ Unread(w, f) \/ Pass(w)
    BY <1>8 DEF Visit, StatxFails
  <2>2. stale' \subseteq stale /\ \A g \in stale \ stale' : row'[g] = "live"
    BY <1>1, <2>1, HandledStale
  <2> QED BY <1>2, <2>2
<1>9. ASSUME NEW f \in Files, ReaddirFails(f) \/ Age(f) \/ Remove(f) PROVE Goes
  BY <1>9 DEF ReaddirFails, Age, Remove
<1>10. ASSUME NEW f \in Files, Write(f) PROVE Goes
  BY <1>10 DEF Write
<1>11. ASSUME NEW f \in Files, Event(f) PROVE Goes
  <2>1. stale' = stale \/ Rows(Upserted({f}), {f})
    BY <1>11 DEF Event
  <2>2. \A g \in {f} \cap stale : Upserted({f})[g] = "live"
    BY DEF Upserted
  <2>3. stale' \subseteq stale /\ \A g \in stale \ stale' : row'[g] = "live"
    BY <2>1, <2>2, RowsStale
  <2> QED BY <1>2, <2>3
<1>12. ASSUME NEW f \in Files, Purge(f) PROVE Goes
  <2>1. row[f] = "gone" /\ row' = [row EXCEPT ![f] = "absent"] /\ stale' = stale \ {f}
    BY <1>12 DEF Purge
  <2> QED BY <1>1, <2>1 DEF RowTypes
<1> QED BY <1>5, <1>6, <1>7, <1>8, <1>9, <1>10, <1>11, <1>12 DEF Next, Step, Fault, Outside

\* The disk changes by a user's hand; the threshold moves when a reconcile begins
\* and when one is through.
LEMMA DiskGoes ==
  ASSUME Next
  PROVE  \/ UNCHANGED <<there, changed>>
         \/ (\E job \in Jobs : Begin(job)) /\ there' = there
         \/ FinishReconcile /\ there' = there
         \/ \E f \in Files : Write(f) \/ Remove(f)
<1>1. \/ Open \/ EndDirty \/ EndUnmounted \/ FinishInitial \/ FinishExtra \/ Conclude \/ Blocked
      \/ Drop \/ Cut \/ StoreFails \/ CannotCount \/ ConcludeHalf \/ Unmount \/ Restart \/ Remount
      => UNCHANGED <<there, changed>>
  BY DEF Open, EndDirty, EndUnmounted, FinishInitial, FinishExtra, Conclude, Blocked, Drop, Cut,
         StoreFails, CannotCount, ConcludeHalf, Unmount, Restart, Remount, disk
<1>2. ASSUME NEW f \in Files,
             Visit(f) \/ StatxFails(f) \/ ReaddirFails(f) \/ Event(f) \/ Age(f) \/ Purge(f)
      PROVE  UNCHANGED <<there, changed>>
  BY <1>2 DEF Visit, StatxFails, ReaddirFails, Event, Age, Purge, disk
<1>3. FinishReconcile \/ (\E job \in Jobs : Begin(job)) => there' = there
  BY DEF FinishReconcile, Begin
<1> QED BY <1>1, <1>2, <1>3 DEF Next, Step, Fault, Outside

\* A walk reads the root it has checked.
OpenMounted == walk.phase = "open" => mounted

\* Of a file that came back after its row was lost it is known that it differs:
\* what is moved or written has another ctime.
LostIsStale == \A f \in there : row[f] \in {"missing", "expired", "gone"} => f \in stale

\* The pass is not about to take f for lost, or its row will say it is stale.
Known(f) == f \in stale \cup walk.touched \cup session.seen \cup walk.batch

\* A presence pass knows what came after its first entry.
NewIsKnown ==
  Walking /\ IsPresence => \A f \in there \ walk.steady : row[f] = "live" => Known(f)

\* A reconcile without an error has recorded what it has left behind, but for what
\* changed since it began.
Reconciled ==
  Walking /\ walk.job = "reconcile" /\ ~walk.dirty =>
    /\ \A f \in there \ walk.steady : changed[f] = "new"
    /\ \A f \in there \ walk.left : changed[f] # "new" => row[f] # "absent" /\ f \notin stale

RecordInv == OpenMounted /\ LostIsStale /\ NewIsKnown /\ Reconciled /\ Recorded

\* A row is lost under a file that is there only if the pass did not know of it.
LEMMA LostIsStaleStep ==
  ASSUME WalkInv, Typed, LostIsStale, NewIsKnown, Next PROVE LostIsStale'
<1>1. SUFFICES ASSUME NEW f \in there', row'[f] \in {"missing", "expired", "gone"}
      PROVE  f \in stale'
  BY DEF LostIsStale
<1>2. f \in Files
  <2>1. there' \subseteq Files
    BY DiskGoes DEF Write, Remove, Touch, WalkInv, Shape
  <2> QED BY <2>1
<1>3. CASE Write(f)
  BY <1>1, <1>3 DEF Write, Touch
<1>4. CASE ~Write(f)
  <2>1. f \in there
    BY <1>4, DiskGoes DEF Write, Remove, Touch
  <2>2. row[f] \in {"absent", "live", "missing", "expired", "gone"}
    BY <1>2 DEF WalkInv, Shape
  <2>3. f \in stale => f \in stale'
    BY <1>1, StaleGoes DEF WalkInv
  <2>4. CASE row[f] = "live" /\ row'[f] = "missing" /\ (Conclude \/ ConcludeHalf)
    <3>1. Walking /\ IsPresence
      BY <2>4 DEF Conclude, ConcludeHalf, Through
    <3>2. f \notin walk.steady /\ f \notin walk.touched
      BY <1>2, <2>1, <2>4, <3>1, LostWasNot DEF LostByPass
    <3>3. Known(f)
      BY <2>1, <2>4, <3>1, <3>2 DEF NewIsKnown
    <3>4. f \in Unseen
      <4>1. row' \in {Marked(Expired(AllSeen)), Marked(AllSeen)}
        BY <2>4 DEF Conclude, ConcludeHalf, Rows
      <4>2. AllSeen[f] = "live" /\ Expired(AllSeen)[f] = "live"
        BY <1>2, <2>4 DEF AllSeen, Restored, Expired
      <4> QED BY <1>2, <2>4, <4>1, <4>2 DEF Marked
    <3> QED BY <2>3, <3>2, <3>3, <3>4 DEF Known, Unseen
  <2>5. CASE row[f] \in {"missing", "expired", "gone"}
    BY <2>1, <2>3, <2>5 DEF LostIsStale
  <2> QED BY <1>1, <1>2, <2>1, <2>2, <2>4, <2>5, RowsGo DEF WalkInv
<1> QED BY <1>3, <1>4

\* What is put in the batch is known, and what was known stays so.
LEMMA WitnessKnows ==
  ASSUME row \in RowTypes, session \in Sessions, NEW w, Fields(w),
         w.touched = walk.touched, w.batch = walk.batch,
         NEW f \in Files, NEW S \in SUBSET {f}, Witness(w, f, S),
         NEW g \in Files, row'[g] = "live", row[g] # "live" \/ Known(g)
  PROVE  Known(g)'
<1> DEFINE more == With(w, "batch", w.batch \cup {f})
           told == With(more, "batch", {})
<1>1. Fields(more) /\ more.batch = walk.batch \cup {f} /\ more.touched = walk.touched
  BY SettingAField DEF Names
<1>2. g \notin S => Upserted(S)[g] = row[g]
  BY DEF Upserted
<1>3. ASSUME NEW new, Rows(new, S), g # f, row'[g] = row[g] PROVE row[g] = "live" /\ (g \in stale => g \in stale')
  BY <1>3 DEF Rows
<1>4. CASE Full(more)
  <2>1. Report(more, S)
    BY <1>4 DEF Witness
  <2> HIDE DEF more
  <2>2. told.touched = walk.touched
    BY <1>1, SettingAField DEF Names
  <2>3. /\ walk' = told /\ row' = Restored(Upserted(S), more.batch)
        /\ Rows(Restored(Upserted(S), more.batch), S)
    BY <2>1 DEF Report, Rows
  <2> HIDE DEF told
  <2>4. session'.seen = session.seen \cup more.batch
    BY <1>1, <2>1 DEF Report
  <2>5. CASE g \in more.batch
    BY <2>4, <2>5 DEF Known
  <2>6. CASE g \notin more.batch
    <3>1. g # f /\ g \notin walk.batch
      BY <1>1, <2>6
    <3>2. row'[g] = row[g]
      BY <1>2, <2>3, <2>6, <3>1 DEF Restored
    <3>3. Known(g) /\ (g \in stale => g \in stale')
      BY <1>3, <2>3, <3>1, <3>2
    <3> QED BY <2>2, <2>3, <2>4, <3>1, <3>3 DEF Known
  <2> QED BY <2>5, <2>6
<1>5. CASE ~Full(more)
  <2>1. walk' = more /\ session' = session /\ row' = Upserted(S) /\ Rows(Upserted(S), S)
    BY <1>5 DEF Witness, Rows
  <2> HIDE DEF more
  <2>2. CASE g = f
    BY <1>1, <2>1, <2>2 DEF Known
  <2>3. CASE g # f
    <3>1. row'[g] = row[g]
      BY <1>2, <2>1, <2>3
    <3>2. Known(g) /\ (g \in stale => g \in stale')
      BY <1>3, <2>1, <2>3, <3>1
    <3> QED BY <1>1, <2>1, <3>2 DEF Known
  <2> QED BY <2>2, <2>3
<1> QED BY <1>4, <1>5

\* So at every entry of a presence pass.
LEMMA EntryKnows ==
  ASSUME WalkInv, Typed, IsPresence, NEW f \in Files, Visit(f) \/ StatxFails(f),
         NEW g \in Files, row'[g] = "live", row[g] # "live" \/ Known(g)
  PROVE  Known(g)'
<1> DEFINE w == At(f, walk.left \ {f})
           lost == With(w, "lost", TRUE)
           unread == With(w, "unread", TRUE)
           counting == With(w, "counted", w.counted \cup {f})
<1>1. Fields(w) /\ w.job = walk.job /\ w.batch = walk.batch /\ w.touched = walk.touched
  BY AtEntry DEF WalkInv
<1>2. Handle(w, f) \/ Unread(w, f) \/ Pass(w) \/ Pass(lost)
  BY DEF Visit, StatxFails
<1> HIDE DEF w
<1>3. row \in RowTypes /\ session \in Sessions
  BY DEF WalkInv, Shape, RowTypes, Typed, Sessions
<1>4. Fields(lost) /\ lost.batch = walk.batch /\ lost.touched = walk.touched
  <2>1. Fields(lost) /\ \A n \in Names \ {"lost"} : lost[n] = w[n]
    BY <1>1, RaisingAField DEF Names
  <2> HIDE DEF lost
  <2> QED BY <1>1, <2>1 DEF Names
<1>5. Fields(unread) /\ unread.batch = walk.batch /\ unread.touched = walk.touched
  <2>1. Fields(unread) /\ \A n \in Names \ {"unread"} : unread[n] = w[n]
    BY <1>1, RaisingAField DEF Names
  <2> HIDE DEF unread
  <2> QED BY <1>1, <2>1 DEF Names
<1>6. Fields(counting) /\ counting.batch = walk.batch /\ counting.touched = walk.touched
  BY <1>1, SettingAField DEF Names
<1>7. ASSUME NEW z, walk' = z, UNCHANGED <<row, stale, session>>,
             z.batch = walk.batch, z.touched = walk.touched
      PROVE  Known(g)'
  BY <1>7 DEF Known
<1>8. CASE Pass(w) \/ Pass(lost)
  <2> HIDE DEF lost
  <2> QED BY <1>1, <1>4, <1>7, <1>8 DEF Pass
<1>9. CASE Unread(w, f)
  <2>1. Witness(unread, f, {}) \/ (walk' = unread /\ UNCHANGED <<row, stale, session>>)
    BY <1>9 DEF Unread
  <2> HIDE DEF unread
  <2>2. {} \in SUBSET {f}
    OBVIOUS
  <2> QED BY <1>3, <1>5, <1>7, <2>1, <2>2, WitnessKnows
<1>10. CASE Handle(w, f)
  <2> DEFINE S == IF w.job = "remote" /\ (row[f] = "absent" \/ f \in stale) THEN {f} ELSE {}
  <2>1. See(w, f)
    BY <1>1, <1>10 DEF Handle, IsPresence
  <2>2. Witness(counting, f, S) /\ S \in SUBSET {f}
    BY <2>1 DEF See
  <2> HIDE DEF counting, S
  <2> QED BY <1>3, <1>6, <2>2, WitnessKnows
<1> QED BY <1>2, <1>8, <1>9, <1>10

\* What appears in the time of a presence pass, the pass knows.
LEMMA NewIsKnownStep ==
  ASSUME WalkInv, Typed, NewIsKnown, Next PROVE NewIsKnown'
<1>1. SUFFICES ASSUME Walking', IsPresence', NEW f \in there' \ walk'.steady, row'[f] = "live"
      PROVE  Known(f)'
  BY DEF NewIsKnown
<1>2. ~Open
  BY <1>1, WalkGoesOn DEF Open, disk, WalkInv, Walking
<1>3. Walking /\ IsPresence /\ walk.job # "none"
  BY <1>1, <1>2, WalkGoesOn, WalksAssumption DEF WalkInv, IsPresence
<1>4. Fields(walk) /\ row \in RowTypes
  BY DEF WalkInv, Shape, RowTypes
<1>5. f \in there => f \notin walk.steady /\ (row[f] # "live" \/ Known(f))
  BY <1>1, <1>2, <1>3, WalkGoesOn DEF WalkInv, NewIsKnown, Remove, Touch
<1>6. ASSUME NEW g \in Files, Write(g) PROVE Known(f)'
  <2>1. /\ walk' = walk /\ row' = row /\ session' = session /\ there' = there \cup {g}
        /\ stale' = IF row[g] = "absent" THEN stale ELSE stale \cup {g}
    BY <1>6 DEF Write, Touch
  <2> QED BY <1>1, <1>5, <2>1 DEF Known
<1>7. f \in Files
  BY <1>1, DiskGoes DEF WalkInv, Shape, Write, Remove, Touch
<1>8. (\A g \in Files : ~Write(g)) => f \in there
  BY <1>1, DiskGoes DEF Remove, Touch
<1>9. ASSUME f \in there, UNCHANGED <<row, stale, session>>,
             walk'.batch = walk.batch, walk'.touched = walk.touched
      PROVE  Known(f)'
  BY <1>1, <1>5, <1>9 DEF Known
<1>10. ASSUME f \in there, NEW g \in Files, Visit(g) \/ StatxFails(g) PROVE Known(f)'
  BY <1>1, <1>3, <1>5, <1>7, <1>10, EntryKnows
<1>11. ASSUME f \in there, NEW g \in Files, Event(g) PROVE Known(f)'
  <2>1. walk' = With(walk, "touched", walk.touched \cup {g})
    BY <1>3, <1>11 DEF Event
  <2>2. walk'.batch = walk.batch /\ walk'.touched = walk.touched \cup {g} /\ session' = session
    BY <1>4, <1>11, <2>1, SettingAField DEF Event, Names
  <2>3. CASE f = g
    BY <2>2, <2>3 DEF Known
  <2>4. CASE f # g
    <3>1. row'[f] = row[f]
      BY <1>4, <1>7, <1>11, <2>4, RowsKeepType DEF Event, Rows, RowTypes
    <3>2. Known(f) /\ (f \in stale => f \in stale')
      BY <1>1, <1>5, <1>11, <2>4, <3>1 DEF Event, Rows
    <3> QED BY <2>2, <3>2 DEF Known
  <2> QED BY <2>3, <2>4
<1>12. ASSUME f \in there, NEW g \in Files, ReaddirFails(g) PROVE Known(f)'
  <2>1. PICK dir : walk' = With(At(dir, {h \in walk.left : ~Under(h, dir)}), "dirty", TRUE)
    BY <1>12 DEF ReaddirFails
  <2> DEFINE w == At(dir, {h \in walk.left : ~Under(h, dir)})
             z == With(w, "dirty", TRUE)
  <2>2. Fields(w) /\ w.batch = walk.batch /\ w.touched = walk.touched
    BY AtEntry DEF WalkInv
  <2> HIDE DEF w
  <2>3. \A n \in Names \ {"dirty"} : z[n] = w[n]
    BY <2>2, RaisingAField DEF Names
  <2>4. walk' = z
    BY <2>1 DEF w
  <2> HIDE DEF z
  <2> QED BY <1>9, <1>12, <2>2, <2>3, <2>4 DEF Names, ReaddirFails
<1>13. ASSUME f \in there, NEW g \in Files, Remove(g) PROVE Known(f)'
  <2>1. walk'.batch = walk.batch /\ walk'.touched = walk.touched
    BY <1>4, <1>13, SettingAField DEF Remove, Touch, Names
  <2> QED BY <1>9, <1>13, <2>1 DEF Remove, Touch
<1>14. ASSUME f \in there, Unmount \/ Remount PROVE Known(f)'
  BY <1>9, <1>14 DEF Unmount, Remount
<1>15. CASE \/ Cut \/ EndDirty \/ EndUnmounted \/ StoreFails \/ FinishInitial \/ FinishExtra
            \/ FinishReconcile \/ Conclude \/ ConcludeHalf \/ Blocked \/ Drop \/ Restart
  <2>1. walk' = Idle
    BY <1>15 DEF Cut, EndDirty, EndUnmounted, StoreFails, FinishInitial, FinishExtra,
       FinishReconcile, Conclude, ConcludeHalf, Blocked, Drop, Restart, Dated
  <2> QED BY <1>1, <2>1 DEF Walking, Idle, Fresh
<1>16. ~CannotCount /\ (\A job \in Jobs : ~Begin(job)) /\ \A g \in Files : ~Age(g) /\ ~Purge(g)
  BY <1>3 DEF CannotCount, Begin, Age, Purge, Walking
<1> QED BY <1>2, <1>6, <1>8, <1>10, <1>11, <1>12, <1>13, <1>14, <1>15, <1>16
        DEF Next, Step, Fault, Outside

\* The root is read, and all of it lies ahead.
LEMMA OpenReconciles ==
  ASSUME WalkInv, OpenMounted, Open, walk'.job = "reconcile"
  PROVE  there' \subseteq walk'.left /\ there' \subseteq walk'.steady
<1> DEFINE a == With(walk, "phase", "entries")
           b == With(a, "steady", there)
<1>1. PICK left :
        /\ walk' = With(b, "left", left)
        /\ walk.job = "reconcile" /\ mounted => left = {f \in Ahead[<<>>] : Under(f, <<>>)}
  BY DEF Open
<1>2. Fields(a) /\ a.job = walk.job
  BY SettingAField DEF WalkInv, Shape, Names
<1> HIDE DEF a
<1>3. Fields(b) /\ b.job = walk.job /\ b.steady = there
  BY <1>2, SettingAField DEF Names
<1> HIDE DEF b
<1>4. walk'.left = left /\ walk'.job = walk.job /\ walk'.steady = there
  BY <1>1, <1>3, SettingAField DEF Names
<1>5. mounted /\ there' = there
  BY DEF OpenMounted, Open, disk
<1>6. left = {f \in Ahead[<<>>] : Under(f, <<>>)}
  BY <1>1, <1>4, <1>5
<1> QED BY <1>4, <1>5, <1>6, WholeTree DEF WalkInv, Shape

\* The next entry of a reconcile.
LEMMA EntryReconciles ==
  ASSUME WalkInv, Typed, LostIsStale, Recorded, Reconciled, walk.job = "reconcile",
         NEW g \in Files, Visit(g), ~walk'.dirty,
         NEW f \in there, f \notin walk'.left, changed[f] # "new"
  PROVE  row'[f] # "absent" /\ f \notin stale'
<1> DEFINE w == At(g, walk.left \ {g})
<1>1. Fields(w) /\ w.job = walk.job /\ w.left = walk.left \ {g} /\ w.dirty = walk.dirty
  BY AtEntry DEF WalkInv
<1>2. (g \in there /\ Handle(w, g)) \/ (g \notin walk.steady /\ Pass(w))
  BY DEF Visit
<1> HIDE DEF w
<1>3. (g \in there /\ Reconcile(w, g)) \/ (g \notin walk.steady /\ Pass(w))
  BY <1>1, <1>2 DEF Handle
<1>4. walk' = w /\ Walking /\ ~walk.dirty
  BY <1>1, <1>3 DEF Reconcile, Pass, Visit
<1>5. /\ \A h \in there \ walk.steady : changed[h] = "new"
      /\ \A h \in there \ walk.left : changed[h] # "new" => row[h] # "absent" /\ h \notin stale
  BY <1>4 DEF Reconciled
<1>6. f \in Files /\ row \in RowTypes
  BY DEF WalkInv, Shape, RowTypes
<1>7. CASE f # g
  <2>1. row[f] # "absent" /\ f \notin stale
    BY <1>1, <1>4, <1>5, <1>7
  <2>2. UNCHANGED <<row, stale>> \/ Rows(Upserted({g}), {g})
    BY <1>3 DEF Reconcile, Pass
  <2>3. row'[f] = row[f]
    BY <1>6, <1>7, <2>2, RowsKeepType DEF Rows
  <2>4. stale' \subseteq stale
    BY <2>2 DEF Rows
  <2> QED BY <2>1, <2>3, <2>4
<1>8. CASE f = g
  <2>1. Reconcile(w, g)
    BY <1>3, <1>5, <1>8
  <2>2. CASE changed[g] = "old"
    <3>1. UNCHANGED <<row, stale>>
      BY <2>1, <2>2 DEF Reconcile
    <3> QED BY <1>8, <2>2, <3>1 DEF Recorded
  <2>3. CASE changed[g] # "old"
    <3>1. Rows(Upserted({g}), {g})
      BY <2>1, <2>3 DEF Reconcile
    <3>2. row[g] # "gone" \/ g \in stale
      BY <1>8 DEF LostIsStale
    <3>3. Upserted({g})[g] = "live"
      BY <3>2 DEF Upserted
    <3> QED BY <1>8, <3>1, <3>3 DEF Rows
  <2> QED BY <2>2, <2>3
<1> QED BY <1>7, <1>8

\* What a reconcile has left behind stays recorded while it goes on.
LEMMA ReconciledStep ==
  ASSUME WalkInv, Typed, OpenMounted, LostIsStale, Recorded, Reconciled, Next,
         "statx" \notin Faults
  PROVE  Reconciled'
<1>1. SUFFICES ASSUME Walking', walk'.job = "reconcile", ~walk'.dirty
      PROVE  /\ \A f \in there' \ walk'.steady : changed'[f] = "new"
             /\ \A f \in there' \ walk'.left :
                  changed'[f] # "new" => row'[f] # "absent" /\ f \notin stale'
  BY DEF Reconciled
<1> DEFINE Goal == /\ \A f \in there' \ walk'.steady : changed'[f] = "new"
                   /\ \A f \in there' \ walk'.left :
                        changed'[f] # "new" => row'[f] # "absent" /\ f \notin stale'
<1>2. CASE Open
  BY <1>1, <1>2, OpenReconciles DEF WalkInv
<1>3. CASE ~Open
  <2>1. Walking /\ walk.job = "reconcile" /\ ~IsPresence
    BY <1>1, <1>3, WalkGoesOn DEF WalkInv, IsPresence
  <2>2. Fields(walk) /\ row \in RowTypes /\ there \subseteq Files
    BY DEF WalkInv, Shape, RowTypes
  <2>3. ASSUME ~walk.dirty
        PROVE  /\ \A f \in there \ walk.steady : changed[f] = "new"
               /\ \A f \in there \ walk.left :
                    changed[f] # "new" => row[f] # "absent" /\ f \notin stale
    BY <2>1, <2>3 DEF Reconciled
  <2>4. ASSUME NEW g \in Files, Visit(g) PROVE Goal
    <3>1. walk'.dirty = walk.dirty
      <4> DEFINE w == At(g, walk.left \ {g})
      <4>1. Fields(w) /\ w.dirty = walk.dirty
        BY AtEntry DEF WalkInv
      <4>2. Handle(w, g) \/ Pass(w)
        BY <2>4 DEF Visit
      <4> HIDE DEF w
      <4> QED BY <4>1, <4>2, HandledWalk DEF Names
    <3>2. there' = there /\ changed' = changed /\ walk'.steady = walk.steady
      BY <1>1, <1>3, <2>4, WalkGoesOn DEF Visit, disk, Remove, Touch, WalkInv
    <3>3. \A f \in there' \ walk'.left :
            changed'[f] # "new" => row'[f] # "absent" /\ f \notin stale'
      BY <1>1, <2>1, <2>4, <3>2, EntryReconciles
    <3> QED BY <1>1, <2>3, <3>1, <3>2, <3>3
  <2>5. ASSUME NEW g \in Files, StatxFails(g) PROVE FALSE
    BY <2>1, <2>5 DEF StatxFails
  <2>6. ASSUME NEW g \in Files, ReaddirFails(g) PROVE FALSE
    <3>1. PICK dir : walk' = With(At(dir, {h \in walk.left : ~Under(h, dir)}), "dirty", TRUE)
      BY <2>6 DEF ReaddirFails
    <3> DEFINE w == At(dir, {h \in walk.left : ~Under(h, dir)})
               z == With(w, "dirty", TRUE)
    <3>2. Fields(w)
      BY AtEntry DEF WalkInv
    <3> HIDE DEF w
    <3>3. z.dirty
      BY <3>2, RaisingAField DEF Names
    <3>4. walk' = z
      BY <3>1 DEF w
    <3> QED BY <1>1, <3>3, <3>4
  <2>7. ASSUME NEW g \in Files, Write(g) PROVE Goal
    <3>1. /\ walk' = walk /\ row' = row /\ there' = there \cup {g}
          /\ changed' = [changed EXCEPT ![g] = "new"]
          /\ stale' = IF row[g] = "absent" THEN stale ELSE stale \cup {g}
      BY <2>7 DEF Write, Touch
    <3>2. \A f \in Files : changed'[f] = IF f = g THEN "new" ELSE changed[f]
      BY <3>1 DEF Typed
    <3> QED BY <1>1, <2>2, <2>3, <3>1, <3>2
  <2>8. ASSUME NEW g \in Files, Remove(g) PROVE Goal
    <3>1. /\ walk' = With(walk, "steady", walk.steady \ {g}) /\ there' = there \ {g}
          /\ UNCHANGED <<row, stale, changed>>
      BY <2>8 DEF Remove, Touch
    <3>2. walk'.steady = walk.steady \ {g} /\ walk'.left = walk.left /\ walk'.dirty = walk.dirty
      BY <2>2, <3>1, SettingAField DEF Names
    <3> QED BY <1>1, <2>3, <3>1, <3>2
  <2>9. ASSUME NEW g \in Files, Event(g) PROVE Goal
    <3>1. walk' = With(walk, "touched", walk.touched \cup {g}) /\ UNCHANGED <<there, changed>>
      BY <2>1, <2>9, WalksAssumption DEF Event, disk
    <3>2. /\ walk'.steady = walk.steady /\ walk'.left = walk.left /\ walk'.dirty = walk.dirty
      BY <2>2, <3>1, SettingAField DEF Names
    <3>3. ASSUME NEW f \in there, row[f] # "absent", f \notin stale
          PROVE  row'[f] # "absent" /\ f \notin stale'
      <4>1. row'[f] # "absent"
        BY <2>1, <2>2, <2>9, <3>3, RowsGo, WalksAssumption DEF WalkInv
      <4>2. f \notin stale'
        BY <2>9, <3>3 DEF Event, Rows
      <4> QED BY <4>1, <4>2
    <3> QED BY <1>1, <2>3, <3>1, <3>2, <3>3
  <2>10. CASE Unmount \/ Remount
    BY <1>1, <2>3, <2>10 DEF Unmount, Remount
  <2>11. CASE \/ Cut \/ EndDirty \/ EndUnmounted \/ StoreFails \/ FinishInitial \/ FinishExtra
              \/ FinishReconcile \/ Conclude \/ ConcludeHalf \/ Blocked \/ Drop \/ Restart
    <3>1. walk' = Idle
      BY <2>11 DEF Cut, EndDirty, EndUnmounted, StoreFails, FinishInitial, FinishExtra,
         FinishReconcile, Conclude, ConcludeHalf, Blocked, Drop, Restart, Dated
    <3> QED BY <1>1, <3>1 DEF Walking, Idle, Fresh
  <2>12. ~CannotCount /\ (\A job \in Jobs : ~Begin(job)) /\ \A g \in Files : ~Age(g) /\ ~Purge(g)
    BY <2>1 DEF CannotCount, Begin, Age, Purge, Walking
  <2> QED BY <1>3, <2>4, <2>5, <2>6, <2>7, <2>8, <2>9, <2>10, <2>11, <2>12
          DEF Next, Step, Fault, Outside
<1> QED BY <1>2, <1>3

\* The threshold passes only what is recorded.
LEMMA RecordedStep ==
  ASSUME WalkInv, Typed, LostIsStale, Recorded, Reconciled, Next PROVE Recorded'
<1>1. SUFFICES ASSUME NEW f \in there', changed'[f] = "old"
      PROVE  row'[f] # "absent" /\ f \notin stale'
  BY DEF Recorded
<1>2. \A g \in Files : ~(Write(g) /\ g = f)
  BY <1>1 DEF Write, Typed
<1>3. f \in there /\ f \in Files
  BY <1>2, DiskGoes DEF Write, Remove, Touch, WalkInv, Shape
<1>4. row[f] # "absent" /\ f \notin stale
  <2>1. CASE FinishReconcile /\ changed[f] # "old"
    <3>1. changed[f] # "new"
      BY <1>1, <1>3, <2>1 DEF FinishReconcile, ThresholdAtStart
    <3>2. Walking /\ walk.job = "reconcile" /\ ~walk.dirty /\ walk.left = {}
      BY <2>1 DEF FinishReconcile, Through
    <3> QED BY <1>3, <3>1, <3>2 DEF Reconciled
  <2>2. CASE changed[f] = "old"
    BY <1>3, <2>2 DEF Recorded
  <2>3. ASSUME NEW job \in Jobs, Begin(job) PROVE changed[f] = "old"
    BY <1>1, <1>3, <2>3 DEF Begin
  <2>4. ASSUME NEW g \in Files, Write(g) \/ Remove(g) PROVE changed[f] = "old"
    BY <1>1, <1>2, <1>3, <2>4 DEF Write, Remove, Typed
  <2> QED BY <1>1, <2>1, <2>2, <2>3, <2>4, DiskGoes
<1>5. row[f] # "gone"
  BY <1>3, <1>4 DEF LostIsStale
<1>6. row'[f] # "absent"
  BY <1>3, <1>4, <1>5, RowsGo DEF WalkInv
<1>7. f \notin stale'
  BY <1>2, <1>3, <1>4, StaleGoes DEF WalkInv
<1> QED BY <1>6, <1>7

LEMMA OpenMountedStep ==
  ASSUME Shape, OpenMounted, Next, "unmount_at_open" \notin Faults PROVE OpenMounted'
<1>1. SUFFICES ASSUME walk'.phase = "open" PROVE mounted'
  BY DEF OpenMounted
<1>2. walk' # Idle
  BY <1>1 DEF Idle, Fresh
<1>3. ASSUME NEW job \in Jobs, Begin(job) PROVE mounted'
  BY <1>2, <1>3 DEF Begin, Dated
<1>4. walk.phase = "open" \/ (\E job \in Jobs : Begin(job))
  <2>1. CASE \/ Cut \/ EndDirty \/ EndUnmounted \/ StoreFails \/ FinishInitial \/ FinishExtra
             \/ FinishReconcile \/ Conclude \/ ConcludeHalf \/ Blocked \/ Drop \/ Restart
    BY <1>2, <2>1 DEF Cut, EndDirty, EndUnmounted, StoreFails, FinishInitial, FinishExtra,
       FinishReconcile, Conclude, ConcludeHalf, Blocked, Drop, Restart, Dated
  <2>2. CASE Open \/ CannotCount
    BY <2>2 DEF Open, CannotCount
  <2>3. CASE Unmount \/ Remount \/ \E f \in Files : Age(f) \/ Purge(f) \/ Write(f)
    BY <1>1, <2>3 DEF Unmount, Remount, Age, Purge, Write, Touch
  <2>4. ASSUME NEW f \in Files, Remove(f) \/ Event(f) PROVE walk.phase = "open"
    <3>1. walk' = walk \/ \E n \in {"steady", "touched"} : \E v : walk' = With(walk, n, v)
      BY <2>4 DEF Remove, Touch, Event
    <3> QED BY <1>1, <3>1, SettingAField DEF Shape, Names
  <2>5. ASSUME NEW f \in Files, Visit(f) \/ StatxFails(f) \/ ReaddirFails(f)
        PROVE  FALSE
    <3>1. walk.phase = "entries"
      BY <2>5 DEF Visit, StatxFails, ReaddirFails, Walking
    <3>2. ASSUME NEW w, Fields(w), w.phase = "entries", Handle(w, f) \/ Unread(w, f) \/ Pass(w)
          PROVE  FALSE
      BY <1>1, <3>2, HandledWalk DEF Names
    <3>3. ASSUME NEW e, NEW left, NEW w, w = At(e, left) PROVE Fields(w) /\ w.phase = "entries"
      BY <3>1, <3>3, AtEntry
    <3>4. ASSUME NEW w, Fields(w), w.phase = "entries", NEW n \in {"lost", "dirty"},
                 NEW z, z = With(w, n, TRUE)
          PROVE  Fields(z) /\ z.phase = "entries"
      <4>1. n \in Names
        BY DEF Names
      <4>2. /\ Fields(With(w, n, TRUE))
            /\ \A k \in Names \ {n} : With(w, n, TRUE)[k] = w[k]
        BY <3>4, <4>1, RaisingAField
      <4> QED BY <3>4, <4>2 DEF Names
    <3>5. CASE Visit(f) \/ StatxFails(f)
      <4>1. PICK w : /\ w = At(f, walk.left \ {f})
                     /\ Handle(w, f) \/ Unread(w, f) \/ Pass(w) \/ Pass(With(w, "lost", TRUE))
        BY <3>5 DEF Visit, StatxFails
      <4> QED BY <3>2, <3>3, <3>4, <4>1
    <3>6. CASE ReaddirFails(f)
      <4>1. PICK dir : walk' = With(At(dir, {g \in walk.left : ~Under(g, dir)}), "dirty", TRUE)
        BY <3>6 DEF ReaddirFails
      <4> QED BY <1>1, <3>3, <3>4, <4>1
    <3> QED BY <2>5, <3>5, <3>6
  <2> QED BY <2>1, <2>2, <2>3, <2>4, <2>5 DEF Next, Step, Fault, Outside
<1>5. CASE walk.phase = "open"
  <2>1. mounted
    BY <1>5 DEF OpenMounted
  <2>2. ~Unmount
    BY <1>5 DEF Unmount
  <2>3. Remount => mounted'
    BY DEF Remount
  <2>4. mounted' = mounted \/ Unmount \/ Remount
    <3>1. CASE \/ Open \/ EndDirty \/ EndUnmounted \/ FinishInitial \/ FinishExtra \/ FinishReconcile
               \/ Conclude \/ Blocked \/ Drop \/ Cut \/ StoreFails \/ CannotCount \/ ConcludeHalf
               \/ Restart
      BY <3>1 DEF Open, EndDirty, EndUnmounted, FinishInitial, FinishExtra, FinishReconcile, Conclude,
         Blocked, Drop, Cut, StoreFails, CannotCount, ConcludeHalf, Restart, disk
    <3>2. (\E job \in Jobs : Begin(job)) => mounted' = mounted
      BY DEF Begin
    <3>3. \A f \in Files :
            Visit(f) \/ StatxFails(f) \/ ReaddirFails(f) \/ Write(f) \/ Remove(f) \/ Event(f)
            \/ Age(f) \/ Purge(f) => mounted' = mounted
      BY DEF Visit, StatxFails, ReaddirFails, Write, Remove, Touch, Event, Age, Purge, disk
    <3> QED BY <3>1, <3>2, <3>3 DEF Next, Step, Fault, Outside
  <2> QED BY <2>1, <2>2, <2>3, <2>4
<1> QED BY <1>3, <1>4, <1>5

LEMMA RecordKept ==
  ASSUME "statx" \notin Faults, "unmount_at_open" \notin Faults PROVE Spec => []RecordInv
<1>1. ASSUME Init PROVE RecordInv
  <2>1. walk.phase = "none"
    BY <1>1, FreshWalk DEF Init, Idle
  <2>2. \A f \in there : row[f] = "absent" /\ changed[f] = "due"
    BY <1>1, WalksAssumption DEF Init
  <2> QED BY <2>1, <2>2
          DEF RecordInv, OpenMounted, LostIsStale, NewIsKnown, Reconciled, Recorded, Walking
<1>2. ASSUME RecordInv, Typed, WalkInv, [Next]_vars PROVE RecordInv'
  <2>1. CASE Next
    <3>1. LostIsStale' /\ NewIsKnown'
      BY <1>2, <2>1, LostIsStaleStep, NewIsKnownStep DEF RecordInv
    <3>2. Reconciled' /\ Recorded'
      BY <1>2, <2>1, ReconciledStep, RecordedStep DEF RecordInv
    <3>3. OpenMounted'
      BY <1>2, <2>1, OpenMountedStep DEF RecordInv, WalkInv
    <3> QED BY <3>1, <3>2, <3>3 DEF RecordInv
  <2>2. CASE UNCHANGED vars
    BY <1>2, <2>2 DEF vars, RecordInv, OpenMounted, LostIsStale, NewIsKnown, Known, Reconciled,
                      Recorded, Walking, IsPresence
  <2> QED BY <1>2, <2>1, <2>2
<1> QED BY <1>1, <1>2, AllTyped, AccountKept, PTL DEF Spec

\* What no reconcile will look at again is in the table as it is on disk, whatever
\* else fails: as long as a statx does not fail unnoticed (DeltaReconcile.file) and
\* the root is not unmounted between the check of it and opendir (di_bo).
THEOREM ThresholdIsSafe ==
  ASSUME "statx" \notin Faults, "unmount_at_open" \notin Faults PROVE Spec => []Recorded
<1>1. RecordInv => Recorded
  BY DEF RecordInv
<1> QED BY <1>1, RecordKept, PTL
=============================================================================
