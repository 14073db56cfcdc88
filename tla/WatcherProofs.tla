---------------------------- MODULE WatcherProofs ----------------------------
(***************************************************************************)
(* For any tree, any operations of the users and any number of events:     *)
(*                                                                         *)
(* - the ceiling of the queue: the watcher lets no row in once the queue   *)
(*   is full, though it counts the queue only now and then.  QueueBounded  *)
(*   is not inductive: it rests on a cached count that is never too low;   *)
(*                                                                         *)
(* - the types of what the threads share.  TypeOK is not inductive either: *)
(*   that a directory is all that is ever walked rests on what is in       *)
(*   transit, from the raw event through the batch, the pairing and the    *)
(*   coalescing to the channel (WatchInv).                                 *)
(***************************************************************************)
EXTENDS Watcher, FiniteSetTheorems, WellFoundedInduction, TLAPS

\* The rows the ceiling is for: those that did not come back from missing.
LetIn(rs) == {i \in Inodes : rs[i].st = "settling" /\ rs[i].prev # "missing"}

\* The cached count is at least the number of rows that were let in.
Counted ==
  /\ counted \in Nat \union {-1}
  /\ counted # -1 => Cardinality(LetIn(rows)) <= counted

QueueInv == DOMAIN rows = Inodes /\ Counted /\ Cardinality(LetIn(rows)) <= MaxPending

\* An update of the table that lets in nobody, or nobody but i.
NobodyIn(rs, new) == DOMAIN new = Inodes /\ LetIn(new) \subseteq LetIn(rs)
OneIn(rs, new, i) == DOMAIN new = Inodes /\ LetIn(new) \subseteq LetIn(rs) \union {i}

\* The table is finite.
LEMMA LetInIsFinite ==
  ASSUME NEW rs PROVE IsFiniteSet(LetIn(rs)) /\ Cardinality(LetIn(rs)) \in Nat
<1>1. LetIn(rs) \subseteq Inodes
  BY DEF LetIn
<1> QED BY <1>1, QueueAssumption, FS_Subset, FS_CardinalityType

LEMMA NobodyCounts ==
  ASSUME NEW rs, NEW new, NobodyIn(rs, new)
  PROVE  Cardinality(LetIn(new)) <= Cardinality(LetIn(rs))
BY LetInIsFinite, FS_Subset DEF NobodyIn

LEMMA OneCounts ==
  ASSUME NEW rs, NEW new, NEW i, OneIn(rs, new, i)
  PROVE  Cardinality(LetIn(new)) <= Cardinality(LetIn(rs)) + 1
<1>1. IsFiniteSet(LetIn(rs) \union {i})
  BY LetInIsFinite, FS_AddElement
<1>2. Cardinality(LetIn(rs) \union {i}) <= Cardinality(LetIn(rs)) + 1
  BY LetInIsFinite, FS_AddElement
<1>3. Cardinality(LetIn(new)) <= Cardinality(LetIn(rs) \union {i})
  BY <1>1, FS_Subset DEF OneIn
<1>4. Cardinality(LetIn(rs) \union {i}) \in Nat
  BY <1>1, FS_CardinalityType
<1> QED BY <1>2, <1>3, <1>4, LetInIsFinite

\* Whoever counts the table counts those that were let in.
LEMMA QueueCounts == Queue(rows) \in Nat /\ Cardinality(LetIn(rows)) <= Queue(rows)
<1> DEFINE all == {i \in Inodes : rows[i].st = "settling"}
<1>1. IsFiniteSet(all)
  <2>1. all \subseteq Inodes
    OBVIOUS
  <2> QED BY <2>1, QueueAssumption, FS_Subset
<1>2. LetIn(rows) \subseteq all
  BY DEF LetIn
<1>3. Queue(rows) = Cardinality(all)
  BY DEF Queue
<1> HIDE DEF all
<1> QED BY <1>1, <1>2, <1>3, FS_Subset, FS_CardinalityType

(* --------------------------- what a row does -------------------------- *)

\* To mark rows missing, to rename them, or to bring them back lets nobody in.
LEMMA MarkingLetsNobodyIn ==
  ASSUME NEW rs, NEW loc, DOMAIN rs = Inodes
  PROVE  /\ NobodyIn(rs, MarkMissing(rs, loc)) /\ NobodyIn(rs, MarkMissingPrefix(rs, loc))
         /\ NobodyIn(rs, MarkGone(rs, loc))
<1>1. ASSUME NEW t, NEW l, DOMAIN t = Inodes
      PROVE  NobodyIn(t, MarkMissing(t, l)) /\ NobodyIn(t, MarkMissingPrefix(t, l))
  BY <1>1 DEF MarkMissing, MarkMissingPrefix, MarkIf, NobodyIn, LetIn, Live
<1>2. NobodyIn(MarkMissing(rs, loc), MarkMissingPrefix(MarkMissing(rs, loc), loc))
  BY <1>1 DEF NobodyIn
<1> QED BY <1>1, <1>2 DEF MarkGone, NobodyIn

LEMMA RenamingLetsNobodyIn ==
  ASSUME NEW rs, DOMAIN rs = Inodes, NEW i, NEW loc, NEW from
  PROVE  NobodyIn(rs, RenamedRow(rs, i, loc)) /\ NobodyIn(rs, RenamedPrefix(rs, from, loc))
<1>1. NobodyIn(rs, RenamedPrefix(rs, from, loc))
  BY DEF RenamedPrefix, NobodyIn, LetIn
<1>2. NobodyIn(rs, RenamedRow(rs, i, loc))
  <2> DEFINE cleared == [j \in Inodes |-> IF j = i THEN rs[j] ELSE MarkMissing(rs, loc)[j]]
  <2>1. NobodyIn(rs, cleared)
    BY MarkingLetsNobodyIn DEF NobodyIn, LetIn
  <2>2. NobodyIn(cleared, [cleared EXCEPT ![i].path = loc])
    BY DEF NobodyIn, LetIn
  <2> QED BY <2>1, <2>2 DEF RenamedRow, NobodyIn
<1> QED BY <1>1, <1>2

LEMMA ClearingLetsNobodyIn ==
  ASSUME NEW rs, DOMAIN rs = Inodes, NEW i, NEW loc
  PROVE  NobodyIn(rs, PathCleared(rs, i, loc))
<1>1. PathCleared(rs, i, loc) \in {rs, RenamedRow(rs, i, loc), MarkMissing(rs, loc)}
  BY DEF PathCleared
<1>2. NobodyIn(rs, rs)
  BY DEF NobodyIn
<1> QED BY <1>1, <1>2, MarkingLetsNobodyIn, RenamingLetsNobodyIn

\* To store a row lets in that one, unless it was in the queue or missing.
LEMMA StoringLetsOneIn ==
  ASSUME NEW rs, DOMAIN rs = Inodes, NEW i, NEW v, NEW loc
  PROVE  /\ OneIn(rs, Stored(rs, i, v, loc), i)
         /\ rs[i].st \in {"missing", "settling"} => NobodyIn(rs, Stored(rs, i, v, loc))
         /\ NobodyIn(rs, Restored(rs, i, v))
<1>1. ASSUME NEW l
      PROVE  /\ OneIn(rs, Stored(rs, i, v, l), i)
             /\ rs[i].st \in {"missing", "settling"} => NobodyIn(rs, Stored(rs, i, v, l))
  <2> DEFINE row == [st |-> Fresh(rs[i], v), path |-> l, fp |-> v,
                     prev |-> IF rs[i].st = "missing" THEN "missing" ELSE rs[i].prev]
  <2>1. Stored(rs, i, v, l) = [rs EXCEPT ![i] = row]
    BY DEF Stored
  <2>2. row.prev = IF rs[i].st = "missing" THEN "missing" ELSE rs[i].prev
    OBVIOUS
  <2> HIDE DEF row
  <2> QED BY <2>1, <2>2 DEF OneIn, NobodyIn, LetIn
<1>2. NobodyIn(rs, rs)
  BY DEF NobodyIn
<1> QED BY <1>1, <1>2 DEF Restored

(* ------------------------------ the steps ----------------------------- *)

\* A step that lets nobody in, whatever it writes ...
LEMMA NobodyKeeps ==
  ASSUME QueueInv, NobodyIn(rows, rows'), counted' = counted PROVE QueueInv'
<1>1. Cardinality(LetIn(rows')) <= Cardinality(LetIn(rows))
  BY NobodyCounts
<1>2. Cardinality(LetIn(rows')) \in Nat /\ Cardinality(LetIn(rows)) \in Nat
  BY LetInIsFinite
<1> QED BY <1>1, <1>2, QueueAssumption DEF QueueInv, Counted, NobodyIn

\* ... and one that counts before it lets one in: what it counted is not too
\* low, from the table or from the cache.
LEMMA CountIsEnough ==
  ASSUME QueueInv, NEW fresh \in BOOLEAN
  PROVE  Count(fresh) \in Nat /\ Cardinality(LetIn(rows)) <= Count(fresh)
BY QueueCounts DEF Count, QueueInv, Counted

LEMMA UpsertKeeps ==
  ASSUME QueueInv, NEW rs, NobodyIn(rows, rs), NEW s, NEW loc, NEW fresh \in BOOLEAN,
         Upsert(rs, s, loc, fresh)
  PROVE  QueueInv'
<1> DEFINE n == Cardinality(LetIn(rows))
           next == Stored(PathCleared(rs, s.ino, loc), s.ino, s.v, loc)
<1>1. Count(fresh) \in Nat /\ n <= Count(fresh) /\ n \in Nat
  BY CountIsEnough, LetInIsFinite
<1>2. Cardinality(LetIn(rs)) <= n /\ Cardinality(LetIn(rs)) \in Nat
  BY NobodyCounts, LetInIsFinite
<1>3. CASE ~IsWanted(loc)
  <2>1. rows' = rs /\ counted' = counted
    BY <1>3 DEF Upsert, SetRows
  <2> QED BY <2>1, NobodyKeeps
<1>4. CASE IsWanted(loc) /\ Count(fresh) >= MaxPending
  <2>1. rows' = rs /\ counted' = Count(fresh)
    BY <1>4 DEF Upsert
  <2> QED BY <1>1, <1>2, <2>1, QueueAssumption DEF QueueInv, Counted, NobodyIn
<1>5. CASE IsWanted(loc) /\ ~(Count(fresh) >= MaxPending)
  <2>1. rows' = next /\ counted' = Count(fresh) + 1
    BY <1>5 DEF Upsert
  <2>2. OneIn(rs, next, s.ino)
    <3>1. NobodyIn(rs, PathCleared(rs, s.ino, loc))
      BY ClearingLetsNobodyIn DEF NobodyIn
    <3>2. OneIn(PathCleared(rs, s.ino, loc), next, s.ino)
      BY <3>1, StoringLetsOneIn DEF NobodyIn
    <3> HIDE DEF next
    <3> QED BY <3>1, <3>2 DEF NobodyIn, OneIn
  <2> HIDE DEF next
  <2>3. Cardinality(LetIn(next)) <= Cardinality(LetIn(rs)) + 1 /\ Cardinality(LetIn(next)) \in Nat
    BY <2>2, OneCounts, LetInIsFinite
  <2>4. Count(fresh) + 1 <= MaxPending /\ DOMAIN rows' = Inodes
    BY <1>1, <1>5, <2>1, <2>2, QueueAssumption DEF OneIn
  <2>5. Cardinality(LetIn(rows')) <= counted' /\ counted' \in Nat /\ counted' <= MaxPending
    BY <1>1, <1>2, <2>1, <2>3, <2>4, QueueAssumption
  <2> HIDE DEF n
  <2>6. Cardinality(LetIn(rows')) \in Nat
    BY <2>1, <2>3
  <2> QED BY <2>4, <2>5, <2>6, QueueAssumption DEF QueueInv, Counted
<1> QED BY <1>3, <1>4, <1>5

\* What an event writes at once.
LEMMA HandleKeeps ==
  ASSUME QueueInv, NEW e, NEW tries, Handle(e, tries) PROVE QueueInv'
<1>1. DOMAIN rows = Inodes /\ NobodyIn(rows, rows)
  BY DEF QueueInv, NobodyIn
<1>2. ASSUME NEW from, NEW to, RenameTree(from, to) PROVE NobodyIn(rows, rows') /\ counted' = counted
  BY <1>1, <1>2, RenamingLetsNobodyIn DEF RenameTree, SetRows, WalkTo
<1>3. ASSUME NEW why, NEW loc, Ask(why, e, tries, loc) PROVE rows' = rows /\ counted' = counted
  BY <1>3 DEF Ask, Leave
<1>4. \/ rows' = rows /\ counted' = counted
      \/ RenameTree(e.from, e.loc)
      \/ SetRows(MarkMissing(rows, e.loc)) \/ SetRows(MarkMissingPrefix(rows, e.loc))
  BY <1>3 DEF Handle, Leave, WalkTo
<1>5. NobodyIn(rows, rows') /\ counted' = counted
  BY <1>1, <1>2, <1>4, MarkingLetsNobodyIn DEF SetRows
<1> QED BY <1>5, NobodyKeeps

\* What the answer of statx leads to.
LEMMA AnswerKeeps == ASSUME QueueInv, Answer PROVE QueueInv'
<1>1. DOMAIN rows = Inodes /\ NobodyIn(rows, rows)
  BY DEF QueueInv, NobodyIn
<1>2. PICK fresh \in BOOLEAN :
        \/ UNCHANGED <<rows, walks, counted>>
        \/ Add(ap.seen, fresh) \/ Push(ap.seen) \/ MoveTo(ap.seen)
        \/ Gone(ap.seen, fresh) \/ Source(ap.seen, fresh)
  BY DEF Answer
<1> DEFINE s == ap.seen
           Kept == NobodyIn(rows, rows') /\ counted' = counted
<1>3. Kept => QueueInv'
  BY NobodyKeeps
<1>4. ASSUME NEW l, WalkTo(l) \/ Leave PROVE Kept
  BY <1>1, <1>4 DEF WalkTo, Leave
<1>5. CASE UNCHANGED <<rows, walks, counted>>
  BY <1>1, <1>3, <1>5
<1>6. CASE Add(s, fresh)
  <2>1. Upsert(rows, s, ap.loc, fresh) \/ WalkTo(ap.loc) \/ Leave
    BY <1>6 DEF Add
  <2> QED BY <1>1, <1>3, <1>4, <2>1, UpsertKeeps
<1>7. CASE Push(s)
  <2>1. \/ rows[s.ino].st = "settling" /\ SetRows(Stored(rows, s.ino, s.v, ap.loc))
        \/ Leave
    BY <1>7 DEF Push
  <2>2. ASSUME rows[s.ino].st = "settling", SetRows(Stored(rows, s.ino, s.v, ap.loc)) PROVE Kept
    BY <1>1, <2>2, StoringLetsOneIn DEF SetRows
  <2> QED BY <1>3, <1>4, <2>1, <2>2
<1>8. CASE MoveTo(s)
  <2> DEFINE moved == RenamedRow(rows, s.ino, ap.loc)
  <2>1. \/ Leave
        \/ RenameTree(ap.ev.from, ap.loc)
        \/ SetRows(Restored(moved, s.ino, s.v))
    BY <1>8 DEF MoveTo, Ask
  <2>2. NobodyIn(rows, moved) /\ NobodyIn(moved, Restored(moved, s.ino, s.v))
    <3>1. NobodyIn(rows, moved)
      BY <1>1, RenamingLetsNobodyIn
    <3> HIDE DEF moved
    <3> QED BY <3>1, StoringLetsOneIn DEF NobodyIn
  <2>3. NobodyIn(rows, Restored(moved, s.ino, s.v))
    BY <2>2 DEF NobodyIn
  <2>4. ASSUME RenameTree(ap.ev.from, ap.loc) PROVE Kept
    BY <1>1, <2>4, RenamingLetsNobodyIn DEF RenameTree, SetRows, WalkTo
  <2> HIDE DEF moved
  <2> QED BY <1>3, <1>4, <2>1, <2>3, <2>4 DEF SetRows
<1>9. CASE Gone(s, fresh)
  <2>1. SetRows(MarkGone(rows, ap.loc)) \/ Upsert(rows, s, ap.loc, fresh)
        \/ WalkTo(ap.loc) \/ Leave
    BY <1>9 DEF Gone
  <2>2. SetRows(MarkGone(rows, ap.loc)) => Kept
    BY <1>1, MarkingLetsNobodyIn DEF SetRows
  <2> QED BY <1>1, <1>3, <1>4, <2>1, <2>2, UpsertKeeps
<1>10. CASE Source(s, fresh)
  <2> DEFINE rs == IF s.k = "gone" THEN MarkGone(rows, ap.loc) ELSE rows
  <2>1. NobodyIn(rows, rs)
    BY <1>1, MarkingLetsNobodyIn
  <2>2. SetRows(rs) \/ Upsert(rs, ap.id, ap.ev.loc, fresh)
    BY <1>10 DEF Source
  <2> HIDE DEF rs
  <2>3. SetRows(rs) => Kept
    BY <2>1 DEF SetRows
  <2> QED BY <1>3, <2>1, <2>2, <2>3, UpsertKeeps
<1> QED BY <1>2, <1>5, <1>6, <1>7, <1>8, <1>9, <1>10

LEMMA QueueStep == ASSUME QueueInv, [Next]_vars PROVE QueueInv'
<1>1. DOMAIN rows = Inodes /\ NobodyIn(rows, rows)
  BY DEF QueueInv, NobodyIn
<1>2. CASE User \/ Reader \/ UNCHANGED vars
  <2>1. User \/ UNCHANGED vars => rows' = rows /\ UNCHANGED applier
    BY DEF User, vars
  <2>2. Reader => rows' = rows /\ UNCHANGED applier
    <3>1. ASSUME NEW s, NEW n, Store(s, n) PROVE rows' = rows /\ UNCHANGED applier
      BY <3>1 DEF Store
    <3>2. ASSUME NEW n, NEW h, LastTurn(n, h) PROVE rows' = rows /\ UNCHANGED applier
      BY <3>1, <3>2, Zenon DEF LastTurn
    <3>3. ASSUME NEW n, NEW f, NEW d, NEW h, Turn(n, f, d, h) PROVE rows' = rows /\ UNCHANGED applier
      BY <3>1, <3>3, Zenon DEF Turn
    <3> QED BY <3>2, <3>3, Zenon DEF Reader
  <2>3. rows' = rows /\ counted' = counted
    BY <1>2, <2>1, <2>2 DEF applier
  <2> QED BY <1>1, <2>3, NobodyKeeps
<1>3. CASE Take
  BY <1>3, HandleKeeps DEF Take
<1>4. CASE Answer
  BY <1>4, AnswerKeeps
<1>5. ASSUME NEW d \in walks, Walk(d) PROVE QueueInv'
  <2>1. counted' = counted /\ NobodyIn(rows, rows')
    BY <1>5 DEF Walk, applier, NobodyIn, LetIn
  <2> QED BY <2>1, NobodyKeeps
<1>6. ASSUME NEW i \in Inodes, Work(i) PROVE QueueInv'
  <2>1. rows' = [rows EXCEPT ![i].st = "done", ![i].fp = ver[i]] /\ counted' = counted
    BY <1>6 DEF Work, applier
  <2>2. NobodyIn(rows, rows')
    BY <1>1, <2>1 DEF NobodyIn, LetIn
  <2> QED BY <2>1, <2>2, NobodyKeeps
<1> QED BY <1>2, <1>3, <1>4, <1>5, <1>6 DEF Next

LEMMA QueueInit == Init => QueueInv
<1>1. ASSUME Init PROVE DOMAIN rows = Inodes /\ LetIn(rows) = {} /\ counted = -1
  BY <1>1 DEF Init, LetIn, NoRow
<1> QED BY <1>1, FS_EmptySet, QueueAssumption DEF QueueInv, Counted

\* Back-pressure: the queue does not grow beyond its ceiling, however many
\* events are applied before it is counted again (upsert_su_kien, DemHangDoi);
\* the rows that come back from missing are let in whatever the ceiling.
THEOREM CeilingHolds == Spec => []QueueBounded
<1>1. Init => QueueInv
  BY QueueInit
<1>2. QueueInv => QueueBounded
  BY DEF QueueInv, QueueBounded, LetIn
<1> QED BY <1>1, <1>2, QueueStep, PTL DEF Spec

(* ------------------------- folds and flat lists ------------------------ *)

\* A set of numbers that is not empty has a least one: the inductions over a
\* list are made as a search for the least counterexample.
LEMMA LeastExists ==
  ASSUME NEW S \in SUBSET Nat, S # {}
  PROVE  \E n \in S : \A k \in S : n <= k
<1>1. IsWellFoundedOn(OpToRel(<, Nat), Nat)
  BY NatLessThanWellFounded
<1>2. PICK n \in S : \A k \in S : ~(<<k, n>> \in OpToRel(<, Nat))
  BY <1>1, WFMin
<1>3. ASSUME NEW k \in S, k < n PROVE FALSE
  <2>1. <<k, n>> \in Nat \X Nat /\ <<k, n>>[1] < <<k, n>>[2]
    BY <1>3
  <2>2. <<k, n>> \in OpToRel(<, Nat)
    BY <2>1, Zenon DEF OpToRel
  <2> QED BY <1>2, <1>3, <2>2, Zenon
<1>4. \A k \in S : n <= k
  BY <1>3
<1> QED BY <1>4

\* FlattenSeq of a sequence of sequences over S is a sequence over S.
LEMMA FlattenIsASeq ==
  ASSUME NEW S, NEW ss \in Seq(Seq(S))
  PROVE  FlattenSeq(ss) \in Seq(S)
<1> DEFINE N == Len(ss)
           Body(g, i) == IF i = 1 THEN ss[i] ELSE g[i - 1] \o ss[i]
           Unfolds(n) == \E g : g = [i \in 1..n |-> Body(g, i)]
           flat[i \in 1..Len(ss)] == IF i = 1 THEN ss[i] ELSE flat[i - 1] \o ss[i]
<1>1. N \in Nat
  OBVIOUS
<1>2. Unfolds(N)
  <2>1. SUFFICES ASSUME ~Unfolds(N) PROVE FALSE
    OBVIOUS
  <2> DEFINE C == {n \in Nat : ~Unfolds(n)}
  <2>2. PICK n \in C : \A k \in C : n <= k
    <3>1. C # {} /\ C \in SUBSET Nat
      BY <1>1, <2>1
    <3> HIDE DEF C
    <3> QED BY <3>1, LeastExists
  <2>3. n # 0
    <3> DEFINE g == [i \in 1..0 |-> <<>>]
    <3>1. g = [i \in 1..0 |-> Body(g, i)]
      OBVIOUS
    <3>2. Unfolds(0)
      BY <3>1
    <3> QED BY <2>2, <3>2
  <2>4. Unfolds(n - 1)
    <3> HIDE DEF Unfolds
    <3>1. n \in Nat /\ n - 1 \in Nat /\ ~(n <= n - 1)
      BY <2>2, <2>3
    <3> QED BY <2>2, <3>1
  <2>5. PICK g : g = [i \in 1..(n - 1) |-> Body(g, i)]
    BY <2>4
  <2> DEFINE h == [i \in 1..n |-> IF i = n THEN Body(g, n) ELSE g[i]]
  <2>6. \A i \in 1..n : h[i] = Body(h, i)
    <3>1. TAKE i \in 1..n
    <3>2. CASE i = 1 /\ i # n
      <4>1. 1 \in 1..(n - 1)
        BY <2>2, <3>2
      <4>2. g[1] = ss[1]
        BY <2>5, <4>1
      <4> QED BY <3>2, <4>2
    <3>3. CASE i = 1 /\ i = n
      BY <3>3
    <3>4. CASE i # 1
      <4>1. i - 1 \in 1..(n - 1) /\ i - 1 \in 1..n /\ i - 1 # n
        BY <2>2, <3>4
      <4>2. h[i - 1] = g[i - 1]
        BY <4>1
      <4>3. CASE i = n
        BY <3>4, <4>2, <4>3
      <4>4. CASE i # n
        <5>1. i \in 1..(n - 1)
          BY <2>2, <4>4
        <5>2. h[i] = g[i] /\ g[i] = Body(g, i)
          BY <2>5, <4>4, <5>1
        <5> QED BY <3>4, <4>2, <5>2
      <4> QED BY <4>3, <4>4
    <3> QED BY <3>2, <3>3, <3>4
  <2>7. h = [i \in 1..n |-> Body(h, i)]
    BY <2>6
  <2>8. Unfolds(n)
    BY <2>7
  <2> QED BY <2>2, <2>8
<1>3. flat = [i \in 1..N |-> Body(flat, i)]
  BY <1>2
<1> HIDE DEF flat
<1>4. \A n \in 1..N : flat[n] \in Seq(S)
  <2> DEFINE C == {n \in 1..N : ~(flat[n] \in Seq(S))}
  <2>1. SUFFICES ASSUME C # {} PROVE FALSE
    OBVIOUS
  <2>2. PICK n \in C : \A k \in C : n <= k
    <3>1. C \in SUBSET Nat
      BY <1>1
    <3> HIDE DEF C
    <3> QED BY <2>1, <3>1, LeastExists
  <2>3. ss[n] \in Seq(S) /\ n \in 1..N
    BY <2>2
  <2>4. n # 1
    BY <1>3, <2>2, <2>3
  <2>5. n - 1 \in 1..N /\ ~(n <= n - 1)
    BY <1>1, <2>3, <2>4
  <2>6. flat[n - 1] \in Seq(S)
    BY <2>2, <2>5
  <2>7. flat[n] = flat[n - 1] \o ss[n]
    BY <1>3, <2>3, <2>4
  <2>8. flat[n] \in Seq(S)
    BY <2>3, <2>6, <2>7
  <2> QED BY <2>2, <2>8
<1>5. FlattenSeq(ss) = IF Len(ss) = 0 THEN ss ELSE flat[Len(ss)]
  BY DEF FlattenSeq, flat
<1>6. CASE N = 0
  <2>1. ss = <<>>
    BY <1>6
  <2> QED BY <1>5, <1>6, <2>1
<1>7. CASE N # 0
  BY <1>1, <1>4, <1>5, <1>7
<1> QED BY <1>6, <1>7

(* -------------------------- what is in transit ------------------------- *)

\* Where an event may be, and that only a directory is made or renamed as one:
\* the applier walks what such an event names.
Places == Locs \union {NoLoc}

PlainSet == {e \in [k : {"create", "close_write", "modify", "remove_file", "remove_dir",
                         "created_dir", "overflow", "root_gone"},
                    c : {0}, from : {NoLoc}, loc : Places] :
               e.k = "created_dir" => e.loc \in DirPath}
HalfSet  == [k : {"from", "to", "both"}, c : Nat \ {0}, from : Places, loc : Places]
RawSet   == PlainSet \union HalfSet

ItemSet  == {i \in [t : {"from", "to", "both", "confirmed", "root_gone", "closed", "modified",
                         "removed", "removed_dir", "created_dir", "rescan"},
                    c : Nat, from : Places, to : Places, dir : BOOLEAN] :
               i.t = "created_dir" \/ i.dir => i.to \in DirPath}

EventSet == {e \in [k : {"closed", "modified", "removed", "removed_dir", "created_dir", "rescan",
                         "renamed", "renamed_dir", "moved_in", "removed_unknown"},
                    loc : Places, from : Places] :
               e.k \in {"created_dir", "renamed_dir"} => e.loc \in DirPath}
SlotSet  == [loc : Places, evs : Seq(EventSet)]
WaitSet  == [c : Nat, loc : Places]

\* The pairing and the coalescing table of the reader, and what it sends;
\* the slots are at least `size`.
Gathered(size) ==
  {s \in [wait : Seq(WaitSet), made : SUBSET Nat, gom : Seq(SlotSet),
          urgent : Seq(EventSet), out : Seq(EventSet)] : Len(s.gom) >= size}

LEMMA EventsAre ==
  ASSUME NEW loc \in Places, NEW from \in Places
  PROVE  /\ \A k \in {"closed", "modified", "removed", "removed_dir", "rescan", "moved_in",
                      "removed_unknown"} : Ev(k, loc) \in EventSet
         /\ loc \in DirPath => Ev("created_dir", loc) \in EventSet
         /\ Move("renamed", from, loc) \in EventSet
         /\ NeedsRescan \in EventSet
BY DEF Ev, Move, NeedsRescan, EventSet, Places

LEMMA TypedIs ==
  ASSUME NEW e \in EventSet, e.k \in {"renamed", "moved_in"}, NEW isdir \in BOOLEAN,
         isdir => e.loc \in DirPath
  PROVE  Typed(e, isdir) \in EventSet
BY DEF Typed, EventSet

LEMMA MergedIs ==
  ASSUME NEW evs \in Seq(EventSet), NEW e \in EventSet
  PROVE  Merged(evs, e) \in Seq(EventSet)
<1>1. Merged(evs, e) \in {evs, [evs EXCEPT ![Len(evs)] = e], Append(evs, e)}
  BY DEF Merged
<1>2. [evs EXCEPT ![Len(evs)] = e] \in Seq(EventSet)
  <2>1. CASE Len(evs) = 0
    <3>1. evs \in [1..0 -> EventSet]
      BY <2>1
    <3>2. [evs EXCEPT ![Len(evs)] = e] \in [1..0 -> EventSet]
      BY <3>1
    <3> QED BY <3>2
  <2>2. CASE Len(evs) # 0
    <3>1. Len(evs) \in 1..Len(evs)
      BY <2>2
    <3> QED BY <3>1
  <2> QED BY <2>1, <2>2
<1> QED BY <1>1, <1>2

\* Gom::nhan
LEMMA GatherIs ==
  ASSUME NEW size \in Nat, NEW s \in Gathered(size), NEW e \in EventSet
  PROVE  Gather(s, e) \in Gathered(size)
<1> DEFINE here == {n \in 1..Len(s.gom) : s.gom[n].loc = e.loc}
           n == CHOOSE n \in here : TRUE
           slot == [loc |-> e.loc, evs |-> <<e>>]
           merged == [s.gom EXCEPT ![n].evs = Merged(@, e)]
<1>1. CASE e.k = "rescan"
  <2>1. Gather(s, e) = [s EXCEPT !.urgent = Append(@, e)]
    BY <1>1 DEF Gather
  <2>2. Append(s.urgent, e) \in Seq(EventSet)
    BY DEF Gathered
  <2> QED BY <2>1, <2>2 DEF Gathered
<1>2. CASE e.k # "rescan" /\ here = {}
  <2>1. Gather(s, e) = [s EXCEPT !.gom = Append(@, slot)]
    BY <1>2 DEF Gather
  <2>2. slot \in SlotSet
    BY DEF SlotSet, EventSet
  <2> HIDE DEF slot
  <2>3. Append(s.gom, slot) \in Seq(SlotSet)
    BY <2>2 DEF Gathered
  <2>4. Len(Append(s.gom, slot)) >= size
    BY DEF Gathered
  <2>5. [s EXCEPT !.gom = Append(@, slot)].gom = Append(s.gom, slot)
    BY DEF Gathered
  <2> QED BY <2>1, <2>3, <2>4, <2>5 DEF Gathered
<1>3. CASE e.k # "rescan" /\ here # {}
  <2>1. Gather(s, e) = [s EXCEPT !.gom[n].evs = Merged(@, e)]
    BY <1>3 DEF Gather
  <2>2. n \in 1..Len(s.gom) /\ s.gom \in Seq(SlotSet)
    BY <1>3 DEF Gathered
  <2> HIDE DEF n, here
  <2>3. s.gom[n] \in SlotSet
    BY <2>2
  <2>4. Merged(s.gom[n].evs, e) \in Seq(EventSet)
    BY <2>3, MergedIs DEF SlotSet
  <2>5. [s.gom[n] EXCEPT !.evs = Merged(@, e)] \in SlotSet
    BY <2>3, <2>4 DEF SlotSet
  <2>6. merged = [s.gom EXCEPT ![n] = [s.gom[n] EXCEPT !.evs = Merged(@, e)]]
    OBVIOUS
  <2>7. merged \in Seq(SlotSet)
    BY <2>2, <2>5, <2>6
  <2>8. Gather(s, e) = [s EXCEPT !.gom = merged]
    BY <2>1
  <2>9. Len(merged) = Len(s.gom) /\ Len(s.gom) >= size
    BY <2>2 DEF Gathered
  <2> HIDE DEF merged
  <2>10. [s EXCEPT !.gom = merged].gom = merged
    BY DEF Gathered
  <2> QED BY <2>7, <2>8, <2>9, <2>10 DEF Gathered
<1> QED BY <1>1, <1>2, <1>3

\* What is left of the halves that wait when some of them go, and what the
\* expired ones become.
LEMMA WithoutIs ==
  ASSUME NEW wait \in Seq(WaitSet), NEW cs
  PROVE  Without(wait, cs) \in Seq(WaitSet)
<1> DEFINE parts == [n \in 1..Len(wait) |-> IF wait[n].c \in cs THEN <<>> ELSE <<wait[n]>>]
<1>1. parts \in Seq(Seq(WaitSet))
  <2>1. \A n \in 1..Len(wait) : parts[n] \in Seq(WaitSet)
    OBVIOUS
  <2> QED BY <2>1
<1> HIDE DEF parts
<1>2. FlattenSeq(parts) \in Seq(WaitSet)
  BY <1>1, FlattenIsASeq
<1> QED BY <1>2 DEF Without, parts

LEMMA ExpiredIs ==
  ASSUME NEW size \in Nat, NEW s \in Gathered(size), NEW old
  PROVE  Expired(s, old) \in Seq(EventSet)
<1> DEFINE parts == [n \in 1..Len(s.wait) |->
             IF s.wait[n].c \in old THEN <<Ev("removed_unknown", s.wait[n].loc)>> ELSE <<>>]
<1>0. s.wait \in Seq(WaitSet)
  BY DEF Gathered
<1>1. parts \in Seq(Seq(EventSet))
  <2>1. ASSUME NEW n \in 1..Len(s.wait) PROVE parts[n] \in Seq(EventSet)
    <3>0. s.wait[n] \in WaitSet
      BY <1>0
    <3>1. s.wait[n].loc \in Places
      BY <3>0 DEF WaitSet
    <3>2. Ev("removed_unknown", s.wait[n].loc) \in EventSet
      BY <3>1, EventsAre
    <3> QED BY <3>2
  <2> HIDE DEF parts
  <2>2. DOMAIN parts = 1..Len(s.wait)
    BY DEF parts
  <2>3. parts = [n \in 1..Len(s.wait) |-> parts[n]]
    BY DEF parts
  <2>4. Len(s.wait) \in Nat
    BY <1>0
  <2> QED BY <2>1, <2>3, <2>4
<1> HIDE DEF parts
<1>2. FlattenSeq(parts) \in Seq(EventSet)
  BY <1>1, FlattenIsASeq
<1> QED BY <1>2 DEF Expired, parts

LEMMA EventsOfIs ==
  ASSUME NEW slots \in Seq(SlotSet) PROVE EventsOf(slots) \in Seq(EventSet)
<1> DEFINE parts == [k \in 1..Len(slots) |-> slots[k].evs]
<1>1. parts \in Seq(Seq(EventSet))
  <2>1. ASSUME NEW k \in 1..Len(slots) PROVE slots[k].evs \in Seq(EventSet)
    <3>1. slots[k] \in SlotSet
      OBVIOUS
    <3> QED BY <3>1 DEF SlotSet
  <2> QED BY <2>1
<1> HIDE DEF parts
<1>2. FlattenSeq(parts) \in Seq(EventSet)
  BY <1>1, FlattenIsASeq
<1> QED BY <1>2 DEF EventsOf, parts

(* -------------------------- an item is taken --------------------------- *)

LEMMA HalfIs ==
  ASSUME NEW size \in Nat, NEW s \in Gathered(size), NEW c, WaitsFor(s, c)
  PROVE  HalfOf(s, c) \in Places
<1>1. \E n \in 1..Len(s.wait) : s.wait[n].c = c
  BY DEF WaitsFor
<1>2. PICK n \in 1..Len(s.wait) : HalfOf(s, c) = s.wait[n].loc
  BY <1>1, Zenon DEF HalfOf
<1>3. s.wait[n] \in WaitSet
  BY <1>2 DEF Gathered
<1> QED BY <1>2, <1>3 DEF WaitSet

LEMMA DroppedIs ==
  ASSUME NEW size \in Nat, NEW s \in Gathered(size), NEW c PROVE Dropped(s, c) \in Gathered(size)
<1>1. Without(s.wait, {c}) \in Seq(WaitSet)
  BY WithoutIs DEF Gathered
<1> QED BY <1>1 DEF Dropped, Gathered

LEMMA TakeFromIs ==
  ASSUME NEW size \in Nat, NEW s \in Gathered(size), NEW c \in Nat, NEW loc \in Places
  PROVE  TakeFrom(s, c, loc) \in Gathered(size)
<1>1. Append(s.wait, [c |-> c, loc |-> loc]) \in Seq(WaitSet)
  BY DEF Gathered, WaitSet
<1> QED BY <1>1 DEF TakeFrom, Gathered

LEMMA TakeToIs ==
  ASSUME NEW size \in Nat, NEW s \in Gathered(size), NEW c \in Nat, NEW to \in Places, NEW old,
         NEW isdir \in BOOLEAN, isdir => to \in DirPath
  PROVE  TakeTo(s, c, to, old, isdir) \in Gathered(size)
<1>1. CASE WaitsFor(s, c) /\ c \notin old
  <2> DEFINE d == Dropped(s, c)
             m == [d EXCEPT !.made = @ \union {c}]
             e == Move("renamed", HalfOf(s, c), to)
  <2>1. e \in EventSet /\ e.k = "renamed" /\ e.loc = to
    BY <1>1, HalfIs, EventsAre DEF Move
  <2>2. d \in Gathered(size)
    BY DroppedIs
  <2> HIDE DEF d, e
  <2>3. m \in Gathered(size)
    BY <2>2 DEF Gathered
  <2>4. Typed(e, isdir) \in EventSet
    BY <2>1, TypedIs
  <2> HIDE DEF m
  <2>5. Gather(m, Typed(e, isdir)) \in Gathered(size)
    BY <2>3, <2>4, GatherIs
  <2> QED BY <1>1, <2>5 DEF TakeTo, d, m, e
<1>2. CASE ~(WaitsFor(s, c) /\ c \notin old)
  <2> DEFINE e == Ev("moved_in", to)
  <2>1. e \in EventSet /\ e.k = "moved_in" /\ e.loc = to
    BY EventsAre DEF Ev
  <2> HIDE DEF e
  <2>2. Gather(s, Typed(e, isdir)) \in Gathered(size)
    BY <2>1, TypedIs, GatherIs
  <2>3. TakeTo(s, c, to, old, isdir) = Gather(s, Typed(e, isdir))
    BY <1>2 DEF TakeTo, e
  <2> QED BY <2>2, <2>3
<1> QED BY <1>1, <1>2

\* vong::xu_ly
LEMMA TakeItemIs ==
  ASSUME NEW size \in Nat, NEW s \in Gathered(size), NEW i \in ItemSet, NEW old
  PROVE  TakeItem(s, i, old) \in Gathered(size)
<1>0. /\ i.c \in Nat /\ i.from \in Places /\ i.to \in Places /\ i.dir \in BOOLEAN
      /\ i.t = "created_dir" \/ i.dir => i.to \in DirPath
      /\ i.t \in {"from", "to", "both", "confirmed", "root_gone", "closed", "modified",
                  "removed", "removed_dir", "created_dir", "rescan"}
  BY DEF ItemSet
<1>1. CASE i.t = "from"
  BY <1>0, <1>1, TakeFromIs DEF TakeItem
<1>2. CASE i.t = "to"
  BY <1>0, <1>2, TakeToIs DEF TakeItem
<1>3. CASE i.t = "both"
  <2>1. TakeFrom(s, i.c, i.from) \in Gathered(size)
    BY <1>0, TakeFromIs
  <2>2. TakePair(s, i, old) \in Gathered(size)
    BY <1>0, <2>1, TakeToIs DEF TakePair
  <2> QED BY <1>3, <2>2 DEF TakeItem
<1>4. CASE i.t = "confirmed"
  <2> DEFINE e == Move("renamed", i.from, i.to)
  <2>1. e \in EventSet /\ e.k = "renamed" /\ e.loc = i.to
    BY <1>0, EventsAre DEF Move
  <2>2. Dropped(s, i.c) \in Gathered(size)
    BY DroppedIs
  <2> HIDE DEF e
  <2>3. Gather(Dropped(s, i.c), Typed(e, i.dir)) \in Gathered(size)
    BY <1>0, <2>1, <2>2, TypedIs, GatherIs
  <2>4. TakeConfirmed(s, i) \in Gathered(size)
    BY <2>3 DEF TakeConfirmed, e
  <2> QED BY <1>4, <2>4 DEF TakeItem
<1>5. CASE i.t = "root_gone"
  <2>1. NeedsRescan \in EventSet
    BY <1>0, EventsAre
  <2>2. Append(s.out, NeedsRescan) \in Seq(EventSet)
    BY <2>1 DEF Gathered
  <2>3. TakeItem(s, i, old) = [s EXCEPT !.out = Append(@, NeedsRescan)]
    BY <1>5 DEF TakeItem
  <2> QED BY <2>2, <2>3 DEF Gathered
<1>6. CASE i.t \in {"closed", "modified", "removed", "removed_dir", "created_dir", "rescan"}
  <2>1. Ev(i.t, i.to) \in EventSet
    BY <1>0, <1>6, EventsAre
  <2>2. TakeItem(s, i, old) = Gather(s, Ev(i.t, i.to))
    BY <1>6 DEF TakeItem
  <2> QED BY <2>1, <2>2, GatherIs
<1> QED BY <1>0, <1>1, <1>2, <1>3, <1>4, <1>5, <1>6

(* ---------------------------- a batch is read -------------------------- *)

\* The greatest place of a part of a list that has the last one.
LEMMA LastIsMax ==
  ASSUME NEW n \in Nat, NEW s \in SUBSET (1..n), n \in s
  PROVE  Max(s) = n
<1>1. \E x \in s : \A y \in s : x >= y
  OBVIOUS
<1>2. Max(s) \in s /\ \A y \in s : Max(s) >= y
  BY <1>1, Zenon DEF Max
<1>3. \A m \in s : m >= n => m = n
  OBVIOUS
<1> QED BY <1>2, <1>3

\* A batch is taken item by item.
LEMMA TakenIs ==
  ASSUME NEW size \in Nat, NEW base \in Gathered(size), NEW items \in Seq(ItemSet), NEW old
  PROVE  TakeAll(base, items, old) \in Gathered(size)
<1> DEFINE N == Len(items)
           Body(g, s) == IF s = {} THEN base
                         ELSE TakeItem(g[s \ {Max(s)}], items[Max(s)], old)
           Unfolds(n) == \E g : g = [s \in SUBSET (1..n) |-> Body(g, s)]
           taken == CHOOSE g : g = [s \in SUBSET (DOMAIN items) |-> Body(g, s)]
<1>1. N \in Nat /\ DOMAIN items = 1..N
  OBVIOUS
<1>2. Unfolds(N)
  <2>1. SUFFICES ASSUME ~Unfolds(N) PROVE FALSE
    OBVIOUS
  <2> DEFINE C == {n \in Nat : ~Unfolds(n)}
  <2>2. PICK n \in C : \A k \in C : n <= k
    <3>1. C # {} /\ C \in SUBSET Nat
      BY <1>1, <2>1
    <3> HIDE DEF C
    <3> QED BY <3>1, LeastExists
  <2>3. n # 0
    <3> DEFINE g == [s \in SUBSET (1..0) |-> base]
    <3>1. \A s \in SUBSET (1..0) : s = {}
      OBVIOUS
    <3>2. g = [s \in SUBSET (1..0) |-> Body(g, s)]
      BY <3>1
    <3>3. Unfolds(0)
      BY <3>2
    <3> QED BY <2>2, <3>3
  <2>4. n \in Nat /\ n - 1 \in Nat
    BY <2>2, <2>3
  <2>5. Unfolds(n - 1)
    <3> HIDE DEF Unfolds
    <3>1. ~(n <= n - 1)
      BY <2>4
    <3> QED BY <2>2, <2>4, <3>1
  <2>6. PICK g : g = [s \in SUBSET (1..(n - 1)) |-> Body(g, s)]
    BY <2>5
  <2> DEFINE h == [s \in SUBSET (1..n) |-> IF n \in s THEN TakeItem(g[s \ {n}], items[n], old)
                                           ELSE g[s]]
  <2>7. ASSUME NEW s \in SUBSET (1..n) PROVE h[s] = Body(h, s)
    <3>1. CASE n \in s
      <4>1. Max(s) = n
        BY <2>4, <3>1, LastIsMax
      <4>2. s \ {n} \in SUBSET (1..n) /\ n \notin s \ {n} /\ s # {}
        BY <3>1
      <4>3. h[s \ {n}] = g[s \ {n}]
        BY <4>2
      <4>4. h[s] = TakeItem(g[s \ {n}], items[n], old)
        BY <3>1
      <4> HIDE DEF h
      <4> QED BY <4>1, <4>2, <4>3, <4>4
    <3>2. CASE n \notin s
      <4>1. s \in SUBSET (1..(n - 1))
        BY <2>4, <3>2
      <4>2. h[s] = g[s]
        BY <3>2
      <4>3. g[s] = Body(g, s)
        BY <2>6, <4>1, Zenon
      <4>4. s \ {Max(s)} \in SUBSET (1..n) /\ n \notin s \ {Max(s)}
        BY <3>2
      <4>5. h[s \ {Max(s)}] = g[s \ {Max(s)}]
        BY <4>4
      <4> HIDE DEF h
      <4> QED BY <4>2, <4>3, <4>5
    <3> QED BY <3>1, <3>2
  <2>8. h = [s \in SUBSET (1..n) |-> Body(h, s)]
    <3>1. \A s \in SUBSET (1..n) : h[s] = Body(h, s)
      BY <2>7
    <3>2. h = [s \in SUBSET (1..n) |-> h[s]]
      OBVIOUS
    <3> HIDE DEF h
    <3> QED BY <3>1, <3>2, Zenon
  <2>9. Unfolds(n)
    BY <2>8
  <2> QED BY <2>2, <2>9
<1>3. taken = [s \in SUBSET (1..N) |-> Body(taken, s)]
  BY <1>1, <1>2
<1>4. TakeAll(base, items, old) = taken[DOMAIN items]
  BY DEF TakeAll, FoldLeft, MapThenFoldSet
<1> HIDE DEF taken
<1>5. \A n \in 0..N : taken[1..n] \in Gathered(size)
  <2> DEFINE C == {n \in 0..N : ~(taken[1..n] \in Gathered(size))}
  <2>1. SUFFICES ASSUME C # {} PROVE FALSE
    OBVIOUS
  <2>2. PICK n \in C : \A k \in C : n <= k
    <3>1. C \in SUBSET Nat
      BY <1>1
    <3> HIDE DEF C
    <3> QED BY <2>1, <3>1, LeastExists
  <2>3. n \in Nat /\ n \in 0..N /\ 1..n \in SUBSET (1..N)
    BY <1>1, <2>2
  <2>4. taken[1..n] = Body(taken, 1..n)
    BY <1>3, <2>3, Zenon
  <2>5. n # 0
    <3>1. SUFFICES ASSUME n = 0 PROVE FALSE
      OBVIOUS
    <3>2. 1..n = {}
      BY <3>1
    <3>3. taken[1..n] = base
      BY <2>4, <3>2
    <3> QED BY <2>2, <3>3
  <2>6. n - 1 \in 0..N /\ ~(n <= n - 1) /\ n \in 1..N /\ n \in 1..n /\ (1..n) \ {n} = 1..(n - 1)
    BY <1>1, <2>3, <2>5
  <2>7. taken[1..(n - 1)] \in Gathered(size)
    BY <2>2, <2>6
  <2>8. Max(1..n) = n /\ 1..n # {}
    BY <2>3, <2>6, LastIsMax
  <2>9. items[n] \in ItemSet
    BY <2>6
  <2>10. TakeItem(taken[1..(n - 1)], items[n], old) \in Gathered(size)
    BY <2>7, <2>9, TakeItemIs
  <2>11. taken[1..n] = TakeItem(taken[1..(n - 1)], items[n], old)
    BY <2>4, <2>6, <2>8
  <2> QED BY <2>2, <2>10, <2>11
<1>6. taken[DOMAIN items] \in Gathered(size)
  BY <1>1, <1>5
<1> QED BY <1>4, <1>6, Zenon

\* What is known of a rename from a batch, and what its items are.
LEMMA HalvesAre ==
  ASSUME NEW batch \in Seq(RawSet), NEW c
  PROVE  FromOf(batch, c) \in Places /\ ToOf(batch, c) \in Places
<1>1. \A n \in 1..Len(batch) : batch[n].from \in Places /\ batch[n].loc \in Places
  <2>1. TAKE n \in 1..Len(batch)
  <2>2. batch[n] \in RawSet
    OBVIOUS
  <2> QED BY <2>2 DEF RawSet, PlainSet, HalfSet, Places
<1>2. NoLoc \in Places
  BY DEF Places
<1>3. HalvesOf(batch, c) \subseteq 1..Len(batch)
  BY DEF HalvesOf
<1>4. FromOf(batch, c) \in Places
  <2> DEFINE S == {n \in HalvesOf(batch, c) : batch[n].from # NoLoc}
  <2>1. S # {} => (CHOOSE n \in S : TRUE) \in 1..Len(batch)
    BY <1>3
  <2>2. FromOf(batch, c) = IF S = {} THEN NoLoc ELSE batch[CHOOSE n \in S : TRUE].from
    BY DEF FromOf
  <2> HIDE DEF S
  <2> QED BY <1>1, <1>2, <2>1, <2>2
<1>5. ToOf(batch, c) \in Places
  <2> DEFINE S == {n \in HalvesOf(batch, c) : batch[n].loc # NoLoc}
  <2>1. S # {} => (CHOOSE n \in S : TRUE) \in 1..Len(batch)
    BY <1>3
  <2>2. ToOf(batch, c) = IF S = {} THEN NoLoc ELSE batch[CHOOSE n \in S : TRUE].loc
    BY DEF ToOf
  <2> HIDE DEF S
  <2> QED BY <1>1, <1>2, <2>1, <2>2
<1> QED BY <1>4, <1>5

LEMMA PlainItemIs ==
  ASSUME NEW e \in PlainSet PROVE PlainItem(e) \in ItemSet
<1>0. NoLoc \in Places /\ e.loc \in Places /\ (e.k = "created_dir" => e.loc \in DirPath)
  BY DEF PlainSet, Places
<1>1. ASSUME NEW t \in {"closed", "modified", "removed", "removed_dir", "rescan", "root_gone"},
             NEW loc \in Places
      PROVE  Ready(t, loc) \in ItemSet
  BY <1>0, <1>1 DEF Ready, Item, ItemSet, IsDir
<1>2. e.loc \in DirPath => Ready("created_dir", e.loc) \in ItemSet
  BY <1>0 DEF Ready, Item, ItemSet, IsDir
<1>3. \/ PlainItem(e) = Ready("closed", e.loc) \/ PlainItem(e) = Ready("modified", e.loc)
      \/ PlainItem(e) = Ready("removed", e.loc) \/ PlainItem(e) = Ready("removed_dir", e.loc)
      \/ PlainItem(e) = Ready("created_dir", e.loc) /\ e.k = "created_dir"
      \/ PlainItem(e) = Ready("rescan", NoLoc) \/ PlainItem(e) = Ready("root_gone", NoLoc)
  BY DEF PlainItem, PlainSet
<1> QED BY <1>0, <1>1, <1>2, <1>3

LEMMA RenameItemIs ==
  ASSUME NEW batch \in Seq(RawSet), NEW n \in 1..Len(batch), batch[n].c \in Nat
  PROVE  RenameItem(batch, n) \in Seq(ItemSet)
<1> DEFINE c == batch[n].c
           from == FromOf(batch, c)
           to == ToOf(batch, c)
<1>1. from \in Places /\ to \in Places
  BY HalvesAre
<1>2. ASSUME NEW t \in {"from", "to", "both", "confirmed"} PROVE Item(t, c, from, to) \in ItemSet
  <2> HIDE DEF from, to
  <2> QED BY <1>1, <1>2 DEF Item, ItemSet, IsDir
<1> DEFINE kind == CASE to = NoLoc   -> "from"
                     [] from = NoLoc -> "to"
                     [] OTHER -> IF \A m \in HalvesOf(batch, c) : batch[m].k = "both"
                                 THEN "confirmed" ELSE "both"
<1>3. kind \in {"from", "to", "both", "confirmed"}
  <2> HIDE DEF from, to
  <2> QED OBVIOUS
<1>4. RenameItem(batch, n) = IF \E m \in HalvesOf(batch, c) : m > n THEN <<>>
                             ELSE <<Item(kind, c, from, to)>>
  BY DEF RenameItem
<1> HIDE DEF kind, from, to
<1>5. Item(kind, c, from, to) \in ItemSet
  BY <1>2, <1>3
<1> QED BY <1>4, <1>5

\* dich_lo
LEMMA TranslateIs ==
  ASSUME NEW batch \in Seq(RawSet) PROVE Translate(batch) \in Seq(ItemSet)
<1> DEFINE parts == [n \in 1..Len(batch) |->
             IF batch[n].c = 0 THEN <<PlainItem(batch[n])>> ELSE RenameItem(batch, n)]
<1>1. ASSUME NEW n \in 1..Len(batch) PROVE parts[n] \in Seq(ItemSet)
  <2>1. batch[n] \in RawSet
    OBVIOUS
  <2>2. CASE batch[n].c = 0
    <3>1. batch[n] \in PlainSet
      BY <2>1, <2>2 DEF RawSet, HalfSet
    <3>2. PlainItem(batch[n]) \in ItemSet
      BY <3>1, PlainItemIs
    <3> QED BY <2>2, <3>2
  <2>3. CASE batch[n].c # 0
    <3>1. batch[n].c \in Nat
      BY <2>1 DEF RawSet, HalfSet, PlainSet
    <3>2. RenameItem(batch, n) \in Seq(ItemSet)
      BY <3>1, RenameItemIs
    <3> QED BY <2>3, <3>2
  <2> QED BY <2>2, <2>3
<1>2. parts = [n \in 1..Len(batch) |-> parts[n]] /\ Len(batch) \in Nat
  OBVIOUS
<1>3. Translate(batch) = FlattenSeq(parts)
  BY DEF Translate
<1> HIDE DEF parts
<1>4. parts \in Seq(Seq(ItemSet))
  BY <1>1, <1>2
<1> QED BY <1>3, <1>4, FlattenIsASeq

(* -------------------------- the inductive invariant -------------------- *)

LiveStates == {"settling", "sized", "done"}
RowOK(r) == /\ DOMAIN r = {"st", "prev", "path", "fp"}
            /\ r.st \in LiveStates \union {"absent", "missing"}
            /\ r.st = "missing" => r.prev \in LiveStates
RowsOK(rs) == DOMAIN rs = Inodes /\ \A i \in Inodes : RowOK(rs[i])

DiskInv    == /\ at \in [Paths -> Inodes \union {Nothing}] /\ ver \in [Inodes -> Nat]
              /\ left \in Nat /\ raw \in Seq(RawSet)
ReaderInv  == /\ ghep.wait \in Seq(WaitSet) /\ ghep.made \in SUBSET Nat
              /\ gom \in Seq(SlotSet) /\ chan \in Seq(EventSet)
RetrySet   == [ev : EventSet, tries : Nat]
ApInv      == /\ ap.ev \in EventSet /\ ap.tries \in Nat
              /\ ap.seen.k = "dir" => ap.loc \in DirPath
TableInv   == walks \subseteq Dirs /\ rescan \in BOOLEAN /\ RowsOK(rows)
ApplierInv == retry \in Seq(RetrySet) /\ ApInv /\ TableInv
WatchInv   == DiskInv /\ ReaderInv /\ ApplierInv

\* The state of the reader after a batch, and after a flush.
LEMMA TakenTyped ==
  ASSUME DiskInv, ReaderInv, NEW n \in 0..Len(raw), NEW old
  PROVE  Taken(n, old) \in Gathered(Len(gom))
<1> DEFINE base == [wait |-> ghep.wait, made |-> ghep.made, gom |-> gom, urgent |-> <<>>,
                    out |-> IF n = BatchMax THEN Append(chan, NeedsRescan) ELSE chan]
<1>0. Len(gom) \in Nat
  BY DEF ReaderInv
<1>1. base \in Gathered(Len(gom))
  <2>1. NeedsRescan \in EventSet
    BY EventsAre DEF Places
  <2>2. (IF n = BatchMax THEN Append(chan, NeedsRescan) ELSE chan) \in Seq(EventSet)
    BY <2>1 DEF ReaderInv
  <2> QED BY <1>0, <2>2 DEF ReaderInv, Gathered
<1>2. Batch(n) \in Seq(RawSet)
  BY DEF Batch, DiskInv
<1>3. Translate(Batch(n)) \in Seq(ItemSet)
  BY <1>2, TranslateIs
<1> HIDE DEF base
<1>4. TakeAll(base, Translate(Batch(n)), old) \in Gathered(Len(gom))
  BY <1>0, <1>1, <1>3, TakenIs
<1> QED BY <1>4 DEF Taken, base

LEMMA FlushedTyped ==
  ASSUME NEW s \in Gathered(0), NEW due \in 0..Len(s.gom), NEW old
  PROVE  Flushed(s, due, old) \in Gathered(0)
<1> DEFINE sent == s.out \o s.urgent \o EventsOf(SubSeq(s.gom, 1, due)) \o Expired(s, old)
           later == SubSeq(s.gom, due + 1, Len(s.gom))
           wait == Without(s.wait, old)
           made == {c \in s.made : \E m \in 1..Len(raw) : raw[m].c = c}
<1>0. /\ s.out \in Seq(EventSet) /\ s.urgent \in Seq(EventSet) /\ s.gom \in Seq(SlotSet)
      /\ s.wait \in Seq(WaitSet) /\ s.made \in SUBSET Nat
  BY DEF Gathered
<1>1. sent \in Seq(EventSet)
  <2>1. SubSeq(s.gom, 1, due) \in Seq(SlotSet)
    BY <1>0
  <2>2. EventsOf(SubSeq(s.gom, 1, due)) \in Seq(EventSet) /\ Expired(s, old) \in Seq(EventSet)
    BY <2>1, EventsOfIs, ExpiredIs
  <2> QED BY <1>0, <2>2
<1>2. later \in Seq(SlotSet)
  BY <1>0
<1>3. wait \in Seq(WaitSet)
  BY <1>0, WithoutIs
<1>4. made \in SUBSET Nat
  BY <1>0
<1>5. Flushed(s, due, old)
        = [s EXCEPT !.out = sent, !.gom = later, !.wait = wait, !.made = made]
  BY DEF Flushed
<1> HIDE DEF sent, later, wait, made
<1>6. [s EXCEPT !.out = sent, !.gom = later, !.wait = wait, !.made = made]
        \in [wait : Seq(WaitSet), made : SUBSET Nat, gom : Seq(SlotSet),
             urgent : Seq(EventSet), out : Seq(EventSet)]
  BY <1>1, <1>2, <1>3, <1>4 DEF Gathered
<1>7. Flushed(s, due, old).gom \in Seq(SlotSet)
  BY <1>5, <1>6
<1> QED BY <1>5, <1>6, <1>7 DEF Gathered

\* What the reader stores is typed; it touches nothing of the disk or the table.
LEMMA StoreKeeps ==
  ASSUME WatchInv, NEW s \in Gathered(0), NEW n \in 0..Len(raw), Store(s, n)
  PROVE  WatchInv'
<1>1. raw' = SubSeq(raw, n + 1, Len(raw)) /\ raw \in Seq(RawSet)
  BY DEF Store, WatchInv, DiskInv
<1>2. raw' \in Seq(RawSet)
  BY <1>1
<1>3. /\ ghep'.wait = s.wait /\ ghep'.made = s.made /\ gom' = s.gom /\ chan' = s.out
      /\ UNCHANGED <<disk, applier, walks, rows>>
  BY DEF Store
<1>4. ReaderInv'
  BY <1>3 DEF ReaderInv, Gathered
<1>5. DiskInv'
  BY <1>2, <1>3 DEF WatchInv, DiskInv, disk
<1>6. ApplierInv'
  BY <1>3 DEF WatchInv, ApplierInv, ApInv, TableInv, applier
<1> QED BY <1>4, <1>5, <1>6 DEF WatchInv

LEMMA ReaderKeeps == ASSUME WatchInv, Reader PROVE WatchInv'
<1>0. DiskInv /\ ReaderInv
  BY DEF WatchInv
<1>1. ASSUME NEW n \in 0..Len(raw), NEW old PROVE Taken(n, old) \in Gathered(Len(gom))
  BY <1>0, TakenTyped
<1>2. Len(gom) \in Nat
  BY <1>0 DEF ReaderInv
<1>3. ASSUME NEW s \in Gathered(Len(gom))
      PROVE  s \in Gathered(0) /\ Len(gom) <= Len(s.gom) /\ Len(s.gom) \in Nat
  BY <1>2 DEF Gathered
<1>4. PICK n \in 0..Len(raw), h \in Overdue :
        \/ \E flush \in BOOLEAN, due \in 0..Len(gom) : Turn(n, flush, due, h)
        \/ LastTurn(n, h)
  BY Zenon DEF Reader
<1> DEFINE old == {ghep.wait[k].c : k \in 1..h}
           s == Taken(n, old)
<1>5. s \in Gathered(0) /\ Len(gom) <= Len(s.gom) /\ Len(s.gom) \in Nat
  BY <1>1, <1>3
<1>6. CASE LastTurn(n, h)
  <2>1. Store(Flushed(s, Len(s.gom), old), n)
    BY <1>6, Zenon DEF LastTurn
  <2> HIDE DEF s, old
  <2>2. Flushed(s, Len(s.gom), old) \in Gathered(0)
    BY <1>5, FlushedTyped
  <2> QED BY <2>1, <2>2, StoreKeeps
<1>7. ASSUME NEW flush \in BOOLEAN, NEW due \in 0..Len(gom), Turn(n, flush, due, h)
      PROVE  WatchInv'
  <2>1. Store(IF flush THEN Flushed(s, due, old) ELSE s, n)
    BY <1>7, Zenon DEF Turn
  <2> HIDE DEF s, old
  <2>2. due \in 0..Len(s.gom)
    BY <1>2, <1>5
  <2>3. (IF flush THEN Flushed(s, due, old) ELSE s) \in Gathered(0)
    BY <1>5, <2>2, FlushedTyped
  <2> QED BY <2>1, <2>3, StoreKeeps
<1> QED BY <1>4, <1>6, <1>7, Zenon

(* ------------------------- the users write ---------------------------- *)

\* The files of a directory, listed: rm -r tells of each of them.
LEMMA FilesListed ==
  ASSUME NEW d, NEW files \in SUBSET Under(<<d>>)
  PROVE  SetToSeq(files) \in Seq(Paths)
<1>1. files \subseteq Paths /\ \A p \in files : p[1] = d
  BY DEF Under, InDir
<1> DEFINE name == [p \in files |-> p[2]]
<1>2. \A p, q \in files : p[2] = q[2] => p = q
  BY <1>1 DEF Paths
<1>3. name \in Injection(files, Names)
  <2>1. name \in [files -> Names]
    BY <1>1 DEF Paths
  <2>2. \A p, q \in files : name[p] = name[q] => p = q
    BY <1>2
  <2> HIDE DEF name
  <2> QED BY <2>1, <2>2 DEF Injection, IsInjective
<1>4. IsFiniteSet(files)
  BY <1>3, FS_Injection, QueueAssumption
<1>5. Cardinality(files) \in Nat /\ ExistsBijection(1..Cardinality(files), files)
  BY <1>4, FS_CardinalityType
<1>6. \E f \in [1..Cardinality(files) -> files] : IsInjective(f)
  BY <1>5 DEF ExistsBijection, Bijection, Injection
<1>7. SetToSeq(files) \in [1..Cardinality(files) -> files]
  BY <1>6, Zenon DEF SetToSeq
<1>8. SetToSeq(files) \in Seq(files)
  BY <1>5, <1>7
<1> QED BY <1>1, <1>8

LEMMA EmitTyped ==
  ASSUME raw \in Seq(RawSet), NEW evs \in Seq(RawSet), NEW d, Emit(evs) \/ Tell(d, evs)
  PROVE  raw' \in Seq(RawSet)
<1>1. \A k \in {"overflow", "root_gone"} : Raw(k, NoLoc) \in RawSet
  BY DEF Raw, RawSet, PlainSet, Places
<1>2. Emit(evs) => raw' \in Seq(RawSet)
  <2>1. Raw("overflow", NoLoc) \in RawSet /\ Raw("root_gone", NoLoc) \in RawSet
    BY <1>1
  <2>2. raw \o evs \in Seq(RawSet)
    OBVIOUS
  <2>3. /\ Append(raw, Raw("overflow", NoLoc)) \in Seq(RawSet)
        /\ Append(raw, Raw("root_gone", NoLoc)) \in Seq(RawSet)
    BY <2>1
  <2> QED BY <2>2, <2>3 DEF Emit
<1>3. Tell(d, evs) => raw' \in Seq(RawSet)
  BY <1>2 DEF Tell
<1> QED BY <1>2, <1>3

LEMMA RawsAre ==
  ASSUME NEW p \in Places, NEW q \in Places, left \in Nat \ {0}
  PROVE  /\ \A k \in {"create", "close_write", "modify", "remove_file", "remove_dir"} :
              Raw(k, p) \in RawSet
         /\ p \in DirPath => Raw("created_dir", p) \in RawSet
         /\ \A k \in {"from", "to", "both"} : Half(k, left, p, q) \in RawSet
         /\ Pair(p, q) \in Seq(RawSet)
<1>1. NoLoc \in Places
  BY DEF Places
<1>2. \A k \in {"create", "close_write", "modify", "remove_file", "remove_dir"} : Raw(k, p) \in RawSet
  BY <1>1 DEF Raw, RawSet, PlainSet
<1>3. p \in DirPath => Raw("created_dir", p) \in RawSet
  BY <1>1 DEF Raw, RawSet, PlainSet
<1>4. ASSUME NEW k \in {"from", "to", "both"}, NEW x \in Places, NEW y \in Places
      PROVE  Half(k, left, x, y) \in RawSet
  BY DEF Half, RawSet, HalfSet
<1>5. Pair(p, q) \in Seq(RawSet)
  BY <1>1, <1>4 DEF Pair
<1> QED BY <1>2, <1>3, <1>4, <1>5

\* Whatever the users do, the disk and the queue of the kernel keep their types.
LEMMA UserTyped == ASSUME DiskInv, User PROVE DiskInv'
<1>0. /\ at \in [Paths -> Inodes \union {Nothing}] /\ ver \in [Inodes -> Nat]
      /\ left \in Nat /\ raw \in Seq(RawSet)
      /\ Nothing \notin Inodes
  BY PathAssumption DEF DiskInv
<1>1. NoLoc \in Places /\ Paths \subseteq Places /\ \A d \in Dirs : <<d, Nothing>> \in DirPath \cap Places
  BY DEF Places, Locs, DirPath
<1>2. ASSUME NEW op, Act(op) PROVE left \in Nat \ {0} /\ left' \in Nat
  BY <1>0, <1>2 DEF Act
<1>3. \A v \in Nat : Max({v, 1}) \in Nat
  <2>1. TAKE v \in Nat
  <2>2. \E x \in {v, 1} : \A y \in {v, 1} : x >= y
    OBVIOUS
  <2>3. Max({v, 1}) \in {v, 1}
    BY <2>2, Zenon DEF Max
  <2> QED BY <2>3
<1>4. ASSUME NEW p \in Paths, NEW i \in Inodes, Create(p, i) PROVE DiskInv'
  <2>1. <<Raw("create", p), Raw("close_write", p)>> \in Seq(RawSet) /\ left' \in Nat
    BY <1>1, <1>2, <1>4, RawsAre DEF Create
  <2>2. raw' \in Seq(RawSet)
    BY <1>0, <1>4, <2>1, EmitTyped DEF Create
  <2>3. at' = [at EXCEPT ![p] = i] /\ ver' = [ver EXCEPT ![i] = @ + 1]
    BY <1>4 DEF Create
  <2> QED BY <1>0, <2>1, <2>2, <2>3 DEF DiskInv
<1>5. ASSUME NEW p \in Paths, NEW i \in Inodes, MoveIn(p, i) PROVE DiskInv'
  <2>1. <<Half("to", left, NoLoc, p)>> \in Seq(RawSet) /\ left' \in Nat
    BY <1>1, <1>2, <1>5, RawsAre DEF MoveIn
  <2>2. raw' \in Seq(RawSet)
    BY <1>0, <1>5, <2>1, EmitTyped DEF MoveIn
  <2>3. at' = [at EXCEPT ![p] = i] /\ ver' = [ver EXCEPT ![i] = Max({@, 1})]
    BY <1>5 DEF MoveIn
  <2>4. ver' \in [Inodes -> Nat]
    BY <1>0, <1>3, <2>3
  <2> QED BY <1>0, <2>1, <2>2, <2>3, <2>4 DEF DiskInv
<1>6. ASSUME NEW p \in Paths, Write(p) PROVE DiskInv'
  <2>1. <<Raw("modify", p), Raw("close_write", p)>> \in Seq(RawSet) /\ left' \in Nat
    BY <1>1, <1>2, <1>6, RawsAre DEF Write
  <2>2. raw' \in Seq(RawSet)
    BY <1>0, <1>6, <2>1, EmitTyped DEF Write
  <2>3. at' = at /\ ver' = [ver EXCEPT ![at[p]] = @ + 1] /\ at[p] \in Inodes
    BY <1>0, <1>6 DEF Write
  <2>4. ver' \in [Inodes -> Nat]
    BY <1>0, <2>3
  <2> QED BY <1>0, <2>1, <2>2, <2>3, <2>4 DEF DiskInv
<1>7. ASSUME NEW p \in Paths, Delete(p) PROVE DiskInv'
  <2>1. <<Raw("remove_file", p)>> \in Seq(RawSet) /\ left' \in Nat
    BY <1>1, <1>2, <1>7, RawsAre DEF Delete
  <2>2. raw' \in Seq(RawSet)
    BY <1>0, <1>7, <2>1, EmitTyped DEF Delete
  <2>3. at' = [at EXCEPT ![p] = Nothing] /\ ver' = ver
    BY <1>7 DEF Delete
  <2> QED BY <1>0, <2>1, <2>2, <2>3 DEF DiskInv
<1>8. ASSUME NEW p \in Paths, MoveOut(p) PROVE DiskInv'
  <2>1. <<Half("from", left, p, NoLoc)>> \in Seq(RawSet) /\ left' \in Nat
    BY <1>1, <1>2, <1>8, RawsAre DEF MoveOut
  <2>2. raw' \in Seq(RawSet)
    BY <1>0, <1>8, <2>1, EmitTyped DEF MoveOut
  <2>3. at' = [at EXCEPT ![p] = Nothing] /\ ver' = ver
    BY <1>8 DEF MoveOut
  <2> QED BY <1>0, <2>1, <2>2, <2>3 DEF DiskInv
<1>9. ASSUME NEW p \in Paths, NEW q \in Paths, Rename(p, q) PROVE DiskInv'
  <2> DEFINE evs == CASE Watched(InDir(p)) /\ Watched(InDir(q)) -> Pair(p, q)
                      [] Watched(InDir(p)) -> <<Half("from", left, p, NoLoc)>>
                      [] Watched(InDir(q)) -> <<Half("to", left, NoLoc, q)>>
                      [] OTHER             -> <<>>
  <2>0. left \in Nat \ {0} /\ left' \in Nat
    BY <1>2, <1>9 DEF Rename
  <2>1. /\ Pair(p, q) \in Seq(RawSet) /\ <<Half("from", left, p, NoLoc)>> \in Seq(RawSet)
        /\ <<Half("to", left, NoLoc, q)>> \in Seq(RawSet)
    BY <1>1, <2>0, RawsAre
  <2>2. evs \in Seq(RawSet)
    BY <2>1
  <2>3. Emit(evs)
    BY <1>9 DEF Rename
  <2> HIDE DEF evs
  <2>4. raw' \in Seq(RawSet)
    BY <1>0, <2>2, <2>3, EmitTyped
  <2>5. at' = [at EXCEPT ![p] = Nothing, ![q] = at[p]] /\ ver' = ver
    BY <1>9 DEF Rename
  <2>6. at' \in [Paths -> Inodes \union {Nothing}]
    BY <1>0, <2>5
  <2> QED BY <1>0, <2>0, <2>4, <2>5, <2>6 DEF DiskInv
<1>10. ASSUME NEW p \in Paths, NEW q \in Paths, Link(p, q) PROVE DiskInv'
  <2>1. <<Raw("create", q)>> \in Seq(RawSet) /\ left' \in Nat
    BY <1>1, <1>2, <1>10, RawsAre DEF Link
  <2>2. raw' \in Seq(RawSet)
    BY <1>0, <1>10, <2>1, EmitTyped DEF Link
  <2>3. at' = [at EXCEPT ![q] = at[p]] /\ ver' = ver
    BY <1>10 DEF Link
  <2> QED BY <1>0, <2>1, <2>2, <2>3 DEF DiskInv
<1>11. ASSUME NEW d \in Dirs, MakeDir(d) PROVE DiskInv'
  <2>1. <<Raw("created_dir", <<d, Nothing>>)>> \in Seq(RawSet) /\ left' \in Nat
    BY <1>1, <1>2, <1>11, RawsAre DEF MakeDir
  <2>2. raw' \in Seq(RawSet)
    BY <1>0, <1>11, <2>1, EmitTyped DEF MakeDir
  <2>3. at' = at /\ ver' = ver
    BY <1>11 DEF MakeDir
  <2> QED BY <1>0, <2>1, <2>2, <2>3 DEF DiskInv
<1>12. ASSUME NEW d \in Dirs, RemoveDir(d) PROVE DiskInv'
  <2> DEFINE files == SetToSeq({p \in Under(<<d>>) : at[p] # Nothing})
             told == [n \in 1..Len(files) |-> Raw("remove_file", files[n])]
             last == <<Raw("remove_dir", <<d, Nothing>>)>>
  <2>0. left \in Nat \ {0} /\ left' \in Nat
    BY <1>2, <1>12 DEF RemoveDir
  <2>1. files \in Seq(Paths)
    BY FilesListed
  <2>2. Emit(told \o last)
    BY <1>12 DEF RemoveDir
  <2> HIDE DEF files
  <2>3. \A n \in 1..Len(files) : Raw("remove_file", files[n]) \in RawSet
    BY <1>1, <2>0, <2>1, RawsAre
  <2>4. told \in Seq(RawSet) /\ last \in Seq(RawSet)
    BY <1>1, <2>0, <2>1, <2>3, RawsAre
  <2> HIDE DEF told, last
  <2>5. told \o last \in Seq(RawSet)
    BY <2>4
  <2>6. raw' \in Seq(RawSet)
    BY <1>0, <2>2, <2>5, EmitTyped
  <2>7. at' = [p \in Paths |-> IF InDir(p) = d THEN Nothing ELSE at[p]] /\ ver' = ver
    BY <1>12 DEF RemoveDir
  <2> QED BY <1>0, <2>0, <2>6, <2>7 DEF DiskInv
<1>13. ASSUME NEW d \in Dirs, MoveDirOut(d) PROVE DiskInv'
  <2>1. <<Half("from", left, <<d, Nothing>>, NoLoc)>> \in Seq(RawSet) /\ left' \in Nat
    BY <1>1, <1>2, <1>13, RawsAre DEF MoveDirOut
  <2>2. raw' \in Seq(RawSet)
    BY <1>0, <1>13, <2>1, EmitTyped DEF MoveDirOut
  <2>3. at' = [p \in Paths |-> IF InDir(p) = d THEN Nothing ELSE at[p]] /\ ver' = ver
    BY <1>13 DEF MoveDirOut
  <2> QED BY <1>0, <2>1, <2>2, <2>3 DEF DiskInv
<1>14. ASSUME NEW d \in Dirs, NEW e \in Dirs, RenameDir(d, e) PROVE DiskInv'
  <2>1. Pair(<<d, Nothing>>, <<e, Nothing>>) \in Seq(RawSet) /\ left' \in Nat
    BY <1>1, <1>2, <1>14, RawsAre DEF RenameDir
  <2>2. raw' \in Seq(RawSet)
    BY <1>0, <1>14, <2>1, EmitTyped DEF RenameDir
  <2>3. at' = [p \in Paths |-> IF InDir(p) = d THEN Nothing
                                ELSE IF InDir(p) = e THEN at[<<d, p[2]>>] ELSE at[p]] /\ ver' = ver
    BY <1>14 DEF RenameDir
  <2>4. \A p \in Paths : <<d, p[2]>> \in Paths
    BY DEF Paths
  <2>5. at' \in [Paths -> Inodes \union {Nothing}]
    BY <1>0, <2>3, <2>4
  <2> QED BY <1>0, <2>1, <2>2, <2>3, <2>5 DEF DiskInv
<1>15. ASSUME NEW d \in Dirs, NEW n \in Names, NEW i \in Inodes, MoveDirIn(d, n, i) PROVE DiskInv'
  <2>1. <<Half("to", left, NoLoc, <<d, Nothing>>)>> \in Seq(RawSet) /\ left' \in Nat
    BY <1>1, <1>2, <1>15, RawsAre DEF MoveDirIn
  <2>2. raw' \in Seq(RawSet)
    BY <1>0, <1>15, <2>1, EmitTyped DEF MoveDirIn
  <2>3. at' = [at EXCEPT ![<<d, n>>] = i] /\ ver' = [ver EXCEPT ![i] = Max({@, 1})]
    BY <1>15 DEF MoveDirIn
  <2>4. ver' \in [Inodes -> Nat]
    BY <1>0, <1>3, <2>3
  <2>5. at' \in [Paths -> Inodes \union {Nothing}]
    BY <1>0, <2>3
  <2> QED BY <1>0, <2>1, <2>2, <2>4, <2>5 DEF DiskInv
<1> QED BY <1>4, <1>5, <1>6, <1>7, <1>8, <1>9, <1>10, <1>11, <1>12, <1>13, <1>14, <1>15, Zenon DEF User

(* --------------------------- the table's rows -------------------------- *)

\* Whatever is done to the table, a missing row remembers a state it can be
\* given back.
LEMMA MarkingTyped ==
  ASSUME NEW rs, RowsOK(rs), NEW loc
  PROVE  /\ RowsOK(MarkMissing(rs, loc)) /\ RowsOK(MarkMissingPrefix(rs, loc))
         /\ RowsOK(MarkGone(rs, loc))
<1> DEFINE Marked(r) == [r EXCEPT !.st = "missing", !.prev = r.st]
<1>1. ASSUME NEW r, RowOK(r), Live(r) PROVE RowOK(Marked(r))
  BY <1>1 DEF RowOK, Live, LiveStates
<1>2. ASSUME NEW t, RowsOK(t), NEW l
      PROVE  RowsOK(MarkMissing(t, l)) /\ RowsOK(MarkMissingPrefix(t, l))
  <2>1. \A i \in Inodes : RowOK(t[i])
    BY <1>2 DEF RowsOK
  <2>2. MarkMissing(t, l) = [i \in Inodes |-> IF Live(t[i]) /\ t[i].path = l
                                             THEN Marked(t[i]) ELSE t[i]]
    BY DEF MarkMissing, MarkIf
  <2>3. MarkMissingPrefix(t, l) = [i \in Inodes |-> IF Live(t[i]) /\ IsDir(l) /\ t[i].path \in Under(l)
                                                   THEN Marked(t[i]) ELSE t[i]]
    BY DEF MarkMissingPrefix, MarkIf
  <2> HIDE DEF Marked
  <2> QED BY <1>1, <2>1, <2>2, <2>3 DEF RowsOK
<1> QED BY <1>2 DEF MarkGone

LEMMA RenamingTyped ==
  ASSUME NEW rs, RowsOK(rs), NEW i, NEW loc, NEW from
  PROVE  RowsOK(RenamedRow(rs, i, loc)) /\ RowsOK(RenamedPrefix(rs, from, loc))
<1>1. ASSUME NEW r, RowOK(r), NEW p PROVE RowOK([r EXCEPT !.path = p])
  BY <1>1 DEF RowOK
<1>2. RowsOK(RenamedPrefix(rs, from, loc))
  BY <1>1 DEF RenamedPrefix, RowsOK
<1>3. RowsOK(RenamedRow(rs, i, loc))
  <2> DEFINE cleared == [j \in Inodes |-> IF j = i THEN rs[j] ELSE MarkMissing(rs, loc)[j]]
  <2>1. RowsOK(cleared)
    BY MarkingTyped DEF RowsOK
  <2>2. RenamedRow(rs, i, loc) = [cleared EXCEPT ![i].path = loc]
    BY DEF RenamedRow
  <2> HIDE DEF cleared
  <2> QED BY <1>1, <2>1, <2>2 DEF RowsOK
<1> QED BY <1>2, <1>3

LEMMA ClearingTyped ==
  ASSUME NEW rs, RowsOK(rs), NEW i, NEW loc
  PROVE  RowsOK(PathCleared(rs, i, loc))
<1>1. PathCleared(rs, i, loc) \in {rs, RenamedRow(rs, i, loc), MarkMissing(rs, loc)}
  BY DEF PathCleared
<1> QED BY <1>1, MarkingTyped, RenamingTyped

\* A row that was missing is given back the state it was lost in.
LEMMA StoringTyped ==
  ASSUME NEW rs, RowsOK(rs), NEW i, NEW v, NEW loc
  PROVE  RowsOK(Stored(rs, i, v, loc)) /\ RowsOK(Restored(rs, i, v))
<1>1. ASSUME NEW l PROVE RowsOK(Stored(rs, i, v, l))
  <2> DEFINE row == [st |-> Fresh(rs[i], v), path |-> l, fp |-> v,
                     prev |-> IF rs[i].st = "missing" THEN "missing" ELSE rs[i].prev]
  <2>1. Stored(rs, i, v, l) = [rs EXCEPT ![i] = row]
    BY DEF Stored
  <2>2. ASSUME i \in Inodes PROVE RowOK(row)
    <3>1. RowOK(rs[i])
      BY <2>2 DEF RowsOK
    <3>2. Fresh(rs[i], v) \in LiveStates
      BY <3>1 DEF RowOK, Fresh, Live, LiveStates
    <3> QED BY <3>2 DEF RowOK, LiveStates
  <2> HIDE DEF row
  <2> QED BY <2>1, <2>2 DEF RowsOK
<1> QED BY <1>1 DEF Restored

(* ----------------------- the applier's steps -------------------------- *)

\* A question of the applier, and the end of an event.
LEMMA LookTyped ==
  ASSUME NEW why, NEW ev \in EventSet, NEW tries \in Nat, NEW loc, NEW id,
         Look(why, ev, tries, loc, id)
  PROVE  ApInv'
<1> DEFINE Asked(error) ==
      [why |-> why, ev |-> ev, tries |-> tries, id |-> id, loc |-> loc,
       seen |-> IF error THEN [k |-> "error"] ELSE StatX(loc)]
<1>1. PICK error \in BOOLEAN : ap' = Asked(error)
  BY DEF Look
<1>2. StatX(loc).k = "dir" => loc \in DirPath
  BY DEF StatX, IsDir
<1>3. ap'.ev = ev /\ ap'.tries = tries /\ ap'.loc = loc
  BY <1>1
<1>4. ap'.seen.k = "dir" => StatX(loc).k = "dir"
  BY <1>1
<1> QED BY <1>2, <1>3, <1>4 DEF ApInv

LEMMA RestTyped == ASSUME Settle PROVE ApInv'
BY EventsAre DEF Settle, ApInv, Rest, NoId, Places

LEMMA WalkToTyped ==
  ASSUME TableInv, NEW d \in DirPath, WalkTo(d) PROVE TableInv'
BY DEF TableInv, WalkTo, InDir, DirPath

LEMMA SetRowsTyped ==
  ASSUME TableInv, NEW rs, RowsOK(rs), SetRows(rs) PROVE TableInv'
BY DEF TableInv, SetRows

LEMMA LeaveTyped == ASSUME TableInv, Leave PROVE TableInv'
BY DEF TableInv, Leave

\* doi_ten_thu_muc: the rows of the tree follow it, or the tree is walked.
LEMMA RenameTreeTyped ==
  ASSUME TableInv, NEW from, NEW to \in DirPath, RenameTree(from, to)
  PROVE  TableInv' /\ ApInv'
<1>1. RowsOK(RenamedPrefix(rows, from, to))
  BY RenamingTyped DEF TableInv
<1>2. SetRows(RenamedPrefix(rows, from, to)) \/ WalkTo(to)
  BY DEF RenameTree
<1>3. TableInv'
  BY <1>1, <1>2, SetRowsTyped, WalkToTyped
<1>4. ApInv'
  BY RestTyped DEF RenameTree
<1> QED BY <1>3, <1>4

LEMMA UpsertTyped ==
  ASSUME TableInv, NEW rs, RowsOK(rs), NEW s, NEW loc, NEW fresh, Upsert(rs, s, loc, fresh)
  PROVE  TableInv'
<1>1. RowsOK(Stored(PathCleared(rs, s.ino, loc), s.ino, s.v, loc))
  BY ClearingTyped, StoringTyped
<1> QED BY <1>1, SetRowsTyped DEF Upsert, TableInv

\* What an event asks, or writes at once.
LEMMA HandleTyped ==
  ASSUME TableInv, NEW e \in EventSet, NEW tries \in Nat, Handle(e, tries)
  PROVE  TableInv' /\ ApInv'
<1> DEFINE Done == TableInv' /\ ApInv'
<1>1. ASSUME NEW why, NEW loc, Ask(why, e, tries, loc) PROVE Done
  BY <1>1, LookTyped, LeaveTyped DEF Ask
<1>2. ASSUME Settle, Leave PROVE Done
  BY <1>2, RestTyped, LeaveTyped
<1>3. ASSUME e.k = "renamed_dir", RenameTree(e.from, e.loc) PROVE Done
  <2>1. e.loc \in DirPath
    BY <1>3 DEF EventSet
  <2> QED BY <1>3, <2>1, RenameTreeTyped
<1>4. ASSUME Settle, SetRows(MarkMissing(rows, e.loc)) \/ SetRows(MarkMissingPrefix(rows, e.loc))
      PROVE  Done
  <2>1. RowsOK(MarkMissing(rows, e.loc)) /\ RowsOK(MarkMissingPrefix(rows, e.loc))
    BY MarkingTyped DEF TableInv
  <2> QED BY <1>4, <2>1, RestTyped, SetRowsTyped
<1>5. ASSUME e.k = "created_dir", WalkTo(e.loc), Settle PROVE Done
  <2>1. e.loc \in DirPath
    BY <1>5 DEF EventSet
  <2> QED BY <1>5, <2>1, RestTyped, WalkToTyped
<1>6. ASSUME rescan' = TRUE, UNCHANGED <<rows, walks, counted>>, Settle PROVE Done
  BY <1>6, RestTyped DEF TableInv
<1>7. \/ Settle /\ Leave
      \/ \E why, loc : Ask(why, e, tries, loc)
      \/ e.k = "renamed_dir" /\ RenameTree(e.from, e.loc)
      \/ Settle /\ (SetRows(MarkMissing(rows, e.loc)) \/ SetRows(MarkMissingPrefix(rows, e.loc)))
      \/ e.k = "created_dir" /\ WalkTo(e.loc) /\ Settle
      \/ rescan' = TRUE /\ UNCHANGED <<rows, walks, counted>> /\ Settle
  BY Zenon DEF Handle
<1>8. (\E why, loc : Ask(why, e, tries, loc)) => Done
  BY <1>1, Zenon
<1>9. Done
  <2> HIDE DEF Done
  <2> QED BY <1>2, <1>3, <1>4, <1>5, <1>6, <1>7, <1>8, Zenon
<1> QED BY <1>9

LEMMA TakeTyped == ASSUME ApplierInv, chan \in Seq(EventSet), Take
                   PROVE  ApplierInv' /\ chan' \in Seq(EventSet)
<1>1. retry \in Seq(RetrySet) /\ TableInv
  BY DEF ApplierInv
<1>2. CASE chan # <<>> /\ chan' = Tail(chan) /\ Handle(Head(chan), 0) /\ UNCHANGED retry
  <2>1. Head(chan) \in EventSet /\ Tail(chan) \in Seq(EventSet)
    BY <1>2
  <2> QED BY <1>1, <1>2, <2>1, HandleTyped DEF ApplierInv
<1>3. CASE /\ retry # <<>> /\ retry' = Tail(retry)
           /\ Handle(Head(retry).ev, Head(retry).tries) /\ UNCHANGED chan
  <2>1. Head(retry) \in RetrySet /\ Tail(retry) \in Seq(RetrySet)
    BY <1>1, <1>3
  <2>2. Head(retry).ev \in EventSet /\ Head(retry).tries \in Nat
    BY <2>1 DEF RetrySet
  <2> QED BY <1>1, <1>3, <2>1, <2>2, HandleTyped DEF ApplierInv
<1> QED BY <1>2, <1>3 DEF Take

\* What the answer of statx leads to: an event that is put aside keeps its
\* type, and what is walked was seen to be a directory.
LEMMA QueueAgainTyped ==
  ASSUME ApplierInv, QueueAgain(ap.ev), Settle, UNCHANGED <<rows, walks, counted>>
  PROVE  ApplierInv'
<1>1. retry \in Seq(RetrySet) /\ rescan \in BOOLEAN /\ ap.ev \in EventSet /\ ap.tries \in Nat
  BY DEF ApplierInv, ApInv, TableInv
<1> DEFINE again == [ev |-> ap.ev, tries |-> ap.tries + 1]
<1>2. again \in RetrySet
  BY <1>1 DEF RetrySet
<1>3. retry' \in {retry, Append(retry, again)} /\ rescan' \in BOOLEAN
  BY <1>1 DEF QueueAgain
<1> HIDE DEF again
<1>4. retry' \in Seq(RetrySet)
  BY <1>1, <1>2, <1>3
<1>5. TableInv'
  BY <1>3 DEF ApplierInv, TableInv
<1> QED BY <1>4, <1>5, RestTyped DEF ApplierInv

LEMMA AnswerTyped == ASSUME ApplierInv, Answer PROVE ApplierInv'
<1>1. /\ retry \in Seq(RetrySet) /\ TableInv /\ RowsOK(rows)
      /\ ap.ev \in EventSet /\ ap.tries \in Nat
      /\ ap.seen.k = "dir" => ap.loc \in DirPath
  BY DEF ApplierInv, ApInv, TableInv
<1> DEFINE s == ap.seen
           Done == TableInv' /\ ApInv'
<1>2. PICK fresh \in BOOLEAN :
        \/ QueueAgain(ap.ev) /\ Settle /\ UNCHANGED <<rows, walks, counted>>
        \/ /\ \/ Add(s, fresh) \/ Push(s) \/ MoveTo(s) \/ Gone(s, fresh) \/ Source(s, fresh)
           /\ UNCHANGED retry
  BY DEF Answer
<1>3. ASSUME Add(s, fresh) PROVE Done
  <2>1. \/ Upsert(rows, s, ap.loc, fresh)
        \/ s.k = "dir" /\ WalkTo(ap.loc)
        \/ Leave
    BY <1>3 DEF Add
  <2>2. TableInv'
    BY <1>1, <2>1, UpsertTyped, WalkToTyped, LeaveTyped
  <2> QED BY <1>3, <2>2, RestTyped DEF Add
<1>4. ASSUME Push(s) PROVE Done
  <2>1. SetRows(Stored(rows, s.ino, s.v, ap.loc)) \/ Leave
    BY <1>4 DEF Push
  <2>2. RowsOK(Stored(rows, s.ino, s.v, ap.loc))
    BY <1>1, StoringTyped
  <2>3. TableInv'
    BY <1>1, <2>1, <2>2, SetRowsTyped, LeaveTyped
  <2> QED BY <1>4, <2>3, RestTyped DEF Push
<1>5. ASSUME MoveTo(s) PROVE Done
  <2> DEFINE moved == RenamedRow(rows, s.ino, ap.loc)
             known == rows[s.ino].st # "absent"
             id == IF known THEN NoId ELSE s
  <2>1. \/ Settle /\ Leave
        \/ s.k = "dir" /\ RenameTree(ap.ev.from, ap.loc)
        \/ Ask("gone", ap.ev, ap.tries, ap.ev.from)
        \/ /\ Look("source", ap.ev, ap.tries, ap.ev.from, id)
           /\ SetRows(Restored(moved, s.ino, s.v)) \/ Leave
    BY <1>5 DEF MoveTo
  <2>2. RowsOK(Restored(moved, s.ino, s.v))
    BY <1>1, RenamingTyped, StoringTyped
  <2> HIDE DEF moved, id
  <2>3. CASE Settle /\ Leave
    BY <1>1, <2>3, RestTyped, LeaveTyped
  <2>4. CASE s.k = "dir" /\ RenameTree(ap.ev.from, ap.loc)
    BY <1>1, <2>4, RenameTreeTyped
  <2>5. CASE Ask("gone", ap.ev, ap.tries, ap.ev.from)
    BY <1>1, <2>5, LookTyped, LeaveTyped DEF Ask
  <2>6. CASE /\ Look("source", ap.ev, ap.tries, ap.ev.from, id)
             /\ SetRows(Restored(moved, s.ino, s.v)) \/ Leave
    BY <1>1, <2>2, <2>6, LookTyped, SetRowsTyped, LeaveTyped
  <2> QED BY <2>1, <2>3, <2>4, <2>5, <2>6
<1>6. ASSUME Gone(s, fresh) PROVE Done
  <2>1. \/ SetRows(MarkGone(rows, ap.loc))
        \/ Upsert(rows, s, ap.loc, fresh)
        \/ s.k = "dir" /\ WalkTo(ap.loc)
        \/ Leave
    BY <1>6 DEF Gone
  <2>2. RowsOK(MarkGone(rows, ap.loc))
    BY <1>1, MarkingTyped
  <2>3. TableInv'
    BY <1>1, <2>1, <2>2, SetRowsTyped, UpsertTyped, WalkToTyped, LeaveTyped
  <2> QED BY <1>6, <2>3, RestTyped DEF Gone
<1>7. ASSUME Source(s, fresh) PROVE Done
  <2> DEFINE rs == IF s.k = "gone" THEN MarkGone(rows, ap.loc) ELSE rows
  <2>1. RowsOK(rs)
    BY <1>1, MarkingTyped
  <2>2. SetRows(rs) \/ Upsert(rs, ap.id, ap.ev.loc, fresh)
    BY <1>7 DEF Source
  <2> HIDE DEF rs
  <2>3. TableInv'
    BY <1>1, <2>1, <2>2, SetRowsTyped, UpsertTyped
  <2> QED BY <1>7, <2>3, RestTyped DEF Source
<1>8. ASSUME Done, UNCHANGED retry PROVE ApplierInv'
  BY <1>1, <1>8 DEF ApplierInv
<1> HIDE DEF Done
<1> QED BY <1>2, <1>3, <1>4, <1>5, <1>6, <1>7, <1>8, QueueAgainTyped

\* The directory walker and the worker write rows of their own.
LEMMA WalkTyped == ASSUME TableInv, NEW d, Walk(d) PROVE TableInv'
<1> DEFINE found == {i \in Inodes \ Denied : \E p \in Under(<<d>>) : at[p] = i /\ IsWanted(p)}
           PathOf(i) == CHOOSE p \in Under(<<d>>) : at[p] = i /\ IsWanted(p)
           Row(p, v) == [st |-> "sized", prev |-> "absent", path |-> p, fp |-> v]
<1>1. \A p, v : RowOK(Row(p, v))
  BY DEF RowOK, LiveStates
<1>2. /\ walks' = walks \ {d} /\ rescan' = rescan
      /\ rows' = [i \in Inodes |-> IF i \in found /\ rows[i].st = "absent"
                                  THEN Row(PathOf(i), ver[i]) ELSE rows[i]]
  BY DEF Walk, applier
<1> HIDE DEF found, PathOf, Row
<1> QED BY <1>1, <1>2 DEF TableInv, RowsOK

LEMMA WorkTyped == ASSUME TableInv, NEW i \in Inodes, Work(i) PROVE TableInv'
<1>1. rows' = [rows EXCEPT ![i].st = "done", ![i].fp = ver[i]] /\ UNCHANGED <<walks, rescan>>
  BY DEF Work, applier
<1>2. ASSUME NEW r, RowOK(r), NEW v PROVE RowOK([r EXCEPT !.st = "done", !.fp = v])
  BY <1>2 DEF RowOK, LiveStates
<1> DEFINE row == [rows[i] EXCEPT !.st = "done", !.fp = ver[i]]
<1>3. rows' = [rows EXCEPT ![i] = row]
  BY <1>1 DEF TableInv, RowsOK
<1>4. RowOK(row)
  BY <1>2 DEF TableInv, RowsOK
<1> HIDE DEF row
<1> QED BY <1>1, <1>3, <1>4 DEF TableInv, RowsOK

(* ------------------------- the types, of every step -------------------- *)

LEMMA WatchInit == ASSUME Init PROVE WatchInv
<1>1. DiskInv
  BY QueueAssumption, PathAssumption DEF Init, DiskInv
<1>2. ReaderInv
  BY DEF Init, ReaderInv
<1>3. ApInv
  BY EventsAre DEF Init, ApInv, Rest, NoId, Places
<1>4. TableInv
  <2> DEFINE found(i) == \E p \in Paths : Start[p] = i /\ IsWanted(p) /\ i \notin Denied
             Row(p) == [st |-> "done", prev |-> "absent", fp |-> 1, path |-> p]
             PathOf(i) == CHOOSE p \in Paths : Start[p] = i /\ IsWanted(p)
  <2>1. /\ walks = {} /\ rescan = FALSE
        /\ rows = [i \in Inodes |-> IF found(i) THEN Row(PathOf(i)) ELSE NoRow]
    BY DEF Init
  <2>2. RowOK(NoRow) /\ \A p : RowOK(Row(p))
    BY DEF RowOK, LiveStates, NoRow
  <2> HIDE DEF found, Row, PathOf
  <2> QED BY <2>1, <2>2 DEF TableInv, RowsOK
<1>5. retry = <<>>
  BY DEF Init
<1> QED BY <1>1, <1>2, <1>3, <1>4, <1>5 DEF WatchInv, ApplierInv

LEMMA WatchStep == ASSUME WatchInv, [Next]_vars PROVE WatchInv'
<1>0. DiskInv /\ ReaderInv /\ ApplierInv /\ retry \in Seq(RetrySet) /\ ApInv /\ TableInv
      /\ chan \in Seq(EventSet)
  BY DEF WatchInv, ReaderInv, ApplierInv
<1>1. CASE UNCHANGED vars
  <2>1. DiskInv' /\ ReaderInv'
    BY <1>0, <1>1 DEF vars, disk, reader, DiskInv, ReaderInv
  <2>2. ApplierInv'
    BY <1>0, <1>1 DEF vars, applier, ApplierInv, ApInv, TableInv
  <2> QED BY <2>1, <2>2 DEF WatchInv
<1>2. CASE User
  <2>1. UNCHANGED <<reader, chan, applier, walks, rows>>
    BY <1>2 DEF User
  <2>2. ReaderInv'
    BY <1>0, <2>1 DEF reader, ReaderInv
  <2>3. ApplierInv'
    BY <1>0, <2>1 DEF applier, ApplierInv, ApInv, TableInv
  <2> QED BY <1>0, <1>2, <2>2, <2>3, UserTyped DEF WatchInv
<1>3. CASE Reader
  BY <1>3, ReaderKeeps
<1>4. ASSUME UNCHANGED <<disk, raw, reader>>, chan' \in Seq(EventSet), ApplierInv' PROVE WatchInv'
  <2>1. DiskInv' /\ ReaderInv'
    BY <1>0, <1>4 DEF disk, reader, DiskInv, ReaderInv
  <2> QED BY <1>4, <2>1 DEF WatchInv
<1>5. CASE Take
  <2>1. UNCHANGED <<disk, raw, reader>>
    BY <1>5 DEF Take
  <2> QED BY <1>0, <1>4, <1>5, <2>1, TakeTyped
<1>6. CASE Answer
  <2>1. UNCHANGED <<disk, raw, reader, chan>>
    BY <1>6 DEF Answer
  <2> QED BY <1>0, <1>4, <1>6, <2>1, AnswerTyped
<1>7. ASSUME UNCHANGED <<disk, raw, reader, chan, applier>>, TableInv' PROVE WatchInv'
  <2>1. ApplierInv'
    BY <1>0, <1>7 DEF applier, ApplierInv, ApInv
  <2> QED BY <1>0, <1>4, <1>7, <2>1
<1>8. ASSUME NEW d \in walks, Walk(d) PROVE WatchInv'
  <2>1. UNCHANGED <<disk, raw, reader, chan, applier>>
    BY <1>8 DEF Walk
  <2> QED BY <1>0, <1>7, <1>8, <2>1, WalkTyped
<1>9. ASSUME NEW i \in Inodes, Work(i) PROVE WatchInv'
  <2>1. UNCHANGED <<disk, raw, reader, chan, applier>>
    BY <1>9 DEF Work
  <2> QED BY <1>0, <1>7, <1>9, <2>1, WorkTyped
<1> QED BY <1>1, <1>2, <1>3, <1>5, <1>6, <1>8, <1>9 DEF Next

\* Types of everything the threads share; and a row that is missing remembers
\* the state it was lost in, so restore_or_reset gives it back a live one,
\* whatever is renamed, marked, walked or reset meanwhile.
THEOREM WatcherTypes == Spec => []TypeOK
<1>1. Init => (WatchInv /\ QueueInv)
  BY WatchInit, QueueInit
<1>2. (WatchInv /\ QueueInv /\ [Next]_vars) => (WatchInv /\ QueueInv)'
  BY WatchStep, QueueStep
<1>3. (WatchInv /\ QueueInv) => TypeOK
  BY DEF WatchInv, DiskInv, ApplierInv, TableInv, RowsOK, RowOK, LiveStates, QueueInv, Counted, TypeOK
<1> QED BY <1>1, <1>2, <1>3, PTL DEF Spec
=============================================================================
