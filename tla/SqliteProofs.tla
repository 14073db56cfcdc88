---------------------------- MODULE SqliteProofs ----------------------------
(***************************************************************************)
(* For any inodes, roots, batches and calls: the rows keep their types and *)
(* no two have the same id, though ids are given again after a purge;      *)
(* every query returns what MemoryRepository would; and every call does to *)
(* the tables what that store does to its values.  All rest on one fact:   *)
(* among the rows of the table the ids, 1 + the largest in use, are in the *)
(* order of the insertions a counter would have numbered.                  *)
(***************************************************************************)
EXTENDS Sqlite, FiniteSetTheorems, WellFoundedInduction, TLAPS

Groups == Seq([canon : Nat, verified : Nat])

\* The rows, and the order of the ids.
Rows(f, gs) == DOMAIN f = Keys /\ \A k \in Keys : f[k] = Absent \/ WellFormed(f[k], gs)
Order(f, b, n) ==
  /\ n \in Nat /\ b \in [Keys -> Nat]
  /\ \A k \in InUse(f) : b[k] \in 1..n
  /\ \A j, k \in InUse(f) : /\ f[j].id < f[k].id <=> b[j] < b[k]
                            /\ f[j].id = f[k].id => j = k

TableInv == /\ content_groups \in Groups /\ Rows(files, content_groups)
            /\ Order(files, born, births)
ClockInv == /\ now \in Nat \ {0}
            /\ held \in [id : Nat, from : Memory!State \union {"none"}, born : Nat]
            /\ session \subseteq Roots /\ \A r, s \in session : r = s
SqlInv == TableInv /\ ClockInv

(* ----------------------- what the queries answer ----------------------- *)

\* The table the memory store would have: the same rows, under the numbers a
\* counter would have given them.
Mapped == [k \in Keys |-> IF files[k].id = NULL THEN Absent ELSE [files[k] EXCEPT !.id = born[k]]]

\* Both modules count with the same operator.
LEMMA Counting == \A S : Memory!Cardinality(S) = Cardinality(S)
BY DEF Memory!Cardinality, Cardinality

LEMMA MappedIs ==
  ASSUME TableInv
  PROVE  /\ Memory!Stored(Mapped) = InUse(files)
         /\ \A k \in InUse(files) :
              /\ Mapped[k] = [files[k] EXCEPT !.id = born[k]]
              /\ Mapped[k].id = born[k]
              /\ Mapped[k].loc = files[k].loc /\ Mapped[k].fp = files[k].fp
              /\ Mapped[k].state = files[k].state /\ Mapped[k].prev = files[k].prev
              /\ Mapped[k].ready = files[k].ready /\ Mapped[k].waits = files[k].waits
              /\ Mapped[k].group = files[k].group /\ Mapped[k].skip = files[k].skip
              /\ Mapped[k].known = files[k].known /\ Mapped[k].updated = files[k].updated
<1>1. \A k \in InUse(files) :
        /\ files[k].id \in Nat \ {0} /\ born[k] \in Nat \ {0}
        /\ DOMAIN files[k] = {"id", "loc", "fp", "state", "prev", "ready", "waits", "known", "group",
                              "skip", "updated"}
  BY DEF TableInv, Rows, WellFormed, Order, InUse, Absent, NULL
<1>2. \A k \in InUse(files) : Mapped[k] = [files[k] EXCEPT !.id = born[k]] /\ Mapped[k].id = born[k]
  BY <1>1 DEF InUse, Mapped, NULL
<1>3. \A k \in Keys \ InUse(files) : Mapped[k] = Absent /\ Mapped[k].id = 0
  BY DEF InUse, Mapped, Absent, NULL
<1>4. Memory!Stored(Mapped) = InUse(files)
  BY <1>1, <1>2, <1>3 DEF Memory!Stored, InUse
<1> QED BY <1>1, <1>2, <1>4

LEMMA Ordered ==
  ASSUME TableInv, NEW j \in InUse(files), NEW k \in InUse(files)
  PROVE  /\ Mapped[j].id <= Mapped[k].id <=> (j = k \/ files[j].id < files[k].id)
         /\ files[j].id # files[k].id <=> j # k
<1>1. files[j].id \in Nat /\ files[k].id \in Nat /\ born[j] \in Nat /\ born[k] \in Nat
  BY DEF TableInv, Rows, WellFormed, Order, InUse, Absent, NULL
<1>2. Mapped[j].id = born[j] /\ Mapped[k].id = born[k]
  BY MappedIs
<1>3. /\ files[j].id < files[k].id <=> born[j] < born[k]
      /\ files[k].id < files[j].id <=> born[k] < born[j]
      /\ files[j].id = files[k].id => j = k
  BY DEF TableInv, Order
<1> QED BY <1>1, <1>2, <1>3

LEMMA NextReadyAgrees ==
  ASSUME SqlInv, NEW heavy \in BOOLEAN PROVE NextReady(heavy) = Memory!NextReady(heavy)
<1> DEFINE Due(k) == /\ files[k].state \in Queue
                     /\ files[k].ready # NULL /\ files[k].ready <= now
                     /\ \/ heavy \/ files[k].state \in {"settling", "sized"}
                        \/ files[k].waits # NULL /\ files[k].waits <= now - 1
           Before(k, j) == \/ files[k].ready < files[j].ready
                           \/ files[k].ready = files[j].ready /\ files[k].id < files[j].id
           AtMost(k, j) == \/ Mapped[k].ready < Mapped[j].ready
                           \/ Mapped[k].ready = Mapped[j].ready /\ Mapped[k].id <= Mapped[j].id
           due  == {k \in InUse(files) : Due(k)}
           ready == {k \in Memory!Stored(Mapped) : Memory!IsReady(Mapped[k], heavy)}
<1>1. TableInv /\ now \in Nat
  BY DEF SqlInv, ClockInv
<1>2. \A k \in InUse(files) : files[k].ready \in Nat /\ files[k].waits \in Nat
  BY <1>1 DEF TableInv, Rows, WellFormed, InUse, Absent, NULL
<1>3. \A k \in InUse(files) : Due(k) <=> Memory!IsReady(Mapped[k], heavy)
  <2>1. TAKE k \in InUse(files)
  <2>2. /\ Mapped[k].ready = files[k].ready /\ Mapped[k].waits = files[k].waits
        /\ Mapped[k].state = files[k].state
    BY <1>1, MappedIs
  <2>3. files[k].ready \in Nat /\ files[k].waits \in Nat
    BY <1>2
  <2> QED BY <1>1, <2>2, <2>3 DEF Memory!IsReady, Memory!Queued, Queue, NULL
<1>4. NextReady(heavy) = {k \in due : \A j \in due : j = k \/ Before(k, j)}
  BY Zenon DEF NextReady, FirstOf
<1>5. Memory!NextReady(heavy) = {k \in ready : \A j \in ready : AtMost(k, j)}
  BY Zenon DEF Memory!NextReady, Mapped
<1>6. due = ready
  <2> HIDE DEF Due
  <2> QED BY <1>1, <1>3, MappedIs
<1>7. ASSUME NEW j \in due, NEW k \in due PROVE (j = k \/ Before(k, j)) <=> AtMost(k, j)
  <2>1. j \in InUse(files) /\ k \in InUse(files)
    OBVIOUS
  <2>2. /\ Mapped[k].ready = files[k].ready /\ Mapped[j].ready = files[j].ready
        /\ files[k].ready \in Nat /\ files[j].ready \in Nat
    BY <1>1, <1>2, <2>1, MappedIs
  <2>3. Mapped[k].id <= Mapped[j].id <=> (k = j \/ files[k].id < files[j].id)
    BY <1>1, <2>1, Ordered
  <2> QED BY <2>2, <2>3
<1> HIDE DEF due, ready, Before, AtMost
<1> QED BY <1>4, <1>5, <1>6, <1>7

LEMMA FindByPathAgrees ==
  ASSUME TableInv, NEW loc PROVE FindByPath(loc) = Memory!FindByPath(loc)
<1> DEFINE here == {k \in InUse(files) : files[k].loc = loc}
           lost(k) == IF files[k].state \in Dead THEN 1 ELSE 0
           Before(k, j) == \/ lost(k) < lost(j)
                           \/ lost(k) = lost(j) /\ files[k].id < files[j].id
           rows == {k \in Memory!Stored(Mapped) : Mapped[k].loc = loc}
           live == {k \in rows : Mapped[k].state \notin Memory!Lost}
           best == IF live # {} THEN live ELSE rows
<1>1. FindByPath(loc) = {k \in here : \A j \in here : j = k \/ Before(k, j)}
  BY Zenon DEF FindByPath, FirstOf
<1>2. Memory!FindByPath(loc) = {k \in best : \A j \in best : Mapped[k].id <= Mapped[j].id}
  BY Zenon DEF Memory!FindByPath, Mapped
<1>3. rows = here
  BY MappedIs
<1>4. live = {k \in here : lost(k) = 0}
  <2>1. ASSUME NEW k \in here PROVE Mapped[k].state \notin Memory!Lost <=> lost(k) = 0
    <3>1. Mapped[k].state = files[k].state
      BY MappedIs
    <3> QED BY <3>1 DEF Memory!Lost, Dead
  <2> HIDE DEF here, rows, lost
  <2> QED BY <1>3, <2>1
<1>5. ASSUME NEW j \in here, NEW k \in here
      PROVE  Mapped[k].id <= Mapped[j].id <=> (j = k \/ files[k].id < files[j].id)
  BY Ordered
<1>6. \A k \in here : lost(k) \in {0, 1}
  OBVIOUS
<1> HIDE DEF here, lost, rows, live
<1> QED BY <1>1, <1>2, <1>3, <1>4, <1>5, <1>6

LEMMA PeersAgree ==
  ASSUME TableInv, NEW k \in InUse(files)
  PROVE  Candidates(k) = Memory!Candidates(k) /\ PendingSameSize(k) = Memory!PendingSameSize(k)
<1>1. \A j \in InUse(files) : files[j].id # files[k].id <=> j # k
  BY Ordered
<1>2. /\ Memory!Stored(Mapped) = InUse(files)
      /\ \A j \in InUse(files) : /\ Mapped[j].state = files[j].state /\ Mapped[j].fp = files[j].fp
                                 /\ Mapped[j].ready = files[j].ready
  BY MappedIs
<1>3. Candidates(k) = Memory!Candidates(k)
  <2>1. Memory!Candidates(k) = {j \in Memory!Stored(Mapped) \ {k} :
                                  /\ Mapped[j].state \in {"sized", "distinct"}
                                  /\ Mapped[j].fp.body = Mapped[k].fp.body}
    BY Zenon DEF Memory!Candidates, Mapped
  <2> QED BY <1>1, <1>2, <2>1 DEF Candidates, SameSize
<1>4. PendingSameSize(k) = Memory!PendingSameSize(k)
  <2> DEFINE twins == {j \in Memory!Stored(Mapped) \ {k} :
                         /\ Mapped[j].state = "settling" /\ Mapped[j].fp.body = Mapped[k].fp.body
                         /\ Mapped[j].ready # 0}
  <2>1. Memory!PendingSameSize(k) = {Mapped[j].ready : j \in twins}
    BY Zenon DEF Memory!PendingSameSize, Mapped
  <2>2. twins = {j \in SameSize(k, {"settling"}) : files[j].ready # NULL}
    BY <1>1, <1>2 DEF SameSize, NULL
  <2>3. \A j \in twins : Mapped[j].ready = files[j].ready
    BY <1>2
  <2> HIDE DEF twins
  <2> QED BY <2>1, <2>2, <2>3 DEF PendingSameSize
<1> QED BY <1>3, <1>4

LEMMA CountsAgree ==
  ASSUME TableInv
  PROVE  /\ \A g : GroupMembers(g) = Memory!GroupMembers(g)
         /\ \A r : FileCount(r) = Memory!FileCount(r)
         /\ PendingCounts = Memory!PendingCounts
<1>1. /\ Memory!Stored(Mapped) = InUse(files)
      /\ \A k \in InUse(files) : /\ Mapped[k].state = files[k].state /\ Mapped[k].group = files[k].group
                                 /\ Mapped[k].ready = files[k].ready /\ Mapped[k].loc = files[k].loc
  BY MappedIs
<1>2. ASSUME NEW g PROVE GroupMembers(g) = Memory!GroupMembers(g)
  <2>1. Memory!GroupMembers(g) = {k \in Memory!Stored(Mapped) : Mapped[k].group = g}
    BY Zenon DEF Memory!GroupMembers, Mapped
  <2> QED BY <1>1, <2>1 DEF GroupMembers
<1>3. ASSUME NEW r PROVE FileCount(r) = Memory!FileCount(r)
  <2>1. Memory!FileCount(r)
          = Cardinality({k \in Memory!Stored(Mapped) : Mapped[k].loc.root = r /\ Mapped[k].state # "gone"})
    BY Counting, Zenon DEF Memory!FileCount, Mapped
  <2>2. {k \in Memory!Stored(Mapped) : Mapped[k].loc.root = r /\ Mapped[k].state # "gone"}
          = {k \in InUse(files) : files[k].loc.root = r /\ files[k].state # "gone"}
    BY <1>1
  <2> QED BY <2>1, <2>2 DEF FileCount
<1>4. PendingCounts = Memory!PendingCounts
  <2>1. Memory!PendingCounts
          = Cardinality({k \in Memory!Stored(Mapped) : Mapped[k].state = "settling" /\ Mapped[k].ready # 0})
    BY Counting, Zenon DEF Memory!PendingCounts, Mapped
  <2>2. {k \in Memory!Stored(Mapped) : Mapped[k].state = "settling" /\ Mapped[k].ready # 0}
          = {k \in InUse(files) : files[k].state = "settling" /\ files[k].ready # NULL}
    BY <1>1 DEF NULL
  <2> QED BY <2>1, <2>2 DEF PendingCounts
<1> QED BY <1>2, <1>3, <1>4

LEMMA AnswersAgree == ASSUME SqlInv PROVE SameAnswers
BY NextReadyAgrees, FindByPathAgrees, PeersAgree, CountsAgree DEF SameAnswers, SqlInv

LEMMA TypesFollow == ASSUME SqlInv PROVE TypeOK
<1>1. \A k \in InUse(files) : WellFormed(files[k], content_groups)
  BY DEF SqlInv, TableInv, Rows, InUse, Absent, NULL
<1>2. \A j, k \in InUse(files) : j # k => files[j].id # files[k].id
  BY DEF SqlInv, TableInv, Order
<1>3. \A k \in InUse(files) : born[k] \in 1..births
  BY DEF SqlInv, TableInv, Order
<1>4. Cardinality(session) <= 1
  <2>1. session = {} \/ \E r : session = {r}
    <3>1. \A r \in session : session = {r}
      BY DEF SqlInv, ClockInv
    <3> QED BY <3>1
  <2>2. \A r : Cardinality({r}) = 1
    BY FS_Singleton
  <2>3. Cardinality({}) = 0
    BY FS_EmptySet
  <2>4. Cardinality(session) = 0 \/ Cardinality(session) = 1
    BY <2>1, <2>2, <2>3, Zenon
  <2> QED BY <2>4
<1> QED BY <1>1, <1>2, <1>3, <1>4 DEF TypeOK, WellFormed

(* --------------------------- numbers of rows --------------------------- *)

\* A set of numbers that is not empty has a least one.
LEMMA LeastExists ==
  ASSUME NEW S \in SUBSET Nat, S # {}
  PROVE  \E n \in S : \A k \in S : n <= k
<1>1. IsWellFoundedOn(OpToRel(<, Nat), Nat)
  BY NatLessThanWellFounded
<1>2. PICK n \in S : \A k \in S : ~(<<k, n>> \in OpToRel(<, Nat))
  BY <1>1, WFMin
<1>3. ASSUME NEW k \in S, k < n PROVE FALSE
  <2>1. <<k, n>> \in Nat \X Nat /\ <<k, n>>[1] < <<k, n>>[2]
    BY <1>3
  <2>2. <<k, n>> \in OpToRel(<, Nat)
    BY <2>1, Zenon DEF OpToRel
  <2> QED BY <1>2, <1>3, <2>2, Zenon
<1> QED BY <1>3

\* SELECT max(rowid): a table that is not empty has a largest one.
LEMMA MaxIs ==
  ASSUME NEW S \in SUBSET Nat, IsFiniteSet(S), S # {}
  PROVE  Max(S) \in S /\ \A x \in S : x <= Max(S)
<1> DEFINE Top(T) == \E m \in T : \A x \in T : m >= x
           C == {n \in Nat : \E T \in SUBSET S : T # {} /\ Cardinality(T) = n /\ ~Top(T)}
<1>1. C = {}
  <2>1. SUFFICES ASSUME C # {} PROVE FALSE
    OBVIOUS
  <2>2. PICK n \in C : \A k \in C : n <= k
    <3>1. C \in SUBSET Nat
      OBVIOUS
    <3> HIDE DEF C
    <3> QED BY <2>1, <3>1, LeastExists
  <2>3. PICK T \in SUBSET S : T # {} /\ Cardinality(T) = n /\ ~Top(T)
    BY <2>2
  <2>4. PICK x : x \in T
    BY <2>3
  <2>5. T \ {x} \in SUBSET S /\ Cardinality(T \ {x}) = n - 1 /\ n - 1 \in Nat
    <3>1. IsFiniteSet(T)
      BY <2>3, FS_Subset
    <3>2. IsFiniteSet(T \ {x}) /\ Cardinality(T \ {x}) = n - 1
      BY <2>3, <2>4, <3>1, FS_RemoveElement
    <3>3. n - 1 \in Nat
      BY <3>2, FS_CardinalityType
    <3> QED BY <2>3, <3>2, <3>3
  <2>6. n - 1 \notin C
    <3>1. n \in Nat
      BY <2>2
    <3> HIDE DEF C
    <3> QED BY <2>2, <2>5, <3>1
  <2>7. T \ {x} = {} \/ Top(T \ {x})
    <3> HIDE DEF Top
    <3> QED BY <2>5, <2>6
  <2>8. CASE T \ {x} = {}
    <3>1. T = {x} /\ x \in Nat
      BY <2>3, <2>4, <2>8
    <3> QED BY <2>3, <3>1
  <2>9. CASE Top(T \ {x})
    <3>1. PICK m \in T \ {x} : \A y \in T \ {x} : m >= y
      BY <2>9
    <3>2. m \in Nat /\ x \in Nat /\ \A y \in T : y \in Nat
      BY <2>3, <2>4
    <3>3. \A y \in T : x >= y \/ m >= y
      BY <3>1, <3>2
    <3>4. m >= x \/ \A y \in T : x >= y
      BY <3>1, <3>2
    <3> QED BY <2>3, <2>4, <3>1, <3>2, <3>3, <3>4
  <2> QED BY <2>7, <2>8, <2>9
<1>2. Cardinality(S) \in Nat
  BY FS_CardinalityType
<1>3. \E m \in S : \A x \in S : m >= x
  BY <1>1, <1>2
<1>4. Max(S) \in S /\ \A x \in S : Max(S) >= x
  BY <1>3, Zenon DEF Max
<1> QED BY <1>4

\* The numbers of the rows in use are finitely many.
LEMMA IdsFinite ==
  ASSUME NEW f, NEW K \in SUBSET Keys PROVE IsFiniteSet({f[k].id : k \in K})
<1> DEFINE S == {f[k].id : k \in K}
           g == [k \in K |-> f[k].id]
<1>1. IsFiniteSet(K)
  BY FS_Subset, TableAssumption
<1>2. g \in Surjection(K, S)
  BY DEF Surjection
<1> QED BY <1>1, <1>2, FS_Surjection

\* The next rowid is a number above all that are in use.
LEMMA NewRowidIs ==
  ASSUME NEW f, NEW gs, Rows(f, gs)
  PROVE  NewRowid(f) \in Nat \ {0} /\ \A k \in InUse(f) : f[k].id < NewRowid(f)
<1> DEFINE S == {f[k].id : k \in InUse(f)}
<1>1. \A k \in InUse(f) : f[k].id \in Nat
  BY DEF Rows, WellFormed, InUse, Absent, NULL
<1>2. InUse(f) \in SUBSET Keys
  BY DEF InUse
<1>3. CASE InUse(f) = {}
  BY <1>3 DEF NewRowid
<1>4. CASE InUse(f) # {}
  <2>1. S \in SUBSET Nat /\ S # {} /\ IsFiniteSet(S)
    BY <1>1, <1>2, <1>4, IdsFinite
  <2> DEFINE m == Max(S)
  <2>2. m \in S /\ \A x \in S : x <= m
    <3> HIDE DEF S
    <3> QED BY <2>1, MaxIs
  <2>3. NewRowid(f) = m + 1
    BY <1>4 DEF NewRowid
  <2>4. m \in Nat /\ \A k \in InUse(f) : f[k].id <= m
    BY <2>1, <2>2
  <2> HIDE DEF m, S
  <2> QED BY <1>1, <2>3, <2>4
<1> QED BY <1>3, <1>4

(* --------------------------- rows that change -------------------------- *)

\* f2 has the rows of f under the same ids, and all are rows of a table with
\* the groups gs.
Edits(f, f2, gs) ==
  /\ DOMAIN f2 = Keys
  /\ \A k \in Keys \ InUse(f) : f2[k] = Absent
  /\ \A k \in InUse(f) : f2[k].id = f[k].id /\ WellFormed(f2[k], gs)

LEMMA RowsIn ==
  ASSUME NEW f, NEW gs, Rows(f, gs)
  PROVE  /\ \A k \in InUse(f) : k \in Keys /\ WellFormed(f[k], gs)
         /\ \A k \in Keys \ InUse(f) : f[k] = Absent
         /\ DOMAIN f = Keys
BY DEF Rows, WellFormed, InUse, Absent, NULL

LEMMA EditsStay == ASSUME NEW f, NEW f2, NEW gs, Edits(f, f2, gs) PROVE InUse(f2) = InUse(f)
BY DEF Edits, InUse, Absent, NULL

LEMMA EditsKeep ==
  ASSUME NEW f, NEW f2, NEW gs, NEW b, NEW n, Edits(f, f2, gs), Order(f, b, n)
  PROVE  Rows(f2, gs) /\ Order(f2, b, n)
<1>1. Rows(f2, gs)
  BY DEF Edits, Rows
<1>2. \A k \in InUse(f2) : k \in InUse(f) /\ f2[k].id = f[k].id
  BY EditsStay DEF Edits
<1>3. Order(f2, b, n)
  BY <1>2 DEF Order
<1> QED BY <1>1, <1>3

LEMMA EditsGrow ==
  ASSUME NEW f, NEW f2, NEW gs \in Groups, NEW gs2 \in Groups, Len(gs) <= Len(gs2), Edits(f, f2, gs)
  PROVE  Edits(f, f2, gs2)
<1>1. Len(gs) \in Nat /\ Len(gs2) \in Nat
  BY DEF Groups
<1>2. \A g \in 0..Len(gs) : g \in 0..Len(gs2)
  BY <1>1
<1> QED BY <1>2 DEF Edits, WellFormed

LEMMA EditsCompose ==
  ASSUME NEW f, NEW f2, NEW f3, NEW gs, NEW gs2, Edits(f, f2, gs), Edits(f2, f3, gs2)
  PROVE  Edits(f, f3, gs2)
<1>1. InUse(f2) = InUse(f)
  BY EditsStay
<1> QED BY <1>1 DEF Edits

LEMMA EditsNothing ==
  ASSUME NEW f, NEW gs, Rows(f, gs) PROVE Edits(f, f, gs)
BY RowsIn DEF Edits

\* A new row goes to the end of the order.
LEMMA InsertKeeps ==
  ASSUME NEW f, NEW gs, NEW b, NEW n, Rows(f, gs), Order(f, b, n),
         NEW k \in Keys \ InUse(f), NEW row, row.id = NewRowid(f), WellFormed(row, gs)
  PROVE  /\ Rows([f EXCEPT ![k] = row], gs)
         /\ Order([f EXCEPT ![k] = row], [b EXCEPT ![k] = n + 1], n + 1)
<1> DEFINE f2 == [f EXCEPT ![k] = row]
           b2 == [b EXCEPT ![k] = n + 1]
<1>0. DOMAIN f = Keys /\ n \in Nat /\ b \in [Keys -> Nat]
  BY DEF Rows, Order
<1>1. DOMAIN f2 = Keys /\ f2[k] = row /\ \A j \in Keys \ {k} : f2[j] = f[j]
  BY <1>0
<1>2. b2 \in [Keys -> Nat] /\ b2[k] = n + 1 /\ \A j \in Keys \ {k} : b2[j] = b[j]
  BY <1>0
<1>3. Rows(f2, gs)
  <2> HIDE DEF f2
  <2> QED BY <1>1 DEF Rows
<1>4. \A j \in InUse(f2) : j = k \/ j \in InUse(f) \ {k}
  <2> HIDE DEF f2
  <2> QED BY <1>1 DEF InUse
<1>5. row.id \in Nat /\ \A j \in InUse(f) : f[j].id < row.id /\ f[j].id \in Nat
  <2>1. \A j \in InUse(f) : f[j].id \in Nat
    BY DEF Rows, WellFormed, InUse, Absent, NULL
  <2> QED BY <2>1, NewRowidIs
<1>6. \A j \in InUse(f) : b[j] \in 1..n /\ j \in Keys
  BY DEF Order, InUse
<1>7. ASSUME NEW i \in InUse(f2), NEW j \in InUse(f2)
      PROVE  /\ f2[i].id < f2[j].id <=> b2[i] < b2[j]
             /\ f2[i].id = f2[j].id => i = j
  <2>1. \A h \in InUse(f) \ {k} : f2[h].id = f[h].id /\ b2[h] = b[h] /\ b[h] \in 1..n
    <3> HIDE DEF f2, b2
    <3> QED BY <1>1, <1>2, <1>6
  <2>2. f2[k].id = row.id /\ b2[k] = n + 1
    BY <1>1, <1>2
  <2>3. i = k \/ i \in InUse(f) \ {k}
    BY <1>4
  <2>4. j = k \/ j \in InUse(f) \ {k}
    BY <1>4
  <2>5. \A g, h \in InUse(f) : /\ f[g].id < f[h].id <=> b[g] < b[h]
                               /\ f[g].id = f[h].id => g = h
    BY DEF Order
  <2> HIDE DEF f2, b2
  <2> QED BY <1>0, <1>5, <2>1, <2>2, <2>3, <2>4, <2>5
<1>8. \A j \in InUse(f2) : b2[j] \in 1..(n + 1)
  <2> HIDE DEF f2, b2
  <2> QED BY <1>0, <1>2, <1>4, <1>6
<1>9. Order(f2, b2, n + 1)
  <2> HIDE DEF f2, b2
  <2> QED BY <1>0, <1>2, <1>7, <1>8 DEF Order
<1> QED BY <1>3, <1>9

\* The tables after a statement are the tables of the invariant.
LEMMA TableKept ==
  ASSUME TableInv, Edits(files, files', content_groups'), content_groups' \in Groups,
         UNCHANGED <<born, births>>
  PROVE  TableInv'
BY EditsKeep DEF TableInv

(* ------------------------------- upserts ------------------------------- *)

LEMMA InsertedIs ==
  ASSUME NEW f, NEW gs \in Groups, Rows(f, gs), NEW fp, NEW loc, IsLoc(loc),
         NEW state \in {"settling", "sized"}, NEW ready \in Nat
  PROVE  /\ Inserted(f, fp, loc, state, ready).id = NewRowid(f)
         /\ WellFormed(Inserted(f, fp, loc, state, ready), gs)
<1>1. NewRowid(f) \in Nat \ {0}
  BY NewRowidIs
<1>2. Len(gs) \in Nat
  BY DEF Groups
<1> QED BY <1>1, <1>2 DEF Inserted, WellFormed, NULL, Memory!State, Memory!Queued

LEMMA ConflictIs ==
  ASSUME NEW gs \in Groups, NEW row, WellFormed(row, gs), NEW fp, NEW kind, NEW loc, IsLoc(loc),
         NEW ready \in Nat
  PROVE  /\ OnConflict(row, fp, kind, loc, ready).id = row.id
         /\ WellFormed(OnConflict(row, fp, kind, loc, ready), gs)
<1> DEFINE r == OnConflict(row, fp, kind, loc, ready)
           same == FpIs(kind, row, fp)
<1>1. Len(gs) \in Nat
  BY DEF Groups
<1>2. same \in BOOLEAN
  BY DEF FpIs
<1>3. /\ r.id = row.id
      /\ DOMAIN r = {"id", "loc", "fp", "state", "prev", "ready", "waits", "known", "group", "skip",
                     "updated"}
  BY DEF OnConflict
<1>4. Restored(row) \in Memory!State
  BY DEF Restored, Memory!State, Memory!Queued, Memory!Lost
<1>5. r.state \in Memory!State
  <2>1. "settling" \in Memory!State /\ row.state \in Memory!State
    BY DEF WellFormed, Memory!State, Memory!Queued
  <2>2. r.state = CASE row.state = "missing" /\ same         -> Restored(row)
                    [] row.state # "missing" /\ same         -> row.state
                    [] ~same /\ row.skip = "user_undo"       -> row.state
                    [] ~same /\ row.skip # "user_undo"       -> "settling"
    BY DEF OnConflict
  <2> HIDE DEF r, same
  <2> QED BY <1>2, <1>4, <2>1, <2>2
<1>6. r.ready \in Nat
  <2>1. row.ready \in Nat /\ NULL \in Nat /\ Awake(Restored(row), ready) \in Nat
    BY DEF WellFormed, NULL, Awake
  <2>2. r.ready = CASE row.state = "missing" /\ same -> Awake(Restored(row), ready)
                    [] row.state \notin Queue \union {"missing"} /\ same -> row.ready
                    [] row.state \in Queue \/ ~same          -> ready
    BY DEF OnConflict
  <2> HIDE DEF r, same
  <2> QED BY <1>2, <2>1, <2>2
<1>7. r.waits \in Nat /\ r.group \in 0..Len(gs)
  <2>1. r.waits = (IF same THEN row.waits ELSE NULL) /\ r.group = (IF same THEN row.group ELSE NULL)
    BY DEF OnConflict
  <2> HIDE DEF r, same
  <2> QED BY <1>1, <1>2, <2>1 DEF WellFormed, NULL
<1>8. row.id \in Nat \ {0} /\ r.loc = loc
  BY DEF WellFormed, OnConflict
<1>9. r.prev \in Memory!State \union {"none"} /\ r.known \in BOOLEAN
  <2>1. /\ r.prev = (IF same \/ row.state \in Queue THEN row.prev ELSE row.state)
        /\ r.known = (IF same THEN row.known ELSE FALSE)
    BY DEF OnConflict
  <2> HIDE DEF r, same
  <2> QED BY <1>2, <2>1 DEF WellFormed
<1> HIDE DEF r
<1>10. WellFormed(r, gs)
  BY <1>3, <1>5, <1>6, <1>7, <1>8, <1>9 DEF WellFormed
<1> QED BY <1>3, <1>10 DEF r

\* Taking a canonical pointer away leaves a table of groups of the same length.
LEMMA UncrownIs ==
  ASSUME NEW gs \in Groups, NEW W
  PROVE  Uncrown(gs, W) \in Groups /\ Len(Uncrown(gs, W)) = Len(gs)
<1> DEFINE us == Uncrown(gs, W)
           Row == [canon : Nat, verified : Nat]
<1>0. gs \in Seq(Row)
  BY DEF Groups
<1>1. DOMAIN gs = 1..Len(gs) /\ Len(gs) \in Nat /\ \A g \in 1..Len(gs) : gs[g] \in Row
  <2> HIDE DEF Row
  <2> QED BY <1>0
<1>2. us = [g \in 1..Len(gs) |-> IF g \in W THEN [gs[g] EXCEPT !.canon = NULL] ELSE gs[g]]
  BY <1>1 DEF Uncrown
<1>3. \A g \in 1..Len(gs) : us[g] \in Row
  BY <1>1, <1>2 DEF NULL
<1>4. DOMAIN us = 1..Len(gs) /\ us = [g \in 1..Len(gs) |-> us[g]]
  BY <1>2
<1> HIDE DEF us, Row
<1>5. us \in Seq(Row) /\ Len(us) = Len(gs)
  BY <1>1, <1>3, <1>4
<1> QED BY <1>5 DEF us, Row, Groups

\* An upsert of a row that is in the table.
LEMMA UpsertEdits ==
  ASSUME NEW db, db.gs \in Groups, Rows(db.f, db.gs), NEW k \in InUse(db.f), NEW fp, NEW loc,
         IsLoc(loc), NEW ready \in Nat, NEW kind
  PROVE  /\ Edits(db.f, UpsertInTx(db, k, fp, loc, ready, kind).f, UpsertInTx(db, k, fp, loc, ready, kind).gs)
         /\ UpsertInTx(db, k, fp, loc, ready, kind).gs \in Groups
         /\ Len(UpsertInTx(db, k, fp, loc, ready, kind).gs) = Len(db.gs)
<1> DEFINE row == OnConflict(db.f[k], fp, kind, loc, ready)
           f == [db.f EXCEPT ![k] = row]
           W == {g \in DOMAIN db.gs : /\ g = db.f[k].group /\ db.gs[g].canon = row.id
                                      /\ f[k].group = NULL}
<1>1. UpsertInTx(db, k, fp, loc, ready, kind) = [f |-> f, gs |-> Uncrown(db.gs, W)]
  BY Zenon DEF UpsertInTx
<1>2. Uncrown(db.gs, W) \in Groups /\ Len(Uncrown(db.gs, W)) = Len(db.gs)
  <2> HIDE DEF W
  <2> QED BY UncrownIs
<1>3. k \in Keys /\ WellFormed(db.f[k], db.gs) /\ DOMAIN db.f = Keys
  BY DEF Rows, InUse, Absent, NULL
<1>4. row.id = db.f[k].id /\ WellFormed(row, db.gs)
  <2> HIDE DEF row
  <2> QED BY <1>3, ConflictIs DEF row
<1>5. DOMAIN f = Keys /\ f[k] = row /\ \A j \in Keys \ {k} : f[j] = db.f[j]
  BY <1>3
<1>6. Edits(db.f, f, db.gs)
  <2> HIDE DEF f, row
  <2>1. InUse(db.f) \subseteq Keys
    BY DEF InUse
  <2> QED BY <1>4, <1>5, <2>1, RowsIn DEF Edits
<1> HIDE DEF f, W
<1>7. Edits(db.f, f, Uncrown(db.gs, W))
  <2>1. Len(db.gs) \in Nat /\ Len(db.gs) <= Len(Uncrown(db.gs, W))
    BY <1>2 DEF Groups
  <2> QED BY <1>2, <1>6, <2>1, EditsGrow
<1> QED BY <1>1, <1>2, <1>7

(* -------------------- statements that edit the rows -------------------- *)

LEMMA RowsAre ==
  ASSUME SqlInv
  PROVE  /\ Rows(files, content_groups) /\ content_groups \in Groups /\ now \in Nat
         /\ Order(files, born, births)
BY DEF SqlInv, TableInv, ClockInv

LEMMA RefuseKeeps == ASSUME SqlInv, Refuse PROVE SqlInv'
BY DEF SqlInv, TableInv, ClockInv, Refuse, tables, others, Rows, Order, InUse

LEMMA ClockKeeps == ASSUME ClockInv, UNCHANGED <<now, held, session>> PROVE ClockInv'
BY DEF ClockInv

LEMMA ExecuteKeeps ==
  ASSUME SqlInv, NEW f, NEW n, Edits(files, f, content_groups), Execute(f, n)
  PROVE  SqlInv'
<1>1. files' = f /\ UNCHANGED <<content_groups, now, seen, session, held, born, births>>
  BY DEF Execute, Commit, others
<1>2. TableInv'
  BY <1>1, RowsAre, TableKept DEF SqlInv
<1> QED BY <1>1, <1>2, ClockKeeps DEF SqlInv

\* SET_MISSING
LEMMA SetMissingEdits ==
  ASSUME NEW f, NEW gs, Rows(f, gs), NEW W \in SUBSET InUse(f), NEW at
  PROVE  Edits(f, SetMissing(f, W, at), gs)
<1> DEFINE lost == {k \in W : f[k].state \notin Dead}
           set(row) == [row EXCEPT !.prev = row.state, !.state = "missing", !.ready = NULL,
                                   !.waits = NULL, !.updated = at]
<1>1. SetMissing(f, W, at) = [k \in Keys |-> IF k \in lost THEN set(f[k]) ELSE f[k]]
  BY Zenon DEF SetMissing, Updating
<1>2. \A k \in InUse(f) : k \in Keys /\ WellFormed(f[k], gs)
  BY DEF Rows, InUse, Absent, NULL
<1>3. \A k \in InUse(f) : set(f[k]).id = f[k].id /\ WellFormed(set(f[k]), gs)
  BY <1>2 DEF WellFormed, Memory!State, Memory!Lost, NULL
<1>4. lost \subseteq InUse(f)
  OBVIOUS
<1>5. \A k \in Keys \ InUse(f) : f[k] = Absent
  BY DEF Rows, WellFormed, InUse, NULL
<1> HIDE DEF lost, set
<1> QED BY <1>1, <1>2, <1>3, <1>4, <1>5 DEF Edits

LEMMA MarkMissingKeeps == ASSUME SqlInv, NEW loc, MarkMissing(loc) PROVE SqlInv'
<1> DEFINE W == {k \in InUse(files) : files[k].loc = loc}
<1>1. Execute(SetMissing(files, W, now), 1)
  BY DEF MarkMissing
<1>2. Edits(files, SetMissing(files, W, now), content_groups)
  BY RowsAre, SetMissingEdits
<1> HIDE DEF W
<1> QED BY <1>1, <1>2, ExecuteKeeps

LEMMA MarkMissingPrefixKeeps == ASSUME SqlInv, NEW dir, MarkMissingPrefix(dir) PROVE SqlInv'
<1> DEFINE W == {k \in InUse(files) : Below(files[k].loc, dir) /\ files[k].state \notin Dead}
<1>1. Execute(SetMissing(files, W, now), Cardinality(W))
  BY DEF MarkMissingPrefix
<1>2. Edits(files, SetMissing(files, W, now), content_groups)
  BY RowsAre, SetMissingEdits
<1> HIDE DEF W
<1> QED BY <1>1, <1>2, ExecuteKeeps

LEMMA RenameKeeps == ASSUME SqlInv, NEW k, NEW loc, IsLoc(loc), Rename(k, loc) PROVE SqlInv'
<1> DEFINE W == {j \in InUse(files) \ {k} : files[j].loc = loc}
           first == SetMissing(files, W, now)
           move(row) == [row EXCEPT !.loc = loc, !.updated = now]
           second == [j \in Keys |-> IF j \in {k} THEN move(first[j]) ELSE first[j]]
<1>1. \/ Refuse
      \/ k \in InUse(first) /\ Execute(second, 1)
  BY Zenon DEF Rename, Updating
<1>2. Edits(files, first, content_groups)
  BY RowsAre, SetMissingEdits
<1>3. Rows(first, content_groups)
  <2> HIDE DEF first
  <2> QED BY <1>2, RowsAre, EditsKeep
<1>4. ASSUME k \in InUse(first) PROVE Edits(first, second, content_groups)
  <2> HIDE DEF first
  <2>1. /\ \A j \in InUse(first) : j \in Keys /\ WellFormed(first[j], content_groups)
        /\ \A j \in Keys \ InUse(first) : first[j] = Absent
    BY <1>3, RowsIn
  <2>2. \A j \in InUse(first) : move(first[j]).id = first[j].id /\ WellFormed(move(first[j]), content_groups)
    BY <2>1 DEF WellFormed
  <2> HIDE DEF move
  <2> QED BY <1>4, <2>1, <2>2 DEF Edits
<1> HIDE DEF first, second
<1>5. k \in InUse(first) => Edits(files, second, content_groups)
  BY <1>2, <1>4, EditsCompose
<1> QED BY <1>1, <1>5, ExecuteKeeps, RefuseKeeps

\* A sequence over any set is a sequence over what is in it.
LEMMA PathIs == ASSUME NEW S, NEW p \in Seq(S) PROVE p \in Seq({p[i] : i \in DOMAIN p})
OBVIOUS

LEMMA PlaceIs ==
  \A a, b, root, path :
    [[[root |-> a, path |-> b] EXCEPT !.root = root] EXCEPT !.path = path] = [root |-> root, path |-> path]
<1>1. \A a, b, r : [[root |-> a, path |-> b] EXCEPT !.root = r] = [root |-> r, path |-> b]
  OBVIOUS
<1>2. \A a, b, p : [[root |-> a, path |-> b] EXCEPT !.path = p] = [root |-> a, path |-> p]
  OBVIOUS
<1> QED BY <1>1, <1>2, Zenon

\* The row of a folder that moves, as the UPDATE writes it and with its place
\* as a whole: the path stays a path.
SetPrefix(row, old, new) ==
  [row EXCEPT !.updated = now,
     !.loc.root = new.root,
     !.loc.path = new.path \o SubSeq(@, Len(old.path) + 1, Len(@))]
Moved(row, old, new) ==
  [row EXCEPT !.updated = now,
     !.loc = [root |-> new.root,
              path |-> new.path \o SubSeq(row.loc.path, Len(old.path) + 1, Len(row.loc.path))]]

LEMMA MovedIs ==
  ASSUME NEW gs, NEW row, WellFormed(row, gs), NEW old, NEW new, IsLoc(old), IsLoc(new)
  PROVE  /\ SetPrefix(row, old, new) = Moved(row, old, new)
         /\ Moved(row, old, new).id = row.id /\ WellFormed(Moved(row, old, new), gs)
<1> DEFINE rest == SubSeq(row.loc.path, Len(old.path) + 1, Len(row.loc.path))
           path == new.path \o rest
           loc  == [root |-> new.root, path |-> path]
<1>1. /\ IsLoc(row.loc)
      /\ DOMAIN row = {"id", "loc", "fp", "state", "prev", "ready", "waits", "known", "group", "skip",
                       "updated"}
  BY DEF WellFormed
<1>2. IsLoc(loc)
  <2> DEFINE S == {row.loc.path[i] : i \in DOMAIN row.loc.path}
             T == {new.path[i] : i \in DOMAIN new.path}
             U == {old.path[i] : i \in DOMAIN old.path}
  <2>1. row.loc.path \in Seq(S) /\ new.path \in Seq(T) /\ old.path \in Seq(U)
    BY <1>1 DEF IsLoc
  <2> HIDE DEF S, T, U
  <2>2. rest \in Seq(S)
    BY <2>1
  <2> HIDE DEF rest
  <2>3. path \in Seq(S \union T)
    BY <2>1, <2>2
  <2> HIDE DEF path
  <2>4. path \in Seq({path[i] : i \in DOMAIN path})
    BY <2>3, PathIs
  <2> QED BY <2>4 DEF IsLoc
<1>3. row.loc = [root |-> row.loc.root, path |-> row.loc.path]
  BY <1>1 DEF IsLoc
<1>4. SetPrefix(row, old, new) = [row EXCEPT !.updated = now, !.loc = loc]
  <2> DEFINE a == [row EXCEPT !.updated = now]
             b == [a EXCEPT !.loc = [a.loc EXCEPT !.root = new.root]]
             c == [b EXCEPT !.loc = [b.loc EXCEPT !.path = path]]
  <2>1. SetPrefix(row, old, new) = c
    BY Zenon DEF SetPrefix
  <2>2. DOMAIN a = DOMAIN row /\ a.loc = row.loc
    BY <1>1
  <2>3. b = [a EXCEPT !.loc = [row.loc EXCEPT !.root = new.root]]
    <3> HIDE DEF a
    <3> QED BY <2>2
  <2>4. DOMAIN b = DOMAIN row /\ b.loc = [row.loc EXCEPT !.root = new.root]
    <3> HIDE DEF a, b
    <3> QED BY <1>1, <2>2, <2>3
  <2>5. [b.loc EXCEPT !.path = path] = loc
    <3> HIDE DEF path
    <3>1. [[row.loc EXCEPT !.root = new.root] EXCEPT !.path = path] = loc
      BY <1>3, PlaceIs, Zenon
    <3> HIDE DEF b, loc
    <3> QED BY <2>4, <3>1
  <2>6. c = [b EXCEPT !.loc = loc]
    <3> HIDE DEF b, loc, path
    <3> QED BY <2>5
  <2>7. [b EXCEPT !.loc = loc] = [a EXCEPT !.loc = loc]
    <3> HIDE DEF a, b, loc
    <3> QED BY <1>1, <2>2, <2>3, <2>4
  <2> HIDE DEF a, b, c, loc
  <2>8. [a EXCEPT !.loc = loc] = [row EXCEPT !.updated = now, !.loc = loc]
    BY DEF a
  <2> QED BY <2>1, <2>6, <2>7, <2>8
<1>5. Moved(row, old, new) = [row EXCEPT !.updated = now, !.loc = loc]
  BY DEF Moved
<1> HIDE DEF loc
<1>6. Moved(row, old, new).id = row.id /\ WellFormed(Moved(row, old, new), gs)
  BY <1>2, <1>5 DEF WellFormed
<1> QED BY <1>4, <1>5, <1>6

LEMMA RenamePrefixKeeps ==
  ASSUME SqlInv, NEW old, NEW new, IsLoc(old), IsLoc(new), RenamePrefix(old, new) PROVE SqlInv'
<1> DEFINE W == {k \in InUse(files) : Below(files[k].loc, old)}
           f == [k \in Keys |-> IF k \in W THEN SetPrefix(files[k], old, new) ELSE files[k]]
<1>1. Execute(f, Cardinality(W))
  BY Zenon DEF RenamePrefix, Updating, SetPrefix
<1>2. /\ \A k \in InUse(files) : k \in Keys /\ WellFormed(files[k], content_groups)
      /\ \A k \in Keys \ InUse(files) : files[k] = Absent
  BY RowsAre, RowsIn
<1>3. ASSUME NEW k \in InUse(files)
      PROVE  /\ SetPrefix(files[k], old, new).id = files[k].id
             /\ WellFormed(SetPrefix(files[k], old, new), content_groups)
  <2>1. WellFormed(files[k], content_groups)
    BY <1>2
  <2>2. SetPrefix(files[k], old, new) = Moved(files[k], old, new)
    BY <2>1, MovedIs
  <2> QED BY <2>1, <2>2, MovedIs
<1>4. W \subseteq InUse(files)
  OBVIOUS
<1> HIDE DEF W
<1>5. Edits(files, f, content_groups)
  BY <1>2, <1>3, <1>4 DEF Edits
<1> QED BY <1>1, <1>5, ExecuteKeeps

LEMMA PresenceExpireKeeps == ASSUME SqlInv, NEW root, PresenceExpire(root) PROVE SqlInv'
<1> DEFINE W == {k \in InUse(files) : /\ files[k].loc.root = root /\ files[k].state = "missing"
                                     /\ files[k].updated < now}
           set(row) == [row EXCEPT !.state = "gone", !.updated = now]
           f == [k \in Keys |-> IF k \in W THEN set(files[k]) ELSE files[k]]
<1>1. Execute(f, Cardinality(W))
  BY Zenon DEF PresenceExpire, Updating
<1>2. /\ \A k \in InUse(files) : k \in Keys /\ WellFormed(files[k], content_groups)
      /\ \A k \in Keys \ InUse(files) : files[k] = Absent
      /\ now \in Nat
  BY RowsAre, RowsIn
<1>3. \A k \in InUse(files) : set(files[k]).id = files[k].id /\ WellFormed(set(files[k]), content_groups)
  BY <1>2 DEF WellFormed, Memory!State, Memory!Lost
<1>4. W \subseteq InUse(files)
  OBVIOUS
<1> HIDE DEF W, set
<1>5. Edits(files, f, content_groups)
  BY <1>2, <1>3, <1>4 DEF Edits
<1> QED BY <1>1, <1>5, ExecuteKeeps

LEMMA ParkDomainKeeps == ASSUME SqlInv, ParkDomain PROVE SqlInv'
<1> DEFINE W == {k \in InUse(files) : files[k].state = "hashed" /\ files[k].ready # NULL}
           set(row) == [row EXCEPT !.ready = NULL, !.updated = now]
           f == [k \in Keys |-> IF k \in W THEN set(files[k]) ELSE files[k]]
<1>1. Execute(f, Cardinality(W))
  BY Zenon DEF ParkDomain, Updating
<1>2. /\ \A k \in InUse(files) : k \in Keys /\ WellFormed(files[k], content_groups)
      /\ \A k \in Keys \ InUse(files) : files[k] = Absent
      /\ now \in Nat
  BY RowsAre, RowsIn
<1>3. \A k \in InUse(files) : set(files[k]).id = files[k].id /\ WellFormed(set(files[k]), content_groups)
  BY <1>2 DEF WellFormed, NULL
<1>4. W \subseteq InUse(files)
  OBVIOUS
<1> HIDE DEF W, set
<1>5. Edits(files, f, content_groups)
  BY <1>2, <1>3, <1>4 DEF Edits
<1> QED BY <1>1, <1>5, ExecuteKeeps

LEMMA UnparkDomainKeeps == ASSUME SqlInv, UnparkDomain PROVE SqlInv'
<1> DEFINE W == {k \in InUse(files) : files[k].state = "hashed" /\ files[k].ready = NULL}
           set(row) == [row EXCEPT !.ready = now, !.updated = now]
           f == [k \in Keys |-> IF k \in W THEN set(files[k]) ELSE files[k]]
<1>1. Execute(f, Cardinality(W))
  BY Zenon DEF UnparkDomain, Updating
<1>2. /\ \A k \in InUse(files) : k \in Keys /\ WellFormed(files[k], content_groups)
      /\ \A k \in Keys \ InUse(files) : files[k] = Absent
      /\ now \in Nat
  BY RowsAre, RowsIn
<1>3. \A k \in InUse(files) : set(files[k]).id = files[k].id /\ WellFormed(set(files[k]), content_groups)
  BY <1>2 DEF WellFormed, NULL
<1>4. W \subseteq InUse(files)
  OBVIOUS
<1> HIDE DEF W, set
<1>5. Edits(files, f, content_groups)
  BY <1>2, <1>3, <1>4 DEF Edits
<1> QED BY <1>1, <1>5, ExecuteKeeps

LEMMA ScanPhaseBKeeps == ASSUME SqlInv, NEW root, ScanPhaseB(root) PROVE SqlInv'
<1> DEFINE asleep(f) == {k \in InUse(f) : f[k].loc.root = root /\ f[k].state = "sized"
                                          /\ f[k].ready = NULL}
           count(body) == Cardinality({k \in InUse(files) :
                                         files[k].state \notin Dead /\ files[k].fp.body = body})
           twins    == {k \in asleep(files) : count(files[k].fp.body) > 1}
           wake(row)     == [row EXCEPT !.ready = now, !.updated = now]
           distinct(row) == [row EXCEPT !.state = "distinct", !.updated = now]
           first == [k \in Keys |-> IF k \in twins THEN wake(files[k]) ELSE files[k]]
           rest  == asleep(first)
           second == [k \in Keys |-> IF k \in rest THEN distinct(first[k]) ELSE first[k]]
<1>1. files' = second /\ UNCHANGED <<content_groups, now, seen, session, held, born, births>>
  <2>1. files' = second /\ UNCHANGED <<content_groups, others>>
    BY Zenon DEF ScanPhaseB, Updating
  <2> HIDE DEF second
  <2> QED BY <2>1 DEF others
<1>2. now \in Nat
  BY RowsAre
<1>3. Edits(files, first, content_groups)
  <2>1. /\ \A k \in InUse(files) : k \in Keys /\ WellFormed(files[k], content_groups)
        /\ \A k \in Keys \ InUse(files) : files[k] = Absent
    BY RowsAre, RowsIn
  <2>2. \A k \in InUse(files) : wake(files[k]).id = files[k].id /\ WellFormed(wake(files[k]), content_groups)
    BY <1>2, <2>1 DEF WellFormed
  <2>3. twins \subseteq InUse(files)
    OBVIOUS
  <2> HIDE DEF twins, wake
  <2> QED BY <2>1, <2>2, <2>3 DEF Edits
<1> HIDE DEF first
<1>4. Rows(first, content_groups)
  BY <1>3, RowsAre, EditsKeep
<1>5. Edits(first, second, content_groups)
  <2>1. /\ \A k \in InUse(first) : k \in Keys /\ WellFormed(first[k], content_groups)
        /\ \A k \in Keys \ InUse(first) : first[k] = Absent
    BY <1>4, RowsIn
  <2>2. \A k \in InUse(first) :
          distinct(first[k]).id = first[k].id /\ WellFormed(distinct(first[k]), content_groups)
    BY <2>1 DEF WellFormed, Memory!State
  <2>3. rest \subseteq InUse(first)
    OBVIOUS
  <2> HIDE DEF rest, distinct
  <2> QED BY <2>1, <2>2, <2>3 DEF Edits
<1> HIDE DEF second
<1>6. Edits(files, second, content_groups)
  BY <1>3, <1>5, EditsCompose
<1>7. TableInv'
  BY <1>1, <1>6, RowsAre, TableKept DEF SqlInv
<1> QED BY <1>1, <1>7, ClockKeeps DEF SqlInv

(* ---------------------- upserts, and what is held ---------------------- *)

LEMMA UpsertKeeps ==
  ASSUME SqlInv, NEW k \in Keys, NEW fp, NEW loc, IsLoc(loc), NEW wait \in Nat,
         UpsertPending(k, fp, loc, wait)
  PROVE  SqlInv'
<1> DEFINE db == UpsertInTx(Db, k, fp, loc, now + wait, Kind[loc.root])
           fresh == k \notin InUse(files)
<1>1. CASE Refuse
  BY <1>1, RefuseKeeps
<1>2. CASE ~Refuse
  <2>1. /\ files' = db.f /\ content_groups' = db.gs
        /\ births' = IF fresh THEN births + 1 ELSE births
        /\ born'   = IF fresh THEN [born EXCEPT ![k] = births + 1] ELSE born
        /\ UNCHANGED <<now, seen, session, held>>
    BY <1>2, Zenon DEF UpsertPending, Commit
  <2>2. now + wait \in Nat
    BY RowsAre
  <2>3. Db.f = files /\ Db.gs = content_groups
    BY DEF Db
  <2>4. CASE ~fresh
    <3>1. k \in InUse(Db.f) /\ Db.gs \in Groups /\ Rows(Db.f, Db.gs)
      BY <2>3, <2>4, RowsAre
    <3>2. Edits(Db.f, db.f, db.gs) /\ db.gs \in Groups
      <4> HIDE DEF Db
      <4> QED BY <2>2, <3>1, UpsertEdits
    <3> HIDE DEF db
    <3>3. TableInv'
      BY <2>1, <2>3, <2>4, <3>2, TableKept DEF SqlInv
    <3> QED BY <2>1, <3>3, ClockKeeps DEF SqlInv
  <2>5. CASE fresh
    <3> DEFINE row == Inserted(files, fp, loc, "settling", now + wait)
               f == [files EXCEPT ![k] = row]
               W == {g \in DOMAIN content_groups :
                       /\ g = NULL /\ content_groups[g].canon = row.id /\ f[k].group = NULL}
    <3>1. db = [f |-> f, gs |-> Uncrown(content_groups, W)]
      BY <2>3, <2>5 DEF UpsertInTx
    <3>2. Uncrown(content_groups, W) = content_groups
      <4>1. W = {}
        <5>1. DOMAIN content_groups = 1..Len(content_groups)
          BY RowsAre DEF Groups
        <5> QED BY <5>1 DEF NULL
      <4>2. content_groups = [g \in DOMAIN content_groups |-> content_groups[g]]
        <5>1. content_groups \in Seq([canon : Nat, verified : Nat])
          BY RowsAre DEF Groups
        <5> QED BY <5>1
      <4> QED BY <4>1, <4>2 DEF Uncrown
    <3> HIDE DEF db, W
    <3>3. row.id = NewRowid(files) /\ WellFormed(row, content_groups)
      BY <2>2, RowsAre, InsertedIs
    <3> HIDE DEF row
    <3>4. /\ Rows(f, content_groups)
          /\ Order(f, [born EXCEPT ![k] = births + 1], births + 1)
      BY <2>5, <3>3, RowsAre, InsertKeeps
    <3>5. /\ files' = f /\ content_groups' = content_groups
          /\ born' = [born EXCEPT ![k] = births + 1] /\ births' = births + 1
      BY <2>1, <2>5, <3>1, <3>2
    <3> HIDE DEF f
    <3>6. TableInv'
      BY <3>4, <3>5, RowsAre DEF TableInv
    <3> QED BY <2>1, <3>6, ClockKeeps DEF SqlInv
  <2> QED BY <2>4, <2>5
<1> QED BY <1>1, <1>2

LEMMA RestoreKeeps ==
  ASSUME SqlInv, NEW k, NEW fp, RestoreOrReset(k, fp) PROVE SqlInv'
<1> DEFINE db == UpsertInTx(Db, k, fp, files[k].loc, now, Kind[files[k].loc.root])
<1>1. UNCHANGED <<now, seen, session, held, born, births>>
  BY DEF RestoreOrReset, others
<1>2. CASE UNCHANGED tables
  BY <1>1, <1>2 DEF SqlInv, TableInv, ClockInv, tables, Rows, Order, InUse
<1>3. CASE ~UNCHANGED tables
  <2>1. k \in InUse(files) /\ files' = db.f /\ content_groups' = db.gs
    BY <1>3, Zenon DEF RestoreOrReset, Commit
  <2>2. Db.f = files /\ Db.gs = content_groups
    BY DEF Db
  <2>3. k \in InUse(Db.f) /\ Db.gs \in Groups /\ Rows(Db.f, Db.gs) /\ now \in Nat
    BY <2>1, <2>2, RowsAre
  <2>4. Edits(Db.f, db.f, db.gs) /\ db.gs \in Groups
    <3>1. IsLoc(files[k].loc)
      BY <2>1, RowsAre, RowsIn DEF WellFormed
    <3> HIDE DEF Db
    <3> QED BY <2>3, <3>1, UpsertEdits
  <2> HIDE DEF db
  <2>5. TableInv'
    BY <1>1, <2>1, <2>2, <2>4, TableKept DEF SqlInv
  <2> QED BY <1>1, <2>5, ClockKeeps DEF SqlInv
<1> QED BY <1>2, <1>3

LEMMA HoldKeeps ==
  ASSUME SqlInv, NEW name, NEW rows \in SUBSET InUse(files), Hold(name, rows) PROVE SqlInv'
<1>1. PICK k \in rows : held' = [id |-> files[k].id, from |-> files[k].state, born |-> born[k]]
  BY DEF Hold
<1>2. files[k].id \in Nat /\ files[k].state \in Memory!State /\ born[k] \in Nat
  <2>1. k \in InUse(files)
    OBVIOUS
  <2> QED BY <2>1, RowsAre, RowsIn DEF WellFormed, Order, InUse
<1>3. UNCHANGED <<now, files, content_groups, session, born, births>>
  BY DEF Hold, tables
<1>4. ClockInv'
  BY <1>1, <1>2, <1>3 DEF SqlInv, ClockInv
<1> QED BY <1>3, <1>4 DEF SqlInv, TableInv, Rows, Order, InUse

LEMMA TakesKeep ==
  ASSUME SqlInv PROVE /\ \A heavy : Take(heavy) => SqlInv'
                      /\ \A loc : TakeFinished(loc) => SqlInv'
<1>1. ASSUME NEW heavy, Take(heavy) PROVE SqlInv'
  <2>1. NextReady(heavy) \subseteq InUse(files)
    BY DEF NextReady, FirstOf
  <2> QED BY <1>1, <2>1, HoldKeeps DEF Take
<1>2. ASSUME NEW loc, TakeFinished(loc) PROVE SqlInv'
  <2> DEFINE rows == {k \in FindByPath(loc) : Undoing /\ files[k].state = "canonical"}
  <2>1. FindByPath(loc) \subseteq InUse(files)
    BY DEF FindByPath, FirstOf
  <2>2. rows \subseteq InUse(files)
    BY <2>1
  <2>3. Hold(<<"find_by_path", loc>>, rows)
    BY <1>2 DEF TakeFinished
  <2> HIDE DEF rows
  <2> QED BY <2>2, <2>3, HoldKeeps
<1> QED BY <1>1, <1>2

(* ------------------- sessions, the clock and purging ------------------- *)

LEMMA SessionKeeps ==
  ASSUME SqlInv, UNCHANGED <<files, content_groups, now, held, born, births>>,
         session' \subseteq Roots, \A r, s \in session' : r = s
  PROVE  SqlInv'
<1>1. ClockInv'
  BY DEF SqlInv, ClockInv
<1> QED BY <1>1 DEF SqlInv, TableInv, Rows, Order, InUse

LEMMA BeginKeeps == ASSUME SqlInv, NEW root \in Roots, PresenceBegin(root) PROVE SqlInv'
<1>1. CASE Refuse
  BY <1>1, RefuseKeeps
<1>2. CASE ~Refuse
  <2>1. session' = {root} /\ UNCHANGED <<files, content_groups, now, held, born, births>>
    BY <1>2 DEF PresenceBegin, tables
  <2> QED BY <2>1, SessionKeeps
<1> QED BY <1>1, <1>2

LEMMA AbortKeeps == ASSUME SqlInv, PresenceAbort PROVE SqlInv'
<1>1. session' = {} /\ UNCHANGED <<files, content_groups, now, held, born, births>>
  BY DEF PresenceAbort, DropSession, tables
<1> QED BY <1>1, SessionKeeps

LEMMA FinishKeeps == ASSUME SqlInv, NEW root, NEW scan_id, PresenceFinish(root, scan_id) PROVE SqlInv'
<1> DEFINE W == {k \in InUse(files) : /\ files[k].loc.root = root /\ files[k].state \notin Dead
                                      /\ files[k].updated < scan_id /\ k \notin seen}
<1>1. CASE Refuse
  BY <1>1, RefuseKeeps
<1>2. CASE ~Refuse
  <2>1. /\ files' = SetMissing(files, W, scan_id) /\ DropSession
        /\ UNCHANGED <<now, content_groups, held, born, births>>
    BY <1>2, Zenon DEF PresenceFinish
  <2>2. Edits(files, SetMissing(files, W, scan_id), content_groups)
    BY RowsAre, SetMissingEdits
  <2> HIDE DEF W
  <2>3. TableInv'
    BY <2>1, <2>2, RowsAre, TableKept DEF SqlInv
  <2> QED BY <2>1, <2>3 DEF SqlInv, ClockInv, DropSession
<1> QED BY <1>1, <1>2

LEMMA PurgeKeeps == ASSUME SqlInv, Purge PROVE SqlInv'
<1> DEFINE W   == {k \in InUse(files) : files[k].state = "gone" /\ files[k].updated < now}
           ids == {files[k].id : k \in W}
           gs  == {g \in DOMAIN content_groups : content_groups[g].canon \in ids}
           f   == [k \in Keys |-> IF k \in W THEN Absent ELSE files[k]]
<1>1. /\ content_groups' = Uncrown(content_groups, gs) /\ files' = f
      /\ UNCHANGED <<now, seen, session, held, born, births>>
  BY DEF Purge, others
<1>2. content_groups' \in Groups /\ Len(content_groups') = Len(content_groups)
  <2> HIDE DEF gs
  <2> QED BY <1>1, RowsAre, UncrownIs
<1>3. Rows(f, content_groups')
  <2>1. Edits(files, files, content_groups')
    <3>1. Len(content_groups) <= Len(content_groups')
      BY <1>2, RowsAre DEF Groups
    <3> QED BY <1>2, <3>1, RowsAre, EditsNothing, EditsGrow
  <2>2. \A k \in Keys : files[k] = Absent \/ WellFormed(files[k], content_groups')
    BY <2>1, RowsAre, RowsIn DEF Edits
  <2> HIDE DEF W
  <2> QED BY <2>2 DEF Rows
<1>4. Order(f, born, births)
  <2>1. \A k \in InUse(f) : k \in InUse(files) /\ f[k] = files[k]
    <3> HIDE DEF W
    <3> QED BY DEF InUse, Absent, NULL
  <2> HIDE DEF f
  <2> QED BY <2>1, RowsAre DEF Order
<1> HIDE DEF f
<1>5. TableInv'
  BY <1>1, <1>2, <1>3, <1>4 DEF TableInv
<1> QED BY <1>1, <1>5, ClockKeeps DEF SqlInv

LEMMA TickKeeps == ASSUME SqlInv, Tick PROVE SqlInv'
<1>1. now' = now + 1 /\ UNCHANGED <<files, content_groups, seen, session, held, born, births>>
  BY DEF Tick, tables
<1> QED BY <1>1 DEF SqlInv, TableInv, ClockInv, Rows, Order, InUse

(* ------------------------ a batch of insertions ------------------------ *)

\* The greatest place of a part of a list that has the last one.
LEMMA LastIsMax ==
  ASSUME NEW n \in Nat, NEW s \in SUBSET (1..n), n \in s
  PROVE  Max(s) = n
<1>1. \E x \in s : \A y \in s : x >= y
  OBVIOUS
<1>2. Max(s) \in s /\ \A y \in s : Max(s) >= y
  BY <1>1, Zenon DEF Max
<1>3. \A m \in s : m >= n => m = n
  OBVIOUS
<1> QED BY <1>2, <1>3

\* The table half way through a batch, with n rows inserted.
Half(acc) ==
  /\ DOMAIN acc = {"f", "n", "born", "bad"} /\ acc.n \in Nat
  /\ Rows(acc.f, content_groups) /\ Order(acc.f, acc.born, births + acc.n)

LEMMA InsertEntryIs ==
  ASSUME SqlInv, NEW acc, Half(acc), NEW e, e.key \in Keys, IsLoc(e.loc),
         e.state \in {"settling", "sized"}
  PROVE  Half(InsertEntry(acc, e))
<1> DEFINE ready == IF e.state = "sized" THEN NULL ELSE now
           row == Inserted(acc.f, e.fp, e.loc, e.state, ready)
           full == [acc EXCEPT !.n = @ + 1, !.born[e.key] = births + acc.n + 1, !.f[e.key] = row]
<1>0. births \in Nat /\ now \in Nat
  BY RowsAre DEF Order
<1>1. CASE acc.bad \/ e.loc.root \notin DOMAIN Kind
  <2>1. InsertEntry(acc, e) = [acc EXCEPT !.bad = TRUE]
    BY <1>1 DEF InsertEntry
  <2> QED BY <2>1 DEF Half
<1>2. CASE ~(acc.bad \/ e.loc.root \notin DOMAIN Kind) /\ e.key \in InUse(acc.f)
  BY <1>2 DEF InsertEntry
<1>3. CASE ~(acc.bad \/ e.loc.root \notin DOMAIN Kind) /\ e.key \notin InUse(acc.f)
  <2>1. InsertEntry(acc, e) = full
    BY <1>3, Zenon DEF InsertEntry
  <2>2. ready \in Nat
    BY <1>0 DEF NULL
  <2> HIDE DEF ready
  <2>3. row.id = NewRowid(acc.f) /\ WellFormed(row, content_groups)
    BY <2>2, RowsAre, InsertedIs DEF Half
  <2> HIDE DEF row
  <2>4. /\ DOMAIN full = {"f", "n", "born", "bad"} /\ full.n = acc.n + 1
        /\ full.born = [acc.born EXCEPT ![e.key] = births + acc.n + 1]
        /\ full.f = [acc.f EXCEPT ![e.key] = row]
    BY DEF Half
  <2> HIDE DEF full
  <2> DEFINE n == births + acc.n
  <2>5. n + 1 = births + (acc.n + 1) /\ n + 1 = births + acc.n + 1
    BY <1>0 DEF Half
  <2>6. Rows(full.f, content_groups) /\ Order(full.f, full.born, n + 1)
    <3>1. Rows(acc.f, content_groups) /\ Order(acc.f, acc.born, n) /\ e.key \in Keys \ InUse(acc.f)
      BY <1>3 DEF Half
    <3> HIDE DEF n
    <3>2. full.born = [acc.born EXCEPT ![e.key] = n + 1]
      BY <2>4, <2>5
    <3> QED BY <2>3, <2>4, <3>1, <3>2, InsertKeeps
  <2>7. acc.n + 1 \in Nat
    BY DEF Half
  <2> HIDE DEF n
  <2> QED BY <2>1, <2>4, <2>5, <2>6, <2>7 DEF Half
<1> QED BY <1>1, <1>2, <1>3

\* The fold over the batch is the entries one after the other.
LEMMA InsertUnfolds ==
  ASSUME NEW batch, IsBatch(batch)
  PROVE  \E a : /\ a[0] = [f |-> files, n |-> 0, born |-> born, bad |-> FALSE]
                /\ \A n \in 1..Len(batch) : a[n] = InsertEntry(a[n - 1], batch[n])
                /\ InsertBatch(batch) = a[Len(batch)]
<1> DEFINE start == [f |-> files, n |-> 0, born |-> born, bad |-> FALSE]
           N == Len(batch)
           Body(g, s) == IF s = {} THEN start
                         ELSE InsertEntry(g[s \ {Max(s)}], batch[Max(s)])
           Unfolds(n) == \E g : g = [s \in SUBSET (1..n) |-> Body(g, s)]
           acc == CHOOSE g : g = [s \in SUBSET (DOMAIN batch) |-> Body(g, s)]
<1>1. N \in Nat /\ DOMAIN batch = 1..N
  BY DEF IsBatch
<1>2. Unfolds(N)
  <2>1. SUFFICES ASSUME ~Unfolds(N) PROVE FALSE
    OBVIOUS
  <2> DEFINE C == {n \in Nat : ~Unfolds(n)}
  <2>2. PICK n \in C : \A k \in C : n <= k
    <3>1. C # {} /\ C \in SUBSET Nat
      BY <1>1, <2>1
    <3> HIDE DEF C
    <3> QED BY <3>1, LeastExists
  <2>3. n # 0
    <3> DEFINE g == [s \in SUBSET (1..0) |-> start]
    <3>1. \A s \in SUBSET (1..0) : s = {}
      OBVIOUS
    <3>2. g = [s \in SUBSET (1..0) |-> Body(g, s)]
      BY <3>1
    <3>3. Unfolds(0)
      BY <3>2
    <3> QED BY <2>2, <3>3
  <2>4. n \in Nat /\ n - 1 \in Nat
    BY <2>2, <2>3
  <2>5. Unfolds(n - 1)
    <3> HIDE DEF Unfolds
    <3>1. ~(n <= n - 1)
      BY <2>4
    <3> QED BY <2>2, <2>4, <3>1
  <2>6. PICK g : g = [s \in SUBSET (1..(n - 1)) |-> Body(g, s)]
    BY <2>5
  <2> DEFINE h == [s \in SUBSET (1..n) |-> IF n \in s THEN InsertEntry(g[s \ {n}], batch[n])
                                           ELSE g[s]]
  <2>7. ASSUME NEW s \in SUBSET (1..n) PROVE h[s] = Body(h, s)
    <3>1. CASE n \in s
      <4>1. Max(s) = n
        BY <2>4, <3>1, LastIsMax
      <4>2. s \ {n} \in SUBSET (1..n) /\ n \notin s \ {n} /\ s # {}
        BY <3>1
      <4>3. h[s \ {n}] = g[s \ {n}]
        BY <4>2
      <4>4. h[s] = InsertEntry(g[s \ {n}], batch[n])
        BY <3>1
      <4> HIDE DEF h
      <4> QED BY <4>1, <4>2, <4>3, <4>4
    <3>2. CASE n \notin s
      <4>1. s \in SUBSET (1..(n - 1))
        BY <2>4, <3>2
      <4>2. h[s] = g[s]
        BY <3>2
      <4>3. g[s] = Body(g, s)
        BY <2>6, <4>1, Zenon
      <4>4. s \ {Max(s)} \in SUBSET (1..n) /\ n \notin s \ {Max(s)}
        BY <3>2
      <4>5. h[s \ {Max(s)}] = g[s \ {Max(s)}]
        BY <4>4
      <4> HIDE DEF h
      <4> QED BY <4>2, <4>3, <4>5
    <3> QED BY <3>1, <3>2
  <2>8. h = [s \in SUBSET (1..n) |-> Body(h, s)]
    <3>1. \A s \in SUBSET (1..n) : h[s] = Body(h, s)
      BY <2>7
    <3>2. h = [s \in SUBSET (1..n) |-> h[s]]
      OBVIOUS
    <3> HIDE DEF h
    <3> QED BY <3>1, <3>2, Zenon
  <2>9. Unfolds(n)
    BY <2>8
  <2> QED BY <2>2, <2>9
<1>3. acc = [s \in SUBSET (1..N) |-> Body(acc, s)]
  BY <1>1, <1>2
<1>4. InsertBatch(batch) = acc[DOMAIN batch]
  BY DEF InsertBatch, FoldLeft, MapThenFoldSet
<1> DEFINE a == [n \in 0..N |-> acc[1..n]]
<1> HIDE DEF acc
<1>5. a[0] = start
  <2>1. 1..0 = {} /\ {} \in SUBSET (1..N)
    OBVIOUS
  <2>2. acc[{}] = Body(acc, {})
    BY <1>3, <2>1, Zenon
  <2> QED BY <1>1, <2>1, <2>2
<1>6. ASSUME NEW n \in 1..N PROVE a[n] = InsertEntry(a[n - 1], batch[n])
  <2>0. n \in Nat /\ N \in Nat /\ n >= 1 /\ n <= N
    BY <1>1
  <2> HIDE DEF N
  <2>1. 1..n \in SUBSET (1..N) /\ 1..n # {} /\ n \in 1..n
    BY <2>0
  <2>6. (1..n) \ {n} = 1..(n - 1)
    BY <2>0
  <2>2. Max(1..n) = n
    BY <2>1, LastIsMax
  <2>3. acc[1..n] = Body(acc, 1..n)
    BY <1>3, <2>1, Zenon
  <2>4. acc[1..n] = InsertEntry(acc[1..(n - 1)], batch[n])
    BY <2>1, <2>2, <2>3, <2>6
  <2>5. n \in 0..N /\ n - 1 \in 0..N
    BY <1>1
  <2> QED BY <2>4, <2>5
<1>7. InsertBatch(batch) = a[N]
  BY <1>1, <1>4
<1> HIDE DEF a, start
<1> QED BY <1>5, <1>6, <1>7 DEF start

LEMMA InsertBatchIs ==
  ASSUME SqlInv, NEW batch, IsBatch(batch),
         \A i \in DOMAIN batch :
           batch[i].key \in Keys /\ IsLoc(batch[i].loc) /\ batch[i].state \in {"settling", "sized"}
  PROVE  Half(InsertBatch(batch))
<1> DEFINE start == [f |-> files, n |-> 0, born |-> born, bad |-> FALSE]
           N == Len(batch)
<1>0. Half(start)
  <2>1. births + 0 = births
    BY RowsAre DEF Order
  <2> QED BY <2>1, RowsAre DEF Half
<1>1. N \in Nat /\ DOMAIN batch = 1..N
  BY DEF IsBatch
<1>2. PICK a : /\ a[0] = start
               /\ \A n \in 1..N : a[n] = InsertEntry(a[n - 1], batch[n])
               /\ InsertBatch(batch) = a[N]
  BY InsertUnfolds
<1>3. \A n \in 0..N : Half(a[n])
  <2> DEFINE C == {n \in 0..N : ~Half(a[n])}
  <2>1. SUFFICES ASSUME C # {} PROVE FALSE
    OBVIOUS
  <2>2. PICK n \in C : \A k \in C : n <= k
    <3>1. C \in SUBSET Nat
      BY <1>1
    <3> HIDE DEF C
    <3> QED BY <2>1, <3>1, LeastExists
  <2>3. n # 0
    BY <1>0, <1>2, <2>2
  <2>4. n \in 1..N /\ n - 1 \in 0..N /\ ~(n <= n - 1)
    BY <1>1, <2>2, <2>3
  <2>5. Half(a[n - 1])
    BY <2>2, <2>4
  <2>6. Half(InsertEntry(a[n - 1], batch[n]))
    BY <1>1, <2>4, <2>5, InsertEntryIs
  <2> QED BY <1>2, <2>2, <2>4, <2>6
<1>4. Half(a[N])
  BY <1>1, <1>3
<1> HIDE DEF start, N
<1> QED BY <1>2, <1>4

LEMMA ScanInsertKeeps == ASSUME SqlInv, NEW batch \in ScanBatches, ScanInsert(batch) PROVE SqlInv'
<1> DEFINE end == InsertBatch(batch)
<1>1. Half(end)
  <2>1. /\ IsBatch(batch)
        /\ \A i \in DOMAIN batch :
             batch[i].key \in Keys /\ IsLoc(batch[i].loc) /\ batch[i].state \in {"settling", "sized"}
    BY CallAssumption
  <2> QED BY <2>1, InsertBatchIs
<1>2. CASE Refuse
  BY <1>2, RefuseKeeps
<1>3. CASE ~Refuse
  <2>1. /\ files' = end.f /\ born' = end.born /\ births' = births + end.n
        /\ UNCHANGED <<now, content_groups, seen, session, held>>
    BY <1>3, Zenon DEF ScanInsert
  <2> HIDE DEF end
  <2>2. TableInv'
    BY <1>1, <2>1, RowsAre DEF TableInv, Half
  <2> QED BY <2>1, <2>2, ClockKeeps DEF SqlInv
<1> QED BY <1>2, <1>3

(* ----------------------- a batch of a presence scan -------------------- *)

\* The tables half way through a batch.
Noted(acc) ==
  /\ DOMAIN acc = {"db", "seen", "n", "bad"}
  /\ acc.db.gs \in Groups /\ Edits(files, acc.db.f, acc.db.gs)

LEMMA NoteEntryIs ==
  ASSUME SqlInv, NEW acc, Noted(acc), NEW e, IsLoc(e.loc) PROVE Noted(NoteEntry(acc, e))
<1> DEFINE noted == [acc EXCEPT !.seen = @ \union {e.key}]
           missing == e.key \in InUse(acc.db.f) /\ acc.db.f[e.key].state = "missing"
           db == UpsertInTx(acc.db, e.key, e.fp, e.loc, now, Kind[e.loc.root])
<1>1. NoteEntry(acc, e) = IF acc.bad THEN acc
                          ELSE IF ~missing THEN noted
                          ELSE IF e.loc.root \notin DOMAIN Kind THEN [noted EXCEPT !.bad = TRUE]
                          ELSE [noted EXCEPT !.n = @ + 1,
                                  !.db = UpsertInTx(@, e.key, e.fp, e.loc, now, Kind[e.loc.root])]
  BY Zenon DEF NoteEntry
<1>2. DOMAIN noted = {"db", "seen", "n", "bad"} /\ noted.db = acc.db
  BY DEF Noted
<1>3. [noted EXCEPT !.n = @ + 1,
                    !.db = UpsertInTx(@, e.key, e.fp, e.loc, now, Kind[e.loc.root])]
        = [noted EXCEPT !.n = @ + 1, !.db = db]
  BY <1>2
<1> HIDE DEF noted
<1>4. Noted(noted) /\ Noted([noted EXCEPT !.bad = TRUE])
  BY <1>2 DEF Noted
<1>5. ASSUME missing PROVE Noted([noted EXCEPT !.n = @ + 1, !.db = db])
  <2>1. Rows(acc.db.f, acc.db.gs) /\ now \in Nat
    BY RowsAre, EditsKeep DEF Noted
  <2>2. Edits(acc.db.f, db.f, db.gs) /\ db.gs \in Groups
    BY <1>5, <2>1, UpsertEdits DEF Noted
  <2> HIDE DEF db
  <2>3. Edits(files, db.f, db.gs)
    BY <2>2, EditsCompose DEF Noted
  <2> QED BY <1>2, <2>2, <2>3 DEF Noted
<1> HIDE DEF missing, db
<1> QED BY <1>1, <1>3, <1>4, <1>5

LEMMA NoteUnfolds ==
  ASSUME NEW batch, IsBatch(batch)
  PROVE  \E a : /\ a[0] = [db |-> Db, seen |-> seen, n |-> 0, bad |-> FALSE]
                /\ \A n \in 1..Len(batch) : a[n] = NoteEntry(a[n - 1], batch[n])
                /\ NoteBatch(batch) = a[Len(batch)]
<1> DEFINE start == [db |-> Db, seen |-> seen, n |-> 0, bad |-> FALSE]
           N == Len(batch)
           Body(g, s) == IF s = {} THEN start
                         ELSE NoteEntry(g[s \ {Max(s)}], batch[Max(s)])
           Unfolds(n) == \E g : g = [s \in SUBSET (1..n) |-> Body(g, s)]
           acc == CHOOSE g : g = [s \in SUBSET (DOMAIN batch) |-> Body(g, s)]
<1>1. N \in Nat /\ DOMAIN batch = 1..N
  BY DEF IsBatch
<1>2. Unfolds(N)
  <2>1. SUFFICES ASSUME ~Unfolds(N) PROVE FALSE
    OBVIOUS
  <2> DEFINE C == {n \in Nat : ~Unfolds(n)}
  <2>2. PICK n \in C : \A k \in C : n <= k
    <3>1. C # {} /\ C \in SUBSET Nat
      BY <1>1, <2>1
    <3> HIDE DEF C
    <3> QED BY <3>1, LeastExists
  <2>3. n # 0
    <3> DEFINE g == [s \in SUBSET (1..0) |-> start]
    <3>1. \A s \in SUBSET (1..0) : s = {}
      OBVIOUS
    <3>2. g = [s \in SUBSET (1..0) |-> Body(g, s)]
      BY <3>1
    <3>3. Unfolds(0)
      BY <3>2
    <3> QED BY <2>2, <3>3
  <2>4. n \in Nat /\ n - 1 \in Nat
    BY <2>2, <2>3
  <2>5. Unfolds(n - 1)
    <3> HIDE DEF Unfolds
    <3>1. ~(n <= n - 1)
      BY <2>4
    <3> QED BY <2>2, <2>4, <3>1
  <2>6. PICK g : g = [s \in SUBSET (1..(n - 1)) |-> Body(g, s)]
    BY <2>5
  <2> DEFINE h == [s \in SUBSET (1..n) |-> IF n \in s THEN NoteEntry(g[s \ {n}], batch[n])
                                           ELSE g[s]]
  <2>7. ASSUME NEW s \in SUBSET (1..n) PROVE h[s] = Body(h, s)
    <3>1. CASE n \in s
      <4>1. Max(s) = n
        BY <2>4, <3>1, LastIsMax
      <4>2. s \ {n} \in SUBSET (1..n) /\ n \notin s \ {n} /\ s # {}
        BY <3>1
      <4>3. h[s \ {n}] = g[s \ {n}]
        BY <4>2
      <4>4. h[s] = NoteEntry(g[s \ {n}], batch[n])
        BY <3>1
      <4> HIDE DEF h
      <4> QED BY <4>1, <4>2, <4>3, <4>4
    <3>2. CASE n \notin s
      <4>1. s \in SUBSET (1..(n - 1))
        BY <2>4, <3>2
      <4>2. h[s] = g[s]
        BY <3>2
      <4>3. g[s] = Body(g, s)
        BY <2>6, <4>1, Zenon
      <4>4. s \ {Max(s)} \in SUBSET (1..n) /\ n \notin s \ {Max(s)}
        BY <3>2
      <4>5. h[s \ {Max(s)}] = g[s \ {Max(s)}]
        BY <4>4
      <4> HIDE DEF h
      <4> QED BY <4>2, <4>3, <4>5
    <3> QED BY <3>1, <3>2
  <2>8. h = [s \in SUBSET (1..n) |-> Body(h, s)]
    <3>1. \A s \in SUBSET (1..n) : h[s] = Body(h, s)
      BY <2>7
    <3>2. h = [s \in SUBSET (1..n) |-> h[s]]
      OBVIOUS
    <3> HIDE DEF h
    <3> QED BY <3>1, <3>2, Zenon
  <2>9. Unfolds(n)
    BY <2>8
  <2> QED BY <2>2, <2>9
<1>3. acc = [s \in SUBSET (1..N) |-> Body(acc, s)]
  BY <1>1, <1>2
<1>4. NoteBatch(batch) = acc[DOMAIN batch]
  BY DEF NoteBatch, FoldLeft, MapThenFoldSet
<1> DEFINE a == [n \in 0..N |-> acc[1..n]]
<1> HIDE DEF acc
<1>5. a[0] = start
  <2>1. 1..0 = {} /\ {} \in SUBSET (1..N)
    OBVIOUS
  <2>2. acc[{}] = Body(acc, {})
    BY <1>3, <2>1, Zenon
  <2> QED BY <1>1, <2>1, <2>2
<1>6. ASSUME NEW n \in 1..N PROVE a[n] = NoteEntry(a[n - 1], batch[n])
  <2>0. n \in Nat /\ N \in Nat /\ n >= 1 /\ n <= N
    BY <1>1
  <2> HIDE DEF N
  <2>1. 1..n \in SUBSET (1..N) /\ 1..n # {} /\ n \in 1..n
    BY <2>0
  <2>6. (1..n) \ {n} = 1..(n - 1)
    BY <2>0
  <2>2. Max(1..n) = n
    BY <2>1, LastIsMax
  <2>3. acc[1..n] = Body(acc, 1..n)
    BY <1>3, <2>1, Zenon
  <2>4. acc[1..n] = NoteEntry(acc[1..(n - 1)], batch[n])
    BY <2>1, <2>2, <2>3, <2>6
  <2>5. n \in 0..N /\ n - 1 \in 0..N
    BY <1>1
  <2> QED BY <2>4, <2>5
<1>7. NoteBatch(batch) = a[N]
  BY <1>1, <1>4
<1> HIDE DEF a, start
<1> QED BY <1>5, <1>6, <1>7 DEF start

LEMMA NoteBatchIs ==
  ASSUME SqlInv, NEW batch, IsBatch(batch), \A i \in DOMAIN batch : IsLoc(batch[i].loc)
  PROVE  Noted(NoteBatch(batch))
<1> DEFINE start == [db |-> Db, seen |-> seen, n |-> 0, bad |-> FALSE]
           N == Len(batch)
<1>0. Noted(start)
  BY RowsAre, EditsNothing DEF Noted, Db
<1>1. N \in Nat /\ DOMAIN batch = 1..N
  BY DEF IsBatch
<1>2. PICK a : /\ a[0] = start
               /\ \A n \in 1..N : a[n] = NoteEntry(a[n - 1], batch[n])
               /\ NoteBatch(batch) = a[N]
  BY NoteUnfolds
<1>3. \A n \in 0..N : Noted(a[n])
  <2> DEFINE C == {n \in 0..N : ~Noted(a[n])}
  <2>1. SUFFICES ASSUME C # {} PROVE FALSE
    OBVIOUS
  <2>2. PICK n \in C : \A k \in C : n <= k
    <3>1. C \in SUBSET Nat
      BY <1>1
    <3> HIDE DEF C
    <3> QED BY <2>1, <3>1, LeastExists
  <2>3. n # 0
    BY <1>0, <1>2, <2>2
  <2>4. n \in 1..N /\ n - 1 \in 0..N /\ ~(n <= n - 1)
    BY <1>1, <2>2, <2>3
  <2>5. Noted(a[n - 1])
    BY <2>2, <2>4
  <2>6. Noted(NoteEntry(a[n - 1], batch[n]))
    BY <1>1, <2>4, <2>5, NoteEntryIs
  <2> QED BY <1>2, <2>2, <2>4, <2>6
<1>4. Noted(a[N])
  BY <1>1, <1>3
<1> HIDE DEF start, N
<1> QED BY <1>2, <1>4

LEMMA SeenKeeps == ASSUME SqlInv, NEW batch \in SeenBatches, PresenceSeen(batch) PROVE SqlInv'
<1> DEFINE end == NoteBatch(batch)
<1>1. Noted(end)
  <2>1. IsBatch(batch) /\ \A i \in DOMAIN batch : IsLoc(batch[i].loc)
    BY CallAssumption
  <2> QED BY <2>1, NoteBatchIs
<1>2. CASE Refuse
  BY <1>2, RefuseKeeps
<1>3. CASE UNCHANGED <<now, tables, session, held, born, births>>
  BY <1>3 DEF SqlInv, TableInv, ClockInv, tables, Rows, Order, InUse
<1>4. CASE Commit(end.db) /\ UNCHANGED <<now, session, held, born, births>>
  <2> HIDE DEF end
  <2>1. TableInv'
    BY <1>1, <1>4, RowsAre, TableKept DEF SqlInv, Commit, Noted
  <2> QED BY <1>4, <2>1, ClockKeeps DEF SqlInv
<1> HIDE DEF end
<1>5. \/ Refuse
      \/ UNCHANGED <<now, tables, session, held, born, births>>
      \/ Commit(end.db) /\ UNCHANGED <<now, session, held, born, births>>
  BY Zenon DEF PresenceSeen, end
<1> QED BY <1>2, <1>3, <1>4, <1>5

(* ------------------- a requeue of the allowed folders ------------------ *)

\* The rows an UPDATE for each directory of s hits, and the table after them.
Verified(s) ==
  {k \in InUse(files) : files[k].state = "verified" /\ \E a \in s : Below(files[k].loc, a)}
Requeued(row) == [row EXCEPT !.state = "hashed", !.ready = now, !.updated = now]
Requeues(acc, s) ==
  /\ DOMAIN acc.f = Keys /\ acc.n = Cardinality(Verified(s))
  /\ \A k \in Keys : acc.f[k] = IF k \in Verified(s) THEN Requeued(files[k]) ELSE files[k]

\* One more UPDATE hits the rows of its directory that none before it has hit.
LEMMA RequeueBelowIs ==
  ASSUME SqlInv, NEW acc, NEW s, NEW a, Requeues(acc, s)
  PROVE  Requeues(RequeueBelow(a, acc), s \union {a})
<1> DEFINE f == acc.f
           W == {k \in InUse(f) : f[k].state = "verified" /\ Below(f[k].loc, a)}
           t == s \union {a}
           set(row) == [row EXCEPT !.state = "hashed", !.ready = now, !.updated = now]
           g == [k \in Keys |-> IF k \in W THEN set(f[k]) ELSE f[k]]
<1>1. \A k \in InUse(files) : k \in Keys /\ WellFormed(files[k], content_groups)
  BY RowsAre, RowsIn
<1>2. /\ acc.n = Cardinality(Verified(s))
      /\ Verified(s) \subseteq InUse(files) /\ Verified(t) \subseteq InUse(files)
  BY DEF Requeues, Verified
<1>3. \A k \in InUse(files) : /\ Requeued(files[k]).state = "hashed"
                              /\ Requeued(files[k]).id = files[k].id
  BY <1>1 DEF WellFormed, Requeued
<1>4. \A k \in Keys : f[k] = IF k \in Verified(s) THEN Requeued(files[k]) ELSE files[k]
  BY DEF Requeues
<1>5. RequeueBelow(a, acc) = [f |-> g, n |-> acc.n + Cardinality(W)]
  BY Zenon DEF RequeueBelow, Updating
<1> HIDE DEF f
<1>6. \A k \in Keys : k \in InUse(f) <=> k \in InUse(files)
  BY <1>2, <1>3, <1>4 DEF InUse
<1>7. \A k : k \in W <=> k \in Verified(t) \ Verified(s)
  <2>1. \A k : k \in InUse(f) <=> k \in InUse(files)
    BY <1>6 DEF InUse
  <2>2. \A k \in InUse(files) \ Verified(s) : f[k] = files[k]
    BY <1>1, <1>4
  <2>3. \A k \in Verified(s) : f[k].state = "hashed"
    BY <1>1, <1>2, <1>3, <1>4
  <2>4. \A k : k \in W <=> k \in InUse(files) \ Verified(s) /\ files[k].state = "verified" /\ Below(files[k].loc, a)
    BY <2>1, <2>2, <2>3
  <2> HIDE DEF W
  <2> QED BY <2>4 DEF Verified
<1>8. Verified(s) \subseteq Verified(t)
  BY DEF Verified
<1> HIDE DEF W, t
<1>9. Cardinality(Verified(t)) = Cardinality(Verified(s)) + Cardinality(W)
  <2>1. IsFiniteSet(Verified(s)) /\ IsFiniteSet(W)
    <3>1. Verified(s) \subseteq Keys /\ W \subseteq Keys
      BY <1>1, <1>2, <1>7
    <3> QED BY <3>1, TableAssumption, FS_Subset
  <2>2. Verified(t) = Verified(s) \union W /\ Verified(s) \cap W = {}
    BY <1>7, <1>8
  <2>3. Cardinality(Verified(s) \union W)
          = Cardinality(Verified(s)) + Cardinality(W) - Cardinality(Verified(s) \cap W)
    BY <2>1, FS_Union
  <2>4. /\ Cardinality(Verified(s) \cap W) = 0
        /\ Cardinality(Verified(s)) \in Nat /\ Cardinality(W) \in Nat
    BY <2>1, <2>2, FS_EmptySet, FS_CardinalityType
  <2> QED BY <2>2, <2>3, <2>4
<1>10. g = [k \in Keys |-> IF k \in Verified(t) THEN Requeued(files[k]) ELSE files[k]]
  <2>1. \A row : set(row) = Requeued(row)
    BY DEF Requeued
  <2> HIDE DEF set
  <2>2. \A k \in Keys : (IF k \in W THEN set(f[k]) ELSE f[k])
                          = IF k \in Verified(t) THEN Requeued(files[k]) ELSE files[k]
    BY <1>4, <1>7, <1>8, <2>1
  <2> QED BY <2>2
<1> HIDE DEF g
<1> QED BY <1>2, <1>5, <1>9, <1>10 DEF Requeues, t

LEMMA RequeueAllIs ==
  ASSUME SqlInv, NEW allow, IsFiniteSet(allow) PROVE Requeues(RequeueAll(allow), allow)
<1> DEFINE base == [f |-> files, n |-> 0]
           Pick(s) == CHOOSE x \in s : TRUE
           Body(g, s) == IF s = {} THEN base ELSE RequeueBelow(Pick(s), g[s \ {Pick(s)}])
           Small(n) == {s \in SUBSET allow : Cardinality(s) <= n}
           Unfolds(n) == \E g : g = [s \in Small(n) |-> Body(g, s)]
           N == Cardinality(allow)
           acc == CHOOSE g : g = [s \in SUBSET allow |-> Body(g, s)]
<1>1. N \in Nat
  BY FS_CardinalityType
<1>2. \A s \in SUBSET allow : Cardinality(s) \in Nat /\ Cardinality(s) <= N
  BY FS_Subset, FS_CardinalityType
<1>3. ASSUME NEW s \in SUBSET allow, s # {}
      PROVE  /\ s \ {Pick(s)} \in SUBSET allow /\ Pick(s) \in s
             /\ Cardinality(s \ {Pick(s)}) = Cardinality(s) - 1
  <2>1. Pick(s) \in s
    BY <1>3
  <2>2. IsFiniteSet(s)
    BY FS_Subset
  <2> HIDE DEF Pick
  <2> QED BY <2>1, <2>2, FS_RemoveElement
<1>4. Cardinality({}) = 0 /\ {} \in SUBSET allow
  BY FS_EmptySet
<1>5. Unfolds(N)
  <2>1. SUFFICES ASSUME ~Unfolds(N) PROVE FALSE
    OBVIOUS
  <2> DEFINE C == {n \in Nat : ~Unfolds(n)}
  <2>2. PICK n \in C : \A k \in C : n <= k
    <3>1. C # {} /\ C \in SUBSET Nat
      BY <1>1, <2>1
    <3> HIDE DEF C
    <3> QED BY <3>1, LeastExists
  <2>3. n # 0
    <3> DEFINE g == [s \in Small(0) |-> base]
    <3>1. \A s \in Small(0) : s = {}
      <4>1. SUFFICES ASSUME NEW s \in SUBSET allow, Cardinality(s) <= 0, s # {} PROVE FALSE
        OBVIOUS
      <4>2. Cardinality(s) - 1 \in Nat /\ Cardinality(s) \in Nat
        BY <1>2, <1>3, <4>1
      <4> QED BY <4>1, <4>2
    <3>2. g = [s \in Small(0) |-> Body(g, s)]
      <4> HIDE DEF Small
      <4> QED BY <3>1
    <3>3. Unfolds(0)
      BY <3>2
    <3> HIDE DEF Unfolds
    <3> QED BY <2>2, <3>3
  <2>4. n \in Nat /\ n - 1 \in Nat
    BY <2>2, <2>3
  <2>5. Unfolds(n - 1)
    <3> HIDE DEF Unfolds
    <3>1. ~(n <= n - 1)
      BY <2>4
    <3> QED BY <2>2, <2>4, <3>1
  <2>6. PICK g : g = [s \in Small(n - 1) |-> Body(g, s)]
    BY <2>5
  <2> DEFINE h == [s \in Small(n) |-> Body(g, s)]
  <2>7. ASSUME NEW s \in Small(n) PROVE h[s] = Body(h, s)
    <3>1. h[s] = Body(g, s)
      BY Zenon
    <3>2. CASE s = {}
      BY <3>1, <3>2
    <3>3. CASE s # {}
      <4> DEFINE r == s \ {Pick(s)}
      <4>1. r \in Small(n - 1) /\ r \in Small(n)
        <5>1. s \in SUBSET allow /\ Cardinality(s) <= n /\ Cardinality(s) \in Nat
          BY <1>2
        <5>2. r \in SUBSET allow /\ Cardinality(r) = Cardinality(s) - 1
          BY <1>3, <3>3, <5>1
        <5> HIDE DEF r
        <5> QED BY <2>4, <5>1, <5>2
      <4> HIDE DEF r, Small
      <4>2. h[r] = Body(g, r)
        BY <4>1, Zenon
      <4>3. g[r] = Body(g, r)
        BY <2>6, <4>1, Zenon
      <4>4. Body(g, s) = RequeueBelow(Pick(s), g[r]) /\ Body(h, s) = RequeueBelow(Pick(s), h[r])
        BY <3>3, Zenon DEF r
      <4> HIDE DEF h, Body
      <4> QED BY <3>1, <4>2, <4>3, <4>4
    <3> QED BY <3>2, <3>3
  <2>8. h = [s \in Small(n) |-> Body(h, s)]
    <3>1. \A s \in Small(n) : h[s] = Body(h, s)
      BY <2>7
    <3>2. h = [s \in Small(n) |-> h[s]]
      OBVIOUS
    <3> HIDE DEF h, Small
    <3> QED BY <3>1, <3>2, Zenon
  <2>9. Unfolds(n)
    BY <2>8
  <2> QED BY <2>2, <2>9
<1>6. acc = [s \in SUBSET allow |-> Body(acc, s)]
  <2>1. Small(N) = SUBSET allow
    BY <1>2
  <2> HIDE DEF Small
  <2>2. \E g : g = [s \in SUBSET allow |-> Body(g, s)]
    <3> HIDE DEF Body
    <3> QED BY <1>5, <2>1
  <2> QED BY <2>2, Zenon
<1>7. RequeueAll(allow) = acc[allow]
  BY DEF RequeueAll, FoldSet, MapThenFoldSet
<1> HIDE DEF acc
<1>8. \A s \in SUBSET allow : Requeues(acc[s], s)
  <2> DEFINE Bad(s) == ~Requeues(acc[s], s)
             C == {n \in 0..N : \E s \in SUBSET allow : Cardinality(s) = n /\ Bad(s)}
  <2>1. SUFFICES ASSUME C # {} PROVE FALSE
    <3> HIDE DEF Bad
    <3>1. ASSUME NEW s \in SUBSET allow, Bad(s) PROVE C # {}
      <4>1. Cardinality(s) \in 0..N
        BY <1>1, <1>2
      <4> QED BY <3>1, <4>1
    <3>2. \A s \in SUBSET allow : ~Bad(s)
      BY <2>1, <3>1
    <3> QED BY <3>2 DEF Bad
  <2>2. PICK n \in C : \A k \in C : n <= k
    <3>1. C \in SUBSET Nat
      BY <1>1
    <3> HIDE DEF C
    <3> QED BY <2>1, <3>1, LeastExists
  <2>3. PICK s \in SUBSET allow : Cardinality(s) = n /\ Bad(s)
    BY <2>2
  <2>4. acc[s] = Body(acc, s)
    BY <1>6, Zenon
  <2>5. s # {}
    <3>1. Requeues(base, {})
      <4>1. Verified({}) = {}
        BY DEF Verified
      <4> QED BY <1>4, <4>1, RowsAre DEF Requeues, Rows
    <3> HIDE DEF base
    <3> QED BY <2>3, <2>4, <3>1
  <2> DEFINE r == s \ {Pick(s)}
  <2>6. r \in SUBSET allow /\ Cardinality(r) = n - 1 /\ n - 1 \in 0..N /\ ~(n <= n - 1)
    <3>1. n \in 0..N
      BY <2>2
    <3>2. r \in SUBSET allow /\ Cardinality(r) = n - 1 /\ Cardinality(r) \in Nat
      BY <1>2, <1>3, <2>3, <2>5
    <3> HIDE DEF r
    <3> QED BY <1>1, <3>1, <3>2
  <2>7. ~Bad(r)
    <3> HIDE DEF Bad, r
    <3> QED BY <2>2, <2>6
  <2>8. acc[s] = RequeueBelow(Pick(s), acc[r])
    BY <2>4, <2>5
  <2>9. r \union {Pick(s)} = s
    BY <1>3, <2>5
  <2> HIDE DEF r, Pick
  <2>10. Requeues(RequeueBelow(Pick(s), acc[r]), s)
    BY <2>7, <2>9, RequeueBelowIs
  <2> QED BY <2>3, <2>8, <2>10
<1>9. Requeues(acc[allow], allow)
  BY <1>8
<1> QED BY <1>7, <1>9, Zenon

LEMMA RequeueKeeps == ASSUME SqlInv, NEW allow \in Allowed, RequeueVerified(allow) PROVE SqlInv'
<1> DEFINE f == RequeueAll(allow).f
<1>1. Execute(f, RequeueAll(allow).n)
  BY DEF RequeueVerified
<1>2. /\ DOMAIN f = Keys
      /\ \A k \in Keys : f[k] = IF k \in Verified(allow) THEN Requeued(files[k]) ELSE files[k]
  BY CallAssumption, RequeueAllIs DEF Requeues
<1>3. \A k \in InUse(files) : /\ Requeued(files[k]).id = files[k].id
                              /\ WellFormed(Requeued(files[k]), content_groups)
  <2>1. \A k \in InUse(files) : WellFormed(files[k], content_groups) /\ now \in Nat
    BY RowsAre, RowsIn
  <2> QED BY <2>1 DEF WellFormed, Requeued, Memory!State, Memory!Queued
<1>4. Verified(allow) \subseteq InUse(files) /\ InUse(files) \subseteq Keys
  BY DEF Verified, InUse
<1> HIDE DEF f
<1>5. Edits(files, f, content_groups)
  BY <1>2, <1>3, <1>4, RowsAre, RowsIn DEF Edits
<1> QED BY <1>1, <1>5, ExecuteKeeps

(* -------------------------------- apply -------------------------------- *)

\* What a patch may write, and what a transition is made of.
PatchOk(p) == /\ "prev" \in DOMAIN p => p.prev \in Memory!State \union {"none"}
              /\ "known" \in DOMAIN p => p.known \in BOOLEAN
              /\ "ready" \in DOMAIN p => p.ready \in Nat
              /\ "waits" \in DOMAIN p => p.waits \in Nat
              /\ "group" \notin DOMAIN p
OpOk(op) == /\ op.op \in {"create", "join", "set_canonical", "leave", "verified", "none"}
            /\ op.op \in {"create", "set_canonical"} => op.file \in Nat
StepOk(t) == /\ t.to \in Memory!State /\ PatchOk(t.patch) /\ OpOk(t.op)
             /\ \/ t.others = {}
                \/ \E o : t.others = {o} /\ o.to \in Memory!State /\ PatchOk(o.patch)

LEMMA CasEdits ==
  ASSUME NEW f, NEW gs \in Groups, Rows(f, gs), NEW id, NEW from, NEW to \in Memory!State,
         NEW p, PatchOk(p)
  PROVE  Edits(f, CasUpdate(f, id, from, to, p), gs)
<1> DEFINE set(row) == [row EXCEPT !.state = to, !.updated = now,
                          !.waits = Column(p, "waits", IF from # to THEN NULL ELSE @),
                          !.ready = Column(p, "ready", @), !.skip  = Column(p, "skip", @),
                          !.fp    = Column(p, "fp", @),    !.known = Column(p, "known", @),
                          !.group = Column(p, "group", @), !.prev  = Column(p, "prev", @)]
           W == CasHits(f, id, from)
<1>1. CasUpdate(f, id, from, to, p) = [k \in Keys |-> IF k \in W THEN set(f[k]) ELSE f[k]]
  BY Zenon DEF CasUpdate, Updating
<1>2. /\ \A k \in InUse(f) : k \in Keys /\ WellFormed(f[k], gs)
      /\ \A k \in Keys \ InUse(f) : f[k] = Absent
  BY RowsIn
<1>3. ASSUME NEW row, WellFormed(row, gs) PROVE set(row).id = row.id /\ WellFormed(set(row), gs)
  <2>1. /\ set(row).id = row.id /\ DOMAIN set(row) = DOMAIN row
        /\ set(row).state = to
        /\ set(row).waits = Column(p, "waits", IF from # to THEN NULL ELSE row.waits)
        /\ set(row).ready = Column(p, "ready", row.ready)
        /\ set(row).group = Column(p, "group", row.group)
        /\ set(row).prev = Column(p, "prev", row.prev) /\ set(row).loc = row.loc
        /\ set(row).known = Column(p, "known", row.known)
    BY <1>3 DEF WellFormed
  <2>2. Column(p, "waits", IF from # to THEN NULL ELSE row.waits) \in Nat
    BY <1>3 DEF Column, PatchOk, WellFormed, NULL
  <2>3. Column(p, "ready", row.ready) \in Nat /\ Column(p, "group", row.group) = row.group
    BY <1>3 DEF Column, PatchOk, WellFormed
  <2>4. /\ Column(p, "prev", row.prev) \in Memory!State \union {"none"}
        /\ Column(p, "known", row.known) \in BOOLEAN
    BY <1>3 DEF Column, PatchOk, WellFormed
  <2> HIDE DEF set
  <2> QED BY <1>3, <2>1, <2>2, <2>3, <2>4 DEF WellFormed
<1>4. W \subseteq InUse(f)
  BY DEF CasHits, ById
<1> HIDE DEF set, W
<1> QED BY <1>1, <1>2, <1>3, <1>4 DEF Edits

\* The rows of `others` are none or one.
LEMMA AlsoAllIs ==
  ASSUME NEW f, NEW o PROVE AlsoAll(f, {}) = f /\ AlsoAll(f, {o}) = Also(o, f)
<1>1. AlsoAll(f, {}) = f
  <2> DEFINE Body(g, s) == IF s = {} THEN f ELSE Also(CHOOSE x \in s : TRUE, g[s \ {CHOOSE x \in s : TRUE}])
             acc == CHOOSE g : g = [s \in SUBSET {} |-> Body(g, s)]
             g0 == [s \in SUBSET {} |-> f]
  <2>1. g0 = [s \in SUBSET {} |-> Body(g0, s)]
    <3>1. \A s \in SUBSET {} : Body(g0, s) = f
      OBVIOUS
    <3> QED BY <3>1
  <2>2. acc = [s \in SUBSET {} |-> Body(acc, s)]
    BY <2>1, Zenon
  <2>3. AlsoAll(f, {}) = acc[{}]
    BY DEF AlsoAll, FoldSet, MapThenFoldSet
  <2> HIDE DEF acc
  <2>4. acc[{}] = Body(acc, {})
    BY <2>2, Zenon
  <2> QED BY <2>3, <2>4
<1>2. AlsoAll(f, {o}) = Also(o, f)
  <2> DEFINE Body(g, s) == IF s = {} THEN f ELSE Also(CHOOSE x \in s : TRUE, g[s \ {CHOOSE x \in s : TRUE}])
             acc == CHOOSE g : g = [s \in SUBSET {o} |-> Body(g, s)]
             g1 == [s \in SUBSET {o} |-> IF s = {} THEN f ELSE Also(o, f)]
  <2>0. \A s \in SUBSET {o} : s # {} => s = {o} /\ (CHOOSE x \in s : TRUE) = o /\ s \ {o} = {}
    OBVIOUS
  <2>1. g1 = [s \in SUBSET {o} |-> Body(g1, s)]
    <3>1. g1[{}] = f
      OBVIOUS
    <3>2. \A s \in SUBSET {o} : Body(g1, s) = IF s = {} THEN f ELSE Also(o, f)
      <4> HIDE DEF g1
      <4> QED BY <2>0, <3>1
    <3> QED BY <3>2
  <2>2. acc = [s \in SUBSET {o} |-> Body(acc, s)]
    BY <2>1, Zenon
  <2>3. AlsoAll(f, {o}) = acc[{o}]
    BY DEF AlsoAll, FoldSet, MapThenFoldSet
  <2> HIDE DEF acc
  <2>4. acc[{}] = Body(acc, {}) /\ acc[{o}] = Body(acc, {o})
    BY <2>2, Zenon
  <2>5. acc[{o}] = Also(o, f)
    <3>1. {o} \in SUBSET {o} /\ {o} # {}
      OBVIOUS
    <3>2. (CHOOSE x \in {o} : TRUE) = o /\ {o} \ {o} = {}
      BY <2>0, <3>1
    <3> QED BY <2>4, <3>1, <3>2
  <2> QED BY <2>3, <2>5
<1> QED BY <1>1, <1>2

\* The rows of a table whose id is in ids, in the group g.
Join(f, ids, g) ==
  [k \in Keys |-> IF k \in {j \in InUse(f) : f[j].id \in ids} THEN [f[k] EXCEPT !.group = g] ELSE f[k]]

LEMMA JoinEdits ==
  ASSUME NEW f, NEW gs \in Groups, NEW gs2 \in Groups, Len(gs) <= Len(gs2), Rows(f, gs), NEW ids,
         NEW g \in 0..Len(gs2)
  PROVE  Edits(f, Join(f, ids, g), gs2)
<1> DEFINE W == {j \in InUse(f) : f[j].id \in ids}
           set(row) == [row EXCEPT !.group = g]
<1>1. Join(f, ids, g) = [k \in Keys |-> IF k \in W THEN set(f[k]) ELSE f[k]]
  BY Zenon DEF Join
<1>2. Edits(f, f, gs2)
  BY EditsNothing, EditsGrow
<1>3. /\ \A k \in InUse(f) : k \in Keys /\ WellFormed(f[k], gs2)
      /\ \A k \in Keys \ InUse(f) : f[k] = Absent
  BY <1>2 DEF Edits, InUse
<1>4. \A k \in InUse(f) : set(f[k]).id = f[k].id /\ WellFormed(set(f[k]), gs2)
  BY <1>3 DEF WellFormed
<1>5. W \subseteq InUse(f)
  OBVIOUS
<1> HIDE DEF W, set
<1> QED BY <1>1, <1>3, <1>4, <1>5 DEF Edits

\* The group operations leave typed tables.
LEMMA GroupOpIs ==
  ASSUME NEW f, NEW gs \in Groups, Rows(f, gs), NEW id \in Nat, NEW op, OpOk(op),
         op.op \notin {"create", "none"} => op.group \in DOMAIN gs, now \in Nat
  PROVE  /\ GroupOp([f |-> f, gs |-> gs], id, op).gs \in Groups
         /\ Edits(f, GroupOp([f |-> f, gs |-> gs], id, op).f, GroupOp([f |-> f, gs |-> gs], id, op).gs)
<1> DEFINE db == [f |-> f, gs |-> gs]
           out == GroupOp(db, id, op)
           Row == [canon : Nat, verified : Nat]
<1>0. gs \in Seq(Row)
  BY DEF Groups
<1>1. DOMAIN gs = 1..Len(gs) /\ Len(gs) \in Nat /\ \A g \in DOMAIN gs : gs[g] \in Row
  <2> HIDE DEF Row
  <2> QED BY <1>0
<1>2. \A g \in DOMAIN gs, r \in Row : [gs EXCEPT ![g] = r] \in Groups /\ Len([gs EXCEPT ![g] = r]) = Len(gs)
  <2>1. \A g \in DOMAIN gs, r \in Row : [gs EXCEPT ![g] = r] \in Seq(Row) /\ Len([gs EXCEPT ![g] = r]) = Len(gs)
    <3> HIDE DEF Row
    <3> QED BY <1>0
  <2> QED BY <2>1 DEF Groups
<1>3. Edits(f, f, gs) /\ Len(gs) <= Len(gs)
  BY <1>1, EditsNothing
<1>4. CASE op.op = "create"
  <2> DEFINE gs2 == Append(gs, [canon |-> op.file, verified |-> NULL])
  <2>1. out = [f |-> Join(f, {id, op.file}, Len(gs) + 1), gs |-> gs2]
    BY <1>4 DEF GroupOp, Join, Updating
  <2>2. [canon |-> op.file, verified |-> NULL] \in Row
    BY <1>4 DEF OpOk, NULL
  <2>3. gs2 \in Groups /\ Len(gs2) = Len(gs) + 1
    <3>1. gs2 \in Seq(Row) /\ Len(gs2) = Len(gs) + 1
      <4> HIDE DEF Row
      <4> QED BY <1>0, <2>2
    <3> QED BY <3>1 DEF Groups
  <2> HIDE DEF gs2, out
  <2>4. Edits(f, Join(f, {id, op.file}, Len(gs) + 1), gs2)
    BY <1>1, <2>3, JoinEdits
  <2> QED BY <2>1, <2>3, <2>4 DEF out
<1>5. CASE op.op = "join"
  <2>1. out = [f |-> Join(f, {id}, op.group), gs |-> gs]
    BY <1>5 DEF GroupOp, Join, Updating
  <2> HIDE DEF out
  <2>2. Edits(f, Join(f, {id}, op.group), gs)
    BY <1>1, <1>3, <1>5, JoinEdits
  <2> QED BY <2>1, <2>2 DEF out
<1>6. CASE op.op = "set_canonical"
  <2> DEFINE gs2 == [gs EXCEPT ![op.group] = [gs[op.group] EXCEPT !.canon = op.file]]
  <2>1. out = [f |-> Join(f, {op.file}, op.group), gs |-> gs2]
    BY <1>6 DEF GroupOp, Join, Updating
  <2>2. [gs[op.group] EXCEPT !.canon = op.file] \in Row
    BY <1>1, <1>6 DEF OpOk
  <2>3. gs2 \in Groups /\ Len(gs2) = Len(gs)
    <3> HIDE DEF Row
    <3> QED BY <1>2, <1>6, <2>2
  <2> HIDE DEF gs2, out
  <2>4. Edits(f, Join(f, {op.file}, op.group), gs2)
    BY <1>1, <1>6, <2>3, JoinEdits
  <2> QED BY <2>1, <2>3, <2>4 DEF out
<1>7. CASE op.op = "leave"
  <2> DEFINE gs2 == Uncrown(gs, {g \in {op.group} : gs[g].canon = id})
  <2>1. out = [f |-> Join(f, {id}, NULL), gs |-> gs2]
    BY <1>7 DEF GroupOp, Join, Updating
  <2>2. gs2 \in Groups /\ Len(gs2) = Len(gs)
    BY UncrownIs
  <2> HIDE DEF gs2, out
  <2>3. Edits(f, Join(f, {id}, NULL), gs2)
    BY <1>1, <2>2, JoinEdits DEF NULL
  <2> QED BY <2>1, <2>2, <2>3 DEF out
<1>8. CASE op.op = "verified"
  <2> DEFINE v == IF gs[op.group].verified = NULL THEN now ELSE gs[op.group].verified
             gs2 == [gs EXCEPT ![op.group] = [gs[op.group] EXCEPT !.verified = v]]
  <2>1. out = [f |-> f, gs |-> gs2]
    BY <1>8 DEF GroupOp
  <2>2. [gs[op.group] EXCEPT !.verified = v] \in Row
    BY <1>1, <1>8
  <2>3. gs2 \in Groups /\ Len(gs2) = Len(gs)
    <3> HIDE DEF Row, v
    <3> QED BY <1>2, <1>8, <2>2
  <2> HIDE DEF gs2, out
  <2>4. Edits(f, f, gs2)
    BY <1>1, <1>3, <2>3, EditsGrow
  <2> QED BY <2>1, <2>3, <2>4 DEF out
<1>9. CASE op.op = "none"
  <2>1. out = db
    BY <1>9 DEF GroupOp
  <2> HIDE DEF out
  <2> QED BY <1>3, <2>1 DEF out
<1> QED BY <1>4, <1>5, <1>6, <1>7, <1>8, <1>9 DEF OpOk

\* The rows apply patches keep their ids.
LEMMA PatchedEdits ==
  ASSUME SqlInv, NEW t, StepOk(t)
  PROVE  Edits(files, AlsoAll(CasUpdate(files, held.id, held.from, t.to, t.patch), t.others),
               content_groups)
<1> DEFINE self == CasUpdate(files, held.id, held.from, t.to, t.patch)
           also == AlsoAll(self, t.others)
<1>1. Edits(files, self, content_groups)
  BY RowsAre, CasEdits DEF StepOk
<1> HIDE DEF self
<1>2. Rows(self, content_groups)
  BY <1>1, RowsAre, EditsKeep
<1>3. Edits(self, also, content_groups)
  <2>1. CASE t.others = {}
    BY <1>2, <2>1, AlsoAllIs, EditsNothing
  <2>2. CASE t.others # {}
    <3>1. PICK o : t.others = {o} /\ o.to \in Memory!State /\ PatchOk(o.patch)
      BY <2>2 DEF StepOk
    <3>2. also = CasUpdate(self, o.id, o.from, o.to, o.patch)
      BY <3>1, AlsoAllIs DEF Also
    <3> QED BY <1>2, <3>1, <3>2, RowsAre, CasEdits
  <2> QED BY <2>1, <2>2
<1> HIDE DEF also
<1>4. Edits(files, also, content_groups)
  BY <1>1, <1>3, EditsCompose
<1> QED BY <1>4 DEF also, self

\* What apply leaves, for every transition a pipeline step may ask for.
LEMMA ApplyKeeps ==
  ASSUME SqlInv, NEW c, NEW t, StepOk(t), Apply(c, t) PROVE SqlInv'
<1> DEFINE self == CasUpdate(files, held.id, held.from, t.to, t.patch)
           also == AlsoAll(self, t.others)
           db   == GroupOp([f |-> also, gs |-> content_groups], held.id, t.op)
<1>1. UNCHANGED <<now, seen, session, born, births>> /\ held' = Nobody
  BY DEF Apply
<1>2. ClockInv'
  BY <1>1 DEF SqlInv, ClockInv, Nobody, NULL
<1>3. held.id \in Nat /\ held.from \in Memory!State \union {"none"} /\ now \in Nat
  BY DEF SqlInv, ClockInv
<1>4. CASE UNCHANGED tables
  BY <1>1, <1>2, <1>4 DEF SqlInv, TableInv, tables, Rows, Order, InUse
<1>5. CASE Constraint(held.id, t.op) /\ Commit(db)
  <2>1. Edits(files, also, content_groups)
    BY PatchedEdits
  <2> HIDE DEF also
  <2>4. Rows(also, content_groups)
    BY <2>1, EditsKeep, RowsAre
  <2>5. t.op.op \notin {"create", "none"} => t.op.group \in DOMAIN content_groups
    BY <1>5 DEF Constraint
  <2>6. db.gs \in Groups /\ Edits(also, db.f, db.gs)
    BY <1>3, <2>4, <2>5, RowsAre, GroupOpIs DEF StepOk
  <2> HIDE DEF db
  <2>7. Edits(files, db.f, db.gs)
    BY <2>1, <2>6, EditsCompose
  <2>8. TableInv'
    BY <1>1, <1>5, <2>6, <2>7, TableKept DEF SqlInv, Commit
  <2> QED BY <1>2, <2>8 DEF SqlInv
<1> HIDE DEF db
<1>6. UNCHANGED tables \/ (Constraint(held.id, t.op) /\ Commit(db))
  BY Zenon DEF Apply, db
<1> QED BY <1>4, <1>5, <1>6

LEMMA PlainStepOk ==
  ASSUME NEW to \in Memory!State, NEW p, PatchOk(p), NEW op, OpOk(op)
  PROVE  StepOk([to |-> to, patch |-> p, others |-> {}, op |-> op])
BY DEF StepOk

LEMMA StepsOk ==
  ASSUME SqlInv
  PROVE  /\ \A fp : \A t \in Memory!LightSteps(held.from, fp) : StepOk(t)
         /\ \A g : \A t \in Memory!GroupSteps(held.from, held.id, g) : StepOk(t)
         /\ \A id \in Nat : \A from : StepOk(Memory!PairStep(id, from))
<1>1. now \in Nat /\ held.id \in Nat /\ held.from \in Memory!State \union {"none"}
  BY DEF SqlInv, ClockInv
<1>2. ASSUME NEW fp, NEW t \in Memory!LightSteps(held.from, fp) PROVE StepOk(t)
  BY <1>1 DEF StepOk, PatchOk, OpOk, Memory!LightSteps, Memory!Step, Memory!NoOp, Memory!State,
              Memory!Queued, Memory!Lost
<1>3. ASSUME NEW g, NEW t \in Memory!GroupSteps(held.from, held.id, g) PROVE StepOk(t)
  <2> DEFINE join  == [op |-> "join", group |-> g]
             check == [op |-> "verified", group |-> g]
             leave == [op |-> "leave", group |-> g]
             crown == [op |-> "set_canonical", group |-> g, file |-> held.id]
  <2>1. OpOk(join) /\ OpOk(check) /\ OpOk(leave) /\ OpOk(crown)
    BY <1>1 DEF OpOk
  <2>2. \/ t = [to |-> "hashed", patch |-> [known |-> TRUE, ready |-> now], others |-> {}, op |-> join]
        \/ t = [to |-> "verified", patch |-> [ready |-> 0], others |-> {}, op |-> check]
        \/ t = [to |-> "settling", patch |-> [known |-> FALSE, ready |-> now + 1], others |-> {},
                op |-> leave]
        \/ t = [to |-> "canonical", patch |-> [ready |-> 0], others |-> {}, op |-> crown]
    BY DEF Memory!GroupSteps, Memory!With, Memory!Step
  <2>3. /\ PatchOk([known |-> TRUE, ready |-> now]) /\ PatchOk([ready |-> 0])
        /\ PatchOk([known |-> FALSE, ready |-> now + 1])
    BY <1>1 DEF PatchOk
  <2>4. {"hashed", "verified", "settling", "canonical"} \subseteq Memory!State
    BY DEF Memory!State, Memory!Queued
  <2> HIDE DEF join, check, leave, crown
  <2> QED BY <2>1, <2>2, <2>3, <2>4, PlainStepOk
<1>4. ASSUME NEW id \in Nat, NEW from PROVE StepOk(Memory!PairStep(id, from))
  <2> DEFINE o == [id |-> id, from |-> from, to |-> "canonical", patch |-> [known |-> TRUE, ready |-> 0]]
             t == Memory!PairStep(id, from)
  <2>1. t = [to |-> "hashed", patch |-> [known |-> TRUE, ready |-> now], others |-> {o},
             op |-> [op |-> "create", file |-> id]]
    BY DEF Memory!PairStep
  <2>2. o.to \in Memory!State /\ PatchOk(o.patch)
    BY DEF PatchOk, Memory!State
  <2> HIDE DEF o, t
  <2>3. t.to \in Memory!State /\ PatchOk(t.patch) /\ OpOk(t.op)
    BY <1>1, <2>1 DEF PatchOk, OpOk, Memory!State, Memory!Queued
  <2>4. t.others = {o}
    BY <2>1
  <2>5. StepOk(t)
    BY <2>2, <2>3, <2>4, Zenon DEF StepOk
  <2> QED BY <2>5 DEF t
<1> QED BY <1>2, <1>3, <1>4

(* ----------------------------- every step ------------------------------ *)

LEMMA InitHolds == ASSUME Init PROVE SqlInv
<1> DEFINE S == {files[k].id : k \in Keys}
<1>1. PICK s \in Starts : files = s.files /\ content_groups = s.groups
  BY DEF Init
<1>2. StartOk(files, content_groups)
  BY <1>1, TableAssumption
<1>3. Rows(files, content_groups) /\ content_groups \in Groups
  BY <1>2 DEF StartOk, Rows, Groups
<1>4. \A k \in Keys : files[k].id \in Nat
  BY <1>3 DEF Rows, WellFormed, Absent, NULL
<1>5. births \in Nat /\ \A k \in Keys : files[k].id <= births
  <2>1. S \in SUBSET Nat /\ S # {} /\ IsFiniteSet(S)
    <3>1. IsFiniteSet(S)
      BY IdsFinite
    <3> QED BY <1>4, <3>1, TableAssumption
  <2>2. births = Max(S)
    BY DEF Init
  <2>3. Max(S) \in S /\ \A x \in S : x <= Max(S)
    <3> HIDE DEF S
    <3> QED BY <2>1, MaxIs
  <2> QED BY <2>1, <2>2, <2>3
<1>6. born = [k \in Keys |-> files[k].id]
  BY DEF Init
<1>7. Order(files, born, births)
  <2>1. \A k \in InUse(files) : k \in Keys /\ files[k].id # 0
    BY DEF InUse, NULL
  <2>2. born \in [Keys -> Nat] /\ \A k \in InUse(files) : born[k] = files[k].id /\ born[k] \in 1..births
    BY <1>4, <1>5, <1>6, <2>1
  <2>3. \A j, k \in InUse(files) : files[j].id = files[k].id => j = k
    BY <1>2 DEF StartOk
  <2> QED BY <1>5, <2>2, <2>3 DEF Order
<1>8. ClockInv
  BY DEF Init, ClockInv, Nobody, NULL
<1> QED BY <1>3, <1>7, <1>8 DEF SqlInv, TableInv

LEMMA AppliesKeep ==
  ASSUME SqlInv
  PROVE  /\ \A fp : ApplyLight(fp) => SqlInv'
         /\ \A g : ApplyGroup(g) => SqlInv'
         /\ \A k, from : ApplyPair(k, from) => SqlInv'
<1>1. ASSUME NEW fp, ApplyLight(fp) PROVE SqlInv'
  <2>1. PICK t \in Memory!LightSteps(held.from, fp) : Apply(<<"apply", fp, t.to>>, t)
    BY <1>1, Zenon DEF ApplyLight
  <2>2. StepOk(t)
    BY StepsOk
  <2> QED BY <2>1, <2>2, ApplyKeeps
<1>2. ASSUME NEW g, ApplyGroup(g) PROVE SqlInv'
  <2>1. PICK t \in Memory!GroupSteps(held.from, held.id, g) : Apply(<<"apply_group", g, t.to>>, t)
    BY <1>2, Zenon DEF ApplyGroup
  <2>2. StepOk(t)
    BY StepsOk
  <2> QED BY <2>1, <2>2, ApplyKeeps
<1>3. ASSUME NEW k, NEW from, ApplyPair(k, from) PROVE SqlInv'
  <2>1. /\ k \in InUse(files)
        /\ Apply(<<"apply_pair", k, from>>, Memory!PairStep(files[k].id, from))
    BY <1>3, Zenon DEF ApplyPair
  <2>2. files[k].id \in Nat
    BY <2>1, RowsAre, RowsIn DEF WellFormed
  <2>3. StepOk(Memory!PairStep(files[k].id, from))
    BY <2>2, StepsOk
  <2> QED BY <2>1, <2>3, ApplyKeeps
<1> QED BY <1>1, <1>2, <1>3

LEMMA StepKeeps == ASSUME SqlInv, Next PROVE SqlInv'
<1>1. ASSUME NEW s \in Sightings, NEW wait \in Waits, UpsertPending(s.key, s.fp, s.loc, wait)
      PROVE  SqlInv'
  <2>1. s.key \in Keys /\ IsLoc(s.loc) /\ wait \in Nat
    BY CallAssumption
  <2> QED BY <1>1, <2>1, UpsertKeeps
<1>2. ASSUME NEW s \in Sightings,
             \/ RestoreOrReset(s.key, s.fp) \/ MarkMissing(s.loc) \/ TakeFinished(s.loc)
             \/ Rename(s.key, s.loc)
      PROVE  SqlInv'
  BY <1>2, CallAssumption, RestoreKeeps, MarkMissingKeeps, TakesKeep, RenameKeeps
<1>3. ASSUME NEW batch \in ScanBatches, ScanInsert(batch) PROVE SqlInv'
  BY <1>3, ScanInsertKeeps
<1>4. ASSUME NEW batch \in SeenBatches, PresenceSeen(batch) PROVE SqlInv'
  BY <1>4, SeenKeeps
<1>5. ASSUME NEW r \in Roots, ScanPhaseB(r) \/ PresenceBegin(r) \/ PresenceExpire(r) PROVE SqlInv'
  BY <1>5, ScanPhaseBKeeps, BeginKeeps, PresenceExpireKeeps
<1>6. ASSUME NEW r, NEW scan_id, PresenceFinish(r, scan_id) PROVE SqlInv'
  BY <1>6, FinishKeeps
<1>7. ASSUME NEW old \in Dirs, NEW new \in Dirs, RenamePrefix(old, new) PROVE SqlInv'
  BY <1>7, CallAssumption, RenamePrefixKeeps
<1>8. ASSUME NEW dir, MarkMissingPrefix(dir) PROVE SqlInv'
  BY <1>8, MarkMissingPrefixKeeps
<1>9. ASSUME NEW heavy, Take(heavy) PROVE SqlInv'
  BY <1>9, TakesKeep
<1>10. ASSUME NEW allow \in Allowed, RequeueVerified(allow) PROVE SqlInv'
  BY <1>10, RequeueKeeps
<1>11. ASSUME PresenceAbort \/ ParkDomain \/ UnparkDomain \/ Purge \/ Tick PROVE SqlInv'
  BY <1>11, AbortKeeps, ParkDomainKeeps, UnparkDomainKeeps, PurgeKeeps, TickKeeps
<1>12. ASSUME NEW fp, ApplyLight(fp) PROVE SqlInv'
  BY <1>12, AppliesKeep
<1>13. ASSUME NEW g, ApplyGroup(g) PROVE SqlInv'
  BY <1>13, AppliesKeep
<1>14. ASSUME NEW k, NEW from, ApplyPair(k, from) PROVE SqlInv'
  BY <1>14, AppliesKeep
<1> QED
  BY <1>1, <1>2, <1>3, <1>4, <1>5, <1>6, <1>7, <1>8, <1>9, <1>10, <1>11, <1>12, <1>13, <1>14, Zenon
     DEF Next

LEMMA StutterKeeps == ASSUME SqlInv, UNCHANGED vars PROVE SqlInv'
BY DEF SqlInv, TableInv, ClockInv, vars, Rows, Order, InUse

\* The tables are always tables of the schema, and the ids of the rows in use
\* are in the order in which the rows were inserted, whatever ids were given
\* before and freed by a purge; the row that is held and the open session have
\* their types (schema.rs, queue.rs, sqlite_repo.rs).
THEOREM SqlInvHolds == Spec => []SqlInv
<1>1. Init => SqlInv
  BY InitHolds
<1>2. SqlInv /\ [Next]_vars => SqlInv'
  BY StepKeeps, StutterKeeps
<1> QED BY <1>1, <1>2, PTL DEF Spec

\* Whatever is called, every row stays typed, points to a group that exists,
\* has an id of its own and a birth that is counted, and at most one presence
\* session is open: the id of a row that was purged may be given again, but
\* never while its row is there (schema.rs, queue.rs, sqlite_repo.rs).
THEOREM TablesTyped == Spec => []TypeOK
<1>1. SqlInv => TypeOK
  BY TypesFollow
<1> QED BY <1>1, SqlInvHolds, PTL

\* In every state the queries of the SQL answer as MemoryRepository would:
\* next_ready picks the same row though it breaks ties by a rowid and the other
\* by a counter, find_by_path finds the same, the candidates, the members of a
\* group and the counts are the same (db/src/queue.rs, lookup.rs, sqlite_repo.rs
\* against core/src/repo/memory).
THEOREM QueriesAgree == Spec => []SameAnswers
<1>1. SqlInv => SameAnswers
  BY AnswersAgree
<1> QED BY <1>1, SqlInvHolds, PTL

(* ------------------ the tables the memory store would have ------------- *)

\* Memory's substitution, for any rows f, births b and groups gs.
MapRow(row, n)      == IF row.id = NULL THEN Absent ELSE [row EXCEPT !.id = n]
MapTable(f, b)      == [k \in Keys |-> MapRow(f[k], b[k])]
CountIn(f, b, id)   == IF ById(f, id) = {} THEN 0 ELSE b[CHOOSE k \in ById(f, id) : TRUE]
MapGroups(gs, f, b) == [g \in DOMAIN gs |-> [gs[g] EXCEPT !.canon = CountIn(f, b, @)]]

\* Every canonical file of a group has a row, and so has the row that is held.
Crowned(f, gs) == \A g \in DOMAIN gs : gs[g].canon # NULL => ById(f, gs[g].canon) # {}
Alive(h, f, b) == h = Nobody \/ \E k \in InUse(f) : h.id = f[k].id /\ h.born = b[k]

\* The rows of f are in f2, with their ids and their births.
Stays(f, b, f2, b2) == \A k \in InUse(f) : k \in InUse(f2) /\ f2[k].id = f[k].id /\ b2[k] = b[k]

LEMMA MapTableIs ==
  ASSUME NEW f, NEW gs, NEW b, NEW n, Rows(f, gs), Order(f, b, n)
  PROVE  /\ Memory!Stored(MapTable(f, b)) = InUse(f)
         /\ \A k \in InUse(f) :
              /\ MapTable(f, b)[k] = [f[k] EXCEPT !.id = b[k]]
              /\ MapTable(f, b)[k].id = b[k]
              /\ MapTable(f, b)[k].loc = f[k].loc /\ MapTable(f, b)[k].fp = f[k].fp
              /\ MapTable(f, b)[k].state = f[k].state /\ MapTable(f, b)[k].prev = f[k].prev
              /\ MapTable(f, b)[k].ready = f[k].ready /\ MapTable(f, b)[k].waits = f[k].waits
              /\ MapTable(f, b)[k].group = f[k].group /\ MapTable(f, b)[k].skip = f[k].skip
              /\ MapTable(f, b)[k].known = f[k].known /\ MapTable(f, b)[k].updated = f[k].updated
         /\ \A k \in Keys \ InUse(f) : MapTable(f, b)[k] = Absent
         /\ DOMAIN MapTable(f, b) = Keys
<1> DEFINE T == MapTable(f, b)
<1>1. \A k \in InUse(f) :
        /\ k \in Keys /\ f[k].id \in Nat \ {0} /\ b[k] \in Nat \ {0}
        /\ DOMAIN f[k] = {"id", "loc", "fp", "state", "prev", "ready", "waits", "known", "group",
                          "skip", "updated"}
  <2>1. \A k \in InUse(f) : k \in Keys /\ WellFormed(f[k], gs) /\ b[k] \in 1..n /\ n \in Nat
    BY RowsIn DEF Order
  <2> QED BY <2>1 DEF WellFormed
<1>2. \A k \in InUse(f) : T[k] = [f[k] EXCEPT !.id = b[k]] /\ T[k].id = b[k]
  BY <1>1 DEF MapTable, MapRow, NULL
<1>3. \A k \in Keys \ InUse(f) : T[k] = Absent /\ T[k].id = 0
  BY DEF InUse, MapTable, MapRow, Absent, NULL
<1>4. DOMAIN T = Keys
  BY DEF MapTable
<1> HIDE DEF T
<1>5. Memory!Stored(T) = InUse(f)
  BY <1>1, <1>2, <1>3 DEF Memory!Stored, InUse
<1> QED BY <1>1, <1>2, <1>3, <1>4, <1>5 DEF T

\* The rowid of a row stands for its birth.
LEMMA CountIs ==
  ASSUME NEW f, NEW gs, NEW b, NEW n, Rows(f, gs), Order(f, b, n)
  PROVE  /\ \A k \in InUse(f) : ById(f, f[k].id) = {k} /\ CountIn(f, b, f[k].id) = b[k]
         /\ \A id : ById(f, id) = {} => CountIn(f, b, id) = 0
         /\ ById(f, 0) = {} /\ CountIn(f, b, 0) = 0
<1>1. ASSUME NEW k \in InUse(f) PROVE ById(f, f[k].id) = {k} /\ CountIn(f, b, f[k].id) = b[k]
  <2>1. ById(f, f[k].id) = {k}
    BY DEF ById, Order
  <2>2. (CHOOSE j \in {k} : TRUE) = k
    OBVIOUS
  <2> QED BY <2>1, <2>2 DEF CountIn
<1>2. ById(f, 0) = {}
  BY DEF ById, InUse, NULL
<1> QED BY <1>1, <1>2 DEF CountIn

\* A canonical pointer is that of the row of k just when the birth is that of k.
LEMMA CountedAre ==
  ASSUME NEW f, NEW gs, NEW b, NEW n, Rows(f, gs), Order(f, b, n), NEW k \in InUse(f), NEW id,
         id # NULL => ById(f, id) # {}
  PROVE  (CountIn(f, b, id) = b[k] <=> id = f[k].id) /\ (CountIn(f, b, id) = 0 <=> id = 0)
<1>1. b[k] # 0 /\ f[k].id # 0
  BY DEF Order, InUse, NULL
<1>2. CASE id = 0
  BY <1>1, <1>2, CountIs
<1>3. CASE id # 0
  <2>1. PICK j \in InUse(f) : f[j].id = id
    BY <1>3 DEF ById, NULL
  <2>2. CountIn(f, b, id) = b[j] /\ b[j] # 0
    <3>1. CountIn(f, b, f[j].id) = b[j]
      BY CountIs
    <3>2. b[j] # 0
      BY DEF Order
    <3> QED BY <2>1, <3>1, <3>2
  <2>3. b[j] = b[k] => f[j].id = f[k].id
    <3>1. j \in Keys /\ k \in Keys
      BY DEF InUse
    <3>2. b[j] \in Nat /\ b[k] \in Nat /\ f[j].id \in Nat /\ f[k].id \in Nat
      BY <3>1, RowsIn DEF Order, WellFormed
    <3>3. /\ f[j].id < f[k].id <=> b[j] < b[k]
          /\ f[k].id < f[j].id <=> b[k] < b[j]
      BY DEF Order
    <3> QED BY <3>2, <3>3
  <2>4. f[j].id = f[k].id => j = k
    BY DEF Order
  <2> QED BY <1>1, <1>3, <2>1, <2>2, <2>3, <2>4
<1> QED BY <1>2, <1>3

\* While the rows stay, so do the groups and the row that is held.
LEMMA StaysMaps ==
  ASSUME NEW f, NEW b, NEW n, NEW f2, NEW b2, NEW n2, NEW gs, NEW gs2, NEW gs3,
         Rows(f, gs2), Order(f, b, n), Rows(f2, gs3), Order(f2, b2, n2), Stays(f, b, f2, b2),
         Crowned(f, gs)
  PROVE  /\ MapGroups(gs, f2, b2) = MapGroups(gs, f, b) /\ Crowned(f2, gs)
         /\ \A h : Alive(h, f, b) => Alive(h, f2, b2)
<1>1. ASSUME NEW g \in DOMAIN gs
      PROVE  /\ CountIn(f2, b2, gs[g].canon) = CountIn(f, b, gs[g].canon)
             /\ gs[g].canon # NULL => ById(f2, gs[g].canon) # {}
  <2>1. CASE gs[g].canon = 0
    BY <2>1, CountIs DEF NULL
  <2>2. CASE gs[g].canon # 0
    <3>1. PICK k \in InUse(f) : f[k].id = gs[g].canon
      BY <2>2 DEF Crowned, ById, NULL
    <3>2. k \in InUse(f2) /\ f2[k].id = gs[g].canon /\ b2[k] = b[k]
      BY <3>1 DEF Stays
    <3>3. CountIn(f, b, gs[g].canon) = b[k] /\ CountIn(f2, b2, gs[g].canon) = b2[k]
      BY <3>1, <3>2, CountIs
    <3> QED BY <3>2, <3>3 DEF ById
  <2> QED BY <2>1, <2>2
<1>2. MapGroups(gs, f2, b2) = MapGroups(gs, f, b)
  BY <1>1 DEF MapGroups
<1>3. Crowned(f2, gs)
  BY <1>1 DEF Crowned
<1>4. ASSUME NEW h, Alive(h, f, b) PROVE Alive(h, f2, b2)
  BY <1>4 DEF Alive, Stays
<1> QED BY <1>2, <1>3, <1>4

LEMMA EditsStays ==
  ASSUME NEW f, NEW f2, NEW gs, NEW b, Edits(f, f2, gs) PROVE Stays(f, b, f2, b)
BY EditsStay DEF Edits, Stays

\* The variables of Memory, as Sqlite's substitution has them.
Crowns  == [g \in DOMAIN content_groups |-> [content_groups[g] EXCEPT !.canon = Counted(@)]]
Phien   == IF session = {} THEN [root |-> 0, seen |-> {}]
           ELSE [root |-> CHOOSE r \in session : TRUE, seen |-> seen]
Holding == [id |-> held.born, from |-> held.from]

LEMMA MapsAre ==
  /\ Mapped = MapTable(files, born) /\ Mapped' = MapTable(files', born')
  /\ Crowns = MapGroups(content_groups, files, born)
  /\ Crowns' = MapGroups(content_groups', files', born')
<1>1. Mapped = MapTable(files, born)
  BY Zenon DEF Mapped, MapTable, MapRow
<1>2. Mapped' = MapTable(files', born')
  BY Zenon DEF Mapped, MapTable, MapRow
<1>3. Crowns = MapGroups(content_groups, files, born)
  BY Zenon DEF Crowns, MapGroups, CountIn, Counted
<1>4. Crowns' = MapGroups(content_groups', files', born')
  BY Zenon DEF Crowns, MapGroups, CountIn, Counted
<1> QED BY <1>1, <1>2, <1>3, <1>4

Kept == Crowned(files, content_groups) /\ Alive(held, files, born)
RefInv == SqlInv /\ Kept

\* A row under another number.
As(row, n) == [row EXCEPT !.id = n]

\* Rows that keep their numbers: the other store changes the same ones.
LEMMA EditsRefine ==
  ASSUME RefInv, SqlInv', UNCHANGED <<content_groups, held, born, births>>,
         NEW W \in SUBSET InUse(files), \A k \in W : files'[k].id = files[k].id,
         \A k \in Keys \ W : files'[k] = files[k]
  PROVE  /\ \A k \in W : Mapped'[k] = As(files'[k], born[k])
         /\ \A k \in Keys \ W : Mapped'[k] = Mapped[k]
         /\ Mapped' = [k \in Keys |-> Mapped'[k]]
         /\ Crowns' = Crowns /\ Kept'
<1>1. \A k \in InUse(files) : k \in InUse(files') /\ files'[k].id = files[k].id
  BY DEF InUse
<1>2. Stays(files, born, files', born')
  BY <1>1 DEF Stays
<1>3. /\ Rows(files, content_groups) /\ Order(files, born, births)
      /\ Rows(files', content_groups') /\ Order(files', born', births')
      /\ Crowned(files, content_groups) /\ Alive(held, files, born)
  BY DEF RefInv, Kept, SqlInv, TableInv, Rows, Order, InUse
<1>4. Crowns' = Crowns /\ Crowned(files', content_groups') /\ Alive(held', files', born')
  BY <1>2, <1>3, StaysMaps, MapsAre
<1>5. Kept'
  BY <1>4 DEF Kept, Crowned, Alive, InUse, ById
<1>6. \A k \in W : Mapped'[k] = As(files'[k], born[k])
  BY <1>1, <1>3, MapsAre, MapTableIs DEF As
<1>7. \A k \in Keys \ W : Mapped'[k] = Mapped[k]
  BY MapsAre DEF MapTable
<1>8. Mapped' = [k \in Keys |-> Mapped'[k]]
  BY DEF Mapped
<1> QED BY <1>4, <1>5, <1>6, <1>7, <1>8

\* The rows as both stores have them.
LEMMA MappedRows ==
  ASSUME SqlInv
  PROVE  /\ Memory!Stored(Mapped) = InUse(files)
         /\ \A k \in InUse(files) :
              /\ k \in Keys /\ WellFormed(files[k], content_groups) /\ born[k] \in Nat \ {0}
              /\ Mapped[k] = [files[k] EXCEPT !.id = born[k]]
              /\ Mapped[k].id = born[k]
              /\ Mapped[k].loc = files[k].loc /\ Mapped[k].fp = files[k].fp
              /\ Mapped[k].state = files[k].state /\ Mapped[k].prev = files[k].prev
              /\ Mapped[k].ready = files[k].ready /\ Mapped[k].waits = files[k].waits
              /\ Mapped[k].group = files[k].group /\ Mapped[k].skip = files[k].skip
              /\ Mapped[k].known = files[k].known /\ Mapped[k].updated = files[k].updated
         /\ \A k \in Keys \ InUse(files) : Mapped[k] = Absent
<1>1. TableInv /\ Rows(files, content_groups) /\ Order(files, born, births)
  BY RowsAre DEF SqlInv
<1>2. \A k \in Keys \ InUse(files) : Mapped[k] = Absent
  BY DEF InUse, Mapped
<1>3. \A k \in InUse(files) : born[k] \in Nat \ {0}
  BY <1>1 DEF Order
<1> QED BY <1>1, <1>2, <1>3, MappedIs, RowsIn

\* What no statement changes stays the same in both stores.
LEMMA Unchanged ==
  ASSUME RefInv
  PROVE  /\ UNCHANGED <<files, born>> => Mapped' = Mapped
         /\ UNCHANGED <<files, born, content_groups>> => Crowns' = Crowns
         /\ UNCHANGED <<session, seen>> => Phien' = Phien
         /\ UNCHANGED held => Holding' = Holding
         /\ UNCHANGED <<files, born, content_groups, held>> => Kept'
<1>1. UNCHANGED <<files, born>> => Mapped' = Mapped
  BY MapsAre
<1>2. UNCHANGED <<files, born, content_groups>> => Crowns' = Crowns
  BY MapsAre
<1>3. UNCHANGED <<session, seen>> => Phien' = Phien
  BY DEF Phien
<1>4. UNCHANGED held => Holding' = Holding
  BY DEF Holding
<1>5. UNCHANGED <<files, born, content_groups, held>> => Kept'
  BY DEF RefInv, Kept, Crowned, Alive, InUse, ById
<1> QED BY <1>1, <1>2, <1>3, <1>4, <1>5

\* Rolled back, in both.
LEMMA RefuseRefines == ASSUME RefInv, Refuse PROVE Memory!Refuse /\ Kept'
<1>1. /\ answer' = << >>
      /\ UNCHANGED <<files, content_groups, now, seen, session, held, born, births>>
  BY DEF Refuse, tables, others
<1>2. Mapped' = Mapped /\ Crowns' = Crowns /\ Phien' = Phien /\ Holding' = Holding /\ Kept'
  BY <1>1, Unchanged
<1> QED BY <1>1, <1>2, Zenon DEF Memory!Refuse, Memory!Fail, Mapped, Crowns, Counted, Phien, Holding

(* -------------------- statements that edit the rows -------------------- *)

LEMMA ParkDomainRefines ==
  ASSUME RefInv, SqlInv', ParkDomain PROVE Memory!ParkDomain /\ Kept'
<1> DEFINE W == {k \in InUse(files) : files[k].state = "hashed" /\ files[k].ready # NULL}
           set(row) == [row EXCEPT !.ready = NULL, !.updated = now]
           K == {k \in Memory!Stored(Mapped) : Mapped[k].state = "hashed" /\ Mapped[k].ready # 0}
           park(row) == [row EXCEPT !.ready = 0, !.updated = now]
<1>1. /\ files' = [k \in Keys |-> IF k \in W THEN set(files[k]) ELSE files[k]]
      /\ answer' = <<Cardinality(W)>>
      /\ UNCHANGED <<content_groups, now, seen, session, held, born, births>>
  BY Zenon DEF ParkDomain, Execute, Updating, Commit, Ok, others
<1>2. K = W
  BY MappedRows DEF RefInv, NULL
<1>3. ASSUME NEW k \in InUse(files)
      PROVE  /\ k \in Keys /\ set(files[k]).id = files[k].id
             /\ As(set(files[k]), born[k]) = park(Mapped[k])
  <2>1. /\ k \in Keys /\ WellFormed(files[k], content_groups)
        /\ Mapped[k] = [files[k] EXCEPT !.id = born[k]]
    BY MappedRows DEF RefInv
  <2> QED BY <2>1 DEF WellFormed, NULL, As
<1>4. W \in SUBSET InUse(files)
  OBVIOUS
<1> HIDE DEF W, K, set, park
<1>5. Crowns' = Crowns /\ Kept' /\ Mapped' = [k \in Keys |-> IF k \in K THEN park(Mapped[k]) ELSE Mapped[k]]
  BY <1>1, <1>2, <1>3, <1>4, EditsRefine
<1>6. answer' = <<Cardinality(K)>> /\ Phien' = Phien /\ Holding' = Holding
  BY <1>1, <1>2, Unchanged
<1> QED
  BY <1>1, <1>5, <1>6, Counting, Zenon DEF Memory!ParkDomain, Memory!Update, Memory!Only, Memory!Changed,
     Memory!Ok, Mapped, Crowns, Counted, Phien, Holding, K, park

LEMMA UnparkDomainRefines ==
  ASSUME RefInv, SqlInv', UnparkDomain PROVE Memory!UnparkDomain /\ Kept'
<1> DEFINE W == {k \in InUse(files) : files[k].state = "hashed" /\ files[k].ready = NULL}
           set(row) == [row EXCEPT !.ready = now, !.updated = now]
           K == {k \in Memory!Stored(Mapped) : Mapped[k].state = "hashed" /\ Mapped[k].ready = 0}
<1>1. /\ files' = [k \in Keys |-> IF k \in W THEN set(files[k]) ELSE files[k]]
      /\ answer' = <<Cardinality(W)>>
      /\ UNCHANGED <<content_groups, now, seen, session, held, born, births>>
  BY Zenon DEF UnparkDomain, Execute, Updating, Commit, Ok, others
<1>2. K = W
  BY MappedRows DEF RefInv, NULL
<1>3. ASSUME NEW k \in InUse(files)
      PROVE  /\ k \in Keys /\ set(files[k]).id = files[k].id
             /\ As(set(files[k]), born[k]) = set(Mapped[k])
  <2>1. /\ k \in Keys /\ WellFormed(files[k], content_groups)
        /\ Mapped[k] = [files[k] EXCEPT !.id = born[k]]
    BY MappedRows DEF RefInv
  <2> QED BY <2>1 DEF WellFormed, As
<1>4. W \in SUBSET InUse(files)
  OBVIOUS
<1> HIDE DEF W, K, set
<1>5. Crowns' = Crowns /\ Kept' /\ Mapped' = [k \in Keys |-> IF k \in K THEN set(Mapped[k]) ELSE Mapped[k]]
  BY <1>1, <1>2, <1>3, <1>4, EditsRefine
<1>6. answer' = <<Cardinality(K)>> /\ Phien' = Phien /\ Holding' = Holding
  BY <1>1, <1>2, Unchanged
<1> QED
  BY <1>1, <1>5, <1>6, Counting, Zenon DEF Memory!UnparkDomain, Memory!Update, Memory!Only,
     Memory!Changed, Memory!Ok, Mapped, Crowns, Counted, Phien, Holding, K, set

LEMMA PresenceExpireRefines ==
  ASSUME RefInv, SqlInv', NEW root, PresenceExpire(root) PROVE Memory!PresenceExpire(root) /\ Kept'
<1> DEFINE W == {k \in InUse(files) : /\ files[k].loc.root = root /\ files[k].state = "missing"
                                      /\ files[k].updated < now}
           set(row) == [row EXCEPT !.state = "gone", !.updated = now]
           K == {k \in Memory!Stored(Mapped) : /\ Mapped[k].loc.root = root
                                               /\ Mapped[k].state = "missing"
                                               /\ Mapped[k].updated < now}
<1>1. /\ files' = [k \in Keys |-> IF k \in W THEN set(files[k]) ELSE files[k]]
      /\ answer' = <<Cardinality(W)>>
      /\ UNCHANGED <<content_groups, now, seen, session, held, born, births>>
  BY Zenon DEF PresenceExpire, Execute, Updating, Commit, Ok, others
<1>2. K = W
  <2>1. /\ Memory!Stored(Mapped) = InUse(files)
        /\ \A k \in InUse(files) : /\ Mapped[k].loc = files[k].loc /\ Mapped[k].state = files[k].state
                                   /\ Mapped[k].updated = files[k].updated
    BY MappedRows DEF RefInv
  <2> QED BY <2>1
<1>3. ASSUME NEW k \in InUse(files)
      PROVE  /\ k \in Keys /\ set(files[k]).id = files[k].id
             /\ As(set(files[k]), born[k]) = set(Mapped[k])
  <2>1. /\ k \in Keys /\ WellFormed(files[k], content_groups)
        /\ Mapped[k] = [files[k] EXCEPT !.id = born[k]]
    BY MappedRows DEF RefInv
  <2> QED BY <2>1 DEF WellFormed, As
<1>4. W \in SUBSET InUse(files)
  OBVIOUS
<1> HIDE DEF W, K, set
<1>5. Crowns' = Crowns /\ Kept' /\ Mapped' = [k \in Keys |-> IF k \in K THEN set(Mapped[k]) ELSE Mapped[k]]
  BY <1>1, <1>2, <1>3, <1>4, EditsRefine
<1>6. answer' = <<Cardinality(K)>> /\ Phien' = Phien /\ Holding' = Holding
  BY <1>1, <1>2, Unchanged
<1> QED
  BY <1>1, <1>5, <1>6, Counting, Zenon DEF Memory!PresenceExpire, Memory!Update, Memory!Only,
     Memory!Changed, Memory!Ok, Mapped, Crowns, Counted, Phien, Holding, K, set

\* The row that set_missing leaves, dated as presence_finish dates it.
LostAt(row, at) == [Memory!SetMissing(row) EXCEPT !.updated = at]

\* SET_MISSING marks the rows that set_missing would.
LEMMA SetMissingRefines ==
  ASSUME RefInv, NEW W \in SUBSET InUse(files), NEW at
  PROVE  /\ \A k \in Keys \ W : SetMissing(files, W, at)[k] = files[k]
         /\ \A k \in W : SetMissing(files, W, at)[k].id = files[k].id
         /\ \A k \in W : files[k].state \notin Dead =>
              As(SetMissing(files, W, at)[k], born[k]) = LostAt(Mapped[k], at)
         /\ \A k \in W : at = now \/ files[k].state \in Dead =>
              As(SetMissing(files, W, at)[k], born[k]) = Memory!SetMissing(Mapped[k])
<1> DEFINE lost == {k \in W : files[k].state \notin Dead}
           set(row) == [row EXCEPT !.prev = row.state, !.state = "missing", !.ready = NULL,
                                   !.waits = NULL, !.updated = at]
           f == SetMissing(files, W, at)
           lose(row) == [row EXCEPT !.prev = row.state, !.state = "missing", !.ready = 0,
                                    !.waits = 0, !.updated = now]
<1>1. f = [k \in Keys |-> IF k \in lost THEN set(files[k]) ELSE files[k]]
  BY Zenon DEF SetMissing, Updating
<1>2. \A k \in W : k \in Keys
  BY DEF InUse
<1>3. /\ \A k \in Keys \ W : f[k] = files[k]
      /\ \A k \in W : f[k] = IF files[k].state \in Dead THEN files[k] ELSE set(files[k])
  <2> HIDE DEF set
  <2> QED BY <1>1, <1>2
<1> HIDE DEF f
<1>4. ASSUME NEW k \in W
      PROVE  /\ f[k].id = files[k].id
             /\ files[k].state \notin Dead =>
                  /\ As(f[k], born[k]) = LostAt(Mapped[k], at)
                  /\ at = now => As(f[k], born[k]) = Memory!SetMissing(Mapped[k])
             /\ files[k].state \in Dead =>
                  As(f[k], born[k]) = Memory!SetMissing(Mapped[k])
  <2>1. /\ DOMAIN files[k] = {"id", "loc", "fp", "state", "prev", "ready", "waits", "known", "group",
                              "skip", "updated"}
        /\ Mapped[k] = [files[k] EXCEPT !.id = born[k]] /\ Mapped[k].state = files[k].state
    BY MappedRows DEF RefInv, WellFormed
  <2>2. Memory!SetMissing(Mapped[k]) = IF files[k].state \in Dead THEN Mapped[k] ELSE lose(Mapped[k])
    BY <2>1 DEF Memory!SetMissing, Memory!Lost, Dead
  <2>3. /\ set(files[k]).id = files[k].id
        /\ As(set(files[k]), born[k]) = [lose(Mapped[k]) EXCEPT !.updated = at]
        /\ at = now => As(set(files[k]), born[k]) = lose(Mapped[k])
    BY <2>1 DEF NULL, As
  <2>4. files[k].state \notin Dead => LostAt(Mapped[k], at) = [lose(Mapped[k]) EXCEPT !.updated = at]
    <3> HIDE DEF lose
    <3> QED BY <2>2 DEF LostAt
  <2>5. As(files[k], born[k]) = Mapped[k]
    BY <2>1 DEF As
  <2> HIDE DEF set, lose
  <2> QED BY <1>3, <2>2, <2>3, <2>4, <2>5
<1> QED BY <1>3, <1>4 DEF f

LEMMA MarkMissingRefines ==
  ASSUME RefInv, SqlInv', NEW loc, MarkMissing(loc) PROVE Memory!MarkMissing(loc) /\ Kept'
<1> DEFINE W == {k \in InUse(files) : files[k].loc = loc}
           K == {k \in Memory!Stored(Mapped) : Mapped[k].loc = loc}
<1>1. /\ files' = SetMissing(files, W, now) /\ answer' = <<1>>
      /\ UNCHANGED <<content_groups, now, seen, session, held, born, births>>
  BY Zenon DEF MarkMissing, Execute, Commit, Ok, others
<1>2. K = W
  BY MappedRows DEF RefInv
<1>3. W \in SUBSET InUse(files)
  OBVIOUS
<1> HIDE DEF W, K
<1>4. /\ Crowns' = Crowns /\ Kept'
      /\ Mapped' = [k \in Keys |-> IF k \in K THEN Memory!SetMissing(Mapped[k]) ELSE Mapped[k]]
  <2>1. /\ \A k \in Keys \ W : files'[k] = files[k]
        /\ \A k \in W : /\ files'[k].id = files[k].id
                        /\ As(files'[k], born[k]) = Memory!SetMissing(Mapped[k])
    BY <1>1, <1>3, SetMissingRefines
  <2> QED BY <1>1, <1>2, <1>3, <2>1, EditsRefine
<1>5. Phien' = Phien /\ Holding' = Holding
  BY <1>1, Unchanged
<1> QED
  BY <1>1, <1>4, <1>5, Zenon DEF Memory!MarkMissing, Memory!Only, Memory!Changed, Memory!Ok,
     Memory!SetMissing, Mapped, Crowns, Counted, Phien, Holding, K

LEMMA FinishRefines ==
  ASSUME RefInv, SqlInv', NEW root \in Roots, NEW scan_id, PresenceFinish(root, scan_id)
  PROVE  Memory!PresenceFinish(root, scan_id) /\ Kept'
<1> DEFINE W == {k \in InUse(files) : /\ files[k].loc.root = root /\ files[k].state \notin Dead
                                      /\ files[k].updated < scan_id /\ k \notin seen}
           K == {k \in Memory!Stored(Mapped) : /\ Mapped[k].loc.root = root
                                               /\ k \notin Phien.seen
                                               /\ Mapped[k].state \notin Memory!Lost
                                               /\ Mapped[k].updated < scan_id}
<1>1. session # {root} <=> Phien.root # root
  <2>1. session \subseteq Roots /\ (\A r, s \in session : r = s) /\ root # 0
    BY TableAssumption DEF RefInv, SqlInv, ClockInv, Roots, NULL
  <2>2. CASE session = {}
    BY <2>1, <2>2 DEF Phien
  <2>3. CASE session # {}
    <3>1. PICK r \in session : TRUE
      BY <2>3
    <3>2. session = {r}
      BY <2>1, <3>1
    <3>3. (CHOOSE x \in {r} : TRUE) = r
      OBVIOUS
    <3> QED BY <3>2, <3>3 DEF Phien
  <2> QED BY <2>2, <2>3
<1>2. CASE session # {root}
  <2>1. Refuse
    BY <1>2, Zenon DEF PresenceFinish
  <2>2. Memory!Refuse /\ Kept'
    BY <2>1, RefuseRefines
  <2>3. Phien.root # root
    BY <1>1, <1>2
  <2> QED BY <2>2, <2>3, Zenon DEF Memory!PresenceFinish, Phien
<1>3. CASE session = {root}
  <2>1. /\ files' = SetMissing(files, W, scan_id) /\ session' = {} /\ seen' = {}
        /\ answer' = <<Cardinality(W)>>
        /\ UNCHANGED <<content_groups, now, held, born, births>>
    BY <1>3, Zenon DEF PresenceFinish, DropSession, Ok
  <2>2. Phien.seen = seen /\ Phien' = [root |-> 0, seen |-> {}] /\ Holding' = Holding
    BY <1>3, <2>1 DEF Phien, Holding
  <2>3. K = W
    <3> HIDE DEF Phien
    <3> QED BY <2>2, MappedRows DEF RefInv, Memory!Lost, Dead
  <2>4. W \in SUBSET InUse(files) /\ \A k \in W : files[k].state \notin Dead
    OBVIOUS
  <2> HIDE DEF W, K
  <2>5. /\ Crowns' = Crowns /\ Kept'
        /\ Mapped' = [k \in Keys |-> IF k \in K THEN LostAt(Mapped[k], scan_id) ELSE Mapped[k]]
    <3>1. /\ \A k \in Keys \ W : files'[k] = files[k]
          /\ \A k \in W : /\ files'[k].id = files[k].id
                          /\ As(files'[k], born[k]) = LostAt(Mapped[k], scan_id)
      BY <2>1, <2>4, SetMissingRefines
    <3> QED BY <2>1, <2>3, <2>4, <3>1, EditsRefine
  <2>6. answer' = <<Cardinality(K)>> /\ Phien.root = root
    BY <1>1, <1>3, <2>1, <2>3
  <2> QED
    BY <2>1, <2>2, <2>5, <2>6, Counting, Zenon DEF Memory!PresenceFinish, Memory!NoSession,
       Memory!Changed, Memory!Ok, Mapped, Crowns, Counted, Phien, Holding, K, LostAt
<1> QED BY <1>2, <1>3

\* duoi_thu_muc and is_prefix name the same places.
LEMMA UnderIs ==
  ASSUME NEW loc, NEW dir, IsLoc(loc), IsLoc(dir) PROVE Below(loc, dir) <=> Memory!Under(loc, dir)
<1> DEFINE p == loc.path
           d == dir.path
           S == {p[i] : i \in DOMAIN p} \union {d[i] : i \in DOMAIN d}
<1>1. p \in Seq(S) /\ d \in Seq(S)
  BY DEF IsLoc
<1> HIDE DEF S
<1>2. Below(loc, dir) <=> /\ loc.root = dir.root
                          /\ d = << >> \/ p = d \/ (Len(p) > Len(d) /\ SubSeq(p, 1, Len(d)) = d)
  BY DEF Below
<1>3. Memory!Under(loc, dir) <=> /\ loc.root = dir.root
                                 /\ Len(d) <= Len(p) /\ SubSeq(d, 1, Len(d)) = SubSeq(p, 1, Len(d))
  BY DEF Memory!Under, Memory!IsPrefix
<1> HIDE DEF p, d
<1>4. Len(p) \in Nat /\ Len(d) \in Nat /\ SubSeq(d, 1, Len(d)) = d
  BY <1>1
<1>5. Len(p) = Len(d) => SubSeq(p, 1, Len(d)) = p
  BY <1>1
<1>6. d = << >> => Len(d) = 0 /\ SubSeq(p, 1, Len(d)) = << >>
  BY <1>1
<1> QED BY <1>2, <1>3, <1>4, <1>5, <1>6

LEMMA MarkMissingPrefixRefines ==
  ASSUME RefInv, SqlInv', NEW dir, IsLoc(dir), MarkMissingPrefix(dir)
  PROVE  Memory!MarkMissingPrefix(dir) /\ Kept'
<1> DEFINE W == {k \in InUse(files) : Below(files[k].loc, dir) /\ files[k].state \notin Dead}
           K == {k \in Memory!Stored(Mapped) : /\ Memory!Under(Mapped[k].loc, dir)
                                               /\ Mapped[k].state \notin Memory!Lost}
<1>1. /\ files' = SetMissing(files, W, now) /\ answer' = <<Cardinality(W)>>
      /\ UNCHANGED <<content_groups, now, seen, session, held, born, births>>
  BY Zenon DEF MarkMissingPrefix, Execute, Commit, Ok, others
<1>2. K = W
  <2>1. ASSUME NEW k \in InUse(files)
        PROVE  /\ Mapped[k].state = files[k].state
               /\ Memory!Under(Mapped[k].loc, dir) <=> Below(files[k].loc, dir)
    <3>1. Mapped[k].loc = files[k].loc /\ IsLoc(files[k].loc) /\ Mapped[k].state = files[k].state
      BY MappedRows DEF RefInv, WellFormed
    <3> QED BY <3>1, UnderIs
  <2> QED BY <2>1, MappedRows DEF RefInv, Memory!Lost, Dead
<1>3. W \in SUBSET InUse(files)
  OBVIOUS
<1> HIDE DEF W, K
<1>4. /\ Crowns' = Crowns /\ Kept'
      /\ Mapped' = [k \in Keys |-> IF k \in K THEN Memory!SetMissing(Mapped[k]) ELSE Mapped[k]]
  <2>1. /\ \A k \in Keys \ W : files'[k] = files[k]
        /\ \A k \in W : /\ files'[k].id = files[k].id
                        /\ As(files'[k], born[k]) = Memory!SetMissing(Mapped[k])
    BY <1>1, <1>3, SetMissingRefines
  <2> QED BY <1>1, <1>2, <1>3, <2>1, EditsRefine
<1>5. answer' = <<Cardinality(K)>> /\ Phien' = Phien /\ Holding' = Holding
  BY <1>1, <1>2, Unchanged
<1> QED
  BY <1>1, <1>4, <1>5, Counting, Zenon DEF Memory!MarkMissingPrefix, Memory!Update, Memory!Only,
     Memory!Changed, Memory!Ok, Memory!SetMissing, Memory!Under, Mapped, Crowns, Counted, Phien, Holding, K

LEMMA RenameRefines ==
  ASSUME RefInv, SqlInv', NEW k, NEW loc, Rename(k, loc) PROVE Memory!Rename(k, loc) /\ Kept'
<1> DEFINE W == {j \in InUse(files) \ {k} : files[j].loc = loc}
           first == SetMissing(files, W, now)
           move(row) == [row EXCEPT !.loc = loc, !.updated = now]
           to(j) == IF j = k THEN move(Mapped[k])
                    ELSE IF j \in Memory!Stored(Mapped) /\ Mapped[j].loc = loc
                         THEN Memory!SetMissing(Mapped[j]) ELSE Mapped[j]
<1>1. /\ \A j \in Keys \ W : first[j] = files[j]
      /\ \A j \in W : /\ first[j].id = files[j].id
                      /\ As(first[j], born[j]) = Memory!SetMissing(Mapped[j])
  <2>1. W \in SUBSET InUse(files)
    OBVIOUS
  <2> HIDE DEF W
  <2> QED BY <2>1, SetMissingRefines
<1>2. k \in InUse(first) <=> k \in Memory!Stored(Mapped)
  <2>1. k \in InUse(first) <=> k \in InUse(files)
    <3> HIDE DEF first
    <3> QED BY <1>1 DEF InUse
  <2> QED BY <2>1, MappedRows DEF RefInv
<1>3. CASE k \notin InUse(first)
  <2>1. Refuse
    BY <1>3, Zenon DEF Rename
  <2>2. Memory!Refuse /\ Kept'
    BY <2>1, RefuseRefines
  <2>3. k \notin Memory!Stored(Mapped)
    BY <1>2, <1>3
  <2> QED BY <2>2, <2>3, Zenon DEF Memory!Rename, Mapped
<1>4. CASE k \in InUse(first)
  <2>1. /\ files' = [j \in Keys |-> IF j \in {k} THEN move(first[j]) ELSE first[j]]
        /\ answer' = <<1>>
        /\ UNCHANGED <<content_groups, now, seen, session, held, born, births>>
    BY <1>4, Zenon DEF Rename, Execute, Updating, Commit, Ok, others
  <2> DEFINE V == W \union {k}
  <2>2. /\ V \in SUBSET InUse(files) /\ k \in InUse(files) /\ k \in Memory!Stored(Mapped)
        /\ first[k] = files[k]
    <3>1. k \in InUse(files)
      BY <1>2, <1>4, MappedRows DEF RefInv
    <3>2. k \notin W /\ k \in Keys
      BY <1>4 DEF InUse
    <3> QED BY <1>1, <1>2, <1>4, <3>1, <3>2
  <2>3. move(files[k]).id = files[k].id /\ As(move(files[k]), born[k]) = move(Mapped[k])
    <3>1. WellFormed(files[k], content_groups) /\ Mapped[k] = [files[k] EXCEPT !.id = born[k]]
      BY <2>2, MappedRows DEF RefInv
    <3> QED BY <3>1 DEF WellFormed, As
  <2>4. \A j \in Keys \ {k} : j \in W <=> j \in Memory!Stored(Mapped) /\ Mapped[j].loc = loc
    BY MappedRows DEF RefInv
  <2> HIDE DEF first, move, W
  <2>5. /\ \A j \in Keys \ V : files'[j] = files[j]
        /\ \A j \in V : files'[j].id = files[j].id
        /\ \A j \in V : As(files'[j], born[j])
                         = IF j = k THEN move(Mapped[k]) ELSE Memory!SetMissing(Mapped[j])
    <3>1. k \in Keys /\ \A j \in W : j \in Keys
      BY <2>2 DEF InUse
    <3> QED BY <1>1, <2>1, <2>2, <2>3, <3>1
  <2>6. /\ Crowns' = Crowns /\ Kept'
        /\ \A j \in V : Mapped'[j] = As(files'[j], born[j])
        /\ \A j \in Keys \ V : Mapped'[j] = Mapped[j]
        /\ Mapped' = [j \in Keys |-> Mapped'[j]]
    <3> HIDE DEF V
    <3> QED BY <2>1, <2>2, <2>5, EditsRefine
  <2>7. Mapped' = [j \in Keys |-> to(j)]
    <3>1. \A j \in Keys : Mapped'[j] = to(j)
      BY <2>2, <2>4, <2>5, <2>6
    <3> HIDE DEF to
    <3> QED BY <2>6, <3>1
  <2>8. Phien' = Phien /\ Holding' = Holding
    BY <2>1, Unchanged
  <2> QED
    BY <2>1, <2>2, <2>6, <2>7, <2>8, Zenon DEF Memory!Rename, Memory!Only, Memory!Ok,
       Memory!SetMissing, Mapped, Crowns, Counted, Phien, Holding, move
<1> QED BY <1>3, <1>4

LEMMA RenamePrefixRefines ==
  ASSUME RefInv, SqlInv', NEW old, NEW new, IsLoc(old), IsLoc(new), RenamePrefix(old, new)
  PROVE  Memory!RenamePrefix(old, new) /\ Kept'
<1> DEFINE W == {k \in InUse(files) : Below(files[k].loc, old)}
           K == {k \in Memory!Stored(Mapped) : Memory!Under(Mapped[k].loc, old)}
<1>1. /\ files' = [k \in Keys |-> IF k \in W THEN SetPrefix(files[k], old, new) ELSE files[k]]
      /\ answer' = <<Cardinality(W)>>
      /\ UNCHANGED <<content_groups, now, seen, session, held, born, births>>
  BY Zenon DEF RenamePrefix, Execute, Updating, Commit, Ok, others, SetPrefix
<1>2. K = W
  <2>1. ASSUME NEW k \in InUse(files)
        PROVE  Memory!Under(Mapped[k].loc, old) <=> Below(files[k].loc, old)
    <3>1. Mapped[k].loc = files[k].loc /\ IsLoc(files[k].loc)
      BY MappedRows DEF RefInv, WellFormed
    <3> QED BY <3>1, UnderIs
  <2> QED BY <2>1, MappedRows DEF RefInv
<1>3. ASSUME NEW k \in InUse(files)
      PROVE  /\ k \in Keys /\ SetPrefix(files[k], old, new).id = files[k].id
             /\ As(SetPrefix(files[k], old, new), born[k]) = Moved(Mapped[k], old, new)
  <2>1. /\ k \in Keys /\ WellFormed(files[k], content_groups)
        /\ Mapped[k] = [files[k] EXCEPT !.id = born[k]] /\ Mapped[k].loc = files[k].loc
    BY MappedRows DEF RefInv
  <2>2. SetPrefix(files[k], old, new) = Moved(files[k], old, new)
    BY <2>1, MovedIs
  <2> DEFINE at == [root |-> new.root,
                    path |-> new.path \o SubSeq(files[k].loc.path, Len(old.path) + 1, Len(files[k].loc.path))]
  <2>3. /\ Moved(files[k], old, new) = [files[k] EXCEPT !.updated = now, !.loc = at]
        /\ Moved(Mapped[k], old, new) = [Mapped[k] EXCEPT !.updated = now, !.loc = at]
    BY <2>1, Zenon DEF Moved
  <2> HIDE DEF at
  <2>4. As([files[k] EXCEPT !.updated = now, !.loc = at], born[k])
          = [Mapped[k] EXCEPT !.updated = now, !.loc = at]
    BY <2>1 DEF WellFormed, As
  <2> QED BY <2>1, <2>2, <2>3, <2>4, MovedIs
<1>4. W \in SUBSET InUse(files)
  OBVIOUS
<1> HIDE DEF W, K
<1>5. /\ Crowns' = Crowns /\ Kept'
      /\ Mapped' = [k \in Keys |-> IF k \in K THEN Moved(Mapped[k], old, new) ELSE Mapped[k]]
  BY <1>1, <1>2, <1>3, <1>4, EditsRefine
<1>6. answer' = <<Cardinality(K)>> /\ Phien' = Phien /\ Holding' = Holding
  BY <1>1, <1>2, Unchanged
<1> QED
  BY <1>1, <1>5, <1>6, Counting, Zenon DEF Memory!RenamePrefix, Memory!Update, Memory!Only,
     Memory!Changed, Memory!Ok, Memory!Under, Moved, Mapped, Crowns, Counted, Phien, Holding, K

(* ------------------ the session, the clock, what is held ---------------- *)

LEMMA PhienIs ==
  ASSUME RefInv
  PROVE  /\ session = {} <=> Phien = [root |-> 0, seen |-> {}]
         /\ session # {} => Phien.root \in session /\ Phien = [root |-> Phien.root, seen |-> seen]
<1>1. session \subseteq Roots /\ 0 \notin Roots
  BY TableAssumption DEF RefInv, SqlInv, ClockInv, Roots, NULL
<1>2. CASE session = {}
  BY <1>2 DEF Phien
<1>3. CASE session # {}
  <2>1. PICK r \in session : r = CHOOSE x \in session : TRUE
    BY <1>3
  <2>2. Phien = [root |-> r, seen |-> seen] /\ Phien.root = r
    BY <1>3, <2>1 DEF Phien
  <2>3. r # 0 /\ Phien # [root |-> 0, seen |-> {}]
    <3>1. r # 0
      BY <1>1
    <3>2. [root |-> 0, seen |-> {}].root = 0
      OBVIOUS
    <3> QED BY <2>2, <3>1, <3>2
  <2> QED BY <1>3, <2>2, <2>3
<1> QED BY <1>2, <1>3

LEMMA BeginRefines ==
  ASSUME RefInv, NEW root, PresenceBegin(root) PROVE Memory!PresenceBegin(root) /\ Kept'
<1>1. CASE session # {}
  <2>1. Refuse
    BY <1>1, Zenon DEF PresenceBegin
  <2>2. Memory!Refuse /\ Kept' /\ Phien # [root |-> 0, seen |-> {}]
    BY <1>1, <2>1, RefuseRefines, PhienIs
  <2> QED BY <2>2, Zenon DEF Memory!PresenceBegin, Memory!NoSession, Phien
<1>2. CASE session = {}
  <2>1. /\ session' = {root} /\ seen' = {} /\ answer' = <<1>>
        /\ UNCHANGED <<files, content_groups, now, held, born, births>>
    BY <1>2 DEF PresenceBegin, tables, Ok
  <2>2. Phien = [root |-> 0, seen |-> {}] /\ Phien' = [root |-> root, seen |-> {}]
    <3>1. (CHOOSE r \in {root} : TRUE) = root
      OBVIOUS
    <3> QED BY <1>2, <2>1, <3>1 DEF Phien
  <2>3. Mapped' = Mapped /\ Crowns' = Crowns /\ Holding' = Holding /\ Kept'
    BY <2>1, Unchanged
  <2> QED BY <2>1, <2>2, <2>3, Zenon DEF Memory!PresenceBegin, Memory!NoSession, Memory!Ok,
             Mapped, Crowns, Counted, Phien, Holding
<1> QED BY <1>1, <1>2

LEMMA AbortRefines == ASSUME RefInv, PresenceAbort PROVE Memory!PresenceAbort /\ Kept'
<1>1. /\ session' = {} /\ seen' = {} /\ answer' = <<1>>
      /\ UNCHANGED <<files, content_groups, now, held, born, births>>
  BY DEF PresenceAbort, DropSession, tables, Ok
<1>2. Phien' = [root |-> 0, seen |-> {}]
  BY <1>1 DEF Phien
<1>3. Mapped' = Mapped /\ Crowns' = Crowns /\ Holding' = Holding /\ Kept'
  BY <1>1, Unchanged
<1> QED BY <1>1, <1>2, <1>3, Zenon DEF Memory!PresenceAbort, Memory!NoSession, Memory!Ok,
           Mapped, Crowns, Counted, Phien, Holding

LEMMA TickRefines == ASSUME RefInv, Tick PROVE Memory!Tick /\ Kept'
<1>1. now' = now + 1 /\ UNCHANGED <<files, content_groups, seen, session, held, born, births, answer>>
  BY DEF Tick, tables
<1>2. Mapped' = Mapped /\ Crowns' = Crowns /\ Phien' = Phien /\ Holding' = Holding /\ Kept'
  BY <1>1, Unchanged
<1> QED BY <1>1, <1>2, Zenon DEF Memory!Tick, Mapped, Crowns, Counted, Phien, Holding

\* Who is held is a row of the table, under the number the counter gave it.
LEMMA HoldRefines ==
  ASSUME RefInv, NEW name, NEW rows \in SUBSET InUse(files), Hold(name, rows)
  PROVE  Memory!Hold(rows) /\ Kept'
<1>1. /\ held = Nobody /\ answer' = <<1>>
      /\ UNCHANGED <<files, content_groups, now, seen, session, born, births>>
  BY DEF Hold, tables, Ok
<1>2. PICK k \in rows : held' = [id |-> files[k].id, from |-> files[k].state, born |-> born[k]]
  BY DEF Hold
<1>3. Mapped[k].id = born[k] /\ Mapped[k].state = files[k].state /\ k \in InUse(files)
  BY MappedRows DEF RefInv
<1>4. /\ Holding = [id |-> 0, from |-> "none"]
      /\ Holding' = [id |-> Mapped[k].id, from |-> Mapped[k].state]
  BY <1>1, <1>2, <1>3 DEF Holding, Nobody
<1>5. Mapped' = Mapped /\ Crowns' = Crowns /\ Phien' = Phien
  BY <1>1, Unchanged
<1>6. Kept'
  <2>1. Crowned(files, content_groups)'
    BY <1>1 DEF RefInv, Kept, Crowned, InUse, ById
  <2>2. Alive(held, files, born)'
    BY <1>1, <1>2, <1>3 DEF Alive, InUse
  <2> QED BY <2>1, <2>2 DEF Kept
<1> QED BY <1>1, <1>4, <1>5, <1>6, Zenon DEF Memory!Hold, Memory!Nobody, Memory!Ok, Mapped, Crowns,
           Counted, Phien, Holding

LEMMA TakesRefine ==
  ASSUME RefInv
  PROVE  /\ \A heavy \in BOOLEAN : Take(heavy) => Memory!Take(heavy) /\ Kept'
         /\ \A loc : TakeFinished(loc) => Memory!TakeFinished(loc) /\ Kept'
<1>1. ASSUME NEW heavy \in BOOLEAN, Take(heavy) PROVE Memory!Take(heavy) /\ Kept'
  <2>1. NextReady(heavy) \subseteq InUse(files) /\ NextReady(heavy) = Memory!NextReady(heavy)
    BY NextReadyAgrees DEF NextReady, FirstOf, RefInv
  <2>2. Memory!Hold(NextReady(heavy)) /\ Kept'
    BY <1>1, <2>1, HoldRefines DEF Take
  <2> QED BY <2>1, <2>2, Zenon DEF Memory!Take
<1>2. ASSUME NEW loc, TakeFinished(loc) PROVE Memory!TakeFinished(loc) /\ Kept'
  <2> DEFINE rows == {k \in FindByPath(loc) : Undoing /\ files[k].state = "canonical"}
             best == {k \in Memory!FindByPath(loc) : Mapped[k].state = "canonical"}
  <2>1. FindByPath(loc) \subseteq InUse(files) /\ FindByPath(loc) = Memory!FindByPath(loc)
    BY FindByPathAgrees DEF FindByPath, FirstOf, RefInv, SqlInv
  <2>2. Hold(<<"find_by_path", loc>>, rows) /\ rows \in SUBSET InUse(files)
    BY <1>2, <2>1 DEF TakeFinished
  <2>3. rows # {}
    <3> HIDE DEF rows
    <3> QED BY <2>2 DEF Hold
  <2>4. Undoing
    BY <2>3
  <2>5. rows = {k \in FindByPath(loc) : files[k].state = "canonical"}
    <3>1. \A k : k \in rows <=> k \in FindByPath(loc) /\ files[k].state = "canonical"
      BY <2>4
    <3> HIDE DEF rows
    <3> QED BY <3>1
  <2>6. rows = best
    <3> HIDE DEF rows
    <3>1. \A k \in FindByPath(loc) : Mapped[k].state = files[k].state
      BY <2>1, MappedRows DEF RefInv
    <3> QED BY <2>1, <2>5, <3>1
  <2> HIDE DEF rows
  <2>7. Memory!Hold(rows) /\ Kept'
    BY <2>2, HoldRefines
  <2> HIDE DEF best
  <2>8. Memory!Hold(best)
    BY <2>6, <2>7
  <2> QED BY <2>7, <2>8, Zenon DEF Memory!TakeFinished, best, Mapped
<1> QED BY <1>1, <1>2

\* The second UPDATE finds what the first did not wake: waking sets ready_at,
\* and no time is NULL.
LEMMA ScanPhaseBRefines ==
  ASSUME RefInv, SqlInv', NEW root, ScanPhaseB(root) PROVE Memory!ScanPhaseB(root) /\ Kept'
<1> DEFINE asleep(f) == {k \in InUse(f) : f[k].loc.root = root /\ f[k].state = "sized"
                                          /\ f[k].ready = NULL}
           count(body) == Cardinality({k \in InUse(files) :
                                         files[k].state \notin Dead /\ files[k].fp.body = body})
           W == asleep(files)
           twins == {k \in W : count(files[k].fp.body) > 1}
           wake(row)     == [row EXCEPT !.ready = now, !.updated = now]
           distinct(row) == [row EXCEPT !.state = "distinct", !.updated = now]
           first == [k \in Keys |-> IF k \in twins THEN wake(files[k]) ELSE files[k]]
           rest  == asleep(first)
           parked == {k \in Memory!Stored(Mapped) : /\ Mapped[k].loc.root = root
                                                    /\ Mapped[k].state = "sized" /\ Mapped[k].ready = 0}
           peers(row) == {k \in Memory!Stored(Mapped) : /\ Mapped[k].state \notin Memory!Lost
                                                        /\ Mapped[k].fp.body = row.fp.body}
           many == {k \in parked : Cardinality(peers(Mapped[k])) > 1}
           woken(row) == IF Cardinality(peers(row)) > 1 THEN wake(row) ELSE distinct(row)
<1>1. /\ files' = [k \in Keys |-> IF k \in rest THEN distinct(first[k]) ELSE first[k]]
      /\ answer' = <<Cardinality(twins), Cardinality(rest)>>
      /\ UNCHANGED <<content_groups, now, seen, session, held, born, births>>
  <2>1. UNCHANGED <<content_groups, others>>
    BY Zenon DEF ScanPhaseB
  <2>3. answer' = <<Cardinality(twins), Cardinality(rest)>>
    BY Zenon DEF ScanPhaseB, Updating
  <2>2. files' = [k \in Keys |-> IF k \in rest THEN distinct(first[k]) ELSE first[k]]
    BY Zenon DEF ScanPhaseB, Updating
  <2> HIDE DEF twins, rest, first, distinct
  <2> QED BY <2>1, <2>2, <2>3 DEF others
<1>2. parked = W /\ W \in SUBSET InUse(files)
  BY MappedRows DEF RefInv, NULL
<1>3. \A row : peers(row) = {k \in InUse(files) : /\ files[k].state \notin Dead
                                                  /\ files[k].fp.body = row.fp.body}
  BY MappedRows DEF RefInv, Memory!Lost, Dead
<1>4. \A k \in InUse(files) : count(files[k].fp.body) = Cardinality(peers(Mapped[k]))
  <2>1. \A k \in InUse(files) : Mapped[k].fp = files[k].fp
    BY MappedRows DEF RefInv
  <2> HIDE DEF peers
  <2> QED BY <1>3, <2>1
<1>5. many = twins
  <2> HIDE DEF parked, W, peers, count
  <2> QED BY <1>2, <1>4
<1>6. ASSUME NEW k \in InUse(files)
      PROVE  /\ k \in Keys
             /\ wake(files[k]).id = files[k].id /\ wake(files[k]).ready # NULL
             /\ As(wake(files[k]), born[k]) = wake(Mapped[k])
             /\ distinct(files[k]).id = files[k].id
             /\ As(distinct(files[k]), born[k]) = distinct(Mapped[k])
  <2>1. /\ k \in Keys /\ WellFormed(files[k], content_groups) /\ now # 0
        /\ Mapped[k] = [files[k] EXCEPT !.id = born[k]]
    BY MappedRows DEF RefInv, SqlInv, ClockInv
  <2> QED BY <2>1 DEF WellFormed, As, NULL
<1>7. rest = W \ twins
  <2>1. \A k \in Keys : first[k] = IF k \in twins THEN wake(files[k]) ELSE files[k]
    BY Zenon
  <2>2. twins \subseteq W /\ twins \subseteq InUse(files)
    BY <1>2
  <2> HIDE DEF twins, wake, first
  <2>3. \A k \in Keys : k \in InUse(first) <=> k \in InUse(files)
    BY <1>6, <2>1, <2>2 DEF InUse
  <2>4. \A k : k \in rest <=> k \in W \ twins
    BY <1>6, <2>1, <2>2, <2>3 DEF InUse
  <2> HIDE DEF rest, W
  <2> QED BY <2>4
<1> HIDE DEF twins, rest, W, parked, peers, many
<1>8. /\ \A k \in Keys \ W : files'[k] = files[k]
      /\ \A k \in W : /\ files'[k].id = files[k].id
                      /\ As(files'[k], born[k]) = IF k \in twins THEN wake(Mapped[k]) ELSE distinct(Mapped[k])
  <2>1. \A k \in W : k \in Keys /\ k \in InUse(files)
    BY <1>2, <1>6
  <2>2. twins \subseteq W
    BY DEF twins
  <2>3. \A k \in Keys : files'[k] = IF k \in twins THEN wake(files[k])
                                    ELSE IF k \in W THEN distinct(files[k]) ELSE files[k]
    <3>1. \A k \in Keys : first[k] = IF k \in twins THEN wake(files[k]) ELSE files[k]
      BY Zenon
    <3>2. \A k \in Keys : files'[k] = IF k \in rest THEN distinct(first[k]) ELSE first[k]
      BY <1>1, Zenon
    <3> HIDE DEF wake, distinct, first
    <3> QED BY <1>7, <2>2, <3>1, <3>2
  <2> HIDE DEF wake, distinct
  <2> QED BY <1>6, <2>1, <2>2, <2>3
<1>9. \A k \in W : k \in twins <=> Cardinality(peers(Mapped[k])) > 1
  BY <1>2, <1>5 DEF many
<1>10. /\ Crowns' = Crowns /\ Kept'
       /\ Mapped' = [k \in Keys |-> IF k \in parked THEN woken(Mapped[k]) ELSE Mapped[k]]
  <2> HIDE DEF wake, distinct
  <2>1. /\ Crowns' = Crowns /\ Kept'
        /\ \A k \in W : Mapped'[k] = As(files'[k], born[k])
        /\ \A k \in Keys \ W : Mapped'[k] = Mapped[k]
        /\ Mapped' = [k \in Keys |-> Mapped'[k]]
    BY <1>1, <1>2, <1>8, EditsRefine
  <2>2. \A k \in Keys : Mapped'[k] = IF k \in parked THEN woken(Mapped[k]) ELSE Mapped[k]
    BY <1>2, <1>8, <1>9, <2>1
  <2> HIDE DEF woken
  <2> QED BY <2>1, <2>2
<1>11. /\ answer' = <<Cardinality(many), Cardinality(parked \ many)>>
       /\ Phien' = Phien /\ Holding' = Holding
  BY <1>1, <1>2, <1>5, <1>7, Unchanged
<1> QED
  BY <1>1, <1>10, <1>11, Counting, Zenon DEF Memory!ScanPhaseB, Memory!Only, Memory!Changed,
     Mapped, Crowns, Counted, Phien, Holding, parked, peers, many, wake, distinct

(* ------------------------------- upserts ------------------------------- *)

Columns == {"id", "loc", "fp", "state", "prev", "ready", "waits", "known", "group", "skip", "updated"}

LEMMA RowsEqual ==
  ASSUME NEW r, NEW s, r = [c \in Columns |-> r[c]], s = [c \in Columns |-> s[c]],
         r.id = s.id, r.loc = s.loc, r.fp = s.fp, r.state = s.state, r.prev = s.prev,
         r.ready = s.ready, r.waits = s.waits, r.known = s.known, r.group = s.group,
         r.skip = s.skip, r.updated = s.updated
  PROVE  r = s
<1>1. \A c \in Columns : r[c] = s[c]
  BY DEF Columns
<1> QED BY <1>1

\* ON CONFLICT DO UPDATE, column by column, is decide_upsert and apply_upsert.
LEMMA ConflictRefines ==
  ASSUME NEW row, NEW gs, WellFormed(row, gs), NEW n, NEW fp, NEW kind, NEW loc, NEW ready
  PROVE  As(OnConflict(row, fp, kind, loc, ready), n) = Memory!Upserted(As(row, n), fp, kind, loc, ready)
<1> DEFINE m == As(row, n)
           same == FpIs(kind, row, fp)
           undo == row.skip = "user_undo"
           back == row.state = "missing" /\ same
           state == IF back THEN Memory!RestoreTarget(row.prev)
                    ELSE IF same \/ undo THEN row.state ELSE "settling"
           prev == IF same \/ row.state \in Memory!Queued THEN row.prev ELSE row.state
           wake == IF back THEN IF state \in Memory!Queued THEN ready ELSE 0
                   ELSE IF same /\ row.state \notin Memory!Queued THEN row.ready ELSE ready
           s == [m EXCEPT !.loc = loc, !.state = state, !.updated = now, !.prev = prev, !.ready = wake,
                          !.waits = IF same THEN row.waits ELSE 0, !.known = same /\ row.known,
                          !.group = IF same THEN row.group ELSE 0,
                          !.skip  = IF same \/ undo THEN row.skip ELSE "none"]
           c == OnConflict(row, fp, kind, loc, ready)
           r == As(c, n)
<1>1. /\ DOMAIN row = Columns /\ row.known \in BOOLEAN /\ row.state \in Memory!State
      /\ row.prev \in Memory!State \union {"none"}
  BY DEF WellFormed, Columns
<1>2. /\ DOMAIN m = Columns /\ m.id = n /\ m.loc = row.loc /\ m.fp = row.fp /\ m.state = row.state
      /\ m.prev = row.prev /\ m.ready = row.ready /\ m.waits = row.waits /\ m.known = row.known
      /\ m.group = row.group /\ m.skip = row.skip /\ m.updated = row.updated
  BY <1>1 DEF As, Columns
<1> HIDE DEF m
<1>3. Memory!SameFp(kind, m.fp, fp) <=> same
  BY <1>2 DEF Memory!SameFp, FpIs
<1>4. same \in BOOLEAN
  BY DEF FpIs
<1>5. Memory!Upserted(m, fp, kind, loc, ready) = s
  <2>1. Memory!SameFp(kind, m.fp, fp) = same
    BY <1>3, <1>4 DEF Memory!SameFp
  <2> HIDE DEF same
  <2> QED BY <1>2, <2>1, Zenon DEF Memory!Upserted
<1>6. /\ DOMAIN c = Columns /\ c.loc = loc /\ c.fp = row.fp /\ c.updated = now
      /\ c.state = CASE row.state = "missing" /\ same         -> Restored(row)
                     [] row.state # "missing" /\ same         -> row.state
                     [] ~same /\ row.skip = "user_undo"       -> row.state
                     [] ~same /\ row.skip # "user_undo"       -> "settling"
      /\ c.prev = (IF same \/ row.state \in Queue THEN row.prev ELSE row.state)
      /\ c.ready = CASE row.state = "missing" /\ same -> Awake(Restored(row), ready)
                     [] row.state \notin Queue \union {"missing"} /\ same -> row.ready
                     [] row.state \in Queue \/ ~same          -> ready
      /\ c.waits = (IF same THEN row.waits ELSE NULL)
      /\ c.known = (IF same THEN row.known ELSE FALSE)
      /\ c.group = (IF same THEN row.group ELSE NULL)
      /\ c.skip = (IF same \/ row.skip = "user_undo" THEN row.skip ELSE "none")
  BY DEF OnConflict, Columns
<1> HIDE DEF c
<1>7. /\ r = [x \in Columns |-> r[x]] /\ r.id = n /\ r.loc = c.loc /\ r.fp = c.fp /\ r.state = c.state
      /\ r.prev = c.prev /\ r.ready = c.ready /\ r.waits = c.waits /\ r.known = c.known
      /\ r.group = c.group /\ r.skip = c.skip /\ r.updated = c.updated
  BY <1>6 DEF As, Columns
<1> HIDE DEF r
<1>8. Restored(row) = Memory!RestoreTarget(row.prev)
  BY <1>1 DEF Restored, Memory!RestoreTarget, Memory!State, Memory!Queued, Memory!Lost
<1>9. c.state = state
  <2> HIDE DEF same
  <2> QED BY <1>4, <1>6, <1>8
<1>10. c.prev = prev
  <2> HIDE DEF same
  <2> QED BY <1>6 DEF Queue, Memory!Queued
<1>11. c.ready = wake
  <2>1. back => state = Restored(row) /\ Awake(Restored(row), ready) = IF state \in Memory!Queued THEN ready ELSE 0
    <3> HIDE DEF same
    <3> QED BY <1>8 DEF Awake, Queue, Memory!Queued, NULL
  <2>2. "missing" \notin Queue /\ Queue = Memory!Queued
    BY DEF Queue, Memory!Queued
  <2> HIDE DEF same, state
  <2> QED BY <1>4, <1>6, <2>1, <2>2
<1>12. c.known = (same /\ row.known)
  <2> HIDE DEF same
  <2> QED BY <1>1, <1>4, <1>6
<1> HIDE DEF same, state, prev, wake
<1>13. /\ s = [x \in Columns |-> s[x]] /\ s.id = n /\ s.loc = loc /\ s.fp = row.fp /\ s.state = state
       /\ s.prev = prev /\ s.ready = wake /\ s.waits = (IF same THEN row.waits ELSE 0)
       /\ s.known = (same /\ row.known) /\ s.group = (IF same THEN row.group ELSE 0)
       /\ s.skip = (IF same \/ undo THEN row.skip ELSE "none") /\ s.updated = now
  BY <1>2 DEF Columns
<1> HIDE DEF s
<1>14. /\ r.id = s.id /\ r.loc = s.loc /\ r.fp = s.fp /\ r.state = s.state
       /\ r.prev = s.prev /\ r.ready = s.ready /\ r.waits = s.waits /\ r.known = s.known
       /\ r.group = s.group /\ r.skip = s.skip /\ r.updated = s.updated
  BY <1>6, <1>7, <1>9, <1>10, <1>11, <1>12, <1>13 DEF NULL
<1>15. r = s
  BY <1>7, <1>13, <1>14, RowsEqual, Zenon
<1> QED BY <1>5, <1>15 DEF r, c, m

LEMMA GroupsAre ==
  ASSUME NEW gs \in Groups
  PROVE  /\ DOMAIN gs = 1..Len(gs) /\ Len(gs) \in Nat /\ 0 \notin DOMAIN gs
         /\ gs = [g \in DOMAIN gs |-> gs[g]]
         /\ \A g \in DOMAIN gs : gs[g] \in [canon : Nat, verified : Nat]
<1> DEFINE Row == [canon : Nat, verified : Nat]
<1>1. gs \in Seq(Row)
  BY DEF Groups
<1> HIDE DEF Row
<1>2. DOMAIN gs = 1..Len(gs) /\ Len(gs) \in Nat /\ gs = [g \in DOMAIN gs |-> gs[g]]
  BY <1>1
<1>3. \A g \in DOMAIN gs : gs[g] \in Row
  BY <1>1
<1> QED BY <1>2, <1>3 DEF Row

\* A pointer that is taken away is no pointer in either store.
LEMMA MapUncrown ==
  ASSUME NEW f, NEW gs, NEW b, NEW n, Rows(f, gs), Order(f, b, n), NEW us \in Groups, NEW W
  PROVE  MapGroups(Uncrown(us, W), f, b)
           = [g \in DOMAIN us |-> IF g \in W THEN [MapGroups(us, f, b)[g] EXCEPT !.canon = 0]
                                  ELSE MapGroups(us, f, b)[g]]
<1>1. CountIn(f, b, 0) = 0
  BY CountIs
<1>2. \A g \in DOMAIN us : us[g] \in [canon : Nat, verified : Nat]
  BY GroupsAre
<1>3. DOMAIN Uncrown(us, W) = DOMAIN us
  BY DEF Uncrown
<1>4. ASSUME NEW g \in DOMAIN us
      PROVE  [Uncrown(us, W)[g] EXCEPT !.canon = CountIn(f, b, @)]
               = IF g \in W THEN [MapGroups(us, f, b)[g] EXCEPT !.canon = 0] ELSE MapGroups(us, f, b)[g]
  <2>1. Uncrown(us, W)[g] = IF g \in W THEN [us[g] EXCEPT !.canon = 0] ELSE us[g]
    BY DEF Uncrown, NULL
  <2>2. MapGroups(us, f, b)[g] = [us[g] EXCEPT !.canon = CountIn(f, b, us[g].canon)]
    BY <1>2 DEF MapGroups
  <2>3. [us[g] EXCEPT !.canon = 0].canon = 0
    BY <1>2
  <2> QED BY <1>1, <1>2, <2>1, <2>2, <2>3
<1> QED BY <1>3, <1>4, Zenon DEF MapGroups

\* upsert_in_tx of a row that is there is apply_upsert and what it does to the
\* groups.
LEMMA UpsertMaps ==
  ASSUME NEW db, db.gs \in Groups, Rows(db.f, db.gs), NEW b, NEW n, Order(db.f, b, n),
         Crowned(db.f, db.gs), NEW k \in InUse(db.f), NEW fp, NEW loc, IsLoc(loc),
         NEW ready \in Nat, NEW kind
  PROVE  /\ UpsertInTx(db, k, fp, loc, ready, kind).f[k].state
              = Memory!Upserted(MapTable(db.f, b)[k], fp, kind, loc, ready).state
         /\ MapTable(UpsertInTx(db, k, fp, loc, ready, kind).f, b)
              = [MapTable(db.f, b) EXCEPT ![k] = Memory!Upserted(@, fp, kind, loc, ready)]
         /\ MapGroups(UpsertInTx(db, k, fp, loc, ready, kind).gs, UpsertInTx(db, k, fp, loc, ready, kind).f, b)
              = Memory!Uncrowned(MapGroups(db.gs, db.f, b), MapTable(db.f, b)[k],
                                 Memory!Upserted(MapTable(db.f, b)[k], fp, kind, loc, ready))
         /\ Crowned(UpsertInTx(db, k, fp, loc, ready, kind).f, UpsertInTx(db, k, fp, loc, ready, kind).gs)
         /\ Stays(db.f, b, UpsertInTx(db, k, fp, loc, ready, kind).f, b)
<1> DEFINE new == UpsertInTx(db, k, fp, loc, ready, kind)
           row == OnConflict(db.f[k], fp, kind, loc, ready)
           f == [db.f EXCEPT ![k] = row]
           W == {g \in DOMAIN db.gs : /\ g = db.f[k].group /\ db.gs[g].canon = row.id
                                      /\ f[k].group = NULL}
           T == MapTable(db.f, b)
           up == Memory!Upserted(T[k], fp, kind, loc, ready)
           G == MapGroups(db.gs, db.f, b)
<1>1. new = [f |-> f, gs |-> Uncrown(db.gs, W)]
  BY Zenon DEF UpsertInTx
<1>2. /\ Edits(db.f, new.f, new.gs) /\ new.gs \in Groups
  BY UpsertEdits
<1>3. k \in Keys /\ WellFormed(db.f[k], db.gs) /\ DOMAIN db.f = Keys
  BY RowsIn
<1>4. row.id = db.f[k].id /\ WellFormed(row, db.gs)
  <2> HIDE DEF row
  <2> QED BY <1>3, ConflictIs DEF row
<1>0. T[k] = As(db.f[k], b[k]) /\ T[k].group = db.f[k].group /\ T[k].id = b[k]
  BY MapTableIs DEF As
<1>5. As(row, b[k]) = up
  <2>1. T[k] = As(db.f[k], b[k])
    BY <1>0
  <2>2. As(row, b[k]) = Memory!Upserted(As(db.f[k], b[k]), fp, kind, loc, ready)
    <3> HIDE DEF row
    <3> QED BY <1>3, ConflictRefines DEF row
  <2> HIDE DEF T
  <2> QED BY <2>1, <2>2
<1>6. up.state = row.state /\ up.group = row.group /\ up.id = b[k]
  <2> HIDE DEF row, up
  <2> QED BY <1>4, <1>5 DEF As, WellFormed
<1>7. new.f[k] = row /\ \A j \in Keys \ {k} : new.f[j] = db.f[j]
  <2> HIDE DEF row, W
  <2> QED BY <1>1, <1>3
<1>8. MapTable(new.f, b) = [T EXCEPT ![k] = up]
  <2> HIDE DEF new, row, up
  <2>1. MapRow(new.f[k], b[k]) = up
    BY <1>4, <1>5, <1>7 DEF As, MapRow, InUse
  <2>2. \A j \in Keys \ {k} : MapRow(new.f[j], b[j]) = T[j]
    BY <1>7 DEF MapTable
  <2>3. T = [j \in Keys |-> T[j]]
    BY DEF MapTable
  <2> HIDE DEF T
  <2> QED BY <1>3, <2>1, <2>2, <2>3 DEF MapTable
<1>9. Stays(db.f, b, new.f, b)
  <2> HIDE DEF new
  <2> QED BY <1>2, EditsStays
<1>10. Rows(new.f, new.gs) /\ Order(new.f, b, n)
  <2> HIDE DEF new
  <2> QED BY <1>2, EditsKeep
<1>11. MapGroups(db.gs, new.f, b) = G /\ Crowned(new.f, db.gs)
  <2> HIDE DEF new
  <2> QED BY <1>9, <1>10, StaysMaps
<1>12. Crowned(new.f, new.gs)
  <2> HIDE DEF f, W
  <2>1. new.gs = Uncrown(db.gs, W)
    BY <1>1
  <2>2. \A g \in DOMAIN new.gs : g \in DOMAIN db.gs /\ (new.gs[g].canon # NULL => new.gs[g] = db.gs[g])
    <3>1. \A g \in DOMAIN db.gs : [db.gs[g] EXCEPT !.canon = NULL].canon = NULL
      BY GroupsAre
    <3> HIDE DEF new
    <3> QED BY <2>1, <3>1 DEF Uncrown
  <2> HIDE DEF new
  <2> QED BY <1>11, <2>2 DEF Crowned
<1>13. MapGroups(new.gs, new.f, b)
         = [g \in DOMAIN db.gs |-> IF g \in W THEN [G[g] EXCEPT !.canon = 0] ELSE G[g]]
  <2> HIDE DEF f, W
  <2>1. new.gs = Uncrown(db.gs, W)
    BY <1>1
  <2> HIDE DEF new
  <2> QED BY <1>10, <1>11, <2>1, MapUncrown
<1>14. ASSUME NEW g \in DOMAIN db.gs
       PROVE  g \in W <=> g = T[k].group /\ up.group = 0 /\ G[g].canon = T[k].id
  <2>1. T[k].group = db.f[k].group /\ T[k].id = b[k]
    BY <1>0
  <2>2. G[g].canon = CountIn(db.f, b, db.gs[g].canon)
    <3>1. db.gs[g] \in [canon : Nat, verified : Nat]
      BY GroupsAre
    <3> QED BY <3>1 DEF MapGroups
  <2>3. CountIn(db.f, b, db.gs[g].canon) = b[k] <=> db.gs[g].canon = db.f[k].id
    BY CountedAre DEF Crowned
  <2>4. g \in W <=> g = db.f[k].group /\ db.gs[g].canon = row.id /\ row.group = NULL
    <3>1. f[k] = row
      BY <1>3
    <3> HIDE DEF f, row
    <3> QED BY <3>1
  <2> HIDE DEF T, up, G, W, row
  <2> QED BY <1>4, <1>6, <2>1, <2>2, <2>3, <2>4 DEF NULL
<1>15. T[k].group = 0 \/ T[k].group \in DOMAIN db.gs
  <2>2. DOMAIN db.gs = 1..Len(db.gs) /\ Len(db.gs) \in Nat
    BY GroupsAre
  <2>3. T[k].group \in 0..Len(db.gs)
    BY <1>0, <1>3 DEF WellFormed
  <2> HIDE DEF T
  <2> QED BY <2>2, <2>3
<1>16. MapGroups(new.gs, new.f, b) = Memory!Uncrowned(G, T[k], up)
  <2>1. DOMAIN G = DOMAIN db.gs /\ G = [g \in DOMAIN db.gs |-> G[g]] /\ 0 \notin DOMAIN db.gs
    <3>1. 0 \notin DOMAIN db.gs
      BY GroupsAre
    <3> QED BY <3>1 DEF MapGroups
  <2> HIDE DEF new, T, up, G, W
  <2>2. CASE T[k].group # 0 /\ up.group = 0 /\ G[T[k].group].canon = T[k].id
    <3> DEFINE c == T[k].group
    <3>1. \A g \in DOMAIN db.gs : g \in W <=> g = c
      BY <1>14, <2>2
    <3>2. c \in DOMAIN db.gs
      BY <1>15, <2>2
    <3>3. Memory!Uncrowned(G, T[k], up) = [G EXCEPT ![c].canon = 0]
      BY <2>2, Zenon DEF Memory!Uncrowned
    <3> HIDE DEF c
    <3>4. [G EXCEPT ![c].canon = 0] = [g \in DOMAIN db.gs |-> IF g = c THEN [G[g] EXCEPT !.canon = 0] ELSE G[g]]
      BY <2>1, <3>2
    <3> QED BY <1>13, <3>1, <3>3, <3>4
  <2>3. CASE ~(T[k].group # 0 /\ up.group = 0 /\ G[T[k].group].canon = T[k].id)
    <3>1. \A g \in DOMAIN db.gs : g \notin W
      BY <1>14, <2>1, <2>3
    <3>2. Memory!Uncrowned(G, T[k], up) = G
      BY <2>3, Zenon DEF Memory!Uncrowned
    <3> QED BY <1>13, <2>1, <3>1, <3>2
  <2> QED BY <2>2, <2>3
<1>17. new.f[k].state = up.state
  BY <1>6, <1>7
<1> QED BY <1>8, <1>9, <1>12, <1>16, <1>17

LEMMA AliveStays ==
  ASSUME NEW f, NEW b, NEW f2, NEW b2, NEW h, Stays(f, b, f2, b2), Alive(h, f, b)
  PROVE  Alive(h, f2, b2)
BY DEF Alive, Stays

\* A new row gets the next number of the counter.
LEMMA InsertMaps ==
  ASSUME NEW f, NEW gs, NEW b, NEW n, Rows(f, gs), Order(f, b, n),
         NEW k \in Keys \ InUse(f), NEW row, row.id = NewRowid(f)
  PROVE  /\ MapTable([f EXCEPT ![k] = row], [b EXCEPT ![k] = n + 1])
              = [MapTable(f, b) EXCEPT ![k] = As(row, n + 1)]
         /\ Stays(f, b, [f EXCEPT ![k] = row], [b EXCEPT ![k] = n + 1])
<1> DEFINE f2 == [f EXCEPT ![k] = row]
           b2 == [b EXCEPT ![k] = n + 1]
           T  == MapTable(f, b)
<1>1. DOMAIN f = Keys /\ b \in [Keys -> Nat]
  BY DEF Rows, Order
<1>2. /\ f2[k] = row /\ b2[k] = n + 1
      /\ \A j \in Keys \ {k} : f2[j] = f[j] /\ b2[j] = b[j]
  BY <1>1
<1>3. row.id # NULL
  BY NewRowidIs DEF NULL
<1> HIDE DEF f2, b2
<1>4. MapRow(f2[k], b2[k]) = As(row, n + 1) /\ \A j \in Keys \ {k} : MapRow(f2[j], b2[j]) = T[j]
  BY <1>2, <1>3 DEF MapRow, As, MapTable
<1>5. DOMAIN T = Keys
  BY DEF MapTable
<1> HIDE DEF T
<1>6. MapTable(f2, b2) = [T EXCEPT ![k] = As(row, n + 1)]
  BY <1>4, <1>5 DEF MapTable
<1>7. Stays(f, b, f2, b2)
  BY <1>2, <1>3 DEF Stays, InUse
<1> QED BY <1>6, <1>7 DEF f2, b2, T

LEMMA InsertedAs ==
  ASSUME NEW f, NEW fp, NEW loc, NEW ready, NEW n
  PROVE  As(Inserted(f, fp, loc, "settling", ready), n) = Memory!NewRow(n, fp, loc, ready)
<1> DEFINE r == As(Inserted(f, fp, loc, "settling", ready), n)
           s == Memory!NewRow(n, fp, loc, ready)
<1>1. /\ r = [c \in Columns |-> r[c]] /\ r.id = n /\ r.loc = loc /\ r.fp = fp /\ r.state = "settling"
      /\ r.prev = "none" /\ r.ready = ready /\ r.waits = 0 /\ r.known = FALSE /\ r.group = 0
      /\ r.skip = "none" /\ r.updated = now
  BY DEF Inserted, As, NULL, Columns
<1>2. /\ s = [c \in Columns |-> s[c]] /\ s.id = n /\ s.loc = loc /\ s.fp = fp /\ s.state = "settling"
      /\ s.prev = "none" /\ s.ready = ready /\ s.waits = 0 /\ s.known = FALSE /\ s.group = 0
      /\ s.skip = "none" /\ s.updated = now
  BY DEF Memory!NewRow, Columns
<1> HIDE DEF r, s
<1>3. /\ r.id = s.id /\ r.loc = s.loc /\ r.fp = s.fp /\ r.state = s.state
      /\ r.prev = s.prev /\ r.ready = s.ready /\ r.waits = s.waits /\ r.known = s.known
      /\ r.group = s.group /\ r.skip = s.skip /\ r.updated = s.updated
  BY <1>1, <1>2
<1>4. r = s
  BY <1>1, <1>2, <1>3, RowsEqual, Zenon
<1> QED BY <1>4 DEF r, s

LEMMA UpsertRefines ==
  ASSUME RefInv, SqlInv', NEW k \in Keys, NEW fp, NEW loc, IsLoc(loc), NEW wait \in Nat,
         UpsertPending(k, fp, loc, wait)
  PROVE  Memory!UpsertPending(k, fp, loc, wait) /\ Kept'
<1> DEFINE kind == Kind[loc.root]
           ready == now + wait
           db == UpsertInTx(Db, k, fp, loc, ready, kind)
           up == Memory!Upserted(Mapped[k], fp, kind, loc, ready)
<1>0. /\ Rows(files, content_groups) /\ content_groups \in Groups /\ ready \in Nat
      /\ Order(files, born, births) /\ Crowned(files, content_groups) /\ Alive(held, files, born)
      /\ Rows(files', content_groups') /\ Order(files', born', births')
  <2>1. Rows(files', content_groups') /\ Order(files', born', births')
    BY DEF SqlInv, TableInv, Rows, Order, InUse
  <2> QED BY <2>1, RowsAre DEF RefInv, Kept
<1>1. CASE loc.root \notin DOMAIN Kind
  <2>1. Refuse
    BY <1>1, Zenon DEF UpsertPending
  <2>2. Memory!Refuse /\ Kept'
    BY <2>1, RefuseRefines
  <2> QED BY <1>1, <2>2, Zenon DEF Memory!UpsertPending
<1>2. CASE loc.root \in DOMAIN Kind /\ k \in InUse(files)
  <2>1. /\ files' = db.f /\ content_groups' = db.gs
        /\ answer' = <<IF db.f[k].state \in Queue THEN 0 ELSE 1>>
        /\ UNCHANGED <<born, births, now, seen, session, held>>
    BY <1>2, Zenon DEF UpsertPending, Commit, Ok
  <2>2. Db.f = files /\ Db.gs = content_groups
    BY DEF Db
  <2> HIDE DEF Db
  <2>3. /\ db.f[k].state = Memory!Upserted(MapTable(files, born)[k], fp, kind, loc, ready).state
        /\ MapTable(db.f, born)
             = [MapTable(files, born) EXCEPT ![k] = Memory!Upserted(@, fp, kind, loc, ready)]
        /\ MapGroups(db.gs, db.f, born)
             = Memory!Uncrowned(MapGroups(content_groups, files, born), MapTable(files, born)[k],
                                Memory!Upserted(MapTable(files, born)[k], fp, kind, loc, ready))
        /\ Crowned(db.f, db.gs) /\ Stays(files, born, db.f, born)
    <3> HIDE DEF kind, ready
    <3>1. /\ Db.gs \in Groups /\ Rows(Db.f, Db.gs) /\ Order(Db.f, born, births)
          /\ Crowned(Db.f, Db.gs) /\ k \in InUse(Db.f)
      BY <1>0, <1>2, <2>2
    <3>2. /\ db.f[k].state = Memory!Upserted(MapTable(Db.f, born)[k], fp, kind, loc, ready).state
          /\ MapTable(db.f, born)
               = [MapTable(Db.f, born) EXCEPT ![k] = Memory!Upserted(@, fp, kind, loc, ready)]
          /\ MapGroups(db.gs, db.f, born)
               = Memory!Uncrowned(MapGroups(Db.gs, Db.f, born), MapTable(Db.f, born)[k],
                                  Memory!Upserted(MapTable(Db.f, born)[k], fp, kind, loc, ready))
          /\ Crowned(db.f, db.gs) /\ Stays(Db.f, born, db.f, born)
      BY <1>0, <3>1, UpsertMaps
    <3> HIDE DEF db
    <3> QED BY <2>2, <3>2
  <2> HIDE DEF db, kind, ready
  <2>4. /\ db.f[k].state = up.state /\ Mapped' = [Mapped EXCEPT ![k] = up]
        /\ Crowns' = Memory!Uncrowned(Crowns, Mapped[k], up)
    BY <2>1, <2>3, MapsAre
  <2>5. Kept'
    <3>1. Alive(held, db.f, born)
      BY <1>0, <2>3, AliveStays
    <3>2. Crowned(files', content_groups') /\ Alive(held', files', born')
      BY <2>1, <2>3, <3>1
    <3> QED BY <3>2 DEF Kept, Crowned, Alive, InUse, ById
  <2> HIDE DEF up
  <2>6. answer' = <<IF up.state \in Memory!Queued THEN 0 ELSE 1>>
    BY <2>1, <2>4 DEF Queue, Memory!Queued
  <2>7. Phien' = Phien /\ Holding' = Holding /\ k \in Memory!Stored(Mapped)
    BY <1>2, <2>1, Unchanged, MappedRows DEF RefInv
  <2> QED BY <1>2, <2>1, <2>4, <2>5, <2>6, <2>7, Zenon DEF Memory!UpsertPending, Memory!Ok, Mapped,
             Crowns, Counted, Phien, Holding, up, kind, ready
<1>3. CASE loc.root \in DOMAIN Kind /\ k \notin InUse(files)
  <2> DEFINE row == Inserted(files, fp, loc, "settling", ready)
             f == [files EXCEPT ![k] = row]
             b == [born EXCEPT ![k] = births + 1]
             W == {g \in DOMAIN content_groups :
                     /\ g = NULL /\ content_groups[g].canon = row.id /\ f[k].group = NULL}
  <2>1. db = [f |-> f, gs |-> Uncrown(content_groups, W)]
    BY <1>3 DEF UpsertInTx, Db
  <2>2. Uncrown(content_groups, W) = content_groups
    <3>1. W = {}
      BY <1>0, GroupsAre DEF NULL
    <3>2. content_groups = [g \in DOMAIN content_groups |-> content_groups[g]]
      BY <1>0, GroupsAre
    <3> QED BY <3>1, <3>2 DEF Uncrown
  <2>3. /\ files' = db.f /\ content_groups' = db.gs /\ births' = births + 1 /\ born' = b
        /\ answer' = <<IF db.f[k].state \in Queue THEN 0 ELSE 1>>
        /\ UNCHANGED <<now, seen, session, held>>
    BY <1>3, Zenon DEF UpsertPending, Commit, Ok
  <2> HIDE DEF db, W
  <2>4. row.id = NewRowid(files) /\ row.state = "settling"
    BY DEF Inserted
  <2>5. As(row, births + 1) = Memory!NewRow(births + 1, fp, loc, ready)
    <3> HIDE DEF ready
    <3> QED BY InsertedAs
  <2> HIDE DEF row
  <2>6. f[k].state = "settling"
    BY <1>0, <2>4 DEF Rows
  <2>7. MapTable(f, b) = [MapTable(files, born) EXCEPT ![k] = As(row, births + 1)] /\ Stays(files, born, f, b)
    BY <1>0, <1>3, <2>4, InsertMaps
  <2> HIDE DEF f, b
  <2>8. files' = f /\ content_groups' = content_groups /\ answer' = <<0>>
    BY <2>1, <2>2, <2>3, <2>6 DEF Queue
  <2>9. Mapped' = [Mapped EXCEPT ![k] = Memory!NewRow(births + 1, fp, loc, ready)]
    BY <2>3, <2>5, <2>7, <2>8, MapsAre
  <2>10. /\ MapGroups(content_groups, f, b) = MapGroups(content_groups, files, born)
         /\ Crowned(f, content_groups) /\ Alive(held, f, b)
    <3>1. /\ Rows(files, content_groups) /\ Order(files, born, births)
          /\ Rows(f, content_groups') /\ Order(f, b, births') /\ Stays(files, born, f, b)
          /\ Crowned(files, content_groups) /\ Alive(held, files, born)
      BY <1>0, <2>3, <2>7, <2>8
    <3> HIDE DEF ready
    <3> QED BY <3>1, StaysMaps
  <2>11. Crowns' = Crowns
    BY <2>3, <2>8, <2>10, MapsAre
  <2>12. Kept'
    <3>1. Crowned(files', content_groups') /\ Alive(held', files', born')
      BY <2>3, <2>8, <2>10
    <3> QED BY <3>1 DEF Kept, Crowned, Alive, InUse, ById
  <2>13. Phien' = Phien /\ Holding' = Holding /\ k \notin Memory!Stored(Mapped)
    BY <1>3, <2>3, Unchanged, MappedRows DEF RefInv
  <2> QED BY <1>3, <2>3, <2>8, <2>9, <2>11, <2>12, <2>13, Zenon DEF Memory!UpsertPending, Memory!Ok,
             Mapped, Crowns, Counted, Phien, Holding, kind, ready
<1> QED BY <1>1, <1>2, <1>3

LEMMA RestoreRefines ==
  ASSUME RefInv, SqlInv', NEW k \in Keys, NEW fp, RestoreOrReset(k, fp)
  PROVE  Memory!RestoreOrReset(k, fp) /\ Kept'
<1> DEFINE loc == files[k].loc
           kind == Kind[loc.root]
           db == UpsertInTx(Db, k, fp, loc, now, kind)
           gone == k \in InUse(files) /\ files[k].state = "missing"
           up == Memory!Upserted(Mapped[k], fp, Kind[Mapped[k].loc.root], Mapped[k].loc, now)
           back == k \in Memory!Stored(Mapped) /\ Mapped[k].state = "missing"
           row == IF back THEN up ELSE Mapped[k]
<1>0. /\ Rows(files, content_groups) /\ content_groups \in Groups /\ now \in Nat
      /\ Order(files, born, births) /\ Crowned(files, content_groups) /\ Alive(held, files, born)
  BY RowsAre DEF RefInv, Kept
<1>1. /\ answer' = <<0>> /\ UNCHANGED <<now, seen, session, held, born, births>>
      /\ IF gone THEN files' = db.f /\ content_groups' = db.gs ELSE UNCHANGED tables
  BY Zenon DEF RestoreOrReset, Ok, others, Commit
<1>2. Phien' = Phien /\ Holding' = Holding
  BY <1>1, Unchanged
<1>3. back <=> gone
  BY MappedRows DEF RefInv
<1>4. Mapped = [Mapped EXCEPT ![k] = Mapped[k]]
  BY DEF Mapped
<1>5. CASE ~gone
  <2>1. UNCHANGED <<files, content_groups>>
    <3> HIDE DEF gone, db
    <3> QED BY <1>1, <1>5 DEF tables
  <2>2. Mapped' = Mapped /\ Crowns' = Crowns /\ Kept'
    BY <1>1, <2>1, Unchanged
  <2>3. row = Mapped[k]
    <3> HIDE DEF back, gone, up
    <3> QED BY <1>3, <1>5
  <2> HIDE DEF row
  <2>4. Mapped' = [Mapped EXCEPT ![k] = row] /\ Crowns' = IF row = Mapped[k] THEN Crowns
                                                          ELSE Memory!Uncrowned(Crowns, Mapped[k], row)
    BY <1>4, <2>2, <2>3
  <2> QED BY <1>1, <1>2, <2>2, <2>4, Zenon DEF Memory!RestoreOrReset, Memory!Ok, Mapped, Crowns, Counted,
             Phien, Holding, row, up, back
<1>6. CASE gone
  <2>1. files' = db.f /\ content_groups' = db.gs /\ k \in InUse(files)
    <3> HIDE DEF db
    <3> QED BY <1>1, <1>6
  <2>2. Db.f = files /\ Db.gs = content_groups
    BY DEF Db
  <2>3. IsLoc(loc)
    BY <2>1, <1>0, RowsIn DEF WellFormed
  <2> HIDE DEF Db, kind, loc
  <2>4. /\ Db.gs \in Groups /\ Rows(Db.f, Db.gs) /\ Order(Db.f, born, births)
        /\ Crowned(Db.f, Db.gs) /\ k \in InUse(Db.f)
    BY <1>0, <2>1, <2>2
  <2>5. /\ MapTable(db.f, born)
             = [MapTable(Db.f, born) EXCEPT ![k] = Memory!Upserted(@, fp, kind, loc, now)]
        /\ MapGroups(db.gs, db.f, born)
             = Memory!Uncrowned(MapGroups(Db.gs, Db.f, born), MapTable(Db.f, born)[k],
                                Memory!Upserted(MapTable(Db.f, born)[k], fp, kind, loc, now))
        /\ Crowned(db.f, db.gs) /\ Stays(Db.f, born, db.f, born)
    BY <1>0, <2>3, <2>4, UpsertMaps
  <2> HIDE DEF db
  <2>6. Mapped[k].loc = loc
    BY <2>1, MappedRows DEF RefInv, loc
  <2>7. up = Memory!Upserted(Mapped[k], fp, kind, loc, now)
    BY <2>6 DEF kind
  <2> HIDE DEF up
  <2>8. Mapped' = [Mapped EXCEPT ![k] = up] /\ Crowns' = Memory!Uncrowned(Crowns, Mapped[k], up)
    BY <1>1, <2>1, <2>2, <2>5, <2>7, MapsAre
  <2>9. Kept'
    <3>1. Alive(held, db.f, born)
      BY <1>0, <2>2, <2>5, AliveStays
    <3>2. Crowned(files', content_groups') /\ Alive(held', files', born')
      BY <1>1, <2>1, <2>5, <3>1
    <3> QED BY <3>2 DEF Kept, Crowned, Alive, InUse, ById
  <2>10. row = up
    <3> HIDE DEF back, gone
    <3> QED BY <1>3, <1>6
  <2>11. Crowns' = IF row = Mapped[k] THEN Crowns ELSE Memory!Uncrowned(Crowns, Mapped[k], row)
    <3>1. row = Mapped[k] => Memory!Uncrowned(Crowns, Mapped[k], row) = Crowns
      <4> HIDE DEF row
      <4> QED BY DEF Memory!Uncrowned
    <3> HIDE DEF row
    <3> QED BY <2>8, <2>10, <3>1
  <2>12. Mapped' = [Mapped EXCEPT ![k] = row]
    BY <2>8, <2>10
  <2> HIDE DEF row
  <2> QED BY <1>1, <1>2, <2>9, <2>11, <2>12, Zenon DEF Memory!RestoreOrReset, Memory!Ok, Mapped, Crowns,
             Counted, Phien, Holding, row, up, back
<1> QED BY <1>5, <1>6

LEMMA RequeueRefines ==
  ASSUME RefInv, SqlInv', NEW allow \in Allowed, RequeueVerified(allow)
  PROVE  Memory!RequeueVerified(allow) /\ Kept'
<1> DEFINE end == RequeueAll(allow)
           W == Verified(allow)
           K == {k \in Memory!Stored(Mapped) : /\ Mapped[k].state = "verified"
                                               /\ \E a \in allow : Memory!Under(Mapped[k].loc, a)}
           set(row) == [row EXCEPT !.state = "hashed", !.ready = now, !.updated = now]
<1>1. /\ files' = end.f /\ answer' = <<end.n>>
      /\ UNCHANGED <<content_groups, now, seen, session, held, born, births>>
  BY Zenon DEF RequeueVerified, Execute, Commit, Ok, others
<1>2. /\ end.n = Cardinality(W)
      /\ \A k \in Keys : end.f[k] = IF k \in W THEN Requeued(files[k]) ELSE files[k]
  <2>1. Requeues(end, allow)
    BY CallAssumption, RequeueAllIs DEF RefInv
  <2> HIDE DEF end
  <2> QED BY <2>1 DEF Requeues
<1>3. K = W
  <2>1. \A k \in InUse(files) : IsLoc(files[k].loc) /\ Mapped[k].loc = files[k].loc
                                /\ Mapped[k].state = files[k].state
    BY MappedRows DEF RefInv, WellFormed
  <2>2. \A a \in allow : IsLoc(a)
    BY CallAssumption
  <2>3. \A k \in InUse(files), a \in allow : Memory!Under(files[k].loc, a) <=> Below(files[k].loc, a)
    BY <2>1, <2>2, UnderIs
  <2>4. Memory!Stored(Mapped) = InUse(files)
    BY MappedRows DEF RefInv
  <2> QED BY <2>1, <2>3, <2>4 DEF Verified
<1>4. ASSUME NEW k \in InUse(files)
      PROVE  /\ k \in Keys /\ Requeued(files[k]).id = files[k].id
             /\ As(Requeued(files[k]), born[k]) = set(Mapped[k])
  <2>1. /\ k \in Keys /\ WellFormed(files[k], content_groups)
        /\ Mapped[k] = [files[k] EXCEPT !.id = born[k]]
    BY MappedRows DEF RefInv
  <2> QED BY <2>1 DEF WellFormed, As, Requeued
<1>5. W \in SUBSET InUse(files)
  BY DEF Verified
<1> HIDE DEF W, K, set, end
<1>6. Crowns' = Crowns /\ Kept' /\ Mapped' = [k \in Keys |-> IF k \in K THEN set(Mapped[k]) ELSE Mapped[k]]
  BY <1>1, <1>2, <1>3, <1>4, <1>5, EditsRefine
<1>7. answer' = <<Cardinality(K)>> /\ Phien' = Phien /\ Holding' = Holding
  BY <1>1, <1>2, <1>3, Unchanged
<1> QED
  BY <1>1, <1>6, <1>7, Counting, Zenon DEF Memory!RequeueVerified, Memory!Update, Memory!Only, Memory!Changed,
     Memory!Ok, Mapped, Crowns, Counted, Phien, Holding, K, set

(* --------------------- a batch of an initial scan ---------------------- *)

LEMMA StaysCompose ==
  ASSUME NEW f, NEW b, NEW f2, NEW b2, NEW f3, NEW b3, Stays(f, b, f2, b2), Stays(f2, b2, f3, b3)
  PROVE  Stays(f, b, f3, b3)
BY DEF Stays

\* The entries that make a row: the first of a key that has none.
NewOf(batch) ==
  {i \in DOMAIN batch : /\ batch[i].key \notin InUse(files)
                        /\ \A j \in 1..(i - 1) : batch[j].key # batch[i].key}
UpTo(batch, m) == {i \in NewOf(batch) : i <= m}
Entered(e, n) == [Memory!NewRow(n, e.fp, e.loc, now) EXCEPT
                    !.state = e.state, !.ready = IF e.state = "sized" THEN 0 ELSE @]

\* The table after the first m entries, as the other store has it.
Placed(acc, batch, m) ==
  /\ ~acc.bad
  /\ InUse(acc.f) = InUse(files) \union {batch[i].key : i \in 1..m}
  /\ acc.n = Cardinality(UpTo(batch, m))
  /\ \A i \in UpTo(batch, m) :
       MapTable(acc.f, acc.born)[batch[i].key] = Entered(batch[i], births + Cardinality(UpTo(batch, i)))
  /\ \A k \in Keys : (\A i \in UpTo(batch, m) : batch[i].key # k)
                       => MapTable(acc.f, acc.born)[k] = Mapped[k]
  /\ Stays(files, born, acc.f, acc.born)

Entries(batch) ==
  /\ IsBatch(batch)
  /\ \A i \in DOMAIN batch :
       batch[i].key \in Keys /\ IsLoc(batch[i].loc) /\ batch[i].state \in {"settling", "sized"}

LEMMA EnteredAs ==
  ASSUME NEW f, NEW e, NEW n
  PROVE  As(Inserted(f, e.fp, e.loc, e.state, IF e.state = "sized" THEN NULL ELSE now), n) = Entered(e, n)
<1> DEFINE ready == IF e.state = "sized" THEN NULL ELSE now
           r == As(Inserted(f, e.fp, e.loc, e.state, ready), n)
           s == Entered(e, n)
<1>1. /\ r = [c \in Columns |-> r[c]] /\ r.id = n /\ r.loc = e.loc /\ r.fp = e.fp /\ r.state = e.state
      /\ r.prev = "none" /\ r.ready = ready /\ r.waits = 0 /\ r.known = FALSE /\ r.group = 0
      /\ r.skip = "none" /\ r.updated = now
  <2> HIDE DEF ready
  <2> QED BY DEF Inserted, As, NULL, Columns
<1>2. /\ s = [c \in Columns |-> s[c]] /\ s.id = n /\ s.loc = e.loc /\ s.fp = e.fp /\ s.state = e.state
      /\ s.prev = "none" /\ s.ready = (IF e.state = "sized" THEN 0 ELSE now) /\ s.waits = 0
      /\ s.known = FALSE /\ s.group = 0 /\ s.skip = "none" /\ s.updated = now
  BY DEF Entered, Memory!NewRow, Columns
<1> HIDE DEF r, s
<1>3. /\ r.id = s.id /\ r.loc = s.loc /\ r.fp = s.fp /\ r.state = s.state
      /\ r.prev = s.prev /\ r.ready = s.ready /\ r.waits = s.waits /\ r.known = s.known
      /\ r.group = s.group /\ r.skip = s.skip /\ r.updated = s.updated
  BY <1>1, <1>2 DEF NULL
<1>4. r = s
  BY <1>1, <1>2, <1>3, RowsEqual, Zenon
<1> QED BY <1>4 DEF r, s

LEMMA EntryPlaces ==
  ASSUME SqlInv, NEW batch, Entries(batch), NEW m \in DOMAIN batch, NEW acc, Half(acc),
         Placed(acc, batch, m - 1), batch[m].loc.root \in DOMAIN Kind
  PROVE  Placed(InsertEntry(acc, batch[m]), batch, m)
<1> DEFINE e == batch[m]
           U == UpTo(batch, m - 1)
           T == MapTable(acc.f, acc.born)
           row == Inserted(acc.f, e.fp, e.loc, e.state, IF e.state = "sized" THEN NULL ELSE now)
           full == [acc EXCEPT !.n = @ + 1, !.born[e.key] = births + acc.n + 1, !.f[e.key] = row]
<1>1. /\ DOMAIN batch = 1..Len(batch) /\ Len(batch) \in Nat /\ m \in Nat /\ 1 <= m /\ m <= Len(batch)
      /\ m - 1 \in Nat /\ e.key \in Keys
  <2>1. DOMAIN batch = 1..Len(batch) /\ Len(batch) \in Nat
    BY DEF Entries, IsBatch
  <2> QED BY <2>1 DEF Entries
<1>2. \A i : i \in 1..m <=> i \in 1..(m - 1) \/ i = m
  BY <1>1
<1>3. /\ ~acc.bad /\ InUse(acc.f) = InUse(files) \union {batch[i].key : i \in 1..(m - 1)}
      /\ acc.n = Cardinality(U) /\ Stays(files, born, acc.f, acc.born)
      /\ \A i \in U : T[batch[i].key] = Entered(batch[i], births + Cardinality(UpTo(batch, i)))
      /\ \A k \in Keys : (\A i \in U : batch[i].key # k) => T[k] = Mapped[k]
  BY DEF Placed
<1>4. m \in NewOf(batch) <=> e.key \notin InUse(acc.f)
  BY <1>3 DEF NewOf
<1>5. \A i : i \in UpTo(batch, m) <=> i \in U \/ (i = m /\ m \in NewOf(batch))
  <2>1. \A i \in NewOf(batch) : i \in Nat
    BY <1>1 DEF NewOf
  <2>2. \A i \in NewOf(batch) : i <= m <=> i <= m - 1 \/ i = m
    BY <1>1, <2>1
  <2> QED BY <2>2 DEF UpTo
<1>6. m \notin U /\ \A i \in U : i \in 1..(m - 1)
  <2>1. \A i \in U : i \in 1..Len(batch) /\ i <= m - 1
    BY <1>1 DEF UpTo, NewOf
  <2> QED BY <1>1, <2>1
<1> HIDE DEF U, T
<1>7. CASE e.key \in InUse(acc.f)
  <2>1. InsertEntry(acc, e) = acc
    BY <1>3, <1>7 DEF InsertEntry
  <2>2. InUse(acc.f) = InUse(files) \union {batch[i].key : i \in 1..m}
    BY <1>2, <1>3, <1>7
  <2>3. UpTo(batch, m) = U
    BY <1>4, <1>5, <1>7
  <2> QED BY <1>3, <2>1, <2>2, <2>3 DEF Placed, T
<1>8. CASE e.key \notin InUse(acc.f)
  <2>1. InsertEntry(acc, e) = full
    BY <1>3, <1>8, Zenon DEF InsertEntry
  <2> DEFINE n == births + acc.n
             f == [acc.f EXCEPT ![e.key] = row]
             b == [acc.born EXCEPT ![e.key] = n + 1]
  <2>2. /\ Rows(acc.f, content_groups) /\ Order(acc.f, acc.born, n) /\ e.key \in Keys \ InUse(acc.f)
        /\ acc.n \in Nat /\ births \in Nat /\ DOMAIN acc.f = Keys
    BY <1>1, <1>8, RowsAre DEF Half, Order, Rows
  <2>3. full.n = acc.n + 1 /\ full.f = f /\ full.born = b /\ ~full.bad
    <3> HIDE DEF row
    <3>1. DOMAIN acc = {"f", "n", "born", "bad"}
      BY DEF Half
    <3>2. births + acc.n + 1 = n + 1
      OBVIOUS
    <3> QED BY <1>3, <3>1, <3>2
  <2>4. row.id = NewRowid(acc.f) /\ \A x : As(row, x) = Entered(e, x)
    BY EnteredAs DEF Inserted
  <2>5. row.id # NULL
    BY <2>2, <2>4, NewRowidIs DEF NULL
  <2> HIDE DEF row, full
  <2>6. /\ MapTable(f, b) = [T EXCEPT ![e.key] = Entered(e, n + 1)]
        /\ Stays(acc.f, acc.born, f, b)
    <3> HIDE DEF n
    <3>1. /\ MapTable(f, b) = [MapTable(acc.f, acc.born) EXCEPT ![e.key] = As(row, n + 1)]
          /\ Stays(acc.f, acc.born, f, b)
      BY <2>2, <2>4, InsertMaps
    <3> QED BY <2>4, <3>1 DEF T
  <2>7. InUse(f) = InUse(acc.f) \union {e.key}
    BY <1>1, <2>2, <2>5 DEF InUse
  <2>8. UpTo(batch, m) = U \union {m}
    BY <1>4, <1>5, <1>8
  <2>9. Cardinality(UpTo(batch, m)) = acc.n + 1
    <3>1. IsFiniteSet(U)
      <4>1. U \subseteq 1..(m - 1) /\ IsFiniteSet(1..(m - 1))
        BY <1>1, <1>6, FS_Interval
      <4> QED BY <4>1, FS_Subset
    <3> QED BY <1>3, <1>6, <2>8, <3>1, FS_AddElement
  <2>10. n + 1 = births + Cardinality(UpTo(batch, m))
    BY <2>2, <2>9
  <2> HIDE DEF f, b, n
  <2>11. InUse(f) = InUse(files) \union {batch[i].key : i \in 1..m}
    BY <1>2, <1>3, <2>7
  <2>12. DOMAIN T = Keys
    BY DEF T, MapTable
  <2>13. \A i \in U : batch[i].key # e.key
    BY <1>3, <1>6, <1>8
  <2>14. ASSUME NEW i \in UpTo(batch, m)
         PROVE  MapTable(f, b)[batch[i].key] = Entered(batch[i], births + Cardinality(UpTo(batch, i)))
    <3>1. CASE i = m
      BY <1>1, <2>6, <2>10, <2>12, <3>1
    <3>2. CASE i \in U
      <4>1. i \in DOMAIN batch
        BY <1>1, <1>6, <3>2
      <4>2. batch[i].key \in Keys
        BY <4>1 DEF Entries
      <4> QED BY <1>3, <2>6, <2>12, <2>13, <3>2, <4>2
    <3> QED BY <2>8, <3>1, <3>2
  <2>15. ASSUME NEW k \in Keys, \A i \in UpTo(batch, m) : batch[i].key # k
         PROVE  MapTable(f, b)[k] = Mapped[k]
    <3>1. k # e.key /\ \A i \in U : batch[i].key # k
      BY <2>8, <2>15
    <3> QED BY <1>3, <2>6, <2>12, <3>1
  <2>16. Stays(files, born, f, b)
    BY <1>3, <2>6, StaysCompose
  <2> QED BY <2>1, <2>3, <2>9, <2>11, <2>14, <2>15, <2>16 DEF Placed
<1> QED BY <1>7, <1>8

Wrong(batch, m) == \E i \in 1..m : batch[i].loc.root \notin DOMAIN Kind

LEMMA BatchPlaces ==
  ASSUME SqlInv, NEW batch, Entries(batch)
  PROVE  /\ Half(InsertBatch(batch))
         /\ Wrong(batch, Len(batch)) => InsertBatch(batch).bad
         /\ ~Wrong(batch, Len(batch)) => Placed(InsertBatch(batch), batch, Len(batch))
<1> DEFINE start == [f |-> files, n |-> 0, born |-> born, bad |-> FALSE]
           N == Len(batch)
           Good(acc, m) == /\ Half(acc)
                           /\ Wrong(batch, m) => acc.bad
                           /\ ~Wrong(batch, m) => Placed(acc, batch, m)
<1>1. N \in Nat /\ DOMAIN batch = 1..N
  BY DEF Entries, IsBatch
<1>2. PICK a : /\ a[0] = start
               /\ \A n \in 1..N : a[n] = InsertEntry(a[n - 1], batch[n])
               /\ InsertBatch(batch) = a[N]
  BY InsertUnfolds DEF Entries
<1>3. Good(start, 0)
  <2>1. Half(start)
    <3>1. births + 0 = births
      BY RowsAre DEF Order
    <3> QED BY <3>1, RowsAre DEF Half
  <2>2. ~Wrong(batch, 0)
    BY DEF Wrong
  <2>3. UpTo(batch, 0) = {}
    BY <1>1 DEF UpTo, NewOf
  <2>4. MapTable(files, born) = Mapped
    BY MapsAre
  <2>5. Stays(files, born, files, born)
    BY DEF Stays
  <2>6. {batch[i].key : i \in 1..0} = {}
    OBVIOUS
  <2>7. Placed(start, batch, 0)
    BY <2>3, <2>4, <2>5, <2>6, FS_EmptySet DEF Placed
  <2> HIDE DEF start
  <2> QED BY <2>1, <2>2, <2>7
<1>4. ASSUME NEW n \in 1..N, Good(a[n - 1], n - 1) PROVE Good(a[n], n)
  <2>1. n \in DOMAIN batch /\ a[n] = InsertEntry(a[n - 1], batch[n]) /\ Half(a[n - 1])
    BY <1>1, <1>2, <1>4
  <2>2. batch[n].key \in Keys /\ IsLoc(batch[n].loc) /\ batch[n].state \in {"settling", "sized"}
    BY <2>1 DEF Entries
  <2>3. Half(a[n])
    BY <2>1, <2>2, InsertEntryIs
  <2>4. Wrong(batch, n) <=> Wrong(batch, n - 1) \/ batch[n].loc.root \notin DOMAIN Kind
    <3>1. n \in Nat /\ \A i : i \in 1..n <=> i \in 1..(n - 1) \/ i = n
      BY <1>1
    <3> QED BY <3>1 DEF Wrong
  <2>5. CASE Wrong(batch, n)
    <3>1. a[n - 1].bad \/ batch[n].loc.root \notin DOMAIN Kind
      BY <1>4, <2>4, <2>5
    <3>2. a[n] = [a[n - 1] EXCEPT !.bad = TRUE]
      BY <2>1, <3>1 DEF InsertEntry
    <3>3. a[n].bad
      BY <2>1, <3>2 DEF Half
    <3> QED BY <2>3, <2>5, <3>3
  <2>6. CASE ~Wrong(batch, n)
    <3>1. Placed(InsertEntry(a[n - 1], batch[n]), batch, n)
      BY <1>4, <2>1, <2>4, <2>6, EntryPlaces
    <3> QED BY <2>1, <2>3, <2>6, <3>1
  <2> QED BY <2>5, <2>6
<1>5. \A n \in 0..N : Good(a[n], n)
  <2> DEFINE C == {n \in 0..N : ~Good(a[n], n)}
  <2> HIDE DEF Good
  <2>1. SUFFICES ASSUME C # {} PROVE FALSE
    OBVIOUS
  <2>2. PICK n \in C : \A k \in C : n <= k
    <3>1. C \in SUBSET Nat
      BY <1>1
    <3> HIDE DEF C
    <3> QED BY <2>1, <3>1, LeastExists
  <2>3. n # 0
    BY <1>2, <1>3, <2>2
  <2>4. n \in 1..N /\ n - 1 \in 0..N /\ ~(n <= n - 1)
    BY <1>1, <2>2, <2>3
  <2>5. Good(a[n - 1], n - 1)
    BY <2>2, <2>4
  <2> QED BY <1>4, <2>2, <2>4, <2>5
<1>6. Good(a[N], N)
  BY <1>1, <1>5
<1> HIDE DEF start
<1> QED BY <1>2, <1>6

\* INSERT ... ON CONFLICT DO NOTHING, row by row, enters the first entry of each
\* new key, with the numbers in the order of the entries.
LEMMA ScanInsertRefines ==
  ASSUME RefInv, SqlInv', NEW batch \in ScanBatches, ScanInsert(batch)
  PROVE  Memory!ScanInsert(batch) /\ Kept'
<1> DEFINE end == InsertBatch(batch)
           N == Len(batch)
           new == {i \in DOMAIN batch : /\ batch[i].key \notin Memory!Stored(Mapped)
                                        /\ \A j \in 1..(i - 1) : batch[j].key # batch[i].key}
           of(k) == {i \in new : batch[i].key = k}
           id(i) == births + Memory!Cardinality({j \in new : j <= i})
           row(e, n) == [Memory!NewRow(n, e.fp, e.loc, now) EXCEPT
                           !.state = e.state, !.ready = IF e.state = "sized" THEN 0 ELSE @]
<1>1. Entries(batch)
  BY CallAssumption DEF Entries
<1>2. /\ Half(end)
      /\ Wrong(batch, N) => end.bad
      /\ ~Wrong(batch, N) => Placed(end, batch, N)
  BY <1>1, BatchPlaces DEF RefInv
<1>3. DOMAIN batch = 1..N /\ N \in Nat
  BY <1>1 DEF Entries, IsBatch
<1>4. Wrong(batch, N) <=> \E i \in DOMAIN batch : batch[i].loc.root \notin DOMAIN Kind
  BY <1>3 DEF Wrong
<1>5. CASE Wrong(batch, N)
  <2>1. Refuse
    BY <1>2, <1>5, Zenon DEF ScanInsert
  <2>2. Memory!Refuse /\ Kept'
    BY <2>1, RefuseRefines
  <2> QED BY <1>4, <1>5, <2>2, Zenon DEF Memory!ScanInsert
<1>6. CASE ~Wrong(batch, N)
  <2>1. Placed(end, batch, N) /\ ~end.bad
    BY <1>2, <1>6 DEF Placed
  <2>2. /\ files' = end.f /\ born' = end.born /\ births' = births + end.n /\ answer' = <<end.n>>
        /\ UNCHANGED <<now, content_groups, seen, session, held>>
    BY <2>1, Zenon DEF ScanInsert, Ok
  <2> HIDE DEF end
  <2>3. new = NewOf(batch) /\ UpTo(batch, N) = NewOf(batch)
    <3>1. Memory!Stored(Mapped) = InUse(files)
      BY MappedRows DEF RefInv
    <3>2. \A i \in DOMAIN batch : i <= N
      BY <1>3
    <3> QED BY <3>1, <3>2 DEF NewOf, UpTo
  <2> HIDE DEF new
  <2>4. \A i \in new : id(i) = births + Cardinality(UpTo(batch, i))
    BY <2>3, Counting DEF UpTo
  <2> HIDE DEF id
  <2>5. \A e, n : row(e, n) = Entered(e, n)
    BY DEF Entered
  <2> HIDE DEF row
  <2>6. ASSUME NEW k \in Keys
        PROVE  MapTable(end.f, end.born)[k]
                 = IF of(k) = {} THEN Mapped[k] ELSE row(batch[CHOOSE i \in of(k) : TRUE], id(CHOOSE i \in of(k) : TRUE))
    <3>1. CASE of(k) = {}
      <4>1. \A i \in UpTo(batch, N) : batch[i].key # k
        BY <2>3, <3>1
      <4> QED BY <2>1, <3>1, <4>1 DEF Placed
    <3>2. CASE of(k) # {}
      <4> DEFINE i == CHOOSE i \in of(k) : TRUE
      <4>1. i \in of(k)
        BY <3>2
      <4> HIDE DEF i
      <4>2. i \in new /\ i \in UpTo(batch, N) /\ batch[i].key = k
        BY <2>3, <4>1
      <4>3. MapTable(end.f, end.born)[k] = Entered(batch[i], births + Cardinality(UpTo(batch, i)))
        BY <2>1, <4>2 DEF Placed
      <4>4. MapTable(end.f, end.born)[k] = row(batch[i], id(i))
        BY <2>4, <2>5, <4>2, <4>3
      <4> HIDE DEF of
      <4> QED BY <3>2, <4>4 DEF i
    <3> QED BY <3>1, <3>2
  <2> HIDE DEF of
  <2>7. Mapped' = [k \in Keys |-> IF of(k) = {} THEN Mapped[k]
                                  ELSE row(batch[CHOOSE i \in of(k) : TRUE], id(CHOOSE i \in of(k) : TRUE))]
    <3>1. Mapped' = MapTable(end.f, end.born)
      BY <2>2, MapsAre
    <3>2. MapTable(end.f, end.born) = [k \in Keys |-> MapTable(end.f, end.born)[k]]
      BY DEF MapTable
    <3> QED BY <2>6, <3>1, <3>2, Zenon
  <2>8. end.n = Memory!Cardinality(new)
    BY <2>1, <2>3, Counting DEF Placed
  <2>9. /\ Stays(files, born, end.f, end.born)
        /\ Rows(files, content_groups) /\ Order(files, born, births)
        /\ Rows(end.f, content_groups) /\ Order(end.f, end.born, births + end.n)
        /\ Crowned(files, content_groups) /\ Alive(held, files, born)
    BY <1>2, <2>1, RowsAre DEF Placed, Half, RefInv, Kept
  <2>10. /\ MapGroups(content_groups, end.f, end.born) = MapGroups(content_groups, files, born)
         /\ Crowned(end.f, content_groups) /\ Alive(held, end.f, end.born)
    <3> DEFINE n == births + end.n
    <3> HIDE DEF n
    <3>1. Order(end.f, end.born, n)
      BY <2>9 DEF n
    <3> QED BY <2>9, <3>1, StaysMaps
  <2>11. Crowns' = Crowns
    BY <2>2, <2>10, MapsAre
  <2>12. Kept'
    <3>1. Crowned(files', content_groups') /\ Alive(held', files', born')
      BY <2>2, <2>10
    <3> QED BY <3>1 DEF Kept, Crowned, Alive, InUse, ById
  <2>13. Phien' = Phien /\ Holding' = Holding
    BY <2>2, Unchanged
  <2>14. births' = births + Memory!Cardinality(new) /\ answer' = <<Memory!Cardinality(new)>>
    BY <2>2, <2>8
  <2>15. ~(\E i \in DOMAIN batch : batch[i].loc.root \notin DOMAIN Kind)
    BY <1>4, <1>6
  <2> QED BY <2>2, <2>7, <2>11, <2>12, <2>13, <2>14, <2>15, Zenon DEF Memory!ScanInsert, Memory!Ok, Mapped,
             Crowns, Counted, Phien, Holding, of, new, id, row
<1> QED BY <1>5, <1>6

(* --------------------- a batch of a presence scan ---------------------- *)

\* The group g that loses its canonical file when the row r becomes s.
Loses(gs, r, s, g) == r.group # 0 /\ s.group = 0 /\ g = r.group /\ gs[g].canon = r.id

LEMMA UncrownedIs ==
  ASSUME NEW gs, gs = [g \in DOMAIN gs |-> gs[g]],
         \A g \in DOMAIN gs : DOMAIN gs[g] = {"canon", "verified"}, NEW r, NEW s
  PROVE  /\ Memory!Uncrowned(gs, r, s) = [g \in DOMAIN gs |-> Memory!Uncrowned(gs, r, s)[g]]
         /\ \A g \in DOMAIN gs :
              /\ Memory!Uncrowned(gs, r, s)[g]
                   = IF Loses(gs, r, s, g) THEN [gs[g] EXCEPT !.canon = 0] ELSE gs[g]
              /\ r.id # 0 => (Memory!Uncrowned(gs, r, s)[g] # gs[g] <=> Loses(gs, r, s, g))
<1> DEFINE us == Memory!Uncrowned(gs, r, s)
           c == r.group
<1>1. CASE c # 0 /\ s.group = 0 /\ gs[c].canon = r.id
  <2>1. us = [gs EXCEPT ![c].canon = 0]
    BY <1>1, Zenon DEF Memory!Uncrowned
  <2> HIDE DEF us
  <2>2. us = [g \in DOMAIN gs |-> IF g = c THEN [gs[g] EXCEPT !.canon = 0] ELSE gs[g]]
    BY <2>1
  <2>3. \A g \in DOMAIN gs : us[g] = IF Loses(gs, r, s, g) THEN [gs[g] EXCEPT !.canon = 0] ELSE gs[g]
    BY <1>1, <2>2 DEF Loses
  <2>4. \A g \in DOMAIN gs : [gs[g] EXCEPT !.canon = 0].canon = 0
    OBVIOUS
  <2>5. \A g \in DOMAIN gs : r.id # 0 => (us[g] # gs[g] <=> Loses(gs, r, s, g))
    BY <2>3, <2>4 DEF Loses
  <2> QED BY <2>2, <2>3, <2>5 DEF us
<1>2. CASE ~(c # 0 /\ s.group = 0 /\ gs[c].canon = r.id)
  <2>1. us = gs
    BY <1>2, Zenon DEF Memory!Uncrowned
  <2> HIDE DEF us
  <2>2. \A g \in DOMAIN gs : ~Loses(gs, r, s, g)
    BY <1>2 DEF Loses
  <2> QED BY <2>1, <2>2 DEF us
<1> QED BY <1>1, <1>2

LEMMA MapGroupsAre ==
  ASSUME NEW gs \in Groups, NEW f, NEW b
  PROVE  /\ MapGroups(gs, f, b) = [g \in DOMAIN gs |-> MapGroups(gs, f, b)[g]]
         /\ DOMAIN MapGroups(gs, f, b) = DOMAIN gs
         /\ \A g \in DOMAIN gs : /\ DOMAIN MapGroups(gs, f, b)[g] = {"canon", "verified"}
                                 /\ MapGroups(gs, f, b)[g].canon = CountIn(f, b, gs[g].canon)
BY GroupsAre DEF MapGroups

Once(batch) == \A i, j \in DOMAIN batch : batch[i].key = batch[j].key => i = j

\* The entries whose row is missing, and what becomes of it.
BackOf(batch) ==
  {i \in DOMAIN batch : batch[i].key \in InUse(files) /\ files[batch[i].key].state = "missing"}
BackTo(batch, m) == {i \in BackOf(batch) : i <= m}
Up(e) == Memory!Upserted(Mapped[e.key], e.fp, Kind[e.loc.root], e.loc, now)

\* The tables after the first m entries, as the other store has them.
Restores(acc, batch, m) ==
  /\ ~acc.bad
  /\ acc.n = Cardinality(BackTo(batch, m))
  /\ acc.seen = seen \union {batch[i].key : i \in 1..m}
  /\ Crowned(acc.db.f, acc.db.gs) /\ Stays(files, born, acc.db.f, born)
  /\ \A i \in BackTo(batch, m) : MapTable(acc.db.f, born)[batch[i].key] = Up(batch[i])
  /\ \A k \in Keys : (\A i \in BackTo(batch, m) : batch[i].key # k)
                       => MapTable(acc.db.f, born)[k] = Mapped[k]
  /\ MapGroups(acc.db.gs, acc.db.f, born)
       = [g \in DOMAIN content_groups |->
            IF \E i \in BackTo(batch, m) : Loses(Crowns, Mapped[batch[i].key], Up(batch[i]), g)
            THEN [Crowns[g] EXCEPT !.canon = 0] ELSE Crowns[g]]

Reports(batch) == /\ IsBatch(batch) /\ Once(batch)
                  /\ \A i \in DOMAIN batch : IsLoc(batch[i].loc)

LEMMA StateIs ==
  ASSUME NEW f, NEW gs, NEW b, NEW n, Rows(f, gs), Order(f, b, n), NEW k \in InUse(f)
  PROVE  MapTable(f, b)[k].state = f[k].state
<1>1. MapTable(f, b)[k].state = f[k].state /\ MapTable(f, b)[k] = As(f[k], b[k])
  BY MapTableIs DEF As
<1> QED BY <1>1

LEMMA NoteMaps ==
  ASSUME NEW db, db.gs \in Groups, Rows(db.f, db.gs), Order(db.f, born, births), now \in Nat,
         Crowned(db.f, db.gs), NEW k \in InUse(db.f), NEW fp, NEW loc, IsLoc(loc), NEW kind
  PROVE  LET new == UpsertInTx(db, k, fp, loc, now, kind)
             up  == Memory!Upserted(MapTable(db.f, born)[k], fp, kind, loc, now)
         IN /\ MapTable(new.f, born) = [MapTable(db.f, born) EXCEPT ![k] = up]
            /\ MapGroups(new.gs, new.f, born)
                 = Memory!Uncrowned(MapGroups(db.gs, db.f, born), MapTable(db.f, born)[k], up)
            /\ Crowned(new.f, new.gs) /\ Stays(db.f, born, new.f, born)
<1> DEFINE new == UpsertInTx(db, k, fp, loc, now, kind)
<1>1. /\ new.f[k].state = Memory!Upserted(MapTable(db.f, born)[k], fp, kind, loc, now).state
      /\ MapTable(new.f, born)
           = [MapTable(db.f, born) EXCEPT ![k] = Memory!Upserted(@, fp, kind, loc, now)]
      /\ MapGroups(new.gs, new.f, born)
           = Memory!Uncrowned(MapGroups(db.gs, db.f, born), MapTable(db.f, born)[k],
                              Memory!Upserted(MapTable(db.f, born)[k], fp, kind, loc, now))
      /\ Crowned(new.f, new.gs) /\ Stays(db.f, born, new.f, born)
  BY UpsertMaps
<1> HIDE DEF new
<1> QED BY <1>1 DEF new

LEMMA NoteRestores ==
  ASSUME SqlInv, NEW batch, Reports(batch), NEW m \in DOMAIN batch, NEW acc, Noted(acc),
         Restores(acc, batch, m - 1)
  PROVE  IF m \in BackOf(batch) /\ batch[m].loc.root \notin DOMAIN Kind
         THEN NoteEntry(acc, batch[m]).bad ELSE Restores(NoteEntry(acc, batch[m]), batch, m)
<1> DEFINE e == batch[m]
           B == BackTo(batch, m - 1)
           T == MapTable(acc.db.f, born)
           G == MapGroups(acc.db.gs, acc.db.f, born)
           noted == [acc EXCEPT !.seen = @ \union {e.key}]
           missing == e.key \in InUse(acc.db.f) /\ acc.db.f[e.key].state = "missing"
           kind == Kind[e.loc.root]
           db == UpsertInTx(acc.db, e.key, e.fp, e.loc, now, kind)
<1>1. /\ DOMAIN batch = 1..Len(batch) /\ Len(batch) \in Nat /\ m \in Nat /\ 1 <= m /\ m <= Len(batch)
      /\ m - 1 \in Nat /\ IsLoc(e.loc) /\ Once(batch)
  <2>1. DOMAIN batch = 1..Len(batch) /\ Len(batch) \in Nat
    BY DEF Reports, IsBatch
  <2> QED BY <2>1 DEF Reports
<1>2. \A i : i \in 1..m <=> i \in 1..(m - 1) \/ i = m
  BY <1>1
<1>3. /\ ~acc.bad /\ acc.n = Cardinality(B)
      /\ acc.seen = seen \union {batch[i].key : i \in 1..(m - 1)}
      /\ Crowned(acc.db.f, acc.db.gs) /\ Stays(files, born, acc.db.f, born)
      /\ \A i \in B : T[batch[i].key] = Up(batch[i])
      /\ \A k \in Keys : (\A i \in B : batch[i].key # k) => T[k] = Mapped[k]
      /\ G = [g \in DOMAIN content_groups |->
                IF \E i \in B : Loses(Crowns, Mapped[batch[i].key], Up(batch[i]), g)
                THEN [Crowns[g] EXCEPT !.canon = 0] ELSE Crowns[g]]
  BY DEF Restores
<1>4. /\ Rows(acc.db.f, acc.db.gs) /\ Order(acc.db.f, born, births) /\ acc.db.gs \in Groups
      /\ InUse(acc.db.f) = InUse(files) /\ now \in Nat
      /\ DOMAIN acc = {"db", "seen", "n", "bad"}
  BY RowsAre, EditsKeep, EditsStay DEF Noted
<1>5. \A i : i \in BackTo(batch, m) <=> i \in B \/ (i = m /\ m \in BackOf(batch))
  <2>1. \A i \in BackOf(batch) : i \in Nat
    BY <1>1 DEF BackOf
  <2>2. \A i \in BackOf(batch) : i <= m <=> i <= m - 1 \/ i = m
    BY <1>1, <2>1
  <2> QED BY <2>2 DEF BackTo
<1>6. m \notin B /\ \A i \in B : i \in 1..(m - 1) /\ i \in DOMAIN batch /\ batch[i].key # e.key
  <2>1. \A i \in B : i \in 1..Len(batch) /\ i <= m - 1
    BY <1>1 DEF BackTo, BackOf
  <2>2. \A i \in B : i \in 1..(m - 1) /\ i # m /\ i \in DOMAIN batch
    BY <1>1, <2>1
  <2> HIDE DEF B
  <2> QED BY <1>1, <2>2 DEF Once
<1> HIDE DEF B, T, G
<1>7. e.key \in InUse(files) => T[e.key] = Mapped[e.key] /\ acc.db.f[e.key].state = files[e.key].state
  <2>1. SUFFICES ASSUME e.key \in InUse(files) PROVE T[e.key] = Mapped[e.key] /\ acc.db.f[e.key].state = files[e.key].state
    OBVIOUS
  <2>2. T[e.key] = Mapped[e.key]
    BY <1>3, <1>6, <2>1 DEF InUse
  <2>3. T[e.key].state = acc.db.f[e.key].state
    BY <1>4, <2>1, StateIs DEF T
  <2>4. Mapped[e.key].state = files[e.key].state
    BY <2>1, MappedRows
  <2> QED BY <2>2, <2>3, <2>4
<1>8. missing <=> m \in BackOf(batch)
  BY <1>4, <1>7 DEF BackOf
<1>9. NoteEntry(acc, e) = IF ~missing THEN noted
                          ELSE IF e.loc.root \notin DOMAIN Kind THEN [noted EXCEPT !.bad = TRUE]
                          ELSE [noted EXCEPT !.n = @ + 1,
                                  !.db = UpsertInTx(@, e.key, e.fp, e.loc, now, Kind[e.loc.root])]
  BY <1>3, Zenon DEF NoteEntry
<1>10. /\ DOMAIN noted = {"db", "seen", "n", "bad"} /\ noted.db = acc.db /\ noted.n = acc.n /\ ~noted.bad
       /\ noted.seen = seen \union {batch[i].key : i \in 1..m}
  <2>1. /\ DOMAIN noted = {"db", "seen", "n", "bad"} /\ noted.db = acc.db /\ noted.n = acc.n /\ ~noted.bad
        /\ noted.seen = acc.seen \union {e.key}
    BY <1>3, <1>4
  <2> HIDE DEF noted
  <2> QED BY <1>2, <1>3, <2>1
<1> HIDE DEF noted, missing
<1>11. CASE m \notin BackOf(batch)
  <2>1. NoteEntry(acc, e) = noted
    BY <1>8, <1>9, <1>11
  <2>2. BackTo(batch, m) = B
    BY <1>5, <1>11
  <2>3. Restores(NoteEntry(acc, e), batch, m)
    BY <1>3, <1>10, <2>1, <2>2 DEF Restores, T, G
  <2> QED BY <1>11, <2>3
<1>12. CASE m \in BackOf(batch) /\ e.loc.root \in DOMAIN Kind
  <2> DEFINE new == NoteEntry(acc, e)
             k == e.key
  <2>1. new = [noted EXCEPT !.n = @ + 1, !.db = UpsertInTx(@, k, e.fp, e.loc, now, Kind[e.loc.root])]
    BY <1>8, <1>9, <1>12
  <2>2. new.db = db /\ new.n = acc.n + 1 /\ ~new.bad /\ new.seen = noted.seen
    BY <1>10, <2>1
  <2>3. k \in InUse(files) /\ k \in InUse(acc.db.f) /\ k \in Keys
    BY <1>4, <1>12 DEF BackOf, InUse
  <2>4. /\ MapTable(db.f, born) = [T EXCEPT ![k] = Up(e)]
        /\ MapGroups(db.gs, db.f, born) = Memory!Uncrowned(G, Mapped[k], Up(e))
        /\ Crowned(db.f, db.gs) /\ Stays(acc.db.f, born, db.f, born)
    <3>0. Up(e) = Memory!Upserted(T[k], e.fp, kind, e.loc, now) /\ T[k] = Mapped[k]
      BY <1>7, <2>3 DEF Up
    <3> HIDE DEF kind
    <3>1. /\ MapTable(db.f, born)
               = [MapTable(acc.db.f, born) EXCEPT ![k] = Memory!Upserted(@, e.fp, kind, e.loc, now)]
          /\ MapGroups(db.gs, db.f, born)
               = Memory!Uncrowned(MapGroups(acc.db.gs, acc.db.f, born), MapTable(acc.db.f, born)[k],
                                  Memory!Upserted(MapTable(acc.db.f, born)[k], e.fp, kind, e.loc, now))
          /\ Crowned(db.f, db.gs) /\ Stays(acc.db.f, born, db.f, born)
      <4>1. IsLoc(e.loc)
        BY <1>1
      <4>2. Crowned(acc.db.f, acc.db.gs)
        BY <1>3
      <4> QED BY <1>4, <2>3, <4>1, <4>2, NoteMaps
    <3> HIDE DEF db
    <3> QED BY <3>0, <3>1 DEF T, G
  <2> HIDE DEF new, db
  <2>5. DOMAIN T = Keys
    BY DEF T, MapTable
  <2>6. BackTo(batch, m) = B \union {m}
    BY <1>5, <1>12
  <2>7. new.n = Cardinality(BackTo(batch, m))
    <3>1. IsFiniteSet(B)
      <4>1. B \subseteq 1..(m - 1) /\ IsFiniteSet(1..(m - 1))
        BY <1>1, <1>6, FS_Interval
      <4> QED BY <4>1, FS_Subset
    <3> QED BY <1>3, <1>6, <2>2, <2>6, <3>1, FS_AddElement
  <2>8. ASSUME NEW i \in BackTo(batch, m) PROVE MapTable(db.f, born)[batch[i].key] = Up(batch[i])
    <3>1. CASE i = m
      BY <2>3, <2>4, <2>5, <3>1
    <3>2. CASE i \in B
      <4>1. batch[i].key \in Keys
        BY <3>2 DEF B, BackTo, BackOf, InUse
      <4> QED BY <1>3, <1>6, <2>4, <2>5, <3>2, <4>1
    <3> QED BY <2>6, <3>1, <3>2
  <2>9. ASSUME NEW j \in Keys, \A i \in BackTo(batch, m) : batch[i].key # j
        PROVE  MapTable(db.f, born)[j] = Mapped[j]
    <3>1. j # k /\ \A i \in B : batch[i].key # j
      BY <2>6, <2>9
    <3> QED BY <1>3, <2>4, <2>5, <3>1
  <2>10. Stays(files, born, db.f, born)
    BY <1>3, <2>4, StaysCompose
  <2> DEFINE lost(i, g) == Loses(Crowns, Mapped[batch[i].key], Up(batch[i]), g)
             H == [g \in DOMAIN content_groups |->
                     IF \E i \in BackTo(batch, m) : lost(i, g) THEN [Crowns[g] EXCEPT !.canon = 0]
                     ELSE Crowns[g]]
  <2>11. Memory!Uncrowned(G, Mapped[k], Up(e)) = H
    <3>1. /\ DOMAIN Crowns = DOMAIN content_groups
          /\ \A g \in DOMAIN content_groups : DOMAIN Crowns[g] = {"canon", "verified"}
      BY RowsAre, MapsAre, MapGroupsAre
    <3>2. \A g \in DOMAIN content_groups :
            /\ [Crowns[g] EXCEPT !.canon = 0].canon = 0
            /\ [[Crowns[g] EXCEPT !.canon = 0] EXCEPT !.canon = 0] = [Crowns[g] EXCEPT !.canon = 0]
            /\ DOMAIN [Crowns[g] EXCEPT !.canon = 0] = {"canon", "verified"}
      BY <3>1
    <3> HIDE DEF lost
    <3>3. DOMAIN G = DOMAIN content_groups /\ G = [g \in DOMAIN G |-> G[g]]
      BY <1>3
    <3>4. \A g \in DOMAIN content_groups :
            G[g] = IF \E i \in B : lost(i, g) THEN [Crowns[g] EXCEPT !.canon = 0] ELSE Crowns[g]
      BY <1>3 DEF lost
    <3>5. \A g \in DOMAIN G : DOMAIN G[g] = {"canon", "verified"}
      BY <3>1, <3>2, <3>3, <3>4
    <3> DEFINE U == Memory!Uncrowned(G, Mapped[k], Up(e))
    <3>6. /\ U = [g \in DOMAIN G |-> U[g]]
          /\ \A g \in DOMAIN G :
               U[g] = IF Loses(G, Mapped[k], Up(e), g) THEN [G[g] EXCEPT !.canon = 0] ELSE G[g]
      BY <3>3, <3>5, UncrownedIs
    <3> HIDE DEF U
    <3>7. Mapped[k].id # 0
      BY <2>3, MappedRows
    <3>8. ASSUME NEW g \in DOMAIN content_groups PROVE U[g] = H[g]
      <4>1. lost(m, g) <=> Loses(Crowns, Mapped[k], Up(e), g)
        BY DEF lost
      <4>2. H[g] = IF (\E i \in B : lost(i, g)) \/ lost(m, g) THEN [Crowns[g] EXCEPT !.canon = 0]
                   ELSE Crowns[g]
        BY <2>6
      <4>3. CASE \E i \in B : lost(i, g)
        <5>1. G[g] = [Crowns[g] EXCEPT !.canon = 0]
          BY <3>4, <4>3
        <5>2. ~Loses(G, Mapped[k], Up(e), g)
          BY <3>2, <3>7, <5>1 DEF Loses
        <5> HIDE DEF H
        <5> QED BY <3>3, <3>6, <4>2, <4>3, <5>1, <5>2
      <4>4. CASE ~(\E i \in B : lost(i, g))
        <5>1. G[g] = Crowns[g]
          BY <3>4, <4>4
        <5>2. Loses(G, Mapped[k], Up(e), g) <=> lost(m, g)
          BY <4>1, <5>1 DEF Loses
        <5> HIDE DEF H
        <5> QED BY <3>3, <3>6, <4>2, <4>4, <5>1, <5>2
      <4> QED BY <4>3, <4>4
    <3>9. H = [g \in DOMAIN content_groups |-> H[g]]
      OBVIOUS
    <3> HIDE DEF H
    <3> QED BY <3>3, <3>6, <3>8, <3>9 DEF U
  <2>12. MapGroups(db.gs, db.f, born) = H
    BY <2>4, <2>11
  <2>13. new.seen = seen \union {batch[i].key : i \in 1..m}
    BY <1>10, <2>2
  <2>14. Restores(new, batch, m)
    BY <2>2, <2>4, <2>7, <2>8, <2>9, <2>10, <2>12, <2>13 DEF Restores
  <2> QED BY <1>12, <2>14 DEF new
<1>13. CASE m \in BackOf(batch) /\ e.loc.root \notin DOMAIN Kind
  <2>1. NoteEntry(acc, e) = [noted EXCEPT !.bad = TRUE]
    BY <1>8, <1>9, <1>13
  <2> QED BY <1>10, <1>13, <2>1
<1> QED BY <1>11, <1>12, <1>13

\* Some row that is to come back lies under a root that is not registered.
Undone(batch, m) == \E i \in BackTo(batch, m) : batch[i].loc.root \notin DOMAIN Kind

LEMMA BatchRestores ==
  ASSUME RefInv, NEW batch, Reports(batch)
  PROVE  IF Undone(batch, Len(batch)) THEN NoteBatch(batch).bad
         ELSE Restores(NoteBatch(batch), batch, Len(batch))
<1> DEFINE start == [db |-> Db, seen |-> seen, n |-> 0, bad |-> FALSE]
           N == Len(batch)
           Good(acc, m) == /\ Noted(acc)
                           /\ IF Undone(batch, m) THEN acc.bad ELSE Restores(acc, batch, m)
<1>1. /\ N \in Nat /\ DOMAIN batch = 1..N /\ IsBatch(batch)
      /\ \A i \in DOMAIN batch : IsLoc(batch[i].loc)
  BY DEF Reports, IsBatch
<1>2. PICK a : /\ a[0] = start
               /\ \A n \in 1..N : a[n] = NoteEntry(a[n - 1], batch[n])
               /\ NoteBatch(batch) = a[N]
  BY <1>1, NoteUnfolds
<1>3. Good(start, 0)
  <2>1. Noted(start)
    BY RowsAre, EditsNothing DEF Noted, Db, RefInv
  <2>2. BackTo(batch, 0) = {}
    BY <1>1 DEF BackTo, BackOf
  <2>3. {batch[i].key : i \in 1..0} = {}
    OBVIOUS
  <2>4. MapTable(files, born) = Mapped /\ MapGroups(content_groups, files, born) = Crowns
    BY MapsAre
  <2>5. Crowns = [g \in DOMAIN content_groups |-> Crowns[g]]
    BY DEF Crowns
  <2>6. Crowned(files, content_groups) /\ Stays(files, born, files, born)
    BY DEF Stays, RefInv, Kept
  <2>7. Restores(start, batch, 0)
    BY <2>2, <2>3, <2>4, <2>5, <2>6, FS_EmptySet DEF Restores, Db
  <2>8. ~Undone(batch, 0)
    BY <2>2 DEF Undone
  <2> HIDE DEF start
  <2> QED BY <2>1, <2>7, <2>8
<1>4. ASSUME NEW n \in 1..N, Good(a[n - 1], n - 1) PROVE Good(a[n], n)
  <2>1. n \in DOMAIN batch /\ a[n] = NoteEntry(a[n - 1], batch[n]) /\ Noted(a[n - 1])
    BY <1>1, <1>2, <1>4
  <2>2. Noted(a[n])
    BY <1>1, <2>1, NoteEntryIs DEF RefInv
  <2>3. Undone(batch, n) <=> \/ Undone(batch, n - 1)
                             \/ n \in BackOf(batch) /\ batch[n].loc.root \notin DOMAIN Kind
    <3>1. \A i \in BackOf(batch) : i \in 1..N
      BY <1>1 DEF BackOf
    <3>2. n \in Nat /\ \A i \in BackOf(batch) : i <= n <=> i <= n - 1 \/ i = n
      BY <1>1, <3>1
    <3>3. \A i : i \in BackTo(batch, n) <=> i \in BackTo(batch, n - 1) \/ (i = n /\ n \in BackOf(batch))
      BY <3>2 DEF BackTo
    <3> QED BY <3>3 DEF Undone
  <2>4. CASE Undone(batch, n - 1)
    <3>1. a[n - 1].bad
      BY <1>4, <2>4
    <3>2. a[n] = a[n - 1]
      BY <2>1, <3>1 DEF NoteEntry
    <3> QED BY <2>2, <2>3, <2>4, <3>1, <3>2
  <2>5. CASE ~Undone(batch, n - 1)
    <3>1. Restores(a[n - 1], batch, n - 1)
      BY <1>4, <2>5
    <3>2. IF n \in BackOf(batch) /\ batch[n].loc.root \notin DOMAIN Kind
          THEN NoteEntry(a[n - 1], batch[n]).bad ELSE Restores(NoteEntry(a[n - 1], batch[n]), batch, n)
      BY <2>1, <3>1, NoteRestores DEF RefInv
    <3> QED BY <2>1, <2>2, <2>3, <2>5, <3>2
  <2> QED BY <2>4, <2>5
<1>5. \A n \in 0..N : Good(a[n], n)
  <2> DEFINE C == {n \in 0..N : ~Good(a[n], n)}
  <2> HIDE DEF Good
  <2>1. SUFFICES ASSUME C # {} PROVE FALSE
    OBVIOUS
  <2>2. PICK n \in C : \A k \in C : n <= k
    <3>1. C \in SUBSET Nat
      BY <1>1
    <3> HIDE DEF C
    <3> QED BY <2>1, <3>1, LeastExists
  <2>3. n # 0
    BY <1>2, <1>3, <2>2
  <2>4. n \in 1..N /\ n - 1 \in 0..N /\ ~(n <= n - 1)
    BY <1>1, <2>2, <2>3
  <2>5. Good(a[n - 1], n - 1)
    BY <2>2, <2>4
  <2> QED BY <1>4, <2>2, <2>4, <2>5
<1>6. Good(a[N], N)
  BY <1>1, <1>5
<1> HIDE DEF start
<1> QED BY <1>2, <1>6

\* A batch that names no key twice restores its missing rows one after the other
\* as the other store does at once.
LEMMA SeenRefines ==
  ASSUME RefInv, SqlInv', NEW batch \in SeenBatches, Once(batch), PresenceSeen(batch)
  PROVE  Memory!PresenceSeen(batch) /\ Kept'
<1> DEFINE end == NoteBatch(batch)
           N == Len(batch)
           back == {i \in DOMAIN batch : /\ batch[i].key \in Memory!Stored(Mapped)
                                         /\ Mapped[batch[i].key].state = "missing"
                                         /\ \A j \in 1..(i - 1) : batch[j].key # batch[i].key}
           wrong == \E i \in back : batch[i].loc.root \notin DOMAIN Kind
           keys == {batch[i].key : i \in back}
           entry(k) == batch[CHOOSE i \in back : batch[i].key = k]
           up(k) == Memory!Upserted(Mapped[k], entry(k).fp, Kind[entry(k).loc.root], entry(k).loc, now)
           after == [k \in Keys |-> IF k \notin keys THEN Mapped[k] ELSE up(k)]
           none == [root |-> 0, seen |-> {}]
<1>1. Reports(batch)
  BY CallAssumption DEF Reports
<1>2. DOMAIN batch = 1..N /\ N \in Nat
  BY <1>1 DEF Reports, IsBatch
<1>3. back = BackOf(batch) /\ BackTo(batch, N) = BackOf(batch)
  <2>1. Memory!Stored(Mapped) = InUse(files) /\ \A k \in InUse(files) : Mapped[k].state = files[k].state
    BY MappedRows DEF RefInv
  <2>2. \A i \in DOMAIN batch : \A j \in 1..(i - 1) : j \in DOMAIN batch /\ j # i
    BY <1>2
  <2>3. \A i \in DOMAIN batch : \A j \in 1..(i - 1) : batch[j].key # batch[i].key
    BY <2>2 DEF Once
  <2>4. \A i \in DOMAIN batch : i <= N
    BY <1>2
  <2> HIDE DEF N
  <2>5. \A i : i \in back <=> i \in BackOf(batch)
    BY <2>1, <2>3 DEF BackOf
  <2>6. \A i : i \in BackTo(batch, N) <=> i \in BackOf(batch)
    BY <2>4 DEF BackOf, BackTo
  <2> HIDE DEF back
  <2> QED BY <2>5, <2>6
<1> HIDE DEF back
<1>4. Undone(batch, N) <=> wrong
  BY <1>3 DEF Undone
<1>5. IF wrong THEN end.bad ELSE Restores(end, batch, N)
  BY <1>1, <1>4, BatchRestores
<1>6. session = {} <=> Phien = none
  BY PhienIs
<1>7. CASE session = {}
  <2>1. Refuse
    BY <1>7, Zenon DEF PresenceSeen
  <2>2. Memory!Refuse /\ Kept'
    BY <2>1, RefuseRefines
  <2> QED BY <1>6, <1>7, <2>2, Zenon DEF Memory!PresenceSeen, Memory!NoSession, Phien
<1>8. CASE session # {} /\ wrong
  <2>1. /\ answer' = << >> /\ seen' = SeenAfterError(end)
        /\ UNCHANGED <<now, tables, session, held, born, births>>
    BY <1>5, <1>8, Zenon DEF PresenceSeen
  <2>2. Refuse
    BY <2>1 DEF Refuse, SeenAfterError, others
  <2>3. Memory!Refuse /\ Kept'
    BY <2>2, RefuseRefines
  <2> QED BY <1>8, <2>3, Zenon DEF Memory!PresenceSeen, Mapped, back, wrong
<1>9. CASE session # {} /\ ~wrong
  <2>1. Restores(end, batch, N) /\ ~end.bad
    BY <1>5, <1>9 DEF Restores
  <2>2. /\ files' = end.db.f /\ content_groups' = end.db.gs /\ seen' = end.seen /\ answer' = <<end.n>>
        /\ UNCHANGED <<now, session, held, born, births>>
    BY <1>9, <2>1, Zenon DEF PresenceSeen, Commit, Ok
  <2> HIDE DEF end
  <2>3. /\ end.n = Cardinality(back) /\ end.seen = seen \union {batch[i].key : i \in 1..N}
        /\ Crowned(end.db.f, end.db.gs) /\ Stays(files, born, end.db.f, born)
        /\ \A i \in back : MapTable(end.db.f, born)[batch[i].key] = Up(batch[i])
        /\ \A k \in Keys : (\A i \in back : batch[i].key # k)
                             => MapTable(end.db.f, born)[k] = Mapped[k]
        /\ MapGroups(end.db.gs, end.db.f, born)
             = [g \in DOMAIN content_groups |->
                  IF \E i \in back : Loses(Crowns, Mapped[batch[i].key], Up(batch[i]), g)
                  THEN [Crowns[g] EXCEPT !.canon = 0] ELSE Crowns[g]]
    BY <1>3, <2>1 DEF Restores
  <2>4. ASSUME NEW i \in back
        PROVE  /\ batch[i].key \in keys /\ batch[i].key \in InUse(files)
               /\ entry(batch[i].key) = batch[i] /\ after[batch[i].key] = Up(batch[i])
    <3> DEFINE k == batch[i].key
               j == CHOOSE x \in back : batch[x].key = k
    <3>1. i \in DOMAIN batch /\ k \in InUse(files) /\ k \in Keys /\ k \in keys
      BY <1>3 DEF BackOf, InUse
    <3>2. j \in back /\ batch[j].key = k
      BY Zenon
    <3>3. j \in DOMAIN batch
      BY <1>3, <3>2 DEF BackOf
    <3> HIDE DEF j
    <3>4. j = i
      BY <3>1, <3>2, <3>3 DEF Once
    <3>5. entry(k) = batch[i]
      BY <3>4 DEF j
    <3>6. up(k) = Up(batch[i])
      BY <3>5, Zenon DEF Up
    <3> HIDE DEF keys
    <3>7. after[k] = up(k)
      BY <3>1
    <3> QED BY <3>1, <3>5, <3>6, <3>7
  <2>5. \A k \in Keys : k \notin keys => after[k] = Mapped[k]
    OBVIOUS
  <2>6. after = [k \in Keys |-> after[k]] /\ DOMAIN after = Keys
    OBVIOUS
  <2>7. \A k \in keys : \E i \in back : batch[i].key = k
    OBVIOUS
  <2> HIDE DEF after, entry, up
  <2>8. Mapped' = after
    <3>1. Mapped' = MapTable(end.db.f, born)
      BY <2>2, MapsAre
    <3>2. MapTable(end.db.f, born) = [k \in Keys |-> MapTable(end.db.f, born)[k]]
      BY DEF MapTable
    <3>3. ASSUME NEW k \in Keys PROVE MapTable(end.db.f, born)[k] = after[k]
      <4>1. CASE k \in keys
        <5>1. PICK i \in back : batch[i].key = k
          BY <2>7, <4>1
        <5> QED BY <2>3, <2>4, <5>1
      <4>2. CASE k \notin keys
        BY <2>3, <2>5, <4>2
      <4> QED BY <4>1, <4>2
    <3> QED BY <2>6, <3>1, <3>2, <3>3
  <2> DEFINE lost(g) == \E k \in keys : Memory!Uncrowned(Crowns, Mapped[k], after[k])[g] # Crowns[g]
  <2>9. ASSUME NEW g \in DOMAIN content_groups
        PROVE  lost(g) <=> \E i \in back : Loses(Crowns, Mapped[batch[i].key], Up(batch[i]), g)
    <3>1. /\ DOMAIN Crowns = DOMAIN content_groups /\ Crowns = [x \in DOMAIN Crowns |-> Crowns[x]]
          /\ \A x \in DOMAIN Crowns : DOMAIN Crowns[x] = {"canon", "verified"}
      <4>1. /\ DOMAIN Crowns = DOMAIN content_groups
            /\ \A x \in DOMAIN content_groups : DOMAIN Crowns[x] = {"canon", "verified"}
        BY RowsAre, MapsAre, MapGroupsAre DEF RefInv
      <4>2. Crowns = [x \in DOMAIN Crowns |-> Crowns[x]]
        BY DEF Crowns
      <4> QED BY <4>1, <4>2
    <3>2. ASSUME NEW i \in back
          PROVE  Memory!Uncrowned(Crowns, Mapped[batch[i].key], after[batch[i].key])[g] # Crowns[g]
                   <=> Loses(Crowns, Mapped[batch[i].key], Up(batch[i]), g)
      <4> DEFINE r == Mapped[batch[i].key]
                 s == Up(batch[i])
                 gs == Crowns
      <4>0. batch[i].key \in InUse(files) /\ after[batch[i].key] = s
        BY <2>4
      <4>1. r.id # 0
        BY <4>0, MappedRows DEF RefInv
      <4> HIDE DEF r, s, gs
      <4>2. Memory!Uncrowned(gs, r, s)[g] # gs[g] <=> Loses(gs, r, s, g)
        <5>1. /\ gs = [x \in DOMAIN gs |-> gs[x]] /\ g \in DOMAIN gs
              /\ \A x \in DOMAIN gs : DOMAIN gs[x] = {"canon", "verified"}
          BY <3>1 DEF gs
        <5> QED BY <4>1, <5>1, UncrownedIs
      <4> QED BY <4>0, <4>2 DEF r, s, gs
    <3> QED BY <2>4, <2>7, <3>2
  <2>10. Crowns' = [g \in DOMAIN Crowns |-> IF lost(g) THEN [Crowns[g] EXCEPT !.canon = 0] ELSE Crowns[g]]
    <3>1. Crowns' = MapGroups(end.db.gs, end.db.f, born)
      BY <2>2, MapsAre
    <3>2. DOMAIN Crowns = DOMAIN content_groups
      BY DEF Crowns
    <3> HIDE DEF lost
    <3> QED BY <2>3, <2>9, <3>1, <3>2
  <2>11. Phien # none /\ Phien' = [Phien EXCEPT !.seen = @ \union {batch[i].key : i \in DOMAIN batch}]
    <3> DEFINE met == {batch[i].key : i \in DOMAIN batch}
    <3>1. Phien # none /\ Phien = [root |-> Phien.root, seen |-> seen]
      BY <1>6, <1>9, PhienIs
    <3>2. seen' = seen \union met
      BY <1>2, <2>2, <2>3
    <3> HIDE DEF met
    <3>3. Phien' = [root |-> Phien.root, seen |-> seen \union met]
      BY <1>9, <2>2, <3>2 DEF Phien
    <3> HIDE DEF Phien
    <3>4. [Phien EXCEPT !.seen = @ \union met] = [root |-> Phien.root, seen |-> seen \union met]
      BY <3>1
    <3> QED BY <3>1, <3>3, <3>4 DEF met
  <2>12. Kept'
    <3>1. Alive(held, end.db.f, born)
      BY <2>3, AliveStays DEF RefInv, Kept
    <3>2. Crowned(files', content_groups') /\ Alive(held', files', born')
      BY <2>2, <2>3, <3>1
    <3> QED BY <3>2 DEF Kept, Crowned, Alive, InUse, ById
  <2>13. Holding' = Holding /\ answer' = <<Memory!Cardinality(back)>>
    BY <2>2, <2>3, Counting, Unchanged
  <2> QED BY <1>9, <2>2, <2>8, <2>10, <2>11, <2>12, <2>13, Zenon DEF Memory!PresenceSeen, Memory!NoSession,
             Memory!Ok, Mapped, Crowns, Counted, Phien, Holding, back, wrong, keys, entry, up, after, lost
<1> QED BY <1>7, <1>8, <1>9

(* ---------------------------- maintenance ------------------------------ *)

\* No row that somebody holds is purged, and with the purged rows go the
\* pointers of the groups, so who is pointed to has a row in both stores.
LEMMA PurgeRefines == ASSUME RefInv, SqlInv', Hurried, Purge PROVE Memory!Purge /\ Kept'
<1> DEFINE W == {k \in InUse(files) : files[k].state = "gone" /\ files[k].updated < now}
           ids == {files[k].id : k \in W}
           dead == {k \in Memory!Stored(Mapped) : Mapped[k].state = "gone" /\ Mapped[k].updated < now}
           nos == {Mapped[k].id : k \in dead}
           gs == content_groups
           at(g) == gs[g].canon
<1>1. /\ held.id \notin ids
      /\ content_groups' = Uncrown(gs, {g \in DOMAIN gs : gs[g].canon \in ids})
      /\ files' = [k \in Keys |-> IF k \in W THEN Absent ELSE files[k]]
      /\ answer' = <<Cardinality(W)>>
      /\ UNCHANGED <<now, seen, session, held, born, births>>
  BY Zenon DEF Purge, Ok, others
<1>2. /\ Rows(files, gs) /\ gs \in Groups /\ Order(files, born, births)
      /\ Crowned(files, gs) /\ Alive(held, files, born)
  BY RowsAre DEF RefInv, Kept
<1>3. /\ dead = W
      /\ \A k \in InUse(files) : /\ k \in Keys /\ Mapped[k].id = born[k] /\ born[k] \in Nat \ {0}
                                 /\ files[k].id \in Nat \ {0}
  <2>1. \A k \in InUse(files) : Mapped[k].state = files[k].state /\ Mapped[k].updated = files[k].updated
    BY MappedRows DEF RefInv
  <2>2. Memory!Stored(Mapped) = InUse(files)
    BY MappedRows DEF RefInv
  <2>3. \A k \in InUse(files) : /\ k \in Keys /\ Mapped[k].id = born[k] /\ born[k] \in Nat \ {0}
                                /\ files[k].id \in Nat \ {0}
    BY MappedRows DEF RefInv, WellFormed
  <2>4. dead = W
    BY <2>1, <2>2
  <2> QED BY <2>3, <2>4
<1> HIDE DEF dead
<1>4. \A k \in W : k \in InUse(files)
  OBVIOUS
<1> HIDE DEF W
<1>5. \A j, k \in InUse(files) : born[j] = born[k] <=> files[j].id = files[k].id
  <2> SUFFICES ASSUME NEW j \in InUse(files), NEW k \in InUse(files)
               PROVE  born[j] = born[k] <=> files[j].id = files[k].id
    OBVIOUS
  <2>1. /\ files[j].id < files[k].id <=> born[j] < born[k]
        /\ files[k].id < files[j].id <=> born[k] < born[j]
    BY <1>2 DEF Order
  <2> QED BY <1>3, <2>1
<1>6. nos = {born[k] : k \in W}
  BY <1>3, <1>4
<1> HIDE DEF nos
<1>7. \A k \in InUse(files) : born[k] \in nos <=> files[k].id \in ids
  BY <1>4, <1>5, <1>6
<1>8. 0 \notin ids /\ 0 \notin nos
  BY <1>3, <1>4, <1>6
<1>9. \A k \in InUse(files) : k \in W <=> files[k].id \in ids
  <2>1. \A j, k \in InUse(files) : files[j].id = files[k].id => j = k
    BY <1>2 DEF Order
  <2> QED BY <1>4, <2>1
<1> HIDE DEF ids
<1>10. held.born \notin nos /\ Alive(held', files', born')
  <2>1. CASE held = Nobody
    BY <1>1, <1>8, <2>1 DEF Nobody, Alive
  <2>2. CASE held # Nobody
    <3>1. PICK k \in InUse(files) : held.id = files[k].id /\ held.born = born[k]
      BY <1>2, <2>2 DEF Alive
    <3>2. held.born \notin nos /\ k \notin W
      BY <1>1, <1>7, <1>9, <3>1
    <3>3. k \in InUse(files') /\ files'[k] = files[k]
      BY <1>1, <3>2, <1>3 DEF InUse
    <3>4. Alive(held', files', born')
      BY <1>1, <3>1, <3>3 DEF Alive
    <3> QED BY <3>2, <3>4
  <2> QED BY <2>1, <2>2
<1>11. Mapped' = [k \in Keys |-> IF k \in dead THEN Memory!NoRow ELSE Mapped[k]]
  <2>1. \A k \in Keys : MapRow(files'[k], born'[k]) = IF k \in W THEN Memory!NoRow ELSE MapRow(files[k], born[k])
    BY <1>1 DEF MapRow, Absent, NULL, Memory!NoRow
  <2>2. Mapped' = [k \in Keys |-> MapRow(files'[k], born'[k])]
    BY MapsAre DEF MapTable
  <2>3. \A k \in Keys : Mapped[k] = MapRow(files[k], born[k])
    BY MapsAre DEF MapTable
  <2> QED BY <1>3, <2>1, <2>2, <2>3
<1>12. ASSUME NEW g \in DOMAIN gs
       PROVE  /\ at(g) \in ids => content_groups'[g] = [gs[g] EXCEPT !.canon = 0]
              /\ at(g) \notin ids => /\ content_groups'[g] = gs[g]
                                     /\ CountIn(files', born', at(g)) = CountIn(files, born, at(g))
                                     /\ at(g) # 0 => ById(files', at(g)) # {}
              /\ CountIn(files, born, at(g)) \in nos <=> at(g) \in ids
  <2>1. /\ at(g) \in ids => content_groups'[g] = [gs[g] EXCEPT !.canon = 0]
        /\ at(g) \notin ids => content_groups'[g] = gs[g]
    BY <1>1 DEF Uncrown, NULL
  <2>2. Rows(files', content_groups') /\ Order(files', born', births')
    BY DEF SqlInv, TableInv, Rows, Order, InUse
  <2>3. CASE at(g) = 0
    <3>1. CountIn(files, born, 0) = 0 /\ CountIn(files', born', 0) = 0
      BY <1>2, <2>2, CountIs
    <3> QED BY <1>8, <2>1, <2>3, <3>1
  <2>4. CASE at(g) # 0
    <3>1. PICK k \in InUse(files) : files[k].id = at(g)
      BY <1>2, <2>4 DEF Crowned, ById, NULL
    <3>2. CountIn(files, born, files[k].id) = born[k]
      BY <1>2, CountIs
    <3>3. CountIn(files, born, at(g)) = born[k]
      BY <3>1, <3>2
    <3>4. CountIn(files, born, at(g)) \in nos <=> at(g) \in ids
      BY <1>7, <3>1, <3>3
    <3>5. ASSUME at(g) \notin ids
          PROVE  CountIn(files', born', at(g)) = CountIn(files, born, at(g)) /\ ById(files', at(g)) # {}
      <4>1. k \in InUse(files') /\ files'[k] = files[k] /\ born'[k] = born[k]
        BY <1>1, <1>3, <1>9, <3>1, <3>5 DEF InUse
      <4>2. CountIn(files', born', files'[k].id) = born'[k]
        BY <2>2, <4>1, CountIs
      <4>3. k \in ById(files', at(g))
        BY <3>1, <4>1 DEF ById
      <4> QED BY <3>1, <3>3, <4>1, <4>2, <4>3
    <3> QED BY <2>1, <3>4, <3>5
  <2> QED BY <2>3, <2>4
<1>13. DOMAIN content_groups' = DOMAIN gs /\ DOMAIN Crowns = DOMAIN gs
  BY <1>1 DEF Uncrown, Crowns
<1>14. ASSUME NEW g \in DOMAIN gs
       PROVE  MapGroups(content_groups', files', born')[g]
                = IF Crowns[g].canon \in nos THEN [Crowns[g] EXCEPT !.canon = 0] ELSE Crowns[g]
  <2>1. gs[g] \in [canon : Nat, verified : Nat]
    BY <1>2, GroupsAre
  <2>2. Crowns[g] = [gs[g] EXCEPT !.canon = CountIn(files, born, at(g))]
    BY MapsAre DEF MapGroups
  <2>3. MapGroups(content_groups', files', born')[g]
          = [content_groups'[g] EXCEPT !.canon = CountIn(files', born', content_groups'[g].canon)]
    BY <1>13 DEF MapGroups
  <2>4. Crowns[g].canon = CountIn(files, born, at(g))
    BY <2>1, <2>2
  <2>5. CountIn(files', born', 0) = 0
    <3>1. Rows(files', content_groups') /\ Order(files', born', births')
      BY DEF SqlInv, TableInv, Rows, Order, InUse
    <3> QED BY <3>1, CountIs
  <2>6. CASE at(g) \in ids
    <3>1. content_groups'[g] = [gs[g] EXCEPT !.canon = 0] /\ Crowns[g].canon \in nos
      BY <1>12, <2>4, <2>6
    <3>2. [gs[g] EXCEPT !.canon = 0].canon = 0
      BY <2>1
    <3>3. MapGroups(content_groups', files', born')[g] = [[gs[g] EXCEPT !.canon = 0] EXCEPT !.canon = 0]
      BY <2>3, <2>5, <3>1, <3>2
    <3> HIDE DEF gs
    <3> QED BY <2>1, <2>2, <3>1, <3>3
  <2>7. CASE at(g) \notin ids
    <3>1. /\ content_groups'[g] = gs[g] /\ Crowns[g].canon \notin nos
          /\ CountIn(files', born', at(g)) = CountIn(files, born, at(g))
      BY <1>12, <2>4, <2>7
    <3>2. MapGroups(content_groups', files', born')[g] = Crowns[g]
      BY <2>2, <2>3, <3>1
    <3> QED BY <3>1, <3>2
  <2> QED BY <2>6, <2>7
<1>15. Crowns' = [g \in DOMAIN Crowns |-> IF Crowns[g].canon \in nos THEN [Crowns[g] EXCEPT !.canon = 0]
                                          ELSE Crowns[g]]
  <2>1. Crowns' = MapGroups(content_groups', files', born')
    BY MapsAre
  <2>2. MapGroups(content_groups', files', born')
          = [g \in DOMAIN gs |-> MapGroups(content_groups', files', born')[g]]
    BY <1>13 DEF MapGroups
  <2> QED BY <1>13, <1>14, <2>1, <2>2
<1>16. Kept'
  <2>1. Crowned(files', content_groups')
    <3>1. \A g \in DOMAIN gs : [gs[g] EXCEPT !.canon = 0].canon = 0
      BY <1>2, GroupsAre
    <3> QED BY <1>12, <1>13, <3>1 DEF Crowned, NULL
  <2>2. Crowned(files', content_groups') /\ Alive(held', files', born')
    BY <1>10, <2>1
  <2> QED BY <2>2 DEF Kept, Crowned, Alive, InUse, ById
<1>17. Holding' = Holding /\ Phien' = Phien /\ answer' = <<Memory!Cardinality(dead)>> /\ Holding.id \notin nos
  BY <1>1, <1>3, <1>10, Counting, Unchanged DEF Holding
<1> QED BY <1>1, <1>11, <1>15, <1>16, <1>17, Zenon DEF Memory!Purge, Memory!Ok, Mapped, Crowns, Counted,
           Phien, Holding, dead, nos

(* ---------------- apply: the row, the others, the group ---------------- *)

\* What the UPDATE of a transition makes of the row it hits.
Patches(row, from, to, p) ==
  [row EXCEPT !.state = to, !.updated = now,
     !.waits = Column(p, "waits", IF from # to THEN NULL ELSE @),
     !.ready = Column(p, "ready", @), !.skip  = Column(p, "skip", @),
     !.fp    = Column(p, "fp", @),    !.known = Column(p, "known", @),
     !.group = Column(p, "group", @), !.prev  = Column(p, "prev", @)]

\* It is what apply_patch makes of it.
LEMMA PatchRefines ==
  ASSUME NEW row, DOMAIN row = Columns, NEW to, NEW p, NEW n
  PROVE  As(Patches(row, row.state, to, p), n) = Memory!Patched(As(row, n), to, p)
<1> DEFINE old == IF row.state = to THEN row.waits ELSE 0
           m == As(row, n)
           c == Patches(row, row.state, to, p)
           r == As(c, n)
           s == Memory!Patched(m, to, p)
<1>1. \A x, y : Memory!Column(p, x, y) = Column(p, x, y)
  BY DEF Memory!Column, Column
<1>2. /\ DOMAIN m = Columns /\ m.id = n /\ m.loc = row.loc /\ m.fp = row.fp /\ m.state = row.state
      /\ m.prev = row.prev /\ m.ready = row.ready /\ m.waits = row.waits /\ m.known = row.known
      /\ m.group = row.group /\ m.skip = row.skip /\ m.updated = row.updated
  BY DEF As, Columns
<1> HIDE DEF m
<1>3. /\ DOMAIN c = Columns /\ c.loc = row.loc /\ c.state = to /\ c.updated = now
      /\ c.waits = Column(p, "waits", IF row.state # to THEN NULL ELSE row.waits)
      /\ c.ready = Column(p, "ready", row.ready) /\ c.skip = Column(p, "skip", row.skip)
      /\ c.fp = Column(p, "fp", row.fp) /\ c.known = Column(p, "known", row.known)
      /\ c.group = Column(p, "group", row.group) /\ c.prev = Column(p, "prev", row.prev)
  BY DEF Patches, Columns
<1> HIDE DEF c
<1>4. /\ r = [x \in Columns |-> r[x]] /\ r.id = n /\ r.loc = c.loc /\ r.fp = c.fp /\ r.state = c.state
      /\ r.prev = c.prev /\ r.ready = c.ready /\ r.waits = c.waits /\ r.known = c.known
      /\ r.group = c.group /\ r.skip = c.skip /\ r.updated = c.updated
  BY <1>3 DEF As, Columns
<1>5. /\ s = [x \in Columns |-> s[x]] /\ s.id = m.id /\ s.loc = m.loc /\ s.state = to /\ s.updated = now
      /\ s.waits = Memory!Column(p, "waits", IF m.state = to THEN m.waits ELSE 0)
      /\ s.ready = Memory!Column(p, "ready", m.ready) /\ s.skip = Memory!Column(p, "skip", m.skip)
      /\ s.fp = Memory!Column(p, "fp", m.fp) /\ s.known = Memory!Column(p, "known", m.known)
      /\ s.group = Memory!Column(p, "group", m.group) /\ s.prev = Memory!Column(p, "prev", m.prev)
  BY <1>2 DEF Memory!Patched, Columns
<1> HIDE DEF r, s
<1>6. (IF m.state = to THEN m.waits ELSE 0) = IF row.state # to THEN NULL ELSE row.waits
  BY <1>2 DEF NULL
<1>7. /\ r.id = s.id /\ r.loc = s.loc /\ r.fp = s.fp /\ r.state = s.state
      /\ r.prev = s.prev /\ r.ready = s.ready /\ r.waits = s.waits /\ r.known = s.known
      /\ r.group = s.group /\ r.skip = s.skip /\ r.updated = s.updated
  BY <1>1, <1>2, <1>3, <1>4, <1>5, <1>6
<1>8. r = s
  BY <1>4, <1>5, <1>7, RowsEqual, Zenon
<1> QED BY <1>8 DEF r, s, c, m

\* The row of k patched, if it is still what it was.
Swapped(t, k, from, to, p) ==
  IF t[k].state = from THEN [t EXCEPT ![k] = Memory!Patched(@, to, p)] ELSE t

\* An UPDATE with the id and the state in its WHERE clause hits one row or none.
LEMMA CasOnly ==
  ASSUME NEW f, NEW gs, NEW b, NEW n, NEW k, NEW from, NEW to, NEW p,
         Rows(f, gs) /\ Order(f, b, n) /\ k \in InUse(f)
  PROVE  CasHits(f, f[k].id, from) = IF f[k].state = from THEN {k} ELSE {}
<1>1. ById(f, f[k].id) = {k}
  BY CountIs
<1> QED BY <1>1 DEF CasHits

LEMMA CasMaps ==
  ASSUME NEW f, NEW gs, NEW b, NEW n, NEW k, NEW from, NEW to, NEW p,
         Rows(f, gs) /\ Order(f, b, n) /\ k \in InUse(f)
  PROVE  MapTable(CasUpdate(f, f[k].id, from, to, p), b) = Swapped(MapTable(f, b), k, from, to, p)
<1> DEFINE W == CasHits(f, f[k].id, from)
           new == CasUpdate(f, f[k].id, from, to, p)
           T == MapTable(f, b)
<1>1. W = IF f[k].state = from THEN {k} ELSE {}
  BY CasOnly
<1>2. new = [j \in Keys |-> IF j \in W THEN Patches(f[j], from, to, p) ELSE f[j]]
  BY Zenon DEF CasUpdate, Updating, Patches
<1>3. k \in Keys /\ DOMAIN f[k] = Columns /\ f[k].id # NULL
  <2>1. k \in Keys /\ WellFormed(f[k], gs)
    BY RowsIn
  <2> QED BY <2>1 DEF WellFormed, Columns, NULL
<1> HIDE DEF W, new
<1>4. \A j \in Keys : j # k => new[j] = f[j]
  BY <1>1, <1>2
<1>5. /\ T = [j \in Keys |-> MapRow(f[j], b[j])] /\ T[k] = As(f[k], b[k])
      /\ T[k].state = f[k].state
  <2>1. T[k] = As(f[k], b[k])
    BY <1>3 DEF MapTable, MapRow, As
  <2>2. As(f[k], b[k]).state = f[k].state
    BY <1>3 DEF As, Columns
  <2>3. T = [j \in Keys |-> MapRow(f[j], b[j])]
    BY DEF MapTable
  <2> QED BY <2>1, <2>2, <2>3
<1> HIDE DEF T
<1>6. CASE f[k].state = from
  <2>1. new[k] = Patches(f[k], f[k].state, to, p)
    BY <1>1, <1>2, <1>3, <1>6
  <2>2. As(new[k], b[k]) = Memory!Patched(T[k], to, p)
    BY <1>3, <1>5, <2>1, PatchRefines
  <2>3. new[k].id = f[k].id
    BY <1>3, <2>1 DEF Patches, Columns
  <2>4. MapRow(new[k], b[k]) = Memory!Patched(T[k], to, p)
    BY <1>3, <2>2, <2>3 DEF MapRow, As
  <2>5. MapTable(new, b) = [T EXCEPT ![k] = Memory!Patched(@, to, p)]
    BY <1>3, <1>4, <1>5, <2>4 DEF MapTable
  <2>6. MapTable(new, b) = Swapped(T, k, from, to, p)
    BY <1>5, <1>6, <2>5 DEF Swapped
  <2> QED BY <2>6 DEF new, T
<1>7. CASE f[k].state # from
  <2>1. \A j \in Keys : new[j] = f[j]
    BY <1>1, <1>2, <1>7
  <2>2. MapTable(new, b) = T
    BY <1>5, <2>1 DEF MapTable
  <2>3. MapTable(new, b) = Swapped(T, k, from, to, p)
    BY <1>5, <1>7, <2>2 DEF Swapped
  <2> QED BY <2>3 DEF new, T
<1> QED BY <1>6, <1>7

\* The rows with these numbers, in the group g.
Into(t, nos, g) ==
  [k \in Keys |-> IF t[k].id # 0 /\ t[k].id \in nos THEN [t[k] EXCEPT !.group = g] ELSE t[k]]

LEMMA JoinMaps ==
  ASSUME NEW f, NEW gs, NEW b, NEW n, Rows(f, gs), Order(f, b, n), NEW ids, NEW nos,
         \A k \in InUse(f) : f[k].id \in ids <=> b[k] \in nos, NEW g
  PROVE  MapTable(Join(f, ids, g), b) = Into(MapTable(f, b), nos, g)
<1> DEFINE T == MapTable(f, b)
           W == {k \in InUse(f) : f[k].id \in ids}
           new == Join(f, ids, g)
<1>1. \A k \in InUse(f) : k \in Keys /\ DOMAIN f[k] = Columns /\ f[k].id # NULL /\ b[k] # 0
  <2>1. \A k \in InUse(f) : k \in Keys /\ WellFormed(f[k], gs) /\ b[k] # 0
    BY RowsIn DEF Order
  <2> QED BY <2>1 DEF WellFormed, Columns, NULL
<1>2. \A k \in Keys : new[k] = IF k \in W THEN [f[k] EXCEPT !.group = g] ELSE f[k]
  BY DEF Join
<1>3. \A k \in Keys : T[k] = MapRow(f[k], b[k])
  BY DEF MapTable
<1>4. \A k \in Keys : T[k].id # 0 /\ T[k].id \in nos <=> k \in W
  <2>1. \A k \in InUse(f) : T[k].id = b[k]
    <3>1. \A k \in InUse(f) : T[k] = [f[k] EXCEPT !.id = b[k]]
      BY <1>1, <1>3 DEF MapRow
    <3> QED BY <1>1, <3>1 DEF Columns
  <2>2. \A k \in Keys \ InUse(f) : T[k].id = 0
    <3>1. \A k \in Keys \ InUse(f) : T[k] = Absent /\ T[k].id = 0
      BY DEF InUse, MapTable, MapRow, Absent, NULL
    <3> QED BY <3>1
  <2> HIDE DEF T
  <2> QED BY <1>1, <2>1, <2>2
<1>5. ASSUME NEW k \in W PROVE MapRow(new[k], b[k]) = [T[k] EXCEPT !.group = g]
  <2>1. k \in InUse(f) /\ k \in Keys
    BY <1>1
  <2> DEFINE r == f[k]
  <2>2. new[k] = [r EXCEPT !.group = g] /\ T[k] = MapRow(r, b[k]) /\ DOMAIN r = Columns /\ r.id # NULL
    BY <1>1, <1>2, <1>3, <2>1
  <2> HIDE DEF r, new, T, W
  <2>3. [r EXCEPT !.group = g].id = r.id
    BY <2>2 DEF Columns
  <2>4. MapRow([r EXCEPT !.group = g], b[k]) = [[r EXCEPT !.group = g] EXCEPT !.id = b[k]]
    BY <2>2, <2>3 DEF MapRow
  <2>5. T[k] = [r EXCEPT !.id = b[k]]
    BY <2>2 DEF MapRow
  <2>6. [[r EXCEPT !.group = g] EXCEPT !.id = b[k]] = [[r EXCEPT !.id = b[k]] EXCEPT !.group = g]
    BY <2>2 DEF Columns
  <2> QED BY <2>2, <2>4, <2>5, <2>6
<1>6. \A k \in Keys : k \notin W => MapRow(new[k], b[k]) = T[k]
  BY <1>2, <1>3
<1> HIDE DEF W, new, T
<1> QED BY <1>4, <1>5, <1>6 DEF MapTable, Into, new, T

\* A group operation and the same one of the other store.
OpTwins(f, o, v) ==
  /\ OpOk(o) /\ v.op = o.op
  /\ o.op \notin {"create", "none"} => o.group \in DOMAIN content_groups /\ v.group = o.group
  /\ o.op \in {"create", "set_canonical"} =>
       \E k \in InUse(f) : o.file = f[k].id /\ v.file = born[k]

LEMMA GroupedRefines ==
  ASSUME NEW f, Rows(f, content_groups), Order(f, born, births), NEW h \in InUse(f),
         content_groups \in Groups, NEW o, NEW v, OpTwins(f, o, v)
  PROVE  MapTable(GroupOp([f |-> f, gs |-> content_groups], f[h].id, o).f, born)
           = Memory!Grouped(MapTable(f, born), born[h], v)
<1> DEFINE gs == content_groups
           id == f[h].id
           no == born[h]
           T == MapTable(f, born)
           new == GroupOp([f |-> f, gs |-> gs], id, o).f
<1>1. \A j, k \in InUse(f) : f[j].id = f[k].id <=> born[j] = born[k]
  <2> SUFFICES ASSUME NEW j \in InUse(f), NEW k \in InUse(f)
               PROVE  f[j].id = f[k].id <=> born[j] = born[k]
    OBVIOUS
  <2>1. j \in Keys /\ k \in Keys /\ WellFormed(f[j], gs) /\ WellFormed(f[k], gs)
    BY RowsIn
  <2>2. f[j].id \in Nat /\ f[k].id \in Nat /\ born[j] \in Nat /\ born[k] \in Nat
    BY <2>1 DEF WellFormed, Order
  <2>3. /\ f[j].id < f[k].id <=> born[j] < born[k]
        /\ f[k].id < f[j].id <=> born[k] < born[j]
    BY DEF Order
  <2> QED BY <2>2, <2>3
<1>2. ASSUME NEW ids, NEW nos, \A k \in InUse(f) : f[k].id \in ids <=> born[k] \in nos, NEW g
      PROVE  MapTable(Join(f, ids, g), born) = Into(T, nos, g)
  <2>1. Rows(f, gs) /\ Order(f, born, births) /\ \A k \in InUse(f) : f[k].id \in ids <=> born[k] \in nos
    BY <1>2
  <2> QED BY <2>1, JoinMaps
<1> HIDE DEF T
<1>3. CASE o.op = "create"
  <2>1. PICK k \in InUse(f) : o.file = f[k].id /\ v.file = born[k]
    BY <1>3 DEF OpTwins
  <2>2. new = Join(f, {id, o.file}, Len(gs) + 1)
    BY <1>3 DEF GroupOp, Join, Updating
  <2>3. MapTable(new, born) = Into(T, {no, v.file}, Len(gs) + 1)
    <3>1. \A j \in InUse(f) : f[j].id \in {id, o.file} <=> born[j] \in {no, v.file}
      BY <1>1, <2>1
    <3> HIDE DEF new
    <3> QED BY <1>2, <2>2, <3>1
  <2>4. Memory!Grouped(T, no, v) = Into(T, {no, v.file}, Len(gs) + 1)
    <3>1. Len(Crowns) = Len(gs)
      <4>1. DOMAIN Crowns = 1..Len(gs) /\ Len(gs) \in Nat
        BY GroupsAre DEF Crowns
      <4>2. Crowns = [g \in 1..Len(gs) |-> Crowns[g]]
        BY <4>1 DEF Crowns
      <4> HIDE DEF Crowns
      <4> QED BY <4>1, <4>2
    <3>2. v.op = "create"
      BY <1>3 DEF OpTwins
    <3> HIDE DEF gs
    <3> QED BY <3>1, <3>2, Zenon DEF Memory!Grouped, Crowns, Counted, Into
  <2> QED BY <2>3, <2>4 DEF T
<1>4. CASE o.op = "join"
  <2>1. new = Join(f, {id}, o.group)
    BY <1>4 DEF GroupOp, Join, Updating
  <2>2. MapTable(new, born) = Into(T, {no}, o.group)
    <3>1. \A j \in InUse(f) : f[j].id \in {id} <=> born[j] \in {no}
      BY <1>1
    <3> HIDE DEF new
    <3> QED BY <1>2, <2>1, <3>1
  <2>3. Memory!Grouped(T, no, v) = Into(T, {no}, v.group)
    <3>1. v.op = "join"
      BY <1>4 DEF OpTwins
    <3> QED BY <3>1 DEF Memory!Grouped, Into
  <2>4. v.group = o.group
    BY <1>4 DEF OpTwins
  <2> QED BY <2>2, <2>3, <2>4 DEF T
<1>5. CASE o.op = "set_canonical"
  <2>1. PICK k \in InUse(f) : o.file = f[k].id /\ v.file = born[k]
    BY <1>5 DEF OpTwins
  <2>2. new = Join(f, {o.file}, o.group)
    BY <1>5 DEF GroupOp, Join, Updating
  <2>3. MapTable(new, born) = Into(T, {v.file}, o.group)
    <3>1. \A j \in InUse(f) : f[j].id \in {o.file} <=> born[j] \in {v.file}
      BY <1>1, <2>1
    <3> HIDE DEF new
    <3> QED BY <1>2, <2>2, <3>1
  <2>4. Memory!Grouped(T, no, v) = Into(T, {v.file}, v.group)
    <3>1. v.op = "set_canonical"
      BY <1>5 DEF OpTwins
    <3> QED BY <3>1 DEF Memory!Grouped, Into
  <2>5. v.group = o.group
    BY <1>5 DEF OpTwins
  <2> QED BY <2>3, <2>4, <2>5 DEF T
<1>6. CASE o.op = "leave"
  <2>1. new = Join(f, {id}, 0)
    BY <1>6 DEF GroupOp, Join, Updating, NULL
  <2>2. MapTable(new, born) = Into(T, {no}, 0)
    <3>1. \A j \in InUse(f) : f[j].id \in {id} <=> born[j] \in {no}
      BY <1>1
    <3> HIDE DEF new
    <3> QED BY <1>2, <2>1, <3>1
  <2>3. Memory!Grouped(T, no, v) = Into(T, {no}, 0)
    <3>1. v.op = "leave"
      BY <1>6 DEF OpTwins
    <3> QED BY <3>1 DEF Memory!Grouped, Into
  <2> QED BY <2>2, <2>3 DEF T
<1>7. CASE o.op \in {"verified", "none"}
  <2>1. new = f
    BY <1>7 DEF GroupOp
  <2>2. Memory!Grouped(T, no, v) = T
    <3>1. v.op \in {"verified", "none"}
      BY <1>7 DEF OpTwins
    <3> QED BY <3>1 DEF Memory!Grouped
  <2> HIDE DEF new
  <2> QED BY <2>1, <2>2 DEF T, new
<1> QED BY <1>3, <1>4, <1>5, <1>6, <1>7 DEF OpTwins, OpOk

LEMMA RegroupedRefines ==
  ASSUME NEW f, Rows(f, content_groups), Order(f, born, births), NEW h \in InUse(f),
         content_groups \in Groups, NEW o, NEW v, OpTwins(f, o, v),
         Crowned(f, content_groups), Crowns = MapGroups(content_groups, f, born)
  PROVE  /\ MapGroups(GroupOp([f |-> f, gs |-> content_groups], f[h].id, o).gs, f, born)
              = Memory!Regrouped(born[h], v)
         /\ Crowned(f, GroupOp([f |-> f, gs |-> content_groups], f[h].id, o).gs)
<1> DEFINE gs == content_groups
           id == f[h].id
           no == born[h]
           new == GroupOp([f |-> f, gs |-> gs], id, o).gs
           G == Crowns
           g == o.group
           count(x) == CountIn(f, born, x)
           out == Memory!Regrouped(no, v)
<1>1. /\ DOMAIN gs = 1..Len(gs) /\ Len(gs) \in Nat /\ gs = [x \in DOMAIN gs |-> gs[x]]
      /\ \A x \in DOMAIN gs : DOMAIN gs[x] = {"canon", "verified"}
  BY GroupsAre
<1>2. /\ G = [x \in DOMAIN gs |-> [gs[x] EXCEPT !.canon = count(@)]] /\ DOMAIN G = DOMAIN gs
      /\ \A x \in DOMAIN gs : /\ DOMAIN G[x] = {"canon", "verified"}
                              /\ G[x].canon = count(gs[x].canon) /\ G[x].verified = gs[x].verified
  <2>1. G = [x \in DOMAIN gs |-> [gs[x] EXCEPT !.canon = count(@)]]
    BY DEF MapGroups
  <2> HIDE DEF G
  <2> QED BY <1>1, <2>1
<1>3. MapGroups(new, f, born) = [x \in DOMAIN new |-> [new[x] EXCEPT !.canon = count(@)]]
  BY Zenon DEF MapGroups
<1>4. \A k \in InUse(f) : count(f[k].id) = born[k] /\ ById(f, f[k].id) # {}
  BY CountIs
<1> HIDE DEF G, count
<1>5. CASE o.op = "create"
  <2> DEFINE r == [canon |-> o.file, verified |-> NULL]
             s == [canon |-> v.file, verified |-> 0]
             n == Len(gs)
  <2>1. PICK k \in InUse(f) : o.file = f[k].id /\ v.file = born[k]
    BY <1>5 DEF OpTwins
  <2>2. new = Append(gs, r)
    BY <1>5 DEF GroupOp
  <2>3. out = Append(G, s)
    BY <1>5, Zenon DEF OpTwins, Memory!Regrouped, G, Crowns, Counted
  <2>4. [r EXCEPT !.canon = count(@)] = s
    BY <1>4, <2>1 DEF NULL
  <2>5. /\ DOMAIN Append(gs, r) = 1..(n + 1) /\ Append(gs, r)[n + 1] = r
        /\ \A x \in 1..n : Append(gs, r)[x] = gs[x]
    <3> HIDE DEF r
    <3>1. gs \in Seq({gs[x] : x \in DOMAIN gs} \union {r})
      BY <1>1
    <3> QED BY <1>1, <3>1
  <2>6. /\ DOMAIN Append(G, s) = 1..(n + 1) /\ Append(G, s)[n + 1] = s
        /\ \A x \in 1..n : Append(G, s)[x] = G[x]
        /\ Append(G, s) = [x \in 1..(n + 1) |-> Append(G, s)[x]]
    <3> HIDE DEF s
    <3>1. DOMAIN G = 1..n /\ G = [x \in 1..n |-> G[x]] /\ n \in Nat
      BY <1>1, <1>2
    <3> DEFINE S == {G[x] : x \in 1..n} \union {s}
    <3>2. s \in S /\ G \in [1..n -> S]
      BY <3>1
    <3> HIDE DEF S
    <3>3. G \in Seq(S) /\ Len(G) = n
      BY <3>1, <3>2
    <3>4. /\ DOMAIN Append(G, s) = 1..(n + 1) /\ Append(G, s)[n + 1] = s
          /\ \A x \in 1..n : Append(G, s)[x] = G[x]
      BY <3>1, <3>2, <3>3
    <3>5. Append(G, s) = [x \in 1..Len(Append(G, s)) |-> Append(G, s)[x]] /\ Len(Append(G, s)) = n + 1
      BY <3>1, <3>2, <3>3
    <3> QED BY <3>4, <3>5
  <2>7. n \in Nat /\ DOMAIN gs = 1..n
    BY <1>1
  <2>8. ASSUME NEW x \in 1..(n + 1) PROVE [new[x] EXCEPT !.canon = count(@)] = out[x]
    <3>1. CASE x = n + 1
      BY <2>2, <2>3, <2>4, <2>5, <2>6, <3>1
    <3>2. CASE x # n + 1
      <4>1. x \in 1..n
        BY <2>7, <3>2
      <4>2. new[x] = gs[x] /\ out[x] = G[x]
        BY <2>2, <2>3, <2>5, <2>6, <4>1
      <4>3. G[x] = [gs[x] EXCEPT !.canon = count(@)]
        BY <1>2, <2>7, <4>1
      <4> QED BY <4>2, <4>3
    <3> QED BY <3>1, <3>2
  <2>9. MapGroups(new, f, born) = out
    <3> HIDE DEF new, out
    <3> QED BY <1>3, <2>2, <2>3, <2>5, <2>6, <2>8
  <2>10. Crowned(f, new)
    <3>1. ASSUME NEW x \in 1..(n + 1), new[x].canon # NULL PROVE ById(f, new[x].canon) # {}
      <4>1. CASE x = n + 1
        BY <1>4, <2>1, <2>2, <2>5, <4>1
      <4>2. CASE x # n + 1
        <5>1. x \in 1..n /\ new[x] = gs[x]
          BY <2>2, <2>5, <2>7, <4>2
        <5> QED BY <2>7, <3>1, <5>1 DEF Crowned
      <4> QED BY <4>1, <4>2
    <3> HIDE DEF new
    <3> QED BY <2>2, <2>5, <3>1 DEF Crowned
  <2> QED BY <2>9, <2>10
<1>6. CASE o.op \in {"join", "none"}
  <2>1. new = gs
    BY <1>6 DEF GroupOp
  <2>2. out = G
    BY <1>6 DEF OpTwins, Memory!Regrouped, G, Crowns, Counted
  <2> HIDE DEF new, out
  <2> QED BY <2>1, <2>2 DEF new, out, G
<1>7. CASE o.op = "set_canonical"
  <2>1. PICK k \in InUse(f) : o.file = f[k].id /\ v.file = born[k]
    BY <1>7 DEF OpTwins
  <2>2. new = [gs EXCEPT ![g].canon = o.file] /\ g \in DOMAIN gs
    BY <1>7 DEF GroupOp, OpTwins
  <2>3. out = [G EXCEPT ![g].canon = v.file]
    BY <1>7, Zenon DEF OpTwins, Memory!Regrouped, G, Crowns, Counted
  <2>4. v.file = count(o.file)
    BY <1>4, <2>1
  <2> HIDE DEF new, out, gs, g
  <2>5. MapGroups(new, f, born) = out
    <3>1. DOMAIN new = DOMAIN gs
      BY <2>2
    <3>2. out = [x \in DOMAIN gs |-> out[x]]
      BY <1>2, <2>3
    <3>3. ASSUME NEW x \in DOMAIN gs PROVE [new[x] EXCEPT !.canon = count(@)] = out[x]
      BY <1>1, <1>2, <2>2, <2>3, <2>4
    <3> QED BY <1>3, <3>1, <3>2, <3>3
  <2>6. Crowned(f, new)
    BY <1>1, <1>4, <2>1, <2>2 DEF Crowned, gs
  <2> QED BY <2>5, <2>6 DEF new, out, gs, g
<1>8. CASE o.op = "leave"
  <2>1. new = Uncrown(gs, {x \in {g} : gs[x].canon = id}) /\ g \in DOMAIN gs
    BY <1>8 DEF GroupOp, OpTwins
  <2>2. out = [G EXCEPT ![g].canon = IF @ = no THEN 0 ELSE @]
    <3>1. v.op = "leave" /\ v.group = g
      BY <1>8 DEF OpTwins
    <3> HIDE DEF g, no
    <3>2. out = [G EXCEPT ![v.group].canon = IF @ = no THEN 0 ELSE @]
      BY <3>1 DEF Memory!Regrouped, G, Crowns, Counted
    <3> QED BY <3>1, <3>2
  <2>3. G[g].canon = no <=> gs[g].canon = id
    <3>1. G[g].canon = count(gs[g].canon)
      BY <1>2, <2>1
    <3>2. count(gs[g].canon) = born[h] <=> gs[g].canon = f[h].id
      BY <2>1, CountedAre DEF Crowned, count
    <3> QED BY <3>1, <3>2
  <2>4. count(0) = 0
    BY CountIs DEF count
  <2>5. new = [x \in DOMAIN gs |-> IF x = g /\ gs[x].canon = id THEN [gs[x] EXCEPT !.canon = 0] ELSE gs[x]]
    <3> HIDE DEF gs, g, id
    <3> QED BY <2>1 DEF Uncrown, NULL
  <2> HIDE DEF new, out, gs, g, no, id
  <2>6. ASSUME NEW x \in DOMAIN gs PROVE [new[x] EXCEPT !.canon = count(@)] = out[x]
    <3>1. CASE x = g /\ gs[x].canon = id
      <4>1. new[x] = [gs[x] EXCEPT !.canon = 0]
        BY <2>5, <3>1
      <4>2. out[x] = [G[x] EXCEPT !.canon = 0]
        BY <1>2, <2>2, <2>3, <3>1
      <4> QED BY <1>1, <1>2, <2>4, <4>1, <4>2
    <3>2. CASE ~(x = g /\ gs[x].canon = id)
      <4>1. new[x] = gs[x]
        BY <2>5, <3>2
      <4>2. out[x] = G[x]
        BY <1>2, <2>2, <2>3, <3>2
      <4> QED BY <1>1, <1>2, <4>1, <4>2
    <3> QED BY <3>1, <3>2
  <2>7. MapGroups(new, f, born) = out
    <3>1. DOMAIN new = DOMAIN gs
      BY <2>5
    <3>2. out = [x \in DOMAIN gs |-> out[x]]
      BY <1>2, <2>2
    <3> QED BY <1>3, <2>6, <3>1, <3>2
  <2>8. Crowned(f, new)
    <3>1. \A x \in DOMAIN gs : [gs[x] EXCEPT !.canon = 0].canon = 0
      BY <1>1
    <3> QED BY <2>5, <3>1 DEF Crowned, gs, NULL
  <2> QED BY <2>7, <2>8 DEF new, out, gs, g, no, id
<1>9. CASE o.op = "verified"
  <2>1. new = [gs EXCEPT ![g].verified = IF @ = NULL THEN now ELSE @] /\ g \in DOMAIN gs
    BY <1>9 DEF GroupOp, OpTwins
  <2>2. out = [G EXCEPT ![g].verified = IF @ = 0 THEN now ELSE @]
    <3>1. v.op = "verified" /\ v.group = g
      BY <1>9 DEF OpTwins
    <3> HIDE DEF g
    <3>2. out = [G EXCEPT ![v.group].verified = IF @ = 0 THEN now ELSE @]
      BY <3>1 DEF Memory!Regrouped, G, Crowns, Counted
    <3> QED BY <3>1, <3>2
  <2> HIDE DEF new, out, gs, g
  <2>3. MapGroups(new, f, born) = out
    <3>1. DOMAIN new = DOMAIN gs
      BY <2>1
    <3>2. ASSUME NEW x \in DOMAIN gs PROVE [new[x] EXCEPT !.canon = count(@)] = out[x]
      BY <1>1, <1>2, <2>1, <2>2 DEF NULL
    <3> QED BY <1>2, <1>3, <2>2, <3>1, <3>2
  <2>4. Crowned(f, new)
    BY <1>1, <2>1 DEF Crowned, gs
  <2> QED BY <2>3, <2>4 DEF new, out, gs, g
<1> QED BY <1>5, <1>6, <1>7, <1>8, <1>9 DEF OpTwins, OpOk

\* A transition and the same one of the other store; the row of `others` is not
\* the one that is held.
Twins(t, u) ==
  /\ u.to = t.to /\ u.patch = t.patch /\ OpTwins(files, t.op, u.op)
  /\ \/ t.others = {} /\ u.others = {}
     \/ \E k \in InUse(files) : \E o, p :
          /\ t.others = {o} /\ u.others = {p} /\ o.id = files[k].id /\ p.id = born[k]
          /\ o.id # held.id /\ p.from = o.from /\ p.to = o.to /\ p.patch = o.patch

\* What apply makes of the rows before the group operation.
Hits(u, k) == {o \in u.others : o.id = Mapped[k].id /\ o.from = Mapped[k].state}
AllPatched(u, h) ==
  [k \in Keys |->
     IF k \notin Memory!Stored(Mapped) THEN Mapped[k]
     ELSE IF k = h THEN Memory!Patched(Mapped[k], u.to, u.patch)
     ELSE IF Hits(u, k) = {} THEN Mapped[k]
     ELSE LET o == CHOOSE o \in Hits(u, k) : TRUE IN Memory!Patched(Mapped[k], o.to, o.patch)]

LEMMA PatchedRefines ==
  ASSUME RefInv, NEW h \in InUse(files), held.id = files[h].id, files[h].state = held.from,
         NEW t, StepOk(t), NEW u, Twins(t, u)
  PROVE  MapTable(AlsoAll(CasUpdate(files, held.id, held.from, t.to, t.patch), t.others), born)
           = AllPatched(u, h)
<1> DEFINE self == CasUpdate(files, held.id, held.from, t.to, t.patch)
           also == AlsoAll(self, t.others)
           mine == Memory!Patched(Mapped[h], u.to, u.patch)
<1>1. /\ Rows(files, content_groups) /\ Order(files, born, births) /\ content_groups \in Groups
      /\ u.to = t.to /\ u.patch = t.patch
  BY RowsAre DEF RefInv, Twins
<1>2. /\ MapTable(self, born) = [Mapped EXCEPT ![h] = mine]
      /\ \A k \in Keys : k # h => self[k] = files[k]
  <2>0. Rows(files, content_groups) /\ Order(files, born, births) /\ h \in InUse(files)
    BY <1>1
  <2>1. /\ MapTable(CasUpdate(files, files[h].id, held.from, t.to, t.patch), born)
             = Swapped(MapTable(files, born), h, held.from, t.to, t.patch)
        /\ \A k \in Keys : k # h => CasUpdate(files, files[h].id, held.from, t.to, t.patch)[k] = files[k]
    <3>1. MapTable(CasUpdate(files, files[h].id, held.from, t.to, t.patch), born)
            = Swapped(MapTable(files, born), h, held.from, t.to, t.patch)
      BY <2>0, CasMaps
    <3>2. \A k \in Keys : k # h
            => CasUpdate(files, files[h].id, held.from, t.to, t.patch)[k] = files[k]
      <4>1. CasHits(files, files[h].id, held.from) = IF files[h].state = held.from THEN {h} ELSE {}
        BY <2>0, CasOnly
      <4> QED BY <4>1 DEF CasUpdate, Updating
    <3> QED BY <3>1, <3>2
  <2>2. self = CasUpdate(files, files[h].id, held.from, t.to, t.patch) /\ Mapped[h].state = held.from
    BY MappedRows DEF RefInv
  <2>3. MapTable(self, born) = Swapped(Mapped, h, held.from, t.to, t.patch)
    BY <2>1, MapsAre
  <2> HIDE DEF self
  <2> QED BY <1>1, <2>1, <2>2, <2>3 DEF Swapped
<1>3. Edits(files, self, content_groups) /\ Rows(self, content_groups) /\ Order(self, born, births)
  <2>1. Edits(files, self, content_groups)
    BY <1>1, CasEdits DEF StepOk
  <2> HIDE DEF self
  <2> QED BY <1>1, <2>1, EditsKeep
<1>4. /\ Memory!Stored(Mapped) = InUse(files) /\ h \in Keys /\ DOMAIN Mapped = Keys
      /\ \A k \in InUse(files) : k \in Keys /\ Mapped[k].id = born[k] /\ Mapped[k].state = files[k].state
  <2>1. DOMAIN Mapped = Keys
    BY DEF Mapped
  <2> QED BY <2>1, MappedRows DEF RefInv
<1>5. \A j, k \in InUse(files) : born[j] = born[k] => j = k
  <2> SUFFICES ASSUME NEW j \in InUse(files), NEW k \in InUse(files), born[j] = born[k] PROVE j = k
    OBVIOUS
  <2>1. WellFormed(files[j], content_groups) /\ WellFormed(files[k], content_groups) /\ born[j] \in Nat
    BY <1>4, MappedRows DEF RefInv
  <2>2. files[j].id \in Nat /\ files[k].id \in Nat
    BY <2>1 DEF WellFormed
  <2>3. /\ files[j].id < files[k].id <=> born[j] < born[k]
        /\ files[k].id < files[j].id <=> born[k] < born[j]
        /\ files[j].id = files[k].id => j = k
    BY <1>1 DEF Order
  <2> QED BY <2>1, <2>2, <2>3
<1>6. CASE t.others = {} /\ u.others = {}
  <2>1. also = self
    BY <1>6, AlsoAllIs
  <2>2. \A k : Hits(u, k) = {}
    BY <1>6 DEF Hits
  <2> HIDE DEF also, self
  <2>3. \A k \in Keys : [Mapped EXCEPT ![h] = mine][k] = AllPatched(u, h)[k]
    BY <1>4, <2>2 DEF AllPatched
  <2>4. AllPatched(u, h) = [k \in Keys |-> AllPatched(u, h)[k]]
    BY DEF AllPatched
  <2>5. [Mapped EXCEPT ![h] = mine] = [k \in Keys |-> [Mapped EXCEPT ![h] = mine][k]]
    BY <1>4
  <2> HIDE DEF mine
  <2> QED BY <1>2, <2>1, <2>3, <2>4, <2>5 DEF also, self
<1>7. CASE t.others # {}
  <2>1. PICK j \in InUse(files) : \E o, p :
          /\ t.others = {o} /\ u.others = {p} /\ o.id = files[j].id /\ p.id = born[j]
          /\ o.id # held.id /\ p.from = o.from /\ p.to = o.to /\ p.patch = o.patch
    BY <1>7 DEF Twins
  <2>2. PICK o, p : /\ t.others = {o} /\ u.others = {p} /\ o.id = files[j].id /\ p.id = born[j]
                    /\ o.id # held.id /\ p.from = o.from /\ p.to = o.to /\ p.patch = o.patch
    BY <2>1
  <2>3. j # h /\ j \in Keys
    BY <1>4, <2>2
  <2>4. self[j] = files[j] /\ j \in InUse(self)
    BY <1>2, <2>3 DEF InUse
  <2>5. also = CasUpdate(self, self[j].id, o.from, o.to, o.patch)
    <3>1. also = Also(o, self)
      BY <2>2, AlsoAllIs
    <3> HIDE DEF also, self
    <3> QED BY <2>2, <2>4, <3>1 DEF Also
  <2> HIDE DEF also, self
  <2>6. MapTable(also, born) = Swapped(MapTable(self, born), j, o.from, o.to, o.patch)
    <3>1. Rows(self, content_groups) /\ Order(self, born, births) /\ j \in InUse(self)
      BY <1>3, <2>4
    <3>2. MapTable(CasUpdate(self, self[j].id, o.from, o.to, o.patch), born)
            = Swapped(MapTable(self, born), j, o.from, o.to, o.patch)
      BY <3>1, CasMaps
    <3> QED BY <2>5, <3>2
  <2>7. MapTable(also, born)
          = IF files[j].state = o.from
            THEN [[Mapped EXCEPT ![h] = mine] EXCEPT ![j] = Memory!Patched(Mapped[j], p.to, p.patch)]
            ELSE [Mapped EXCEPT ![h] = mine]
    BY <1>2, <1>4, <2>2, <2>3, <2>6 DEF Swapped
  <2>8. \A k \in InUse(files) : Hits(u, k) = IF k = j /\ files[j].state = o.from THEN {p} ELSE {}
    <3> SUFFICES ASSUME NEW k \in InUse(files)
                 PROVE  Hits(u, k) = IF k = j /\ files[j].state = o.from THEN {p} ELSE {}
      OBVIOUS
    <3>1. p.id = Mapped[k].id <=> k = j
      BY <1>4, <1>5, <2>2
    <3>2. \A x : x \in Hits(u, k) <=> x = p /\ k = j /\ files[j].state = o.from
      BY <1>4, <2>2, <3>1 DEF Hits
    <3> QED BY <3>2
  <2>9. (CHOOSE x \in {p} : TRUE) = p
    OBVIOUS
  <2>10. ASSUME NEW k \in Keys PROVE MapTable(also, born)[k] = AllPatched(u, h)[k]
    <3>1. CASE k \notin InUse(files)
      BY <1>4, <2>3, <2>7, <3>1 DEF AllPatched
    <3>2. CASE k = h
      BY <1>4, <2>3, <2>7, <3>2 DEF AllPatched
    <3>3. CASE k = j
      <4>1. Hits(u, k) = IF files[j].state = o.from THEN {p} ELSE {}
        BY <2>8, <3>3
      <4> QED BY <1>4, <2>3, <2>7, <2>9, <3>3, <4>1 DEF AllPatched
    <3>4. CASE k \in InUse(files) /\ k # j /\ k # h
      <4>1. Hits(u, k) = {}
        BY <2>8, <3>4
      <4> QED BY <1>4, <2>7, <3>4, <4>1 DEF AllPatched
    <3> QED BY <3>1, <3>2, <3>3, <3>4
  <2>11. /\ AllPatched(u, h) = [k \in Keys |-> AllPatched(u, h)[k]]
         /\ MapTable(also, born) = [k \in Keys |-> MapTable(also, born)[k]]
    BY DEF AllPatched, MapTable
  <2> QED BY <2>10, <2>11 DEF also, self
<1> QED BY <1>6, <1>7 DEF Twins

\* The row a step was decided on is there, and its number is no other row's.
LEMMA HeldIs ==
  ASSUME RefInv, held # Nobody
  PROVE  \E h \in InUse(files) :
            /\ h \in Keys /\ held.id = files[h].id /\ held.born = born[h]
            /\ Memory!KeyOf(Mapped, born[h]) = {h}
            /\ Holding.id = born[h] /\ Holding.from = held.from /\ Holding # Memory!Nobody
<1>1. PICK h \in InUse(files) : held.id = files[h].id /\ held.born = born[h]
  BY DEF RefInv, Kept, Alive
<1>2. /\ Memory!Stored(Mapped) = InUse(files) /\ h \in Keys /\ born[h] \in Nat \ {0}
      /\ \A k \in InUse(files) : Mapped[k].id = born[k] /\ born[k] \in Nat \ {0} /\ files[k].id \in Nat
  BY MappedRows DEF RefInv, WellFormed
<1>3. Order(files, born, births)
  BY RowsAre DEF RefInv
<1>4. ASSUME NEW k \in InUse(files), born[k] = born[h] PROVE k = h
  <2>1. /\ files[h].id < files[k].id <=> born[h] < born[k]
        /\ files[k].id < files[h].id <=> born[k] < born[h]
        /\ files[h].id = files[k].id => h = k
    BY <1>3 DEF Order
  <2> QED BY <1>2, <1>4, <2>1
<1>5. Memory!KeyOf(Mapped, born[h]) = {h}
  BY <1>2, <1>4 DEF Memory!KeyOf
<1>6. Holding.id = born[h] /\ Holding.from = held.from /\ Holding # Memory!Nobody
  BY <1>1, <1>2 DEF Holding, Memory!Nobody
<1> QED BY <1>1, <1>2, <1>5, <1>6

LEMMA ApplyTwins ==
  ASSUME RefInv, NEW h \in InUse(files), held.id = files[h].id, NEW t, NEW u, Twins(t, u)
  PROVE  Constraint(held.id, t.op) /\ ~Memory!Rejected(born[h], u.op)
<1>1. /\ OpTwins(files, t.op, u.op)
      /\ Rows(files, content_groups) /\ Order(files, born, births)
  BY RowsAre DEF RefInv, Twins
<1>2. DOMAIN Crowns = DOMAIN content_groups
  BY DEF Crowns
<1>3. \A k \in InUse(files) : k \in ById(files, files[k].id) /\ k \in Memory!KeyOf(Mapped, born[k])
  <2>1. /\ Memory!Stored(Mapped) = InUse(files)
        /\ \A k \in InUse(files) : Mapped[k].id = born[k]
    BY MappedRows DEF RefInv
  <2> QED BY <2>1 DEF ById, Memory!KeyOf
<1>4. CASE t.op.op = "create"
  <2>1. PICK k \in InUse(files) : t.op.file = files[k].id /\ u.op.file = born[k]
    BY <1>1, <1>4 DEF OpTwins
  <2>2. u.op.op = "create"
    BY <1>1, <1>4 DEF OpTwins
  <2>3. Memory!KeyOf(Mapped, born[h]) # {} /\ Memory!KeyOf(Mapped, u.op.file) # {}
    BY <1>3, <2>1
  <2>4. ~Memory!Rejected(born[h], u.op)
    BY <2>2, <2>3 DEF Memory!Rejected, Mapped
  <2>5. Constraint(held.id, t.op)
    BY <1>3, <1>4, <2>1 DEF Constraint
  <2> QED BY <2>4, <2>5
<1>5. CASE t.op.op = "none"
  BY <1>1, <1>5 DEF OpTwins, Constraint, Memory!Rejected
<1>6. CASE t.op.op \notin {"create", "none"}
  <2>1. u.op.op = t.op.op /\ t.op.group \in DOMAIN content_groups /\ u.op.group = t.op.group
    BY <1>1, <1>6 DEF OpTwins
  <2>2. u.op.group \in DOMAIN Crowns
    BY <1>2, <2>1
  <2> QED BY <1>6, <2>1, <2>2 DEF Constraint, Memory!Rejected, Crowns, Counted
<1> QED BY <1>4, <1>5, <1>6

\* Apply of the other store, on what this one maps to.
Applied(u) ==
  LET own     == Memory!KeyOf(Mapped, Holding.id)
      hits(k) == {o \in u.others : o.id = Mapped[k].id /\ o.from = Mapped[k].state}
      patched == [k \in Keys |->
        IF k \notin Memory!Stored(Mapped) THEN Mapped[k]
        ELSE IF k \in own THEN Memory!Patched(Mapped[k], u.to, u.patch)
        ELSE IF hits(k) = {} THEN Mapped[k]
        ELSE LET o == CHOOSE o \in hits(k) : TRUE IN Memory!Patched(Mapped[k], o.to, o.patch)]
  IN /\ Holding # Memory!Nobody /\ Holding' = Memory!Nobody
     /\ IF Memory!Rejected(Holding.id, u.op) THEN answer' = Memory!Fail /\ UNCHANGED <<Mapped, Crowns>>
        ELSE IF ~(\E k \in own : Mapped[k].state = Holding.from)
        THEN answer' = <<0>> /\ UNCHANGED <<Mapped, Crowns>>
        ELSE /\ Mapped' = Memory!Grouped(patched, Holding.id, u.op)
             /\ Crowns' = Memory!Regrouped(Holding.id, u.op)
             /\ answer' = <<1>>
     /\ UNCHANGED <<now, births, Phien>>

LEMMA AppliedIs == ASSUME NEW u, Applied(u) PROVE Memory!Apply(u)
BY Zenon DEF Applied, Memory!Apply, Memory!Ok, Mapped, Crowns, Counted, Phien, Holding

\* Apply, for every transition the two stores agree on.
LEMMA ApplyRefines ==
  ASSUME RefInv, SqlInv', NEW c, NEW t, StepOk(t), NEW u, Twins(t, u), Apply(c, t)
  PROVE  Applied(u) /\ Kept'
<1> DEFINE also == AlsoAll(CasUpdate(files, held.id, held.from, t.to, t.patch), t.others)
           db   == GroupOp([f |-> also, gs |-> content_groups], held.id, t.op)
           own  == Memory!KeyOf(Mapped, Holding.id)
           P    == [k \in Keys |->
             IF k \notin Memory!Stored(Mapped) THEN Mapped[k]
             ELSE IF k \in own THEN Memory!Patched(Mapped[k], u.to, u.patch)
             ELSE IF {o \in u.others : o.id = Mapped[k].id /\ o.from = Mapped[k].state} = {} THEN Mapped[k]
             ELSE LET o == CHOOSE o \in {o \in u.others : o.id = Mapped[k].id /\ o.from = Mapped[k].state} : TRUE
                  IN Memory!Patched(Mapped[k], o.to, o.patch)]
<1>1. /\ held # Nobody /\ held' = Nobody
      /\ IF ~Constraint(held.id, t.op) THEN answer' = << >> /\ UNCHANGED tables
         ELSE IF ~(CasHits(files, held.id, held.from) # {}) THEN answer' = <<0>> /\ UNCHANGED tables
         ELSE files' = db.f /\ content_groups' = db.gs /\ answer' = <<1>>
      /\ UNCHANGED <<now, seen, session, born, births>>
  BY Zenon DEF Apply, Commit, Ok
<1>2. PICK h \in InUse(files) :
            /\ h \in Keys /\ held.id = files[h].id /\ held.born = born[h]
            /\ Memory!KeyOf(Mapped, born[h]) = {h}
            /\ Holding.id = born[h] /\ Holding.from = held.from /\ Holding # Memory!Nobody
  BY <1>1, HeldIs
<1>3. /\ Rows(files, content_groups) /\ Order(files, born, births) /\ content_groups \in Groups
      /\ now \in Nat /\ Crowned(files, content_groups)
  BY RowsAre DEF RefInv, Kept
<1>4. Constraint(held.id, t.op) /\ ~Memory!Rejected(born[h], u.op)
  BY <1>2, ApplyTwins
<1>5. /\ own = {h} /\ Mapped[h].state = files[h].state
      /\ CasHits(files, held.id, held.from) = IF files[h].state = held.from THEN {h} ELSE {}
  <2>1. CasHits(files, files[h].id, held.from) = IF files[h].state = held.from THEN {h} ELSE {}
    BY <1>3, CasOnly
  <2>2. Mapped[h].state = files[h].state
    BY MappedRows DEF RefInv
  <2> QED BY <1>2, <2>1, <2>2
<1>6. Phien' = Phien /\ Holding' = Memory!Nobody /\ UNCHANGED <<now, births>>
  <2>1. Phien' = Phien
    BY <1>1, Unchanged
  <2>2. Holding' = Memory!Nobody
    BY <1>1 DEF Holding, Memory!Nobody, Nobody
  <2> QED BY <1>1, <2>1, <2>2
<1>7. P = AllPatched(u, h)
  <2> HIDE DEF own
  <2> QED BY <1>5 DEF AllPatched, Hits
<1> HIDE DEF own
<1>8. (\E k \in own : Mapped[k].state = Holding.from) <=> files[h].state = held.from
  BY <1>2, <1>5
<1>9. CASE files[h].state # held.from
  <2>1. answer' = <<0>> /\ UNCHANGED <<files, content_groups, born>>
    BY <1>1, <1>4, <1>5, <1>9 DEF tables
  <2>2. Mapped' = Mapped /\ Crowns' = Crowns
    BY <2>1, Unchanged
  <2>3. ~(\E k \in own : Mapped[k].state = Holding.from)
    BY <1>8, <1>9
  <2>4. ~Memory!Rejected(Holding.id, u.op)
    BY <1>2, <1>4
  <2>5. Applied(u)
    BY <1>2, <1>6, <2>1, <2>2, <2>3, <2>4, Zenon DEF Applied, own
  <2>6. Kept'
    BY <1>1, <1>3, <2>1 DEF Kept, Crowned, Alive, InUse, ById
  <2> QED BY <2>5, <2>6
<1>10. CASE files[h].state = held.from
  <2>1. files' = db.f /\ content_groups' = db.gs /\ answer' = <<1>>
    BY <1>1, <1>4, <1>5, <1>10
  <2>2. Edits(files, also, content_groups)
    BY PatchedEdits DEF RefInv
  <2>3. MapTable(also, born) = AllPatched(u, h)
    BY <1>2, <1>10, PatchedRefines
  <2> HIDE DEF also
  <2>4. Rows(also, content_groups) /\ Order(also, born, births) /\ InUse(also) = InUse(files)
    BY <1>3, <2>2, EditsKeep, EditsStay
  <2>5. h \in InUse(also) /\ also[h].id = held.id /\ \A k \in InUse(also) : also[k].id = files[k].id
    BY <1>2, <2>2, <2>4 DEF Edits
  <2>6. OpTwins(also, t.op, u.op)
    <3>1. OpTwins(files, t.op, u.op)
      BY DEF Twins
    <3> QED BY <2>4, <2>5, <3>1 DEF OpTwins
  <2>7. /\ MapGroups(content_groups, also, born) = MapGroups(content_groups, files, born)
        /\ Crowned(also, content_groups)
    <3>1. Stays(files, born, also, born)
      BY <2>2, EditsStays
    <3> QED BY <1>3, <2>4, <3>1, StaysMaps
  <2>8. Crowns = MapGroups(content_groups, also, born)
    BY <2>7, MapsAre
  <2>9. /\ MapTable(GroupOp([f |-> also, gs |-> content_groups], also[h].id, t.op).f, born)
             = Memory!Grouped(MapTable(also, born), born[h], u.op)
    BY <1>3, <2>4, <2>5, <2>6, GroupedRefines
  <2>10. /\ MapGroups(GroupOp([f |-> also, gs |-> content_groups], also[h].id, t.op).gs, also, born)
              = Memory!Regrouped(born[h], u.op)
         /\ Crowned(also, GroupOp([f |-> also, gs |-> content_groups], also[h].id, t.op).gs)
    BY <1>3, <2>4, <2>5, <2>6, <2>7, <2>8, RegroupedRefines
  <2>11. /\ MapTable(db.f, born) = Memory!Grouped(AllPatched(u, h), born[h], u.op)
         /\ MapGroups(db.gs, also, born) = Memory!Regrouped(born[h], u.op)
         /\ Crowned(also, db.gs)
    BY <2>3, <2>5, <2>9, <2>10
  <2>12. db.gs \in Groups /\ Edits(also, db.f, db.gs)
    <3>1. held.id \in Nat
      BY DEF RefInv, SqlInv, ClockInv
    <3>2. t.op.op \notin {"create", "none"} => t.op.group \in DOMAIN content_groups
      BY <2>6 DEF OpTwins
    <3> QED BY <1>3, <2>4, <3>1, <3>2, GroupOpIs DEF StepOk
  <2> HIDE DEF db
  <2>13. /\ MapGroups(db.gs, db.f, born) = MapGroups(db.gs, also, born) /\ Crowned(db.f, db.gs)
    <3>1. Stays(also, born, db.f, born)
      BY <2>12, EditsStays
    <3>2. Rows(db.f, db.gs) /\ Order(db.f, born, births)
      BY <2>4, <2>12, EditsKeep
    <3> QED BY <2>4, <2>11, <3>1, <3>2, StaysMaps
  <2>14. /\ Mapped' = Memory!Grouped(AllPatched(u, h), born[h], u.op)
         /\ Crowns' = Memory!Regrouped(born[h], u.op)
    BY <1>1, <2>1, <2>11, <2>13, MapsAre
  <2>15. Mapped' = Memory!Grouped(P, Holding.id, u.op) /\ Crowns' = Memory!Regrouped(Holding.id, u.op)
    BY <1>2, <1>7, <2>14
  <2>16. (\E k \in own : Mapped[k].state = Holding.from) /\ ~Memory!Rejected(Holding.id, u.op)
    BY <1>2, <1>4, <1>8, <1>10
  <2>17. Applied(u)
    BY <1>2, <1>6, <2>1, <2>15, <2>16, Zenon DEF Applied, own, P
  <2>18. Kept'
    <3>1. Crowned(files', content_groups') /\ Alive(held', files', born')
      BY <1>1, <2>1, <2>13 DEF Alive
    <3> QED BY <3>1 DEF Kept, Crowned, Alive, InUse, ById
  <2> QED BY <2>17, <2>18
<1> QED BY <1>9, <1>10

LEMMA LightRefines ==
  ASSUME RefInv, SqlInv', NEW fp, ApplyLight(fp)
  PROVE  \E t : call' = <<"apply", fp, t.to>> /\ Memory!ApplyLight(fp, t.to) /\ Kept'
<1>1. PICK t \in Memory!LightSteps(held.from, fp) : Apply(<<"apply", fp, t.to>>, t)
  BY DEF ApplyLight
<1>2. /\ StepOk(t) /\ t.others = {} /\ t.op = Memory!NoOp
  <2>1. StepOk(t)
    BY StepsOk DEF RefInv
  <2>2. t.others = {} /\ t.op = Memory!NoOp
    BY DEF Memory!LightSteps, Memory!Step
  <2> QED BY <2>1, <2>2
<1>3. Twins(t, t)
  <2>1. OpTwins(files, t.op, t.op)
    BY <1>2 DEF OpTwins, OpOk, Memory!NoOp
  <2> QED BY <1>2, <2>1 DEF Twins
<1>4. Memory!Apply(t) /\ Kept'
  BY <1>1, <1>2, <1>3, ApplyRefines, AppliedIs
<1>5. call' = <<"apply", fp, t.to>>
  BY <1>1, Zenon DEF Apply, Called
<1>6. t \in Memory!LightSteps(Holding.from, fp)
  BY DEF Holding
<1>7. Memory!ApplyLight(fp, t.to)
  BY <1>4, <1>6, Zenon DEF Memory!ApplyLight, Holding
<1> QED BY <1>4, <1>5, <1>7

LEMMA GroupRefines ==
  ASSUME RefInv, SqlInv', NEW g \in DOMAIN content_groups, ApplyGroup(g)
  PROVE  \E t : call' = <<"apply_group", g, t.to>> /\ Memory!ApplyGroup(g, t.to) /\ Kept'
<1>1. PICK t \in Memory!GroupSteps(held.from, held.id, g) : Apply(<<"apply_group", g, t.to>>, t)
  BY DEF ApplyGroup
<1>2. StepOk(t) /\ held.from \in {"sized", "hashed"}
  BY StepsOk DEF RefInv, ApplyGroup
<1>3. held # Nobody
  BY <1>1 DEF Apply
<1>4. PICK h \in InUse(files) :
            /\ held.id = files[h].id /\ held.born = born[h]
            /\ Holding.id = born[h] /\ Holding.from = held.from
  BY <1>3, HeldIs
<1>5. \E u \in Memory!GroupSteps(held.from, held.born, g) : u.to = t.to /\ Twins(t, u)
  <2>1. ASSUME NEW to, NEW p, NEW o, NEW v, t = [to |-> to, patch |-> p, others |-> {}, op |-> o],
               [to |-> to, patch |-> p, others |-> {}, op |-> v]
                 \in Memory!GroupSteps(held.from, held.born, g),
               v.op = o.op, o.op \in {"join", "verified", "leave", "set_canonical"},
               o.group = g, v.group = g,
               o.op = "set_canonical" => o.file = held.id /\ v.file = held.born
        PROVE  \E u \in Memory!GroupSteps(held.from, held.born, g) : u.to = t.to /\ Twins(t, u)
    <3> DEFINE u == [to |-> to, patch |-> p, others |-> {}, op |-> v]
    <3>1. u.to = t.to /\ u.patch = t.patch /\ t.others = {} /\ u.others = {} /\ t.op = o /\ u.op = v
      BY <2>1
    <3>2. OpOk(o)
      BY <1>2, <3>1 DEF StepOk
    <3>3. OpTwins(files, o, v)
      BY <1>4, <2>1, <3>2 DEF OpTwins
    <3>4. u \in Memory!GroupSteps(held.from, held.born, g)
      BY <2>1
    <3> HIDE DEF u
    <3> QED BY <3>1, <3>3, <3>4 DEF Twins
  <2>2. CASE held.from = "sized"
    <3>1. \A id : Memory!GroupSteps(held.from, id, g)
             = {[to |-> "hashed", patch |-> [known |-> TRUE, ready |-> now], others |-> {},
                 op |-> [op |-> "join", group |-> g]]}
      BY <2>2 DEF Memory!GroupSteps, Memory!With, Memory!Step
    <3> DEFINE o == [op |-> "join", group |-> g]
               p == [known |-> TRUE, ready |-> now]
    <3>2. /\ t = [to |-> "hashed", patch |-> p, others |-> {}, op |-> o]
          /\ [to |-> "hashed", patch |-> p, others |-> {}, op |-> o]
               \in Memory!GroupSteps(held.from, held.born, g)
      BY <3>1
    <3>3. o.op = o.op /\ o.op \in {"join", "verified", "leave", "set_canonical"} /\ o.op # "set_canonical"
          /\ o.group = g
      OBVIOUS
    <3> HIDE DEF o, p
    <3> QED BY <2>1, <3>2, <3>3
  <2>3. CASE held.from # "sized"
    <3> DEFINE check == [to |-> "verified", patch |-> [ready |-> 0], others |-> {},
                         op |-> [op |-> "verified", group |-> g]]
               leave == [to |-> "settling", patch |-> [known |-> FALSE, ready |-> now + 1],
                         others |-> {}, op |-> [op |-> "leave", group |-> g]]
               crown(id) == [to |-> "canonical", patch |-> [ready |-> 0], others |-> {},
                             op |-> [op |-> "set_canonical", group |-> g, file |-> id]]
    <3>1. \A id : Memory!GroupSteps(held.from, id, g) = {check, leave, crown(id)}
      <4>1. /\ Memory!With(Memory!Step("verified", [ready |-> 0]), [op |-> "verified", group |-> g]) = check
            /\ Memory!With(Memory!Step("settling", [known |-> FALSE, ready |-> now + 1]),
                           [op |-> "leave", group |-> g]) = leave
        <5>1. ASSUME NEW to, NEW patch, NEW op
              PROVE  Memory!With(Memory!Step(to, patch), op)
                       = [to |-> to, patch |-> patch, others |-> {}, op |-> op]
          <6> DEFINE step == [to |-> to, patch |-> patch, others |-> {}, op |-> Memory!NoOp]
          <6>1. Memory!With(Memory!Step(to, patch), op) = [step EXCEPT !.op = op]
            BY Zenon DEF Memory!With, Memory!Step
          <6> QED BY <6>1
        <5> QED BY <5>1
      <4>2. ASSUME NEW id
            PROVE  Memory!With(Memory!Step("canonical", [ready |-> 0]),
                               [op |-> "set_canonical", group |-> g, file |-> id]) = crown(id)
        <5> DEFINE op == [op |-> "set_canonical", group |-> g, file |-> id]
                   step == [to |-> "canonical", patch |-> [ready |-> 0], others |-> {}, op |-> Memory!NoOp]
        <5>1. Memory!With(Memory!Step("canonical", [ready |-> 0]), op) = [step EXCEPT !.op = op]
          BY Zenon DEF Memory!With, Memory!Step
        <5>2. [step EXCEPT !.op = op]
                = [to |-> "canonical", patch |-> [ready |-> 0], others |-> {}, op |-> op]
          <6> HIDE DEF op
          <6> QED OBVIOUS
        <5> QED BY <5>1, <5>2
      <4> HIDE DEF check, leave, crown
      <4> QED BY <2>3, <4>1, <4>2, Zenon DEF Memory!GroupSteps
    <3>2. ASSUME NEW to, NEW p, NEW o, t = [to |-> to, patch |-> p, others |-> {}, op |-> o],
                 t \in {check, leave}, o.op \in {"verified", "leave"}, o.group = g
          PROVE  \E u \in Memory!GroupSteps(held.from, held.born, g) : u.to = t.to /\ Twins(t, u)
      <4> HIDE DEF check, leave, crown
      <4>1. [to |-> to, patch |-> p, others |-> {}, op |-> o]
              \in Memory!GroupSteps(held.from, held.born, g)
        BY <3>1, <3>2
      <4>2. o.op = o.op /\ o.op \in {"join", "verified", "leave", "set_canonical"} /\ o.op # "set_canonical"
        BY <3>2
      <4> QED BY <2>1, <3>2, <4>1, <4>2
    <3>3. CASE t \in {check, leave}
      <4> DEFINE o1 == [op |-> "verified", group |-> g]
                 o2 == [op |-> "leave", group |-> g]
                 p1 == [ready |-> 0]
                 p2 == [known |-> FALSE, ready |-> now + 1]
      <4>1. \/ t = [to |-> "verified", patch |-> p1, others |-> {}, op |-> o1]
            \/ t = [to |-> "settling", patch |-> p2, others |-> {}, op |-> o2]
        BY <3>3
      <4>2. o1.op \in {"verified", "leave"} /\ o1.group = g /\ o2.op \in {"verified", "leave"} /\ o2.group = g
        OBVIOUS
      <4> HIDE DEF check, leave, crown, o1, o2, p1, p2
      <4> QED BY <3>2, <3>3, <4>1, <4>2
    <3>4. CASE t = [to |-> "canonical", patch |-> [ready |-> 0], others |-> {},
                    op |-> [op |-> "set_canonical", group |-> g, file |-> held.id]]
      <4> DEFINE o == [op |-> "set_canonical", group |-> g, file |-> held.id]
                 v == [op |-> "set_canonical", group |-> g, file |-> held.born]
                 p == [ready |-> 0]
      <4>1. [to |-> "canonical", patch |-> p, others |-> {}, op |-> v]
               \in Memory!GroupSteps(held.from, held.born, g)
        <5>1. crown(held.born) \in Memory!GroupSteps(held.from, held.born, g)
          <6> HIDE DEF crown
          <6> QED BY <3>1
        <5> QED BY <5>1
      <4>2. /\ v.op = o.op /\ o.op \in {"join", "verified", "leave", "set_canonical"}
            /\ o.group = g /\ v.group = g /\ (o.op = "set_canonical" => o.file = held.id /\ v.file = held.born)
        OBVIOUS
      <4>3. t = [to |-> "canonical", patch |-> p, others |-> {}, op |-> o]
        BY <3>4
      <4> HIDE DEF o, v, p
      <4> QED BY <2>1, <4>1, <4>2, <4>3
    <3>5. t \in {check, leave, crown(held.id)}
      <4> HIDE DEF check, leave, crown
      <4> QED BY <3>1
    <3> QED BY <3>3, <3>4, <3>5
  <2> QED BY <2>2, <2>3
<1>6. PICK u \in Memory!GroupSteps(held.from, held.born, g) : u.to = t.to /\ Twins(t, u)
  BY <1>5
<1>7. Memory!Apply(u) /\ Kept'
  BY <1>1, <1>2, <1>6, ApplyRefines, AppliedIs
<1>8. call' = <<"apply_group", g, t.to>>
  BY <1>1, Zenon DEF Apply, Called
<1>9. /\ u \in Memory!GroupSteps(Holding.from, Holding.id, g) /\ Holding.from \in {"sized", "hashed"}
  BY <1>2, <1>4, <1>6
<1>10. Memory!ApplyGroup(g, t.to)
  BY <1>6, <1>7, <1>9, Zenon DEF Memory!ApplyGroup, Holding
<1> QED BY <1>7, <1>8, <1>10

LEMMA PairRefines ==
  ASSUME RefInv, SqlInv', NEW k, NEW from, ApplyPair(k, from)
  PROVE  call' = <<"apply_pair", k, from>> /\ Memory!ApplyPair(k, from) /\ Kept'
<1> DEFINE t == Memory!PairStep(files[k].id, from)
           u == Memory!PairStep(Mapped[k].id, from)
           o == [id |-> files[k].id, from |-> from, to |-> "canonical", patch |-> [known |-> TRUE, ready |-> 0]]
           p == [id |-> Mapped[k].id, from |-> from, to |-> "canonical", patch |-> [known |-> TRUE, ready |-> 0]]
<1>1. /\ held.from = "sized" /\ k \in InUse(files) /\ files[k].id # held.id
      /\ Apply(<<"apply_pair", k, from>>, t)
  BY DEF ApplyPair
<1>2. /\ k \in Keys /\ files[k].id \in Nat /\ Memory!Stored(Mapped) = InUse(files)
      /\ Mapped[k].id = born[k]
  BY <1>1, MappedRows DEF RefInv, WellFormed
<1>3. StepOk(t)
  BY <1>2, StepsOk DEF RefInv
<1>4. held # Nobody
  BY <1>1 DEF Apply
<1>5. PICK h \in InUse(files) :
            /\ held.id = files[h].id /\ held.born = born[h]
            /\ Memory!KeyOf(Mapped, born[h]) = {h}
            /\ Holding.id = born[h] /\ Holding.from = held.from
  BY <1>4, HeldIs
<1>6. Mapped[k].id # Holding.id
  <2>1. k # h
    BY <1>1, <1>5
  <2> QED BY <1>1, <1>2, <1>5, <2>1 DEF Memory!KeyOf
<1>7. Twins(t, u)
  <2>1. /\ t = [to |-> "hashed", patch |-> [known |-> TRUE, ready |-> now], others |-> {o},
                op |-> [op |-> "create", file |-> files[k].id]]
        /\ u = [to |-> "hashed", patch |-> [known |-> TRUE, ready |-> now], others |-> {p},
                op |-> [op |-> "create", file |-> Mapped[k].id]]
    BY Zenon DEF Memory!PairStep
  <2>2. OpTwins(files, [op |-> "create", file |-> files[k].id], [op |-> "create", file |-> Mapped[k].id])
    BY <1>1, <1>2 DEF OpTwins, OpOk
  <2>3. o.id = files[k].id /\ p.id = born[k] /\ o.id # held.id /\ p.from = o.from /\ p.to = o.to /\ p.patch = o.patch
    BY <1>1, <1>2
  <2> HIDE DEF t, u, o, p
  <2>4. /\ u.to = t.to /\ u.patch = t.patch /\ OpTwins(files, t.op, u.op)
        /\ t.others = {o} /\ u.others = {p}
    BY <2>1, <2>2
  <2> QED BY <1>1, <2>3, <2>4 DEF Twins
<1>8. Applied(u) /\ Kept'
  <2> HIDE DEF t, u
  <2>1. PICK x, y : x = t /\ y = u
    OBVIOUS
  <2>2. StepOk(x) /\ Twins(x, y) /\ Apply(<<"apply_pair", k, from>>, x)
    BY <1>1, <1>3, <1>7, <2>1
  <2>3. Applied(y) /\ Kept'
    BY <2>2, ApplyRefines
  <2> QED BY <2>1, <2>3
<1>9. call' = <<"apply_pair", k, from>>
  BY <1>1, Zenon DEF Apply, Called
<1>10. Holding.from = "sized" /\ k \in Memory!Stored(Mapped)
  BY <1>1, <1>2, <1>5
<1>11. Memory!ApplyPair(k, from)
  BY <1>6, <1>8, <1>10, Zenon
  DEF Memory!ApplyPair, Applied, Memory!Apply, Memory!Ok, Mapped, Crowns, Counted, Phien, Holding
<1> QED BY <1>8, <1>9, <1>11

(* ------------------------------ the steps ------------------------------ *)

\* The other store makes the step of the call that was made.
LEMMA UpsertStep ==
  ASSUME RefInv, SqlInv', NEW s \in Sightings, NEW wait \in Waits, UpsertPending(s.key, s.fp, s.loc, wait)
  PROVE  Memory!Next /\ Kept'
<1>1. s.key \in Keys /\ IsLoc(s.loc) /\ wait \in Nat
  BY CallAssumption
<1>2. Memory!UpsertPending(s.key, s.fp, s.loc, wait) /\ Kept'
  BY <1>1, UpsertRefines
<1>3. call' = <<"upsert", s.key, s.fp, s.loc, wait>>
  BY Zenon DEF UpsertPending, Called
<1>4. call'[1] = "upsert" /\ call'[2] = s.key /\ call'[3] = s.fp /\ call'[4] = s.loc /\ call'[5] = wait
  BY <1>3
<1> QED BY <1>2, <1>4, Zenon DEF Memory!Next

LEMMA SightingSteps ==
  ASSUME RefInv, SqlInv', NEW s \in Sightings,
         \/ RestoreOrReset(s.key, s.fp) \/ MarkMissing(s.loc) \/ TakeFinished(s.loc)
         \/ Rename(s.key, s.loc)
  PROVE  Memory!Next /\ Kept'
<1>1. s.key \in Keys
  BY CallAssumption
<1>2. CASE RestoreOrReset(s.key, s.fp)
  <2>1. Memory!RestoreOrReset(s.key, s.fp) /\ Kept'
    BY <1>1, <1>2, RestoreRefines
  <2>2. call' = <<"restore", s.key, s.fp>>
    BY <1>2, Zenon DEF RestoreOrReset, Called
  <2>3. call'[1] = "restore" /\ call'[2] = s.key /\ call'[3] = s.fp
    BY <2>2
  <2> QED BY <2>1, <2>3, Zenon DEF Memory!Next
<1>3. CASE MarkMissing(s.loc)
  <2>1. Memory!MarkMissing(s.loc) /\ Kept'
    BY <1>3, MarkMissingRefines
  <2>2. call' = <<"mark_missing", s.loc>>
    BY <1>3, Zenon DEF MarkMissing, Called
  <2>3. call'[1] = "mark_missing" /\ call'[2] = s.loc
    BY <2>2
  <2> QED BY <2>1, <2>3, Zenon DEF Memory!Next
<1>4. CASE TakeFinished(s.loc)
  <2>1. Memory!TakeFinished(s.loc) /\ Kept'
    BY <1>4, TakesRefine
  <2>2. call' = <<"find_by_path", s.loc>>
    BY <1>4, Zenon DEF TakeFinished, Hold, Called
  <2>3. call'[1] = "find_by_path" /\ call'[2] = s.loc
    BY <2>2
  <2> QED BY <2>1, <2>3, Zenon DEF Memory!Next
<1>5. CASE Rename(s.key, s.loc)
  <2>1. Memory!Rename(s.key, s.loc) /\ Kept'
    BY <1>5, RenameRefines
  <2>2. call' = <<"rename", s.key, s.loc>>
    BY <1>5, Zenon DEF Rename, Called
  <2>3. call'[1] = "rename" /\ call'[2] = s.key /\ call'[3] = s.loc
    BY <2>2
  <2> QED BY <2>1, <2>3, Zenon DEF Memory!Next
<1> QED BY <1>2, <1>3, <1>4, <1>5

LEMMA BatchSteps ==
  ASSUME RefInv, SqlInv'
  PROVE  /\ \A batch \in ScanBatches : ScanInsert(batch) => Memory!Next /\ Kept'
         /\ \A batch \in SeenBatches : Once(batch) /\ PresenceSeen(batch) => Memory!Next /\ Kept'
<1>1. ASSUME NEW batch \in ScanBatches, ScanInsert(batch) PROVE Memory!Next /\ Kept'
  <2>1. Memory!ScanInsert(batch) /\ Kept'
    BY <1>1, ScanInsertRefines
  <2>2. call' = <<"scan_insert", batch>>
    BY <1>1, Zenon DEF ScanInsert, Called
  <2>3. call'[1] = "scan_insert" /\ call'[2] = batch
    BY <2>2
  <2> QED BY <2>1, <2>3, Zenon DEF Memory!Next
<1>2. ASSUME NEW batch \in SeenBatches, Once(batch), PresenceSeen(batch) PROVE Memory!Next /\ Kept'
  <2>1. Memory!PresenceSeen(batch) /\ Kept'
    BY <1>2, SeenRefines
  <2>2. call' = <<"presence_seen", batch>>
    BY <1>2, Zenon DEF PresenceSeen, Called
  <2>3. call'[1] = "presence_seen" /\ call'[2] = batch
    BY <2>2
  <2> QED BY <2>1, <2>3, Zenon DEF Memory!Next
<1> QED BY <1>1, <1>2

LEMMA RootSteps ==
  ASSUME RefInv, SqlInv', NEW r \in Roots,
         \/ ScanPhaseB(r) \/ PresenceBegin(r) \/ PresenceExpire(r)
         \/ \E scan_id \in 1..now : PresenceFinish(r, scan_id)
  PROVE  Memory!Next /\ Kept'
<1>1. CASE ScanPhaseB(r)
  <2>1. Memory!ScanPhaseB(r) /\ Kept'
    BY <1>1, ScanPhaseBRefines
  <2>2. call' = <<"scan_phase_b", r>>
    BY <1>1, Zenon DEF ScanPhaseB, Called
  <2>3. call'[1] = "scan_phase_b" /\ call'[2] = r
    BY <2>2
  <2> QED BY <2>1, <2>3, Zenon DEF Memory!Next
<1>2. CASE PresenceBegin(r)
  <2>1. Memory!PresenceBegin(r) /\ Kept'
    BY <1>2, BeginRefines
  <2>2. call' = <<"presence_begin", r>>
    BY <1>2, Zenon DEF PresenceBegin, Called
  <2>3. call'[1] = "presence_begin" /\ call'[2] = r
    BY <2>2
  <2> QED BY <2>1, <2>3, Zenon DEF Memory!Next
<1>3. CASE PresenceExpire(r)
  <2>1. Memory!PresenceExpire(r) /\ Kept'
    BY <1>3, PresenceExpireRefines
  <2>2. call' = <<"presence_expire", r>>
    BY <1>3, Zenon DEF PresenceExpire, Called
  <2>3. call'[1] = "presence_expire" /\ call'[2] = r
    BY <2>2
  <2> QED BY <2>1, <2>3, Zenon DEF Memory!Next
<1>4. ASSUME NEW scan_id \in 1..now, PresenceFinish(r, scan_id) PROVE Memory!Next /\ Kept'
  <2>1. Memory!PresenceFinish(r, scan_id) /\ Kept'
    BY <1>4, FinishRefines
  <2>2. call' = <<"presence_finish", r, scan_id>>
    BY <1>4, Zenon DEF PresenceFinish, Called
  <2>3. call'[1] = "presence_finish" /\ call'[2] = r /\ call'[3] = scan_id
    BY <2>2
  <2> QED BY <2>1, <2>3, Zenon DEF Memory!Next
<1> QED BY <1>1, <1>2, <1>3, <1>4

LEMMA PrefixSteps ==
  ASSUME RefInv, SqlInv'
  PROVE  /\ \A old, new \in Dirs : RenamePrefix(old, new) => Memory!Next /\ Kept'
         /\ \A dir \in Dirs : MarkMissingPrefix(dir) => Memory!Next /\ Kept'
         /\ \A allow \in Allowed : RequeueVerified(allow) => Memory!Next /\ Kept'
<1>1. ASSUME NEW old \in Dirs, NEW new \in Dirs, RenamePrefix(old, new) PROVE Memory!Next /\ Kept'
  <2>1. IsLoc(old) /\ IsLoc(new)
    BY CallAssumption
  <2>2. Memory!RenamePrefix(old, new) /\ Kept'
    BY <1>1, <2>1, RenamePrefixRefines
  <2>3. call' = <<"rename_prefix", old, new>>
    BY <1>1, Zenon DEF RenamePrefix, Called
  <2>4. call'[1] = "rename_prefix" /\ call'[2] = old /\ call'[3] = new
    BY <2>3
  <2> QED BY <2>2, <2>4, Zenon DEF Memory!Next
<1>2. ASSUME NEW dir \in Dirs, MarkMissingPrefix(dir) PROVE Memory!Next /\ Kept'
  <2>1. IsLoc(dir)
    BY CallAssumption
  <2>2. Memory!MarkMissingPrefix(dir) /\ Kept'
    BY <1>2, <2>1, MarkMissingPrefixRefines
  <2>3. call' = <<"mark_missing_prefix", dir>>
    BY <1>2, Zenon DEF MarkMissingPrefix, Called
  <2>4. call'[1] = "mark_missing_prefix" /\ call'[2] = dir
    BY <2>3
  <2> QED BY <2>2, <2>4, Zenon DEF Memory!Next
<1>3. ASSUME NEW allow \in Allowed, RequeueVerified(allow) PROVE Memory!Next /\ Kept'
  <2>1. Memory!RequeueVerified(allow) /\ Kept'
    BY <1>3, RequeueRefines
  <2>2. call' = <<"requeue_verified", allow>>
    BY <1>3, Zenon DEF RequeueVerified, Called
  <2>3. call'[1] = "requeue_verified" /\ call'[2] = allow
    BY <2>2
  <2> QED BY <2>1, <2>3, Zenon DEF Memory!Next
<1> QED BY <1>1, <1>2, <1>3

LEMMA WorkerSteps ==
  ASSUME RefInv, SqlInv'
  PROVE  /\ \A heavy \in BOOLEAN : Take(heavy) => Memory!Next /\ Kept'
         /\ \A fp : ApplyLight(fp) => Memory!Next /\ Kept'
         /\ \A g \in DOMAIN content_groups : ApplyGroup(g) => Memory!Next /\ Kept'
         /\ \A k, from : ApplyPair(k, from) => Memory!Next /\ Kept'
<1>1. ASSUME NEW heavy \in BOOLEAN, Take(heavy) PROVE Memory!Next /\ Kept'
  <2>1. Memory!Take(heavy) /\ Kept'
    BY <1>1, TakesRefine
  <2>2. call' = <<"next_ready", heavy>>
    BY <1>1, Zenon DEF Take, Hold, Called
  <2>3. call'[1] = "next_ready" /\ call'[2] = heavy
    BY <2>2
  <2> QED BY <2>1, <2>3, Zenon DEF Memory!Next
<1>2. ASSUME NEW fp, ApplyLight(fp) PROVE Memory!Next /\ Kept'
  <2>1. PICK t : call' = <<"apply", fp, t.to>> /\ Memory!ApplyLight(fp, t.to) /\ Kept'
    BY <1>2, LightRefines
  <2>2. call'[1] = "apply" /\ call'[2] = fp /\ call'[3] = t.to
    BY <2>1
  <2> QED BY <2>1, <2>2, Zenon DEF Memory!Next
<1>3. ASSUME NEW g \in DOMAIN content_groups, ApplyGroup(g) PROVE Memory!Next /\ Kept'
  <2>1. PICK t : call' = <<"apply_group", g, t.to>> /\ Memory!ApplyGroup(g, t.to) /\ Kept'
    BY <1>3, GroupRefines
  <2>2. call'[1] = "apply_group" /\ call'[2] = g /\ call'[3] = t.to
    BY <2>1
  <2> QED BY <2>1, <2>2, Zenon DEF Memory!Next
<1>4. ASSUME NEW k, NEW from, ApplyPair(k, from) PROVE Memory!Next /\ Kept'
  <2>1. call' = <<"apply_pair", k, from>> /\ Memory!ApplyPair(k, from) /\ Kept'
    BY <1>4, PairRefines
  <2>2. call'[1] = "apply_pair" /\ call'[2] = k /\ call'[3] = from
    BY <2>1
  <2> QED BY <2>1, <2>2, Zenon DEF Memory!Next
<1> QED BY <1>1, <1>2, <1>3, <1>4

LEMMA PlainSteps ==
  ASSUME RefInv, SqlInv', Hurried, PresenceAbort \/ ParkDomain \/ UnparkDomain \/ Purge \/ Tick
  PROVE  Memory!Next /\ Kept'
<1>1. CASE PresenceAbort
  <2>1. Memory!PresenceAbort /\ Kept'
    BY <1>1, AbortRefines
  <2>2. call'[1] = "presence_abort"
    BY <1>1 DEF PresenceAbort, Called
  <2> QED BY <2>1, <2>2, Zenon DEF Memory!Next
<1>2. CASE ParkDomain
  <2>1. Memory!ParkDomain /\ Kept'
    BY <1>2, ParkDomainRefines
  <2>2. call' = <<"park_domain">>
    BY <1>2, Zenon DEF ParkDomain, Called
  <2>3. call'[1] = "park_domain"
    BY <2>2
  <2> QED BY <2>1, <2>3, Zenon DEF Memory!Next
<1>3. CASE UnparkDomain
  <2>1. Memory!UnparkDomain /\ Kept'
    BY <1>3, UnparkDomainRefines
  <2>2. call' = <<"unpark_domain">>
    BY <1>3, Zenon DEF UnparkDomain, Called
  <2>3. call'[1] = "unpark_domain"
    BY <2>2
  <2> QED BY <2>1, <2>3, Zenon DEF Memory!Next
<1>4. CASE Purge
  <2>1. Memory!Purge /\ Kept'
    BY <1>4, PurgeRefines
  <2>2. call' = <<"purge">>
    BY <1>4, Zenon DEF Purge, Called
  <2>3. call'[1] = "purge"
    BY <2>2
  <2> QED BY <2>1, <2>3, Zenon DEF Memory!Next
<1>5. CASE Tick
  <2>1. Memory!Tick /\ Kept'
    BY <1>5, TickRefines
  <2>2. call' = <<"tick">>
    BY <1>5, Zenon DEF Tick, Called
  <2>3. call'[1] = "tick"
    BY <2>2
  <2> QED BY <2>1, <2>3, Zenon DEF Memory!Next
<1> QED BY <1>1, <1>2, <1>3, <1>4, <1>5

LEMMA StepRefines ==
  ASSUME RefInv, SqlInv', Hurried, \A batch \in SeenBatches : Once(batch), Next
  PROVE  Memory!Next /\ Kept'
<1> DEFINE Goal == Memory!Next /\ Kept'
<1>1. \A s \in Sightings : (\E wait \in Waits : UpsertPending(s.key, s.fp, s.loc, wait)) => Goal
  BY UpsertStep
<1>2. \A s \in Sightings : RestoreOrReset(s.key, s.fp) \/ MarkMissing(s.loc) \/ TakeFinished(s.loc)
                             \/ Rename(s.key, s.loc) => Goal
  BY SightingSteps
<1>3. /\ \A batch \in ScanBatches : ScanInsert(batch) => Goal
      /\ \A batch \in SeenBatches : PresenceSeen(batch) => Goal
  BY BatchSteps
<1>4. \A r \in Roots : \/ ScanPhaseB(r) \/ PresenceBegin(r) \/ PresenceExpire(r)
                       \/ \E scan_id \in 1..now : PresenceFinish(r, scan_id)
                       => Goal
  BY RootSteps
<1>5. /\ \A old, new \in Dirs : RenamePrefix(old, new) => Goal
      /\ \A dir \in Dirs : MarkMissingPrefix(dir) => Goal
      /\ \A allow \in Allowed : RequeueVerified(allow) => Goal
  BY PrefixSteps
<1>6. /\ \A heavy \in BOOLEAN : Take(heavy) => Goal
      /\ \A fp : ApplyLight(fp) => Goal
      /\ \A g \in DOMAIN content_groups : ApplyGroup(g) => Goal
      /\ \A k, from : ApplyPair(k, from) => Goal
  BY WorkerSteps
<1>7. PresenceAbort \/ ParkDomain \/ UnparkDomain \/ Purge \/ Tick => Goal
  BY PlainSteps
<1>8. Goal
  <2> HIDE DEF Goal
  <2> QED BY <1>1, <1>2, <1>3, <1>4, <1>5, <1>6, <1>7, Zenon DEF Next
<1> QED BY <1>8

LEMMA InitRefines == ASSUME Init PROVE RefInv /\ Memory!Init
<1>1. SqlInv
  BY InitHolds
<1>2. PICK s \in Starts : files = s.files /\ content_groups = s.groups
  BY DEF Init
<1>3. Crowned(files, content_groups)
  <2>1. StartOk(s.files, s.groups)
    BY TableAssumption
  <2> QED BY <1>2, <2>1 DEF StartOk, Crowned
<1>4. now = 1 /\ held = Nobody /\ session = {} /\ seen = {} /\ call = << >> /\ answer = << >>
  BY DEF Init
<1>5. RefInv
  BY <1>1, <1>3, <1>4 DEF RefInv, Kept, Alive
<1>6. \A k \in Keys : Mapped[k].id <= births
  <2> SUFFICES ASSUME NEW k \in Keys PROVE Mapped[k].id <= births
    OBVIOUS
  <2>1. Order(files, born, births)
    BY <1>1, RowsAre
  <2>2. CASE k \in InUse(files)
    <3>1. Mapped[k].id = born[k]
      BY <1>1, <2>2, MappedRows
    <3> QED BY <2>1, <2>2, <3>1 DEF Order
  <2>3. CASE k \notin InUse(files)
    <3>1. Mapped[k].id = 0
      BY <2>3 DEF Mapped, InUse, Absent, NULL
    <3> QED BY <2>1, <3>1 DEF Order
  <2> QED BY <2>2, <2>3
<1>7. Phien = Memory!NoSession /\ Holding = Memory!Nobody
  BY <1>4 DEF Phien, Holding, Nobody, Memory!NoSession, Memory!Nobody
<1>8. Memory!Init
  BY <1>4, <1>6, <1>7, Zenon DEF Memory!Init, Memory!Fail, Mapped, Phien, Holding
<1> QED BY <1>5, <1>8

LEMMA StutterRefines == ASSUME RefInv, UNCHANGED vars PROVE UNCHANGED Memory!vars /\ Kept'
<1>1. UNCHANGED <<now, files, content_groups, seen, session, held, born, births, call, answer>>
  BY DEF vars
<1>2. Mapped' = Mapped /\ Crowns' = Crowns /\ Phien' = Phien /\ Holding' = Holding /\ Kept'
  BY <1>1, Unchanged
<1> QED BY <1>1, <1>2, Zenon DEF Memory!vars, Mapped, Crowns, Counted, Phien, Holding

\* The SQL store implements the in-memory one: every call leaves the tables and
\* returns the answer MemoryRepository would, whatever the keys, the tables a
\* run starts from and the length of the run, when every step ends before the
\* row it holds is purged (Hurried) and no batch of a presence scan names a key
\* twice (sqlite_repo.rs, queue.rs, core/src/repo/memory/mod.rs:4).
THEOREM SqliteRefinesMemory ==
  (Hurried /\ \A batch \in SeenBatches : Once(batch)) => (Spec => ActsAsMemory)
<1> SUFFICES ASSUME Hurried, \A batch \in SeenBatches : Once(batch) PROVE Spec => ActsAsMemory
  OBVIOUS
<1>1. Init => SqlInv /\ RefInv /\ Memory!Init
  BY InitHolds, InitRefines
<1>2. SqlInv /\ [Next]_vars => SqlInv'
  BY StepKeeps, StutterKeeps
<1>3. RefInv /\ SqlInv' /\ [Next]_vars => RefInv' /\ [Memory!Next]_Memory!vars
  <2>1. ASSUME RefInv, SqlInv', Next PROVE RefInv' /\ Memory!Next
    <3>1. Memory!Next /\ Kept'
      BY <2>1, StepRefines
    <3> QED BY <2>1, <3>1 DEF RefInv
  <2>2. ASSUME RefInv, SqlInv', UNCHANGED vars PROVE RefInv' /\ UNCHANGED Memory!vars
    <3>1. UNCHANGED Memory!vars /\ Kept'
      BY <2>2, StutterRefines
    <3> QED BY <2>2, <3>1 DEF RefInv
  <2> QED BY <2>1, <2>2
<1>4. Spec => Memory!Init /\ [][Memory!Next]_Memory!vars
  BY <1>1, <1>2, <1>3, PTL DEF Spec
<1> QED BY <1>4 DEF ActsAsMemory, Memory!Spec
=============================================================================
