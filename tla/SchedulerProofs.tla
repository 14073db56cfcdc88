--------------------------- MODULE SchedulerProofs ---------------------------
(***************************************************************************)
(* Proofs about Scheduler, for any list of jobs, any periods, floor and    *)
(* lengths of the sleeps, any window, and passes of any length: the types, *)
(* one writer of scan_progress, the pace of the passes, and that no job    *)
(* that may run is slept over.                                             *)
(***************************************************************************)
EXTENDS Scheduler, TLAPS, WellFoundedInduction

\* A set of numbers that is not empty has a least one: the induction over the
\* list of jobs is made as a search for the least counterexample.
LEMMA LeastExists ==
  ASSUME NEW S \in SUBSET Nat, S # {}
  PROVE  \E n \in S : \A k \in S : n <= k
<1>1. IsWellFoundedOn(OpToRel(<, Nat), Nat)
  BY NatLessThanWellFounded
<1>2. PICK n \in S : \A k \in S : ~(<<k, n>> \in OpToRel(<, Nat))
  BY <1>1, WFMin
<1>3. ASSUME NEW k \in S, k < n PROVE FALSE
  <2>1. <<k, n>> \in Nat \X Nat /\ <<k, n>>[1] < <<k, n>>[2]
    BY <1>3
  <2>2. <<k, n>> \in OpToRel(<, Nat)
    BY <2>1, Zenon DEF OpToRel
  <2> QED BY <1>2, <1>3, <2>2, Zenon
<1>4. \A k \in S : n <= k
  BY <1>3
<1> QED BY <1>4

(* ------------------------- the list of a round ------------------------- *)

\* What DueJobs collects up to a place of the list of jobs.
Collects(among, n) ==
  /\ among \in Seq(JobSet)
  /\ {among[i] : i \in 1..Len(among)} = {Jobs[k] : k \in {k \in 1..n : Due(Jobs[k])}}
  /\ \A i, k \in 1..Len(among) : among[i] = among[k] => i = k

\* One job more, due or not.
LEMMA CollectsOneMore ==
  ASSUME NEW n \in Nat, n + 1 \in 1..Len(Jobs), NEW among, Collects(among, n)
  PROVE  Collects(IF Due(Jobs[n + 1]) THEN Append(among, Jobs[n + 1]) ELSE among, n + 1)
<1> DEFINE j == Jobs[n + 1]
<1>1. j \in JobSet
  BY DEF JobSet
<1>2. 1..(n + 1) = (1..n) \cup {n + 1}
  OBVIOUS
<1>3. CASE ~Due(j)
  <2>1. {k \in 1..n : Due(Jobs[k])} = {k \in 1..(n + 1) : Due(Jobs[k])}
    BY <1>2, <1>3
  <2> QED BY <1>3, <2>1 DEF Collects
<1>4. CASE Due(j)
  <2> DEFINE more == Append(among, j)
  <2>1. /\ more \in Seq(JobSet) /\ Len(more) = Len(among) + 1 /\ Len(among) \in Nat
        /\ \A i \in 1..Len(among) : more[i] = among[i]
        /\ more[Len(among) + 1] = j
    BY <1>1 DEF Collects
  <2>2. {k \in 1..(n + 1) : Due(Jobs[k])} = {k \in 1..n : Due(Jobs[k])} \cup {n + 1}
    BY <1>2, <1>4
  <2>3. \A i \in 1..Len(among) : among[i] # j
    <3>1. SUFFICES ASSUME NEW i \in 1..Len(among), among[i] = j PROVE FALSE
      OBVIOUS
    <3>2. j \in {Jobs[k] : k \in {k \in 1..n : Due(Jobs[k])}}
      <4>1. among[i] \in {among[m] : m \in 1..Len(among)}
        OBVIOUS
      <4> QED BY <3>1, <4>1, Zenon DEF Collects
    <3>3. PICK k \in 1..n : j = Jobs[k]
      BY <3>2
    <3>4. k \in 1..Len(Jobs) /\ Len(Jobs) \in Nat
      BY SchedulerAssumption
    <3> QED BY <3>3, <3>4, SchedulerAssumption
  <2> HIDE DEF more, j
  <2>4. {more[i] : i \in 1..Len(more)} = {among[i] : i \in 1..Len(among)} \cup {j}
    BY <2>1
  <2>5. {Jobs[k] : k \in {k \in 1..n : Due(Jobs[k])} \cup {n + 1}}
          = {Jobs[k] : k \in {k \in 1..n : Due(Jobs[k])}} \cup {j}
    BY DEF j
  <2>6. {more[i] : i \in 1..Len(more)} = {Jobs[k] : k \in {k \in 1..(n + 1) : Due(Jobs[k])}}
    BY <2>2, <2>4, <2>5 DEF Collects
  <2>7. \A i, k \in 1..Len(more) : more[i] = more[k] => i = k
    BY <2>1, <2>3 DEF Collects
  <2>8. Collects(more, n + 1)
    BY <2>1, <2>6, <2>7 DEF Collects
  <2> QED BY <1>4, <2>8 DEF more, j
<1> QED BY <1>3, <1>4

\* The jobs of a round are those that are due, each of them once.
LEMMA DueJobsCollects == Collects(DueJobs, Len(Jobs))
<1> DEFINE N == Len(Jobs)
           Body(g, i) == IF i = 0 THEN <<>>
                         ELSE IF Due(Jobs[i]) THEN Append(g[i - 1], Jobs[i]) ELSE g[i - 1]
           Unfolds(n) == \E g : g = [i \in 0..n |-> Body(g, i)]
           among[i \in 0..Len(Jobs)] ==
             IF i = 0 THEN <<>>
             ELSE IF Due(Jobs[i]) THEN Append(among[i - 1], Jobs[i]) ELSE among[i - 1]
<1>1. N \in Nat
  BY SchedulerAssumption
<1>2. Unfolds(N)
  <2>1. SUFFICES ASSUME ~Unfolds(N) PROVE FALSE
    OBVIOUS
  <2> DEFINE S == {n \in Nat : ~Unfolds(n)}
  <2>2. PICK n \in S : \A k \in S : n <= k
    <3>1. S # {} /\ S \in SUBSET Nat
      BY <1>1, <2>1
    <3> HIDE DEF S
    <3> QED BY <3>1, LeastExists
  <2>3. n # 0
    <3> DEFINE g == [i \in 0..0 |-> <<>>]
    <3>1. g = [i \in 0..0 |-> Body(g, i)]
      OBVIOUS
    <3>2. Unfolds(0)
      BY <3>1
    <3> QED BY <2>2, <3>2
  <2>4. Unfolds(n - 1)
    <3> HIDE DEF Unfolds
    <3>1. n \in Nat /\ n - 1 \in Nat /\ ~(n <= n - 1)
      BY <2>2, <2>3
    <3> QED BY <2>2, <3>1
  <2>5. PICK g : g = [i \in 0..(n - 1) |-> Body(g, i)]
    BY <2>4
  <2> DEFINE h == [i \in 0..n |-> IF i = n THEN Body(g, n) ELSE g[i]]
  <2>6. \A i \in 0..n : h[i] = Body(h, i)
    <3>1. TAKE i \in 0..n
    <3>2. CASE i = 0
      <4>0. n \in Nat
        BY <2>2
      <4>1. 0 \in 0..(n - 1) /\ 0 \in 0..n /\ 0 # n
        BY <2>3, <4>0
      <4>2. h[0] = g[0] /\ g[0] = <<>>
        BY <2>5, <4>1
      <4> QED BY <3>2, <4>2
    <3>3. CASE i # 0
      <4>1. i - 1 \in 0..(n - 1) /\ i - 1 \in 0..n /\ i - 1 # n
        BY <2>2, <3>3
      <4>2. h[i - 1] = g[i - 1]
        BY <4>1
      <4>3. CASE i = n
        BY <3>3, <4>2, <4>3
      <4>4. CASE i # n
        <5>1. i \in 0..(n - 1)
          BY <2>2, <4>4
        <5>2. h[i] = g[i] /\ g[i] = Body(g, i)
          BY <2>5, <4>4, <5>1
        <5> QED BY <3>3, <4>2, <5>2
      <4> QED BY <4>3, <4>4
    <3> QED BY <3>2, <3>3
  <2>7. h = [i \in 0..n |-> Body(h, i)]
    BY <2>6
  <2>8. Unfolds(n)
    BY <2>7
  <2> QED BY <2>2, <2>8
<1>3. among = [i \in 0..N |-> Body(among, i)]
  BY <1>2
<1> HIDE DEF among
<1>4. among[0] = <<>>
  BY <1>1, <1>3
<1>5. \A n \in 0..N : Collects(among[n], n)
  <2> DEFINE S == {n \in 0..N : ~Collects(among[n], n)}
  <2>1. SUFFICES ASSUME S # {} PROVE FALSE
    OBVIOUS
  <2>2. PICK n \in S : \A k \in S : n <= k
    <3>1. S \in SUBSET Nat
      BY <1>1
    <3> HIDE DEF S
    <3> QED BY <2>1, <3>1, LeastExists
  <2>3. Collects(<<>>, 0)
    BY DEF Collects
  <2>4. n # 0
    BY <1>4, <2>2, <2>3
  <2>5. /\ n - 1 \in 0..N /\ n - 1 \in Nat /\ n \in 0..N
        /\ (n - 1) + 1 = n /\ (n - 1) + 1 \in 1..Len(Jobs)
    BY <1>1, <2>2, <2>4
  <2>6. Collects(among[n - 1], n - 1)
    BY <2>2, <2>5
  <2>7. among[n] = IF Due(Jobs[n]) THEN Append(among[n - 1], Jobs[n]) ELSE among[n - 1]
    BY <1>3, <2>4, <2>5
  <2>8. Collects(among[n], n)
    BY <2>5, <2>6, <2>7, CollectsOneMore
  <2> QED BY <2>2, <2>8
<1>6. DueJobs = among[N]
  BY DEF DueJobs, among
<1> QED BY <1>1, <1>5, <1>6

(* ------------------------- the inductive invariant --------------------- *)

\* Every variable has its type, and an age is a date the code could write.
SchedType ==
  /\ clock \in 0..(Day - 1) /\ flag \in {"off", "on", "raised"}
  /\ age \in [JobSet -> Int]
  /\ \A j \in JobSet : age[j] = Never \/ age[j] \in (Period[j] - Floor)..Period[j] \cup 0..Period[j]
  /\ scan \in BOOLEAN /\ dirs \in BOOLEAN /\ held \in BOOLEAN
  /\ pass \in [job : Long \cup {"none", "extra"}, ticks : 0..PassMax]
  /\ nap \in Nat /\ owed \in [JobSet -> Nat] /\ rest \in [Long -> 0..Floor]

\* The jobs of a round, each once, and the new directories last.
OnRound(r) == {r[i] : i \in 1..Len(r)}

RoundLike(r) ==
  /\ r \in Seq(JobSet \cup {"extra"})
  /\ \A i \in 1..Len(r) : r[i] = "extra" <=> i = Len(r)
  /\ \A i, k \in 1..Len(r) : r[i] = r[k] => i = k

\* A pass is that of the first job of the round, and no round is slept through.
Walking ==
  /\ pass.job = "none" => pass = NoPass
  /\ pass # NoPass => round # <<>> /\ pass.job = Head(round)
  /\ round # <<>> => nap = 0

\* What a job has waited and what is left to sleep fit into one sleep; during a
\* round only the jobs that are still to come have waited.
OwedOK ==
  \A j \in JobSet :
    /\ owed[j] + nap <= MaxNap
    /\ owed[j] > 0 => ~Yields(j)
    /\ owed[j] > 0 /\ round # <<>> => j \in OnRound(round) /\ pass.job # j

\* A job that is due stays so until its turn, but a reconcile asked for by the
\* flag alone.
StillDue == \A j \in OnRound(round) \cap JobSet : j # "reconcile" => Elapsed(j)

\* A pass that ended within the floor has left a date, which makes the job due
\* no sooner than its period or the floor after it.
Dated ==
  \A j \in Long : rest[j] < Floor =>
    age[j] # Never /\ (age[j] <= rest[j] \/ age[j] <= Period[j] - Floor + rest[j])

IInv == SchedType /\ RoundLike(round) /\ Walking /\ OwedOK /\ StillDue /\ Dated /\ OneWriter

\* What the assumption says, in the form the steps need it.
LEMMA JobsAre ==
  /\ \A j \in JobSet : Period[j] \in Nat
  /\ Long \subseteq JobSet /\ Writers \subseteq Long
  /\ "reconcile" \in Writers /\ "presence" \in Writers
  /\ "none" \notin JobSet /\ "extra" \notin JobSet
  /\ MinNap \in Nat /\ Hold \in Nat /\ MaxNap \in Nat /\ Floor \in Nat /\ PassMax \in Nat
  /\ Day \in Nat /\ Day > 0 /\ MinNap <= Hold /\ Hold <= MaxNap /\ Floor > 0
  /\ Never \in Int /\ \A j \in JobSet : Never < Period[j] - Floor /\ Never < 0
BY SchedulerAssumption DEF Never

\* The thread never lies down for longer than the longest sleep.
LEMMA NapBounded ==
  ASSUME SchedType, NEW hold \in BOOLEAN
  PROVE  NapLength(hold) \in Nat /\ NapLength(hold) <= MaxNap
<1> DEFINE S == {Remaining(j) : j \in JobSet}
<1>1. \A j \in JobSet : Remaining(j) \in Nat
  BY JobsAre DEF SchedType, Remaining
<1>2. S \in SUBSET Nat /\ S # {}
  BY <1>1, JobsAre
<1> HIDE DEF S
<1>3. Min(S) \in Nat
  BY <1>2, LeastExists DEF Min
<1>4. Clamped(Min(S)) \in Nat /\ Clamped(Min(S)) <= MaxNap
  BY <1>3, JobsAre DEF Clamped
<1> QED BY <1>4, JobsAre DEF NapLength, S

\* A round without its first job.
LEMMA RoundShrinks ==
  ASSUME NEW r, RoundLike(r), r # <<>>
  PROVE  /\ RoundLike(Tail(r)) /\ Head(r) \in OnRound(r)
         /\ OnRound(Tail(r)) = OnRound(r) \ {Head(r)}
         /\ Head(r) = "extra" => OnRound(r) = {"extra"}
<1> DEFINE t == Tail(r)
           n == Len(r)
<1>1. /\ r \in Seq(JobSet \cup {"extra"}) /\ n \in Nat /\ n > 0
      /\ t \in Seq(JobSet \cup {"extra"}) /\ Len(t) = n - 1
      /\ \A i \in 1..(n - 1) : t[i] = r[i + 1]
      /\ Head(r) = r[1]
  BY DEF RoundLike
<1>2. /\ \A i \in 1..n : r[i] = "extra" <=> i = n
      /\ \A i, k \in 1..n : r[i] = r[k] => i = k
  BY DEF RoundLike
<1>3. OnRound(r) = {r[i] : i \in 1..n} /\ OnRound(t) = {t[i] : i \in 1..Len(t)}
  BY DEF OnRound
<1> HIDE DEF t, n
<1>4. \A i \in 1..(n - 1) : i + 1 \in 1..n /\ i + 1 # 1
  BY <1>1
<1>5. RoundLike(t)
  <2>1. \A i \in 1..(n - 1) : t[i] = "extra" <=> i = n - 1
    BY <1>1, <1>2, <1>4
  <2>2. ASSUME NEW i \in 1..(n - 1), NEW k \in 1..(n - 1), t[i] = t[k] PROVE i = k
    <3>1. r[i + 1] = r[k + 1]
      BY <1>1, <2>2
    <3>2. i + 1 = k + 1
      BY <1>2, <1>4, <3>1
    <3> QED BY <3>2
  <2> QED BY <1>1, <2>1, <2>2 DEF RoundLike
<1>6. Head(r) \in OnRound(r)
  BY <1>1, <1>3
<1>7. ASSUME NEW i \in 1..(n - 1) PROVE t[i] \in OnRound(r) \ {Head(r)}
  <2>1. t[i] = r[i + 1] /\ i + 1 \in 1..n /\ 1 \in 1..n /\ i + 1 # 1
    BY <1>1, <1>4
  <2>2. r[i + 1] # r[1]
    BY <1>2, <2>1
  <2> QED BY <1>1, <1>3, <2>1, <2>2
<1>8. ASSUME NEW j \in OnRound(r), j # Head(r) PROVE j \in OnRound(t)
  <2>1. PICK i \in 1..n : j = r[i]
    BY <1>3
  <2>2. i # 1 /\ i - 1 \in 1..(n - 1) /\ (i - 1) + 1 = i
    BY <1>1, <1>8, <2>1
  <2>3. t[i - 1] = j /\ i - 1 \in 1..Len(t)
    BY <1>1, <2>1, <2>2
  <2> QED BY <1>3, <2>3
<1>9. ASSUME Head(r) = "extra" PROVE OnRound(r) = {"extra"}
  <2>1. 1 \in 1..n
    BY <1>1
  <2>2. n = 1
    BY <1>1, <1>2, <1>9, <2>1
  <2> QED BY <1>1, <1>3, <1>9, <2>2
<1>10. OnRound(t) \subseteq OnRound(r) \ {Head(r)}
  BY <1>1, <1>3, <1>7
<1>11. OnRound(t) = OnRound(r) \ {Head(r)}
  BY <1>8, <1>10
<1>12. RoundLike(Tail(r)) /\ OnRound(Tail(r)) = OnRound(r) \ {Head(r)}
  BY <1>5, <1>11, Zenon DEF t
<1> QED BY <1>6, <1>9, <1>12

\* The round the thread wakes up to.
LEMMA RoundStarts ==
  /\ RoundLike(Append(DueJobs, "extra"))
  /\ OnRound(Append(DueJobs, "extra")) = {j \in JobSet : Due(j)} \cup {"extra"}
<1> DEFINE s == DueJobs
           r == Append(s, "extra")
<1>1. /\ s \in Seq(JobSet) /\ \A i, k \in 1..Len(s) : s[i] = s[k] => i = k
      /\ {s[i] : i \in 1..Len(s)} = {Jobs[k] : k \in {k \in 1..Len(Jobs) : Due(Jobs[k])}}
  BY DueJobsCollects DEF Collects
<1> HIDE DEF s
<1>2. /\ r \in Seq(JobSet \cup {"extra"}) /\ Len(r) = Len(s) + 1 /\ Len(s) \in Nat
      /\ \A i \in 1..Len(s) : r[i] = s[i] /\ s[i] \in JobSet /\ s[i] # "extra"
      /\ r[Len(s) + 1] = "extra"
  BY <1>1, JobsAre
<1> HIDE DEF r
<1>3. RoundLike(r)
  BY <1>1, <1>2 DEF RoundLike
<1>4. OnRound(r) = {s[i] : i \in 1..Len(s)} \cup {"extra"}
  BY <1>2 DEF OnRound
<1>5. {Jobs[k] : k \in {k \in 1..Len(Jobs) : Due(Jobs[k])}} = {j \in JobSet : Due(j)}
  BY DEF JobSet
<1>6. OnRound(r) = {j \in JobSet : Due(j)} \cup {"extra"}
  BY <1>1, <1>4, <1>5
<1> QED BY <1>3, <1>6 DEF r, s

(* ------------------------------- the steps ----------------------------- *)

\* Neither the time of day nor an age leaves its range, and a job that is due
\* by its date stays so.
LEMMA AgesOnly ==
  ASSUME SchedType, NEW j \in JobSet
  PROVE  /\ Older(j) \in Int
         /\ Older(j) = Never \/ Older(j) \in (Period[j] - Floor)..Period[j] \cup 0..Period[j]
         /\ age[j] # Never => Older(j) # Never /\ Older(j) <= age[j] + 1
         /\ Elapsed(j) => Older(j) = age[j]
<1>1. age[j] \in Int /\ Period[j] \in Nat /\ Floor \in Nat /\ Never \in Int
      /\ Never < Period[j] - Floor /\ Never < 0
  BY JobsAre DEF SchedType
<1>2. age[j] = Never \/ age[j] \in (Period[j] - Floor)..Period[j] \cup 0..Period[j]
  BY DEF SchedType
<1> QED BY <1>1, <1>2 DEF Older, Elapsed

LEMMA TickStep == IInv /\ Tick => IInv'
<1> SUFFICES ASSUME IInv, Tick PROVE IInv'
  OBVIOUS
<1> USE JobsAre DEF IInv
<1>1. SchedType'
  <2>1. clock' \in 0..(Day - 1)
    BY DEF Tick, SchedType
  <2>2. age' \in [JobSet -> Int]
        /\ \A j \in JobSet : age'[j] = Never
              \/ age'[j] \in (Period[j] - Floor)..Period[j] \cup 0..Period[j]
    BY AgesOnly DEF Tick
  <2>3. rest' \in [Long -> 0..Floor]
    <3>1. \A j \in Long : rest[j] \in 0..Floor
      BY DEF SchedType
    <3>2. \A j \in Long : (IF rest[j] < Floor THEN rest[j] + 1 ELSE rest[j]) \in 0..Floor
      BY <3>1
    <3> QED BY <3>2 DEF Tick
  <2>4. nap' \in Nat /\ pass' \in [job : Long \cup {"none", "extra"}, ticks : 0..PassMax]
    <3>1. CASE Asleep
      <4>1. nap' = nap - 1 /\ pass' = pass
        BY <3>1 DEF Tick
      <4>2. nap \in Nat /\ nap > 0
        BY <3>1 DEF SchedType, Asleep
      <4> QED BY <4>1, <4>2 DEF SchedType
    <3>2. CASE ~Asleep
      <4>1. pass.ticks + 1 \in 0..PassMax
        BY <3>2 DEF Tick, SchedType
      <4> QED BY <3>2, <4>1 DEF Tick, SchedType
    <3> QED BY <3>1, <3>2
  <2>5. owed' \in [JobSet -> Nat]
    <3>1. \A j \in JobSet : owed[j] \in Nat
      BY DEF SchedType
    <3> QED BY <3>1 DEF Tick
  <2> QED BY <2>1, <2>2, <2>3, <2>4, <2>5 DEF Tick, SchedType
<1>2. RoundLike(round)' /\ OnRound(round)' = OnRound(round)
  BY DEF Tick, RoundLike, OnRound
<1>3. Walking'
  <2>1. CASE Asleep
    BY <2>1 DEF Tick, Walking, Asleep, NoPass
  <2>2. CASE ~Asleep
    <3>1. pass'.job = pass.job /\ pass # NoPass
      BY <2>2 DEF Tick, SchedType
    <3>2. pass.job # "none"
      BY <3>1 DEF Walking
    <3> QED BY <2>2, <3>1, <3>2 DEF Tick, Walking, NoPass
  <2> QED BY <2>1, <2>2
<1>4. OwedOK'
  <2>1. CASE Asleep
    <3>1. \A j \in JobSet : owed'[j] = IF Due(j) /\ ~Yields(j) THEN owed[j] + 1 ELSE 0
      BY <2>1 DEF Tick
    <3>2. nap' = nap - 1 /\ nap \in Nat /\ nap > 0 /\ round' = <<>> /\ scan' = scan
      BY <2>1 DEF Tick, Asleep, SchedType
    <3>3. \A j \in JobSet : owed[j] \in Nat
      BY DEF SchedType
    <3>4. \A j \in JobSet : owed[j] + nap <= MaxNap /\ (Yields(j)' <=> Yields(j))
      BY <3>2 DEF OwedOK, Yields
    <3>5. SUFFICES ASSUME NEW j \in JobSet
                   PROVE  owed'[j] + nap' <= MaxNap /\ (owed'[j] > 0 => ~Yields(j)')
      BY <3>2 DEF OwedOK
    <3>6. CASE Due(j) /\ ~Yields(j)
      BY <3>1, <3>2, <3>3, <3>4, <3>6
    <3>7. CASE ~(Due(j) /\ ~Yields(j))
      <4>1. owed'[j] = 0 /\ nap <= MaxNap
        BY <3>1, <3>2, <3>3, <3>4, <3>7
      <4> QED BY <3>2, <4>1
    <3> QED BY <3>6, <3>7
  <2>2. CASE ~Asleep
    <3>1. \A j \in JobSet : owed'[j] = owed[j]
      BY <2>2 DEF Tick
    <3>2. nap' = nap /\ pass'.job = pass.job
      BY <2>2 DEF Tick, SchedType
    <3> QED BY <1>2, <3>1, <3>2 DEF OwedOK, Tick, Yields
  <2> QED BY <2>1, <2>2
<1>5. StillDue'
  <2>1. \A j \in JobSet : Elapsed(j) => Elapsed(j)'
    BY AgesOnly DEF Tick, Elapsed
  <2> QED BY <1>2, <2>1 DEF StillDue
<1>6. Dated'
  <2>1. SUFFICES ASSUME NEW j \in Long, rest'[j] < Floor
                 PROVE  /\ age'[j] # Never
                        /\ age'[j] <= rest'[j] \/ age'[j] <= Period[j] - Floor + rest'[j]
    BY DEF Dated
  <2>2. rest[j] \in Nat /\ rest[j] < Floor /\ rest'[j] = rest[j] + 1
    BY <2>1 DEF Tick, SchedType
  <2>3. age'[j] = Older(j) /\ j \in JobSet /\ age[j] \in Int /\ Period[j] \in Nat
    BY DEF Tick, SchedType
  <2>4. age[j] # Never /\ (age[j] <= rest[j] \/ age[j] <= Period[j] - Floor + rest[j])
    BY <2>2 DEF Dated
  <2> HIDE DEF IInv
  <2>5. age'[j] # Never /\ age'[j] \in Int /\ age'[j] <= age[j] + 1
    BY <2>3, <2>4, AgesOnly DEF IInv
  <2> QED BY <2>2, <2>3, <2>4, <2>5
<1>7. OneWriter'
  BY DEF Tick, OneWriter, SchedType, Asleep
<1> QED BY <1>1, <1>2, <1>3, <1>4, <1>5, <1>6, <1>7

LEMMA WakeStep == IInv /\ Wake => IInv'
<1> SUFFICES ASSUME IInv, Wake PROVE IInv'
  OBVIOUS
<1> USE JobsAre DEF IInv
<1>1. SchedType'
  BY DEF Wake, SchedType
<1>2. RoundLike(round)' /\ OnRound(round)' = {j \in JobSet : Due(j)} \cup {"extra"}
  BY RoundStarts DEF Wake
<1>3. Walking'
  BY DEF Wake, Awake, Walking, NoPass
<1>4. OwedOK'
  <2>1. pass.job = "none" /\ pass' = pass /\ nap' = nap /\ scan' = scan /\ nap \in Nat
    BY DEF Wake, Awake, NoPass, SchedType
  <2>2. \A j \in JobSet : owed'[j] = IF Due(j) THEN owed[j] ELSE 0
    BY DEF Wake
  <2>3. \A j \in JobSet : owed[j] \in Nat /\ j # "none"
    BY DEF SchedType
  <2> QED BY <1>2, <2>1, <2>2, <2>3 DEF OwedOK, Yields
<1>5. StillDue'
  <2>1. \A j \in JobSet : Elapsed(j)' <=> Elapsed(j)
    BY DEF Wake, Elapsed
  <2>2. \A j \in JobSet : Due(j) /\ j # "reconcile" => Elapsed(j)
    BY DEF Due
  <2> QED BY <1>2, <2>1, <2>2 DEF StillDue
<1>6. Dated' /\ OneWriter'
  BY DEF Wake, Dated, OneWriter
<1> QED BY <1>1, <1>2, <1>3, <1>4, <1>5, <1>6

\* The first job of the round is put off: it has waited for nothing it may do.
LEMMA PutOffStep == IInv /\ PutOff => IInv'
<1> SUFFICES ASSUME IInv, PutOff PROVE IInv'
  OBVIOUS
<1> USE JobsAre DEF IInv
<1>1. SchedType'
  BY DEF PutOff, SchedType
<1>2. /\ RoundLike(round)' /\ OnRound(round)' = OnRound(round) \ {Head(round)}
      /\ pass = NoPass /\ round # <<>> /\ Yields(Head(round))
  BY RoundShrinks DEF PutOff, InTurn
<1>3. Walking' /\ Dated' /\ OneWriter'
  BY <1>2 DEF PutOff, Walking, NoPass, Dated, OneWriter
<1>4. OwedOK'
  <2>1. \A j \in JobSet : owed[j] > 0 => j # Head(round) /\ j \in OnRound(round) /\ j # "none"
    BY <1>2 DEF OwedOK
  <2> QED BY <1>2, <2>1 DEF PutOff, OwedOK, Yields, NoPass
<1>5. StillDue'
  BY <1>2 DEF PutOff, StillDue, Elapsed
<1> QED BY <1>1, <1>2, <1>3, <1>4, <1>5

\* A short job is done and dated.
LEMMA RunShortStep == IInv /\ RunShort => IInv'
<1> SUFFICES ASSUME IInv, RunShort PROVE IInv'
  OBVIOUS
<1> USE JobsAre DEF IInv
<1> DEFINE h == Head(round)
<1>1. h \in JobSet /\ h \notin Long /\ 0 \in 0..Period[h]
  BY DEF RunShort
<1>2. /\ RoundLike(round)' /\ OnRound(round)' = OnRound(round) \ {h}
      /\ pass = NoPass /\ round # <<>>
  BY RoundShrinks DEF RunShort, InTurn
<1>3. /\ \A j \in JobSet : age'[j] = IF j = h THEN 0 ELSE age[j]
      /\ \A j \in JobSet : owed'[j] = IF j = h THEN 0 ELSE owed[j]
      /\ age' \in [JobSet -> Int] /\ owed' \in [JobSet -> Nat]
  BY <1>1 DEF RunShort, SchedType
<1> HIDE DEF h
<1>4. SchedType'
  BY <1>1, <1>3 DEF RunShort, SchedType
<1>5. Walking' /\ OneWriter'
  BY <1>2 DEF RunShort, Walking, NoPass, OneWriter
<1>6. OwedOK'
  BY <1>2, <1>3 DEF RunShort, SchedType, OwedOK, Yields, NoPass, Walking
<1>7. StillDue'
  BY <1>2, <1>3 DEF StillDue, Elapsed
<1>8. Dated'
  <2>1. \A j \in Long : age'[j] = age[j]
    BY <1>1, <1>3
  <2> QED BY <2>1 DEF RunShort, Dated
<1> QED BY <1>2, <1>4, <1>5, <1>6, <1>7, <1>8

\* A walk begins.
LEMMA StartPassStep == IInv /\ StartPass => IInv'
<1> SUFFICES ASSUME IInv, StartPass PROVE IInv'
  OBVIOUS
<1> USE JobsAre DEF IInv
<1> DEFINE h == Head(round)
<1>1. h \in Long /\ h \in JobSet /\ h # "none" /\ h # "extra" /\ ~Yields(h)
  BY DEF StartPass
<1>2. /\ \A j \in JobSet : owed'[j] = IF j = h THEN 0 ELSE owed[j]
      /\ owed' \in [JobSet -> Nat]
  BY <1>1 DEF StartPass, SchedType
<1>3. pass' = [job |-> h, ticks |-> 0] /\ round' = round /\ round # <<>> /\ pass = NoPass
      /\ nap' = nap /\ scan' = scan /\ age' = age /\ rest' = rest
  BY DEF StartPass, InTurn
<1>4. RoundLike(round)' /\ OnRound(round)' = OnRound(round)
  BY <1>3 DEF RoundLike, OnRound
<1>5. pass' \in [job : Long \cup {"none", "extra"}, ticks : 0..PassMax] /\ pass'.job = h
  BY <1>1, <1>3
<1>6. SchedType'
  BY <1>2, <1>5 DEF StartPass, SchedType
<1>7. Walking'
  BY <1>1, <1>3, <1>5 DEF Walking
<1> HIDE DEF h
<1>8. OwedOK'
  <2>1. SUFFICES ASSUME NEW j \in JobSet
                 PROVE  /\ owed'[j] + nap' <= MaxNap
                        /\ owed'[j] > 0 => ~Yields(j)' /\ j \in OnRound(round)' /\ pass'.job # j
    BY DEF OwedOK
  <2>2. /\ owed[j] + nap <= MaxNap /\ owed[j] \in Nat /\ nap \in Nat /\ MaxNap \in Nat
        /\ owed[j] > 0 => ~Yields(j) /\ j \in OnRound(round)
    BY <1>3 DEF OwedOK, SchedType
  <2>3. Yields(j)' <=> Yields(j)
    BY <1>3 DEF Yields
  <2> HIDE DEF IInv
  <2>4. CASE j = h
    <3>1. owed'[j] = 0 /\ nap' = nap
      BY <1>2, <1>3, <2>4
    <3> QED BY <2>2, <3>1
  <2>5. CASE j # h
    <3>1. owed'[j] = owed[j] /\ nap' = nap /\ pass'.job # j
      BY <1>2, <1>3, <1>5, <2>5
    <3> QED BY <1>4, <2>2, <2>3, <3>1
  <2> QED BY <2>4, <2>5
<1>9. StillDue' /\ Dated'
  BY <1>3, <1>4 DEF StillDue, Elapsed, Dated
<1>10. OneWriter'
  BY <1>1, <1>3, <1>5 DEF OneWriter, Yields
<1> QED BY <1>4, <1>6, <1>7, <1>8, <1>9, <1>10

\* A walk ends and is dated.
LEMMA EndPassStep == IInv /\ (\E concluded \in BOOLEAN : EndPass(concluded)) => IInv'
<1> SUFFICES ASSUME IInv, NEW concluded \in BOOLEAN, EndPass(concluded) PROVE IInv'
  OBVIOUS
<1> USE JobsAre DEF IInv
<1> DEFINE h == pass.job
           date == IF concluded THEN 0 ELSE Period[h] - Floor
<1>1. h \in Long /\ h \in JobSet /\ h = Head(round) /\ round # <<>>
  BY DEF EndPass, SchedType, Walking
<1>2. /\ RoundLike(round)' /\ OnRound(round)' = OnRound(round) \ {h}
  BY <1>1, RoundShrinks DEF EndPass
<1>3. /\ \A j \in JobSet : age'[j] = IF j = h THEN date ELSE age[j]
      /\ age' \in [JobSet -> Int]
  BY <1>1 DEF EndPass, SchedType, UndecidedAge
<1>4. /\ \A j \in Long : rest'[j] = IF j = h THEN 0 ELSE rest[j]
      /\ rest' \in [Long -> 0..Floor]
  BY <1>1 DEF EndPass, SchedType
<1>5. date \in (Period[h] - Floor)..Period[h] \cup 0..Period[h] /\ date # Never /\ date \in Int
      /\ (date <= 0 \/ date <= Period[h] - Floor + 0)
  BY <1>1
<1>6. pass' = NoPass /\ nap' = nap /\ owed' = owed /\ scan' = scan /\ pass'.job = "none"
  BY DEF EndPass, NoPass
<1>7. NoPass \in [job : Long \cup {"none", "extra"}, ticks : 0..PassMax]
  BY DEF NoPass
<1> HIDE DEF date, h
<1>8. SchedType'
  <2>1. flag' \in {"off", "on", "raised"} /\ held' \in BOOLEAN
    BY DEF EndPass, SchedType
  <2> QED BY <1>3, <1>4, <1>5, <1>6, <1>7, <2>1 DEF EndPass, SchedType
<1>9. Walking'
  BY <1>1, <1>6 DEF Walking, NoPass
<1>10. OwedOK'
  <2>1. \A j \in JobSet : owed[j] > 0 => j \in OnRound(round) /\ j # h /\ j # "none"
    BY <1>1 DEF OwedOK, h
  <2> QED BY <1>2, <1>6, <2>1 DEF OwedOK, Yields
<1>11. StillDue'
  BY <1>2, <1>3 DEF StillDue, Elapsed
<1>12. Dated'
  BY <1>3, <1>4, <1>5 DEF Dated
<1>13. OneWriter'
  BY <1>6 DEF OneWriter
<1> QED BY <1>2, <1>8, <1>9, <1>10, <1>11, <1>12, <1>13

\* The end of a round: nobody on it is left to wait, and the thread lies down.
LEMMA SleepStep ==
  ASSUME IInv, NEW hold \in BOOLEAN, Sleep(hold), dirs' \in BOOLEAN,
         round # <<>>, Head(round) = "extra"
  PROVE  IInv'
<1> USE JobsAre DEF IInv
<1>1. round' = <<>> /\ OnRound(round)' = {} /\ RoundLike(round)'
  BY DEF Sleep, OnRound, RoundLike
<1>2. nap' \in Nat /\ nap' <= MaxNap /\ pass' = NoPass /\ pass'.job = "none"
  BY NapBounded DEF Sleep, NoPass
<1>3. SchedType'
  <2>1. NoPass \in [job : Long \cup {"none", "extra"}, ticks : 0..PassMax]
    BY DEF NoPass
  <2> QED BY <1>2, <2>1 DEF Sleep, SchedType
<1>4. \A j \in JobSet : owed[j] = 0
  <2>1. OnRound(round) = {"extra"}
    BY RoundShrinks
  <2>2. \A j \in JobSet : owed[j] \in Nat /\ ~(owed[j] > 0)
    BY <2>1 DEF OwedOK, SchedType
  <2> QED BY <2>2
<1>5. OwedOK'
  <2>1. owed' = owed
    BY DEF Sleep
  <2> QED BY <1>1, <1>2, <1>4, <2>1 DEF OwedOK
<1>6. Walking' /\ StillDue' /\ Dated' /\ OneWriter'
  BY <1>1, <1>2 DEF Sleep, Walking, StillDue, Dated, OneWriter
<1> QED BY <1>1, <1>3, <1>5, <1>6

\* The walk of the new directories, and what the other threads do.
LEMMA ExtraStep == IInv /\ (StartExtra \/ EndExtra \/ NoExtra) => IInv'
<1> SUFFICES ASSUME IInv, StartExtra \/ EndExtra \/ NoExtra PROVE IInv'
  OBVIOUS
<1>1. CASE StartExtra
  <2> DEFINE p == [job |-> "extra", ticks |-> 0]
  <2>1. p \in [job : Long \cup {"none", "extra"}, ticks : 0..PassMax] /\ p.job = "extra"
    BY JobsAre
  <2>2. "extra" \notin JobSet /\ "extra" \notin Writers
    BY JobsAre
  <2>3. pass' = p /\ pass = NoPass /\ round' = round /\ round # <<>> /\ Head(round) = "extra"
    BY <1>1 DEF StartExtra, InTurn
  <2>4. RoundLike(round)' /\ OnRound(round)' = OnRound(round)
    BY <2>3 DEF RoundLike, OnRound, IInv
  <2> HIDE DEF p
  <2>5. SchedType'
    BY <1>1, <2>1, <2>3 DEF StartExtra, SchedType, IInv
  <2>6. Walking'
    BY <1>1, <2>1, <2>3 DEF StartExtra, Walking, IInv
  <2>7. OwedOK'
    BY <1>1, <2>1, <2>2, <2>3, <2>4 DEF StartExtra, OwedOK, Yields, IInv
  <2>8. StillDue' /\ Dated' /\ OneWriter'
    BY <1>1, <2>1, <2>2, <2>3, <2>4 DEF StartExtra, StillDue, Elapsed, Dated, OneWriter, IInv
  <2> QED BY <2>4, <2>5, <2>6, <2>7, <2>8 DEF IInv
<1>2. CASE EndExtra
  <2>1. Sleep(held) /\ dirs' = dirs /\ dirs \in BOOLEAN /\ held \in BOOLEAN
    BY <1>2 DEF EndExtra, IInv, SchedType
  <2>2. round # <<>> /\ Head(round) = "extra"
    BY <1>2 DEF EndExtra, NoPass, IInv, Walking
  <2> QED BY <2>1, <2>2, SleepStep
<1>3. CASE NoExtra
  <2>1. Sleep(held \/ dirs) /\ dirs' = dirs /\ dirs \in BOOLEAN /\ (held \/ dirs) \in BOOLEAN
    BY <1>3 DEF NoExtra, DirsWhileWaiting, IInv, SchedType
  <2>2. round # <<>> /\ Head(round) = "extra"
    BY <1>3 DEF NoExtra, InTurn
  <2> QED BY <2>1, <2>2, SleepStep
<1> QED BY <1>1, <1>2, <1>3

LEMMA OthersStep == IInv /\ (ScanEnds \/ Lose \/ NewDir \/ UNCHANGED vars) => IInv'
<1> SUFFICES ASSUME IInv, ScanEnds \/ Lose \/ NewDir \/ UNCHANGED vars PROVE IInv'
  OBVIOUS
<1>1. /\ clock' = clock /\ age' = age /\ round' = round /\ pass' = pass /\ held' = held
      /\ nap' = nap /\ owed' = owed /\ rest' = rest
      /\ scan' \in BOOLEAN /\ (scan' => scan) /\ dirs' \in BOOLEAN
      /\ flag' \in {"off", "on", "raised"}
  <2>1. CASE ScanEnds
    BY <2>1 DEF ScanEnds, IInv, SchedType
  <2>2. CASE Lose
    BY <2>2 DEF Lose, IInv, SchedType
  <2>3. CASE NewDir
    BY <2>3 DEF NewDir, IInv, SchedType
  <2>4. CASE UNCHANGED vars
    BY <2>4 DEF vars, IInv, SchedType
  <2> QED BY <2>1, <2>2, <2>3, <2>4
<1>2. SchedType' /\ RoundLike(round)' /\ OnRound(round)' = OnRound(round)
  BY <1>1 DEF SchedType, RoundLike, OnRound, IInv
<1>3. Walking' /\ StillDue' /\ Dated' /\ OneWriter'
  BY <1>1, <1>2 DEF Walking, StillDue, Elapsed, Dated, OneWriter, IInv
<1>4. OwedOK'
  BY <1>1, <1>2 DEF OwedOK, Yields, IInv
<1> QED BY <1>2, <1>3, <1>4 DEF IInv

LEMMA InitInv == Init => IInv
<1> SUFFICES ASSUME Init PROVE IInv
  OBVIOUS
<1> USE JobsAre DEF Init
<1>1. SchedType
  <2>1. \A j \in JobSet : age[j] \in {Never} \cup 0..Period[j]
    BY DEF FirstAge
  <2>2. NoPass \in [job : Long \cup {"none", "extra"}, ticks : 0..PassMax]
    BY DEF NoPass
  <2>3. age \in [JobSet -> Int]
    BY <2>1
  <2>4. \A j \in JobSet : age[j] = Never \/ age[j] \in (Period[j] - Floor)..Period[j] \cup 0..Period[j]
    BY <2>1
  <2>5. owed \in [JobSet -> Nat] /\ rest \in [Long -> 0..Floor]
    OBVIOUS
  <2> QED BY <2>2, <2>3, <2>4, <2>5 DEF SchedType
<1>2. RoundLike(round) /\ OnRound(round) = {}
  BY DEF RoundLike, OnRound
<1>3. Walking /\ StillDue /\ Dated /\ OneWriter
  BY <1>2 DEF Walking, StillDue, Dated, OneWriter, NoPass
<1>4. OwedOK
  BY <1>2 DEF OwedOK
<1> QED BY <1>1, <1>2, <1>3, <1>4 DEF IInv

LEMMA NextInv == IInv /\ [Next]_vars => IInv'
BY TickStep, WakeStep, PutOffStep, RunShortStep, StartPassStep, EndPassStep, ExtraStep,
   OthersStep DEF Next, Thread

LEMMA Invariant == Spec => []IInv
BY InitInv, NextInv, PTL DEF Spec

(* ------------------------------- theorems ------------------------------ *)

\* The variables of the scheduler keep their types: ages stay dates the code
\* can write, the tick count of a pass and the sleep their ranges (LanCuoi,
\* vong_viec, mot_vong).
THEOREM TypeCorrect == Spec => []TypeOK
<1>1. IInv => TypeOK
  BY JobsAre DEF IInv, SchedType, TypeOK
<1> QED BY <1>1, Invariant, PTL

\* A job that is due and may run is not slept over for longer than the longest
\* sleep, whatever made it due and however often it was put off (ngu_bao_lau,
\* HOAN_MS).
THEOREM DueJobsRun == Spec => []OnTime
<1>1. IInv => OnTime
  BY JobsAre DEF IInv, SchedType, OwedOK, OnTime
<1> QED BY <1>1, Invariant, PTL

\* No pass that writes scan_progress runs while the initial scan does (CoScan).
THEOREM WritersAlone == Spec => []OneWriter
BY Invariant, PTL DEF IInv

\* Two passes of a job are the floor apart, unless its period is shorter, also
\* when no pass ever concludes (ghi_moc).
THEOREM PassesArePaced == Spec => Paced
<1> DEFINE Apart == \A j \in Long \ {"reconcile"} :
                      pass'.job = j /\ pass = NoPass => rest[j] >= Floor \/ rest[j] >= Period[j]
<1>1. IInv /\ [Next]_vars => [Apart]_vars
  <2> SUFFICES ASSUME IInv, Next, NEW j \in Long \ {"reconcile"}, pass'.job = j, pass = NoPass
               PROVE  rest[j] >= Floor \/ rest[j] >= Period[j]
    BY DEF vars
  <2>1. j # "none" /\ j # "extra" /\ j \in JobSet
    BY JobsAre
  <2>2. pass.job = "none"
    BY DEF NoPass
  <2>3. StartPass /\ j = Head(round) /\ round # <<>>
    BY <2>1, <2>2 DEF Next, Thread, Tick, Wake, PutOff, RunShort, StartPass, StartExtra,
       EndExtra, NoExtra, Sleep, EndPass, ScanEnds, Lose, NewDir, InTurn, Asleep, NoPass
  <2>4. Elapsed(j)
    BY <2>1, <2>3, RoundShrinks DEF StillDue, IInv
  <2>5. rest[j] \in Nat /\ Period[j] \in Nat /\ Floor \in Nat /\ age[j] \in Int
    BY <2>1, JobsAre DEF IInv, SchedType
  <2> QED BY <2>4, <2>5 DEF IInv, Dated, Elapsed
<1> QED BY <1>1, Invariant, PTL DEF Spec, Paced
=============================================================================
