--------------------------- MODULE GovernorProofs ---------------------------
(***************************************************************************)
(* The rate of the bucket is kept, for every rate, every size of the       *)
(* bucket and of the requests, and however the threads that share it take  *)
(* turns.  RateKept is not inductive: the bucket is refilled only when     *)
(* somebody asks, so it has to be said what it would hold by now.          *)
(***************************************************************************)
EXTENDS Governor, TLAPS

\* What the bucket lacks by now, if it was refilled at this moment.
Lacking == Greatest(0, Burst - tokens - stale * Rate)

\* The numbers of the bucket.
Numbers == tokens \in 0..Burst /\ stale \in 0..Burst /\ meter \in Nat

\* What was granted and has not leaked is missing from the bucket.
Covered == meter <= Lacking

Bucket == Numbers /\ Covered

\* The bucket is full at first, and nothing was granted.
LEMMA InitBucket == ASSUME Init PROVE Bucket
BY GovernorAssumption DEF Init, Bucket, Numbers, Covered, Lacking, Greatest

\* A refill gives what the bucket lacks.
LEMMA RefillGives ==
  ASSUME Numbers PROVE Refilled \in 0..Burst /\ Refilled = Burst - Lacking
<1>1. stale * Rate \in Nat
  BY GovernorAssumption DEF Numbers
<1> QED BY <1>1, GovernorAssumption DEF Numbers, Refilled, Least, Lacking, Greatest

\* Whoever is granted tokens takes them, all that were asked for: nobody asks
\* for more than the bucket holds.
LEMMA TakingKeeps ==
  ASSUME Bucket, NEW asked \in 1..Burst, Taking(asked) PROVE Bucket'
<1>1. Wanted(asked) = asked
  BY GovernorAssumption DEF Wanted, Least
<1>2. Refilled \in 0..Burst /\ meter <= Burst - Refilled
  BY RefillGives, GovernorAssumption DEF Bucket, Covered, Numbers, Lacking, Greatest
<1>3. stale' = 0 /\ stale' * Rate = 0
  BY GovernorAssumption DEF Taking
<1>4. CASE Refilled >= asked
  <2>1. tokens' = Refilled - asked /\ meter' = meter + asked
    BY <1>1, <1>2, <1>4, GovernorAssumption DEF Taking, Try
  <2> QED BY <2>1, <1>2, <1>3, <1>4, GovernorAssumption
          DEF Bucket, Numbers, Covered, Lacking, Greatest
<1>5. CASE Refilled < asked
  <2>1. tokens' = Refilled /\ meter' = meter
    BY <1>1, <1>2, <1>5, GovernorAssumption DEF Taking, Try
  <2> QED BY <2>1, <1>2, <1>3, GovernorAssumption
          DEF Bucket, Numbers, Covered, Lacking, Greatest
<1> QED BY <1>2, <1>4, <1>5, GovernorAssumption

\* In a tick the meter leaks what a refill would add, until the bucket would
\* be full: after Burst ticks it is, for Rate is at least 1.
LEMMA TickKeeps == ASSUME Bucket, Tick PROVE Bucket'
<1>1. /\ tokens' = tokens /\ meter' = Greatest(0, meter - Rate)
      /\ stale' = IF stale + 1 <= Burst THEN stale + 1 ELSE Burst
  BY DEF Tick, Older, Least
<1>2. stale * Rate \in Nat /\ stale' * Rate \in Nat
  BY <1>1, GovernorAssumption DEF Bucket, Numbers
<1>3. CASE stale + 1 <= Burst
  <2>1. stale' * Rate = stale * Rate + Rate
    BY <1>1, <1>3, GovernorAssumption DEF Bucket, Numbers
  <2> QED BY <2>1, <1>1, <1>2, <1>3, GovernorAssumption
          DEF Bucket, Numbers, Covered, Lacking, Greatest
<1>4. CASE stale = Burst
  <2>1. Burst * Rate >= Burst
    BY GovernorAssumption
  <2>2. stale' = stale /\ Lacking = 0
    BY <2>1, <1>1, <1>2, <1>4, GovernorAssumption DEF Bucket, Numbers, Lacking, Greatest
  <2> QED BY <2>2, <1>1, <1>2, GovernorAssumption
          DEF Bucket, Numbers, Covered, Lacking, Greatest
<1> QED BY <1>3, <1>4, GovernorAssumption DEF Bucket, Numbers

\* Every step keeps the bucket in order; most do not touch it.
LEMMA NextBucket == ASSUME Bucket, [Next]_vars PROVE Bucket'
<1>1. {Block, Entry} \subseteq 1..Burst
  BY GovernorAssumption
<1>2. CASE Tick
  BY <1>2, TickKeeps
<1>3. CASE AskBlock
  BY <1>1, <1>3, TakingKeeps DEF AskBlock
<1>4. CASE AskEntry
  BY <1>1, <1>4, TakingKeeps DEF AskEntry
<1>5. CASE UNCHANGED bucket
  BY <1>5 DEF bucket, Bucket, Numbers, Covered, Lacking
<1>6. ChangeLoad \/ PauseOrResume \/ Stop \/ Sample \/ SampleFails => UNCHANGED bucket
  BY DEF ChangeLoad, PauseOrResume, Stop, Sample, SampleFails, bucket
<1>7. StartFile \/ Read \/ StartDir \/ KeepPace \/ GiveWay \/ NextEntry => UNCHANGED bucket
  BY DEF StartFile, Read, StartDir, KeepPace, GiveWay, Enter, NextEntry, bucket
<1> QED BY <1>2, <1>3, <1>4, <1>5, <1>6, <1>7 DEF Next, Worker, Walk, vars

\* The bucket is in order in every state of every behaviour.
THEOREM BucketInOrder == Spec => []Bucket
BY InitBucket, NextBucket, PTL DEF Spec

\* The daemon never reads more than Burst + n * Rate in n ticks, whoever
\* shares the bucket (TokenBucket.acquire, NasGovernor.acquire).
THEOREM RateIsKept == Spec => []RateKept
<1>1. Bucket => RateKept
  <2>1. ASSUME Bucket PROVE meter <= Burst
    <3>1. stale * Rate \in Nat
      BY <2>1, GovernorAssumption DEF Bucket, Numbers
    <3> QED BY <2>1, <3>1, GovernorAssumption
            DEF Bucket, Numbers, Covered, Lacking, Greatest
  <2> QED BY <2>1 DEF RateKept
<1> QED BY <1>1, BucketInOrder, PTL

(* ---------------------------- the detector ---------------------------- *)

\* The longest time between two samples, and what failures add to it so far.
Gap   == Interval + Jitter
Delay == errors * Gap

\* The clocks of the sampler and the detector.
Clocks ==
  /\ load \in Loads /\ load \in mixed /\ mixed \subseteq Loads /\ held \in Nat
  /\ sampler \in [age : 0..Gap, primed : BOOLEAN]
  /\ detector \in [paused : BOOLEAN, streak : {None} \cup Nat]
  /\ errors \in 0..MaxErrors
  /\ ~sampler.primed => "idle" \in mixed /\ ~detector.paused

\* How long load l has lasted, when samples of it speak against the state
\* paused = p and bring it down after w: until the next sample nothing is known
\* of it, the one after that begins a streak, and a streak that is long enough
\* ends with the first sample that sees it.
Noticed(l, p, w) ==
  load = l /\ ~told =>
    /\ mixed # {l} => held <= sampler.age + Delay
    /\ mixed = {l} /\ detector.paused = p /\ sampler.primed =>
         /\ detector.streak = None => held <= sampler.age + Gap + Delay
         /\ detector.streak # None /\ detector.streak < w =>
              held <= detector.streak + 2 * Gap + Delay
         /\ held < w + sampler.age + 2 * Gap + Delay

Watched ==
  Clocks /\ Noticed("idle", TRUE, IdleWindow) /\ Noticed("busy", FALSE, BusyWindow)

\* A load, what it speaks against, and how long it must do so.
Speaks(l, p, w) ==
  \/ l = "idle" /\ p = TRUE /\ w = IdleWindow
  \/ l = "busy" /\ p = FALSE /\ w = BusyWindow

\* The times are times.
LEMMA Times ==
  ASSUME Clocks
  PROVE  Gap \in Nat \ {0} /\ Delay \in Nat /\ sampler.age \in 0..Gap /\ errors \in Nat
<1>1. Gap \in Nat \ {0} /\ errors \in Nat
  BY GovernorAssumption DEF Gap, Clocks
<1>2. Delay \in Nat
  BY <1>1 DEF Delay
<1> QED BY <1>1, <1>2 DEF Clocks

\* A failure adds a gap.
LEMMA FailureDelays ==
  ASSUME Clocks, errors' = errors + 1 PROVE Delay' = Delay + Gap
<1>1. Gap \in Nat /\ errors \in Nat
  BY Times
<1>2. Gap' = Gap /\ Delay' = (errors + 1) * Gap
  BY DEF Gap, Delay
<1> QED BY <1>1, <1>2 DEF Delay

\* A sample that leaves the state it speaks against has a streak below the
\* window, and the state was the same before.
LEMMA FedStays ==
  ASSUME NEW d \in [paused : BOOLEAN, streak : {None} \cup Nat],
         NEW l, NEW p, NEW w, Speaks(l, p, w), Fed(d, l).paused = p
  PROVE  d.paused = p /\ Streak(d) < w /\ Fed(d, l).streak = Streak(d)
<1>1. Streak(d) \in Nat
  BY DEF Streak, None
<1>2. CASE l = "idle" /\ p = TRUE /\ w = IdleWindow
  <2>1. d.paused
    <3>1. ASSUME ~d.paused PROVE Fed(d, l).paused = d.paused
      BY <1>2, <3>1 DEF Fed, FedRunning
    <3> QED BY <3>1, <1>2
  <2>2. Fed(d, l) = IF Streak(d) >= IdleWindow THEN [paused |-> FALSE, streak |-> None]
                    ELSE [d EXCEPT !.streak = Streak(d)]
    BY <2>1, <1>2 DEF Fed, FedPaused
  <2>3. ASSUME Streak(d) >= IdleWindow PROVE FALSE
    <3>1. ~Fed(d, l).paused
      BY <2>1, <2>3, <1>2 DEF Fed, FedPaused
    <3>2. Fed(d, l).paused = TRUE
      BY <1>2
    <3> QED BY <3>1, <3>2
  <2> QED BY <2>1, <2>2, <2>3, <1>1, <1>2, GovernorAssumption
<1>3. CASE l = "busy" /\ p = FALSE /\ w = BusyWindow
  <2>1. ~d.paused
    <3>1. ASSUME d.paused PROVE Fed(d, l).paused = d.paused
      BY <1>3, <3>1 DEF Fed, FedPaused
    <3> QED BY <3>1, <1>3
  <2>2. Fed(d, l) = IF Streak(d) >= BusyWindow THEN [paused |-> TRUE, streak |-> None]
                    ELSE [d EXCEPT !.streak = Streak(d)]
    BY <2>1, <1>3 DEF Fed, FedRunning
  <2>3. ASSUME Streak(d) >= BusyWindow PROVE FALSE
    <3>1. Fed(d, l).paused
      BY <2>1, <2>3, <1>3 DEF Fed, FedRunning
    <3>2. Fed(d, l).paused = FALSE
      BY <1>3
    <3> QED BY <3>1, <3>2
  <2>4. d.paused = p
    BY <2>1, <1>3
  <2> QED BY <2>2, <2>3, <2>4, <1>1, <1>3, GovernorAssumption
<1> QED BY <1>2, <1>3 DEF Speaks

\* What the detector is fed has the type of a detector.
LEMMA FedType ==
  ASSUME NEW d \in [paused : BOOLEAN, streak : {None} \cup Nat], NEW l
  PROVE  Fed(d, l) \in [paused : BOOLEAN, streak : {None} \cup Nat]
BY DEF Fed, FedPaused, FedRunning, Streak, None

\* The clocks are in order at first.
LEMMA InitClocks == ASSUME Init PROVE Clocks
BY GovernorAssumption DEF Init, Clocks, Gap, Loads, None

\* Nothing has been noticed at first, and nothing had to be.
LEMMA InitNoticed ==
  ASSUME Init, NEW l, NEW p, NEW w, Speaks(l, p, w) PROVE Noticed(l, p, w)
<1>1. /\ Clocks /\ Gap \in Nat \ {0} /\ Delay \in Nat /\ sampler.age \in 0..Gap
      /\ load = "idle" /\ mixed = {"idle"} /\ held = 0 /\ detector.paused = FALSE
  BY InitClocks, Times DEF Init
<1> QED BY <1>1 DEF Noticed, Speaks

\* A tick, as long as nobody said stop: every clock goes on by one, up to the
\* longest that matters.
LEMMA ClocksGoOn ==
  ASSUME Clocks, Tick
  PROVE  /\ load' = load /\ mixed' = mixed /\ errors' = errors /\ told' = told
         /\ held' \in Nat /\ held' <= held + 1
         /\ sampler' \in [age : 0..Gap, primed : BOOLEAN] /\ sampler'.primed = sampler.primed
         /\ ~told => sampler'.age = sampler.age + 1
         /\ detector' \in [paused : BOOLEAN, streak : {None} \cup Nat]
         /\ detector'.paused = detector.paused
         /\ detector.streak = None <=> detector'.streak = None
         /\ \A w \in {BusyWindow, IdleWindow} :
              detector.streak # None /\ detector'.streak < w =>
                detector'.streak = detector.streak + 1
<1> DEFINE Most == Greatest(BusyWindow, IdleWindow)
<1>1. Gap \in Nat \ {0} /\ sampler.age \in 0..Gap
  BY Times
<1>2. Most \in Nat /\ BusyWindow <= Most /\ IdleWindow <= Most /\ Long \in Nat
  BY GovernorAssumption DEF Greatest, Long, Reaction, Release, Lateness
<1>3. /\ load' = load /\ mixed' = mixed /\ errors' = errors /\ told' = told
      /\ held' = (IF load = "some" THEN 0 ELSE Older(held, Long))
      /\ told \/ sampler.age < Gap
  BY DEF Tick, Gap
<1>4. /\ sampler' = [sampler EXCEPT !.age = Older(sampler.age, Gap)]
      /\ detector' = IF detector.streak = None THEN detector
                     ELSE [detector EXCEPT !.streak = Older(detector.streak, Most)]
  BY DEF Tick, Gap
<1>5. held' \in Nat /\ held' <= held + 1
  BY <1>2, <1>3 DEF Clocks, Older, Least
<1>6. /\ sampler' \in [age : 0..Gap, primed : BOOLEAN] /\ sampler'.primed = sampler.primed
      /\ ~told => sampler'.age = sampler.age + 1
  <2>1. Older(sampler.age, Gap) \in 0..Gap
    BY <1>1 DEF Older, Least
  <2>2. ~told => Older(sampler.age, Gap) = sampler.age + 1
    BY <1>1, <1>3 DEF Older, Least
  <2> QED BY <2>1, <2>2, <1>4 DEF Clocks
<1> HIDE DEF Most
<1>7. CASE detector.streak = None
  BY <1>3, <1>4, <1>5, <1>6, <1>7 DEF Clocks
<1>8. CASE detector.streak # None
  <2>1. detector.streak \in Nat
    BY <1>8 DEF Clocks
  <2>2. Older(detector.streak, Most) \in Nat
    BY <2>1, <1>2 DEF Older, Least
  <2>3. \A w \in {BusyWindow, IdleWindow} :
          Older(detector.streak, Most) < w => Older(detector.streak, Most) = detector.streak + 1
    BY <2>1, <1>2, GovernorAssumption DEF Older, Least
  <2>4. /\ detector' \in [paused : BOOLEAN, streak : {None} \cup Nat]
        /\ detector'.paused = detector.paused
        /\ detector'.streak = Older(detector.streak, Most)
    BY <2>2, <1>4, <1>8 DEF Clocks
  <2>5. detector'.streak # None
    BY <2>2, <2>4 DEF None
  <2> QED BY <2>3, <2>4, <2>5, <1>3, <1>5, <1>6, <1>8
<1> QED BY <1>7, <1>8

\* Every step keeps the clocks in order.
LEMMA NextClocks == ASSUME Clocks, [Next]_vars PROVE Clocks'
<1>1. Gap' = Gap /\ MaxErrors' = MaxErrors
  BY DEF Gap
<1>2. CASE Tick
  BY <1>2, <1>1, ClocksGoOn DEF Clocks
<1>3. CASE ChangeLoad
  BY <1>3, <1>1 DEF ChangeLoad, brakes, Clocks
<1>4. CASE Sample
  <2>1. /\ sampler' \in [age : 0..Gap, primed : BOOLEAN] /\ sampler'.primed = TRUE
        /\ load' = load /\ held' = held /\ mixed' = {load} /\ errors' = errors
    BY <1>4, Times DEF Sample
  <2>2. detector' \in [paused : BOOLEAN, streak : {None} \cup Nat]
    BY <1>4, FedType DEF Sample, Clocks
  <2> QED BY <2>1, <2>2, <1>1 DEF Clocks
<1>5. CASE SampleFails
  <2>1. /\ sampler' \in [age : 0..Gap, primed : BOOLEAN] /\ sampler'.primed = sampler.primed
        /\ load' = load /\ held' = held /\ mixed' = mixed /\ detector' = detector
        /\ errors' \in 0..MaxErrors
    BY <1>5, Times, GovernorAssumption DEF SampleFails, disk, Clocks
  <2> QED BY <2>1, <1>1 DEF Clocks
<1>6. CASE UNCHANGED <<disk, brakes>>
  BY <1>6, <1>1 DEF disk, brakes, Clocks
<1>7. PauseOrResume \/ Stop \/ StartFile \/ Worker \/ StartDir \/ Walk =>
        UNCHANGED <<disk, brakes>>
  BY DEF PauseOrResume, Stop, StartFile, Worker, AskBlock, Read, StartDir,
         Walk, KeepPace, GiveWay, NextEntry, AskEntry
<1> QED BY <1>2, <1>3, <1>4, <1>5, <1>6, <1>7 DEF Next, vars

\* A sample of a load that has lasted sees nothing else, and adds to the streak.
LEMMA SampleNotices ==
  ASSUME Clocks, NEW l, NEW p, NEW w, Speaks(l, p, w), Noticed(l, p, w), Sample
  PROVE  Noticed(l, p, w)'
<1> SUFFICES ASSUME load' = l, ~told', detector'.paused = p
    PROVE  /\ detector'.streak = None => held' <= sampler'.age + Gap' + Delay'
           /\ detector'.streak # None /\ detector'.streak < w =>
                held' <= detector'.streak + 2 * Gap' + Delay'
           /\ held' < w + sampler'.age + 2 * Gap' + Delay'
  BY DEF Noticed, Sample
<1>1. Gap \in Nat \ {0} /\ Delay \in Nat /\ sampler.age \in 0..Gap /\ held \in Nat
  BY Times DEF Clocks
<1>2. /\ load = l /\ ~told /\ held' = held /\ sampler'.age = 0
      /\ Gap' = Gap /\ Delay' = Delay
  BY DEF Sample, Gap, Delay
<1>3. w \in Nat \ {0}
  BY GovernorAssumption DEF Speaks
<1>4. detector' \in [paused : BOOLEAN, streak : {None} \cup Nat]
  BY NextClocks DEF Next, Clocks
<1>5. CASE mixed # {l}
  <2>1. held <= Gap + Delay
    BY <1>1, <1>2, <1>5 DEF Noticed
  <2> QED BY <2>1, <1>1, <1>2, <1>3, <1>4
<1>6. CASE mixed = {l} /\ ~sampler.primed
  <2>1. l = "idle" /\ p = TRUE
    BY <1>6 DEF Clocks, Speaks
  <2>2. detector' = detector /\ ~detector.paused
    BY <1>6 DEF Sample, Clocks
  <2> QED BY <2>1, <2>2
<1>7. CASE mixed = {l} /\ sampler.primed
  <2>1. PICK level \in Loads :
          /\ \E a, b \in mixed : Rank[a] <= Rank[level] /\ Rank[level] <= Rank[b]
          /\ detector' = Fed(detector, level)
    BY <1>7 DEF Sample
  <2>2. level = l
    BY <2>1, <1>7 DEF Speaks, Loads, Rank
  <2>3. /\ detector.paused = p /\ Streak(detector) < w
        /\ detector'.streak = Streak(detector)
    BY <2>1, <2>2, FedStays DEF Clocks
  <2>4. CASE detector.streak = None
    <3>1. held <= 2 * Gap + Delay /\ detector'.streak = 0
      BY <2>3, <2>4, <1>1, <1>2, <1>7 DEF Noticed, Streak
    <3> QED BY <3>1, <1>1, <1>2, <1>3 DEF None
  <2>5. CASE detector.streak # None
    <3>1. detector.streak \in Nat /\ detector'.streak = detector.streak
      BY <2>3, <2>5 DEF Streak, Clocks
    <3>2. held <= detector.streak + 2 * Gap + Delay
      BY <3>1, <2>3, <2>5, <1>2, <1>7 DEF Noticed
    <3> QED BY <3>1, <3>2, <2>3, <1>1, <1>2, <1>3 DEF None
  <2> QED BY <2>4, <2>5
<1> QED BY <1>5, <1>6, <1>7

\* What has been noticed stays so: a sample that comes too late, or fails,
\* costs its gap and no more.
LEMMA NextNoticed ==
  ASSUME Clocks, NEW l, NEW p, NEW w, Speaks(l, p, w), Noticed(l, p, w), [Next]_vars
  PROVE  Noticed(l, p, w)'
<1>1. Gap \in Nat \ {0} /\ Delay \in Nat /\ sampler.age \in 0..Gap /\ held \in Nat
  BY Times DEF Clocks
<1>2. w \in Nat \ {0} /\ Gap' = Gap
  BY GovernorAssumption DEF Speaks, Gap
<1>3. CASE ChangeLoad
  <2>1. /\ load' # load /\ held' = 0 /\ mixed' = mixed \cup {load'} /\ load \in mixed
        /\ sampler' = sampler /\ Delay' = Delay
    BY <1>3 DEF ChangeLoad, brakes, Clocks, Delay, Gap
  <2>2. load' = l => mixed' # {l}
    BY <2>1
  <2> QED BY <2>1, <2>2, <1>1, <1>2 DEF Noticed
<1>4. CASE Tick
  <2>1. told' = told /\ load' = load /\ mixed' = mixed /\ Delay' = Delay
    BY <1>4, ClocksGoOn DEF Delay, Gap
  <2>2. ASSUME load = l, ~told
        PROVE  /\ mixed # {l} => held' <= sampler'.age + Delay
               /\ mixed = {l} /\ detector'.paused = p /\ sampler'.primed =>
                    /\ detector'.streak = None => held' <= sampler'.age + Gap + Delay
                    /\ detector'.streak # None /\ detector'.streak < w =>
                         held' <= detector'.streak + 2 * Gap + Delay
                    /\ held' < w + sampler'.age + 2 * Gap + Delay
    <3>1. sampler'.age = sampler.age + 1 /\ held' \in Nat /\ held' <= held + 1
      BY <2>2, <1>4, ClocksGoOn
    <3>2. CASE mixed # {l}
      BY <3>1, <3>2, <2>2, <1>1, <1>2 DEF Noticed
    <3>3. CASE mixed = {l}
      <4> SUFFICES ASSUME detector'.paused = p, sampler'.primed
          PROVE  /\ detector'.streak = None => held' <= sampler'.age + Gap + Delay
                 /\ detector'.streak # None /\ detector'.streak < w =>
                      held' <= detector'.streak + 2 * Gap + Delay
                 /\ held' < w + sampler'.age + 2 * Gap + Delay
        BY <3>3
      <4>1. detector.paused = p /\ sampler.primed
        BY <1>4, ClocksGoOn
      <4>2. /\ detector.streak = None => held <= sampler.age + Gap + Delay
            /\ detector.streak # None /\ detector.streak < w =>
                 held <= detector.streak + 2 * Gap + Delay
            /\ held < w + sampler.age + 2 * Gap + Delay
        BY <4>1, <3>3, <2>2 DEF Noticed
      <4>3. detector'.streak = None => held' <= sampler'.age + Gap + Delay
        BY <4>2, <3>1, <1>1, <1>4, ClocksGoOn
      <4>4. ASSUME detector'.streak # None, detector'.streak < w
            PROVE  held' <= detector'.streak + 2 * Gap + Delay
        <5>1. detector.streak # None /\ detector'.streak = detector.streak + 1
          BY <4>4, <1>4, ClocksGoOn DEF Speaks
        <5>2. detector.streak \in Nat
          BY <5>1 DEF Clocks
        <5> QED BY <5>1, <5>2, <4>2, <4>4, <3>1, <1>1, <1>2
      <4>5. held' < w + sampler'.age + 2 * Gap + Delay
        BY <4>2, <3>1, <1>1, <1>2
      <4> QED BY <4>3, <4>4, <4>5
    <3> QED BY <3>2, <3>3
  <2>3. sampler'.age \in Nat
    BY <1>4, ClocksGoOn, <1>1
  <2> QED BY <2>1, <2>2, <2>3, <1>1, <1>2 DEF Noticed
<1>5. CASE Sample
  BY <1>5, SampleNotices
<1>6. CASE SampleFails
  <2>1. /\ load' = load /\ held' = held /\ mixed' = mixed /\ detector' = detector
        /\ told' = told /\ sampler'.age = 0 /\ sampler'.primed = sampler.primed
    BY <1>6 DEF SampleFails, disk, Clocks
  <2>2. Delay' = Delay + Gap
    BY <1>6, FailureDelays DEF SampleFails
  <2>3. detector.streak = None \/ detector.streak \in Nat
    BY DEF Clocks
  <2> QED BY <2>1, <2>2, <2>3, <1>1, <1>2 DEF Noticed
<1>7. CASE Stop
  BY <1>7 DEF Stop, Noticed
<1>8. CASE UNCHANGED <<disk, brakes, told>>
  BY <1>8 DEF disk, brakes, Noticed, Delay, Gap
<1>9. PauseOrResume \/ StartFile \/ Worker \/ StartDir \/ Walk =>
        UNCHANGED <<disk, brakes, told>>
  BY DEF PauseOrResume, StartFile, Worker, AskBlock, Read, StartDir,
         Walk, KeepPace, GiveWay, NextEntry, AskEntry
<1> QED BY <1>3, <1>4, <1>5, <1>6, <1>7, <1>8, <1>9 DEF Next, vars

\* The detector watches in every state of every behaviour.
THEOREM DetectorWatches == Spec => []Watched
<1>1. Speaks("idle", TRUE, IdleWindow) /\ Speaks("busy", FALSE, BusyWindow)
  BY DEF Speaks
<1>2. Init => Watched
  BY <1>1, InitClocks, InitNoticed DEF Watched
<1>3. Watched /\ [Next]_vars => Watched'
  <2>1. ASSUME Watched, [Next]_vars PROVE Clocks'
    BY <2>1, NextClocks DEF Watched
  <2>2. ASSUME Watched, [Next]_vars PROVE Noticed("idle", TRUE, IdleWindow)'
    BY <2>2, <1>1, NextNoticed DEF Watched
  <2>3. ASSUME Watched, [Next]_vars PROVE Noticed("busy", FALSE, BusyWindow)'
    BY <2>3, <1>1, NextNoticed DEF Watched
  <2> QED BY <2>1, <2>2, <2>3 DEF Watched
<1> QED BY <1>2, <1>3, PTL DEF Spec

\* What failed samples cost is bounded.
LEMMA DelayIsBounded ==
  ASSUME Clocks PROVE Delay <= MaxErrors * Gap /\ Lateness = 3 * Gap + MaxErrors * Gap
<1>1. Gap \in Nat /\ errors \in 0..MaxErrors /\ MaxErrors \in Nat
  BY Times, GovernorAssumption DEF Clocks
<1>2. errors * Gap <= MaxErrors * Gap
  BY <1>1
<1>3. Lateness = 3 * Gap + MaxErrors * Gap
  BY <1>1, GovernorAssumption DEF Lateness, Gap
<1> QED BY <1>2, <1>3 DEF Delay

\* A load that has lasted for the window and the lateness of the samples is one
\* the detector has seen.
LEMMA NoticedInTime ==
  ASSUME Clocks, NEW l, NEW p, NEW w, Speaks(l, p, w), Noticed(l, p, w),
         load = l, ~told, held >= w + Lateness
  PROVE  detector.paused # p
<1>1. /\ Gap \in Nat \ {0} /\ Delay \in Nat /\ sampler.age \in 0..Gap /\ held \in Nat
      /\ MaxErrors * Gap \in Nat
  BY Times, GovernorAssumption DEF Clocks
<1>2. w \in Nat \ {0}
  BY GovernorAssumption DEF Speaks
<1>3. held >= w + 3 * Gap + Delay
  BY <1>1, <1>2, DelayIsBounded
<1>4. mixed = {l}
  BY <1>1, <1>2, <1>3 DEF Noticed
<1>5. CASE sampler.primed
  BY <1>1, <1>2, <1>3, <1>4, <1>5 DEF Noticed
<1>6. CASE ~sampler.primed
  <2>1. l = "idle" /\ p = TRUE /\ ~detector.paused
    BY <1>4, <1>6 DEF Clocks, Speaks
  <2> QED BY <2>1
<1> QED BY <1>5, <1>6

\* The brake does not stick (busy.rs BoPhatHien.nap, mau_tai.rs): for every
\* window, every interval, and however many samples fail.
THEOREM BrakeIsReleased == Spec => []BrakeReleased
<1>1. Watched => BrakeReleased
  <2>1. ASSUME Watched, load = "idle", held >= Release, ~told, detector.paused PROVE FALSE
    <3>1. detector.paused # TRUE
      BY <2>1, NoticedInTime DEF Watched, Speaks, Release
    <3> QED BY <3>1, <2>1 DEF Watched, Clocks
  <2> QED BY <2>1 DEF BrakeReleased
<1> QED BY <1>1, DetectorWatches, PTL

\* The worker's record has its fields, and counts blocks.
AtWork == worker = [n \in {"pc", "left", "nap"} |-> worker[n]] /\ worker.left \in Int

\* Blocks are read one by one, and neither read nor begun under a brake.
LEMMA WorkerCounts ==
  ASSUME AtWork, [Next]_vars PROVE AtWork' /\ (Brake => ~(worker'.left < worker.left))
<1>1. CASE StartFile
  BY <1>1 DEF StartFile, AtWork
<1>2. CASE Tick
  <2>1. worker' = [worker EXCEPT !.nap = Greatest(0, worker.nap - 1)]
    BY <1>2 DEF Tick
  <2> QED BY <2>1 DEF AtWork
<1>3. CASE AskBlock
  <2>1. PICK pc, nap : worker' = [pc |-> pc, left |-> worker.left, nap |-> nap]
    BY <1>3 DEF AskBlock
  <2> QED BY <2>1 DEF AtWork
<1>4. CASE Read
  <2>1. CASE Brake
    <3>1. worker' = [worker EXCEPT !.pc = "off"]
      BY <1>4, <2>1 DEF Read
    <3> QED BY <3>1 DEF AtWork
  <2>2. CASE ~Brake
    <3>1. PICK next : worker' = [pc |-> next, left |-> worker.left - 1, nap |-> 0]
      BY <1>4, <2>2 DEF Read
    <3> QED BY <3>1, <2>2 DEF AtWork
  <2> QED BY <2>1, <2>2
<1>5. CASE UNCHANGED worker
  BY <1>5 DEF AtWork
<1>6. ChangeLoad \/ PauseOrResume \/ Stop \/ Sample \/ SampleFails \/ StartDir \/ Walk =>
        UNCHANGED worker
  BY DEF ChangeLoad, PauseOrResume, Stop, Sample, SampleFails, StartDir,
         Walk, KeepPace, GiveWay, NextEntry, AskEntry
<1> QED BY <1>1, <1>2, <1>3, <1>4, <1>5, <1>6 DEF Next, Worker, vars

\* Whoever watches a film has the disk to himself (vong_worker's
\* should_pause): no block is read once the disk has been busy for long.
THEOREM WorkerGivesWay == Spec => GivesWay
<1>1. Watched /\ AtWork /\ [Next]_vars =>
        [worker'.left < worker.left => told \/ ~(load = "busy" /\ held >= Reaction)]_vars
  <2> SUFFICES ASSUME Watched, AtWork, Next, worker'.left < worker.left,
                      ~told, load = "busy", held >= Reaction
      PROVE  FALSE
    OBVIOUS
  <2>1. ~Brake
    BY WorkerCounts
  <2>2. detector.paused # FALSE
    BY NoticedInTime DEF Watched, Speaks, Reaction
  <2> QED BY <2>1, <2>2 DEF Brake, Watched, Clocks
<1>2. Init => AtWork
  BY DEF Init, AtWork
<1>3. AtWork /\ [Next]_vars => AtWork'
  BY WorkerCounts
<1> QED BY <1>1, <1>2, <1>3, DetectorWatches, PTL DEF GivesWay, Spec

(* ------------------------------ the types ----------------------------- *)

\* The longest streak that matters.
MostStreak == Greatest(BusyWindow, IdleWindow)

\* The histories of the disk do not outgrow what they are compared with.
Histories == held \in 0..Long /\ detector.streak \in {None} \cup 0..MostStreak

\* A worker at a file has blocks left to read.
WorkerOK ==
  /\ worker \in [pc : {"off", "ask", "look"}, left : 0..MaxBlocks, nap : 0..MaxWait]
  /\ worker.pc # "off" => worker.left # 0

\* A walk that pays for an entry has one left.
WalkOK ==
  /\ walk \in [pc : {"off", "pace", "dir", "next", "ask"}, left : 0..MaxEntries,
               nap : 0..(Pace + MaxWait), waited : 0..Patience, since : 0..Pace]
  /\ walk.pc = "ask" => walk.left # 0

Hands == {hand, told} \subseteq BOOLEAN

LEMMA Lengths == MostStreak \in Nat \ {0} /\ Long \in Nat \ {0}
BY GovernorAssumption DEF MostStreak, Greatest, Long, Reaction, Release, Lateness

\* A clock that stops at most is between the two.
LEMMA OlderIsBounded ==
  ASSUME NEW most \in Nat, NEW age \in 0..most PROVE Older(age, most) \in 0..most
BY DEF Older, Least

\* Whoever is refused sleeps for MaxWait at most.
LEMMA NapIsBounded ==
  ASSUME Numbers, NEW asked \in 1..Burst
  PROVE  Try(asked).nap \in 0..MaxWait /\ Try(asked).granted \in BOOLEAN
<1> DEFINE missing == Wanted(asked) - Refilled
<1>1. missing \in Int
  BY RefillGives, GovernorAssumption DEF Wanted, Least
<1>2. CASE missing <= 0
  BY <1>2, GovernorAssumption DEF Try
<1>3. CASE ~(missing <= 0)
  <2>1. missing + Rate - 1 \in Nat /\ Rate \in Nat \ {0} /\ MaxWait \in Nat
    BY <1>1, <1>3, GovernorAssumption
  <2>2. (missing + Rate - 1) \div Rate \in Nat
    BY <2>1
  <2>3. Least((missing + Rate - 1) \div Rate, MaxWait) \in 0..MaxWait
    BY <2>1, <2>2 DEF Least
  <2>4. Try(asked) = [granted |-> FALSE, tokens |-> Refilled,
                      nap |-> Least((missing + Rate - 1) \div Rate, MaxWait)]
    BY <1>3 DEF Try
  <2> QED BY <2>3, <2>4
<1> QED BY <1>2, <1>3

\* The histories stay within their bounds.
LEMMA HistoriesStep == ASSUME Clocks, Histories, [Next]_vars PROVE Histories'
<1> USE Lengths
<1>1. Long' = Long /\ MostStreak' = MostStreak
  BY DEF Long, Reaction, Release, Lateness, MostStreak
<1>2. CASE Tick
  <2>1. held' = (IF load = "some" THEN 0 ELSE Older(held, Long))
    BY <1>2 DEF Tick
  <2>2. held' \in 0..Long
    BY <2>1, OlderIsBounded DEF Histories
  <2>3. detector' = IF detector.streak = None THEN detector
                    ELSE [detector EXCEPT !.streak = Older(detector.streak, MostStreak)]
    BY <1>2 DEF Tick, MostStreak
  <2>4. CASE detector.streak = None
    BY <1>1, <2>2, <2>3, <2>4 DEF Histories
  <2>5. CASE detector.streak # None
    <3>1. Older(detector.streak, MostStreak) \in 0..MostStreak
      BY <2>5, OlderIsBounded DEF Histories
    <3>2. detector'.streak = Older(detector.streak, MostStreak)
      BY <2>3, <2>5 DEF Clocks
    <3> QED BY <1>1, <2>2, <3>1, <3>2 DEF Histories
  <2> QED BY <2>4, <2>5
<1>3. CASE ChangeLoad
  BY <1>1, <1>3 DEF ChangeLoad, brakes, Histories
<1>4. CASE Sample
  <2>1. held' = held /\ (detector' = detector \/ \E level : detector' = Fed(detector, level))
    BY <1>4 DEF Sample
  <2>2. \A level : Fed(detector, level).streak \in {None, 0, detector.streak}
    BY DEF Fed, FedPaused, FedRunning, Streak, Clocks
  <2> QED BY <1>1, <2>1, <2>2 DEF Histories
<1>5. CASE UNCHANGED <<held, detector>>
  BY <1>1, <1>5 DEF Histories
<1>6. SampleFails \/ PauseOrResume \/ Stop \/ StartFile \/ Worker \/ StartDir \/ Walk \/ UNCHANGED vars
        => UNCHANGED <<held, detector>>
  BY DEF SampleFails, PauseOrResume, Stop, StartFile, Worker, AskBlock, Read, StartDir,
         Walk, KeepPace, GiveWay, NextEntry, AskEntry, vars, disk, brakes
<1> QED BY <1>2, <1>3, <1>4, <1>5, <1>6 DEF Next

\* The worker counts its blocks down, and sleeps as long as it was told.
LEMMA WorkerStep == ASSUME Numbers, WorkerOK, [Next]_vars PROVE WorkerOK'
<1> USE GovernorAssumption
<1>1. CASE UNCHANGED worker
  BY <1>1 DEF WorkerOK
<1>2. CASE Tick
  <2>1. worker' = [worker EXCEPT !.nap = Greatest(0, worker.nap - 1)]
    BY <1>2 DEF Tick
  <2>2. Greatest(0, worker.nap - 1) \in 0..MaxWait
    BY DEF Greatest, WorkerOK
  <2> QED BY <2>1, <2>2 DEF WorkerOK
<1>3. CASE StartFile
  BY <1>3 DEF StartFile, WorkerOK
<1>4. CASE AskBlock
  <2>1. Try(Block).nap \in 0..MaxWait
    BY NapIsBounded
  <2>2. worker.pc = "ask" /\ worker'.left = worker.left /\ worker'.nap = Try(Block).nap
        /\ worker' = [pc |-> IF Try(Block).granted THEN "look" ELSE "ask",
                      left |-> worker.left, nap |-> Try(Block).nap]
    BY <1>4 DEF AskBlock
  <2> QED BY <2>1, <2>2 DEF WorkerOK
<1>5. CASE Read
  <2>1. worker.left \in 1..MaxBlocks /\ worker.left - 1 \in 0..MaxBlocks
    BY <1>5 DEF Read, WorkerOK
  <2>2. CASE Brake
    BY <1>5, <2>2 DEF Read, WorkerOK
  <2>3. CASE ~Brake
    BY <1>5, <2>1, <2>3 DEF Read, WorkerOK
  <2> QED BY <2>2, <2>3
<1>6. ChangeLoad \/ PauseOrResume \/ Stop \/ Sample \/ SampleFails \/ StartDir \/ Walk
        \/ UNCHANGED vars => UNCHANGED worker
  BY DEF ChangeLoad, PauseOrResume, Stop, Sample, SampleFails, StartDir,
         Walk, KeepPace, GiveWay, NextEntry, AskEntry, vars
<1> QED BY <1>1, <1>2, <1>3, <1>4, <1>5, <1>6 DEF Next, Worker

\* So does a walk with its entries.
LEMMA WalkStep == ASSUME Numbers, WalkOK, [Next]_vars PROVE WalkOK'
<1> USE GovernorAssumption
<1>1. CASE UNCHANGED walk
  BY <1>1 DEF WalkOK
<1>2. CASE Tick
  <2> DEFINE late == IF walk.pc = "dir" THEN Older(walk.waited, Patience) ELSE 0
  <2>1. walk' = [walk EXCEPT !.nap = Greatest(0, walk.nap - 1), !.waited = late,
                             !.since = Older(walk.since, Pace)]
    BY <1>2 DEF Tick
  <2>2. Greatest(0, walk.nap - 1) \in 0..(Pace + MaxWait)
    BY DEF Greatest, WalkOK
  <2>3. late \in 0..Patience /\ Older(walk.since, Pace) \in 0..Pace
    BY OlderIsBounded DEF WalkOK
  <2> HIDE DEF late
  <2> QED BY <2>1, <2>2, <2>3 DEF WalkOK
<1>3. CASE StartDir
  <2>1. PICK rest \in {Pace - walk.since, 0} : walk' = [walk EXCEPT !.pc = "pace", !.nap = rest]
    BY <1>3 DEF StartDir
  <2>2. rest \in 0..(Pace + MaxWait)
    BY DEF WalkOK
  <2> QED BY <2>1, <2>2 DEF WalkOK
<1>8. CASE KeepPace
  <2>1. walk' = [walk EXCEPT !.pc = "dir", !.waited = 0]
    BY <1>8 DEF KeepPace
  <2>2. 0 \in 0..Patience
    OBVIOUS
  <2> QED BY <2>1, <2>2 DEF WalkOK
<1>4. CASE GiveWay
  <2>1. \/ walk' = [walk EXCEPT !.nap = 1]
        \/ \E n \in 0..MaxEntries :
             walk' = [walk EXCEPT !.pc = "next", !.left = n, !.waited = 0, !.since = 0]
    <3>1. CASE Brake /\ ~told /\ walk.waited < Patience
      BY <1>4, <3>1 DEF GiveWay
    <3>2. CASE ~(Brake /\ ~told /\ walk.waited < Patience)
      BY <1>4, <3>2, Zenon DEF GiveWay, Enter
    <3> QED BY <3>1, <3>2
  <2>2. 1 \in 0..(Pace + MaxWait) /\ 0 \in 0..Patience /\ 0 \in 0..Pace
    OBVIOUS
  <2> QED BY <2>1, <2>2 DEF WalkOK
<1>5. CASE NextEntry
  BY <1>5 DEF NextEntry, WalkOK
<1>6. CASE AskEntry
  <2>1. walk.pc = "ask" /\ walk.left - 1 \in 0..MaxEntries
    BY <1>6 DEF AskEntry, WalkOK
  <2>2. Try(Entry).nap \in 0..(Pace + MaxWait)
    <3>1. Try(Entry).nap \in 0..MaxWait
      BY NapIsBounded
    <3> QED BY <3>1
  <2>3. \/ walk' = [walk EXCEPT !.pc = "next", !.left = walk.left - 1]
        \/ walk' = [walk EXCEPT !.nap = Try(Entry).nap]
    BY <1>6 DEF AskEntry
  <2> QED BY <2>1, <2>2, <2>3 DEF WalkOK
<1>7. ChangeLoad \/ PauseOrResume \/ Stop \/ Sample \/ SampleFails \/ StartFile \/ Worker
        \/ UNCHANGED vars => UNCHANGED walk
  BY DEF ChangeLoad, PauseOrResume, Stop, Sample, SampleFails, StartFile, Worker, AskBlock, Read,
         vars
<1> QED BY <1>1, <1>2, <1>3, <1>4, <1>5, <1>6, <1>7, <1>8 DEF Next, Walk

\* Every variable keeps its type: no counter runs below zero, no clock past the
\* longest time that matters, and nobody sleeps for longer than MaxWait after
\* the pace between two directories (TokenBucket.try_take, di_bo).
THEOREM TypeCorrect == Spec => []TypeOK
<1> DEFINE Types == Bucket /\ Clocks /\ Histories /\ WorkerOK /\ WalkOK /\ Hands
<1>1. Init => Types
  <2> SUFFICES ASSUME Init PROVE Types OBVIOUS
  <2>1. Histories
    BY Lengths, GovernorAssumption DEF Init, Histories
  <2>2. 0 \in 0..MaxBlocks /\ 0 \in 0..MaxWait
    BY GovernorAssumption
  <2>3. 0 \in 0..MaxEntries /\ 0 \in 0..(Pace + MaxWait) /\ 0 \in 0..Patience
        /\ Pace \in 0..Pace
    BY GovernorAssumption
  <2>4. WorkerOK
    BY <2>2 DEF Init, WorkerOK
  <2>5. WalkOK
    BY <2>3 DEF Init, WalkOK
  <2>6. Hands
    BY DEF Init, Hands
  <2> QED BY <2>1, <2>4, <2>5, <2>6, InitBucket, InitClocks
<1>2. Types /\ [Next]_vars => Types'
  <2> SUFFICES ASSUME Types, [Next]_vars PROVE Types' OBVIOUS
  <2>1. Bucket' /\ Clocks'
    BY NextBucket, NextClocks
  <2>2. Histories' /\ WorkerOK' /\ WalkOK'
    BY HistoriesStep, WorkerStep, WalkStep DEF Bucket
  <2>3. Hands'
    BY DEF Hands, Next, ChangeLoad, Tick, PauseOrResume, Stop, Sample, SampleFails, StartFile,
           Worker, AskBlock, Read, StartDir, Walk, KeepPace, GiveWay, NextEntry, AskEntry, vars
  <2> QED BY <2>1, <2>2, <2>3
<1>3. Types => TypeOK
  BY DEF Bucket, Numbers, Clocks, Histories, WorkerOK, WalkOK, Hands, TypeOK, Gap, MostStreak
<1> HIDE DEF Types
<1> QED BY <1>1, <1>2, <1>3, PTL DEF Spec
=============================================================================
