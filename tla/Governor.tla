------------------------------ MODULE Governor ------------------------------
(***************************************************************************)
(* The brakes on reading the disk (crates/linux/src/governor.rs): a token  *)
(* bucket that the worker and the walks share (core/src/throttle.rs), the  *)
(* detector of a disk that others keep busy (core/src/busy.rs), fed by a   *)
(* thread of its own (linux/src/lich/mau_tai.rs), and the pause of the     *)
(* administrator.  Time goes by in ticks; the clocks are how long ago      *)
(* something was, up to the longest that matters.                          *)
(*                                                                         *)
(* This is the governor of the local disk, of which the device is known:   *)
(* without a sampler (sampler_cho) nothing feeds the detector.  That of    *)
(* the remote roots is fed the same samples and has a bucket of its own.   *)
(***************************************************************************)
EXTENDS Integers, FiniteSets

CONSTANTS
  Rate, Burst,     \* the bucket: tokens per tick, and what it holds
  Block,           \* what a comparison asks for: a block of either file
  Entry,           \* what a walk asks for an entry
  MaxWait,         \* the longest nap before the bucket is asked again
  Interval,        \* between two samples, in ticks ...
  Jitter,          \* ... but for what the thread comes too late
  BusyWindow, IdleWindow,
  Pace,            \* the shortest time between two directories
  Patience,        \* TRAN_LUI: the longest a walk waits in front of a directory
  MaxBlocks,       \* bound: the blocks of a file
  MaxEntries,      \* bound: the entries of a directory
  MaxErrors        \* bound: how often /proc/diskstats cannot be read

ASSUME GovernorAssumption ==
  /\ {Rate, Burst, Block, Entry, MaxWait, Interval, BusyWindow, IdleWindow} \subseteq Nat \ {0}
  /\ {Jitter, Pace, Patience, MaxBlocks, MaxEntries, MaxErrors} \subseteq Nat
  /\ {Block, Entry} \subseteq 1..Burst   \* Config::validate, for blocks of 8 MiB

VARIABLES
  load,      \* how busy others keep the disk ...
  held,      \* ... and for how long by now
  mixed,     \* how busy they kept it since the last sample
  sampler,   \* [age, primed]: of the last sample, and whether there is one
  detector,  \* [paused, streak]: how long the samples have spoken against it
  hand,      \* nasdedup pause
  tokens,    \* in the bucket, when it was refilled last ...
  stale,     \* ... which is so long ago
  meter,     \* history: what was granted lately, leaking Rate per tick
  worker,    \* [pc, left, nap]
  walk,      \* [pc, left, nap, waited, since]: since is the age of lan_truoc
  told,      \* SIGTERM
  errors

disk    == <<load, held, mixed>>
brakes  == <<sampler, detector, errors>>
bucket  == <<tokens, stale, meter>>
vars    == <<disk, brakes, bucket, hand, worker, walk, told>>

Loads == {"idle", "some", "busy"}
Rank  == [l \in Loads |-> CASE l = "idle" -> 0 [] l = "some" -> 1 [] l = "busy" -> 2]

Least(a, b)    == IF a <= b THEN a ELSE b
Greatest(a, b) == IF a <= b THEN b ELSE a
None           == -1    \* no streak

\* The time after which the detector must have seen a load that stays: the
\* sample that began before it, one more that is late, and the window.
Lateness == (3 + MaxErrors) * (Interval + Jitter)
Reaction == BusyWindow + Lateness
Release  == IdleWindow + Lateness
Long     == Greatest(Reaction, Release)

(* ---------------------------- the detector ---------------------------- *)

\* BoPhatHien.nap: what speaks against the state must do so for all of window.
Streak(d) == IF d.streak = None THEN 0 ELSE d.streak

FedRunning(d, level) ==
  IF level # "busy" THEN [d EXCEPT !.streak = None]
  ELSE IF Streak(d) >= BusyWindow THEN [paused |-> TRUE, streak |-> None]
       ELSE [d EXCEPT !.streak = Streak(d)]

\* Mutant: every sample begins a streak of its own.
FedPausedAnew(d, level) ==
  IF level # "idle" THEN [d EXCEPT !.streak = None]
  ELSE IF Streak(d) >= IdleWindow THEN [paused |-> FALSE, streak |-> None]
       ELSE [d EXCEPT !.streak = 0]

FedPaused(d, level) ==
  IF level # "idle" THEN [d EXCEPT !.streak = None]
  ELSE IF Streak(d) >= IdleWindow THEN [paused |-> FALSE, streak |-> None]
       ELSE [d EXCEPT !.streak = Streak(d)]

Fed(d, level) == IF d.paused THEN FedPaused(d, level) ELSE FedRunning(d, level)

\* should_pause: any of the brakes is enough.
Brake == hand \/ detector.paused

(* ----------------------------- the bucket ----------------------------- *)

\* Mutant: the bucket has no bottom.
RefilledUnbounded == tokens + stale * Rate

\* TokenBucket.refill.
Refilled == Least(Burst, tokens + stale * Rate)

\* Mutant: two files are compared, but one is paid for.
WantedOnce(asked) == Greatest(1, asked \div 2)

\* More than the bucket holds is never there.
Wanted(asked) == Least(asked, Burst)

\* Mutant: what is there is taken even if it is not enough.
TryEmptying(asked) ==
  IF Refilled >= Wanted(asked)
    THEN [granted |-> TRUE, tokens |-> Refilled - Wanted(asked), nap |-> 0]
    ELSE [granted |-> FALSE, tokens |-> 0, nap |-> MaxWait]

\* try_take: what remains, or how long to sleep.
Try(asked) ==
  LET missing == Wanted(asked) - Refilled
  IN  IF missing <= 0
        THEN [granted |-> TRUE, tokens |-> - missing, nap |-> 0]
        ELSE [granted |-> FALSE, tokens |-> Refilled,
              nap |-> Least((missing + Rate - 1) \div Rate, MaxWait)]

\* acquire, once round its loop.
Taking(asked) ==
  /\ tokens' = Try(asked).tokens /\ stale' = 0
  /\ meter' = IF Try(asked).granted THEN meter + asked ELSE meter

(* ------------------------- disk, clocks, hands ------------------------ *)

\* Others begin or end to use the disk.
ChangeLoad ==
  /\ load' \in Loads \ {load} /\ held' = 0 /\ mixed' = mixed \union {load'}
  /\ UNCHANGED <<brakes, bucket, hand, worker, walk, told>>

Older(age, most) == Least(age + 1, most)

\* Time goes by; the sampler is on time as long as it runs.
Tick ==
  /\ told \/ sampler.age < Interval + Jitter
  /\ held' = IF load = "some" THEN 0 ELSE Older(held, Long)
  /\ sampler' = [sampler EXCEPT !.age = Older(@, Interval + Jitter)]
  /\ detector' = IF detector.streak = None THEN detector
                 ELSE [detector EXCEPT !.streak = Older(@, Greatest(BusyWindow, IdleWindow))]
  /\ stale' = Older(stale, Burst)
  /\ meter' = Greatest(0, meter - Rate)
  /\ worker' = [worker EXCEPT !.nap = Greatest(0, @ - 1)]
  /\ walk' = [walk EXCEPT !.nap = Greatest(0, @ - 1),
                          !.waited = IF walk.pc = "dir" THEN Older(@, Patience) ELSE 0,
                          !.since = Older(@, Pace)]
  /\ UNCHANGED <<load, mixed, tokens, hand, told, errors>>

\* nasdedup pause and resume, while somebody serves the socket.
PauseOrResume ==
  /\ ~told /\ hand' = ~hand
  /\ UNCHANGED <<disk, brakes, bucket, worker, walk, told>>

Stop ==
  /\ ~told /\ told' = TRUE
  /\ UNCHANGED <<disk, brakes, bucket, hand, worker, walk>>

(* ----------------------------- the sampler ---------------------------- *)

\* vong_lay_mau: the load on the average since the last sample.  The first
\* one has nothing to compare with, and one that fails is as if it were not.
Sample ==
  /\ ~told /\ sampler.age >= Interval
  /\ sampler' = [age |-> 0, primed |-> TRUE]
  /\ mixed' = {load}
  /\ IF ~sampler.primed THEN UNCHANGED detector
     ELSE \E level \in Loads :
            /\ \E a, b \in mixed : Rank[a] <= Rank[level] /\ Rank[level] <= Rank[b]
            /\ detector' = Fed(detector, level)
  /\ UNCHANGED <<load, held, bucket, hand, worker, walk, told, errors>>

SampleFails ==
  /\ ~told /\ sampler.age >= Interval /\ errors < MaxErrors /\ errors' = errors + 1
  /\ sampler' = [sampler EXCEPT !.age = 0]
  /\ UNCHANGED <<disk, detector, bucket, hand, worker, walk, told>>

(* ----------------------------- the worker ----------------------------- *)

\* vong_worker takes a row for a heavy step: allow_heavy.
StartFile ==
  /\ worker.pc = "off" /\ ~told /\ ~Brake
  /\ \E n \in 1..MaxBlocks : worker' = [pc |-> "ask", left |-> n, nap |-> 0]
  /\ UNCHANGED <<disk, brakes, bucket, hand, walk, told>>

\* compare_bytes and sparse_hash ask for the next block, and wait for it ...
AskBlock ==
  /\ worker.pc = "ask" /\ worker.nap = 0 /\ Taking(Block)
  /\ worker' = [pc |-> IF Try(Block).granted THEN "look" ELSE "ask",
                left |-> worker.left, nap |-> Try(Block).nap]
  /\ UNCHANGED <<disk, brakes, hand, walk, told>>

\* Mutant: the brakes are not looked at once the file is begun.
ReadUnbraked ==
  /\ worker.pc = "look"
  /\ worker' = [worker EXCEPT !.left = @ - 1, !.pc = IF worker.left = 1 THEN "off" ELSE "ask"]
  /\ UNCHANGED <<disk, brakes, bucket, hand, walk, told>>

\* ... look at the brakes after they waited, and read it.  Blocks that differ
\* end a comparison, and a brake stops it.
Read ==
  /\ worker.pc = "look"
  /\ IF Brake THEN worker' = [worker EXCEPT !.pc = "off"]
     ELSE \E next \in (IF worker.left = 1 THEN {"off"} ELSE {"off", "ask"}) :
            worker' = [pc |-> next, left |-> worker.left - 1, nap |-> 0]
  /\ UNCHANGED <<disk, brakes, bucket, hand, walk, told>>

(* ------------------------------ the walks ----------------------------- *)

\* di_bo comes to a directory, and keeps its pace: it sleeps for what is left
\* of it, but for the first directory of a walk.
StartDir ==
  /\ walk.pc = "off" /\ ~told
  /\ \E rest \in {Pace - walk.since, 0} : walk' = [walk EXCEPT !.pc = "pace", !.nap = rest]
  /\ UNCHANGED <<disk, brakes, bucket, hand, worker, told>>

\* cho_va_lui, after cho: its patience begins now.
KeepPace ==
  /\ walk.pc = "pace" /\ walk.nap = 0
  /\ walk' = [walk EXCEPT !.pc = "dir", !.waited = 0]
  /\ UNCHANGED <<disk, brakes, bucket, hand, worker, told>>

\* Into the directory; the pace of the next one counts from here.
Enter(n) == walk' = [walk EXCEPT !.pc = "next", !.left = n, !.waited = 0, !.since = 0]

\* Its loop: give way for a while, not for ever.
GiveWay ==
  /\ walk.pc = "dir" /\ walk.nap = 0
  /\ IF Brake /\ ~told /\ walk.waited < Patience
       THEN walk' = [walk EXCEPT !.nap = 1]
       ELSE \E n \in 0..MaxEntries : Enter(n)
  /\ UNCHANGED <<disk, brakes, bucket, hand, worker, told>>

\* The next entry of the directory, if there is one and nobody said stop ...
NextEntry ==
  /\ walk.pc = "next"
  /\ walk' = [walk EXCEPT !.pc = IF told \/ walk.left = 0 THEN "off" ELSE "ask"]
  /\ UNCHANGED <<disk, brakes, bucket, hand, worker, told>>

\* ... is paid for and looked at.
AskEntry ==
  /\ walk.pc = "ask" /\ walk.nap = 0 /\ Taking(Entry)
  /\ walk' = IF Try(Entry).granted THEN [walk EXCEPT !.pc = "next", !.left = @ - 1]
                                   ELSE [walk EXCEPT !.nap = Try(Entry).nap]
  /\ UNCHANGED <<disk, brakes, hand, worker, told>>

(* ----------------------------- the system ----------------------------- *)

Init ==
  /\ load = "idle" /\ held = 0 /\ mixed = {"idle"}
  /\ sampler = [age |-> Interval, primed |-> FALSE]
  /\ detector = [paused |-> FALSE, streak |-> None]
  /\ hand = FALSE /\ told = FALSE /\ errors = 0
  /\ tokens = Burst /\ stale = 0 /\ meter = 0
  /\ worker = [pc |-> "off", left |-> 0, nap |-> 0]
  /\ walk = [pc |-> "off", left |-> 0, nap |-> 0, waited |-> 0, since |-> Pace]

Worker == AskBlock \/ Read
Walk   == KeepPace \/ GiveWay \/ NextEntry \/ AskEntry

Next ==
  \/ ChangeLoad \/ Tick \/ PauseOrResume \/ Stop
  \/ Sample \/ SampleFails
  \/ StartFile \/ Worker \/ StartDir \/ Walk

Spec == Init /\ [][Next]_vars

\* Time and the threads go on, the sampler's too.
FairSpec ==
  /\ Spec /\ WF_vars(Tick) /\ WF_vars(Sample \/ SampleFails)
  /\ WF_vars(Worker) /\ WF_vars(Walk)

(* ----------------------------- properties ----------------------------- *)

\* The types of the variables.
TypeOK ==
  /\ load \in Loads /\ held \in 0..Long /\ mixed \in SUBSET Loads
  /\ sampler \in [age : 0..(Interval + Jitter), primed : BOOLEAN]
  /\ detector \in [paused : BOOLEAN, streak : {None} \union 0..Greatest(BusyWindow, IdleWindow)]
  /\ tokens \in 0..Burst /\ stale \in 0..Burst /\ meter \in Nat
  /\ worker \in [pc : {"off", "ask", "look"}, left : 0..MaxBlocks, nap : 0..MaxWait]
  /\ walk \in [pc : {"off", "pace", "dir", "next", "ask"}, left : 0..MaxEntries,
               nap : 0..(Pace + MaxWait), waited : 0..Patience, since : 0..Pace]
  /\ {hand, told} \subseteq BOOLEAN /\ errors \in 0..MaxErrors

\* In any time of n ticks the daemon reads no more than Burst + n * Rate,
\* whoever asks and however the bucket is refilled in between.
RateKept == meter <= Burst

\* A film that somebody watches has the disk to itself after a while: the
\* worker reads no block of any file then, not even of one it has begun.
GivesWay ==
  [][worker'.left < worker.left =>
       told \/ ~(load = "busy" /\ held >= Reaction)]_vars

\* The brake does not stick: a disk that is idle for long is used again.
BrakeReleased == load = "idle" /\ held >= Release /\ ~told => ~detector.paused

\* Whoever waits for tokens gets them, so that a daemon that was told to stop
\* does.
Stops == told ~> worker.pc = "off" /\ walk.pc = "off"
=============================================================================
