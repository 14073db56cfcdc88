----------------------------- MODULE Scheduler -----------------------------
(***************************************************************************)
(* The scheduler thread: which periodic job is due, how a pass that did    *)
(* not conclude is dated, what yields to the initial scan and how long the *)
(* thread sleeps between two rounds (crates/core/src/scheduler.rs,         *)
(* crates/linux/src/lich/mod.rs, tien_do.rs, hang_walk.rs).                *)
(*                                                                         *)
(* Time goes in ticks and an age replaces the date of a job's last pass.   *)
(* A tick is no fixed number of seconds: what counts is the order of       *)
(* MinNap (200 ms), Hold (5 s), MaxNap (60 s), Floor (half an hour) and    *)
(* the periods.  An age stops at its period, where it makes a job due      *)
(* whatever it grows to.                                                   *)
(***************************************************************************)
EXTENDS Integers, Sequences, FiniteSetsExt

CONSTANTS
  Jobs,      \* the jobs, in the order of Viec, as a sequence
  Period,    \* the period of each
  Long,      \* the jobs that walk the tree
  Writers,   \* those of them that write scan_progress
  Floor,     \* san_quet_lai
  MinNap, Hold, MaxNap,
  PassMax,   \* bound: how long a pass takes
  Day,       \* the ticks of a day
  Window     \* those in which the heavy window is open

JobSet == {Jobs[i] : i \in 1..Len(Jobs)}

ASSUME SchedulerAssumption ==
  /\ Jobs \in Seq(JobSet) /\ \A i, k \in 1..Len(Jobs) : Jobs[i] = Jobs[k] => i = k
  /\ {"none", "extra"} \cap JobSet = {}
  /\ \A j \in JobSet : Period[j] \in Nat
  /\ Long \subseteq JobSet /\ Writers \subseteq Long
  /\ {"reconcile", "presence"} \subseteq Writers
  /\ {MinNap, Hold, MaxNap, Floor, PassMax, Day} \subseteq Nat \ {0}
  /\ MinNap <= Hold /\ Hold <= MaxNap /\ MaxNap <= Floor
  /\ Window \subseteq 0..(Day - 1)

VARIABLES
  clock,     \* the time of day
  age,       \* LanCuoi: ticks since the date of the job's last pass, or Never
  flag,      \* "off", "on", or "raised" again since the reconcile captured it
  scan,      \* the initial scan runs and has CoScan
  dirs,      \* HangWalk holds a directory
  round,     \* the jobs of this round that are left
  pass,      \* the job that walks and for how long, or nothing
  held,      \* a job of this round was put off or did not conclude
  nap,       \* the ticks left to sleep
  owed,      \* history: ticks slept although the job was due and allowed
  rest       \* history: ticks since the job's last pass ended, up to Floor

vars == <<clock, age, flag, scan, dirs, round, pass, held, nap, owed, rest>>

\* No date: earlier than any age that stands for one.
Never == -Floor - 1
NoPass == [job |-> "none", ticks |-> 0]

InWindow == clock \in Window

\* LanCuoi.reconcile is none, or at least the floor ago.
Rested == age["reconcile"] = Never \/ age["reconcile"] >= Floor

\* ton_trong_quet_lai.
HonourFlag == flag # "off" /\ Rested

\* toi_han: a job that never ran is due at once.
Elapsed(j) == age[j] = Never \/ age[j] >= Period[j]

\* den_han.
Due(j) ==
  /\ Elapsed(j) \/ (j = "reconcile" /\ HonourFlag)
  /\ j = "presence" => InWindow

\* Mutant: nothing yields.
YieldsNever(j) == FALSE

\* can_hoan: what writes scan_progress yields to the initial scan.
Yields(j) == j \in Writers /\ scan

Remaining(j) == IF age[j] = Never THEN 0 ELSE Period[j] - age[j]

\* Mutant: the thread sleeps until the next job is due.
NapUnbounded(m) == IF m < MinNap THEN MinNap ELSE m

\* The clamp of ngu_bao_lau and vong_viec: at most a minute.
Clamped(m) == IF m < MinNap THEN MinNap ELSE IF m > MaxNap THEN MaxNap ELSE m

\* ngu_bao_lau, and HOAN_MS after a round with a job held up.
NapLength(hold) ==
  LET ms == Clamped(Min({Remaining(j) : j \in JobSet})) IN
  IF hold /\ ms < Hold THEN Hold ELSE ms

Asleep == pass = NoPass /\ round = <<>> /\ nap > 0
Awake  == pass = NoPass /\ round = <<>> /\ nap = 0
InTurn == pass = NoPass /\ round # <<>>

Older(j) == IF age[j] = Never THEN Never ELSE IF age[j] < Period[j] THEN age[j] + 1 ELSE age[j]

\* A tick: the thread sleeps, or a pass goes on.
Tick ==
  /\ Asleep \/ (pass # NoPass /\ pass.ticks < PassMax)
  /\ clock' = (clock + 1) % Day
  /\ age' = [j \in JobSet |-> Older(j)]
  /\ rest' = [j \in Long |-> IF rest[j] < Floor THEN rest[j] + 1 ELSE rest[j]]
  /\ nap' = IF Asleep THEN nap - 1 ELSE nap
  /\ pass' = IF Asleep THEN pass ELSE [pass EXCEPT !.ticks = @ + 1]
  /\ owed' = [j \in JobSet |-> IF ~Asleep THEN owed[j]
                              ELSE IF Due(j) /\ ~Yields(j) THEN owed[j] + 1 ELSE 0]
  /\ UNCHANGED <<flag, scan, dirs, round, held>>

\* mot_vong: the jobs due now, in their order; ...
DueJobs ==
  LET among[i \in 0..Len(Jobs)] ==
        IF i = 0 THEN <<>>
        ELSE IF Due(Jobs[i]) THEN Append(among[i - 1], Jobs[i]) ELSE among[i - 1]
  IN among[Len(Jobs)]

\* ... "extra" stands for the walk of the directories the watcher heard of,
\* which comes last.
Wake ==
  /\ Awake
  /\ round' = Append(DueJobs, "extra")
  /\ held' = FALSE
  /\ owed' = [j \in JobSet |-> IF Due(j) THEN owed[j] ELSE 0]
  /\ UNCHANGED <<clock, age, flag, scan, dirs, pass, nap, rest>>

\* The initial scan has the right to write: the job keeps its date, so it stays
\* due, and waits for a later round.
PutOff ==
  /\ InTurn /\ Yields(Head(round))
  /\ round' = Tail(round) /\ held' = TRUE
  /\ UNCHANGED <<clock, age, flag, scan, dirs, pass, nap, owed, rest>>

\* Checkpoint, DonDep, LayMauTai: done in no time.
RunShort ==
  /\ InTurn /\ Head(round) \in JobSet \ Long
  /\ age' = [age EXCEPT ![Head(round)] = 0]
  /\ owed' = [owed EXCEPT ![Head(round)] = 0]
  /\ round' = Tail(round)
  /\ UNCHANGED <<clock, flag, scan, dirs, pass, held, nap, rest>>

\* A walk begins.  A reconcile captures the generation of the flag.
StartPass ==
  /\ InTurn /\ Head(round) \in Long /\ ~Yields(Head(round))
  /\ pass' = [job |-> Head(round), ticks |-> 0]
  /\ owed' = [owed EXCEPT ![Head(round)] = 0]
  /\ flag' = IF Head(round) = "reconcile" /\ flag = "raised" THEN "on" ELSE flag
  /\ UNCHANGED <<clock, age, scan, dirs, round, held, nap, rest>>

\* Mutant: a pass that did not conclude has no date.
UndecidedAgeNever(j) == Never

\* Mutant: the floor is taken away from the date.
UndecidedAgeEarlier(j) == Period[j] + Floor

\* ghi_moc: an undecided pass is due again after the floor.
UndecidedAge(j) == Period[j] - Floor

\* A walk ends: complete, or cut (a presence pass by the window), or without a
\* conclusion because of an entry it could not read.
EndPass(concluded) ==
  /\ pass # NoPass /\ pass.job # "extra"
  /\ age' = [age EXCEPT ![pass.job] = IF concluded THEN 0 ELSE UndecidedAge(pass.job)]
  /\ rest' = [rest EXCEPT ![pass.job] = 0]
  /\ flag' = IF pass.job = "reconcile" /\ concluded /\ flag = "on" THEN "off" ELSE flag
  /\ held' = (held \/ ~concluded)
  /\ pass' = NoPass /\ round' = Tail(round)
  /\ UNCHANGED <<clock, scan, dirs, nap, owed>>

\* Mutant: the queue is emptied before it is known whether the walk may run.
TakenFirst == FALSE

\* co_viec, lay: the queue is taken when the walk begins, not when it waits.
DirsWhileWaiting == dirs

\* The end of a round: the walk of the new directories, unless it waits too ...
StartExtra ==
  /\ InTurn /\ Head(round) = "extra" /\ dirs /\ ~scan
  /\ dirs' = FALSE
  /\ pass' = [job |-> "extra", ticks |-> 0]
  /\ UNCHANGED <<clock, age, flag, scan, round, held, nap, owed, rest>>

\* ... and then the thread sleeps.
Sleep(hold) ==
  /\ round' = <<>> /\ pass' = NoPass
  /\ held' = hold /\ nap' = NapLength(hold)
  /\ UNCHANGED <<clock, age, flag, scan, owed, rest>>

EndExtra == pass.job = "extra" /\ Sleep(held) /\ UNCHANGED dirs

NoExtra ==
  /\ InTurn /\ Head(round) = "extra" /\ (~dirs \/ scan)
  /\ dirs' = DirsWhileWaiting
  /\ Sleep(held \/ dirs)

(* --------------------------- the other threads ------------------------- *)

\* The initial scan ends, well or not: its guard is dropped.
ScanEnds == scan /\ scan' = FALSE
            /\ UNCHANGED <<clock, age, flag, dirs, round, pass, held, nap, owed, rest>>

\* The watcher lost events.
Lose ==
  /\ flag # "raised"
  /\ flag' = IF pass.job = "reconcile" THEN "raised" ELSE "on"
  /\ flag' # flag
  /\ UNCHANGED <<clock, age, scan, dirs, round, pass, held, nap, owed, rest>>

\* The watcher heard of a directory.
NewDir == ~dirs /\ dirs' = TRUE
          /\ UNCHANGED <<clock, age, flag, scan, round, pass, held, nap, owed, rest>>

\* lan_cuoi_tu_kho: only the last presence scan survives a restart.
FirstAge(j) == IF j = "presence" THEN {Never} \cup 0..Period[j] ELSE {Never}

\* giu_som: the initial scan has its flag before any thread runs.
Init ==
  /\ clock \in 0..(Day - 1)
  /\ age \in {a \in [JobSet -> {Never} \cup 0..Period["presence"]] :
                \A j \in JobSet : a[j] \in FirstAge(j)}
  /\ flag \in {"off", "on"} /\ scan = TRUE /\ dirs = FALSE
  /\ round = <<>> /\ pass = NoPass /\ held = FALSE /\ nap = 0
  /\ owed = [j \in JobSet |-> 0]
  /\ rest = [j \in Long |-> Floor]

Thread ==
  \/ Tick \/ Wake \/ PutOff \/ RunShort \/ StartPass \/ StartExtra \/ EndExtra \/ NoExtra
  \/ \E concluded \in BOOLEAN : EndPass(concluded)

Next == Thread \/ ScanEnds \/ Lose \/ NewDir

Spec == Init /\ [][Next]_vars

\* The thread goes on, and the initial scan ends.
FairSpec == Spec /\ WF_vars(Thread) /\ WF_vars(ScanEnds)

(* ------------------------------ properties ----------------------------- *)

TypeOK ==
  /\ clock \in 0..(Day - 1) /\ flag \in {"off", "on", "raised"}
  /\ \A j \in JobSet : age[j] = Never \/ age[j] \in (Period[j] - Floor)..Period[j] \cup 0..Period[j]
  /\ {scan, dirs, held} \subseteq BOOLEAN
  /\ pass.job \in Long \cup {"none", "extra"} /\ pass.ticks \in 0..PassMax
  /\ nap \in Nat /\ owed \in [JobSet -> Nat] /\ rest \in [Long -> 0..Floor]

\* A job that is due, and may run, is not slept over for longer than the
\* longest sleep, also when the flag or the window makes it due in the middle
\* of one, and when it was put off before (ngu_bao_lau, HOAN_MS).
OnTime == \A j \in JobSet : owed[j] <= MaxNap

\* Only one thread writes scan_progress: no reconcile or presence pass runs
\* while the initial scan does (CoScan, "one writer for every root").
OneWriter == scan => pass.job \notin Writers

\* Two passes of a job are the floor apart, unless its period is shorter, also
\* when no pass ever concludes (ghi_moc).
Paced ==
  [][\A j \in Long \ {"reconcile"} :
       pass'.job = j /\ pass = NoPass =>
         rest[j] >= Floor \/ rest[j] >= Period[j]]_vars

\* The same for the reconcile, whatever the watcher reports (san_quet_lai:
\* "the only thing that stops the loop of rescanning the whole library").
FlagPaced ==
  [][pass'.job = "reconcile" /\ pass = NoPass => rest["reconcile"] >= Floor]_vars

\* What waits for the initial scan is walked in the end, and so is the library
\* when its date has come: a directory the watcher heard of is not forgotten by
\* the round that put it off, a reconcile not by the passes that end undecided.
Walked ==
  /\ dirs ~> (pass.job = "extra")
  /\ Elapsed("reconcile") ~> (pass.job = "reconcile")
=============================================================================
