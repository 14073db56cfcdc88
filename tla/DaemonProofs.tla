---------------------------- MODULE DaemonProofs ----------------------------
(***************************************************************************)
(* The signal of lost events in the running daemon, whatever the number of *)
(* processes, of losses, of failing calls and of starts: RescanFlagProofs  *)
(* for two threads that ask the database thread and may get an error for   *)
(* an answer.  A generation read in vain makes the flag fall, so what is   *)
(* true of the capture is true only until the flag is raced.               *)
(***************************************************************************)
EXTENDS Daemon, TLAPS

\* A loss is covered by the reconcile that walks, and no generation was
\* written since it began.
WalkedWalks == loss = "walked" => scheduler.pc = "walk" /\ scheduler.read <= flag

\* The flag only rises while a reconcile runs ...
CaptureIsOld == ~raced /\ scheduler.pc \in {"walk", "look"} => scheduler.read <= flag

\* ... and has risen when the reconcile does not cover the loss.
OwedShows ==
  ~raced /\ scheduler.pc \in {"walk", "look"} /\ loss = "owed" => scheduler.read < flag

\* What is cleared is cleared rightly, or in the race.
ClearIsDue == scheduler.pc = "clear" => loss = "none" \/ raced

SignalInv ==
  /\ TypeOK /\ WalkedWalks /\ CaptureIsOld /\ OwedShows /\ ClearIsDue
  /\ LossRememberedButForRace

\* The walk is given up: it is cut, or the daemon is told to stop.
GiveUp ==
  /\ scheduler.pc = "walk" /\ scheduler' = Idle
  /\ loss' = IF loss = "walked" THEN "owed" ELSE loss
  /\ cuts' \in Nat
  /\ UNCHANGED <<flag, watcher, raced, losses>>

\* What the processes and the threads do to the signal.
SignalStep ==
  \/ Lose \/ Raise \/ Begin \/ Done \/ Look \/ Clear \/ GiveUp \/ Restart
  \/ WatcherFails \/ SchedulerFails \/ UNCHANGED vars

\* At the start the flag of a former process stands for a loss.
LEMMA InitSignal == ASSUME DaemonInit PROVE SignalInv
<1>1. Init
  BY DEF DaemonInit
<1>2. raced = FALSE
  BY <1>1 DEF Init
<1>3. loss \in {"none", "owed"} /\ (loss # "none" => flag # 0)
  BY <1>1 DEF Init
<1>4. /\ flag \in Nat /\ losses \in Nat /\ cuts \in Nat
      /\ watcher \in [pc : {"idle", "raise"}, read : Nat]
      /\ scheduler \in [pc : {"idle", "walk", "look", "clear"}, read : Nat]
      /\ scheduler.pc = "idle"
  BY <1>1 DEF Init, Idle
<1> QED BY <1>2, <1>3, <1>4 DEF SignalInv, TypeOK, WalkedWalks, CaptureIsOld, OwedShows,
                                ClearIsDue, LossRememberedButForRace, LossRemembered

\* Every step of the daemon is one of these to the signal.
LEMMA StepsAreSignals ==
  ASSUME TypeOK, [DaemonNext]_daemon PROVE SignalStep
<1>1. CASE UNCHANGED daemon
  BY <1>1 DEF daemon, SignalStep
<1>2. ASSUME NEW p \in Procs, Start(p) \/ Signal(p) PROVE SignalStep
  BY <1>2 DEF Start, Signal, SignalStep
<1>3. ASSUME NEW p \in Procs, OnItsWay(p) PROVE SignalStep
  <2>1. UNCHANGED vars
    BY <1>3 DEF OnItsWay, OpenDb, Exists, Connect, Unlink, Bind, Ended, Scanned, Remove,
                Checkpoint
  <2> QED BY <2>1 DEF SignalStep
<1>4. ASSUME NEW p \in Procs, Kill(p) PROVE SignalStep
  BY <1>4 DEF Kill, SignalStep
<1>5. ASSUME NEW t \in Threads, Send(t) PROVE SignalStep
  BY <1>5 DEF Send, SignalStep
<1>6. CASE Ask \/ Answer \/ HangUp
  BY <1>6 DEF Ask, Answer, HangUp, SignalStep
<1>7. CASE Execute
  <2>1. Lose \/ Raise \/ Begin \/ Done \/ Look \/ Clear \/ UNCHANGED vars
    BY <1>7 DEF Execute
  <2> QED BY <2>1 DEF SignalStep
<1>8. CASE Fail
  <2>1. WatcherFails \/ SchedulerFails \/ UNCHANGED vars
    BY <1>8 DEF Fail
  <2> QED BY <2>1 DEF SignalStep
<1>9. CASE StopWalk
  <2>1. cuts' \in Nat
    BY <1>9 DEF StopWalk, TypeOK
  <2> QED BY <1>9, <2>1 DEF StopWalk, GiveUp, SignalStep
<1>10. CASE CutShort
  <2>1. Cut
    BY <1>10 DEF CutShort
  <2>2. cuts' \in Nat
    BY <2>1 DEF Cut, TypeOK
  <2> QED BY <2>1, <2>2 DEF Cut, GiveUp, SignalStep
<1> QED BY <1>1, <1>2, <1>3, <1>4, <1>5, <1>6, <1>7, <1>8, <1>9, <1>10
        DEF DaemonNext, InThreads

\* No step of either thread, failed or not, loses the signal.
LEMMA SignalKept == ASSUME SignalInv, SignalStep PROVE SignalInv'
<1> USE DEF SignalInv, TypeOK, WalkedWalks, CaptureIsOld, OwedShows, ClearIsDue,
            LossRememberedButForRace, LossRemembered, Idle, At
<1>1. CASE Lose    BY <1>1 DEF Lose
<1>2. CASE Raise
  <2>1. raced' \in BOOLEAN
    BY <1>2, Zenon DEF Raise
  <2>2. ~raced' => ~raced /\ scheduler.pc # "clear" /\ ~(watcher.read < flag)
    BY <1>2, Zenon DEF Raise
  <2>3. /\ flag' = watcher.read + 1 /\ watcher' = Idle /\ loss' = "owed"
        /\ UNCHANGED <<scheduler, losses, cuts>>
    BY <1>2 DEF Raise
  <2> QED BY <2>1, <2>2, <2>3
<1>3. CASE Begin   BY <1>3 DEF Begin
<1>4. CASE GiveUp  BY <1>4 DEF GiveUp
<1>5. CASE Done
  <2>1. raced' \in BOOLEAN /\ (~raced' => ~raced \/ loss = "walked")
    BY <1>5, Zenon DEF Done
  <2>2. /\ scheduler.pc = "walk" /\ scheduler' = At("look", scheduler.read)
        /\ loss' = IF loss = "walked" THEN "none" ELSE loss
        /\ UNCHANGED <<flag, watcher, losses, cuts>>
    BY <1>5 DEF Done
  <2> QED BY <2>1, <2>2
<1>6. CASE Look    BY <1>6 DEF Look
<1>7. CASE Clear   BY <1>7 DEF Clear
<1>8. CASE Restart BY <1>8 DEF Restart
<1>9. CASE WatcherFails
  <2>1. CASE watcher.pc = "raise" /\ watcher' = Idle
             /\ loss' = "owed" /\ raced' = TRUE /\ UNCHANGED losses
    BY <1>9, <2>1 DEF WatcherFails
  <2>2. CASE watcher = Idle /\ losses' = losses + 1
             /\ watcher' = At("raise", 0) /\ UNCHANGED <<loss, raced>>
    BY <1>9, <2>2 DEF WatcherFails
  <2> QED BY <1>9, <2>1, <2>2 DEF WatcherFails
<1>10. CASE SchedulerFails
  <2> UNCHANGED <<flag, watcher, losses, cuts>>
    BY <1>10 DEF SchedulerFails
  <2>1. CASE scheduler = Idle /\ scheduler' = At("walk", 0)
             /\ loss' = (IF loss = "owed" THEN "walked" ELSE loss) /\ UNCHANGED raced
    BY <2>1
  <2>2. CASE scheduler.pc = "walk" /\ scheduler' = Idle
             /\ loss' = (IF loss = "walked" THEN "owed" ELSE loss) /\ UNCHANGED raced
    BY <2>2
  <2>3. CASE scheduler.pc = "look"
             /\ scheduler' = (IF scheduler.read = 0 THEN At("clear", 0) ELSE Idle)
             /\ raced' = (raced \/ (scheduler.read = 0 /\ flag # 0)) /\ UNCHANGED loss
    <3>1. raced' \in BOOLEAN /\ (~raced' => ~raced /\ ~(scheduler.read = 0 /\ flag # 0))
      BY <2>3, Zenon
    <3>2. /\ scheduler.pc = "look" /\ UNCHANGED loss
          /\ scheduler' = (IF scheduler.read = 0 THEN At("clear", 0) ELSE Idle)
      BY <2>3
    <3> QED BY <3>1, <3>2
  <2>4. CASE scheduler.pc = "clear" /\ scheduler' = Idle /\ UNCHANGED <<loss, raced>>
    BY <2>4
  <2> QED BY <1>10, <2>1, <2>2, <2>3, <2>4 DEF SchedulerFails
<1>11. CASE UNCHANGED vars BY <1>11 DEF vars
<1> QED BY <1>1, <1>2, <1>3, <1>4, <1>5, <1>6, <1>7, <1>8, <1>9, <1>10, <1>11 DEF SignalStep

\* The invariant holds in every state of every behaviour.
THEOREM SignalInvariance == DaemonSpec => []SignalInv
<1>1. SignalInv => TypeOK BY DEF SignalInv
<1> QED BY <1>1, InitSignal, StepsAreSignals, SignalKept, PTL DEF DaemonSpec

\* A loss of events that no later reconcile covers is remembered by the flag,
\* also if calls to the database fail: but for the race, and for a generation
\* that could not be read or written (dat_quet_lai, the_he_quet_lai).
THEOREM DaemonRemembers == DaemonSpec => []LossRememberedButForRace
<1>1. SignalInv => LossRememberedButForRace BY DEF SignalInv
<1> QED BY <1>1, SignalInvariance, PTL

(* ------------------------------- the types ----------------------------- *)

Stages == {"off", "open", "exists", "connect", "unlink", "bind", "up", "scan", "remove",
           "checkpoint"}

\* The processes, and the channel with at most one job of a thread.
ProcsOK ==
  /\ command \in [Procs -> {"run", "scan"}] /\ stage \in [Procs -> Stages]
  /\ {sock, host} \subseteq Procs \union {NoFile}
  /\ listening \subseteq Procs /\ told \subseteq Procs
  /\ control \in {"accept", "serve", "done"} /\ tangled \in BOOLEAN
  /\ starts \in 0..MaxStarts /\ errors \in 0..MaxErrors

ChannelOK ==
  /\ calls \in Seq(Threads) /\ Len(calls) <= QueueCap
  /\ \A i, j \in 1..Len(calls) : calls[i] = calls[j] => i = j

\* A process that goes on has a stage.
LEMMA GoingOn ==
  ASSUME ProcsOK, NEW p \in Procs, NEW s \in Stages, GoTo(p, s)
  PROVE  /\ stage' \in [Procs -> Stages] /\ told' \subseteq Procs /\ tangled' \in BOOLEAN
         /\ stage'[p] = s /\ \A q \in Procs \ {p} : stage'[q] = stage[q]
<1>1. stage' = [stage EXCEPT ![p] = s] /\ told' = IF s = "off" THEN told \ {p} ELSE told
  BY DEF GoTo
<1>2. tangled' = (tangled \/ \E q \in Procs \ {p} : AtSocket(q, stage[q]) /\ AtSocket(p, s))
  BY DEF GoTo
<1>3. tangled' \in BOOLEAN
  BY <1>2, Zenon
<1> QED BY <1>1, <1>3 DEF ProcsOK

\* The processes keep their types.
LEMMA ProcsStep == ASSUME ProcsOK, [DaemonNext]_daemon PROVE ProcsOK'
<1> USE DaemonAssumption
<1>1. CASE UNCHANGED daemon
  BY <1>1 DEF daemon, procs, threads, ProcsOK
<1>2. ASSUME NEW p \in Procs, Start(p) PROVE ProcsOK'
  <2>1. PICK c \in {"run", "scan"} :
          /\ command' = [command EXCEPT ![p] = c]
          /\ GoTo(p, IF c = "run" THEN "open" ELSE "exists")
    BY <1>2 DEF Start
  <2>2. /\ stage' \in [Procs -> Stages] /\ told' \subseteq Procs /\ tangled' \in BOOLEAN
    BY <2>1, GoingOn DEF Stages
  <2>3. command' \in [Procs -> {"run", "scan"}]
    BY <2>1 DEF ProcsOK
  <2>4. starts' \in 0..MaxStarts
    BY <1>2 DEF Start, ProcsOK
  <2>5. UNCHANGED <<sock, listening, host, control, errors>>
    BY <1>2 DEF Start, threads
  <2> QED BY <2>2, <2>3, <2>4, <2>5 DEF ProcsOK
<1>3. ASSUME NEW p \in Procs, OnItsWay(p) PROVE ProcsOK'
  <2>1. \E s \in Stages : GoTo(p, s)
    BY <1>3 DEF OnItsWay, OpenDb, Exists, Connect, Unlink, Bind, Ended, Scanned, Remove,
                Checkpoint, Stages
  <2>2. /\ stage' \in [Procs -> Stages] /\ told' \subseteq Procs /\ tangled' \in BOOLEAN
    BY <2>1, GoingOn
  <2>3. /\ command' = command /\ starts' = starts /\ {sock', host'} \subseteq Procs \union {NoFile}
        /\ listening' \subseteq Procs /\ control' \in {"accept", "serve", "done"}
        /\ errors' \in 0..MaxErrors
    BY <1>3 DEF OnItsWay, OpenDb, Exists, Connect, Unlink, Bind, Ended, Scanned, Remove,
                Checkpoint, ProcsOK, threads
  <2> QED BY <2>2, <2>3 DEF ProcsOK
<1>4. ASSUME NEW p \in Procs, Signal(p) PROVE ProcsOK'
  BY <1>4 DEF Signal, ProcsOK, threads
<1>5. ASSUME NEW p \in Procs, Kill(p) PROVE ProcsOK'
  <2>1. /\ stage' \in [Procs -> Stages] /\ told' \subseteq Procs /\ tangled' \in BOOLEAN
    BY <1>5, GoingOn DEF Kill, Stages
  <2> QED BY <1>5, <2>1 DEF Kill, ProcsOK
<1>6. ASSUME NEW t \in Threads, Send(t) PROVE ProcsOK'
  BY <1>6 DEF Send, ProcsOK, procs
<1>7. CASE InThreads \/ Ask
  BY <1>7 DEF InThreads, Ask, HangUp, Answer, Execute, Fail, StopWalk, CutShort, ProcsOK, procs,
              threads
<1> QED BY <1>1, <1>2, <1>3, <1>4, <1>5, <1>6, <1>7 DEF DaemonNext

\* A thread sends a job only when it waits for none, and when there is room.
LEMMA ChannelStep == ASSUME ChannelOK, [DaemonNext]_daemon PROVE ChannelOK'
<1>1. CASE UNCHANGED calls
  BY <1>1 DEF ChannelOK
<1>2. CASE calls # <<>> /\ calls' = Tail(calls)
  <2>1. /\ calls' \in Seq(Threads) /\ Len(calls') = Len(calls) - 1 /\ Len(calls) \in Nat
        /\ \A i \in 1..Len(calls') : calls'[i] = calls[i + 1]
    BY <1>2 DEF ChannelOK
  <2>2. \A i, j \in 1..Len(calls') : calls'[i] = calls'[j] => i = j
    <3>1. SUFFICES ASSUME NEW i \in 1..Len(calls'), NEW j \in 1..Len(calls'),
                          calls'[i] = calls'[j]
          PROVE  i = j
      OBVIOUS
    <3>2. i + 1 \in 1..Len(calls) /\ j + 1 \in 1..Len(calls)
      BY <2>1
    <3>3. calls[i + 1] = calls[j + 1]
      BY <2>1, <3>1
    <3>4. i + 1 = j + 1
      BY <3>2, <3>3 DEF ChannelOK
    <3> QED BY <3>4
  <2> QED BY <2>1, <2>2, DaemonAssumption DEF ChannelOK
<1>3. CASE calls' = <<>>
  BY <1>3, DaemonAssumption DEF ChannelOK
<1>4. ASSUME NEW t \in Threads, Send(t) PROVE ChannelOK'
  <2>1. /\ calls' = Append(calls, t) /\ Len(calls) < QueueCap
        /\ \A i \in 1..Len(calls) : calls[i] # t
    BY <1>4 DEF Send, Waiting
  <2>2. /\ calls' \in Seq(Threads) /\ Len(calls') = Len(calls) + 1 /\ Len(calls) \in Nat
        /\ calls'[Len(calls) + 1] = t /\ \A i \in 1..Len(calls) : calls'[i] = calls[i]
    BY <2>1 DEF ChannelOK
  <2>3. ASSUME NEW i \in 1..Len(calls'), NEW j \in 1..Len(calls'), calls'[i] = calls'[j]
        PROVE  i = j
    <3>1. \A k \in 1..Len(calls') : k = Len(calls) + 1 \/ k \in 1..Len(calls)
      BY <2>2
    <3>2. CASE i \in 1..Len(calls) /\ j \in 1..Len(calls)
      BY <2>2, <2>3, <3>2 DEF ChannelOK
    <3>3. CASE i = Len(calls) + 1 /\ j \in 1..Len(calls)
      BY <2>1, <2>2, <2>3, <3>3
    <3>4. CASE j = Len(calls) + 1 /\ i \in 1..Len(calls)
      BY <2>1, <2>2, <2>3, <3>4
    <3> QED BY <3>1, <3>2, <3>3, <3>4
  <2> QED BY <2>1, <2>2, <2>3, DaemonAssumption DEF ChannelOK
<1>5. ASSUME NEW p \in Procs, Start(p) \/ OnItsWay(p) \/ Signal(p) PROVE UNCHANGED calls
  BY <1>5 DEF Start, Signal, OnItsWay, OpenDb, Exists, Connect, Unlink, Bind, Ended, Scanned,
              Remove, Checkpoint, threads
<1>6. ASSUME NEW p \in Procs, Kill(p) PROVE UNCHANGED calls \/ calls' = <<>>
  BY <1>6 DEF Kill
<1>7. CASE Execute \/ Fail
  BY <1>2, <1>7 DEF Execute, Fail
<1>8. CASE HangUp \/ Answer \/ Ask \/ StopWalk \/ CutShort \/ UNCHANGED daemon
  BY <1>1, <1>8 DEF HangUp, Answer, Ask, StopWalk, CutShort, daemon, threads
<1> QED BY <1>1, <1>3, <1>4, <1>5, <1>6, <1>7, <1>8 DEF DaemonNext, InThreads

LEMMA TypesKept == DaemonSpec => [](ProcsOK /\ ChannelOK)
<1>1. ASSUME DaemonInit PROVE ProcsOK /\ ChannelOK
  <2>1. 0 \in 0..MaxStarts /\ 0 \in 0..MaxErrors
    BY DaemonAssumption
  <2>2. command \in [Procs -> {"run", "scan"}] /\ stage \in [Procs -> Stages]
    BY <1>1 DEF DaemonInit, Stages
  <2>3. ProcsOK
    BY <1>1, <2>1, <2>2 DEF DaemonInit, ProcsOK
  <2>4. calls = <<>>
    BY <1>1 DEF DaemonInit
  <2> QED BY <2>3, <2>4, DaemonAssumption DEF ChannelOK
<1> QED BY <1>1, ProcsStep, ChannelStep, PTL DEF DaemonSpec

\* Every variable keeps its type; among others a thread has at most one job in
\* the channel, and the channel holds no more than its bound (DbHandle.call).
THEOREM DaemonTypeCorrect == DaemonSpec => []DaemonTypeOK
<1>1. SignalInv /\ ProcsOK /\ ChannelOK => DaemonTypeOK
  BY DEF SignalInv, ProcsOK, ChannelOK, DaemonTypeOK, Stages
<1> QED BY <1>1, SignalInvariance, TypesKept, PTL

(* ------------------------------ the socket ----------------------------- *)

\* Only a scan comes to the walks of a scan.
ScansScan == \A p \in Procs : stage[p] = "scan" => command[p] = "scan"

LEMMA ScansStep == ASSUME ProcsOK, ScansScan, [DaemonNext]_daemon PROVE ScansScan'
<1>1. CASE UNCHANGED <<stage, command>>
  BY <1>1 DEF ScansScan
<1>2. ASSUME NEW p \in Procs, NEW s \in Stages, GoTo(p, s), s # "scan" \/ command[p] = "scan",
             \A q \in Procs \ {p} : command'[q] = command[q],
             s = "scan" => command'[p] = command[p]
      PROVE  ScansScan'
  <2>1. stage'[p] = s /\ \A q \in Procs \ {p} : stage'[q] = stage[q]
    BY <1>2, GoingOn
  <2> QED BY <1>2, <2>1 DEF ScansScan
<1>3. ASSUME NEW p \in Procs, OnItsWay(p) \/ Kill(p) PROVE ScansScan'
  <2>1. command' = command
    BY <1>3 DEF Kill, OnItsWay, OpenDb, Exists, Connect, Unlink, Bind, Ended, Scanned, Remove,
                Checkpoint
  <2>2. \E s \in Stages : GoTo(p, s) /\ (s # "scan" \/ command[p] = "scan")
    <3>1. CASE OpenDb(p)
      <4>1. command[p] \in {"run", "scan"}
        BY DEF ProcsOK
      <4> QED BY <3>1, <4>1 DEF OpenDb, Stages
    <3>2. CASE Exists(p) \/ Connect(p) \/ Unlink(p) \/ Bind(p)
      BY <3>2 DEF Exists, Connect, Unlink, Bind, Stages
    <3>3. CASE Ended(p) \/ Scanned(p) \/ Remove(p) \/ Checkpoint(p) \/ Kill(p)
      BY <3>3 DEF Ended, Scanned, Remove, Checkpoint, Kill, Stages
    <3> QED BY <1>3, <3>1, <3>2, <3>3 DEF OnItsWay
  <2> QED BY <1>2, <2>1, <2>2
<1>4. ASSUME NEW p \in Procs, Start(p) PROVE ScansScan'
  <2>1. PICK c \in {"run", "scan"} :
          /\ command' = [command EXCEPT ![p] = c]
          /\ GoTo(p, IF c = "run" THEN "open" ELSE "exists")
    BY <1>4 DEF Start
  <2>2. \A q \in Procs \ {p} : command'[q] = command[q]
    BY <2>1 DEF ProcsOK
  <2>3. (IF c = "run" THEN "open" ELSE "exists") \in Stages \ {"scan"}
    BY DEF Stages
  <2> QED BY <1>2, <2>1, <2>2, <2>3
<1>5. ASSUME NEW p \in Procs, Signal(p) PROVE ScansScan'
  BY <1>1, <1>5 DEF Signal
<1>6. CASE (\E t \in Threads : Send(t)) \/ InThreads \/ Ask \/ UNCHANGED daemon
  <2>1. UNCHANGED procs
    BY <1>6 DEF Send, InThreads, Ask, HangUp, Answer, Execute, Fail, StopWalk, CutShort, daemon
  <2> QED BY <1>1, <2>1 DEF procs
<1> QED BY <1>3, <1>4, <1>5, <1>6 DEF DaemonNext

\* A process that listens at its own file, or has only its removal before it.
Holder(p) ==
  \/ stage[p] \in {"up", "scan"}
  \/ stage[p] = "open" /\ command[p] = "scan"
  \/ stage[p] = "remove" /\ command[p] = "run"

\* Nobody is at the file together with another.
Apart == \A p, q \in Procs : AtSocket(p, stage[p]) /\ AtSocket(q, stage[q]) => p = q

\* A holder's file is there and answers; a file is taken for a leftover only if
\* nobody listens at it, and a process binds where no file is.
SocketInv ==
  ~tangled =>
    /\ Apart
    /\ \A p \in Procs : Holder(p) => sock = p /\ p \in listening
    /\ \A p \in Procs : stage[p] = "unlink" => sock \notin listening
    /\ \A p \in Procs : stage[p] = "bind" => sock = NoFile
    /\ \A p \in Procs : stage[p] = "remove" => sock = p

\* Two that are at the file at once are noticed.
LEMMA ApartStep ==
  ASSUME ProcsOK, ~tangled => Apart, NEW p \in Procs, NEW s \in Stages, GoTo(p, s), ~tangled',
         command' = command
  PROVE  ~tangled /\ Apart /\ Apart'
<1>1. tangled' = (tangled \/ \E q \in Procs \ {p} : AtSocket(q, stage[q]) /\ AtSocket(p, s))
  BY DEF GoTo
<1>2. ~tangled /\ \A q \in Procs \ {p} : ~(AtSocket(q, stage[q]) /\ AtSocket(p, s))
  BY <1>1
<1>3. stage'[p] = s /\ \A q \in Procs \ {p} : stage'[q] = stage[q]
  BY GoingOn
<1>4. \A q \in Procs, z \in Stages : AtSocket(q, z)' <=> AtSocket(q, z)
  BY DEF AtSocket
<1>5. \A q \in Procs : AtSocket(q, stage[q])' <=> IF q = p THEN AtSocket(p, s) ELSE AtSocket(q, stage[q])
  BY <1>3 DEF AtSocket
<1> QED BY <1>2, <1>5 DEF Apart

\* A process that moves on, but for its start, leaves the others their file.
LEMMA SocketGoes ==
  ASSUME ProcsOK, ScansScan, SocketInv, NEW p \in Procs, OnItsWay(p), ~tangled'
  PROVE  SocketInv'
<1> USE DaemonAssumption
<1>1. command' = command /\ \E s \in Stages : GoTo(p, s)
  BY DEF OnItsWay, OpenDb, Exists, Connect, Unlink, Bind, Ended, Scanned, Remove, Checkpoint,
         Stages
<1>2. ~tangled /\ Apart /\ Apart'
  BY <1>1, ApartStep DEF SocketInv
<1>3. \A q \in Procs \ {p} : stage'[q] = stage[q]
  BY <1>1, GoingOn
<1>4. /\ \A q \in Procs : Holder(q) => sock = q /\ q \in listening
      /\ \A q \in Procs : stage[q] = "unlink" => sock \notin listening
      /\ \A q \in Procs : stage[q] = "bind" => sock = NoFile
      /\ \A q \in Procs : stage[q] = "remove" => sock = q
  BY <1>2 DEF SocketInv
<1> DEFINE Good == /\ \A q \in Procs : Holder(q)' => sock' = q /\ q \in listening'
                   /\ \A q \in Procs : stage'[q] = "unlink" => sock' \notin listening'
                   /\ \A q \in Procs : stage'[q] = "bind" => sock' = NoFile
                   /\ \A q \in Procs : stage'[q] = "remove" => sock' = q
<1>5. ASSUME NEW s \in Stages, GoTo(p, s) PROVE stage'[p] = s
  BY <1>5, GoingOn
<1>6. CASE OpenDb(p)
  <2>1. /\ stage[p] = "open" /\ sock' = sock
        /\ \/ stage'[p] = (IF command[p] = "run" THEN "exists" ELSE "scan") /\ listening' = listening
           \/ stage'[p] = "off" /\ listening' = listening \ {p}
    BY <1>5, <1>6 DEF OpenDb, Stages
  <2>2. command[p] \in {"run", "scan"}
    BY DEF ProcsOK
  <2> QED BY <1>1, <1>2, <1>3, <1>4, <2>1, <2>2 DEF Holder, SocketInv
<1>7. CASE Exists(p)
  <2>1. /\ stage[p] = "exists" /\ UNCHANGED <<sock, listening>>
        /\ stage'[p] = IF sock = NoFile THEN "bind" ELSE "connect"
    BY <1>5, <1>7 DEF Exists, Stages
  <2> QED BY <1>1, <1>2, <1>3, <1>4, <2>1 DEF Holder, SocketInv
<1>8. CASE Connect(p)
  <2>1. /\ stage[p] = "connect" /\ UNCHANGED <<sock, listening>>
        /\ stage'[p] = IF sock \in listening THEN "off" ELSE "unlink"
    BY <1>5, <1>8 DEF Connect, Stages
  <2> QED BY <1>1, <1>2, <1>3, <1>4, <2>1 DEF Holder, SocketInv
<1>9. CASE Unlink(p)
  <2>1. /\ stage[p] = "unlink" /\ sock' = NoFile /\ listening' = listening
        /\ stage'[p] = IF sock = NoFile THEN "off" ELSE "bind"
    BY <1>5, <1>9 DEF Unlink, Stages
  <2>2. \A q \in Procs : ~Holder(q)
    BY <1>4, <2>1
  <2>3. \A q \in Procs \ {p} : stage[q] \notin {"unlink", "bind"} /\ ~(stage[q] = "remove")
    <3>1. AtSocket(p, stage[p])
      BY <2>1 DEF AtSocket
    <3>2. \A q \in Procs \ {p} : ~AtSocket(q, stage[q])
      BY <1>2, <3>1 DEF Apart
    <3>3. \A q \in Procs : command[q] \in {"run", "scan"}
      BY DEF ProcsOK
    <3> QED BY <2>2, <3>2, <3>3 DEF AtSocket, Holder
  <2> QED BY <1>1, <1>2, <1>3, <2>1, <2>2, <2>3 DEF Holder, SocketInv
<1>10. CASE Bind(p)
  <2>1. /\ stage[p] = "bind" /\ sock = NoFile
        /\ sock' = p /\ listening' = listening \union {p}
        /\ stage'[p] = IF command[p] = "run" THEN "up" ELSE "open"
    BY <1>4, <1>5, <1>10 DEF Bind, Stages
  <2>2. \A q \in Procs : ~Holder(q) /\ stage[q] # "remove"
    BY <1>4, <2>1
  <2>3. \A q \in Procs \ {p} : stage[q] \notin {"unlink", "bind"}
    BY <1>2, <2>1 DEF Apart, AtSocket
  <2>4. command[p] \in {"run", "scan"}
    BY DEF ProcsOK
  <2> QED BY <1>1, <1>2, <1>3, <2>1, <2>2, <2>3, <2>4 DEF Holder, SocketInv
<1>11. CASE Ended(p)
  <2>1. /\ stage[p] = "up" /\ UNCHANGED <<sock, listening>> /\ stage'[p] = "remove"
    BY <1>5, <1>11 DEF Ended, Up, Stages
  <2> QED BY <1>1, <1>2, <1>3, <1>4, <2>1 DEF Holder, SocketInv
<1>12. CASE Scanned(p)
  <2>1. /\ stage[p] = "scan" /\ sock' = sock /\ listening' = listening \ {p}
        /\ stage'[p] = "remove" /\ command[p] = "scan"
    BY <1>5, <1>12 DEF Scanned, Stages, ScansScan
  <2>2. sock = p /\ \A q \in Procs \ {p} : Holder(q)' => Holder(q)
    BY <1>1, <1>3, <1>4, <2>1 DEF Holder
  <2>3. ~Holder(p)'
    BY <1>1, <2>1 DEF Holder
  <2> QED BY <1>2, <1>3, <1>4, <2>1, <2>2, <2>3 DEF SocketInv
<1>13. CASE Remove(p)
  <2>1. /\ stage[p] = "remove" /\ sock' = NoFile /\ listening' = listening
        /\ stage'[p] = "checkpoint"
    BY <1>5, <1>13 DEF Remove, Stages
  <2>2. sock = p
    BY <1>4, <2>1
  <2>3. \A q \in Procs \ {p} : ~Holder(q) /\ stage[q] # "remove"
    BY <1>4, <2>2
  <2>4. NoFile \notin listening
    BY DEF ProcsOK
  <2> QED BY <1>1, <1>2, <1>3, <1>4, <2>1, <2>3, <2>4 DEF Holder, SocketInv
<1>14. CASE Checkpoint(p)
  <2>1. /\ stage[p] = "checkpoint" /\ sock' = sock /\ listening' = listening \ {p}
        /\ stage'[p] = "off"
    BY <1>5, <1>14 DEF Checkpoint, Stages
  <2> QED BY <1>1, <1>2, <1>3, <1>4, <2>1 DEF Holder, SocketInv
<1> QED BY <1>6, <1>7, <1>8, <1>9, <1>10, <1>11, <1>12, <1>13, <1>14 DEF OnItsWay

LEMMA SocketStep ==
  ASSUME ProcsOK, ScansScan, SocketInv, [DaemonNext]_daemon PROVE SocketInv'
<1> USE DaemonAssumption
<1>1. SUFFICES ASSUME ~tangled' PROVE SocketInv'
  BY DEF SocketInv
<1>2. ASSUME NEW p \in Procs, OnItsWay(p) PROVE SocketInv'
  BY <1>1, <1>2, SocketGoes
<1>3. CASE UNCHANGED <<stage, command, sock, listening, tangled>>
  BY <1>3 DEF SocketInv, Apart, AtSocket, Holder
<1>4. CASE UNCHANGED procs
  BY <1>3, <1>4 DEF procs
<1>5. ASSUME NEW p \in Procs, Start(p) PROVE SocketInv'
  <2>1. PICK c \in {"run", "scan"} :
          /\ command' = [command EXCEPT ![p] = c]
          /\ GoTo(p, IF c = "run" THEN "open" ELSE "exists")
    BY <1>5 DEF Start
  <2>2. stage[p] = "off" /\ UNCHANGED <<sock, listening>>
    BY <1>5 DEF Start
  <2>3. /\ stage'[p] = IF c = "run" THEN "open" ELSE "exists"
        /\ \A q \in Procs \ {p} : stage'[q] = stage[q]
    BY <2>1, GoingOn DEF Stages
  <2>4. command'[p] = c /\ \A q \in Procs \ {p} : command'[q] = command[q]
    BY <2>1 DEF ProcsOK
  <2>5. ~tangled
    BY <1>1, <2>1 DEF GoTo
  <2>6. \A q \in Procs : Holder(q)' => Holder(q)
    BY <2>3, <2>4 DEF Holder
  <2>7. Apart'
    BY <2>3, <2>4, <2>5 DEF Apart, AtSocket, SocketInv
  <2> QED BY <2>2, <2>3, <2>5, <2>6, <2>7 DEF SocketInv
<1>6. ASSUME NEW p \in Procs, Signal(p) PROVE SocketInv'
  BY <1>3, <1>6 DEF Signal
<1>7. ASSUME NEW p \in Procs, Kill(p) PROVE SocketInv'
  <2>1. /\ GoTo(p, "off") /\ listening' = listening \ {p} /\ UNCHANGED <<command, sock>>
    BY <1>7 DEF Kill
  <2>2. stage'[p] = "off" /\ \A q \in Procs \ {p} : stage'[q] = stage[q]
    BY <2>1, GoingOn DEF Stages
  <2>3. ~tangled /\ Apart'
    BY <1>1, <2>1, ApartStep DEF SocketInv, Stages
  <2> QED BY <2>1, <2>2, <2>3 DEF SocketInv, Holder
<1>8. CASE (\E t \in Threads : Send(t)) \/ InThreads \/ Ask \/ UNCHANGED daemon
  <2>1. UNCHANGED procs
    BY <1>8 DEF Send, InThreads, Ask, HangUp, Answer, Execute, Fail, StopWalk, CutShort, daemon
  <2> QED BY <1>4, <2>1
<1> QED BY <1>2, <1>5, <1>6, <1>7, <1>8 DEF DaemonNext

\* control.sock leads to the process at work, so that there is only one and its
\* commands reach it, as long as no two processes were at the file at once
\* (control.rs, mo).
THEOREM SocketLeadsThere == DaemonSpec => []Reachable
<1>1. ASSUME DaemonInit PROVE SocketInv /\ ScansScan
  BY <1>1 DEF DaemonInit, SocketInv, Apart, AtSocket, Holder, ScansScan
<1>2. SocketInv => Reachable
  BY DEF SocketInv, Holder, Reachable
<1> QED BY <1>1, <1>2, ScansStep, SocketStep, TypesKept, PTL DEF DaemonSpec
=============================================================================
