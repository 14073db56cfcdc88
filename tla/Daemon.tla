------------------------------- MODULE Daemon -------------------------------
(***************************************************************************)
(* The processes of nasdedup around one state directory: `nasdedup run`,   *)
(* which starts the threads and stops them, and `nasdedup scan`            *)
(* (crates/daemon/src/platform/linux.rs).  The file control.sock is to     *)
(* keep them apart (crates/linux/src/control.rs).  In a running daemon the *)
(* threads share one connection: each call is a job in the queue of the    *)
(* database thread, and its caller waits for the answer (crates/db/src/    *)
(* actor).  The steps of RescanFlag are such jobs here.                    *)
(*                                                                         *)
(* A second daemon that got past the socket is there, but its threads are  *)
(* not modelled: those of the first one, the host, are.                    *)
(***************************************************************************)
EXTENDS RescanFlag, Sequences, FiniteSets

CONSTANTS
  Procs,      \* the processes an operator may start
  NoFile,     \* there is no control.sock
  MaxStarts,  \* bound: how often one is started
  MaxErrors,  \* bound: how often a call to the database fails
  QueueCap    \* the channel of the database thread

ASSUME DaemonAssumption ==
  /\ NoFile \notin Procs /\ {MaxStarts, MaxErrors} \subseteq Nat /\ QueueCap \in Nat \ {0}

VARIABLES
  command,    \* what a process was started as
  stage,      \* where it is
  sock,       \* whose listener control.sock is, alive or not
  listening,  \* the processes with an open listener
  told,       \* those that got SIGTERM: CoDung
  host,       \* the daemon whose threads are modelled, or NoFile
  calls,      \* the channel: the threads whose job is in it
  control,    \* the control thread of the host
  tangled,    \* history: two processes were at the socket file at once
  starts, errors

procs   == <<command, stage, sock, listening, told, tangled, starts>>
threads == <<host, calls, control, errors>>
daemon  == <<vars, procs, threads>>

Threads == {"watcher", "scheduler", "worker"}

Up(p) == stage[p] = "up"
Waiting(t) == \E i \in 1..Len(calls) : calls[i] = t
Told == host \in told

\* p, at s, is between its look at the socket file and what it does with it;
\* a scan no longer listens when it removes the file.
AtSocket(p, s) ==
  s \in {"connect", "unlink", "bind"} \/ (s = "remove" /\ command[p] = "scan")

\* p goes on; it ends if it is to go "off".
GoTo(p, s) ==
  /\ stage' = [stage EXCEPT ![p] = s]
  /\ tangled' = (tangled \/ \E q \in Procs \ {p} : AtSocket(q, stage[q]) /\ AtSocket(p, s))
  /\ told' = IF s = "off" THEN told \ {p} ELSE told

(* ----------------------------- the socket ----------------------------- *)

\* A command is given.  A daemon opens the database and writes the roots
\* before it looks for another one, a scan after.
Start(p) ==
  /\ stage[p] = "off" /\ starts < MaxStarts /\ starts' = starts + 1
  /\ \E c \in {"run", "scan"} :
       /\ command' = [command EXCEPT ![p] = c]
       /\ GoTo(p, IF c = "run" THEN "open" ELSE "exists")
  /\ UNCHANGED <<vars, sock, listening, threads>>

\* khoi_dong_chung: on an error the process ends, and leaves its socket file.
OpenDb(p) ==
  /\ stage[p] = "open"
  /\ \/ /\ GoTo(p, IF command[p] = "run" THEN "exists" ELSE "scan")
        /\ UNCHANGED <<listening, errors>>
     \/ /\ errors < MaxErrors /\ errors' = errors + 1
        /\ GoTo(p, "off") /\ listening' = listening \ {p}
  /\ UNCHANGED <<vars, command, sock, starts, host, calls, control>>

\* mo: p.exists() ...
Exists(p) ==
  /\ stage[p] = "exists"
  /\ GoTo(p, IF sock = NoFile THEN "bind" ELSE "connect")
  /\ UNCHANGED <<vars, command, sock, listening, starts, threads>>

\* Mutant: a socket file is always taken for a leftover.
ConnectNever(p) ==
  /\ stage[p] = "connect"
  /\ GoTo(p, "unlink")
  /\ UNCHANGED <<vars, command, sock, listening, starts, threads>>

\* ... connect: somebody who listens is another daemon, and AddrInUse ends p.
Connect(p) ==
  /\ stage[p] = "connect"
  /\ GoTo(p, IF sock \in listening THEN "off" ELSE "unlink")
  /\ control' = IF sock = host /\ control = "accept" THEN "serve" ELSE control
  /\ UNCHANGED <<vars, command, sock, listening, starts, host, calls, errors>>

\* ... remove_file, of whatever is there by now ...
Unlink(p) ==
  /\ stage[p] = "unlink"
  /\ GoTo(p, IF sock = NoFile THEN "off" ELSE "bind")
  /\ sock' = NoFile
  /\ UNCHANGED <<vars, command, listening, starts, threads>>

\* ... and bind, which fails if there is a file again.  run_daemon starts its
\* threads now.
Bind(p) ==
  /\ stage[p] = "bind"
  /\ IF sock # NoFile
       THEN GoTo(p, "off") /\ UNCHANGED <<sock, listening, host, control>>
       ELSE /\ sock' = p /\ listening' = listening \union {p}
            /\ GoTo(p, IF command[p] = "run" THEN "up" ELSE "open")
            /\ IF command[p] = "run" /\ host = NoFile THEN host' = p /\ control' = "accept"
                                                      ELSE UNCHANGED <<host, control>>
  /\ UNCHANGED <<vars, command, starts, calls, errors>>

(* --------------------------- the way down ----------------------------- *)

\* SIGTERM, once the trap is set.
Signal(p) ==
  /\ stage[p] \in {"up", "scan"} /\ told' = told \union {p}
  /\ UNCHANGED <<vars, command, stage, sock, listening, tangled, starts, threads>>

\* The threads of the host have ended.
Joined == control = "done" /\ watcher = Idle /\ scheduler = Idle /\ calls = <<>>

\* thread::scope of run_daemon is over.
Ended(p) ==
  /\ Up(p) /\ p \in told /\ (p = host => Joined)
  /\ GoTo(p, "remove")
  /\ UNCHANGED <<vars, command, sock, listening, starts, threads>>

\* scan: the walks are over, whether they were told to stop or not.
Scanned(p) ==
  /\ stage[p] = "scan"
  /\ GoTo(p, "remove")
  /\ listening' = listening \ {p}
  /\ UNCHANGED <<vars, command, sock, starts, threads>>

\* remove_file, of whatever is there ...
Remove(p) ==
  /\ stage[p] = "remove"
  /\ GoTo(p, "checkpoint")
  /\ sock' = NoFile
  /\ UNCHANGED <<vars, command, listening, starts, threads>>

\* ... and the checkpoint; the listener of a daemon is closed with it.
Checkpoint(p) ==
  /\ stage[p] = "checkpoint"
  /\ GoTo(p, "off") /\ listening' = listening \ {p}
  /\ IF p = host THEN host' = NoFile /\ control' = "accept" ELSE UNCHANGED <<host, control>>
  /\ UNCHANGED <<vars, command, sock, starts, calls, errors>>

\* kill -9 or a loss of power: nobody removes the socket file.
Kill(p) ==
  /\ stage[p] # "off"
  /\ GoTo(p, "off") /\ listening' = listening \ {p}
  /\ IF p = host THEN Restart /\ host' = NoFile /\ control' = "accept" /\ calls' = <<>>
                 ELSE UNCHANGED <<vars, host, control, calls>>
  /\ UNCHANGED <<command, sock, starts, errors>>

(* ----------------------------- the threads ---------------------------- *)

\* A client connects to the host; xu_ly serves it, or gives it up after 5 s.
Ask ==
  /\ control = "accept" /\ host # NoFile /\ sock = host /\ control' = "serve"
  /\ UNCHANGED <<vars, procs, host, calls, errors>>
Answer ==
  /\ control = "serve" /\ control' = "accept"
  /\ UNCHANGED <<vars, procs, host, calls, errors>>

\* Mutant: accept blocks, and the flag is looked at after the next client.
HangUpAfterClient ==
  /\ control = "serve" /\ Told /\ control' = "done"
  /\ UNCHANGED <<vars, procs, host, calls, errors>>

\* phuc_vu looks at the flag every 200 ms.
HangUp ==
  /\ control = "accept" /\ Told /\ control' = "done"
  /\ UNCHANGED <<vars, procs, host, calls, errors>>

\* What a thread asks the database next.  A thread that was told to stop ends
\* where it looks at the flag; the watcher gets rid of its events first.
Wants(t) ==
  CASE t = "watcher"   -> watcher.pc = "raise" \/ losses < MaxLosses
    [] t = "scheduler" -> ~Told \/ scheduler.pc \in {"look", "clear"}
    [] t = "worker"    -> ~Told

\* Mutant: the channel has no bound.
SendUnbounded(t) ==
  /\ host # NoFile /\ Up(host) /\ ~Waiting(t) /\ Wants(t)
  /\ calls' = Append(calls, t)
  /\ UNCHANGED <<vars, procs, host, control, errors>>

\* DbHandle.call: wait for room in the channel, then for the answer.
Send(t) ==
  /\ host # NoFile /\ Up(host) /\ ~Waiting(t) /\ Wants(t)
  /\ Len(calls) < QueueCap
  /\ calls' = Append(calls, t)
  /\ UNCHANGED <<vars, procs, host, control, errors>>

\* run_loop: the oldest job, and its answer.
Execute ==
  /\ calls # <<>> /\ calls' = Tail(calls)
  /\ \/ Head(calls) = "watcher"   /\ (Lose \/ Raise)
     \/ Head(calls) = "scheduler" /\ (Begin \/ Done \/ Look \/ Clear)
     \/ Head(calls) = "worker"    /\ UNCHANGED vars
  /\ UNCHANGED <<procs, host, control, errors>>

\* dat_quet_lai reads a failure as "no generation", and drops its signal if
\* it cannot write it.
WatcherFails ==
  /\ \/ /\ watcher = Idle /\ losses < MaxLosses /\ losses' = losses + 1
        /\ watcher' = At("raise", 0) /\ UNCHANGED <<loss, raced>>
     \/ /\ watcher.pc = "raise" /\ watcher' = Idle
        /\ loss' = "owed" /\ raced' = TRUE /\ UNCHANGED losses
  /\ UNCHANGED <<flag, scheduler, cuts>>

\* the_he_quet_lai reads it as "off"; a walk whose date cannot be written is
\* not complete.
SchedulerFails ==
  /\ \/ scheduler = Idle /\ scheduler' = At("walk", 0)
        /\ loss' = (IF loss = "owed" THEN "walked" ELSE loss) /\ UNCHANGED raced
     \/ scheduler.pc = "walk" /\ scheduler' = Idle
        /\ loss' = (IF loss = "walked" THEN "owed" ELSE loss) /\ UNCHANGED raced
     \/ scheduler.pc = "look"
        /\ scheduler' = (IF scheduler.read = 0 THEN At("clear", 0) ELSE Idle)
        /\ raced' = (raced \/ (scheduler.read = 0 /\ flag # 0)) /\ UNCHANGED loss
     \/ scheduler.pc = "clear" /\ scheduler' = Idle /\ UNCHANGED <<loss, raced>>
  /\ UNCHANGED <<flag, watcher, losses, cuts>>

\* The same job, with an error for an answer: the database is busy, or full.
Fail ==
  /\ errors < MaxErrors /\ errors' = errors + 1
  /\ calls # <<>> /\ calls' = Tail(calls)
  /\ \/ Head(calls) = "watcher"   /\ WatcherFails
     \/ Head(calls) = "scheduler" /\ SchedulerFails
     \/ Head(calls) = "worker"    /\ UNCHANGED vars
  /\ UNCHANGED <<procs, host, control>>

\* A walk is cut: a root cannot be read ...
CutShort == ~Waiting("scheduler") /\ Cut /\ UNCHANGED <<procs, threads>>

\* ... or the daemon is to stop.
StopWalk ==
  /\ Told /\ ~Waiting("scheduler") /\ scheduler.pc = "walk" /\ scheduler' = Idle
  /\ loss' = IF loss = "walked" THEN "owed" ELSE loss
  /\ UNCHANGED <<flag, watcher, raced, losses, cuts, procs, threads>>

(* ----------------------------- the system ----------------------------- *)

DaemonInit ==
  /\ Init
  /\ command = [p \in Procs |-> "run"] /\ stage = [p \in Procs |-> "off"]
  /\ sock = NoFile /\ listening = {} /\ told = {} /\ host = NoFile
  /\ calls = <<>> /\ control = "accept" /\ tangled = FALSE /\ starts = 0 /\ errors = 0

OnItsWay(p) ==
  OpenDb(p) \/ Exists(p) \/ Connect(p) \/ Unlink(p) \/ Bind(p)
  \/ Ended(p) \/ Scanned(p) \/ Remove(p) \/ Checkpoint(p)

InThreads == HangUp \/ Answer \/ Execute \/ Fail \/ StopWalk \/ CutShort

DaemonNext ==
  \/ \E p \in Procs : Start(p) \/ OnItsWay(p) \/ Signal(p) \/ Kill(p)
  \/ \E t \in Threads : Send(t)
  \/ InThreads \/ Ask

DaemonSpec == DaemonInit /\ [][DaemonNext]_daemon

\* The processes and the database thread go on, a thread that waits for room
\* in the channel gets it, and the control thread comes round to the flag.
DaemonFairSpec ==
  /\ DaemonSpec
  /\ \A p \in Procs : WF_daemon(OnItsWay(p))
  /\ WF_daemon(Execute \/ Fail) /\ WF_daemon(StopWalk) /\ WF_daemon(Answer)
  /\ SF_daemon(HangUp)
  /\ \A t \in {"watcher", "scheduler"} : SF_daemon(Send(t))

(* ----------------------------- properties ----------------------------- *)

\* The types of the variables, of the signal's too: a thread has one job in the channel at most,
\* and the channel holds no more than it may.
DaemonTypeOK ==
  /\ TypeOK
  /\ command \in [Procs -> {"run", "scan"}]
  /\ stage \in [Procs -> {"off", "open", "exists", "connect", "unlink", "bind", "up",
                          "scan", "remove", "checkpoint"}]
  /\ {sock, host} \subseteq Procs \union {NoFile}
  /\ listening \subseteq Procs /\ told \subseteq Procs
  /\ calls \in Seq(Threads) /\ Len(calls) <= QueueCap
  /\ \A i, j \in 1..Len(calls) : calls[i] = calls[j] => i = j
  /\ control \in {"accept", "serve", "done"} /\ tangled \in BOOLEAN
  /\ starts \in 0..MaxStarts /\ errors \in 0..MaxErrors

\* control.sock leads to the process at work, so that there is only one and
\* `pause` reaches it (control.rs, mo): as long as no two processes are at the
\* file at the same time.
Reachable == ~tangled => \A p \in Procs : stage[p] \in {"up", "scan"} => sock = p

\* There is never a second process at work on the database: mo is to make sure
\* of it (control.rs:101-103, linux.rs:88-89).
OneAtWork == \A p, q \in Procs : {stage[p], stage[q]} \subseteq {"up", "scan"} => p = q

\* SIGTERM ends a daemon, whatever its threads wait for.
StopEnds == \A p \in Procs : p \in told ~> stage[p] = "off"

\* Events that were lost are made good for as long as the daemon stays up,
\* also if the signal was lost because a call failed.
MadeGood == loss # "none" ~> (loss = "none" \/ host = NoFile)
=============================================================================
