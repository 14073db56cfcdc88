----------------------------- MODULE RescanFlag -----------------------------
(***************************************************************************)
(* meta.rescan_needed: how the watcher thread tells the scheduler thread   *)
(* that it lost events, and how the scheduler forgets it again             *)
(* (crates/linux/src/lich/khoi_dong.rs, viec.rs).  The key holds a         *)
(* generation, "0" when nothing is to be done.  Either thread only has     *)
(* meta_get and meta_set, so whatever it read may be old when it writes.   *)
(***************************************************************************)
EXTENDS Integers

CONSTANTS MaxLosses,  \* bound: how often the watcher loses events
          MaxCuts     \* bound: how often a reconcile is cut or the daemon dies

ASSUME RescanAssumption == {MaxLosses, MaxCuts} \subseteq Nat

VARIABLES
  flag,       \* the generation in the table meta; 0 is off
  watcher,    \* [pc, read]: dat_quet_lai(true) has read but not written
  scheduler,  \* [pc, read]: where the delta reconcile is, and what it captured
  loss,       \* "none", "owed": a walk must still cover it, "walked": one does
  raced,      \* history: the flag rose between the last look and the clearing,
              \* or not at all, and no reconcile has made good for it yet
  losses,     \* how often events were lost so far
  cuts        \* how often a reconcile was cut so far

vars == <<flag, watcher, scheduler, loss, raced, losses, cuts>>

Idle == [pc |-> "idle", read |-> 0]
At(pc, read) == [pc |-> pc, read |-> read]

Init ==
  /\ flag \in {0, 1} /\ loss = IF flag = 0 THEN "none" ELSE "owed"
  /\ watcher = Idle /\ scheduler = Idle
  /\ raced = FALSE /\ losses = 0 /\ cuts = 0

(* ------------------------------ watcher ------------------------------- *)

\* Events are lost; dat_quet_lai reads the generation ...
Lose ==
  /\ watcher = Idle /\ losses < MaxLosses
  /\ watcher' = At("raise", flag)
  /\ losses' = losses + 1
  /\ UNCHANGED <<flag, scheduler, loss, raced, cuts>>

\* Mutant: the generation counts down, and wraps around.
RaiseDown ==
  /\ watcher.pc = "raise"
  /\ flag' = watcher.read - 1
  /\ watcher' = Idle
  /\ loss' = "owed"
  /\ raced' = (raced \/ scheduler.pc = "clear")
  /\ UNCHANGED <<scheduler, losses, cuts>>

\* ... and writes the next one.
Raise ==
  /\ watcher.pc = "raise"
  /\ flag' = watcher.read + 1
  /\ watcher' = Idle
  /\ loss' = "owed"
  /\ raced' = (raced \/ scheduler.pc = "clear" \/ watcher.read < flag)
  /\ UNCHANGED <<scheduler, losses, cuts>>

(* ----------------------------- scheduler ------------------------------ *)

\* Mutant: a reconcile runs only when the flag is on.
BeginWhenFlagged ==
  /\ scheduler = Idle /\ flag # 0
  /\ scheduler' = At("walk", flag)
  /\ loss' = IF loss = "owed" THEN "walked" ELSE loss
  /\ UNCHANGED <<flag, watcher, raced, losses, cuts>>

\* reconcile: capture the generation before the first entry.  It runs because
\* the flag is on or because six hours went by.
Begin ==
  /\ scheduler = Idle
  /\ scheduler' = At("walk", flag)
  /\ loss' = IF loss = "owed" THEN "walked" ELSE loss
  /\ UNCHANGED <<flag, watcher, raced, losses, cuts>>

\* Not every root was walked to the end: the flag is left alone.
Cut ==
  /\ scheduler.pc = "walk" /\ cuts < MaxCuts
  /\ scheduler' = Idle
  /\ loss' = IF loss = "walked" THEN "owed" ELSE loss
  /\ cuts' = cuts + 1
  /\ UNCHANGED <<flag, watcher, raced, losses>>

\* Every root was walked.
Done ==
  /\ scheduler.pc = "walk"
  /\ scheduler' = At("look", scheduler.read)
  /\ loss' = IF loss = "walked" THEN "none" ELSE loss
  /\ raced' = (raced /\ loss # "walked")
  /\ UNCHANGED <<flag, watcher, losses, cuts>>

\* Mutant: the generation is not compared.
LookBlindly ==
  /\ scheduler.pc = "look"
  /\ scheduler' = At("clear", flag)
  /\ UNCHANGED <<flag, watcher, loss, raced, losses, cuts>>

\* xoa_quet_lai_neu_khong_doi: read the generation again ...
Look ==
  /\ scheduler.pc = "look"
  /\ scheduler' = IF flag = scheduler.read THEN At("clear", flag) ELSE Idle
  /\ UNCHANGED <<flag, watcher, loss, raced, losses, cuts>>

\* ... and switch the flag off if it is the captured one.
Clear ==
  /\ scheduler.pc = "clear"
  /\ flag' = 0
  /\ scheduler' = Idle
  /\ UNCHANGED <<watcher, loss, raced, losses, cuts>>

\* The daemon dies: the flag is in the database, the rest is not.  Events not
\* reported yet fall to the reconcile of the next boot.
Restart ==
  /\ cuts < MaxCuts
  /\ cuts' = cuts + 1
  /\ watcher' = Idle /\ scheduler' = Idle
  /\ loss' = IF loss = "walked" THEN "owed" ELSE loss
  /\ UNCHANGED <<flag, raced, losses>>

Watcher   == Lose \/ Raise
Scheduler == Begin \/ Cut \/ Done \/ Look \/ Clear

Next == Watcher \/ Scheduler \/ Restart

Spec == Init /\ [][Next]_vars

(* ----------------------------- properties ----------------------------- *)

\* The types of the variables: the generation and what the two threads hold.
TypeOK ==
  /\ flag \in Nat /\ losses \in Nat /\ cuts \in Nat
  /\ watcher \in [pc : {"idle", "raise"}, read : Nat]
  /\ scheduler \in [pc : {"idle", "walk", "look", "clear"}, read : Nat]
  /\ loss \in {"none", "owed", "walked"} /\ raced \in BOOLEAN

\* While events are lost and no reconcile that began later went through all
\* roots, the flag is on: the generation makes up for the missing
\* compare-and-swap (khoi_dong.rs, the_he_quet_lai).
LossRemembered == loss # "none" => flag # 0

\* The same, but for signals raised between the last look at the generation
\* and the write that clears it: nothing else loses a signal.
LossRememberedButForRace == ~raced => LossRemembered
=============================================================================
