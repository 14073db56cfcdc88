-------------------------- MODULE RescanFlagProofs --------------------------
(***************************************************************************)
(* Signals of lost events are kept, whatever the number of losses and of   *)
(* reconciles cut short.  The invariant is not inductive as it stands: the *)
(* last write of a reconcile is safe because the generation it captured is *)
(* never reached again while it runs.                                      *)
(***************************************************************************)
EXTENDS RescanFlag, TLAPS

\* The generation the watcher is about to exceed is not behind the flag.
RaiseIsFresh == watcher.pc = "raise" => flag <= watcher.read

\* The flag only rises while a reconcile runs ...
CaptureIsOld == scheduler.pc \in {"walk", "look"} => scheduler.read <= flag

\* ... and has risen when the reconcile does not cover the loss.
OwedShows ==
  scheduler.pc \in {"walk", "look"} /\ loss = "owed" => scheduler.read < flag

\* A loss is covered by the reconcile that walks.
WalkedWalks == loss = "walked" => scheduler.pc = "walk"

\* What is cleared is cleared rightly, or in the race.
ClearIsDue == scheduler.pc = "clear" => loss = "none" \/ raced

IInv ==
  /\ TypeOK /\ RaiseIsFresh /\ CaptureIsOld /\ OwedShows /\ WalkedWalks
  /\ ClearIsDue /\ LossRememberedButForRace

\* The initial states satisfy the invariant: the flag a former process left
\* on stands for a loss that is still owed.
LEMMA InitInv == ASSUME Init PROVE IInv
<1>1. TypeOK
  <2>1. raced \in BOOLEAN
    BY Zenon DEF Init
  <2>2. loss \in {"none", "owed", "walked"}
    BY Zenon DEF Init
  <2>3. /\ flag \in Nat /\ losses \in Nat /\ cuts \in Nat
        /\ watcher \in [pc : {"idle", "raise"}, read : Nat]
        /\ scheduler \in [pc : {"idle", "walk", "look", "clear"}, read : Nat]
    BY DEF Init, Idle
  <2> QED BY <2>1, <2>2, <2>3 DEF TypeOK
<1>2. watcher.pc = "idle" /\ scheduler.pc = "idle" /\ loss # "walked"
  BY DEF Init, Idle
<1>3. LossRemembered
  BY DEF Init, LossRemembered
<1> QED BY <1>1, <1>2, <1>3 DEF IInv, RaiseIsFresh, CaptureIsOld, OwedShows,
                                WalkedWalks, ClearIsDue, LossRememberedButForRace

\* No step of either thread, and no restart, leaves the invariant.
LEMMA NextInv == ASSUME IInv, [Next]_vars PROVE IInv'
<1> USE DEF IInv, TypeOK, RaiseIsFresh, CaptureIsOld, OwedShows, WalkedWalks,
            ClearIsDue, LossRememberedButForRace, LossRemembered, Idle, At
<1>1. CASE Lose    BY <1>1 DEF Lose
<1>2. CASE Raise
  <2>1. raced' \in BOOLEAN
    BY <1>2, Zenon DEF Raise
  <2>2. scheduler.pc = "clear" => raced'
    BY <1>2, Zenon DEF Raise
  <2>3. /\ flag' = watcher.read + 1 /\ watcher' = Idle /\ loss' = "owed"
        /\ watcher.pc = "raise"
        /\ UNCHANGED <<scheduler, losses, cuts>>
    BY <1>2 DEF Raise
  <2> QED BY <2>1, <2>2, <2>3
<1>3. CASE Begin   BY <1>3 DEF Begin
<1>4. CASE Cut     BY <1>4 DEF Cut
<1>5. CASE Done
  <2>1. raced' \in BOOLEAN /\ (raced' => raced)
    BY <1>5, Zenon DEF Done
  <2>2. raced /\ loss # "walked" => raced'
    BY <1>5, Zenon DEF Done
  <2>3. /\ scheduler.pc = "walk" /\ scheduler' = At("look", scheduler.read)
        /\ loss' = IF loss = "walked" THEN "none" ELSE loss
        /\ UNCHANGED <<flag, watcher, losses, cuts>>
    BY <1>5 DEF Done
  <2> QED BY <2>1, <2>2, <2>3
<1>6. CASE Look    BY <1>6 DEF Look
<1>7. CASE Clear   BY <1>7 DEF Clear
<1>8. CASE Restart BY <1>8 DEF Restart
<1>9. CASE UNCHANGED vars BY <1>9 DEF vars
<1> QED BY <1>1, <1>2, <1>3, <1>4, <1>5, <1>6, <1>7, <1>8, <1>9 DEF Next, Watcher, Scheduler

\* The inductive invariant holds in every state of every behaviour.
THEOREM Invariance == Spec => []IInv
BY InitInv, NextInv, PTL DEF Spec

\* The flag and the two threads keep their types.
THEOREM TypeCorrect == Spec => []TypeOK
<1>1. IInv => TypeOK BY DEF IInv
<1> QED BY <1>1, Invariance, PTL

\* Every loss that no later reconcile covers is remembered by the flag, but
\* for a signal that rose between the last look at the generation and the
\* write that clears it (dat_quet_lai, xoa_quet_lai_neu_khong_doi).
THEOREM SignalsKept == Spec => []LossRememberedButForRace
<1>1. IInv => LossRememberedButForRace BY DEF IInv
<1> QED BY <1>1, Invariance, PTL
=============================================================================
