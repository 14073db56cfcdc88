------------------------------ MODULE Verdicts ------------------------------
(***************************************************************************)
(* What becomes of a verdict "different": the system of Pipeline, together *)
(* with two history variables that remember which pairs of files the       *)
(* worker has told apart.  verify.rs keeps no table of such pairs.  That a *)
(* file moves on to groups with a greater id, and never back, is to make   *)
(* one unnecessary, whoever leads those groups by then.                    *)
(***************************************************************************)
EXTENDS MCPipeline

VARIABLES
  finding,   \* the pair the worker has just told apart, or {}
  apart      \* the pairs told apart whose verdict is in the tables

history_vars == <<vars, finding, apart>>

Pair == {work.file, work.peer}

\* A file in this state starts anew: what was known of its content is
\* withdrawn, or it has still to be given a group.
Anew == {"settling", "sized", "absent"}

\* The verdict is reached in FinishDiffers, and lost when the daemon dies or
\* the compare-and-swap fails.
NextFinding == IF FinishDiffers THEN Pair ELSE IF work' = Idle THEN {} ELSE finding

\* It counts from the commit on, until one of the two files starts anew.
NextApart ==
  LET stored == IF Commit /\ Applies(rows, work.t) THEN {finding} \ {{}} ELSE {}
  IN {pair \in apart \union stored : \A f \in pair : rows'[f].state \notin Anew}

HistoryInit == Init /\ finding = {} /\ apart = {}
HistoryNext == Next /\ finding' = NextFinding /\ apart' = NextApart
HistorySpec == HistoryInit /\ [][HistoryNext]_history_vars

\* khac_nhau: two files whose difference is on record are not compared again
\* until one of them starts anew, whatever happens to the groups meanwhile:
\* a leader that is lost and succeeded, comes back or is purged; a verdict of
\* another file; a comparison that fails; the daemon dying.
NeverRecompare ==
  [][work.phase # "compare" /\ work'.phase = "compare" => Pair' \notin apart]_history_vars
=============================================================================
