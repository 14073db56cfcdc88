----------------------------- MODULE MCWatcher -----------------------------
EXTENDS Watcher, TLC

CONSTANTS ia, ib, ic, da, db, na, nb

\* Two directories; one file in the first of them.
OneFile == [p \in Paths |-> IF p = <<da, na>> THEN ia ELSE Nothing]
=============================================================================
