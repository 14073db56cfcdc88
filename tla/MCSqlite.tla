------------------------------ MODULE MCSqlite ------------------------------
(* Two inodes, a local and a remote root, two directories of one file each *)
(* in the local one, and a root nobody has registered.                     *)
EXTENDS Sqlite, TLC
CONSTANTS k1, k2

L(root, dir) == [root |-> root, path |-> <<dir, "a">>]
Fp(b, c)     == [body |-> b, ctime |-> c]
Dir(dir)     == [root |-> 1, path |-> dir]

MCKeys == {k1, k2}
MCKind == (1 :> "local" @@ 2 :> "remote")
Sight(k, fp, loc) == [key |-> k, fp |-> fp, loc |-> loc]
MCSightings ==
  {Sight(k1, Fp(1, 1), L(1, "d")), Sight(k1, Fp(1, 2), L(2, "d")),
   Sight(k2, Fp(1, 1), L(1, "e"))}
MCDirs == {Dir(<<"d">>), Dir(<<"e">>)}
MCWaits == {1}
MCWalked == {1}
MCFps  == {Fp(1, 1)}
MCAllowed == {{Dir(<<"d">>), Dir(<<>>)}, {Dir(<<"e">>)}}

Entry(k, fp, loc, st) == [key |-> k, fp |-> fp, loc |-> loc, state |-> st]
MCScanBatches ==
  {<<Entry(k1, Fp(1, 1), L(1, "d"), "sized"), Entry(k2, Fp(1, 1), L(1, "e"), "sized"), Entry(k2, Fp(1, 1), L(1, "d"), "settling")>>,
   <<Entry(k2, Fp(1, 1), L(1, "d"), "sized"), Entry(k1, Fp(1, 1), L(3, "d"), "sized")>>}

MCSeenBatches ==
  {<<Sight(k2, Fp(1, 1), L(1, "d")), Sight(k1, Fp(1, 2), L(1, "e"))>>,
   <<Sight(k1, Fp(1, 1), L(1, "d")), Sight(k2, Fp(1, 1), L(3, "d"))>>}
Twice == {<<Sight(k1, Fp(1, 2), L(1, "d")), Sight(k1, Fp(1, 2), L(1, "e"))>>}
All   == MCSeenBatches \union Twice
None  == {}

\* A new library, and one with a group: k1 is a proved copy of k2.
Row(id, st, loc) ==
  [id |-> id, loc |-> loc, fp |-> Fp(1, 1), state |-> st, prev |-> "none", ready |-> 0,
   waits |-> 0, known |-> TRUE, group |-> 1, skip |-> "none", updated |-> 1]
New     == [files |-> (k1 :> Absent @@ k2 :> Absent), groups |-> << >>]
Grouped == [files  |-> (k1 :> Row(1, "verified", L(1, "d")) @@ k2 :> Row(2, "canonical", L(1, "e"))),
            groups |-> <<[canon |-> 2, verified |-> 1]>>]
MCStarts == {New, Grouped}

\* What was called and what it returned do not decide what can happen next.
Tables == <<now, files, content_groups, seen, session, held, born, births>>
=============================================================================
