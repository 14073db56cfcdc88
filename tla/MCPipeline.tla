----------------------------- MODULE MCPipeline -----------------------------
EXTENDS PipelineClaims, TLC

CONSTANTS f1, f2, f3, x, y, z, h, k

\* Every content has its own hash ...
OneToOne == x :> h @@ y :> k
\* ... or all share one.
Colliding == x :> h @@ y :> h

\* Three contents with one hash.
OneHash == x :> h @@ y :> h @@ z :> h

\* Two of three contents share a hash.
Mixed == x :> h @@ y :> h @@ z :> k

\* One content only.
Single == x :> h

\* How often each file is written.
Once      == [f \in Files |-> 1]
Twice     == [f \in Files |-> 2]
OnlyFirst == [f \in Files |-> IF f = f1 THEN 2 ELSE 1]

\* Files are alike if they are written equally often, contents if they share
\* their hash.
SwapContents == Permutations({x, y})
SwapOthers   == Permutations({f2, f3}) \union Permutations({x, y})
SwapBoth     == Permutations({f1, f2}) \union Permutations({x, y})
SwapAll      == Permutations({f1, f2, f3}) \union Permutations({x, y, z})
=============================================================================
