--------------------------- MODULE MCCreate2Sweep ---------------------------
(* Instances of Create2Sweep for TLC. *)
EXTENDS Create2Sweep, TLC

CONSTANTS r1, r2, r3, f1, f2, c1, c2, k1, k2, eth, usdt, o1

\* The collector was changed between two builds.
Collectors == c1 :> k1 @@ c2 :> k2
\* Two rows to be paid in the chain's own coin, one in a token.
Assets == r1 :> eth @@ r2 :> eth @@ r3 :> usdt

\* A customer pays again to an address that may have been swept.
Payments == r1 :> 1 @@ r2 :> 1 @@ r3 :> 2

\* Two rows of one asset, the factories, and the collectors with their init codes
\* can be exchanged.
CollectorSwap == c1 :> c2 @@ c2 :> c1 @@ k1 :> k2 @@ k2 :> k1
Symmetric == Permutations({r1, r2}) \cup Permutations({f1, f2}) \cup {CollectorSwap}
=============================================================================
