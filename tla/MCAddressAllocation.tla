-------------------------- MODULE MCAddressAllocation --------------------------
(* An instance of AddressAllocation for TLC. *)
EXTENDS AddressAllocation, TLC

CONSTANTS r1, r2, r3, r4, k1, p1, p2, five, six

Asks(key, policy, payload) == [key |-> key, policy |-> policy, payload |-> payload]

\* Two tries of one request, a misuse of its key and a request without a key.
RetriesAndMisuse ==
  r1 :> Asks(k1, p1, five) @@ r2 :> Asks(k1, p1, five)
  @@ r3 :> Asks(k1, p2, five) @@ r4 :> Asks(NoKey, p1, six)

\* Policies may share a public key, so that different rows have one address:
\* here the second row and the third have, and so on.
Pair == 0..(MaxId \div 2)
InPairs(p, s, i) == i \div 2

\* The only slot of p1 may have been left failed by an earlier release.
FailedSlot ==
  {[id |-> 1, policy |-> p1, slot |-> 0, payload |-> six,
    status |-> "derivation_failed", address |-> NoAddress]}
=============================================================================
