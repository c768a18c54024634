-------------------------- MODULE MCReceiptPolling --------------------------
(* Instances of ReceiptPolling for TLC. *)
EXTENDS ReceiptPolling, TLC

CONSTANTS a1, a2, w1, w2, w3, n1, n2

\* One unit cannot be part-paid; two can.
ExpectedOfTwo == [a \in Address |-> IF a = a1 THEN 2 ELSE 1]
ExpectedTwo == [a \in Address |-> 2]

\* w2 claims every row but has an endpoint for the first network alone.
OnePerNetwork == a1 :> n1 @@ a2 :> n2
EveryNetwork == [w \in Poller |-> Network]
SecondReachesFirst == w1 :> {n1, n2} @@ w2 :> {n1}

\* w3 is scoped to a network no address lies on.
OnFirst == [a \in Address |-> n1]
OneApart == w1 :> {n1} @@ w2 :> {n1} @@ w3 :> {n2}
=============================================================================
