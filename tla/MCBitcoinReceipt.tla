-------------------------- MODULE MCBitcoinReceipt --------------------------
(* Instances of BitcoinReceipt for TLC. *)
EXTENDS BitcoinReceipt

CONSTANTS t1, t2, t3

\* No two sets of transactions pay the same.
Distinct == [t \in Tx |-> CASE t = t1 -> 1 [] t = t2 -> 2 [] t = t3 -> 4]
\* t2 and t3 spend the same coin.
DoubleSpend == {{t2, t3}}
=============================================================================
