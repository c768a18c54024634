-------------------------- MODULE EthereumObservation --------------------------
(***************************************************************************)
(* One Ethereum address observed through a JSON-RPC node: a payment is     *)
(* told from two balances, at the latest block and RequiredConfirmations   *)
(* blocks deep.  The two are read by two requests at heights fixed when    *)
(* the poll cycle began, while blocks are added and branches replaced.     *)
(*                                                                         *)
(* The blockchain and the node are external; the observer is the code.     *)
(* Bounds: MaxHeight blocks, MaxBalance.  A reorganisation never reaches a *)
(* block that RequiredConfirmations calls confirmed: MaxReorg is smaller.  *)
(***************************************************************************)
EXTENDS Integers, Sequences

CONSTANTS
  RequiredConfirmations,
  MaxReorg,    \* blocks a reorganisation may replace
  MaxHeight,   \* bound: blocks
  MaxBalance   \* bound: balance of the address, in minor units

ASSUME ConstantsAssumption ==
  /\ RequiredConfirmations \in Nat \ {0}
  /\ MaxReorg \in Nat /\ MaxReorg < RequiredConfirmations
  /\ MaxHeight \in Nat \ {0} /\ MaxBalance \in Nat

Balance == 0..MaxBalance
Unread == -1

VARIABLES
  balance,    \* balance[h]: balance of the address at block h of the chain
  pc,         \* what the observer asks for next
  tip,        \* LatestBlockHeight, as fetched for the cycle
  observed,   \* balance read at the latest block
  confirmed,  \* balance read at the confirmed block
  results,    \* history: [height, amount] confirmed by some observation
  moment      \* history: the chain when the balance at the tip was read

vars == <<balance, pc, tip, observed, confirmed, results, moment>>

Init ==
  /\ balance = << 0 >>
  /\ pc = "idle" /\ tip = 0 /\ observed = Unread /\ confirmed = Unread
  /\ results = {} /\ moment = << >>

-----------------------------------------------------------------------------
(* The blockchain: payments and sweeps change the balance. *)

Mine(b) ==
  /\ Len(balance) < MaxHeight
  /\ balance' = Append(balance, b)
  /\ UNCHANGED <<pc, tip, observed, confirmed, results, moment>>

\* The last d blocks are replaced by d + 1 others.
Reorganise(d) ==
  /\ d < Len(balance) /\ Len(balance) < MaxHeight
  /\ balance' \in [1..(Len(balance) + 1) -> Balance]
  /\ \A h \in 1..(Len(balance) - d) : balance'[h] = balance[h]
  /\ UNCHANGED <<pc, tip, observed, confirmed, results, moment>>

-----------------------------------------------------------------------------
(* The observer. *)

\* Mutant: a block less deep is called confirmed.
ShallowHeight == tip - RequiredConfirmations + 2
ConfirmedHeight == tip - RequiredConfirmations + 1

\* Mutant: the height of the block that is still being built.
FetchPendingTip ==
  /\ pc = "idle"
  /\ tip' = Len(balance) + 1
  /\ pc' = "observe"
  /\ UNCHANGED <<balance, observed, confirmed, results, moment>>

\* eth_blockNumber, once per poll cycle.
FetchTip ==
  /\ pc = "idle"
  /\ tip' = Len(balance)
  /\ pc' = "observe"
  /\ UNCHANGED <<balance, observed, confirmed, results, moment>>

ReadObserved ==
  /\ pc = "observe"
  /\ observed' = balance[tip]
  /\ moment' = balance
  /\ pc' = "confirm"
  /\ UNCHANGED <<balance, tip, confirmed, results>>

\* The second read, left out when the chain is still shorter than
\* RequiredConfirmations.
ReadConfirmed ==
  /\ pc = "confirm"
  /\ confirmed' = IF ConfirmedHeight > 0 THEN balance[ConfirmedHeight] ELSE 0
  /\ pc' = "subtract"
  /\ UNCHANGED <<balance, tip, observed, results, moment>>

\* What was read is dropped; the height stays, the poll cycle remembers it.
Drop ==
  /\ pc' = "idle"
  /\ observed' = Unread /\ confirmed' = Unread /\ moment' = << >>
  /\ UNCHANGED <<balance, tip, results>>

EndOfCycle ==
  /\ pc' = "idle"
  /\ tip' = 0 /\ observed' = Unread /\ confirmed' = Unread /\ moment' = << >>
  /\ UNCHANGED <<balance, results>>

\* Mutant: a negative difference is taken as it is.
AnyDifference(o, c) == TRUE
\* safeSubtractInt64NonNegative
CanSubtract(o, c) == c <= o

\* The totals go to the poller.
Report ==
  /\ pc = "subtract"
  /\ CanSubtract(observed, confirmed)
  /\ results' = IF ConfirmedHeight > 0
                THEN results \cup {[height |-> ConfirmedHeight, amount |-> confirmed]}
                ELSE results
  /\ pc' = "reported"
  /\ UNCHANGED <<balance, tip, observed, confirmed, moment>>

\* More was confirmed than is still there: the address has been swept.
RefuseDifference ==
  /\ pc = "subtract"
  /\ ~CanSubtract(observed, confirmed)
  /\ Drop

RequestFails == pc \in {"observe", "confirm"} /\ Drop

-----------------------------------------------------------------------------
Next ==
  \/ \E b \in Balance : Mine(b)
  \/ \E d \in 1..MaxReorg : Reorganise(d)
  \/ FetchTip \/ ReadObserved \/ ReadConfirmed \/ Report
  \/ RefuseDifference \/ RequestFails \/ EndOfCycle

Spec == Init /\ [][Next]_vars

-----------------------------------------------------------------------------
(* Properties *)

\* Every variable keeps its type, and no height beyond the chain is asked for.
TypeOK ==
  /\ balance \in Seq(Balance) /\ Len(balance) \in 1..MaxHeight
  /\ pc \in {"idle", "observe", "confirm", "subtract", "reported"}
  /\ tip \in 0..Len(balance) /\ (pc # "idle" => tip > 0)
  /\ observed \in Balance \cup {Unread}
  /\ confirmed \in Balance \cup {Unread}
  /\ pc \in {"subtract", "reported"} => confirmed \in Balance
  /\ results \in SUBSET [height: 1..MaxHeight, amount: Balance]
  /\ moment \in Seq(Balance)

\* What was once reported as confirmed is the balance at that block for good, so
\* a payment that is settled on it never has to be looked at again.
ConfirmedStays ==
  \A r \in results : r.height \in DOMAIN balance /\ balance[r.height] = r.amount

\* The two balances belong to one chain, even though a reorganisation may fall
\* between the reads, and what was confirmed has not been swept since: totals
\* add up to the balance at the tip.
ReportIsOneChain ==
  pc = "reported" =>
    /\ observed = moment[tip]
    /\ confirmed = IF ConfirmedHeight > 0 THEN moment[ConfirmedHeight] ELSE 0
    /\ confirmed <= observed
=============================================================================
