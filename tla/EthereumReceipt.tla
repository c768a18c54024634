---------------------------- MODULE EthereumReceipt ----------------------------
(***************************************************************************)
(* The receipt of one Ethereum address: a poller claims its row, reads the *)
(* two balances while the chain moves on, and saves what follows.  A sweep *)
(* moves the balance to the treasury and looks to the observer like a      *)
(* payment that was never made: sweeping is somebody else's script, and    *)
(* nothing keeps it from coming before the receipt is confirmed.           *)
(*                                                                         *)
(* One address and one poller, as in BitcoinReceipt.                       *)
(***************************************************************************)
EXTENDS EthereumObservation

CONSTANTS
  Receiver, Cycle, Ethereum,  \* the address, the poller and their network
  Expected,                   \* amount due
  PaymentWindow,
  MaxFaults,                  \* bound: observations whose request fails
  Idle, ObserverError

VARIABLES
  row, due, lease, window,  \* the row, as in ReceiptPolling
  batch, work, age,         \* the poll cycle, as in ReceiptPolling
  faults,                   \* requests that failed
  course                    \* history: what has become of the payment

receiptVars == <<row, due, lease, window, batch, work, age>>
allVars == <<vars, receiptVars, faults, course>>

\* The chain and the outbox of ReceiptPolling are not looked at here; the height
\* is known to a cycle from FetchTip until it has saved.
Polling ==
  INSTANCE ReceiptPolling WITH
    Address <- {Receiver}, Poller <- {Cycle}, Network <- {Ethereum},
    NetworkOf <- [a \in {Receiver} |-> Ethereum],
    Scope <- [w \in {Cycle} |-> {Ethereum}], Reach <- [w \in {Cycle} |-> {Ethereum}],
    ExpectedAmount <- [a \in {Receiver} |-> Expected],
    BatchSize <- 1, ClaimTTL <- 2, RescheduleInterval <- 1,
    MayOverrunLease <- FALSE, MaxAmount <- 0, MaxMoves <- 0,
    tip <- [w \in {Cycle} |-> [n \in {Ethereum} |-> IF tip = 0 THEN "unknown" ELSE "known"]],
    chain <- [a \in {Receiver} |-> [confirmed |-> 0, unconfirmed |-> 0]],
    paidInTime <- [a \in {Receiver} |-> FALSE],
    outbox <- [a \in {Receiver} |-> << >>], moves <- 0, faults <- 0

ASSUME ReceiptAssumption ==
  /\ Expected \in Nat \ {0} /\ PaymentWindow \in Nat \ {0} /\ MaxFaults \in Nat
  /\ ObserverError \notin Polling!Observation /\ Idle \notin Polling!Work

ReceiptInit ==
  /\ Init
  /\ row = [a \in {Receiver} |-> Polling!NewTracking]
  /\ due = [a \in {Receiver} |-> 0] /\ lease = [a \in {Receiver} |-> 0]
  /\ window = [a \in {Receiver} |-> PaymentWindow]
  /\ batch = [w \in {Cycle} |-> {}] /\ work = [w \in {Cycle} |-> Idle]
  /\ age = [w \in {Cycle} |-> 0]
  /\ faults = 0 /\ course = "open"

-----------------------------------------------------------------------------
Working == work[Cycle] = Idle /\ batch[Cycle] # {}

Totals ==
  [observed |-> observed, confirmed |-> confirmed, unconfirmed |-> observed - confirmed]

Claim ==
  /\ UNCHANGED <<vars, faults, course>>
  /\ Polling!ClaimDue(Cycle)

\* processTracking calls the observer: one request after the other ...
Ask ==
  /\ Working
  /\ FetchTip \/ ReadObserved \/ ReadConfirmed \/ Report
  /\ UNCHANGED <<receiptVars, faults, course>>

\* ... until it has totals ...
Receive ==
  /\ pc = "reported"
  /\ UNCHANGED <<vars, faults, course>>
  /\ \E c \in batch[Cycle] : Polling!ObserveAs(Cycle, c, Totals)

\* ... which are none when the balance has gone down ...
Refuse ==
  /\ Working
  /\ RefuseDifference
  /\ \E c \in batch[Cycle] : Polling!ObserveAs(Cycle, c, ObserverError)
  /\ UNCHANGED <<faults, course>>

\* ... or a request fails.
GiveUp ==
  /\ Working
  /\ faults < MaxFaults
  /\ RequestFails
  /\ \E c \in batch[Cycle] : Polling!ObserveAs(Cycle, c, ObserverError)
  /\ faults' = faults + 1
  /\ UNCHANGED course

Save ==
  /\ EndOfCycle
  /\ Polling!SaveRow(Cycle)
  /\ UNCHANGED <<faults, course>>

Latest == balance[Len(balance)]

\* A block with a payment, a sweep or neither.
NextBlock ==
  /\ \E b \in Balance : Mine(b)
  /\ course' =
       IF balance'[Len(balance')] < Latest THEN "disturbed"
       ELSE IF course = "open" /\ balance'[Len(balance')] >= Expected /\ window[Receiver] > 0
            THEN "inTime" ELSE course
  /\ UNCHANGED <<receiptVars, faults>>

OtherBranch ==
  /\ \E d \in 1..MaxReorg : Reorganise(d)
  /\ course' = "disturbed"
  /\ UNCHANGED <<receiptVars, faults>>

Tick ==
  /\ UNCHANGED <<vars, faults, course>>
  /\ Polling!Tick

CycleStep == Claim \/ Ask \/ Receive \/ Refuse \/ Save

ReceiptNext == CycleStep \/ GiveUp \/ NextBlock \/ OtherBranch \/ Tick

\* The poller is never stopped; the chain owes nothing.
ReceiptSpec ==
  ReceiptInit /\ [][ReceiptNext]_allVars /\ WF_allVars(CycleStep) /\ WF_allVars(Tick)

-----------------------------------------------------------------------------
(* Properties *)

Receipt == row[Receiver]

\* Only a sweep or a reorganisation unpays: a payment that came in time and whose
\* balance never went down is neither expired nor reverted, however its blocks
\* fall between the reads of a cycle and the end of the payment window.
OnlySweepsUnpay ==
  [][course = "inTime" /\ row' # row =>
       row'[Receiver].status \notin {Polling!FailedExpired, Polling!PaidReverted}]_allVars

\* Nothing has been swept from the blocks that count, and they hold the amount.
Unswept ==
  /\ Len(balance) >= RequiredConfirmations
  /\ LET deep == balance[Len(balance) - RequiredConfirmations + 1] IN
     deep >= Expected /\ Latest >= deep

\* A payment that came in time, or was seen once, is confirmed in the end if it is
\* left where it is.  Sweeps and reorganisations that are made good, and failed
\* requests, only delay that.
UnsweptPaymentIsConfirmed ==
  <>[]Unswept /\ (<>[](course = "inTime") \/ <>(Receipt.paid))
    => <>(Receipt.status = Polling!PaidConfirmed)
=============================================================================
