---------------------------- MODULE BitcoinReceipt ----------------------------
(***************************************************************************)
(* The receipt of one Bitcoin address: a poller claims its row, observes   *)
(* the address request by request while the chain moves on, and saves what *)
(* follows.  BitcoinObservation is what the poller of ReceiptPolling has   *)
(* in place of a look at the chain at one instant.                         *)
(*                                                                         *)
(* One address and one poller, which dies nowhere: many of them, and       *)
(* crashes, are the matter of ReceiptPolling.  The events of the receipt   *)
(* are the matter of Pipeline.                                             *)
(***************************************************************************)
EXTENDS BitcoinObservation

CONSTANTS
  Receiver, Cycle, Bitcoin,  \* the address, the poller and their network
  Expected,                  \* amount due
  PaymentWindow,
  MaxFaults,                 \* bound: observations that fail
  Idle, ObserverError

VARIABLES
  row, due, lease, window,  \* the row, as in ReceiptPolling
  batch, work, age,         \* the poll cycle, as in ReceiptPolling
  faults                    \* observations that failed

receiptVars == <<row, due, lease, window, batch, work, age>>
allVars == <<vars, receiptVars, faults>>

\* The chain and the outbox of ReceiptPolling are not looked at here; the height
\* is known to a cycle from FetchTip until it has saved.
Polling ==
  INSTANCE ReceiptPolling WITH
    Address <- {Receiver}, Poller <- {Cycle}, Network <- {Bitcoin},
    NetworkOf <- [a \in {Receiver} |-> Bitcoin],
    Scope <- [w \in {Cycle} |-> {Bitcoin}], Reach <- [w \in {Cycle} |-> {Bitcoin}],
    ExpectedAmount <- [a \in {Receiver} |-> Expected],
    BatchSize <- 1, ClaimTTL <- 2, RescheduleInterval <- 1,
    MayOverrunLease <- FALSE, MaxAmount <- 0, MaxMoves <- 0,
    tip <- [w \in {Cycle} |-> [n \in {Bitcoin} |-> IF tip = 0 THEN "unknown" ELSE "known"]],
    chain <- [a \in {Receiver} |-> NoResult], paidInTime <- [a \in {Receiver} |-> FALSE],
    outbox <- [a \in {Receiver} |-> << >>], moves <- 0, faults <- 0

ASSUME ReceiptAssumption ==
  /\ Expected \in Nat \ {0} /\ PaymentWindow \in Nat \ {0} /\ MaxFaults \in Nat
  /\ ObserverError \notin Polling!Observation /\ Idle \notin Polling!Work

Init ==
  /\ ObservationInit
  /\ row = [a \in {Receiver} |-> Polling!NewTracking]
  /\ due = [a \in {Receiver} |-> 0] /\ lease = [a \in {Receiver} |-> 0]
  /\ window = [a \in {Receiver} |-> PaymentWindow]
  /\ batch = [w \in {Cycle} |-> {}] /\ work = [w \in {Cycle} |-> Idle]
  /\ age = [w \in {Cycle} |-> 0]
  /\ faults = 0

-----------------------------------------------------------------------------
Report ==
  [observed |-> Observed, confirmed |-> result.confirmed, unconfirmed |-> result.unconfirmed]

Claim ==
  /\ UNCHANGED <<vars, faults>>
  /\ Polling!ClaimDue(Cycle)

\* processTracking calls the observer: one request after the other ...
Ask ==
  /\ work[Cycle] = Idle /\ batch[Cycle] # {}
  /\ FetchTip \/ ReadPage \/ ReadMempool
  /\ UNCHANGED <<receiptVars, faults>>

\* ... until it has totals ...
Receive ==
  /\ pc = "observed"
  /\ UNCHANGED <<vars, faults>>
  /\ \E c \in batch[Cycle] : Polling!ObserveAs(Cycle, c, Report)

\* ... or gives up.
GiveUp ==
  /\ faults < MaxFaults
  /\ RequestFails
  /\ \E c \in batch[Cycle] : Polling!ObserveAs(Cycle, c, ObserverError)
  /\ faults' = faults + 1

Save ==
  /\ Rest
  /\ Polling!SaveRow(Cycle)
  /\ UNCHANGED faults

ChainMoves == ChainStep /\ UNCHANGED <<receiptVars, faults>>
Tick == UNCHANGED <<vars, faults>> /\ Polling!Tick

CycleStep == Claim \/ Ask \/ Receive \/ Save

Next == CycleStep \/ GiveUp \/ ChainMoves \/ Tick

\* The poller is never stopped; the chain owes nothing.
Spec == Init /\ [][Next]_allVars /\ WF_allVars(CycleStep) /\ WF_allVars(Tick)

-----------------------------------------------------------------------------
(* Properties *)

Receipt == row[Receiver]
\* Payments that count: not in a block stamped before the address was issued.
Counting(S) == Total({t \in S : ~InEarlyBlock(t)})
Deep == {t \in Tx : \E h \in DOMAIN chain :
           t \in chain[h].txs /\ Len(chain) - h + 1 >= RequiredConfirmations}

\* Every variable keeps its type.
TypeOK ==
  /\ ObservationTypeOK
  /\ Receipt \in Polling!Tracking
  /\ due[Receiver] \in 0..1 /\ lease[Receiver] \in 0..2
  /\ window[Receiver] \in 0..PaymentWindow
  /\ batch[Cycle] \in SUBSET Polling!Claim
  /\ work[Cycle] \in Polling!Work \cup {Idle}
  /\ age[Cycle] \in 0..2
  /\ faults \in 0..MaxFaults

\* What the receipt calls confirmed is in the chain for good: the height is read
\* before the transactions, so confirmations are never overstated.
ConfirmedStaysMined == Receipt.confirmed <= Counting(Mined(chain))

\* Unless a payment moves while it is being observed, the receipt is paid: the
\* only payments that can be missed, and so expire or be called reverted, are
\* those mined between the requests of one observation, or reorganised.
RestingPaymentIsPaid ==
  [][work[Cycle] # Idle /\ work'[Cycle] = Idle =>
       (pc = "observed" /\ calm /\ Counting(steady) >= Expected
          => row'[Receiver].status \in {Polling!PaidUnconfirmed, Polling!PaidConfirmed})]_allVars

\* A payment that was seen in full once and lies deep in the chain is confirmed
\* in the end; being missed, replaced or reorganised on the way only delays it.
PaidIsConfirmedInTheEnd ==
  <>(Receipt.paid) /\ <>[](Counting(Deep) >= Expected)
    => <>(Receipt.status = Polling!PaidConfirmed)
=============================================================================
