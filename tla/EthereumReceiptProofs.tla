------------------------- MODULE EthereumReceiptProofs -------------------------
(***************************************************************************)
(* What an Ethereum observer reports belongs to one chain, and a balance   *)
(* that was reported as confirmed stays the balance at its block, for      *)
(* every number of confirmations and every depth of reorganisation below.  *)
(*                                                                         *)
(* The observer in the hands of a poller is still the observer, so both    *)
(* hold of the receipt; and only a sweep or a reorganisation unpays it.    *)
(***************************************************************************)
EXTENDS EthereumReceipt, TLAPS

-----------------------------------------------------------------------------
(* The observer alone. *)

\* Blocks that RequiredConfirmations calls confirmed lie below what a
\* reorganisation may replace.
Buried(h) == h \in 1..(Len(balance) - RequiredConfirmations + 1)

\* The inductive invariant: what has been reported, and what is about to be
\* reported, was read from a buried block.
ConfirmedInv ==
  /\ TypeOK
  /\ \A r \in results : Buried(r.height) /\ balance[r.height] = r.amount
  /\ pc \in {"subtract", "reported"} /\ ConfirmedHeight > 0
       => balance[ConfirmedHeight] = confirmed

\* No step of the blockchain changes a buried block.
LEMMA BuriedStays ==
  ASSUME TypeOK, NEW h, Buried(h),
         \/ \E b \in Balance : Mine(b)
         \/ \E d \in 1..MaxReorg : Reorganise(d)
  PROVE  Buried(h)' /\ balance'[h] = balance[h]
<1> USE ConstantsAssumption
<1>1. ASSUME NEW b \in Balance, Mine(b) PROVE Buried(h)' /\ balance'[h] = balance[h]
  BY <1>1 DEF Mine, TypeOK, Buried
<1>2. ASSUME NEW d \in 1..MaxReorg, Reorganise(d)
      PROVE  Buried(h)' /\ balance'[h] = balance[h]
  <2>1. Len(balance') = Len(balance) + 1
    BY <1>2 DEF Reorganise, TypeOK
  <2>2. h \in 1..(Len(balance) - d)
    BY <1>2 DEF TypeOK, Buried
  <2> QED
    BY <1>2, <2>1, <2>2 DEF Reorganise, TypeOK, Buried
<1> QED
  BY <1>1, <1>2

LEMMA ConfirmedInit == Init => ConfirmedInv
BY ConstantsAssumption DEF Init, ConfirmedInv, TypeOK, Balance, Unread

LEMMA ListOfLength ==
  ASSUME NEW S, NEW n \in Nat, NEW f \in [1..n -> S]
  PROVE  f \in Seq(S) /\ Len(f) = n
OBVIOUS

LEMMA TypingStep == TypeOK /\ [Next]_vars => TypeOK'
<1> SUFFICES ASSUME TypeOK, [Next]_vars PROVE TypeOK'
  OBVIOUS
<1> USE ConstantsAssumption DEF TypeOK
<1>1. ASSUME NEW b \in Balance, Mine(b) PROVE TypeOK'
  BY <1>1 DEF Mine
<1>2. ASSUME NEW d \in 1..MaxReorg, Reorganise(d) PROVE TypeOK'
  <2>1. Len(balance) + 1 \in 1..MaxHeight
    BY <1>2 DEF Reorganise
  <2>2. balance' \in Seq(Balance) /\ Len(balance') = Len(balance) + 1
    <3>1. balance' \in [1..(Len(balance) + 1) -> Balance]
      BY <1>2 DEF Reorganise
    <3> HIDE DEF TypeOK
    <3> QED
      BY <2>1, <3>1, ListOfLength
  <2> QED
    BY <1>2, <2>1, <2>2 DEF Reorganise
<1>3. CASE FetchTip
  BY <1>3 DEF FetchTip
<1>4. CASE ReadObserved
  BY <1>4 DEF ReadObserved
<1>5. CASE ReadConfirmed
  BY <1>5 DEF ReadConfirmed, ConfirmedHeight, Balance
<1>6. CASE Report
  <2>1. confirmed \in Balance
    BY <1>6 DEF Report
  <2>2. ConfirmedHeight > 0 => ConfirmedHeight \in 1..MaxHeight
    BY DEF ConfirmedHeight
  <2> QED
    BY <1>6, <2>1, <2>2 DEF Report
<1>7. CASE RefuseDifference \/ RequestFails \/ EndOfCycle
  <2>1. << >> \in Seq(Balance) /\ 0 \in 0..Len(balance)
    OBVIOUS
  <2> QED
    BY <1>7, <2>1 DEF RefuseDifference, RequestFails, Drop, EndOfCycle
<1>8. CASE UNCHANGED vars
  BY <1>8 DEF vars
<1> HIDE DEF TypeOK
<1> QED
  BY <1>1, <1>2, <1>3, <1>4, <1>5, <1>6, <1>7, <1>8 DEF Next

LEMMA ConfirmedStep == ConfirmedInv /\ [Next]_vars => ConfirmedInv'
<1> SUFFICES ASSUME ConfirmedInv, [Next]_vars PROVE ConfirmedInv'
  OBVIOUS
<1> USE ConstantsAssumption DEF ConfirmedInv
<1>0. TypeOK'
  BY TypingStep
<1>1. CASE (\E b \in Balance : Mine(b)) \/ (\E d \in 1..MaxReorg : Reorganise(d))
  <2>1. UNCHANGED <<pc, tip, confirmed, results>>
    BY <1>1 DEF Mine, Reorganise
  <2>2. \A r \in results : Buried(r.height)' /\ balance'[r.height] = r.amount
    BY <1>1, BuriedStays
  <2>3. ASSUME pc \in {"subtract", "reported"}, ConfirmedHeight > 0
        PROVE  balance'[ConfirmedHeight] = confirmed
    <3>1. Buried(ConfirmedHeight)
      BY <2>3 DEF Buried, ConfirmedHeight, TypeOK
    <3> QED
      BY <1>1, <2>3, <3>1, BuriedStays
  <2> QED
    BY <1>0, <2>1, <2>2, <2>3 DEF ConfirmedHeight
<1>2. CASE FetchTip
  BY <1>0, <1>2 DEF FetchTip, Buried
<1>3. CASE ReadObserved
  BY <1>0, <1>3 DEF ReadObserved, Buried
<1>4. CASE ReadConfirmed
  BY <1>0, <1>4 DEF ReadConfirmed, Buried, ConfirmedHeight
<1>5. CASE Report
  <2>1. ConfirmedHeight > 0 => Buried(ConfirmedHeight)
    BY DEF Buried, ConfirmedHeight, TypeOK
  <2> QED
    BY <1>0, <1>5, <2>1 DEF Report, Buried, ConfirmedHeight
<1>6. CASE RefuseDifference \/ RequestFails \/ EndOfCycle
  BY <1>0, <1>6 DEF RefuseDifference, RequestFails, Drop, EndOfCycle, Buried
<1>7. CASE UNCHANGED vars
  BY <1>0, <1>7 DEF vars, Buried, ConfirmedHeight
<1> QED
  BY <1>1, <1>2, <1>3, <1>4, <1>5, <1>6, <1>7 DEF Next

\* A confirmed amount never has to be taken back: reorganisations shallower than
\* RequiredConfirmations do not reach the block it was read from.
THEOREM ConfirmedIsFinal == Spec => []ConfirmedStays
<1>1. ConfirmedInv => ConfirmedStays
  BY ConstantsAssumption DEF ConfirmedInv, ConfirmedStays, Buried, TypeOK
<1> QED
  BY <1>1, ConfirmedInit, ConfirmedStep, PTL DEF Spec

\* What is known of the balances that have been read: once the first was, the
\* block the second is read from is the same in the chain of that moment.
OneChainInv ==
  /\ ConfirmedInv
  /\ pc \in {"confirm", "subtract", "reported"} =>
       /\ observed = moment[tip]
       /\ ConfirmedHeight > 0 => balance[ConfirmedHeight] = moment[ConfirmedHeight]
  /\ pc \in {"subtract", "reported"} =>
       confirmed = IF ConfirmedHeight > 0 THEN balance[ConfirmedHeight] ELSE 0
  /\ pc = "reported" => confirmed <= observed

LEMMA OneChainInit == Init => OneChainInv
BY ConfirmedInit DEF Init, OneChainInv

LEMMA OneChainStep == OneChainInv /\ [Next]_vars => OneChainInv'
<1> SUFFICES ASSUME OneChainInv, [Next]_vars PROVE OneChainInv'
  OBVIOUS
<1> USE ConstantsAssumption DEF OneChainInv
<1>0. ConfirmedInv' /\ TypeOK
  BY ConfirmedStep DEF ConfirmedInv
<1>1. CASE (\E b \in Balance : Mine(b)) \/ (\E d \in 1..MaxReorg : Reorganise(d))
  <2>1. UNCHANGED <<pc, tip, observed, confirmed, moment>>
    BY <1>1 DEF Mine, Reorganise
  <2>2. ASSUME pc # "idle", ConfirmedHeight > 0
        PROVE  balance'[ConfirmedHeight] = balance[ConfirmedHeight]
    <3>1. Buried(ConfirmedHeight)
      BY <1>0, <2>2 DEF Buried, ConfirmedHeight, TypeOK
    <3> QED
      BY <1>0, <1>1, <3>1, BuriedStays
  <2> QED
    BY <1>0, <2>1, <2>2 DEF ConfirmedHeight
<1>2. CASE FetchTip
  BY <1>0, <1>2 DEF FetchTip
<1>3. CASE ReadObserved
  BY <1>0, <1>3 DEF ReadObserved, ConfirmedHeight
<1>4. CASE ReadConfirmed
  BY <1>0, <1>4 DEF ReadConfirmed, ConfirmedHeight
<1>5. CASE Report
  BY <1>0, <1>5 DEF Report, ConfirmedHeight, CanSubtract
<1>6. CASE RefuseDifference \/ RequestFails \/ EndOfCycle
  BY <1>0, <1>6 DEF RefuseDifference, RequestFails, Drop, EndOfCycle
<1>7. CASE UNCHANGED vars
  BY <1>0, <1>7 DEF vars, ConfirmedHeight
<1> QED
  BY <1>1, <1>2, <1>3, <1>4, <1>5, <1>6, <1>7 DEF Next

\* The two balances of a report are those of one chain, and the confirmed part is
\* not more than the whole, whatever was mined or replaced between the requests.
THEOREM ReportsAreOneChain == Spec => []ReportIsOneChain
<1>1. OneChainInv => ReportIsOneChain
  BY DEF OneChainInv, ReportIsOneChain
<1> QED
  BY <1>1, OneChainInit, OneChainStep, PTL DEF Spec

-----------------------------------------------------------------------------
(* The observer in the hands of a poller. *)

LEMMA StepOfObserver == ReceiptNext => [Next]_vars
<1> SUFFICES ASSUME ReceiptNext PROVE [Next]_vars
  OBVIOUS
<1>1. CASE Claim \/ Receive \/ Tick
  BY <1>1 DEF Claim, Receive, Tick
<1>2. CASE Ask
  BY <1>2 DEF Ask, Next
<1>3. CASE Refuse
  BY <1>3 DEF Refuse, Next
<1>4. CASE Save
  BY <1>4 DEF Save, Next
<1>5. CASE GiveUp
  BY <1>5 DEF GiveUp, Next
<1>6. CASE NextBlock
  BY <1>6 DEF NextBlock, Next
<1>7. CASE OtherBranch
  BY <1>7 DEF OtherBranch, Next
<1> QED
  BY <1>1, <1>2, <1>3, <1>4, <1>5, <1>6, <1>7 DEF ReceiptNext, CycleStep

\* The receipt's specification implements the observer's: the poller asks in the
\* order the observer answers, and a cycle that ends leaves nothing half read.
THEOREM ReceiptObserves == ReceiptSpec => Spec
<1>1. ReceiptInit => Init
  BY DEF ReceiptInit
<1>2. [ReceiptNext]_allVars => [Next]_vars
  BY StepOfObserver DEF allVars
<1> QED
  BY <1>1, <1>2, PTL DEF ReceiptSpec, Spec

\* A confirmed amount a receipt was settled on is never taken back.
THEOREM ConfirmedReceiptIsFinal == ReceiptSpec => []ConfirmedStays
BY ReceiptObserves, ConfirmedIsFinal

\* A receipt is never computed from balances of two branches.
THEOREM ReceiptIsOfOneChain == ReceiptSpec => []ReportIsOneChain
BY ReceiptObserves, ReportsAreOneChain

-----------------------------------------------------------------------------
(* Only a sweep or a reorganisation unpays. *)

\* The one claim of a cycle is the row itself, and what was observed of it is what
\* the observer reported.
CycleInv ==
  /\ TypeOK
  /\ row \in [{Receiver} -> Polling!Tracking] /\ window \in [{Receiver} -> Nat]
  /\ batch \in [{Cycle} -> SUBSET Polling!Claim] /\ work \in [{Cycle} -> Polling!Work \cup {Idle}]
  /\ \A c \in Polling!Claimed(Cycle) :
       /\ c.tracking = Receipt /\ Receipt.status \in Polling!PollableStatus
       /\ c.windowPassed => window[Receiver] = 0
  /\ \A c, d \in Polling!Claimed(Cycle) : c = d
  /\ work[Cycle] # Idle => batch[Cycle] = {}
  /\ ~Polling!Busy(Cycle) => pc = "idle" /\ tip = 0
  /\ work[Cycle] # Idle /\ work[Cycle].seen # ObserverError =>
       pc = "reported" /\ work[Cycle].seen = Totals

\* As long as the balance has never gone down, a row is paid only if the amount is
\* still there, and a payment in time was there before the window of any claim
\* had passed.
UnpayInv ==
  /\ course \in {"open", "inTime", "disturbed"}
  /\ course # "disturbed" =>
       /\ Receipt.status # Polling!PaidReverted
       /\ tip > 0 => balance[tip] <= Latest
       /\ pc \in {"confirm", "subtract", "reported"} => observed = balance[tip]
       /\ Receipt.paid => (Latest >= Expected /\ (tip > 0 => balance[tip] >= Expected))
  /\ course = "inTime" =>
       /\ Latest >= Expected
       /\ tip > 0 /\ (\E c \in Polling!Claimed(Cycle) : c.windowPassed)
            => balance[tip] >= Expected

\* What one observation makes of a claimed row.
LEMMA OutcomeOf ==
  ASSUME NEW c \in Polling!Claim, NEW seen \in Polling!Observation \cup {ObserverError},
         c.tracking.status \in Polling!PollableStatus
  PROVE  LET t == Polling!Outcome(c, seen)
             seenUnpaid == seen # ObserverError /\ seen.observed < Expected
         IN
         /\ t \in Polling!Tracking
         /\ t.status = Polling!FailedExpired => c.windowPassed /\ seenUnpaid
         /\ t.status = Polling!PaidReverted =>
              c.tracking.status = Polling!PaidReverted \/ (c.tracking.paid /\ seenUnpaid)
         /\ t.paid => c.tracking.paid \/ (seen # ObserverError /\ seen.observed >= Expected)
<1> USE ReceiptAssumption
<1>1. c.tracking \in Polling!Tracking /\ c.address = Receiver /\ c.windowPassed \in BOOLEAN
  BY DEF Polling!Claim
<1>2. CASE seen = ObserverError \/ ~Polling!ObservationValid(seen)
  <2>1. Polling!Outcome(c, seen) = [c.tracking EXCEPT !.failure = Polling!PollingFailed]
    BY <1>2 DEF Polling!Outcome, Polling!MarkPollingFailure
  <2> QED
    BY <1>1, <2>1
    DEF Polling!Tracking, Polling!FailureReason, Polling!PollableStatus, Polling!FailedExpired,
        Polling!Watching, Polling!PartiallyPaid, Polling!PaidUnconfirmed, Polling!PaidReverted
<1>3. CASE seen # ObserverError /\ Polling!ObservationValid(seen)
  <2> DEFINE t == Polling!ApplyObservation(c.tracking, seen, Expected)
  <2>1. seen \in Polling!Observation
    BY <1>3
  <2>2. /\ t.paid <=> c.tracking.paid \/ seen.observed >= Expected
        /\ t.status = Polling!DecideStatus(seen, Expected, t.paid)
    BY DEF Polling!ApplyObservation
  <2>3. /\ t.status \in Polling!PaymentReceiptStatus /\ t.status # Polling!FailedExpired
        /\ t.status = Polling!PaidReverted => t.paid /\ seen.observed < Expected
    BY <1>3, <2>1, <2>2
    DEF Polling!DecideStatus, Polling!PaymentReceiptStatus, Polling!Observation,
        Polling!ObservationValid, Polling!FailedExpired, Polling!Watching,
        Polling!PartiallyPaid, Polling!PaidUnconfirmed, Polling!PaidReverted, Polling!PaidConfirmed
  <2>4. t \in Polling!Tracking
    BY <1>1, <1>3, <2>1, <2>3
    DEF Polling!ApplyObservation, Polling!Tracking, Polling!Observation,
        Polling!ObservationValid, Polling!FailureReason
  <2>5. Polling!Outcome(c, seen) = Polling!ExpireIfDue(t, c.windowPassed)
    BY <1>1, <1>3 DEF Polling!Outcome
  <2>6. CASE t.paid \/ ~c.windowPassed
    BY <1>3, <2>1, <2>2, <2>3, <2>4, <2>5, <2>6
    DEF Polling!ExpireIfDue, Polling!CanExpireByPaymentWindow, Polling!Observation
  <2>7. CASE ~t.paid /\ c.windowPassed
    <3>1. Polling!Outcome(c, seen) =
            [t EXCEPT !.status = Polling!FailedExpired, !.failure = Polling!WindowExpired]
      BY <2>5, <2>7 DEF Polling!ExpireIfDue, Polling!CanExpireByPaymentWindow
    <3>2. seen.observed < Expected
      BY <2>1, <2>2, <2>7 DEF Polling!Observation
    <3> HIDE DEF t
    <3> QED
      BY <1>3, <2>4, <2>7, <3>1, <3>2
      DEF Polling!Tracking, Polling!PaymentReceiptStatus, Polling!FailureReason,
          Polling!FailedExpired, Polling!PaidReverted
  <2> QED
    BY <2>6, <2>7
<1> QED
  BY <1>2, <1>3

\* The three steps of the cycle, as they concern its one claim.
LEMMA ClaimTakesRow ==
  ASSUME CycleInv, Claim
  PROVE  /\ ~Polling!Busy(Cycle) /\ UNCHANGED <<row, window, work>> /\ work[Cycle] = Idle
         /\ \E c \in Polling!Claim :
              /\ c.tracking = Receipt /\ Receipt.status \in Polling!PollableStatus
              /\ c.windowPassed => window[Receiver] = 0
              /\ batch' = [batch EXCEPT ![Cycle] = {c}]
<1>1. Polling!ClaimDue(Cycle)
  BY DEF Claim
<1>2. PICK S \in SUBSET Polling!ClaimableRows(Cycle) :
        /\ S # {}
        /\ batch' = [batch EXCEPT ![Cycle] =
             {[address |-> a, tracking |-> row[a], windowPassed |-> window[a] = 0] : a \in S}]
  BY <1>1 DEF Polling!ClaimDue
<1>3. S = {Receiver} /\ Receipt.status \in Polling!PollableStatus
  BY <1>2 DEF Polling!ClaimableRows, Receipt
<1> DEFINE c == [address |-> Receiver, tracking |-> row[Receiver],
                 windowPassed |-> window[Receiver] = 0]
<1>4. c \in Polling!Claim
  BY DEF CycleInv, Polling!Claim
<1>5. batch' = [batch EXCEPT ![Cycle] = {c}]
  BY <1>2, <1>3
<1>6. ~Polling!Busy(Cycle) /\ UNCHANGED <<row, window, work>>
  BY <1>1 DEF Polling!ClaimDue
<1>7. work[Cycle] = Idle
  BY <1>6 DEF Polling!Busy, Polling!Claimed
<1> QED
  BY <1>3, <1>4, <1>5, <1>6, <1>7 DEF Receipt

LEMMA ObserveTakesClaim ==
  ASSUME CycleInv, NEW c \in batch[Cycle],
         NEW seen \in Polling!Observation \cup {ObserverError}, Polling!ObserveAs(Cycle, c, seen)
  PROVE  /\ UNCHANGED <<row, window>> /\ work[Cycle] = Idle
         /\ c \in Polling!Claim
         /\ batch' \in [{Cycle} -> SUBSET Polling!Claim] /\ batch'[Cycle] = {}
         /\ work' = [work EXCEPT ![Cycle] = [claim |-> c, seen |-> seen]]
         /\ Polling!Claimed(Cycle) = {c}
         /\ Polling!Claimed(Cycle)' = {c}
<1> USE DEF CycleInv
<1>1. /\ UNCHANGED <<row, window>> /\ work[Cycle] = Idle
      /\ batch' = [batch EXCEPT ![Cycle] = @ \ {c}]
      /\ work' = [work EXCEPT ![Cycle] = [claim |-> c, seen |-> seen]]
  BY DEF Polling!ObserveAs, Polling!StartWork, Polling!rowVars
<1>2. Polling!Claimed(Cycle) = {c}
  BY <1>1 DEF Polling!Claimed
<1>3. batch[Cycle] = {c}
  BY <1>1, <1>2 DEF Polling!Claimed
<1>4. batch'[Cycle] = {} /\ batch' \in [{Cycle} -> SUBSET Polling!Claim]
  BY <1>1, <1>3
<1>5. work'[Cycle] = [claim |-> c, seen |-> seen]
  BY <1>1
<1>6. Polling!Claimed(Cycle)' \subseteq {c}
  BY <1>4, <1>5 DEF Polling!Claimed
<1>7. work'[Cycle] # Idle
  <2>1. [claim |-> c, seen |-> seen] \in Polling!Work
    BY DEF Polling!Work
  <2> QED
    BY <1>5, <2>1, ReceiptAssumption
<1> QED
  BY <1>1, <1>2, <1>4, <1>5, <1>6, <1>7 DEF Polling!Claimed

LEMMA SaveEndsCycle ==
  ASSUME CycleInv, Save
  PROVE  /\ UNCHANGED <<window, course>> /\ work[Cycle] \in Polling!Work
         /\ row' = [row EXCEPT ![Receiver] = Polling!Outcome(work[Cycle].claim, work[Cycle].seen)]
         /\ batch' = batch /\ batch[Cycle] = {}
         /\ work' = [work EXCEPT ![Cycle] = Idle]
         /\ Polling!Claimed(Cycle) = {work[Cycle].claim}
         /\ Polling!Claimed(Cycle)' = {}
<1> USE DEF CycleInv
<1>1. Polling!SaveRow(Cycle) /\ UNCHANGED course
  BY DEF Save
<1>2. /\ work[Cycle] # Idle /\ UNCHANGED <<window, batch>>
      /\ work' = [work EXCEPT ![Cycle] = Idle]
  BY <1>1 DEF Polling!SaveRow
<1>3. work[Cycle] \in Polling!Work
  BY <1>2
<1>4. work[Cycle].claim.address = Receiver
  BY <1>3 DEF Polling!Work, Polling!Claim
<1>5. row' = [row EXCEPT ![Receiver] = Polling!Outcome(work[Cycle].claim, work[Cycle].seen)]
  BY <1>1, <1>4 DEF Polling!SaveRow
<1> QED
  BY <1>1, <1>2, <1>3, <1>5 DEF Polling!Claimed

\* The outcome of a saved claim, in terms of the row and of what the observer read.
LEMMA SavedRow ==
  ASSUME CycleInv, Save
  PROVE  LET seenUnpaid == pc = "reported" /\ observed < Expected
         IN
         /\ row'[Receiver] \in Polling!Tracking
         /\ row'[Receiver].status = Polling!FailedExpired =>
              (\E c \in Polling!Claimed(Cycle) : c.windowPassed) /\ seenUnpaid
         /\ row'[Receiver].status = Polling!PaidReverted =>
              Receipt.status = Polling!PaidReverted \/ (Receipt.paid /\ seenUnpaid)
         /\ row'[Receiver].paid =>
              Receipt.paid \/ (pc = "reported" /\ observed >= Expected)
<1> DEFINE c == work[Cycle].claim
           seen == work[Cycle].seen
<1>1. /\ work[Cycle] \in Polling!Work /\ work[Cycle] # Idle
      /\ Polling!Claimed(Cycle) = {c}
      /\ row'[Receiver] = Polling!Outcome(c, seen)
  BY SaveEndsCycle, ReceiptAssumption DEF CycleInv
<1>2. c \in Polling!Claim /\ seen \in Polling!Observation \cup {ObserverError}
  BY <1>1 DEF Polling!Work
<1>3. c.tracking = Receipt /\ c.tracking.status \in Polling!PollableStatus
  BY <1>1 DEF CycleInv
<1>4. seen # ObserverError => pc = "reported" /\ seen.observed = observed
  BY <1>1 DEF CycleInv, Totals
<1> HIDE DEF c, seen
<1> QED
  BY <1>1, <1>2, <1>3, <1>4, OutcomeOf

LEMMA CycleInit == ReceiptInit => CycleInv
<1> SUFFICES ASSUME ReceiptInit PROVE CycleInv
  OBVIOUS
<1>1. TypeOK
  BY ConfirmedInit DEF ReceiptInit, ConfirmedInv
<1>2. Polling!NewTracking \in Polling!Tracking
  BY DEF Polling!NewTracking, Polling!Tracking, Polling!PaymentReceiptStatus, Polling!FailureReason
<1>3. Polling!Claimed(Cycle) = {}
  BY DEF ReceiptInit, Polling!Claimed
<1> QED
  BY <1>1, <1>2, <1>3, ReceiptAssumption DEF ReceiptInit, Init, CycleInv, Polling!Busy

\* Steps that neither take, observe nor save a claim.
LEMMA CycleKept ==
  ASSUME CycleInv, TypeOK', UNCHANGED <<row, batch, work>>, window' \in [{Receiver} -> Nat],
         window'[Receiver] <= window[Receiver],
         \/ UNCHANGED <<pc, tip, observed, confirmed>>
         \/ work[Cycle] = Idle /\ batch[Cycle] # {}
  PROVE  CycleInv'
<1>1. Polling!Claimed(Cycle)' = Polling!Claimed(Cycle)
  BY DEF Polling!Claimed
<1>2. Receipt' = Receipt
  BY DEF Receipt
<1>3. Polling!Busy(Cycle)' <=> Polling!Busy(Cycle)
  BY <1>1 DEF Polling!Busy
<1>4. work[Cycle] = Idle /\ batch[Cycle] # {} => Polling!Busy(Cycle)
  BY DEF Polling!Busy, Polling!Claimed
<1>5. window[Receiver] = 0 => window'[Receiver] = 0
  BY DEF CycleInv
<1> QED
  BY <1>1, <1>2, <1>3, <1>4, <1>5 DEF CycleInv, Totals

\* Observing the claim, with totals or without.
LEMMA CycleObserves ==
  ASSUME CycleInv, TypeOK', NEW c \in batch[Cycle],
         NEW seen \in Polling!Observation \cup {ObserverError}, Polling!ObserveAs(Cycle, c, seen),
         seen # ObserverError => pc' = "reported" /\ seen = Totals'
  PROVE  CycleInv'
<1>1. /\ UNCHANGED <<row, window>> /\ c \in Polling!Claim
      /\ batch' \in [{Cycle} -> SUBSET Polling!Claim] /\ batch'[Cycle] = {}
      /\ work' = [work EXCEPT ![Cycle] = [claim |-> c, seen |-> seen]]
      /\ Polling!Claimed(Cycle) = {c} /\ Polling!Claimed(Cycle)' = {c}
  BY ObserveTakesClaim
<1>2. [claim |-> c, seen |-> seen] \in Polling!Work
  BY <1>1 DEF Polling!Work
<1>3. work' \in [{Cycle} -> Polling!Work \cup {Idle}] /\ work'[Cycle].seen = seen
  BY <1>1, <1>2 DEF CycleInv
<1>4. Polling!Busy(Cycle)' /\ Receipt' = Receipt
  BY <1>1 DEF Polling!Busy, Receipt
<1> QED
  BY <1>1, <1>3, <1>4 DEF CycleInv

LEMMA CycleStepInv == CycleInv /\ [ReceiptNext]_allVars => CycleInv'
<1> SUFFICES ASSUME CycleInv, [ReceiptNext]_allVars PROVE CycleInv'
  OBVIOUS
<1>0. TypeOK /\ TypeOK'
  BY StepOfObserver, TypingStep DEF CycleInv, allVars
<1>1. CASE Claim
  <2>1. PICK c \in Polling!Claim :
          /\ c.tracking = Receipt /\ Receipt.status \in Polling!PollableStatus
          /\ c.windowPassed => window[Receiver] = 0
          /\ batch' = [batch EXCEPT ![Cycle] = {c}]
    BY <1>1, ClaimTakesRow
  <2>2. /\ UNCHANGED <<row, window, work, vars>> /\ work[Cycle] = Idle
    BY <1>1, ClaimTakesRow DEF Claim
  <2>3. batch' \in [{Cycle} -> SUBSET Polling!Claim] /\ batch'[Cycle] = {c}
    BY <2>1 DEF CycleInv
  <2>4. Polling!Claimed(Cycle)' = {c} /\ Polling!Busy(Cycle)' /\ Receipt' = Receipt
    BY <2>2, <2>3 DEF Polling!Claimed, Polling!Busy, Receipt
  <2> QED
    BY <1>0, <2>1, <2>2, <2>3, <2>4 DEF CycleInv
<1>2. CASE Ask
  BY <1>0, <1>2, CycleKept DEF Ask, Working, receiptVars, CycleInv
<1>3. CASE Receive
  <2>1. PICK c \in batch[Cycle] : Polling!ObserveAs(Cycle, c, Totals)
    BY <1>3 DEF Receive
  <2>2. UNCHANGED vars /\ pc = "reported" /\ Totals' = Totals
    BY <1>3 DEF Receive, vars, Totals
  <2>3. Totals \in Polling!Observation
    BY <1>0, <2>2, ConstantsAssumption
    DEF TypeOK, Totals, Polling!Observation, Balance, Unread
  <2> QED
    BY <1>0, <2>1, <2>2, <2>3, CycleObserves DEF vars
<1>4. CASE Refuse \/ GiveUp
  BY <1>0, <1>4, CycleObserves DEF Refuse, GiveUp
<1>5. CASE Save
  <2>1. /\ row' = [row EXCEPT ![Receiver] = Polling!Outcome(work[Cycle].claim, work[Cycle].seen)]
        /\ batch' = batch /\ batch[Cycle] = {} /\ window' = window
        /\ work' = [work EXCEPT ![Cycle] = Idle]
        /\ Polling!Claimed(Cycle)' = {}
    BY <1>5, SaveEndsCycle
  <2>2. row' \in [{Receiver} -> Polling!Tracking]
    <3>1. row'[Receiver] \in Polling!Tracking
      BY <1>5, SavedRow
    <3> QED
      BY <2>1, <3>1 DEF CycleInv
  <2>3. pc' = "idle" /\ tip' = 0
    BY <1>5 DEF Save, EndOfCycle
  <2> QED
    BY <1>0, <2>1, <2>2, <2>3 DEF CycleInv
<1>6. CASE NextBlock
  BY <1>0, <1>6, CycleKept DEF NextBlock, Mine, receiptVars, CycleInv
<1>7. CASE OtherBranch
  BY <1>0, <1>7, CycleKept DEF OtherBranch, Reorganise, receiptVars, CycleInv
<1>8. CASE Tick
  <2>1. /\ UNCHANGED <<row, batch, work, vars>>
        /\ window' = [a \in {Receiver} |-> Polling!CountDown(window[a])]
    BY <1>8 DEF Tick, Polling!Tick
  <2>2. window' \in [{Receiver} -> Nat] /\ window'[Receiver] <= window[Receiver]
    BY <2>1 DEF Polling!CountDown, CycleInv
  <2> QED
    BY <1>0, <2>1, <2>2, CycleKept DEF vars
<1>9. CASE UNCHANGED allVars
  BY <1>0, <1>9, CycleKept DEF allVars, vars, receiptVars, CycleInv
<1> QED
  BY <1>1, <1>2, <1>3, <1>4, <1>5, <1>6, <1>7, <1>8, <1>9 DEF ReceiptNext, CycleStep

\* A saved receipt neither expires nor reverts a payment that is still there.
LEMMA SavedRowStaysPaid ==
  ASSUME CycleInv, UnpayInv, Save, course # "disturbed"
  PROVE  /\ row'[Receiver].status # Polling!PaidReverted
         /\ course = "inTime" => row'[Receiver].status # Polling!FailedExpired
         /\ row'[Receiver].paid => Latest >= Expected
<1>1. /\ tip \in Nat /\ Latest \in Nat /\ observed \in Int
      /\ pc = "reported" => tip > 0 /\ balance[tip] \in Nat
  BY ConstantsAssumption DEF CycleInv, TypeOK, Latest, Balance, Unread
<1>2. pc = "reported" => observed = balance[tip] /\ balance[tip] <= Latest
  BY <1>1 DEF UnpayInv
<1>3. Receipt.paid => ~(pc = "reported" /\ observed < Expected)
  BY <1>1, <1>2, ReceiptAssumption DEF UnpayInv
<1>4. course = "inTime" /\ (\E c \in Polling!Claimed(Cycle) : c.windowPassed)
        => ~(pc = "reported" /\ observed < Expected)
  BY <1>1, <1>2, ReceiptAssumption DEF UnpayInv
<1>5. row'[Receiver].status # Polling!PaidReverted
  BY <1>3, SavedRow DEF UnpayInv
<1>6. course = "inTime" => row'[Receiver].status # Polling!FailedExpired
  BY <1>4, SavedRow
<1>7. row'[Receiver].paid => Latest >= Expected
  BY <1>1, <1>2, SavedRow, ReceiptAssumption DEF UnpayInv
<1> QED
  BY <1>5, <1>6, <1>7

LEMMA UnpayStep == CycleInv /\ UnpayInv /\ [ReceiptNext]_allVars => UnpayInv'
<1> SUFFICES ASSUME CycleInv, UnpayInv, [ReceiptNext]_allVars PROVE UnpayInv'
  OBVIOUS
<1>0. /\ balance \in Seq(Balance) /\ Len(balance) \in Nat \ {0} /\ tip \in 0..Len(balance)
      /\ Latest \in Nat /\ (tip > 0 => balance[tip] \in Nat)
  BY ConstantsAssumption DEF CycleInv, TypeOK, Latest, Balance
<1>1. ASSUME UNCHANGED <<row, balance, tip, course>>,
             Polling!Claimed(Cycle)' = Polling!Claimed(Cycle) \/ tip = 0,
             pc' \in {"confirm", "subtract", "reported"} =>
               observed' = balance[tip] \/ (UNCHANGED observed /\ pc \in {"confirm", "subtract", "reported"})
      PROVE  UnpayInv'
  BY <1>0, <1>1 DEF UnpayInv, Latest, Receipt
<1>2. ASSUME UNCHANGED <<row, batch, work, vars, course>> PROVE UnpayInv'
  BY <1>1, <1>2 DEF vars, Polling!Claimed
<1>3. CASE Claim
  <2>1. tip = 0
    BY <1>3, ClaimTakesRow DEF CycleInv
  <2> QED
    BY <1>1, <1>3, <2>1, ClaimTakesRow DEF Claim, vars
<1>4. CASE Ask
  <2>1. UNCHANGED <<row, batch, work, course>> /\ Polling!Claimed(Cycle)' = Polling!Claimed(Cycle)
    BY <1>4 DEF Ask, receiptVars, Polling!Claimed
  <2>2. CASE FetchTip
    <3>1. balance' = balance /\ tip' = Len(balance) /\ pc' = "observe"
      BY <2>2 DEF FetchTip
    <3>2. Latest' = Latest /\ balance'[tip'] = Latest /\ Receipt' = Receipt
      BY <2>1, <3>1 DEF Latest, Receipt
    <3> QED
      BY <1>0, <2>1, <3>1, <3>2 DEF UnpayInv
  <2>3. CASE ReadObserved \/ ReadConfirmed \/ Report
    BY <1>1, <2>1, <2>3 DEF ReadObserved, ReadConfirmed, Report
  <2> QED
    BY <1>4, <2>2, <2>3 DEF Ask
<1>5. ASSUME NEW c \in batch[Cycle], NEW seen \in Polling!Observation \cup {ObserverError},
             Polling!ObserveAs(Cycle, c, seen)
      PROVE  UNCHANGED row /\ Polling!Claimed(Cycle)' = Polling!Claimed(Cycle)
  BY <1>5, ObserveTakesClaim
<1>6. CASE Receive
  <2>1. PICK c \in batch[Cycle] : Polling!ObserveAs(Cycle, c, Totals)
    BY <1>6 DEF Receive
  <2>2. Totals \in Polling!Observation
    BY <1>6, ConstantsAssumption
    DEF Receive, CycleInv, TypeOK, Totals, Polling!Observation, Balance, Unread
  <2> QED
    BY <1>1, <1>5, <1>6, <2>1, <2>2 DEF Receive, vars
<1>7. CASE Refuse \/ GiveUp
  <2>1. PICK c \in batch[Cycle] : Polling!ObserveAs(Cycle, c, ObserverError)
    BY <1>7 DEF Refuse, GiveUp
  <2>2. UNCHANGED row /\ Polling!Claimed(Cycle)' = Polling!Claimed(Cycle)
    BY <1>5, <2>1
  <2> QED
    BY <1>1, <1>7, <2>2 DEF Refuse, GiveUp, RefuseDifference, RequestFails, Drop
<1>8. CASE Save
  <2>1. pc' = "idle" /\ tip' = 0 /\ UNCHANGED <<balance, course>>
    BY <1>8 DEF Save, EndOfCycle
  <2> QED
    BY <1>8, <2>1, SavedRowStaysPaid DEF UnpayInv, Latest, Receipt
<1>9. CASE NextBlock
  <2>1. PICK b \in Balance : balance' = Append(balance, b)
    BY <1>9 DEF NextBlock, Mine
  <2>2. Latest' = b /\ b \in Nat /\ (tip > 0 => balance'[tip] = balance[tip])
    BY <1>0, <2>1, ConstantsAssumption DEF Latest, Balance
  <2>3. UNCHANGED <<row, batch, work, pc, tip, observed>>
    BY <1>9 DEF NextBlock, Mine, receiptVars
  <2>4. Polling!Claimed(Cycle)' = Polling!Claimed(Cycle) /\ Receipt' = Receipt
    BY <2>3 DEF Polling!Claimed, Receipt
  <2>5. /\ course' # "disturbed" => course # "disturbed" /\ Latest <= b
        /\ course' = "inTime" => course = "inTime" \/ (b >= Expected /\ window[Receiver] > 0)
        /\ course' \in {"open", "inTime", "disturbed"}
    BY <1>0, <1>9, <2>2 DEF NextBlock, Latest, UnpayInv
  <2>6. window[Receiver] > 0 => \A c \in Polling!Claimed(Cycle) : ~c.windowPassed
    BY DEF CycleInv
  <2>7. ASSUME course' # "disturbed"
        PROVE  /\ Receipt'.status # Polling!PaidReverted
               /\ tip' > 0 => balance'[tip'] <= Latest'
               /\ pc' \in {"confirm", "subtract", "reported"} => observed' = balance'[tip']
               /\ Receipt'.paid => Latest' >= Expected /\ (tip' > 0 => balance'[tip'] >= Expected)
    <3>1. pc \in {"confirm", "subtract", "reported"} => tip > 0
      BY DEF CycleInv, TypeOK
    <3> QED
      BY <1>0, <2>2, <2>3, <2>4, <2>5, <2>7, <3>1, ReceiptAssumption DEF UnpayInv
  <2>8. ASSUME course' = "inTime"
        PROVE  /\ Latest' >= Expected
               /\ tip' > 0 /\ (\E c \in Polling!Claimed(Cycle)' : c.windowPassed)
                    => balance'[tip'] >= Expected
    <3>1. course = "inTime" => Latest <= b
      BY <2>5, <2>8
    <3> QED
      BY <1>0, <2>2, <2>3, <2>4, <2>5, <2>6, <2>8, <3>1, ReceiptAssumption DEF UnpayInv
  <2> QED
    BY <2>5, <2>7, <2>8 DEF UnpayInv
<1>10. CASE OtherBranch
  BY <1>10 DEF OtherBranch, UnpayInv
<1>11. CASE Tick
  BY <1>2, <1>11 DEF Tick, Polling!Tick
<1>12. CASE UNCHANGED allVars
  BY <1>2, <1>12 DEF allVars, receiptVars
<1> QED
  BY <1>3, <1>4, <1>6, <1>7, <1>8, <1>9, <1>10, <1>11, <1>12 DEF ReceiptNext, CycleStep

LEMMA UnpayInit == ReceiptInit => UnpayInv
BY DEF ReceiptInit, Init, UnpayInv, Receipt, Polling!NewTracking, Polling!Watching, Polling!PaidReverted

\* Only Save writes the row.
LEMMA RowIsSaved ==
  ASSUME CycleInv, [ReceiptNext]_allVars, row' # row
  PROVE  Save
BY DEF ReceiptNext, CycleStep, Claim, Polling!ClaimDue, Ask, Receive, Refuse, GiveUp, NextBlock,
   OtherBranch, Tick, Polling!Tick, Polling!ObserveAs, Polling!rowVars, receiptVars, allVars

\* A payment that came in time is undone by a sweep or a reorganisation alone: for
\* any number of confirmations, any amount due and any payment window, neither the
\* two balances of a cycle, read while blocks arrive, nor the deadline that passes
\* in the meantime make it expire or revert.
THEOREM OnlySweepsUnpayReceipts == ReceiptSpec => OnlySweepsUnpay
<1>1. CycleInv /\ UnpayInv /\ [ReceiptNext]_allVars =>
        [course = "inTime" /\ row' # row =>
           row'[Receiver].status \notin {Polling!FailedExpired, Polling!PaidReverted}]_allVars
  BY RowIsSaved, SavedRowStaysPaid
<1> QED
  BY <1>1, CycleInit, CycleStepInv, UnpayInit, UnpayStep, PTL DEF ReceiptSpec, OnlySweepsUnpay
=============================================================================
