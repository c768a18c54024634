-------------------------- MODULE ReceiptPollingProofs --------------------------
(***************************************************************************)
(* Proofs about ReceiptPolling, for any addresses, pollers, networks and   *)
(* amounts.  What is said of cycles that may outlive their lease comes     *)
(* first; SnapshotsAreCurrent and the refinement of ReceiptLifecycle need  *)
(* cycles that end within it.                                              *)
(***************************************************************************)
EXTENDS ReceiptPolling, SequenceTheorems, TLAPS

(* The inductive invariants. *)

PaidStatus == {PaidUnconfirmed, PaidReverted, PaidConfirmed}

\* paid_at and the status of a tracking never disagree.
Consistent(t) == t.paid <=> t.status \in PaidStatus

\* Rows, and the snapshots of them that pollers hold, however old they are.
TrackingsInv ==
  /\ \A a \in Address : Consistent(row[a])
  /\ \A w \in Poller : \A c \in Claimed(w) :
       c.tracking.status \in PollableStatus /\ Consistent(c.tracking)

\* An observation on which an unpaid row would expire.
Expiring(c, seen) ==
  /\ c.windowPassed /\ seen # ObserverError /\ ObservationValid(seen)
  /\ seen.observed < ExpectedAmount[c.address]

\* The window of a claim that expires its row has passed, and what was seen was seen
\* after it: a payment in time would have been part of it.
TimelyInv ==
  /\ \A a \in Address :
       paidInTime[a] => chain[a].confirmed + chain[a].unconfirmed >= ExpectedAmount[a]
  /\ \A w \in Poller : \A c \in Claimed(w) : c.windowPassed => window[c.address] = 0
  /\ \A w \in Poller : work[w] # Idle /\ Expiring(work[w].claim, work[w].seen)
       => ~paidInTime[work[w].claim.address]

\* A cycle that ends within its lease claims each row once and alone.
LeaseInv ==
  /\ \A w \in Poller : Busy(w) => age[w] < ClaimTTL
  /\ \A w \in Poller : \A c, d \in Claimed(w) : c.address = d.address => c = d
  /\ \A w \in Poller : work[w] # Idle => work[w].claim \notin batch[w]
  /\ SnapshotsAreCurrent

-----------------------------------------------------------------------------
(* The rules of the aggregate. *)

Seen == Observation \cup {ObserverError}

\* What the store is given is a tracking again.
LEMMA OutcomeType ==
  ASSUME NEW c \in Claim, NEW seen \in Seen
  PROVE  Outcome(c, seen) \in Tracking
<1>1. c.tracking \in Tracking /\ ExpectedAmount[c.address] \in Nat
  BY ConstantsAssumption DEF Claim
<1>2. MarkPollingFailure(c.tracking) \in Tracking
  BY <1>1 DEF MarkPollingFailure, Tracking, FailureReason
<1>3. ASSUME seen # ObserverError, ObservationValid(seen) PROVE Outcome(c, seen) \in Tracking
  <2> DEFINE t == ApplyObservation(c.tracking, seen, ExpectedAmount[c.address])
  <2>1. seen \in Observation
    BY <1>3 DEF Seen
  <2>2. DecideStatus(seen, ExpectedAmount[c.address],
          c.tracking.paid \/ seen.observed >= ExpectedAmount[c.address]) \in PaymentReceiptStatus
    BY DEF DecideStatus, PaymentReceiptStatus
  <2>3. t \in Tracking
    BY <1>1, <1>3, <2>1, <2>2
    DEF ApplyObservation, Tracking, Observation, ObservationValid, FailureReason
  <2>4. ExpireIfDue(t, c.windowPassed) \in Tracking
    BY <2>3 DEF ExpireIfDue, Tracking, PaymentReceiptStatus, FailureReason
  <2> QED
    BY <1>3, <2>4 DEF Outcome
<1> QED
  BY <1>2, <1>3 DEF Outcome

\* What an observation makes of a claimed tracking: a payment once seen in full is
\* never unpaid again, and only an expiring observation expires anything.
LEMMA OutcomeRules ==
  ASSUME NEW c \in Claim, NEW seen \in Seen,
         c.tracking.status \in PollableStatus, Consistent(c.tracking)
  PROVE  LET t == Outcome(c, seen) IN
         /\ Consistent(t)
         /\ c.tracking.paid => t.paid
         /\ t.status = PaidReverted => c.tracking.paid
         /\ t.status = FailedExpired => Expiring(c, seen)
<1>1. c.tracking \in Tracking /\ ExpectedAmount[c.address] \in Nat /\ c.windowPassed \in BOOLEAN
  BY ConstantsAssumption DEF Claim
<1>2. CASE seen = ObserverError \/ ~ObservationValid(seen)
  BY <1>1, <1>2 DEF Outcome, MarkPollingFailure, Consistent, Tracking, PollableStatus, PaidStatus,
     Watching, PartiallyPaid, PaidUnconfirmed, PaidReverted, PaidConfirmed, FailedExpired
<1>3. CASE seen # ObserverError /\ ObservationValid(seen)
  <2> DEFINE t == ApplyObservation(c.tracking, seen, ExpectedAmount[c.address])
  <2>1. seen \in Observation
    BY <1>3 DEF Seen
  <2>2. /\ t.paid <=> c.tracking.paid \/ seen.observed >= ExpectedAmount[c.address]
        /\ t.status = DecideStatus(seen, ExpectedAmount[c.address], t.paid)
    BY DEF ApplyObservation
  <2>3. /\ Consistent(t) /\ t.status # FailedExpired
        /\ t.status = PaidReverted => c.tracking.paid
        /\ ~t.paid => seen.observed < ExpectedAmount[c.address]
    BY <1>1, <1>3, <2>1, <2>2 DEF DecideStatus, Consistent, PaidStatus, Observation, ObservationValid,
     Watching, PartiallyPaid, PaidUnconfirmed, PaidReverted, PaidConfirmed, FailedExpired
  <2>4. Outcome(c, seen) = ExpireIfDue(t, c.windowPassed)
    BY <1>3 DEF Outcome
  <2>5. CASE ~t.paid /\ c.windowPassed
    <3>1. Outcome(c, seen).status = FailedExpired /\ Outcome(c, seen).paid = t.paid
      BY <2>4, <2>5 DEF ExpireIfDue, CanExpireByPaymentWindow, ApplyObservation
    <3> QED
      BY <1>3, <2>2, <2>3, <2>5, <3>1 DEF Consistent, PaidStatus, Expiring,
       PaidUnconfirmed, PaidReverted, PaidConfirmed, FailedExpired
  <2>6. CASE t.paid \/ ~c.windowPassed
    BY <2>2, <2>3, <2>4, <2>6 DEF ExpireIfDue, CanExpireByPaymentWindow
  <2> QED
    BY <2>5, <2>6
<1> QED
  BY <1>2, <1>3

\* The outbox grows by the one event of a change, or not at all.
Event == [previous: PaymentReceiptStatus, current: PaymentReceiptStatus]
Published(was, t) == [previous |-> was, current |-> t.status]

LEMMA EventOfChange ==
  ASSUME NEW events \in Seq(Event), NEW was \in PaymentReceiptStatus, NEW t \in Tracking
  PROVE  /\ Published(was, t) \in Event
         /\ was = t.status => events \o StatusChangedEvent(was, t) = events
         /\ was # t.status =>
              events \o StatusChangedEvent(was, t) = Append(events, Published(was, t))
<1>1. Published(was, t) \in Event
  BY DEF Published, Event, Tracking
<1>2. events \o << >> = events
  BY ConcatEmptySeq
<1>3. Append(events, Published(was, t)) = events \o << Published(was, t) >>
  BY <1>1, AppendIsConcat
<1>4. CASE was = t.status
  BY <1>1, <1>2, <1>4 DEF StatusChangedEvent
<1>5. CASE was # t.status
  BY <1>1, <1>3, <1>5 DEF StatusChangedEvent, Published
<1> QED
  BY <1>4, <1>5

-----------------------------------------------------------------------------
(* Typing *)

LEMMA TypingInit == Init => TypeOK
BY ConstantsAssumption
DEF Init, TypeOK, NewTracking, Tracking, PaymentReceiptStatus, FailureReason, NoTipYet, MaxAge, PollerConfig, ReceiptTerms, Holding

\* Whatever an observation ends with, its cycle moves on to the save and nothing
\* else changes.
Observes(w, c, seen) ==
  /\ StartWork(w, c, seen)
  /\ UNCHANGED <<rowVars, age, chain, paidInTime, moves>>

LEMMA AskEffects ==
  ASSUME NEW w \in Poller, NEW c \in batch[w], TypeOK,
         Observe(w, c) \/ ObserveFails(w, c) \/ TipFails(w, c) \/ TipFailedBefore(w, c)
  PROVE  /\ c \in Claim
         /\ \E seen \in Seen :
              /\ Observes(w, c, seen)
              /\ \/ seen = OnChain(c.address)
                 \/ seen = ObserverError \/ ~ObservationValid(seen)
         /\ tip' \in [Poller -> [Network -> {"unknown", "known", "failed"}]]
         /\ faults' \in 0..MaxFaults
<1> USE DEF Observes, Seen
<1>1. c \in Claim /\ c.address \in Address
  BY DEF TypeOK, Claim
<1>2. OnChain(c.address) \in Observation
  BY <1>1, ConstantsAssumption DEF OnChain, Observation, TypeOK, Holding
<1>3. Contradiction \in Observation /\ ~ObservationValid(Contradiction)
  BY DEF Contradiction, Observation, ObservationValid
<1>4. ASSUME NEW what \in {"known", "failed"}, CacheTip(w, c, what)
      PROVE  tip' \in [Poller -> [Network -> {"unknown", "known", "failed"}]]
  BY <1>4 DEF CacheTip, TypeOK
<1>5. CASE Observe(w, c)
  BY <1>1, <1>2, <1>4, <1>5 DEF Observe, ObserveAs, envVars, TypeOK
<1>6. CASE ObserveFails(w, c)
  BY <1>1, <1>3, <1>4, <1>6, ConstantsAssumption DEF ObserveFails, TypeOK
<1>7. CASE TipFails(w, c)
  BY <1>1, <1>4, <1>7, ConstantsAssumption DEF TipFails, TypeOK
<1>8. CASE TipFailedBefore(w, c)
  BY <1>1, <1>8 DEF TipFailedBefore, envVars, TypeOK
<1> QED
  BY <1>5, <1>6, <1>7, <1>8

LEMMA TypingStep == TypeOK /\ [Next]_vars => TypeOK'
<1> SUFFICES ASSUME TypeOK, [Next]_vars PROVE TypeOK'
  OBVIOUS
<1> USE ConstantsAssumption DEF PollerConfig, ReceiptTerms
<1>1. ASSUME NEW w \in Poller, ClaimDue(w) PROVE TypeOK'
  <2>1. PICK S \in SUBSET ClaimableRows(w) :
          /\ lease' = [a \in Address |-> IF a \in S THEN ClaimTTL ELSE lease[a]]
          /\ batch' = [batch EXCEPT ![w] =
               {[address |-> a, tracking |-> row[a], windowPassed |-> window[a] = 0] : a \in S}]
    BY <1>1 DEF ClaimDue
  <2>2. S \subseteq Address
    BY DEF ClaimableRows
  <2>3. lease' \in [Address -> 0..ClaimTTL]
    BY <2>1 DEF TypeOK
  <2>4. batch' \in [Poller -> SUBSET Claim]
    <3>1. ASSUME NEW a \in S
          PROVE  [address |-> a, tracking |-> row[a], windowPassed |-> window[a] = 0] \in Claim
      <4>1. a \in Address /\ row[a] \in Tracking /\ (window[a] = 0) \in BOOLEAN
        BY <2>2 DEF TypeOK
      <4> QED
        BY <4>1 DEF Claim
    <3>2. {[address |-> a, tracking |-> row[a], windowPassed |-> window[a] = 0] : a \in S}
            \subseteq Claim
      BY <3>1
    <3>3. batch \in [Poller -> SUBSET Claim]
      BY DEF TypeOK
    <3> QED
      BY <2>1, <3>2, <3>3
  <2>5. age' \in [Poller -> 0..MaxAge]
    BY <1>1 DEF ClaimDue, TypeOK, MaxAge
  <2>6. tip' \in [Poller -> [Network -> {"unknown", "known", "failed"}]]
    BY <1>1 DEF ClaimDue, TypeOK, NoTipYet
  <2> QED
    BY <1>1, <2>3, <2>4, <2>5, <2>6 DEF ClaimDue, TypeOK, envVars
<1>2. ASSUME NEW w \in Poller, NEW c \in batch[w],
             Observe(w, c) \/ ObserveFails(w, c) \/ TipFails(w, c) \/ TipFailedBefore(w, c)
      PROVE  TypeOK'
  <2>1. PICK seen \in Seen : Observes(w, c, seen)
    BY <1>2, AskEffects
  <2>2. work' \in [Poller -> Work \cup {Idle}] /\ batch' \in [Poller -> SUBSET Claim]
    BY <1>2, <2>1, AskEffects DEF Observes, StartWork, TypeOK, Work, Seen
  <2> QED
    BY <1>2, <2>1, <2>2, AskEffects DEF Observes, TypeOK, rowVars
<1>3. ASSUME NEW w \in Poller, Save(w) PROVE TypeOK'
  <2> DEFINE c == work[w].claim
             t == Outcome(c, work[w].seen)
  <2>1. work[w] \in Work
    BY <1>3 DEF Save, SaveRow, TypeOK
  <2>2. c \in Claim /\ c.address \in Address /\ t \in Tracking
    BY <2>1, OutcomeType DEF Work, Claim, Seen
  <2>3. row' \in [Address -> Tracking]
    BY <1>3, <2>2 DEF Save, SaveRow, TypeOK
  <2>4. due' \in [Address -> 0..RescheduleInterval]
    BY <1>3, <2>2 DEF Save, SaveRow, TypeOK, MaxAge
  <2>5. lease' \in [Address -> 0..ClaimTTL]
    BY <1>3, <2>2 DEF Save, SaveRow, TypeOK
  <2>6. outbox' \in [Address -> Seq(Event)]
    <3>1. outbox[c.address] \in Seq(Event)
      BY <2>2 DEF TypeOK, Event
    <3>2. c.tracking.status \in PaymentReceiptStatus
      BY <2>2 DEF Claim, Tracking
    <3> HIDE DEF c, t
    <3>3. Published(c.tracking.status, t) \in Event
      BY <2>2, <3>1, <3>2, EventOfChange
    <3>4. Append(outbox[c.address], Published(c.tracking.status, t)) \in Seq(Event)
      BY <3>1, <3>3, AppendProperties
    <3>5. outbox[c.address] \o StatusChangedEvent(c.tracking.status, t) \in Seq(Event)
      BY <2>2, <3>1, <3>2, <3>4, EventOfChange
    <3>6. outbox' = [outbox EXCEPT ![c.address] =
                       outbox[c.address] \o StatusChangedEvent(c.tracking.status, t)]
      BY <1>3 DEF Save, c, t
    <3> QED
      BY <2>2, <3>5, <3>6 DEF TypeOK, Event
  <2>7. age' \in [Poller -> 0..MaxAge]
    BY <1>3 DEF Save, SaveRow, TypeOK, MaxAge
  <2>8. tip' \in [Poller -> [Network -> {"unknown", "known", "failed"}]]
    BY <1>3 DEF Save, SaveRow, TypeOK, NoTipYet
  <2> QED
    BY <1>3, <2>3, <2>4, <2>5, <2>6, <2>7, <2>8 DEF Save, SaveRow, TypeOK, Event, envVars
<1>4. ASSUME NEW w \in Poller, Abort(w) PROVE TypeOK'
  <2>1. batch' \in [Poller -> SUBSET Claim] /\ work' \in [Poller -> Work \cup {Idle}]
    BY <1>4 DEF Abort, TypeOK
  <2>2. tip' \in [Poller -> [Network -> {"unknown", "known", "failed"}]]
    BY <1>4 DEF Abort, TypeOK, NoTipYet
  <2>3. age' \in [Poller -> 0..MaxAge] /\ faults' \in 0..MaxFaults
    BY <1>4 DEF Abort, TypeOK, MaxAge
  <2> QED
    BY <1>4, <2>1, <2>2, <2>3 DEF Abort, TypeOK, rowVars
<1>5. ASSUME NEW a \in Address, ChainMoves(a) PROVE TypeOK'
  <2>1. chain' \in [Address -> Holding]
    BY <1>5 DEF ChainMoves, TypeOK
  <2>2. paidInTime' \in [Address -> BOOLEAN]
    BY <1>5 DEF ChainMoves, TypeOK
  <2>3. moves' \in 0..MaxMoves
    BY <1>5 DEF ChainMoves, TypeOK
  <2> QED
    BY <1>5, <2>1, <2>2, <2>3 DEF ChainMoves, TypeOK, rowVars, cycleVars
<1>6. CASE Tick
  <2>1. due' \in [Address -> 0..RescheduleInterval]
    BY <1>6 DEF Tick, TypeOK, CountDown
  <2>2. lease' \in [Address -> 0..ClaimTTL]
    BY <1>6 DEF Tick, TypeOK, CountDown
  <2>3. window' \in [Address -> 0..PaymentWindow]
    BY <1>6 DEF Tick, TypeOK, CountDown
  <2>4. age' \in [Poller -> 0..MaxAge]
    BY <1>6 DEF Tick, TypeOK, MaxAge
  <2> QED
    BY <1>6, <2>1, <2>2, <2>3, <2>4 DEF Tick, TypeOK, envVars
<1>7. CASE UNCHANGED vars
  BY <1>7 DEF vars, rowVars, cycleVars, envVars, TypeOK
<1> QED
  BY <1>1, <1>2, <1>3, <1>4, <1>5, <1>6, <1>7 DEF Next, PollerStep

\* Every variable keeps its type, whatever is claimed, observed, saved or dropped.
THEOREM TypeCorrect == Spec => []TypeOK
BY TypingInit, TypingStep, PTL DEF Spec

-----------------------------------------------------------------------------
(* Which claims a step leaves in progress. *)

LEMMA ObservesKeepsClaims ==
  ASSUME NEW w \in Poller, NEW c \in batch[w], NEW seen \in Seen, TypeOK, Observes(w, c, seen)
  PROVE  /\ work[w] = Idle /\ work'[w] = [claim |-> c, seen |-> seen] /\ work'[w] # Idle
         /\ \A v \in Poller : Claimed(v)' = Claimed(v)
         /\ \A v \in Poller \ {w} : work'[v] = work[v]
         /\ \A v \in Poller : batch'[v] = batch[v] \ (IF v = w THEN {c} ELSE {})
<1>1. c \in Claim
  BY DEF TypeOK
<1>2. [claim |-> c, seen |-> seen] \in Work
  BY <1>1 DEF Work, Seen
<1>3. /\ work[w] = Idle /\ work' = [work EXCEPT ![w] = [claim |-> c, seen |-> seen]]
      /\ batch' = [batch EXCEPT ![w] = batch[w] \ {c}]
  BY DEF Observes, StartWork
<1>4. work \in [Poller -> Work \cup {Idle}] /\ batch \in [Poller -> SUBSET Claim]
  BY DEF TypeOK
<1>5. work'[w] = [claim |-> c, seen |-> seen] /\ work'[w] # Idle /\ work'[w].claim = c
  BY <1>2, <1>3, <1>4, IdleAssumption
<1>6. Claimed(w)' = Claimed(w)
  BY <1>3, <1>4, <1>5 DEF Claimed
<1>7. \A v \in Poller \ {w} : work'[v] = work[v] /\ batch'[v] = batch[v]
  BY <1>3, <1>4
<1> QED
  BY <1>3, <1>4, <1>5, <1>6, <1>7 DEF Claimed

\* Save and Abort: w is rid of at least what it was working on.
LEMMA DropsClaims ==
  ASSUME NEW w \in Poller, TypeOK, SaveRow(w) \/ Abort(w)
  PROVE  /\ work' = [work EXCEPT ![w] = Idle]
         /\ Claimed(w)' = batch'[w] /\ batch'[w] \subseteq batch[w]
         /\ \A v \in Poller \ {w} : Claimed(v)' = Claimed(v)
         /\ \A v \in Poller : Claimed(v)' \subseteq Claimed(v)
<1>1. work \in [Poller -> Work \cup {Idle}] /\ batch \in [Poller -> SUBSET Claim]
  BY DEF TypeOK
<1>2. /\ work' = [work EXCEPT ![w] = Idle]
      /\ batch' = batch \/ batch' = [batch EXCEPT ![w] = {}]
  BY DEF SaveRow, Abort
<1>3. work'[w] = Idle /\ \A v \in Poller \ {w} : work'[v] = work[v] /\ batch'[v] = batch[v]
  BY <1>1, <1>2
<1>4. Claimed(w)' = batch'[w] /\ batch'[w] \subseteq batch[w]
  BY <1>1, <1>2, <1>3 DEF Claimed
<1> QED
  BY <1>2, <1>3, <1>4 DEF Claimed

\* A claim takes its snapshots of rows that are due, in scope and leased to nobody.
SnapshotOf(a) == [address |-> a, tracking |-> row[a], windowPassed |-> window[a] = 0]

LEMMA ClaimTakesSnapshots ==
  ASSUME NEW w \in Poller, TypeOK, ClaimDue(w)
  PROVE  \E S \in SUBSET ClaimableRows(w) :
           /\ Claimed(w)' = {SnapshotOf(a) : a \in S}
           /\ lease' = [a \in Address |-> IF a \in S THEN ClaimTTL ELSE lease[a]]
           /\ work[w] = Idle /\ work' = work
           /\ batch'[w] = {SnapshotOf(a) : a \in S}
           /\ \A v \in Poller \ {w} : Claimed(v)' = Claimed(v)
<1>1. PICK S \in SUBSET ClaimableRows(w) :
        /\ lease' = [a \in Address |-> IF a \in S THEN ClaimTTL ELSE lease[a]]
        /\ batch' = [batch EXCEPT ![w] = {SnapshotOf(a) : a \in S}]
  BY DEF ClaimDue, SnapshotOf
<1>2. batch \in [Poller -> SUBSET Claim]
  BY DEF TypeOK
<1>3. work[w] = Idle /\ work' = work
  BY DEF ClaimDue, Busy, Claimed
<1>4. batch'[w] = {SnapshotOf(a) : a \in S} /\ \A v \in Poller \ {w} : batch'[v] = batch[v]
  BY <1>1, <1>2
<1>5. Claimed(w)' = {SnapshotOf(a) : a \in S}
  BY <1>3, <1>4 DEF Claimed
<1> QED
  BY <1>1, <1>3, <1>4, <1>5 DEF Claimed

-----------------------------------------------------------------------------
(* What the store holds, however late it was saved *)

LEMMA TrackingsInit == Init => TrackingsInv /\ EventsAreMoves
<1> SUFFICES ASSUME Init PROVE TrackingsInv /\ EventsAreMoves
  OBVIOUS
<1>1. \A w \in Poller : Claimed(w) = {}
  BY DEF Init, Claimed
<1>2. \A a \in Address : Consistent(row[a]) /\ outbox[a] = << >>
  BY DEF Init, NewTracking, Consistent, PaidStatus, Watching, PaidUnconfirmed, PaidReverted, PaidConfirmed
<1> QED
  BY <1>1, <1>2 DEF TrackingsInv, EventsAreMoves

\* What a save writes and publishes: the outcome of its claim, and the one event of
\* the change from the claimed status.
LEMMA SaveEffects ==
  ASSUME NEW w \in Poller, TypeOK, TrackingsInv, Save(w)
  PROVE  \E c \in Claimed(w), seen \in Seen :
           LET t == Outcome(c, seen) IN
           /\ work[w] # Idle /\ c = work[w].claim /\ seen = work[w].seen
           /\ c \in Claim /\ c.address \in Address /\ t \in Tracking
           /\ c.tracking.status \in PollableStatus /\ Consistent(c.tracking)
           /\ row' = [row EXCEPT ![c.address] = t]
           /\ outbox' = [outbox EXCEPT ![c.address] =
                IF c.tracking.status = t.status THEN @
                ELSE Append(@, Published(c.tracking.status, t))]
<1>1. work[w] \in Work /\ work[w] # Idle
  BY DEF Save, SaveRow, TypeOK
<1> DEFINE c == work[w].claim
           t == Outcome(c, work[w].seen)
<1>2. c \in Claimed(w) /\ c \in Claim /\ c.address \in Address /\ work[w].seen \in Seen
  BY <1>1 DEF Claimed, Work, Claim, Seen
<1>3. t \in Tracking
  BY <1>2, OutcomeType
<1>4. c.tracking.status \in PollableStatus /\ Consistent(c.tracking)
  BY <1>2 DEF TrackingsInv
<1>5. outbox[c.address] \in Seq(Event)
  BY <1>2 DEF TypeOK, Event
<1>6. c.tracking.status \in PaymentReceiptStatus
  BY <1>2 DEF Claim, Tracking
<1>8. row' = [row EXCEPT ![c.address] = t]
  BY DEF Save, SaveRow
<1>9. outbox' = [outbox EXCEPT ![c.address] = outbox[c.address] \o StatusChangedEvent(c.tracking.status, t)]
  BY DEF Save
<1> HIDE DEF c, t
<1>10. outbox' = [outbox EXCEPT ![c.address] =
          IF c.tracking.status = t.status THEN @ ELSE Append(@, Published(c.tracking.status, t))]
  <2>1. CASE c.tracking.status = t.status
    <3>1. outbox[c.address] \o StatusChangedEvent(c.tracking.status, t) = outbox[c.address]
      BY <1>3, <1>5, <1>6, <2>1, EventOfChange
    <3> QED
      BY <1>9, <2>1, <3>1
  <2>2. CASE c.tracking.status # t.status
    <3>1. outbox[c.address] \o StatusChangedEvent(c.tracking.status, t) =
            Append(outbox[c.address], Published(c.tracking.status, t))
      BY <1>3, <1>5, <1>6, <2>2, EventOfChange
    <3> QED
      BY <1>9, <2>2, <3>1
  <2> QED
    BY <2>1, <2>2
<1> QED
  BY <1>1, <1>2, <1>3, <1>4, <1>8, <1>10 DEF c, t

LEMMA TrackingsStep ==
  TypeOK /\ TrackingsInv /\ EventsAreMoves /\ [Next]_vars => (TrackingsInv /\ EventsAreMoves)'
<1> SUFFICES ASSUME TypeOK, TrackingsInv, EventsAreMoves, [Next]_vars
             PROVE  (TrackingsInv /\ EventsAreMoves)'
  OBVIOUS
<1>1. ASSUME NEW w \in Poller, ClaimDue(w) PROVE (TrackingsInv /\ EventsAreMoves)'
  <2>1. PICK S \in SUBSET ClaimableRows(w) :
          /\ Claimed(w)' = {SnapshotOf(a) : a \in S}
          /\ \A v \in Poller \ {w} : Claimed(v)' = Claimed(v)
    BY <1>1, ClaimTakesSnapshots
  <2>2. row' = row /\ outbox' = outbox
    BY <1>1 DEF ClaimDue
  <2>3. \A c \in Claimed(w)' : c.tracking.status \in PollableStatus /\ Consistent(c.tracking)
    BY <2>1 DEF SnapshotOf, ClaimableRows, TrackingsInv
  <2> QED
    BY <2>1, <2>2, <2>3 DEF TrackingsInv, EventsAreMoves
<1>2. ASSUME NEW w \in Poller, NEW c \in batch[w],
             Observe(w, c) \/ ObserveFails(w, c) \/ TipFails(w, c) \/ TipFailedBefore(w, c)
      PROVE  (TrackingsInv /\ EventsAreMoves)'
  <2>1. PICK seen \in Seen : Observes(w, c, seen)
    BY <1>2, AskEffects
  <2>2. \A v \in Poller : Claimed(v)' = Claimed(v)
    BY <2>1, ObservesKeepsClaims
  <2>3. row' = row /\ outbox' = outbox
    BY <2>1 DEF Observes, rowVars
  <2> QED
    BY <2>2, <2>3 DEF TrackingsInv, EventsAreMoves
<1>3. ASSUME NEW w \in Poller, Save(w) PROVE (TrackingsInv /\ EventsAreMoves)'
  <2>1. PICK c \in Claimed(w), seen \in Seen :
           /\ c \in Claim /\ c.address \in Address
           /\ c.tracking.status \in PollableStatus /\ Consistent(c.tracking)
           /\ row' = [row EXCEPT ![c.address] = Outcome(c, seen)]
           /\ outbox' = [outbox EXCEPT ![c.address] =
                IF c.tracking.status = Outcome(c, seen).status THEN @
                ELSE Append(@, Published(c.tracking.status, Outcome(c, seen)))]
           /\ Outcome(c, seen) \in Tracking
    BY <1>3, SaveEffects
  <2> DEFINE t == Outcome(c, seen)
             e == Published(c.tracking.status, t)
  <2>2. Consistent(t) /\ (c.tracking.paid => t.paid)
    BY <2>1, OutcomeRules
  <2> HIDE DEF t
  <2>3. TrackingsInv'
    <3>1. \A v \in Poller : Claimed(v)' \subseteq Claimed(v)
      BY <1>3, DropsClaims DEF Save
    <3>2. \A a \in Address : row'[a] = row[a] \/ row'[a] = t
      BY <2>1 DEF TypeOK, t
    <3>3. \A a \in Address : Consistent(row'[a])
      BY <2>2, <3>2 DEF TrackingsInv
    <3> QED
      BY <3>1, <3>3 DEF TrackingsInv
  <2>4. t.status # c.tracking.status =>
          /\ e.previous \in PollableStatus /\ e.current # e.previous
          /\ e.previous \in {PaidUnconfirmed, PaidReverted} =>
               e.current \in {PaidUnconfirmed, PaidReverted, PaidConfirmed}
    <3>1. c.tracking.paid \in BOOLEAN /\ t.paid \in BOOLEAN
      BY <2>1 DEF Claim, Tracking, t
    <3> QED
      BY <2>1, <2>2, <3>1 DEF Published, Consistent, PaidStatus
  <2>5. outbox[c.address] \in Seq(Event) /\ e \in Event
    BY <2>1 DEF TypeOK, Event, Published, Claim, Tracking, t
  <2>6. /\ Len(Append(outbox[c.address], e)) = Len(outbox[c.address]) + 1
        /\ DOMAIN Append(outbox[c.address], e) = 1 .. Len(outbox[c.address]) + 1
        /\ \A i \in 1 .. Len(outbox[c.address]) : Append(outbox[c.address], e)[i] = outbox[c.address][i]
        /\ Append(outbox[c.address], e)[Len(outbox[c.address]) + 1] = e
        /\ DOMAIN outbox[c.address] = 1 .. Len(outbox[c.address]) /\ Len(outbox[c.address]) \in Nat
    BY <2>5, AppendProperties, LenProperties
  <2>7. EventsAreMoves'
    <3> SUFFICES ASSUME NEW a \in Address, NEW i \in DOMAIN outbox'[a]
                 PROVE  LET x == outbox'[a][i] IN
                        /\ x.previous \in PollableStatus /\ x.current # x.previous
                        /\ x.previous \in {PaidUnconfirmed, PaidReverted} =>
                             x.current \in {PaidUnconfirmed, PaidReverted, PaidConfirmed}
      BY DEF EventsAreMoves
    <3>1. CASE a # c.address \/ c.tracking.status = t.status
      <4>1. outbox'[a] = outbox[a]
        BY <2>1, <3>1 DEF TypeOK, t
      <4> QED
        BY <4>1 DEF EventsAreMoves
    <3>2. CASE a = c.address /\ c.tracking.status # t.status
      <4>1. outbox'[a] = Append(outbox[a], e)
        BY <2>1, <3>2 DEF TypeOK, t
      <4>2. i \in 1 .. Len(outbox[a]) + 1
        BY <2>6, <3>2, <4>1
      <4>3. CASE i = Len(outbox[a]) + 1
        BY <2>4, <2>6, <3>2, <4>1, <4>3
      <4>4. CASE i \in 1 .. Len(outbox[a])
        <5>1. outbox'[a][i] = outbox[a][i] /\ i \in DOMAIN outbox[a]
          BY <2>6, <3>2, <4>1, <4>4
        <5> QED
          BY <5>1 DEF EventsAreMoves
      <4> QED
        BY <2>6, <3>2, <4>2, <4>3, <4>4
    <3> QED
      BY <3>1, <3>2
  <2> QED
    BY <2>3, <2>7
<1>4. ASSUME NEW w \in Poller, Abort(w) PROVE (TrackingsInv /\ EventsAreMoves)'
  <2>1. \A v \in Poller : Claimed(v)' \subseteq Claimed(v)
    BY <1>4, DropsClaims
  <2> QED
    BY <1>4, <2>1 DEF Abort, rowVars, TrackingsInv, EventsAreMoves
<1>5. ASSUME NEW a \in Address, ChainMoves(a) PROVE (TrackingsInv /\ EventsAreMoves)'
  BY <1>5 DEF ChainMoves, rowVars, cycleVars, TrackingsInv, EventsAreMoves, Claimed
<1>6. CASE Tick
  BY <1>6 DEF Tick, TrackingsInv, EventsAreMoves, Claimed
<1>7. CASE UNCHANGED vars
  BY <1>7 DEF vars, rowVars, cycleVars, TrackingsInv, EventsAreMoves, Claimed
<1> QED
  BY <1>1, <1>2, <1>3, <1>4, <1>5, <1>6, <1>7 DEF Next, PollerStep

\* Every published event is a move of the lifecycle, however long the cycle that
\* published it took and whoever else worked on its row in the meantime.
THEOREM EventsMove == Spec => []EventsAreMoves
BY TypeCorrect, TrackingsInit, TrackingsStep, PTL DEF Spec

-----------------------------------------------------------------------------
(* A payment in time never expires *)

LEMMA TimelyInit == Init => TimelyInv
<1> SUFFICES ASSUME Init PROVE TimelyInv
  OBVIOUS
<1>1. \A w \in Poller : Claimed(w) = {} /\ work[w] = Idle
  BY DEF Init, Claimed
<1>2. \A a \in Address : ~paidInTime[a]
  BY DEF Init
<1> QED
  BY <1>1, <1>2 DEF TimelyInv

LEMMA TimelyStep == TypeOK /\ TimelyInv /\ [Next]_vars => TimelyInv'
<1> SUFFICES ASSUME TypeOK, TimelyInv, [Next]_vars PROVE TimelyInv'
  OBVIOUS
<1>0. /\ work \in [Poller -> Work \cup {Idle}] /\ batch \in [Poller -> SUBSET Claim]
      /\ \A w \in Poller : work[w] # Idle => work[w].claim \in Claimed(w)
  BY DEF TypeOK, Claimed
<1>1. ASSUME NEW w \in Poller, ClaimDue(w) PROVE TimelyInv'
  <2>1. PICK S \in SUBSET ClaimableRows(w) :
          /\ Claimed(w)' = {SnapshotOf(a) : a \in S}
          /\ work' = work
          /\ \A v \in Poller \ {w} : Claimed(v)' = Claimed(v)
    BY <1>1, ClaimTakesSnapshots
  <2>2. window' = window /\ chain' = chain /\ paidInTime' = paidInTime
    BY <1>1 DEF ClaimDue, envVars
  <2>3. \A c \in Claimed(w)' : c.windowPassed => window[c.address] = 0
    <3> SUFFICES ASSUME NEW a \in S, SnapshotOf(a).windowPassed
                 PROVE  window[SnapshotOf(a).address] = 0
      BY <2>1
    <3>1. SnapshotOf(a).address = a /\ SnapshotOf(a).windowPassed = (window[a] = 0)
      BY DEF SnapshotOf
    <3> QED
      BY <3>1
  <2> QED
    BY <2>1, <2>2, <2>3 DEF TimelyInv
<1>2. ASSUME NEW w \in Poller, NEW c \in batch[w],
             Observe(w, c) \/ ObserveFails(w, c) \/ TipFails(w, c) \/ TipFailedBefore(w, c)
      PROVE  TimelyInv'
  <2>1. PICK seen \in Seen :
          /\ Observes(w, c, seen)
          /\ seen = OnChain(c.address) \/ seen = ObserverError \/ ~ObservationValid(seen)
    BY <1>2, AskEffects
  <2>2. /\ \A v \in Poller : Claimed(v)' = Claimed(v)
        /\ work'[w] = [claim |-> c, seen |-> seen]
        /\ \A v \in Poller \ {w} : work'[v] = work[v]
    BY <2>1, ObservesKeepsClaims
  <2>3. window' = window /\ chain' = chain /\ paidInTime' = paidInTime
    BY <2>1 DEF Observes, rowVars
  <2>4. Expiring(c, seen) => ~paidInTime[c.address]
    <3>1. c.address \in Address
      BY <1>0 DEF Claim
    <3>2. /\ OnChain(c.address).observed \in Int
          /\ OnChain(c.address).observed =
               chain[c.address].confirmed + chain[c.address].unconfirmed
      BY <3>1, ConstantsAssumption DEF OnChain, TypeOK, Holding
    <3>3. ExpectedAmount[c.address] \in Nat
      BY <3>1, ConstantsAssumption
    <3>4. Expiring(c, seen) => seen = OnChain(c.address) /\ seen.observed < ExpectedAmount[c.address]
      BY <2>1 DEF Expiring
    <3> QED
      BY <3>1, <3>2, <3>3, <3>4 DEF TimelyInv
  <2>5. ASSUME NEW v \in Poller, work'[v] # Idle, Expiring(work'[v].claim, work'[v].seen)
        PROVE  ~paidInTime[work'[v].claim.address]
    <3>1. CASE v = w
      BY <2>2, <2>4, <2>5, <3>1
    <3>2. CASE v # w
      BY <2>2, <2>5, <3>2 DEF TimelyInv
    <3> QED
      BY <3>1, <3>2
  <2> QED
    BY <2>2, <2>3, <2>5 DEF TimelyInv
<1>3. ASSUME NEW w \in Poller, SaveRow(w) \/ Abort(w) PROVE TimelyInv'
  <2>1. /\ \A v \in Poller : Claimed(v)' \subseteq Claimed(v)
        /\ work' = [work EXCEPT ![w] = Idle]
    BY <1>3, DropsClaims
  <2>2. window' = window /\ chain' = chain /\ paidInTime' = paidInTime
    BY <1>3 DEF SaveRow, Abort, rowVars, envVars
  <2>3. \A v \in Poller : work'[v] # Idle => work'[v] = work[v]
    BY <1>0, <2>1
  <2> QED
    BY <2>1, <2>2, <2>3 DEF TimelyInv
<1>4. ASSUME NEW a \in Address, ChainMoves(a) PROVE TimelyInv'
  <2>1. PICK h \in Holding :
          /\ chain' = [chain EXCEPT ![a] = h]
          /\ paidInTime' = [paidInTime EXCEPT ![a] =
               /\ h.confirmed + h.unconfirmed >= ExpectedAmount[a]
               /\ @ \/ window[a] > 0]
    BY <1>4 DEF ChainMoves
  <2>2. /\ \A v \in Poller : Claimed(v)' = Claimed(v)
        /\ work' = work /\ window' = window
    BY <1>4 DEF ChainMoves, rowVars, cycleVars, Claimed
  <2>3. \A b \in Address : b # a => chain'[b] = chain[b] /\ paidInTime'[b] = paidInTime[b]
    BY <2>1 DEF TypeOK
  <2>4. /\ chain'[a] = h
        /\ paidInTime'[a] => /\ h.confirmed + h.unconfirmed >= ExpectedAmount[a]
                             /\ paidInTime[a] \/ window[a] > 0
    BY <2>1 DEF TypeOK
  <2>5. \A b \in Address :
          paidInTime'[b] => chain'[b].confirmed + chain'[b].unconfirmed >= ExpectedAmount[b]
    BY <2>3, <2>4 DEF TimelyInv
  <2>6. ASSUME NEW v \in Poller, work[v] # Idle, Expiring(work[v].claim, work[v].seen)
        PROVE  ~paidInTime'[work[v].claim.address]
    <3> DEFINE b == work[v].claim.address
    <3>1. b \in Address
      BY <1>0, <2>6 DEF Work, Claim
    <3>2. window[b] = 0 /\ ~paidInTime[b]
      BY <1>0, <2>6 DEF TimelyInv, Expiring
    <3>3. window[b] \in Nat
      BY <3>1, ConstantsAssumption DEF TypeOK, ReceiptTerms
    <3> QED
      BY <2>3, <2>4, <3>1, <3>2, <3>3
  <2> QED
    BY <2>2, <2>5, <2>6 DEF TimelyInv
<1>5. CASE Tick
  <2>1. /\ \A v \in Poller : Claimed(v)' = Claimed(v) /\ Claimed(v) \subseteq Claim
        /\ work' = work /\ chain' = chain /\ paidInTime' = paidInTime
    BY <1>0, <1>5 DEF Tick, envVars, Claimed, Work
  <2>2. \A a \in Address : window[a] = 0 => window'[a] = 0
    BY <1>5 DEF Tick, CountDown
  <2> QED
    BY <2>1, <2>2 DEF TimelyInv, Claim
<1>6. CASE UNCHANGED vars
  BY <1>6 DEF vars, rowVars, cycleVars, envVars, TimelyInv, Claimed
<1> QED
  BY <1>1, <1>2, <1>3, <1>4, <1>5, <1>6 DEF Next, PollerStep, Save

\* Only the save of an expiring observation expires a row: one made once the window
\* had passed, of an address that did not hold its amount then and, the window being
\* over, has not held it in time since.
LEMMA ExpiryIsLate ==
  TypeOK /\ TrackingsInv /\ TimelyInv /\ [Next]_vars =>
    \A a \in Address :
      row'[a].status = FailedExpired /\ row[a].status # FailedExpired => ~paidInTime[a]
<1> SUFFICES ASSUME TypeOK, TrackingsInv, TimelyInv, [Next]_vars, NEW a \in Address,
                    row'[a].status = FailedExpired, row[a].status # FailedExpired
             PROVE  ~paidInTime[a]
  OBVIOUS
<1>1. ASSUME row' = row PROVE FALSE
  BY <1>1
<1>2. \A w \in Poller : ~ClaimDue(w) /\ ~Abort(w)
  BY <1>1 DEF ClaimDue, Abort, rowVars
<1>3. \A w \in Poller : \A c \in batch[w] :
        ~(Observe(w, c) \/ ObserveFails(w, c) \/ TipFails(w, c) \/ TipFailedBefore(w, c))
  BY <1>1, AskEffects DEF Observes, rowVars
<1>4. ~Tick /\ ~UNCHANGED vars /\ \A b \in Address : ~ChainMoves(b)
  BY <1>1 DEF Tick, ChainMoves, vars, rowVars
<1>5. PICK w \in Poller : Save(w)
  BY <1>2, <1>3, <1>4 DEF Next, PollerStep
<1>6. PICK c \in Claimed(w), seen \in Seen :
        /\ work[w] # Idle /\ c = work[w].claim /\ seen = work[w].seen
        /\ c \in Claim /\ c.address \in Address
        /\ c.tracking.status \in PollableStatus /\ Consistent(c.tracking)
        /\ row' = [row EXCEPT ![c.address] = Outcome(c, seen)]
  BY <1>5, SaveEffects
<1>7. a = c.address /\ Outcome(c, seen).status = FailedExpired
  BY <1>6 DEF TypeOK
<1>8. Expiring(c, seen)
  BY <1>6, <1>7, OutcomeRules
<1> QED
  BY <1>6, <1>7, <1>8 DEF TimelyInv

\* However late its poller and however long its cycle, a row never expires whose
\* address has held the amount due since before the end of its payment window.
THEOREM TimelyNeverExpires == Spec => TimelyPaymentNeverExpires
<1>1. Spec => [](TypeOK /\ TrackingsInv /\ TimelyInv)
  <2>1. Init => TypeOK /\ TrackingsInv /\ EventsAreMoves /\ TimelyInv
    BY TypingInit, TrackingsInit, TimelyInit
  <2>2. TypeOK /\ TrackingsInv /\ EventsAreMoves /\ TimelyInv /\ [Next]_vars
          => (TypeOK /\ TrackingsInv /\ EventsAreMoves /\ TimelyInv)'
    BY TypingStep, TrackingsStep, TimelyStep
  <2> QED
    BY <2>1, <2>2, PTL DEF Spec
<1>2. TypeOK /\ TrackingsInv /\ TimelyInv /\ [Next]_vars =>
        [\A a \in Address :
           row'[a].status = FailedExpired /\ row[a].status # FailedExpired => ~paidInTime[a]]_vars
  BY ExpiryIsLate
<1> QED
  BY <1>1, <1>2, PTL DEF Spec, TimelyPaymentNeverExpires

-----------------------------------------------------------------------------
(* Cycles that end within their lease *)

LEMMA LeaseInit == Init => LeaseInv
<1> SUFFICES ASSUME Init PROVE LeaseInv
  OBVIOUS
<1>1. \A w \in Poller : Claimed(w) = {} /\ work[w] = Idle
  BY DEF Init, Claimed
<1> QED
  BY <1>1 DEF LeaseInv, SnapshotsAreCurrent, Busy

\* Nobody else can claim a row whose lease is running, and the lease of a claim runs
\* for as long as the cycle may take: so what a cycle overwrites is what it read.
LEMMA LeaseStep ==
  ASSUME MayOverrunLease = FALSE
  PROVE  TypeOK /\ LeaseInv /\ [Next]_vars => LeaseInv'
<1> SUFFICES ASSUME TypeOK, LeaseInv, [Next]_vars PROVE LeaseInv'
  OBVIOUS
<1>0. /\ ClaimTTL \in Nat \ {0} /\ RescheduleInterval \in Nat
      /\ age \in [Poller -> 0..MaxAge] /\ row \in [Address -> Tracking]
      /\ lease \in [Address -> 0..ClaimTTL]
      /\ work \in [Poller -> Work \cup {Idle}] /\ batch \in [Poller -> SUBSET Claim]
      /\ \A w \in Poller : Claimed(w) \subseteq Claim /\ batch[w] \subseteq Claimed(w)
      /\ \A w \in Poller : work[w] # Idle => work[w].claim \in Claimed(w)
      /\ ClaimTTL <= MaxAge /\ MaxAge \in Nat
  BY ConstantsAssumption DEF TypeOK, PollerConfig, Claimed, Work, MaxAge
<1>1. ASSUME NEW w \in Poller, ClaimDue(w) PROVE LeaseInv'
  <2>1. PICK S \in SUBSET ClaimableRows(w) :
          /\ Claimed(w)' = {SnapshotOf(a) : a \in S}
          /\ lease' = [a \in Address |-> IF a \in S THEN ClaimTTL ELSE lease[a]]
          /\ work[w] = Idle /\ work' = work
          /\ batch'[w] = {SnapshotOf(a) : a \in S}
          /\ \A v \in Poller \ {w} : Claimed(v)' = Claimed(v)
    BY <1>1, ClaimTakesSnapshots
  <2>2. row' = row /\ age' = [age EXCEPT ![w] = 0]
    BY <1>1 DEF ClaimDue
  <2>3. age'[w] = 0 /\ \A v \in Poller \ {w} : age'[v] = age[v] /\ batch'[v] = batch[v]
    BY <1>0, <1>1, <2>2 DEF ClaimDue
  <2>4. \A a \in S : a \in Address /\ lease[a] = 0 /\ lease'[a] = ClaimTTL
    BY <2>1 DEF ClaimableRows
  <2>5. ASSUME NEW v \in Poller \ {w}, NEW d \in Claimed(v)
        PROVE  /\ d.address \in Address \ S
               /\ d.tracking = row[d.address] /\ lease'[d.address] = ClaimTTL - age[v]
    <3>1. /\ d.tracking = row[d.address] /\ lease[d.address] = ClaimTTL - age[v]
          /\ age[v] < ClaimTTL /\ age[v] \in Nat /\ d.address \in Address
      BY <1>0 DEF LeaseInv, SnapshotsAreCurrent, Busy, Claim
    <3>2. d.address \notin S
      BY <1>0, <2>4, <3>1
    <3> QED
      BY <2>1, <3>1, <3>2
  <2>6. \A c \in Claimed(w)' : c.address \in S /\ c.tracking = row[c.address] /\ c = SnapshotOf(c.address)
    BY <2>1 DEF SnapshotOf
  <2>7. SnapshotsAreCurrent'
    <3>1. ASSUME NEW c \in Claimed(w)'
          PROVE  /\ c.tracking = row'[c.address] /\ lease'[c.address] = ClaimTTL - age'[w]
                 /\ \A v \in Poller \ {w} : \A d \in Claimed(v)' : d.address # c.address
      BY <1>0, <2>1, <2>2, <2>3, <2>4, <2>5, <2>6
    <3>2. ASSUME NEW v \in Poller \ {w}, NEW c \in Claimed(v)'
          PROVE  /\ c.tracking = row'[c.address] /\ lease'[c.address] = ClaimTTL - age'[v]
                 /\ \A u \in Poller \ {v} : \A d \in Claimed(u)' : d.address # c.address
      <4>1. c \in Claimed(v)
        BY <2>1
      <4>2. \A u \in Poller \ {v, w} : \A d \in Claimed(u)' : d.address # c.address
        BY <2>1, <4>1 DEF LeaseInv, SnapshotsAreCurrent
      <4> QED
        BY <2>2, <2>3, <2>5, <2>6, <4>1, <4>2
    <3> QED
      BY <3>1, <3>2 DEF SnapshotsAreCurrent
  <2>8. \A v \in Poller : Busy(v)' => age'[v] < ClaimTTL
    BY <1>0, <2>1, <2>3 DEF LeaseInv, Busy
  <2>9. \A v \in Poller : \A c, d \in Claimed(v)' : c.address = d.address => c = d
    BY <2>1, <2>6 DEF LeaseInv
  <2>10. \A v \in Poller : work'[v] # Idle => work'[v].claim \notin batch'[v]
    BY <2>1, <2>3 DEF LeaseInv
  <2> QED
    BY <2>7, <2>8, <2>9, <2>10 DEF LeaseInv
<1>2. ASSUME NEW w \in Poller, NEW c \in batch[w],
             Observe(w, c) \/ ObserveFails(w, c) \/ TipFails(w, c) \/ TipFailedBefore(w, c)
      PROVE  LeaseInv'
  <2>1. PICK seen \in Seen : Observes(w, c, seen)
    BY <1>2, AskEffects
  <2>2. /\ \A v \in Poller : Claimed(v)' = Claimed(v)
        /\ work'[w] = [claim |-> c, seen |-> seen]
        /\ \A v \in Poller \ {w} : work'[v] = work[v]
        /\ \A v \in Poller : batch'[v] = batch[v] \ (IF v = w THEN {c} ELSE {})
    BY <2>1, ObservesKeepsClaims
  <2>3. row' = row /\ lease' = lease /\ age' = age
    BY <2>1 DEF Observes, rowVars
  <2>4. SnapshotsAreCurrent'
    BY <2>2, <2>3 DEF LeaseInv, SnapshotsAreCurrent
  <2>5. \A v \in Poller : work'[v] # Idle => work'[v].claim \notin batch'[v]
    BY <2>2 DEF LeaseInv
  <2> QED
    BY <2>2, <2>3, <2>4, <2>5 DEF LeaseInv, Busy
<1>3. ASSUME NEW w \in Poller, SaveRow(w) \/ Abort(w) PROVE LeaseInv'
  <2>1. /\ work' = [work EXCEPT ![w] = Idle]
        /\ Claimed(w)' = batch'[w] /\ batch'[w] \subseteq batch[w]
        /\ \A v \in Poller \ {w} : Claimed(v)' = Claimed(v)
        /\ \A v \in Poller : Claimed(v)' \subseteq Claimed(v)
    BY <1>3, DropsClaims
  <2>2. \A v \in Poller : Claimed(v)' # {} => age'[v] = age[v]
    BY <1>0, <1>3, <2>1 DEF SaveRow, Abort
  <2>3. ASSUME NEW v \in Poller, NEW d \in Claimed(v)'
        PROVE  row'[d.address] = row[d.address] /\ lease'[d.address] = lease[d.address]
    <3>1. CASE Abort(w)
      BY <3>1 DEF Abort, rowVars
    <3>2. CASE SaveRow(w)
      <4> DEFINE c == work[w].claim
      <4>1. c \in Claimed(w) /\ c \notin batch[w]
        BY <1>0, <3>2 DEF SaveRow, LeaseInv
      <4>2. d.address # c.address
        <5>1. CASE v = w
          <6>1. d \in batch[w] /\ d \in Claimed(w)
            BY <1>0, <2>1, <5>1
          <6> QED
            BY <4>1, <6>1 DEF LeaseInv
        <5>2. CASE v # w
          BY <2>1, <4>1, <5>2 DEF LeaseInv, SnapshotsAreCurrent
        <5> QED
          BY <5>1, <5>2
      <4>3. /\ row' = [row EXCEPT ![c.address] = Outcome(c, work[w].seen)]
            /\ lease' = [lease EXCEPT ![c.address] = 0]
        BY <3>2 DEF SaveRow
      <4>4. d.address \in Address
        BY <1>0, <2>1 DEF Claim
      <4> QED
        BY <1>0, <4>2, <4>3, <4>4
    <3> QED
      BY <1>3, <3>1, <3>2
  <2>4. SnapshotsAreCurrent'
    <3> SUFFICES ASSUME NEW v \in Poller, NEW d \in Claimed(v)'
                 PROVE  /\ d.tracking = row'[d.address] /\ lease'[d.address] = ClaimTTL - age'[v]
                        /\ \A u \in Poller \ {v} : \A e \in Claimed(u)' : e.address # d.address
      BY DEF SnapshotsAreCurrent
    <3>1. d \in Claimed(v) /\ age'[v] = age[v]
      BY <2>1, <2>2
    <3>2. /\ d.tracking = row[d.address] /\ lease[d.address] = ClaimTTL - age[v]
          /\ \A u \in Poller \ {v} : \A e \in Claimed(u) : e.address # d.address
      BY <3>1 DEF LeaseInv, SnapshotsAreCurrent
    <3> QED
      BY <2>1, <2>3, <3>1, <3>2
  <2>5. \A v \in Poller : Busy(v)' => age'[v] < ClaimTTL
    BY <2>1, <2>2 DEF Busy, LeaseInv
  <2>6. \A v \in Poller : work'[v] # Idle => work'[v].claim \notin batch'[v]
    <3>1. \A v \in Poller \ {w} : batch'[v] = batch[v] /\ work'[v] = work[v]
      BY <1>0, <1>3 DEF SaveRow, Abort
    <3>2. work'[w] = Idle
      BY <1>0, <2>1
    <3> QED
      BY <3>1, <3>2 DEF LeaseInv
  <2> QED
    BY <2>1, <2>4, <2>5, <2>6 DEF LeaseInv
<1>4. ASSUME NEW a \in Address, ChainMoves(a) PROVE LeaseInv'
  BY <1>4 DEF ChainMoves, rowVars, cycleVars, LeaseInv, SnapshotsAreCurrent, Busy, Claimed
<1>5. CASE Tick
  <2>1. /\ \A v \in Poller : Claimed(v)' = Claimed(v)
        /\ row' = row /\ batch' = batch /\ work' = work
    BY <1>5 DEF Tick, Claimed
  <2>2. \A v \in Poller : Busy(v) => age[v] \in Nat /\ age[v] + 1 < ClaimTTL
    BY <1>0, <1>5 DEF Tick
  <2>3. \A v \in Poller : Busy(v) => age'[v] = age[v] + 1
    BY <1>0, <1>5, <2>2 DEF Tick
  <2>4. ASSUME NEW v \in Poller, NEW c \in Claimed(v)
        PROVE  lease'[c.address] = ClaimTTL - age'[v]
    <3>1. c.address \in Address /\ lease[c.address] = ClaimTTL - age[v] /\ Busy(v)
      BY <1>0 DEF LeaseInv, SnapshotsAreCurrent, Busy, Claim
    <3>2. lease'[c.address] = CountDown(lease[c.address])
      BY <1>5, <3>1 DEF Tick
    <3> QED
      BY <1>0, <2>2, <2>3, <3>1, <3>2 DEF CountDown
  <2>5. SnapshotsAreCurrent'
    BY <2>1, <2>4 DEF LeaseInv, SnapshotsAreCurrent
  <2>6. \A v \in Poller : Busy(v)' => age'[v] < ClaimTTL
    BY <1>0, <2>1, <2>2, <2>3 DEF Busy
  <2> QED
    BY <2>1, <2>5, <2>6 DEF LeaseInv
<1>6. CASE UNCHANGED vars
  BY <1>6 DEF vars, rowVars, cycleVars, LeaseInv, SnapshotsAreCurrent, Busy, Claimed
<1> QED
  BY <1>1, <1>2, <1>3, <1>4, <1>5, <1>6 DEF Next, PollerStep, Save

\* The save has no WHERE on status or lease, and needs none as long as a cycle ends
\* within its lease: the row it overwrites is still the one it claimed, and no other
\* cycle is working on it.
THEOREM SnapshotsCurrent ==
  ASSUME MayOverrunLease = FALSE
  PROVE  Spec => []SnapshotsAreCurrent
<1>1. Init => TypeOK /\ LeaseInv
  BY TypingInit, LeaseInit
<1>2. TypeOK /\ LeaseInv /\ [Next]_vars => (TypeOK /\ LeaseInv)'
  BY TypingStep, LeaseStep
<1>3. LeaseInv => SnapshotsAreCurrent
  BY DEF LeaseInv
<1> QED
  BY <1>1, <1>2, <1>3, PTL DEF Spec

-----------------------------------------------------------------------------
(* The lifecycle *)

\* A step either leaves every row and outbox alone or is a save over a current
\* snapshot: the row takes the outcome of its own tracking, and publishes the change.
LEMMA RowSteps ==
  ASSUME TypeOK, TrackingsInv, SnapshotsAreCurrent, [Next]_vars
  PROVE  \/ row' = row /\ outbox' = outbox
         \/ \E a \in Address, t \in Tracking :
              /\ row[a].status \in PollableStatus
              /\ Consistent(row[a]) /\ Consistent(t)
              /\ row[a].paid => t.paid
              /\ t.status = PaidReverted => row[a].paid
              /\ row' = [row EXCEPT ![a] = t]
              /\ outbox' = [outbox EXCEPT ![a] =
                   IF row[a].status = t.status THEN @
                   ELSE Append(@, Published(row[a].status, t))]
<1>1. CASE \E w \in Poller : Save(w)
  <2>1. PICK w \in Poller : Save(w)
    BY <1>1
  <2>2. PICK c \in Claimed(w), seen \in Seen :
          LET t == Outcome(c, seen) IN
          /\ c \in Claim /\ c.address \in Address /\ t \in Tracking
          /\ c.tracking.status \in PollableStatus /\ Consistent(c.tracking)
          /\ row' = [row EXCEPT ![c.address] = t]
          /\ outbox' = [outbox EXCEPT ![c.address] =
               IF c.tracking.status = t.status THEN @
               ELSE Append(@, Published(c.tracking.status, t))]
    BY <2>1, SaveEffects
  <2>3. c.tracking = row[c.address]
    BY DEF SnapshotsAreCurrent
  <2>4. /\ Consistent(Outcome(c, seen))
        /\ c.tracking.paid => Outcome(c, seen).paid
        /\ Outcome(c, seen).status = PaidReverted => c.tracking.paid
    BY <2>2, OutcomeRules
  <2> DEFINE t == Outcome(c, seen)
  <2> HIDE DEF t
  <2> QED
    BY <2>2, <2>3, <2>4 DEF t
<1>2. CASE ~ \E w \in Poller : Save(w)
  <2>1. \A w \in Poller : \A c \in batch[w] :
          Observe(w, c) \/ ObserveFails(w, c) \/ TipFails(w, c) \/ TipFailedBefore(w, c)
            => row' = row /\ outbox' = outbox
    BY AskEffects DEF Observes, rowVars
  <2> QED
    BY <1>2, <2>1 DEF Next, PollerStep, ClaimDue, Abort, ChainMoves, Tick, vars, rowVars
<1> QED
  BY <1>1, <1>2

LEMMA LifecycleInit == Init => Lifecycle!Init
<1> SUFFICES ASSUME Init PROVE Lifecycle!Init
  OBVIOUS
<1>1. \A a \in Address : row[a].status = Watching /\ row[a].paid = FALSE
  BY DEF Init, NewTracking
<1> QED
  BY <1>1 DEF Init, StatusAnswer, Lifecycle!Init, Lifecycle!Watching, Watching

\* The answered status, the answer whether it is paid, and the published events move
\* together, by one step of the lifecycle or not at all.
LEMMA LifecycleStep ==
  ASSUME TypeOK, TrackingsInv, SnapshotsAreCurrent, [Next]_vars
  PROVE  [Lifecycle!Next]_Lifecycle!vars
<1>1. CASE row' = row /\ outbox' = outbox
  BY <1>1 DEF Lifecycle!vars, StatusAnswer
<1>2. CASE \E a \in Address, t \in Tracking :
              /\ row[a].status \in PollableStatus
              /\ Consistent(row[a]) /\ Consistent(t)
              /\ row[a].paid => t.paid
              /\ t.status = PaidReverted => row[a].paid
              /\ row' = [row EXCEPT ![a] = t]
              /\ outbox' = [outbox EXCEPT ![a] =
                   IF row[a].status = t.status THEN @
                   ELSE Append(@, Published(row[a].status, t))]
  <2>1. PICK a \in Address, t \in Tracking :
              /\ row[a].status \in PollableStatus
              /\ Consistent(row[a]) /\ Consistent(t)
              /\ row[a].paid => t.paid
              /\ t.status = PaidReverted => row[a].paid
              /\ row' = [row EXCEPT ![a] = t]
              /\ outbox' = [outbox EXCEPT ![a] =
                   IF row[a].status = t.status THEN @
                   ELSE Append(@, Published(row[a].status, t))]
    BY <1>2
  <2>2. /\ row \in [Address -> Tracking] /\ outbox \in [Address -> Seq(Event)]
        /\ row[a].paid \in BOOLEAN /\ t.paid \in BOOLEAN /\ t.status \in PaymentReceiptStatus
    BY DEF TypeOK, Tracking, Event
  <2>3. /\ row'[a] = t
        /\ \A b \in Address \ {a} : row'[b] = row[b]
    BY <2>1, <2>2
  <2>4. CASE row[a].status = t.status
    <3>1. row[a].paid = t.paid
      BY <2>1, <2>2, <2>4 DEF Consistent
    <3>2. outbox' = outbox
      BY <2>1, <2>2, <2>4
    <3>3. \A b \in Address : row'[b].status = row[b].status /\ row'[b].paid = row[b].paid
      BY <2>3, <2>4, <3>1
    <3> QED
      BY <3>2, <3>3 DEF Lifecycle!vars, StatusAnswer
  <2>5. CASE row[a].status # t.status
    <3> DEFINE s == t.status
    <3>1. s \in Lifecycle!PaymentReceiptStatus
      BY <2>2 DEF PaymentReceiptStatus, Lifecycle!PaymentReceiptStatus, Watching, PartiallyPaid,
        PaidUnconfirmed, PaidReverted, PaidConfirmed, FailedExpired, Lifecycle!Watching,
        Lifecycle!PartiallyPaid, Lifecycle!PaidUnconfirmed, Lifecycle!PaidReverted,
        Lifecycle!PaidConfirmed, Lifecycle!FailedExpired
    <3>2. ~Lifecycle!Settled(row[a].status)
      BY <2>1 DEF PollableStatus, Watching, PartiallyPaid, PaidUnconfirmed, PaidReverted,
        Lifecycle!Settled, Lifecycle!PaidConfirmed, Lifecycle!FailedExpired
    <3>3. Lifecycle!Allowed(s, row[a].paid)
      BY <2>1, <2>2 DEF Lifecycle!Allowed, Consistent, PaidStatus, PaidUnconfirmed, PaidReverted,
        PaidConfirmed, Lifecycle!Watching, Lifecycle!PartiallyPaid, Lifecycle!FailedExpired,
        Lifecycle!PaidReverted
    <3>4. t.paid = (row[a].paid \/ s \in {Lifecycle!PaidUnconfirmed, Lifecycle!PaidConfirmed})
      BY <2>1, <2>2 DEF Consistent, PaidStatus, PaidUnconfirmed, PaidReverted,
        PaidConfirmed, Lifecycle!PaidUnconfirmed, Lifecycle!PaidConfirmed
    <3> HIDE DEF s
    <3>5. [b \in Address |-> row'[b].status] = [[b \in Address |-> row[b].status] EXCEPT ![a] = s]
      BY <2>3 DEF s
    <3>6. [b \in Address |-> row'[b].paid] = [[b \in Address |-> row[b].paid] EXCEPT
             ![a] = row[a].paid \/ s \in {Lifecycle!PaidUnconfirmed, Lifecycle!PaidConfirmed}]
      BY <2>3, <3>4
    <3>7. outbox' = [outbox EXCEPT ![a] =
             Append(@, [previous |-> row[a].status, current |-> s])]
      BY <2>1, <2>5 DEF Published, s
    <3>8. Lifecycle!Advance(a, s)
      BY <2>5, <3>2, <3>3, <3>5, <3>6, <3>7 DEF Lifecycle!Advance, StatusAnswer, s
    <3> QED
      BY <3>1, <3>8 DEF Lifecycle!Next
  <2> QED
    BY <2>4, <2>5
<1> QED
  BY <1>1, <1>2, RowSteps

LEMMA CurrentInv ==
  ASSUME MayOverrunLease = FALSE
  PROVE  Spec => [](TypeOK /\ TrackingsInv /\ SnapshotsAreCurrent)
<1>1. Init => TypeOK /\ LeaseInv /\ TrackingsInv /\ EventsAreMoves
  BY TypingInit, LeaseInit, TrackingsInit
<1>2. TypeOK /\ LeaseInv /\ TrackingsInv /\ EventsAreMoves /\ [Next]_vars
        => (TypeOK /\ LeaseInv /\ TrackingsInv /\ EventsAreMoves)'
  BY TypingStep, LeaseStep, TrackingsStep
<1>3. LeaseInv => SnapshotsAreCurrent
  BY DEF LeaseInv
<1> QED
  BY <1>1, <1>2, <1>3, PTL DEF Spec

\* What is answered and published is the lifecycle, whatever number of pollers share
\* the table, crash or fail to observe, as long as each cycle ends within its lease.
THEOREM ImplementsLifecycle ==
  ASSUME MayOverrunLease = FALSE
  PROVE  Spec => LifecycleSpec
<1>1. Init => Lifecycle!Init
  BY LifecycleInit
<1>2. TypeOK /\ TrackingsInv /\ SnapshotsAreCurrent /\ [Next]_vars => [Lifecycle!Next]_Lifecycle!vars
  BY LifecycleStep
<1> QED
  BY <1>1, <1>2, CurrentInv, PTL DEF Spec, LifecycleSpec, Lifecycle!Spec

\* Under the same condition paid_at is sticky, and a paid row takes no unpaid status.
\* (A cycle that outlives its lease breaks it: the run polling_sticky_paid.)
THEOREM PaidSticks ==
  ASSUME MayOverrunLease = FALSE
  PROVE  Spec => PaidIsSticky
<1>1. ASSUME TypeOK, TrackingsInv, SnapshotsAreCurrent, [Next]_vars,
             NEW a \in Address, row[a].paid
      PROVE  row'[a].paid /\ row'[a].status \notin {Watching, PartiallyPaid, FailedExpired}
  <2>1. PICK t \in Tracking : Consistent(t) /\ t.paid /\ row'[a] = t
    <3>1. row \in [Address -> Tracking]
      BY <1>1 DEF TypeOK
    <3>2. CASE row' = row
      BY <1>1, <3>1, <3>2 DEF TrackingsInv
    <3>3. CASE \E b \in Address, t \in Tracking :
                 /\ Consistent(t) /\ row' = [row EXCEPT ![b] = t]
                 /\ row[b].paid => t.paid
      <4>1. PICK b \in Address, t \in Tracking :
                 /\ Consistent(t) /\ row' = [row EXCEPT ![b] = t]
                 /\ row[b].paid => t.paid
        BY <3>3
      <4>2. CASE a = b
        BY <1>1, <3>1, <4>1, <4>2
      <4>3. CASE a # b
        BY <1>1, <3>1, <4>1, <4>3 DEF TrackingsInv
      <4> QED
        BY <4>2, <4>3
    <3> QED
      BY <1>1, <3>2, <3>3, RowSteps
  <2> QED
    BY <2>1 DEF Consistent, PaidStatus, Watching, PartiallyPaid, PaidUnconfirmed, PaidReverted,
      PaidConfirmed, FailedExpired
<1>2. TypeOK /\ TrackingsInv /\ SnapshotsAreCurrent /\ [Next]_vars =>
        [\A a \in Address : row[a].paid =>
           /\ row'[a].paid
           /\ row'[a].status \notin {Watching, PartiallyPaid, FailedExpired}]_vars
  BY <1>1
<1> QED
  BY <1>2, CurrentInv, PTL DEF Spec, PaidIsSticky
=============================================================================
