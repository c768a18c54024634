--------------------------- MODULE ReceiptTracking ---------------------------
(***************************************************************************)
(* The receipt tracking aggregate: the pure rules that turn a blockchain   *)
(* observation into the next state of a payment.  No operator here keeps   *)
(* state; ReceiptPolling applies them to rows of payment_receipt_trackings.*)
(*                                                                         *)
(* Instants that are only ever compared with "never" (first_observed_at,   *)
(* paid_at, confirmed_at) are Booleans.  Amounts are natural numbers.      *)
(***************************************************************************)
EXTENDS Integers

Watching == "watching"
PartiallyPaid == "partially_paid"
PaidUnconfirmed == "paid_unconfirmed"
PaidReverted == "paid_unconfirmed_reverted"
PaidConfirmed == "paid_confirmed"
FailedExpired == "failed_expired"

PaymentReceiptStatus ==
  {Watching, PartiallyPaid, PaidUnconfirmed, PaidReverted, PaidConfirmed,
   FailedExpired}

\* Mutants: a status left out of the claim query.
PollableWithoutPartial == {Watching, PaidUnconfirmed, PaidReverted}
PollableWithoutUnconfirmed == {Watching, PartiallyPaid, PaidReverted}

\* The statuses a poller claims; the other two are terminal.
PollableStatus == {Watching, PartiallyPaid, PaidUnconfirmed, PaidReverted}

NoFailure == "none"
PollingFailed == "polling_failed"
WindowExpired == "payment_window_expired"
FailureReason == {NoFailure, PollingFailed, WindowExpired}

Tracking ==
  [status: PaymentReceiptStatus, observed: Nat, confirmed: Nat,
   unconfirmed: Nat, firstObserved: BOOLEAN, paid: BOOLEAN,
   confirmedAt: BOOLEAN, failure: FailureReason]

Observation == [observed: Int, confirmed: Int, unconfirmed: Int]

NewTracking ==
  [status |-> Watching, observed |-> 0, confirmed |-> 0, unconfirmed |-> 0,
   firstObserved |-> FALSE, paid |-> FALSE, confirmedAt |-> FALSE,
   failure |-> NoFailure]

\* Mutant: the signs of the totals are not checked.
ObservationSums(o) == o.confirmed + o.unconfirmed = o.observed

\* The totals an observer may report; anything else is refused.
ObservationValid(o) ==
  /\ o.observed >= 0 /\ o.confirmed >= 0 /\ o.unconfirmed >= 0
  /\ o.confirmed + o.unconfirmed = o.observed

\* Mutant: the status follows the totals alone.
DecideWithoutPaidAt(o, expected, paid) ==
  CASE o.confirmed >= expected -> PaidConfirmed
    [] o.confirmed < expected /\ o.observed >= expected -> PaidUnconfirmed
    [] o.observed = 0 -> Watching
    [] OTHER -> PartiallyPaid

\* paid is the tracking's paid_at AFTER the observation was applied: once it
\* is set, falling below the expected amount is a reversal, not "watching".
DecideStatus(o, expected, paid) ==
  CASE o.confirmed >= expected -> PaidConfirmed
    [] o.confirmed < expected /\ o.observed >= expected -> PaidUnconfirmed
    [] o.observed < expected /\ paid -> PaidReverted
    [] o.observed < expected /\ ~paid /\ o.observed = 0 -> Watching
    [] OTHER -> PartiallyPaid

ApplyObservation(t, o, expected) ==
  LET paid == t.paid \/ o.observed >= expected
  IN [status |-> DecideStatus(o, expected, paid),
      observed |-> o.observed, confirmed |-> o.confirmed,
      unconfirmed |-> o.unconfirmed,
      firstObserved |-> t.firstObserved \/ o.observed > 0,
      paid |-> paid,
      confirmedAt |-> t.confirmedAt \/ o.confirmed >= expected,
      failure |-> NoFailure]

MarkPollingFailure(t) == [t EXCEPT !.failure = PollingFailed]

CanExpireByPaymentWindow(t) == ~t.paid

\* windowPassed: expires_at is not after the instant the cycle took at its start.
ExpireIfDue(t, windowPassed) ==
  IF CanExpireByPaymentWindow(t) /\ windowPassed
  THEN [t EXCEPT !.status = FailedExpired, !.failure = WindowExpired]
  ELSE t

\* Mutant: expiry forgets its event.
EventUnlessExpired(previous, t) ==
  IF previous = t.status \/ t.status = FailedExpired
  THEN << >>
  ELSE << [previous |-> previous, current |-> t.status] >>

\* The outbox event of a change from status previous, as a sequence of at most one.
StatusChangedEvent(previous, t) ==
  IF previous = t.status
  THEN << >>
  ELSE << [previous |-> previous, current |-> t.status] >>
=============================================================================
