--------------------------- MODULE ReceiptLifecycle ---------------------------
(***************************************************************************)
(* What receipt tracking promises to those who read it: the status of a    *)
(* payment moves through its lifecycle one published change at a time, a   *)
(* payment seen in full is never called unpaid again, and a settled        *)
(* payment stays settled.  No poller, lease or snapshot is visible here.   *)
(***************************************************************************)
EXTENDS ReceiptTracking, Sequences

CONSTANT Address

VARIABLES
  status,  \* status[a]: what the status API answers
  paid,    \* paid[a]: the full amount has been seen (paid_at is set)
  events   \* events[a]: the changes published, oldest first

vars == <<status, paid, events>>

Settled(s) == s \in {PaidConfirmed, FailedExpired}

\* May a payment that was (or was not) paid in full take status s?
Allowed(s, wasPaid) ==
  /\ s \in {Watching, PartiallyPaid, FailedExpired} => ~wasPaid
  /\ s = PaidReverted => wasPaid

Init ==
  /\ status = [a \in Address |-> Watching]
  /\ paid = [a \in Address |-> FALSE]
  /\ events = [a \in Address |-> << >>]

Advance(a, s) ==
  /\ ~Settled(status[a])
  /\ s # status[a]
  /\ Allowed(s, paid[a])
  /\ status' = [status EXCEPT ![a] = s]
  /\ paid' = [paid EXCEPT ![a] = @ \/ s \in {PaidUnconfirmed, PaidConfirmed}]
  /\ events' = [events EXCEPT
       ![a] = Append(@, [previous |-> status[a], current |-> s])]

Next == \E a \in Address, s \in PaymentReceiptStatus : Advance(a, s)

Spec == Init /\ [][Next]_vars
=============================================================================
