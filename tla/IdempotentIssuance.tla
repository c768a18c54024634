-------------------------- MODULE IdempotentIssuance --------------------------
(***************************************************************************)
(* What address allocation promises to those who ask for addresses: every  *)
(* request ends once; a payment that was issued can be asked for from then *)
(* on and never changes; an idempotency key stands for one payment, handed *)
(* out again to whoever repeats the request and refused to whoever asks    *)
(* for something else under it.  No slot, lock or transaction is visible.  *)
(***************************************************************************)
EXTENDS Naturals

CONSTANTS
  Request, Key, Payment,
  Ask,    \* Ask[r]: [key, policy, payload] request r asks for
  NoKey

VARIABLES
  payments,  \* what the status API can answer about
  keys,      \* keys[k]: the id of the payment k stands for, or 0
  told       \* told[r]: [outcome, id] the client of request r received

vars == <<payments, keys, told>>

Answered(why, id) == [outcome |-> why, id |-> id]
Unanswered == Answered("none", 0)

Init ==
  /\ payments = {}
  /\ keys = [k \in Key |-> 0]
  /\ told = [r \in Request |-> Unanswered]

Tell(r, ans) ==
  /\ told[r] = Unanswered
  /\ told' = [told EXCEPT ![r] = ans]

\* The payment a request asks for, as far as it may choose.
AsAsked(r, w) == w.policy = Ask[r].policy /\ w.payload = Ask[r].payload

\* The key of r names payment w.
Names(r, w) == Ask[r].key # NoKey /\ w.id = keys[Ask[r].key]

\* A payment of its own, at an address no other payment has.  Its client may be
\* told nothing but that something failed.
Issue(r) ==
  \E w \in Payment :
    /\ AsAsked(r, w)
    /\ \A v \in payments : v.id # w.id /\ v.address # w.address
    /\ Ask[r].key # NoKey => keys[Ask[r].key] = 0
    /\ payments' = payments \cup {w}
    /\ keys' = [k \in Key |-> IF k = Ask[r].key THEN w.id ELSE keys[k]]
    /\ Tell(r, Answered("issued", w.id)) \/ Tell(r, Answered("dependency", 0))

Replay(r) ==
  \E w \in payments :
    /\ Names(r, w) /\ AsAsked(r, w)
    /\ Tell(r, Answered("replayed", w.id))
    /\ UNCHANGED <<payments, keys>>

Refuse(r) ==
  /\ \/ \E why \in {"dependency", "derivation_failed", "exhausted", "not_enabled"} :
          Tell(r, Answered(why, 0))
     \/ /\ \E w \in payments : Names(r, w) /\ ~AsAsked(r, w)
        /\ Tell(r, Answered("conflict", 0))
  /\ UNCHANGED <<payments, keys>>

Next == \E r \in Request : Issue(r) \/ Replay(r) \/ Refuse(r)

Spec == Init /\ [][Next]_vars
=============================================================================
