------------------------------- MODULE Pipeline -------------------------------
(***************************************************************************)
(* From the blockchain to the merchant: a poller commits what becomes of a *)
(* payment and enqueues each change, dispatchers post the changes, and the *)
(* merchant hears them late, more than once, out of order or not at all.   *)
(*                                                                         *)
(* ReceiptPolling and WebhookDispatch share the transaction that saves a   *)
(* row with its event, and time.  One payment address; cycles end within   *)
(* their leases, what happens when they do not is the matter of the two.   *)
(* The merchant, external, keeps of all it was told what has the highest   *)
(* notificationId: with several posts under way nothing else orders them.  *)
(* Bounds: those of the two modules, and MaxEvents status changes.         *)
(***************************************************************************)
EXTENDS Integers, Sequences, FiniteSetsExt

CONSTANTS
  Receiver, Bitcoin,           \* the payment address and its network
  Poller, Dispatcher,
  Expected, PaymentWindow,     \* as in ReceiptPolling
  MaxAmount, MaxMoves, MaxFaults,
  BatchSize, MaxAttempts,      \* as in WebhookDispatch
  MaxDeaths,                   \* bound: dispatch cycles that die
  MaxEvents,                   \* bound: status changes of the payment
  Idle, ObserverError

ASSUME MaxEventsAssumption == MaxEvents \in Nat

VARIABLES
  row, due, lease, window, outbox,               \* the tracking row and its events
  batch, work, tip, age,                         \* poll cycles
  chain, paidInTime, moves, faults,              \* their environment
  delivery, attempts, nextAttempt, outboxLease,  \* the rows of the outbox
  claimed, sending, sendAge,                     \* dispatch cycles
  overruns, posts, accepted, deaths              \* and theirs

pollVars ==
  <<row, due, lease, window, outbox, batch, work, tip, age, chain, paidInTime, moves, faults>>
sendVars ==
  <<delivery, attempts, nextAttempt, outboxLease, claimed, sending, sendAge,
    overruns, posts, accepted, deaths>>
vars == <<pollVars, sendVars>>

Polling ==
  INSTANCE ReceiptPolling WITH
    Address <- {Receiver}, Network <- {Bitcoin},
    NetworkOf <- [a \in {Receiver} |-> Bitcoin],
    Scope <- [w \in Poller |-> {Bitcoin}], Reach <- [w \in Poller |-> {Bitcoin}],
    ExpectedAmount <- [a \in {Receiver} |-> Expected],
    BatchSize <- 1, ClaimTTL <- 1, RescheduleInterval <- 1, MayOverrunLease <- FALSE

Dispatch ==
  INSTANCE WebhookDispatch WITH
    Notification <- 1..MaxEvents, OldBuild <- {}, unknown <- {},
    DispatchTTL <- 1, RetryDelay <- 1, MaxOverruns <- 0, MaxFaults <- MaxDeaths,
    status <- delivery, due <- nextAttempt, lease <- outboxLease,
    batch <- claimed, age <- sendAge, faults <- deaths

\* What the two modules assume of their constants.
ASSUME PartsAssumption ==
  /\ Expected \in Nat \ {0} /\ PaymentWindow \in Nat \ {0}
  /\ MaxAmount \in Nat /\ MaxMoves \in Nat /\ MaxFaults \in Nat
  /\ BatchSize \in Nat \ {0} /\ MaxAttempts \in Nat \ {0} /\ MaxDeaths \in Nat
  /\ IsFiniteSet(Dispatcher)
  /\ ObserverError \notin Polling!Observation
  /\ Idle \notin Polling!Work \cup Dispatch!Posted

Init == Polling!Init /\ Dispatch!Init

-----------------------------------------------------------------------------
Last == Len(outbox[Receiver])

\* Mutant: the event has a transaction of its own, which may fail.
SaveThenEnqueue(w) ==
  /\ Polling!Save(w)
  /\ \/ /\ outbox'[Receiver] # outbox[Receiver]
        /\ Last' <= MaxEvents
        /\ Dispatch!EnqueueStatusChanged(Last')
     \/ UNCHANGED sendVars

\* saveTrackingAndMaybeEnqueueStatusChanged: one transaction, two tables.
Save(w) ==
  /\ Polling!Save(w)
  /\ IF outbox'[Receiver] # outbox[Receiver]
     THEN Last' <= MaxEvents /\ Dispatch!EnqueueStatusChanged(Last')
     ELSE UNCHANGED sendVars

Poll(w) ==
  /\ \/ Polling!ClaimDue(w)
     \/ \E c \in batch[w] :
          Polling!Observe(w, c) \/ Polling!TipFailedBefore(w, c)
  /\ UNCHANGED sendVars

PollDisturbed(w) ==
  /\ \/ \E c \in batch[w] : Polling!ObserveFails(w, c) \/ Polling!TipFails(w, c)
     \/ Polling!Abort(w)
  /\ UNCHANGED sendVars

\* In which order the rows of a batch are posted is not decided by the claim:
\* what UPDATE ... RETURNING returns has no order.
Send(w) ==
  /\ \/ Dispatch!ClaimPending(w)
     \/ \E c \in claimed[w] :
          \/ Dispatch!PostAccepted(w, c) \/ Dispatch!PostRefused(w, c)
          \/ Dispatch!AnswerLost(w, c)
     \/ Dispatch!SaveDeliveryResult(w)
  /\ UNCHANGED pollVars

SenderDies(w) == Dispatch!Abort(w) /\ UNCHANGED pollVars

ChainMoves == Polling!ChainMoves(Receiver) /\ UNCHANGED sendVars

Tick == Polling!Tick /\ Dispatch!Tick

Next ==
  \/ \E w \in Poller : Poll(w) \/ Save(w) \/ PollDisturbed(w)
  \/ \E w \in Dispatcher : Send(w) \/ SenderDies(w)
  \/ ChainMoves
  \/ Tick

Spec ==
  /\ Init /\ [][Next]_vars
  /\ \A w \in Poller : WF_vars(Poll(w) \/ Save(w))
  /\ \A w \in Dispatcher : WF_vars(Send(w))
  /\ WF_vars(Tick)

-----------------------------------------------------------------------------
(* Properties *)

Accepted == {n \in 1..Last : accepted[n]}

\* What the merchant holds the payment for, who asked nothing since the issue.
Heard ==
  IF Accepted = {} THEN Polling!Watching ELSE outbox[Receiver][Max(Accepted)].current

\* In the end the merchant holds the payment for what the status endpoint answers,
\* unless the last notification was given up: late retries and posts that overtake
\* each other do no harm to one who goes by notificationId.
MerchantLearnsTheOutcome ==
  <>[](\/ Heard = Polling!StatusAnswer(Receiver).status
       \/ delivery[Last] = "failed")
=============================================================================
