---------------------------- MODULE ReceiptPolling ----------------------------
(***************************************************************************)
(* Receipt polling: any number of pollers (long-running processes or cron  *)
(* invocations) share the table payment_receipt_trackings.  A cycle claims *)
(* a batch of due rows in one transaction, then, one row at a time,        *)
(* observes the chain with no transaction open and saves the outcome in a  *)
(* second transaction that also enqueues the status-change event.          *)
(*                                                                         *)
(* Time is kept as what REMAINS: due, lease and window count down to the   *)
(* instants next_poll_at, lease_until and expires_at, and stop at 0 once   *)
(* the instant has passed (lease 0 also stands for a NULL lease_until).    *)
(* age[w] counts up from the instant "now" a cycle takes at its start.     *)
(*                                                                         *)
(* Bounds: MaxAmount, MaxMoves and MaxFaults bound the environment.        *)
(***************************************************************************)
EXTENDS ReceiptTracking, Sequences, FiniteSets

CONSTANTS
  Address,             \* issued payment addresses, one tracking row each
  Poller,              \* concurrent poll cycles
  Network,             \* a blockchain with one of its networks
  NetworkOf,           \* NetworkOf[a]: where address a lies
  Scope,               \* Scope[w]: networks whose rows w claims (POLL_CHAIN, POLL_NETWORK)
  Reach,               \* Reach[w]: networks w has an endpoint for
  ExpectedAmount,      \* amount due on each address
  BatchSize,           \* rows claimed by a cycle
  ClaimTTL,            \* lease taken by a claim
  RescheduleInterval,  \* next poll after a save
  PaymentWindow,       \* from issue to expires_at
  MayOverrunLease,     \* TRUE: a cycle may outlive the lease it took
  MaxAmount,           \* bound: largest total an address ever holds
  MaxMoves,            \* bound: changes of the chain
  MaxFaults,           \* bound: failed observations and aborted cycles
  Idle,                \* work[w] of a cycle that is processing no row
  ObserverError        \* what is seen when an observation fails

\* What can be configured: durations and sizes that are set must be positive, and
\* those not set have a default, but for the reschedule interval, which is 0 then.
\* Nobody checks that a poller can reach what it claims.
PollerConfig ==
  /\ BatchSize \in Nat \ {0}
  /\ ClaimTTL \in Nat \ {0}
  /\ RescheduleInterval \in Nat
  /\ Scope \in [Poller -> SUBSET Network]
  /\ Reach \in [Poller -> (SUBSET Network) \ {{}}]

\* What the API issues addresses under: the time to pay is set or has a default.
ReceiptTerms == PaymentWindow \in Nat \ {0}

ASSUME ConstantsAssumption ==
  /\ PollerConfig /\ ReceiptTerms
  /\ ExpectedAmount \in [Address -> Nat \ {0}]
  /\ NetworkOf \in [Address -> Network]
  /\ MayOverrunLease \in BOOLEAN
  /\ MaxAmount \in Nat /\ MaxMoves \in Nat /\ MaxFaults \in Nat
  /\ ObserverError \notin Observation

VARIABLES
  row,     \* row[a]: the committed tracking of address a
  due,     \* due[a]: time to next_poll_at
  lease,   \* lease[a]: time to lease_until
  window,  \* window[a]: time to expires_at
  outbox,  \* outbox[a]: status-change events enqueued for a, oldest first
  batch,   \* batch[w]: the claimed snapshots cycle w has still to process
  work,    \* work[w]: the snapshot being processed and what was observed
  tip,     \* tip[w][n]: the cycle's cached latest block height of network n
  age,     \* age[w]: time since cycle w took its "now"
  chain,   \* chain[a]: [confirmed, unconfirmed] held by a on the blockchain
  paidInTime, \* history: a has held its amount since before expires_at
  moves, faults  \* environment steps used up

rowVars == <<row, due, lease, window, outbox>>
cycleVars == <<batch, work, tip, age>>
envVars == <<chain, paidInTime, moves, faults>>
vars == <<rowVars, cycleVars, envVars>>

Claim == [address: Address, tracking: Tracking, windowPassed: BOOLEAN]
Work == [claim: Claim, seen: Observation \cup {ObserverError}]
ASSUME IdleAssumption == Idle \notin Work

MaxAge == IF ClaimTTL > RescheduleInterval THEN ClaimTTL ELSE RescheduleInterval

Holding == [confirmed: 0..MaxAmount, unconfirmed: 0..MaxAmount]

\* A claim is in progress in cycle w: still queued, or being processed.
Claimed(w) == batch[w] \cup (IF work[w] = Idle THEN {} ELSE {work[w].claim})
Busy(w) == Claimed(w) # {}

\* Without an endpoint a height is not to be had, whoever asks.
NoTipYet(w) == [n \in Network |-> IF n \in Reach[w] THEN "unknown" ELSE "failed"]
TipOf(w, c) == tip[w][NetworkOf[c.address]]

Init ==
  /\ row = [a \in Address |-> NewTracking]
  /\ due = [a \in Address |-> 0]
  /\ lease = [a \in Address |-> 0]
  /\ window = [a \in Address |-> PaymentWindow]
  /\ outbox = [a \in Address |-> << >>]
  /\ batch = [w \in Poller |-> {}]
  /\ work = [w \in Poller |-> Idle]
  /\ tip = [w \in Poller |-> NoTipYet(w)]
  /\ age = [w \in Poller |-> 0]
  /\ chain = [a \in Address |-> [confirmed |-> 0, unconfirmed |-> 0]]
  /\ paidInTime = [a \in Address |-> FALSE]
  /\ moves = 0 /\ faults = 0

-----------------------------------------------------------------------------
(* The claim transaction. *)

\* Mutants: the claim does not look at leases; or at the scope of the poller.
ClaimableDespiteLease(w) ==
  {a \in Address : due[a] = 0 /\ row[a].status \in PollableStatus /\ NetworkOf[a] \in Scope[w]}
ClaimableDespiteScope(w) ==
  {a \in Address : due[a] = 0 /\ lease[a] = 0 /\ row[a].status \in PollableStatus}

ClaimableRows(w) ==
  {a \in Address : /\ due[a] = 0 /\ lease[a] = 0
                   /\ row[a].status \in PollableStatus
                   /\ NetworkOf[a] \in Scope[w]}

\* Among due rows next_poll_at orders the batch; how late a due row is, is not
\* kept, so any BatchSize of them may be the oldest.
ClaimDue(w) ==
  /\ ~Busy(w)
  /\ \E S \in SUBSET ClaimableRows(w) :
       /\ S # {}
       /\ \/ Cardinality(S) = BatchSize
          \/ S = ClaimableRows(w) /\ Cardinality(S) < BatchSize
       /\ lease' = [a \in Address |-> IF a \in S THEN ClaimTTL ELSE lease[a]]
       /\ batch' = [batch EXCEPT ![w] =
            {[address |-> a, tracking |-> row[a], windowPassed |-> window[a] = 0]
              : a \in S}]
  /\ UNCHANGED <<row, due, window, outbox, work, envVars>>
  /\ tip' = [tip EXCEPT ![w] = NoTipYet(w)]
  /\ age' = [age EXCEPT ![w] = 0]

-----------------------------------------------------------------------------
(* processTracking, up to the save: no transaction is open. *)

StartWork(w, c, seen) ==
  /\ work[w] = Idle
  /\ c \in batch[w]
  /\ batch' = [batch EXCEPT ![w] = @ \ {c}]
  /\ work' = [work EXCEPT ![w] = [claim |-> c, seen |-> seen]]

OnChain(a) ==
  [observed |-> chain[a].confirmed + chain[a].unconfirmed,
   confirmed |-> chain[a].confirmed, unconfirmed |-> chain[a].unconfirmed]

CacheTip(w, c, what) == tip' = [tip EXCEPT ![w][NetworkOf[c.address]] = what]

\* The observer answers with totals o.
ObserveAs(w, c, o) ==
  /\ TipOf(w, c) # "failed"
  /\ StartWork(w, c, o)
  /\ CacheTip(w, c, "known")
  /\ UNCHANGED <<rowVars, age, envVars>>

\* Tip (fetched or cached) and address are both read, in one step: what an
\* observer reports that reads the chain in several requests is the question of
\* BitcoinReceipt and EthereumReceipt.
Observe(w, c) == ObserveAs(w, c, OnChain(c.address))

\* Totals that no address can hold, though they add up.
Contradiction == [observed |-> 0, confirmed |-> 1, unconfirmed |-> -1]

\* The address could not be observed, or what was observed makes no sense.
ObserveFails(w, c) ==
  /\ faults < MaxFaults
  /\ TipOf(w, c) # "failed"
  /\ StartWork(w, c, ObserverError) \/ StartWork(w, c, Contradiction)
  /\ CacheTip(w, c, "known")
  /\ faults' = faults + 1
  /\ UNCHANGED <<rowVars, age, chain, paidInTime, moves>>

\* The block height could not be fetched; the error is cached for the cycle.
TipFails(w, c) ==
  /\ TipOf(w, c) = "unknown"
  /\ faults < MaxFaults
  /\ StartWork(w, c, ObserverError)
  /\ CacheTip(w, c, "failed")
  /\ faults' = faults + 1
  /\ UNCHANGED <<rowVars, age, chain, paidInTime, moves>>

\* The height failed before in this cycle, or there is no endpoint to ask.
TipFailedBefore(w, c) ==
  /\ TipOf(w, c) = "failed"
  /\ StartWork(w, c, ObserverError)
  /\ UNCHANGED <<rowVars, tip, age, envVars>>

-----------------------------------------------------------------------------
(* The save transaction: the whole row is overwritten from the snapshot,   *)
(* the lease is cleared and the event is enqueued, WHERE payment_address_id*)
(* = $1 alone.                                                             *)

\* Mutant: a row whose observation failed expires unseen.
OutcomeUnseen(c, seen) ==
  ExpireIfDue(IF seen = ObserverError THEN MarkPollingFailure(c.tracking)
              ELSE ApplyObservation(c.tracking, seen, ExpectedAmount[c.address]),
              c.windowPassed)

\* The tracking processTracking hands to the store.
Outcome(c, seen) ==
  IF seen = ObserverError THEN MarkPollingFailure(c.tracking)
  ELSE IF ~ObservationValid(seen) THEN MarkPollingFailure(c.tracking)
  ELSE ExpireIfDue(ApplyObservation(c.tracking, seen, ExpectedAmount[c.address]),
                   c.windowPassed)

SaveRow(w) ==
  /\ work[w] # Idle
  /\ LET c == work[w].claim
         a == c.address
     IN /\ row' = [row EXCEPT ![a] = Outcome(c, work[w].seen)]
        /\ due' = [due EXCEPT ![a] =
             IF age[w] < RescheduleInterval THEN RescheduleInterval - age[w] ELSE 0]
        /\ lease' = [lease EXCEPT ![a] = 0]
  /\ work' = [work EXCEPT ![w] = Idle]
  /\ age' = [age EXCEPT ![w] = IF batch[w] = {} THEN 0 ELSE @]
  /\ tip' = [tip EXCEPT ![w] = IF batch[w] = {} THEN NoTipYet(w) ELSE @]
  /\ UNCHANGED <<window, batch, envVars>>

Save(w) ==
  /\ SaveRow(w)
  /\ LET c == work[w].claim IN
     outbox' = [outbox EXCEPT ![c.address] =
       @ \o StatusChangedEvent(c.tracking.status, Outcome(c, work[w].seen))]

\* The process dies, or a store call fails and is rolled back: either way the
\* rest of the batch is dropped and its leases stay until they run out.
Abort(w) ==
  /\ Busy(w)
  /\ faults < MaxFaults
  /\ batch' = [batch EXCEPT ![w] = {}]
  /\ work' = [work EXCEPT ![w] = Idle]
  /\ tip' = [tip EXCEPT ![w] = NoTipYet(w)]
  /\ age' = [age EXCEPT ![w] = 0]
  /\ faults' = faults + 1
  /\ UNCHANGED <<rowVars, chain, paidInTime, moves>>

-----------------------------------------------------------------------------
(* The environment: the blockchain and time. *)

\* A payment, a confirmation, a replacement, a reorganisation or a sweep.
ChainMoves(a) ==
  /\ moves < MaxMoves
  /\ moves' = moves + 1
  /\ \E h \in Holding :
       /\ h # chain[a]
       /\ h.confirmed + h.unconfirmed <= MaxAmount
       /\ chain' = [chain EXCEPT ![a] = h]
       /\ paidInTime' = [paidInTime EXCEPT ![a] =
            /\ h.confirmed + h.unconfirmed >= ExpectedAmount[a]
            /\ @ \/ window[a] > 0]
  /\ UNCHANGED <<rowVars, cycleVars, faults>>

CountDown(n) == IF n > 0 THEN n - 1 ELSE 0

Tick ==
  /\ MayOverrunLease \/ \A w \in Poller : Busy(w) => age[w] + 1 < ClaimTTL
  /\ due' = [a \in Address |-> CountDown(due[a])]
  /\ lease' = [a \in Address |-> CountDown(lease[a])]
  /\ window' = [a \in Address |-> CountDown(window[a])]
  /\ age' = [w \in Poller |->
       IF Busy(w) /\ age[w] < MaxAge THEN age[w] + 1 ELSE age[w]]
  /\ UNCHANGED <<row, outbox, batch, work, tip, envVars>>

-----------------------------------------------------------------------------
\* What the status endpoint answers for an address, as far as its lifecycle
\* goes: the committed row, whoever is working on it.
StatusAnswer(a) == [status |-> row[a].status, paid |-> row[a].paid]

PollerStep(w) ==
  \/ ClaimDue(w)
  \/ \E c \in batch[w] :
       Observe(w, c) \/ ObserveFails(w, c) \/ TipFails(w, c) \/ TipFailedBefore(w, c)
  \/ Save(w)
  \/ Abort(w)

Next ==
  \/ \E w \in Poller : PollerStep(w)
  \/ \E a \in Address : ChainMoves(a)
  \/ Tick

Spec == Init /\ [][Next]_vars

\* What a running poller does without faults: it takes every tick of its
\* interval, works through its batch, and time passes.
CycleProgress(w) ==
  \/ ClaimDue(w)
  \/ \E c \in batch[w] : Observe(w, c) \/ TipFailedBefore(w, c)
  \/ Save(w)

FairSpec ==
  /\ Spec
  /\ \A w \in Poller : WF_vars(CycleProgress(w))
  /\ WF_vars(Tick)

-----------------------------------------------------------------------------
(* Properties *)

\* Every variable keeps its type: in particular lease and due never exceed the
\* lease and the interval they count down from.
TypeOK ==
  /\ row \in [Address -> Tracking]
  /\ due \in [Address -> 0..RescheduleInterval]
  /\ lease \in [Address -> 0..ClaimTTL]
  /\ window \in [Address -> 0..PaymentWindow]
  /\ outbox \in [Address -> Seq([previous: PaymentReceiptStatus,
                                 current: PaymentReceiptStatus])]
  /\ batch \in [Poller -> SUBSET Claim]
  /\ work \in [Poller -> Work \cup {Idle}]
  /\ tip \in [Poller -> [Network -> {"unknown", "known", "failed"}]]
  /\ age \in [Poller -> 0..MaxAge]
  /\ chain \in [Address -> Holding]
  /\ paidInTime \in [Address -> BOOLEAN]
  /\ moves \in 0..MaxMoves
  /\ faults \in 0..MaxFaults

\* The row a poller overwrites is still the row it claimed, and nobody else has
\* claimed it, so Save (which has no WHERE on status or lease) loses no update.
\* Only true of cycles that end within their lease.
SnapshotsAreCurrent ==
  \A w \in Poller : \A c \in Claimed(w) :
    /\ c.tracking = row[c.address] /\ lease[c.address] = ClaimTTL - age[w]
    /\ \A v \in Poller \ {w} : \A d \in Claimed(v) : d.address # c.address

\* Even when leases overrun, every event is a move of the lifecycle: it leaves
\* a status a poller may claim, and never un-pays a payment.
EventsAreMoves ==
  \A a \in Address : \A i \in DOMAIN outbox[a] :
    LET e == outbox[a][i] IN
    /\ e.previous \in PollableStatus /\ e.current # e.previous
    /\ e.previous \in {PaidUnconfirmed, PaidReverted} =>
         e.current \in {PaidUnconfirmed, PaidReverted, PaidConfirmed}

\* Expiry waits for the final look at the chain: an address that has held its
\* amount since before expires_at is never marked failed_expired, however late
\* its poller is - as long as an observation is the chain at one instant.
TimelyPaymentNeverExpires ==
  [][\A a \in Address :
       row'[a].status = FailedExpired /\ row[a].status # FailedExpired
         => ~paidInTime[a]]_vars

\* paid_at is sticky and a paid row never takes an unpaid status again.
PaidIsSticky ==
  [][\A a \in Address : row[a].paid =>
       /\ row'[a].paid
       /\ row'[a].status \notin {Watching, PartiallyPaid, FailedExpired}]_vars

\* What is answered and published implements the lifecycle: no committed change
\* lacks its event and no event reports a change that did not happen.
Lifecycle ==
  INSTANCE ReceiptLifecycle WITH
    status <- [a \in Address |-> StatusAnswer(a).status],
    paid <- [a \in Address |-> StatusAnswer(a).paid],
    events <- outbox
LifecycleSpec == Lifecycle!Spec

\* Every poller that may claim a has an endpoint for it.  One that has none only
\* postpones the row, and nothing keeps it from doing so whenever the row is due.
Observable(a) == \A w \in Poller : NetworkOf[a] \in Scope[w] => NetworkOf[a] \in Reach[w]

\* Once the payment window has passed, a row does not stay unpaid and open:
\* it expires or turns out to be paid.  Failed observations, crashes and
\* abandoned leases only delay that.
WindowEndsWatching ==
  \A a \in Address : Observable(a) =>
    (window[a] = 0 ~> row[a].paid \/ row[a].status = FailedExpired)

\* A payment that stays confirmed on the chain and came in time is recognised.
ConfirmedPaymentIsRecognised ==
  \A a \in Address : Observable(a) =>
    (<>[](paidInTime[a] /\ chain[a].confirmed >= ExpectedAmount[a])
      => <>(row[a].status = PaidConfirmed))
=============================================================================
