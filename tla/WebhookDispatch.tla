---------------------------- MODULE WebhookDispatch ----------------------------
(***************************************************************************)
(* Webhook delivery: dispatchers share the outbox table                    *)
(* payment_receipt_status_notifications.  A cycle claims a batch of pending*)
(* rows in one transaction, posts them one at a time with no transaction   *)
(* open, and saves each result in a transaction of its own.                *)
(*                                                                         *)
(* As in ReceiptPolling time is what remains: due and lease count down to  *)
(* next_attempt_at and lease_until, age[w] up from the cycle's claimNow.   *)
(*                                                                         *)
(* Bounds: MaxFaults for the cycles that die, MaxOverruns for those that   *)
(* outlive the lease they took; MaxAttempts, the code's own limit, bounds  *)
(* everything else.                                                        *)
(***************************************************************************)
EXTENDS Integers, FiniteSets

CONSTANTS
  Notification,     \* rows the outbox may come to hold
  Dispatcher,       \* concurrent dispatch cycles
  OldBuild,         \* pairs <<w, n>>: w starts as a build without n's address policy
  BatchSize, DispatchTTL, RetryDelay, MaxAttempts,
  MaxOverruns,      \* bound: cycles that outlive the lease they took
  MaxFaults,        \* bound: cycles that die with rows still claimed
  Idle              \* sending[w] of a cycle that is posting nothing

\* A setting that is there must be a number, and a positive one.
Positive(n) == n \in Nat \ {0}

\* What can be configured: the process does not start without all four settings; in
\* the worker those that are not set have a default.
DispatcherConfig ==
  Positive(BatchSize) /\ Positive(DispatchTTL) /\ Positive(RetryDelay) /\ Positive(MaxAttempts)

\* However many dispatchers there are in the end, they are finitely many processes.
ASSUME ConstantsAssumption ==
  /\ DispatcherConfig
  /\ IsFiniteSet(Dispatcher)
  /\ OldBuild \subseteq Dispatcher \X Notification
  /\ MaxOverruns \in Nat /\ MaxFaults \in Nat

VARIABLES
  status,    \* status[n]: delivery_status, or "absent" before n is enqueued
  attempts,  \* attempts[n]: delivery_attempts
  due,       \* due[n]: time to next_attempt_at
  lease,     \* lease[n]: time to lease_until
  batch,     \* batch[w]: claimed rows cycle w has still to post
  sending,   \* sending[w]: the row just posted and how the post ended
  age,       \* age[w]: time since cycle w claimed
  unknown,   \* pairs <<w, n>>: the build w runs does not know n's policy
  overruns,  \* history: cycles that have outlived the lease they took
  posts,     \* history: posts made for n
  accepted,  \* history: the receiver has taken a post of n
  faults

rowVars == <<status, attempts, due, lease>>
cycleVars == <<batch, sending, age>>
history == <<overruns, posts, accepted>>
vars == <<rowVars, cycleVars, unknown, history, faults>>

DeliveryStatus == {"absent", "pending", "sent", "failed"}
Claim == [id: Notification, attempts: Nat]
Posted == [claim: Claim, ok: BOOLEAN]
ASSUME IdleAssumption == Idle \notin Posted

Claimed(w) == batch[w] \cup (IF sending[w] = Idle THEN {} ELSE {sending[w].claim})
Busy(w) == Claimed(w) # {}

Init ==
  /\ status = [n \in Notification |-> "absent"]
  /\ attempts = [n \in Notification |-> 0]
  /\ due = [n \in Notification |-> 0]
  /\ lease = [n \in Notification |-> 0]
  /\ batch = [w \in Dispatcher |-> {}]
  /\ sending = [w \in Dispatcher |-> Idle]
  /\ age = [w \in Dispatcher |-> 0]
  /\ unknown = OldBuild
  /\ overruns = 0
  /\ posts = [n \in Notification |-> 0]
  /\ accepted = [n \in Notification |-> FALSE]
  /\ faults = 0

\* A poller commits a status change: the row is pending and due at once.
EnqueueStatusChanged(n) ==
  /\ status[n] = "absent"
  /\ status' = [status EXCEPT ![n] = "pending"]
  /\ UNCHANGED <<attempts, due, lease, cycleVars, unknown, history, faults>>

\* Mutants: the claim does not look at leases, or at the status.
ClaimableDespiteLease == {n \in Notification : status[n] = "pending" /\ due[n] = 0}
ClaimableDespiteStatus ==
  {n \in Notification : status[n] # "absent" /\ due[n] = 0 /\ lease[n] = 0}
\* Mutant: only rows that have not been tried yet are claimed.
ClaimableUntried ==
  {n \in Notification :
     status[n] = "pending" /\ due[n] = 0 /\ lease[n] = 0 /\ attempts[n] = 0}

ClaimableRows == {n \in Notification : status[n] = "pending" /\ due[n] = 0 /\ lease[n] = 0}

\* How late a due row is, is not kept: any BatchSize of them may be the oldest.
ClaimPending(w) ==
  /\ ~Busy(w)
  /\ \E S \in SUBSET ClaimableRows :
       /\ S # {}
       /\ \/ Cardinality(S) = BatchSize
          \/ S = ClaimableRows /\ Cardinality(S) < BatchSize
       /\ lease' = [n \in Notification |-> IF n \in S THEN DispatchTTL ELSE lease[n]]
       /\ batch' = [batch EXCEPT ![w] = {[id |-> n, attempts |-> attempts[n]] : n \in S}]
  /\ age' = [age EXCEPT ![w] = 0]
  /\ UNCHANGED <<status, attempts, due, sending, unknown, history, faults>>

-----------------------------------------------------------------------------
(* processNotification, up to the save. *)

\* received: the receiver took the post; ok: the dispatcher saw a 2xx in time.
Post(w, c, received, ok) ==
  /\ sending[w] = Idle
  /\ c \in batch[w]
  /\ <<w, c.id>> \notin unknown
  /\ batch' = [batch EXCEPT ![w] = @ \ {c}]
  /\ sending' = [sending EXCEPT ![w] = [claim |-> c, ok |-> ok]]
  /\ posts' = [posts EXCEPT ![c.id] = @ + 1]
  /\ accepted' = [accepted EXCEPT ![c.id] = @ \/ received]
  /\ UNCHANGED <<rowVars, age, unknown, overruns, faults>>

PostAccepted(w, c) == Post(w, c, TRUE, TRUE)
PostRefused(w, c) == Post(w, c, FALSE, FALSE)
\* The answer comes after the client's timeout, or never.
AnswerLost(w, c) == Post(w, c, TRUE, FALSE)

EndCycle(w) ==
  /\ batch' = [batch EXCEPT ![w] = {}]
  /\ sending' = [sending EXCEPT ![w] = Idle]
  /\ age' = [age EXCEPT ![w] = 0]

\* The row's policy is not configured (the catalogue is part of the build, and
\* dispatchers may run an older one): the error ends the cycle, and what is left
\* of the batch keeps its lease.
PolicyMissing(w, c) ==
  /\ sending[w] = Idle
  /\ c \in batch[w]
  /\ <<w, c.id>> \in unknown
  /\ EndCycle(w)
  /\ UNCHANGED <<rowVars, unknown, history, faults>>

\* The roll-out reaches dispatcher w: its process is replaced by the new build.
Upgrade(w) ==
  /\ \E n \in Notification : <<w, n>> \in unknown
  /\ unknown' = {p \in unknown : p[1] # w}
  /\ EndCycle(w)
  /\ UNCHANGED <<rowVars, history, faults>>

-----------------------------------------------------------------------------
(* SaveDeliveryResult: UPDATE ... WHERE id = $1 alone. *)

SaveSent(w) ==
  LET n == sending[w].claim.id IN
  /\ sending[w].ok
  /\ status' = [status EXCEPT ![n] = "sent"]
  /\ UNCHANGED <<attempts, due>>

\* A failed post is tried again later or given up.
CountFailure(w, tried, giveUp) ==
  LET n == sending[w].claim.id IN
  /\ ~sending[w].ok
  /\ attempts' = [attempts EXCEPT ![n] = tried]
  /\ \/ /\ giveUp
        /\ status' = [status EXCEPT ![n] = "failed"]
        /\ UNCHANGED due
     \/ /\ ~giveUp
        /\ status' = [status EXCEPT ![n] = "pending"]
        /\ due' = [due EXCEPT ![n] = RetryDelay]

\* Mutants: one attempt too many, one too few.
SaveFailureLate(w) ==
  LET tried == sending[w].claim.attempts + 1 IN CountFailure(w, tried, tried > MaxAttempts)
SaveFailureEarly(w) ==
  LET tried == sending[w].claim.attempts + 1 IN CountFailure(w, tried, tried >= MaxAttempts - 1)

\* Attempts and retry come from the attempts read at the claim.
SaveFailure(w) ==
  LET tried == sending[w].claim.attempts + 1 IN CountFailure(w, tried, tried >= MaxAttempts)

SaveDeliveryResult(w) ==
  /\ sending[w] # Idle
  /\ SaveSent(w) \/ SaveFailure(w)
  /\ lease' = [lease EXCEPT ![sending[w].claim.id] = 0]
  /\ sending' = [sending EXCEPT ![w] = Idle]
  /\ age' = [age EXCEPT ![w] = IF batch[w] = {} THEN 0 ELSE @]
  /\ UNCHANGED <<batch, unknown, history, faults>>

\* The process dies, or a save fails and is rolled back.
Abort(w) ==
  /\ Busy(w)
  /\ faults < MaxFaults
  /\ faults' = faults + 1
  /\ EndCycle(w)
  /\ UNCHANGED <<rowVars, unknown, history>>

CountDown(k) == IF k > 0 THEN k - 1 ELSE 0

Tick ==
  /\ due' = [n \in Notification |-> CountDown(due[n])]
  /\ lease' = [n \in Notification |-> CountDown(lease[n])]
  /\ age' = [w \in Dispatcher |->
       IF Busy(w) /\ age[w] < DispatchTTL THEN age[w] + 1 ELSE age[w]]
  /\ overruns' = overruns + Cardinality({w \in Dispatcher : Busy(w) /\ age[w] + 1 = DispatchTTL})
  /\ overruns' <= MaxOverruns
  /\ UNCHANGED <<status, attempts, batch, sending, unknown, posts, accepted, faults>>

-----------------------------------------------------------------------------
Next ==
  \/ \E n \in Notification : EnqueueStatusChanged(n)
  \/ \E w \in Dispatcher :
       \/ ClaimPending(w)
       \/ \E c \in batch[w] :
            PostAccepted(w, c) \/ PostRefused(w, c) \/ AnswerLost(w, c) \/ PolicyMissing(w, c)
       \/ SaveDeliveryResult(w)
       \/ Abort(w) \/ Upgrade(w)
  \/ Tick

Spec == Init /\ [][Next]_vars

\* A dispatcher takes every tick of its interval and works through its batch;
\* the client's timeout ends every post one way or the other.
CycleProgress(w) ==
  \/ ClaimPending(w)
  \/ \E c \in batch[w] :
       PostAccepted(w, c) \/ PostRefused(w, c) \/ AnswerLost(w, c) \/ PolicyMissing(w, c)
  \/ SaveDeliveryResult(w)

FairSpec ==
  /\ Spec
  /\ \A w \in Dispatcher : WF_vars(CycleProgress(w)) /\ WF_vars(Upgrade(w))
  /\ WF_vars(Tick)

-----------------------------------------------------------------------------
(* Properties *)

\* Every variable keeps its type; attempts never pass the configured maximum,
\* even when a stale result is saved.
TypeOK ==
  /\ status \in [Notification -> DeliveryStatus]
  /\ attempts \in [Notification -> 0..MaxAttempts]
  /\ due \in [Notification -> 0..RetryDelay]
  /\ lease \in [Notification -> 0..DispatchTTL]
  /\ batch \in [Dispatcher -> SUBSET Claim]
  /\ sending \in [Dispatcher -> Posted \cup {Idle}]
  /\ age \in [Dispatcher -> 0..DispatchTTL]
  /\ unknown \subseteq OldBuild
  /\ overruns \in 0..MaxOverruns
  /\ posts \in [Notification -> Nat]
  /\ accepted \in [Notification -> BOOLEAN]
  /\ faults \in 0..MaxFaults

\* A lease keeps a row to one dispatcher, as long as no cycle has outlived the
\* lease it took.
OneDispatcherPerRow ==
  overruns = 0 => \A v, w \in Dispatcher : v # w =>
    \A c \in Claimed(v), d \in Claimed(w) : c.id # d.id

\* A row is reported sent only if the receiver really took it, and given up
\* only after MaxAttempts posts, whichever dispatcher made them.
ResultsAreEarned ==
  \A n \in Notification :
    /\ status[n] = "sent" => accepted[n]
    /\ status[n] = "failed" => attempts[n] = MaxAttempts /\ posts[n] >= MaxAttempts
    /\ attempts[n] <= posts[n]

Replaced == {w \in Dispatcher : \E n \in Notification : <<w, n>> \in OldBuild \ unknown}
InFlight(n) == {w \in Dispatcher : sending[w] # Idle /\ sending[w].claim.id = n}

\* No post goes uncounted except the one that succeeded and those of a cycle that
\* died or was replaced before the save: while cycles end in their lease, that
\* bounds how often a receiver sees a notification.
PostsAreBounded ==
  overruns = 0 => \A n \in Notification :
    posts[n] <= attempts[n] + faults + Cardinality(Replaced) + Cardinality(InFlight(n))
                + (IF status[n] = "sent" THEN 1 ELSE 0)

\* A delivered or given-up row is final: it is never claimed or posted again, as
\* long as no cycle has outlived its lease.
ResultsAreFinal ==
  [][overruns' = 0 => \A n \in Notification : status[n] \in {"sent", "failed"} =>
       status'[n] = status[n] /\ posts'[n] = posts[n]]_vars

\* Every notification is delivered or given up in the end, through refused
\* posts, lost answers, dead cycles, cycles that overrun, the leases they leave
\* behind, and builds without the row's policy, once a roll-out has replaced them.
\* Each becomes pending at most once, so in the end none is, for good.
EveryNotificationSettles ==
  <>[](\A n \in Notification : status[n] # "pending")
=============================================================================
