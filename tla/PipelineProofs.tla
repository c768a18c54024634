---------------------------- MODULE PipelineProofs ----------------------------
(***************************************************************************)
(* Pollers and dispatchers that share a database are still the pollers of  *)
(* ReceiptPolling and the dispatchers of WebhookDispatch; what ties them   *)
(* together: a change has a notification as soon as it is committed, and   *)
(* none is posted that has not been; and what this is worth to a merchant: *)
(* final news is true, an expiry is no mistake, and silence has a reason.  *)
(***************************************************************************)
EXTENDS Pipeline, SequenceTheorems, WellFoundedInduction, TLAPS

-----------------------------------------------------------------------------
(* The pollers. *)

LEMMA StepOfPollers == [Next]_vars => [Polling!Next]_(Polling!vars)
<1> SUFFICES ASSUME [Next]_vars PROVE [Polling!Next]_(Polling!vars)
  OBVIOUS
<1>1. CASE \E w \in Poller : Poll(w) \/ Save(w) \/ PollDisturbed(w)
  BY <1>1 DEF Poll, Save, PollDisturbed, Polling!Next, Polling!PollerStep
<1>2. CASE (\E w \in Dispatcher : Send(w) \/ SenderDies(w)) \/ UNCHANGED vars
  <2>1. UNCHANGED pollVars
    BY <1>2 DEF Send, SenderDies, vars
  <2> QED
    BY <2>1 DEF pollVars, Polling!vars, Polling!rowVars, Polling!cycleVars, Polling!envVars
<1>3. CASE ChainMoves
  BY <1>3 DEF ChainMoves, Polling!Next
<1>4. CASE Tick
  BY <1>4 DEF Tick, Polling!Next
<1> QED BY <1>1, <1>2, <1>3, <1>4 DEF Next

\* The pollers of the pipeline are those of ReceiptPolling: what is shown of these,
\* for an address and cycles that end within their leases, holds of the pipeline.
THEOREM PollersArePollers == Spec => Polling!Spec
<1>1. Init => Polling!Init
  BY DEF Init
<1> QED BY <1>1, StepOfPollers, PTL DEF Spec, Polling!Spec

-----------------------------------------------------------------------------
(* The outbox. *)

\* Every claim of a poller is of the one address.
ClaimsInv ==
  /\ DOMAIN batch = Poller /\ DOMAIN work = Poller
  /\ \A w \in Poller : \A c \in batch[w] : c.address = Receiver
  /\ \A w \in Poller : work[w] # Idle => work[w].claim.address = Receiver

LEMMA ClaimsInit == Init => ClaimsInv
BY DEF Init, Polling!Init, ClaimsInv

LEMMA ObserveKeepsClaims ==
  ASSUME ClaimsInv, NEW w \in Poller, NEW c \in batch[w], NEW seen, Polling!StartWork(w, c, seen)
  PROVE  ClaimsInv'
<1>1. /\ batch' = [batch EXCEPT ![w] = @ \ {c}]
      /\ work' = [work EXCEPT ![w] = [claim |-> c, seen |-> seen]]
  BY DEF Polling!StartWork
<1>2. DOMAIN batch' = Poller /\ DOMAIN work' = Poller
  BY <1>1 DEF ClaimsInv
<1>3. ASSUME NEW v \in Poller
      PROVE  /\ \A d \in batch'[v] : d.address = Receiver
             /\ work'[v] # Idle => work'[v].claim.address = Receiver
  <2>1. CASE v = w
    BY <1>1, <2>1 DEF ClaimsInv
  <2>2. CASE v # w
    BY <1>1, <2>2 DEF ClaimsInv
  <2> QED BY <2>1, <2>2
<1> QED BY <1>2, <1>3 DEF ClaimsInv

LEMMA PollKeepsClaims ==
  ASSUME ClaimsInv, NEW w \in Poller, Polling!PollerStep(w)
  PROVE  ClaimsInv'
<1>1. CASE Polling!ClaimDue(w)
  <2>1. PICK S \in SUBSET Polling!ClaimableRows(w) :
          batch' = [batch EXCEPT ![w] =
            {[address |-> a, tracking |-> row[a], windowPassed |-> window[a] = 0] : a \in S}]
    BY <1>1 DEF Polling!ClaimDue
  <2>2. S \subseteq {Receiver} /\ work' = work
    BY <1>1 DEF Polling!ClaimDue, Polling!ClaimableRows
  <2> DEFINE C == {[address |-> a, tracking |-> row[a], windowPassed |-> window[a] = 0] : a \in S}
  <2>3. \A c \in C : c.address = Receiver
    BY <2>2
  <2> HIDE DEF C
  <2>4. batch' = [batch EXCEPT ![w] = C]
    BY <2>1 DEF C
  <2> QED BY <2>2, <2>3, <2>4 DEF ClaimsInv
<1>2. CASE \E c \in batch[w] : \/ Polling!Observe(w, c) \/ Polling!ObserveFails(w, c)
                               \/ Polling!TipFails(w, c) \/ Polling!TipFailedBefore(w, c)
  BY <1>2, ObserveKeepsClaims
  DEF Polling!Observe, Polling!ObserveAs, Polling!ObserveFails, Polling!TipFails,
      Polling!TipFailedBefore
<1>3. CASE Polling!Save(w)
  <2>1. batch' = batch /\ work' = [work EXCEPT ![w] = Idle]
    BY <1>3 DEF Polling!Save, Polling!SaveRow
  <2> QED BY <2>1 DEF ClaimsInv
<1>4. CASE Polling!Abort(w)
  <2>1. batch' = [batch EXCEPT ![w] = {}] /\ work' = [work EXCEPT ![w] = Idle]
    BY <1>4 DEF Polling!Abort
  <2> QED BY <2>1 DEF ClaimsInv
<1> QED BY <1>1, <1>2, <1>3, <1>4 DEF Polling!PollerStep

LEMMA ClaimsStep == ClaimsInv /\ [Next]_vars => ClaimsInv'
<1> SUFFICES ASSUME ClaimsInv, [Next]_vars PROVE ClaimsInv'
  OBVIOUS
<1>1. CASE \E w \in Poller : Polling!PollerStep(w)
  BY <1>1, PollKeepsClaims
<1>2. CASE UNCHANGED <<batch, work>>
  BY <1>2 DEF ClaimsInv
<1>3. (\E w \in Poller : Polling!PollerStep(w)) \/ UNCHANGED <<batch, work>>
  BY StepOfPollers
  DEF Polling!Next, Polling!ChainMoves, Polling!Tick, Polling!cycleVars, Polling!vars
<1> QED BY <1>1, <1>2, <1>3

\* The outbox of the address is a list that only Save extends, by one change at most.
ListInv == \E S : outbox \in [{Receiver} -> Seq(S)]

LEMMA ListGrows ==
  ASSUME ListInv, ClaimsInv, [Next]_vars
  PROVE  /\ ListInv'
         /\ Last \in Nat
         /\ \/ outbox' = outbox
            \/ /\ Last' = Last + 1
               /\ \E w \in Poller : Save(w)
               /\ \A i \in 1..Last : outbox'[Receiver][i] = outbox[Receiver][i]
<1>1. PICK S : outbox \in [{Receiver} -> Seq(S)]
  BY DEF ListInv
<1>2. Last \in Nat
  BY <1>1 DEF Last
<1>3. CASE outbox' = outbox
  BY <1>2, <1>3 DEF ListInv
<1>4. ASSUME NEW w \in Poller, Save(w), outbox' # outbox
      PROVE  /\ ListInv' /\ Last' = Last + 1
             /\ \A i \in 1..Last : outbox'[Receiver][i] = outbox[Receiver][i]
  <2>1. work[w] # Idle
    BY <1>4 DEF Save, Polling!Save, Polling!SaveRow
  <2>2. PICK c, t : /\ c = work[w].claim
                    /\ t = Polling!Outcome(c, work[w].seen)
    OBVIOUS
  <2>3. c.address = Receiver
    BY <2>1, <2>2 DEF ClaimsInv
  <2>4. outbox' = [outbox EXCEPT ![Receiver] =
                     @ \o Polling!StatusChangedEvent(c.tracking.status, t)]
    BY <1>4, <2>2, <2>3 DEF Save, Polling!Save
  <2>5. PICK e : e = [previous |-> c.tracking.status, current |-> t.status]
    OBVIOUS
  <2>6. Polling!StatusChangedEvent(c.tracking.status, t) \in {<< >>, << e >>}
    BY <2>5 DEF Polling!StatusChangedEvent
  <2>7. PICK l : l = outbox[Receiver]
    OBVIOUS
  <2>8. l \in Seq(S) /\ l \in Seq(S \cup {e}) /\ << e >> \in Seq(S \cup {e})
    BY <1>1, <2>7
  <2>9. outbox' = [outbox EXCEPT ![Receiver] = l \o << e >>]
    <3>1. CASE Polling!StatusChangedEvent(c.tracking.status, t) = << >>
      <4>1. l \o << >> = l
        BY <2>8
      <4>2. outbox' = outbox
        BY <1>1, <2>4, <2>7, <3>1, <4>1
      <4> QED BY <1>4, <4>2
    <3>2. CASE Polling!StatusChangedEvent(c.tracking.status, t) = << e >>
      BY <2>4, <2>7, <3>2
    <3> QED BY <2>6, <3>1, <3>2
  <2>10. l \o << e >> \in Seq(S \cup {e}) /\ Len(l \o << e >>) = Len(l) + 1
         /\ \A i \in 1..Len(l) : (l \o << e >>)[i] = l[i]
    BY <2>8
  <2>11. outbox'[Receiver] = l \o << e >> /\ outbox' \in [{Receiver} -> Seq(S \cup {e})]
    BY <1>1, <2>9, <2>10
  <2>12. ListInv'
    BY <2>11 DEF ListInv
  <2> QED BY <2>7, <2>10, <2>11, <2>12 DEF Last
<1>5. outbox' = outbox \/ \E w \in Poller : Save(w)
  <2>1. CASE \E w \in Poller : Poll(w) \/ PollDisturbed(w)
    BY <2>1
    DEF Poll, PollDisturbed, Polling!ClaimDue, Polling!Observe, Polling!ObserveAs,
        Polling!ObserveFails, Polling!TipFails, Polling!TipFailedBefore, Polling!Abort,
        Polling!rowVars
  <2>2. CASE (\E w \in Dispatcher : Send(w) \/ SenderDies(w)) \/ UNCHANGED vars
    BY <2>2 DEF Send, SenderDies, vars, pollVars
  <2>3. CASE ChainMoves \/ Tick
    BY <2>3 DEF ChainMoves, Tick, Polling!ChainMoves, Polling!Tick, Polling!rowVars
  <2> QED BY <2>1, <2>2, <2>3 DEF Next
<1> QED BY <1>2, <1>3, <1>4, <1>5

-----------------------------------------------------------------------------
(* The dispatchers. *)

LEMMA StepOfDispatchers ==
  ASSUME ListInv, ClaimsInv, [Next]_vars
  PROVE  [Dispatch!Next]_(Dispatch!vars)
<1>1. ASSUME UNCHANGED sendVars PROVE UNCHANGED Dispatch!vars
  BY <1>1 DEF sendVars, Dispatch!vars, Dispatch!rowVars, Dispatch!cycleVars, Dispatch!history
<1>2. CASE \E w \in Poller : Save(w)
  <2>1. PICK w \in Poller : Save(w)
    BY <1>2
  <2>2. CASE outbox'[Receiver] # outbox[Receiver]
    <3>1. Last' <= MaxEvents /\ Dispatch!EnqueueStatusChanged(Last')
      BY <2>1, <2>2 DEF Save
    <3>2. Last' = Last + 1 /\ Last \in Nat
      BY <2>2, ListGrows
    <3>3. Last' \in 1..MaxEvents
      BY <3>1, <3>2, MaxEventsAssumption
    <3> QED BY <3>1, <3>3 DEF Dispatch!Next
  <2>3. CASE outbox'[Receiver] = outbox[Receiver]
    BY <1>1, <2>1, <2>3 DEF Save
  <2> QED BY <2>2, <2>3
<1>3. CASE (\E w \in Poller : Poll(w) \/ PollDisturbed(w)) \/ ChainMoves \/ UNCHANGED vars
  <2>1. UNCHANGED sendVars
    BY <1>3 DEF Poll, PollDisturbed, ChainMoves, vars
  <2> QED BY <1>1, <2>1
<1>4. CASE \E w \in Dispatcher : Send(w) \/ SenderDies(w)
  BY <1>4 DEF Send, SenderDies, Dispatch!Next
<1>5. CASE Tick
  BY <1>5 DEF Tick, Dispatch!Next
<1> QED BY <1>2, <1>3, <1>4, <1>5 DEF Next

LEMMA ListInit == Init => ListInv
<1> SUFFICES ASSUME Init PROVE ListInv
  OBVIOUS
<1>1. outbox \in [{Receiver} -> Seq({})]
  BY DEF Init, Polling!Init
<1> QED BY <1>1 DEF ListInv

LEMMA ListHolds == Spec => [](ListInv /\ ClaimsInv)
<1>1. ListInv /\ ClaimsInv /\ [Next]_vars => (ListInv /\ ClaimsInv)'
  BY ListGrows, ClaimsStep
<1> QED BY <1>1, ListInit, ClaimsInit, PTL DEF Spec

\* The dispatchers of the pipeline are those of WebhookDispatch, for the changes
\* that its pollers commit.
THEOREM DispatchersAreDispatchers == Spec => Dispatch!Spec
<1>1. Init => Dispatch!Init
  BY DEF Init
<1>2. ListInv /\ ClaimsInv /\ [Next]_vars => [Dispatch!Next]_(Dispatch!vars)
  BY StepOfDispatchers
<1> QED BY <1>1, <1>2, ListHolds, PTL DEF Spec, Dispatch!Spec

-----------------------------------------------------------------------------
(* What the shared transaction buys. *)

\* A change and its notification are committed together: there is a notification
\* for each change and none for what did not happen, and the merchant is told of
\* a change only once it is committed.
CommittedTogether ==
  /\ Last \in 0..MaxEvents
  /\ \A n \in 1..MaxEvents : /\ delivery[n] # "absent" <=> n <= Last
                             /\ accepted[n] => n <= Last

\* What a dispatcher holds is a notification that is there.
SendersInv ==
  /\ DOMAIN delivery = 1..MaxEvents /\ DOMAIN accepted = 1..MaxEvents
  /\ DOMAIN claimed = Dispatcher /\ DOMAIN sending = Dispatcher
  /\ \A w \in Dispatcher : \A c \in claimed[w] :
       c.id \in 1..MaxEvents /\ delivery[c.id] # "absent"
  /\ \A w \in Dispatcher : sending[w] # Idle =>
       sending[w].claim.id \in 1..MaxEvents /\ delivery[sending[w].claim.id] # "absent"

OutboxInv == CommittedTogether /\ SendersInv

LEMMA OutboxInit == Init => OutboxInv
<1> SUFFICES ASSUME Init PROVE OutboxInv
  OBVIOUS
<1>1. Last = 0
  BY DEF Init, Polling!Init, Last
<1>2. CommittedTogether
  BY <1>1, MaxEventsAssumption DEF Init, Dispatch!Init, CommittedTogether
<1>3. SendersInv
  BY DEF Init, Dispatch!Init, SendersInv
<1> QED BY <1>2, <1>3 DEF OutboxInv

\* A notification that is enqueued is the one of the change just committed.
LEMMA SaveKeepsOutbox ==
  ASSUME OutboxInv, NEW w \in Poller, Save(w), Last \in Nat, outbox' = outbox \/ Last' = Last + 1
  PROVE  OutboxInv'
<1>1. CASE outbox'[Receiver] # outbox[Receiver]
  <2>1. Last' <= MaxEvents /\ Dispatch!EnqueueStatusChanged(Last')
    BY <1>1 DEF Save
  <2>2. Last' = Last + 1
    BY <1>1
  <2>3. delivery' = [delivery EXCEPT ![Last'] = "pending"]
        /\ UNCHANGED <<claimed, sending, accepted>>
    BY <2>1 DEF Dispatch!EnqueueStatusChanged, Dispatch!cycleVars, Dispatch!history
  <2>4. Last' \in 1..MaxEvents
    BY <2>1, <2>2, MaxEventsAssumption
  <2>5. DOMAIN delivery' = 1..MaxEvents
        /\ \A n \in 1..MaxEvents :
             delivery'[n] = IF n = Last' THEN "pending" ELSE delivery[n]
    BY <2>3, <2>4 DEF OutboxInv, SendersInv
  <2>6. \A n \in 1..MaxEvents : n <= Last' <=> n <= Last \/ n = Last'
    BY <2>2
  <2>7. CommittedTogether'
    BY <2>3, <2>4, <2>5, <2>6 DEF OutboxInv, CommittedTogether
  <2>8. SendersInv'
    BY <2>3, <2>5 DEF OutboxInv, SendersInv
  <2> QED BY <2>7, <2>8 DEF OutboxInv
<1>2. CASE outbox'[Receiver] = outbox[Receiver]
  <2>1. UNCHANGED sendVars /\ Last' = Last
    BY <1>2 DEF Save, Last
  <2> QED BY <2>1 DEF sendVars, OutboxInv, CommittedTogether, SendersInv
<1> QED BY <1>1, <1>2

LEMMA SendKeepsOutbox ==
  ASSUME OutboxInv, NEW w \in Dispatcher, Send(w) \/ SenderDies(w)
  PROVE  OutboxInv'
<1> USE DEF OutboxInv
<1>0. Last' = Last
  BY DEF Send, SenderDies, pollVars, Last
<1>1. ASSUME DOMAIN claimed' = Dispatcher, DOMAIN sending' = Dispatcher,
             DOMAIN delivery' = 1..MaxEvents, DOMAIN accepted' = 1..MaxEvents,
             \A n \in 1..MaxEvents : delivery'[n] # "absent" <=> delivery[n] # "absent",
             \A n \in 1..MaxEvents : accepted'[n] => accepted[n] \/ delivery[n] # "absent",
             \A v \in Dispatcher \ {w} : claimed'[v] = claimed[v] /\ sending'[v] = sending[v],
             \A c \in claimed'[w] : c.id \in 1..MaxEvents /\ delivery[c.id] # "absent",
             sending'[w] # Idle => sending'[w].claim.id \in 1..MaxEvents
                                   /\ delivery[sending'[w].claim.id] # "absent"
      PROVE  OutboxInv'
  <2>1. CommittedTogether'
    BY <1>0, <1>1 DEF CommittedTogether
  <2>2. \A v \in Dispatcher : \A c \in claimed'[v] :
          c.id \in 1..MaxEvents /\ delivery'[c.id] # "absent"
    BY <1>1 DEF SendersInv
  <2>3. \A v \in Dispatcher : sending'[v] # Idle =>
          sending'[v].claim.id \in 1..MaxEvents /\ delivery'[sending'[v].claim.id] # "absent"
    BY <1>1 DEF SendersInv
  <2>4. SendersInv'
    BY <1>1, <2>2, <2>3 DEF SendersInv
  <2> QED BY <2>1, <2>4
<1>2. CASE Dispatch!ClaimPending(w)
  <2>1. PICK S \in SUBSET Dispatch!ClaimableRows :
          claimed' = [claimed EXCEPT ![w] = {[id |-> n, attempts |-> attempts[n]] : n \in S}]
    BY <1>2 DEF Dispatch!ClaimPending
  <2>2. UNCHANGED <<delivery, sending, accepted>>
    BY <1>2 DEF Dispatch!ClaimPending, Dispatch!history
  <2> DEFINE C == {[id |-> n, attempts |-> attempts[n]] : n \in S}
  <2>3. \A n \in S : n \in 1..MaxEvents /\ delivery[n] # "absent"
    BY <2>1 DEF Dispatch!ClaimableRows
  <2>4. \A c \in C : c.id \in 1..MaxEvents /\ delivery[c.id] # "absent"
    BY <2>3
  <2>5. claimed' = [claimed EXCEPT ![w] = C]
    BY <2>1
  <2> HIDE DEF C
  <2> QED BY <1>1, <2>2, <2>4, <2>5 DEF SendersInv
<1>3. ASSUME NEW c \in claimed[w], NEW received \in BOOLEAN, NEW ok, Dispatch!Post(w, c, received, ok)
      PROVE  OutboxInv'
  <2>1. /\ claimed' = [claimed EXCEPT ![w] = @ \ {c}]
        /\ sending' = [sending EXCEPT ![w] = [claim |-> c, ok |-> ok]]
        /\ accepted' = [accepted EXCEPT ![c.id] = @ \/ received]
        /\ delivery' = delivery
    BY <1>3 DEF Dispatch!Post, Dispatch!rowVars
  <2>2. c.id \in 1..MaxEvents /\ delivery[c.id] # "absent"
    BY <1>3 DEF SendersInv
  <2>3. sending'[w] = [claim |-> c, ok |-> ok] /\ sending'[w].claim = c
    BY <2>1 DEF SendersInv
  <2>4. \A n \in 1..MaxEvents : accepted'[n] => accepted[n] \/ delivery[n] # "absent"
    BY <2>1, <2>2 DEF SendersInv
  <2>5. claimed'[w] \subseteq claimed[w]
    BY <2>1 DEF SendersInv
  <2>6. \A v \in Dispatcher \ {w} : claimed'[v] = claimed[v] /\ sending'[v] = sending[v]
    BY <2>1 DEF SendersInv
  <2>7. DOMAIN claimed' = Dispatcher /\ DOMAIN sending' = Dispatcher
        /\ DOMAIN accepted' = 1..MaxEvents /\ DOMAIN delivery' = 1..MaxEvents
    BY <2>1 DEF SendersInv
  <2>8. \A d \in claimed'[w] : d.id \in 1..MaxEvents /\ delivery[d.id] # "absent"
    BY <2>5 DEF SendersInv
  <2> QED BY <1>1, <2>1, <2>2, <2>3, <2>4, <2>6, <2>7, <2>8
<1>4. CASE \E c \in claimed[w] : \/ Dispatch!PostAccepted(w, c) \/ Dispatch!PostRefused(w, c)
                                 \/ Dispatch!AnswerLost(w, c)
  BY <1>3, <1>4 DEF Dispatch!PostAccepted, Dispatch!PostRefused, Dispatch!AnswerLost
<1>5. CASE Dispatch!SaveDeliveryResult(w)
  <2>1. PICK n : n = sending[w].claim.id
    OBVIOUS
  <2>2. n \in 1..MaxEvents /\ delivery[n] # "absent"
    BY <1>5, <2>1 DEF Dispatch!SaveDeliveryResult, SendersInv
  <2>3. \E s \in {"sent", "failed", "pending"} : delivery' = [delivery EXCEPT ![n] = s]
    BY <1>5, <2>1
    DEF Dispatch!SaveDeliveryResult, Dispatch!SaveSent, Dispatch!SaveFailure,
        Dispatch!CountFailure
  <2>4. sending' = [sending EXCEPT ![w] = Idle] /\ claimed' = claimed /\ accepted' = accepted
    BY <1>5 DEF Dispatch!SaveDeliveryResult, Dispatch!history
  <2>5. DOMAIN delivery' = 1..MaxEvents
        /\ \A m \in 1..MaxEvents : delivery'[m] # "absent" <=> delivery[m] # "absent"
    BY <2>2, <2>3 DEF SendersInv
  <2> QED BY <1>1, <2>4, <2>5 DEF SendersInv
<1>6. CASE Dispatch!Abort(w)
  <2>1. /\ claimed' = [claimed EXCEPT ![w] = {}] /\ sending' = [sending EXCEPT ![w] = Idle]
        /\ delivery' = delivery /\ accepted' = accepted
    BY <1>6 DEF Dispatch!Abort, Dispatch!EndCycle, Dispatch!rowVars, Dispatch!history
  <2> QED BY <1>1, <2>1 DEF SendersInv
<1> QED BY <1>2, <1>4, <1>5, <1>6 DEF Send, SenderDies

LEMMA OutboxStep ==
  ASSUME ListInv, ClaimsInv, OutboxInv, [Next]_vars
  PROVE  OutboxInv'
<1>1. Last \in Nat /\ (outbox' = outbox \/ Last' = Last + 1)
  BY ListGrows
<1>2. CASE \E w \in Poller : Save(w)
  BY <1>1, <1>2, SaveKeepsOutbox
<1>3. CASE \E w \in Dispatcher : Send(w) \/ SenderDies(w)
  BY <1>3, SendKeepsOutbox
<1>4. CASE (\E w \in Poller : Poll(w) \/ PollDisturbed(w)) \/ ChainMoves \/ Tick \/ UNCHANGED vars
  <2>1. UNCHANGED outbox
    BY <1>4
    DEF Poll, PollDisturbed, Polling!ClaimDue, Polling!Observe, Polling!ObserveAs,
        Polling!ObserveFails, Polling!TipFails, Polling!TipFailedBefore, Polling!Abort,
        Polling!rowVars, ChainMoves, Tick, Polling!ChainMoves, Polling!Tick, vars, pollVars
  <2>2. UNCHANGED <<delivery, claimed, sending, accepted>>
    BY <1>4 DEF Poll, PollDisturbed, ChainMoves, Tick, Dispatch!Tick, vars, sendVars
  <2>3. Last' = Last
    BY <2>1 DEF Last
  <2> QED BY <2>2, <2>3 DEF OutboxInv, CommittedTogether, SendersInv
<1> QED BY <1>2, <1>3, <1>4 DEF Next

\* However polls and posts interleave, fail and die, for any number of pollers,
\* dispatchers, changes and attempts: what is committed is what there is to tell,
\* and nothing else is ever told.
THEOREM ChangesAreToldOnce == Spec => []CommittedTogether
<1>1. ListInv /\ ClaimsInv /\ OutboxInv /\ [Next]_vars => OutboxInv'
  BY OutboxStep
<1>2. OutboxInv => CommittedTogether
  BY DEF OutboxInv
<1> QED BY <1>1, <1>2, OutboxInit, ListHolds, PTL DEF Spec

\* What a notification says is settled when it is enqueued: no later step of any
\* poller or dispatcher changes or withdraws a committed change.
THEOREM ChangesAreKept ==
  Spec => [][Last' >= Last /\ \A i \in 1..Last : outbox'[Receiver][i] = outbox[Receiver][i]]_vars
<1>1. ListInv /\ ClaimsInv /\ [Next]_vars =>
        [Last' >= Last /\ \A i \in 1..Last : outbox'[Receiver][i] = outbox[Receiver][i]]_vars
  BY ListGrows DEF Last
<1> QED BY <1>1, ListHolds, PTL DEF Spec
-----------------------------------------------------------------------------
(* What the merchant ends up knowing. *)

\* What a poll cycle works on is the row as it is, under a lease that is running, and
\* nobody else is working on it.
SnapshotInv ==
  /\ DOMAIN row = {Receiver} /\ DOMAIN lease = {Receiver} /\ DOMAIN age = Poller
  /\ \A w \in Poller : age[w] = 0
  /\ \A w \in Poller : \A c \in Polling!Claimed(w) :
       c.tracking = row[Receiver] /\ lease[Receiver] = 1
  /\ \A v, w \in Poller : \A c \in Polling!Claimed(v), d \in Polling!Claimed(w) : v = w /\ c = d
  /\ \A w \in Poller : work[w] # Idle => batch[w] = {}

\* The last change that was committed is what the row says now.
LastIsCurrent ==
  row[Receiver].status =
    IF Last = 0 THEN Polling!Watching ELSE outbox[Receiver][Last].current

\* What is saved as sent has been taken.
SentInv ==
  /\ \A n \in 1..MaxEvents : delivery[n] = "sent" => accepted[n]
  /\ \A w \in Dispatcher : sending[w] # Idle /\ sending[w].ok => accepted[sending[w].claim.id]

LEMMA SnapshotInit == Init => SnapshotInv /\ LastIsCurrent /\ SentInv
<1> SUFFICES ASSUME Init PROVE SnapshotInv /\ LastIsCurrent /\ SentInv
  OBVIOUS
<1>1. \A w \in Poller : Polling!Claimed(w) = {} /\ batch[w] = {} /\ age[w] = 0
  BY DEF Init, Polling!Init, Polling!Claimed
<1>2. SnapshotInv
  BY <1>1 DEF Init, Polling!Init, SnapshotInv
<1>3. Last = 0 /\ row[Receiver].status = Polling!Watching
  BY DEF Init, Polling!Init, Last, Polling!NewTracking
<1>4. LastIsCurrent
  BY <1>3 DEF LastIsCurrent
<1>5. SentInv
  BY DEF Init, Dispatch!Init, SentInv
<1> QED BY <1>2, <1>4, <1>5

LEMMA ClaimKeepsSnapshots ==
  ASSUME ClaimsInv, SnapshotInv, NEW w \in Poller, Polling!ClaimDue(w)
  PROVE  SnapshotInv'
<1>1. PICK S \in SUBSET Polling!ClaimableRows(w) :
        /\ S # {}
        /\ lease' = [a \in {Receiver} |-> IF a \in S THEN 1 ELSE lease[a]]
        /\ batch' = [batch EXCEPT ![w] =
             {[address |-> a, tracking |-> row[a], windowPassed |-> window[a] = 0] : a \in S}]
  BY DEF Polling!ClaimDue
<1>2. S = {Receiver} /\ lease[Receiver] = 0
  BY <1>1 DEF Polling!ClaimableRows
<1> DEFINE Taken(a) == [address |-> a, tracking |-> row[a], windowPassed |-> window[a] = 0]
<1>3. PICK d : d = Taken(Receiver)
  OBVIOUS
<1>4. batch' = [batch EXCEPT ![w] = {d}] /\ d.tracking = row[Receiver]
  <2>1. {Taken(a) : a \in S} = {d}
    <3> HIDE DEF Taken
    <3> QED BY <1>2, <1>3
  <2> QED BY <1>1, <1>3, <2>1
<1>5. row' = row /\ work' = work /\ age' = [age EXCEPT ![w] = 0] /\ lease'[Receiver] = 1
      /\ DOMAIN lease' = {Receiver}
  BY <1>1, <1>2 DEF Polling!ClaimDue
<1>6. \A v \in Poller : Polling!Claimed(v) = {} /\ batch[v] = {} /\ work[v] = Idle
  BY <1>2 DEF SnapshotInv, Polling!Claimed
<1>7. Polling!Claimed(w)' = {d} /\ \A v \in Poller \ {w} : Polling!Claimed(v)' = {}
  BY <1>4, <1>5, <1>6 DEF Polling!Claimed, ClaimsInv
<1> QED BY <1>4, <1>5, <1>6, <1>7 DEF SnapshotInv

LEMMA ObserveKeepsSnapshots ==
  ASSUME ClaimsInv, SnapshotInv, NEW w \in Poller, NEW c \in batch[w], NEW seen,
         Polling!StartWork(w, c, seen), UNCHANGED <<row, lease, age>>
  PROVE  SnapshotInv'
<1>1. /\ batch' = [batch EXCEPT ![w] = @ \ {c}]
      /\ work' = [work EXCEPT ![w] = [claim |-> c, seen |-> seen]]
  BY DEF Polling!StartWork
<1>2. c \in Polling!Claimed(w) /\ batch[w] \subseteq Polling!Claimed(w)
  BY DEF Polling!Claimed
<1>3. batch'[w] = {}
  BY <1>1, <1>2 DEF ClaimsInv, SnapshotInv
<1>4. work'[w] = [claim |-> c, seen |-> seen] /\ work'[w].claim = c
  BY <1>1 DEF ClaimsInv
<1>5. Polling!Claimed(w)' \subseteq Polling!Claimed(w)
  BY <1>2, <1>3, <1>4 DEF Polling!Claimed
<1>6. \A v \in Poller \ {w} : /\ Polling!Claimed(v)' = Polling!Claimed(v)
                             /\ batch'[v] = batch[v] /\ work'[v] = work[v]
  BY <1>1 DEF Polling!Claimed, ClaimsInv
<1>7. \A v \in Poller : Polling!Claimed(v)' \subseteq Polling!Claimed(v)
  BY <1>5, <1>6
<1>8. \A v \in Poller : work'[v] # Idle => batch'[v] = {}
  BY <1>3, <1>6 DEF SnapshotInv
<1> QED BY <1>7, <1>8 DEF SnapshotInv

\* A cycle that ends leaves no claim behind.
LEMMA EndKeepsSnapshots ==
  ASSUME ClaimsInv, SnapshotInv, NEW w \in Poller, Polling!SaveRow(w) \/ Polling!Abort(w)
  PROVE  SnapshotInv'
<1>1. work' = [work EXCEPT ![w] = Idle]
  BY DEF Polling!SaveRow, Polling!Abort
<1>2. batch'[w] = {} /\ \A v \in Poller \ {w} : batch'[v] = batch[v] /\ work'[v] = work[v]
  BY <1>1 DEF Polling!SaveRow, Polling!Abort, SnapshotInv, ClaimsInv
<1>3. Polling!Claimed(w)' = {}
      /\ \A v \in Poller \ {w} : Polling!Claimed(v)' = Polling!Claimed(v)
  BY <1>1, <1>2 DEF Polling!Claimed, ClaimsInv
<1>4. Polling!Claimed(w) # {}
  BY DEF Polling!SaveRow, Polling!Abort, Polling!Claimed, Polling!Busy
<1>5. \A v \in Poller : Polling!Claimed(v)' = {}
  BY <1>3, <1>4 DEF SnapshotInv
<1>6. DOMAIN row' = {Receiver} /\ DOMAIN lease' = {Receiver} /\ DOMAIN age' = Poller
  BY DEF Polling!SaveRow, Polling!Abort, Polling!rowVars, SnapshotInv
<1>7. \A v \in Poller : age'[v] = 0
  BY DEF Polling!SaveRow, Polling!Abort, SnapshotInv
<1>8. \A v \in Poller : work'[v] # Idle => batch'[v] = {}
  BY <1>1, <1>2 DEF SnapshotInv, ClaimsInv
<1> QED BY <1>5, <1>6, <1>7, <1>8 DEF SnapshotInv

\* Time stands while a cycle is under way, as it has to end within its lease of one.
LEMMA TickKeepsSnapshots == ClaimsInv /\ SnapshotInv /\ Polling!Tick => SnapshotInv'
<1> SUFFICES ASSUME ClaimsInv, SnapshotInv, Polling!Tick PROVE SnapshotInv'
  OBVIOUS
<1>1. \A w \in Poller : Polling!Claimed(w) = {}
  BY DEF Polling!Tick, Polling!Busy, SnapshotInv
<1>2. row' = row /\ batch' = batch /\ work' = work
  BY DEF Polling!Tick
<1>3. \A w \in Poller : Polling!Claimed(w)' = {}
  BY <1>1, <1>2 DEF Polling!Claimed
<1>4. DOMAIN age' = Poller /\ \A w \in Poller : age'[w] = 0
  BY <1>1 DEF Polling!Tick, Polling!Busy, SnapshotInv
<1>5. DOMAIN lease' = {Receiver}
  BY DEF Polling!Tick
<1> QED BY <1>2, <1>3, <1>4, <1>5 DEF SnapshotInv

LEMMA SnapshotStep == ClaimsInv /\ SnapshotInv /\ [Next]_vars => SnapshotInv'
<1> SUFFICES ASSUME ClaimsInv, SnapshotInv, [Next]_vars PROVE SnapshotInv'
  OBVIOUS
<1>1. CASE UNCHANGED <<row, lease, batch, work, age>>
  BY <1>1 DEF SnapshotInv, Polling!Claimed
<1>2. ASSUME NEW w \in Poller, NEW c \in batch[w],
             Polling!Observe(w, c) \/ Polling!ObserveFails(w, c) \/ Polling!TipFails(w, c)
               \/ Polling!TipFailedBefore(w, c)
      PROVE  SnapshotInv'
  <2>1. UNCHANGED <<row, lease, age>>
    BY <1>2 DEF Polling!Observe, Polling!ObserveAs, Polling!ObserveFails, Polling!TipFails,
                Polling!TipFailedBefore, Polling!rowVars
  <2> QED
    BY <1>2, <2>1, ObserveKeepsSnapshots
    DEF Polling!Observe, Polling!ObserveAs, Polling!ObserveFails, Polling!TipFails,
        Polling!TipFailedBefore
<1>3. CASE \E w \in Poller : Poll(w) \/ PollDisturbed(w) \/ Save(w)
  BY <1>2, <1>3, ClaimKeepsSnapshots, EndKeepsSnapshots
  DEF Poll, PollDisturbed, Save, Polling!Save
<1>4. CASE Tick
  BY <1>4, TickKeepsSnapshots DEF Tick
<1>5. CASE (\E w \in Dispatcher : Send(w) \/ SenderDies(w)) \/ ChainMoves \/ UNCHANGED vars
  BY <1>1, <1>5
  DEF Send, SenderDies, ChainMoves, Polling!ChainMoves, Polling!rowVars, Polling!cycleVars,
      pollVars, vars
<1> QED BY <1>3, <1>4, <1>5 DEF Next

\* A save publishes what it changes, and changes what it publishes.
LEMMA SavePublishes ==
  ASSUME ListInv, ClaimsInv, SnapshotInv, NEW w \in Poller, Polling!Save(w)
  PROVE  \/ row'[Receiver].status = row[Receiver].status /\ outbox' = outbox
         \/ /\ Last \in Nat /\ Last' = Last + 1
            /\ outbox'[Receiver][Last'].current = row'[Receiver].status
<1>1. PICK S : outbox \in [{Receiver} -> Seq(S)]
  BY DEF ListInv
<1>2. PICK c, t : c = work[w].claim /\ t = Polling!Outcome(c, work[w].seen)
  OBVIOUS
<1>3. work[w] # Idle
  BY DEF Polling!Save, Polling!SaveRow
<1>4. c.address = Receiver /\ c.tracking = row[Receiver]
  BY <1>2, <1>3 DEF ClaimsInv, SnapshotInv, Polling!Claimed
<1>5. /\ row' = [row EXCEPT ![Receiver] = t]
      /\ outbox' = [outbox EXCEPT ![Receiver] =
           @ \o Polling!StatusChangedEvent(row[Receiver].status, t)]
  BY <1>2, <1>4 DEF Polling!Save, Polling!SaveRow
<1>6. row'[Receiver] = t
  BY <1>5 DEF SnapshotInv
<1>7. PICK l : l = outbox[Receiver]
  OBVIOUS
<1>8. CASE row[Receiver].status = t.status
  <2>1. l \o << >> = l
    BY <1>1, <1>7
  <2>2. outbox' = outbox
    BY <1>1, <1>5, <1>7, <1>8, <2>1 DEF Polling!StatusChangedEvent
  <2> QED BY <1>6, <1>8, <2>2
<1>9. CASE row[Receiver].status # t.status
  <2>1. PICK e : e = [previous |-> row[Receiver].status, current |-> t.status]
    OBVIOUS
  <2>2. outbox'[Receiver] = l \o << e >>
    BY <1>1, <1>5, <1>7, <1>9, <2>1 DEF Polling!StatusChangedEvent
  <2>3. l \in Seq(S \cup {e}) /\ << e >> \in Seq(S \cup {e})
    BY <1>1, <1>7
  <2>4. /\ Len(l) \in Nat /\ Len(l \o << e >>) = Len(l) + 1
        /\ (l \o << e >>)[Len(l) + 1] = e
    BY <2>3
  <2> QED BY <1>6, <1>7, <2>1, <2>2, <2>4 DEF Last
<1> QED BY <1>8, <1>9

LEMMA LastStep ==
  ASSUME ListInv, ClaimsInv, SnapshotInv, LastIsCurrent, [Next]_vars
  PROVE  LastIsCurrent'
<1>1. CASE \E w \in Poller : Save(w)
  <2>1. PICK w \in Poller : Polling!Save(w)
    BY <1>1 DEF Save
  <2>2. CASE row'[Receiver].status = row[Receiver].status /\ outbox' = outbox
    BY <2>2 DEF LastIsCurrent, Last
  <2>3. CASE /\ Last \in Nat /\ Last' = Last + 1
             /\ outbox'[Receiver][Last'].current = row'[Receiver].status
    BY <2>3 DEF LastIsCurrent
  <2> QED BY <2>1, <2>2, <2>3, SavePublishes
<1>2. CASE ~ \E w \in Poller : Save(w)
  <2>1. CASE \E w \in Poller : Poll(w) \/ PollDisturbed(w)
    BY <2>1
    DEF Poll, PollDisturbed, Polling!ClaimDue, Polling!Observe, Polling!ObserveAs,
        Polling!ObserveFails, Polling!TipFails, Polling!TipFailedBefore, Polling!Abort,
        Polling!rowVars, LastIsCurrent, Last
  <2>2. CASE (\E w \in Dispatcher : Send(w) \/ SenderDies(w)) \/ UNCHANGED vars
    BY <2>2 DEF Send, SenderDies, vars, pollVars, LastIsCurrent, Last
  <2>3. CASE ChainMoves \/ Tick
    BY <2>3 DEF ChainMoves, Tick, Polling!ChainMoves, Polling!Tick, Polling!rowVars,
                LastIsCurrent, Last
  <2> QED BY <1>2, <2>1, <2>2, <2>3 DEF Next
<1> QED BY <1>1, <1>2

\* An answer that was lost is not taken for one that came.
LEMMA SentStep ==
  ASSUME ListInv, ClaimsInv, OutboxInv, SentInv, [Next]_vars
  PROVE  SentInv'
<1>0. SendersInv
  BY DEF OutboxInv
<1>1. CASE UNCHANGED <<delivery, sending, accepted>>
  BY <1>1 DEF SentInv
<1>2. ASSUME NEW w \in Dispatcher, NEW c \in claimed[w], NEW received \in BOOLEAN,
             NEW ok \in BOOLEAN, ok => received, Dispatch!Post(w, c, received, ok)
      PROVE  SentInv'
  <2>1. /\ sending' = [sending EXCEPT ![w] = [claim |-> c, ok |-> ok]]
        /\ accepted' = [accepted EXCEPT ![c.id] = @ \/ received]
        /\ delivery' = delivery
    BY <1>2 DEF Dispatch!Post, Dispatch!rowVars
  <2>2. c.id \in 1..MaxEvents /\ DOMAIN accepted = 1..MaxEvents /\ DOMAIN sending = Dispatcher
    BY <1>0 DEF SendersInv
  <2>3. \A n \in 1..MaxEvents : accepted[n] => accepted'[n]
    BY <2>1, <2>2
  <2>4. ok => accepted'[c.id]
    BY <1>2, <2>1, <2>2
  <2>5. sending'[w].claim.id = c.id /\ sending'[w].ok = ok
    BY <2>1, <2>2
  <2>6. \A v \in Dispatcher : sending'[v] # Idle /\ sending'[v].ok
          => accepted'[sending'[v].claim.id]
    <3> SUFFICES ASSUME NEW v \in Dispatcher, sending'[v] # Idle, sending'[v].ok
                 PROVE  accepted'[sending'[v].claim.id]
      OBVIOUS
    <3>1. CASE v = w
      BY <2>4, <2>5, <3>1
    <3>2. CASE v # w
      <4>1. sending'[v] = sending[v]
        BY <2>1, <3>2
      <4>2. accepted[sending[v].claim.id] /\ sending[v].claim.id \in 1..MaxEvents
        BY <1>0, <4>1 DEF SentInv, SendersInv
      <4> QED BY <2>3, <4>1, <4>2
    <3> QED BY <3>1, <3>2
  <2>7. \A n \in 1..MaxEvents : delivery'[n] = "sent" => accepted'[n]
    BY <2>1, <2>3 DEF SentInv
  <2> QED BY <2>6, <2>7 DEF SentInv
<1>3. ASSUME NEW w \in Dispatcher, Dispatch!SaveDeliveryResult(w) PROVE SentInv'
  <2>1. PICK n : n = sending[w].claim.id
    OBVIOUS
  <2>2. n \in 1..MaxEvents /\ sending[w] # Idle
    BY <1>0, <1>3, <2>1 DEF Dispatch!SaveDeliveryResult, SendersInv
  <2>3. sending' = [sending EXCEPT ![w] = Idle] /\ accepted' = accepted
    BY <1>3 DEF Dispatch!SaveDeliveryResult, Dispatch!history
  <2>4. \/ sending[w].ok /\ delivery' = [delivery EXCEPT ![n] = "sent"]
        \/ delivery' = [delivery EXCEPT ![n] = "failed"]
        \/ delivery' = [delivery EXCEPT ![n] = "pending"]
    BY <1>3, <2>1
    DEF Dispatch!SaveDeliveryResult, Dispatch!SaveSent, Dispatch!SaveFailure,
        Dispatch!CountFailure
  <2>5. \A m \in 1..MaxEvents : delivery'[m] = "sent" => accepted'[m]
    BY <1>0, <2>1, <2>2, <2>3, <2>4 DEF SentInv, SendersInv
  <2>6. \A v \in Dispatcher : sending'[v] # Idle /\ sending'[v].ok
          => accepted'[sending'[v].claim.id]
    BY <1>0, <2>3 DEF SentInv, SendersInv
  <2> QED BY <2>5, <2>6 DEF SentInv
<1>4. ASSUME NEW w \in Dispatcher, Dispatch!Abort(w) PROVE SentInv'
  <2>1. /\ sending' = [sending EXCEPT ![w] = Idle]
        /\ delivery' = delivery /\ accepted' = accepted
    BY <1>4 DEF Dispatch!Abort, Dispatch!EndCycle, Dispatch!rowVars, Dispatch!history
  <2> QED BY <1>0, <2>1 DEF SentInv, SendersInv
<1>5. CASE \E w \in Dispatcher : Send(w) \/ SenderDies(w)
  <2>1. \A w \in Dispatcher : Dispatch!ClaimPending(w) => UNCHANGED <<delivery, sending, accepted>>
    BY DEF Dispatch!ClaimPending, Dispatch!history
  <2> QED
    BY <1>1, <1>2, <1>3, <1>4, <1>5, <2>1
    DEF Send, SenderDies, Dispatch!PostAccepted, Dispatch!PostRefused, Dispatch!AnswerLost
<1>6. CASE \E w \in Poller : Save(w)
  <2>1. PICK w \in Poller : Save(w)
    BY <1>6
  <2>2. CASE outbox'[Receiver] # outbox[Receiver]
    <3>1. delivery' = [delivery EXCEPT ![Last'] = "pending"] /\ UNCHANGED <<sending, accepted>>
      BY <2>1, <2>2 DEF Save, Dispatch!EnqueueStatusChanged, Dispatch!cycleVars, Dispatch!history
    <3>2. \A n \in 1..MaxEvents : delivery'[n] = "sent" => delivery[n] = "sent"
      BY <1>0, <3>1 DEF SendersInv
    <3> QED BY <3>1, <3>2 DEF SentInv
  <2>3. CASE outbox'[Receiver] = outbox[Receiver]
    BY <1>1, <2>1, <2>3 DEF Save, sendVars
  <2> QED BY <2>2, <2>3
<1>7. CASE (\E w \in Poller : Poll(w) \/ PollDisturbed(w)) \/ ChainMoves \/ Tick \/ UNCHANGED vars
  BY <1>1, <1>7 DEF Poll, PollDisturbed, ChainMoves, Tick, Dispatch!Tick, vars, sendVars
<1> QED BY <1>5, <1>6, <1>7 DEF Next

\* Once the last change is delivered, whatever came of the earlier ones, the merchant
\* holds the payment for what the status endpoint answers.
HeardIsAnswered ==
  Last = 0 \/ delivery[Last] = "sent" => Heard = Polling!StatusAnswer(Receiver).status

\* The safety behind MerchantLearnsTheOutcome: retries that come late, posts that
\* overtake each other and answers that are lost leave a merchant who goes by
\* notificationId with the truth.
THEOREM DeliveryInformsMerchant == Spec => []HeardIsAnswered
<1>1. ListInv /\ ClaimsInv /\ OutboxInv /\ [Next]_vars => OutboxInv'
  BY OutboxStep
<1>2. ListInv /\ ClaimsInv /\ OutboxInv /\ SnapshotInv /\ LastIsCurrent /\ SentInv /\ [Next]_vars
        => (SnapshotInv /\ LastIsCurrent /\ SentInv)'
  BY SnapshotStep, LastStep, SentStep
<1>3. OutboxInv /\ LastIsCurrent /\ SentInv => HeardIsAnswered
  <2> SUFFICES ASSUME OutboxInv, LastIsCurrent, SentInv, Last = 0 \/ delivery[Last] = "sent"
               PROVE  Heard = row[Receiver].status
    BY DEF HeardIsAnswered, Polling!StatusAnswer
  <2>1. Last \in 0..MaxEvents
    BY DEF OutboxInv, CommittedTogether
  <2>2. CASE Last = 0
    <3>1. Accepted = {}
      BY <2>2 DEF Accepted
    <3> QED BY <2>2, <3>1 DEF Heard, LastIsCurrent
  <2>3. CASE Last # 0
    <3>1. Last \in 1..Last /\ accepted[Last]
      BY <2>1, <2>3, MaxEventsAssumption DEF SentInv
    <3>2. Last \in Accepted /\ \A n \in Accepted : n \in Nat /\ n <= Last
      BY <2>1, <3>1 DEF Accepted
    <3>3. Last \in Accepted /\ \A n \in Accepted : Last >= n
      BY <2>1, <3>2
    <3>4. Max(Accepted) \in Accepted /\ \A n \in Accepted : Max(Accepted) >= n
      BY <3>3 DEF Max
    <3>5. Max(Accepted) = Last
      <4> DEFINE m == Max(Accepted)
      <4>1. m \in Nat /\ m <= Last /\ m >= Last
        BY <3>2, <3>4
      <4> HIDE DEF m
      <4>2. m = Last
        BY <2>1, <4>1
      <4> QED BY <4>2 DEF m
    <3> QED BY <2>3, <3>2, <3>5 DEF Heard, LastIsCurrent
  <2> QED BY <2>2, <2>3
<1> QED BY <1>1, <1>2, <1>3, OutboxInit, SnapshotInit, ListHolds, PTL DEF Spec

-----------------------------------------------------------------------------
(* What the merchant is told is the lifecycle. *)

PaidStatus == {Polling!PaidUnconfirmed, Polling!PaidReverted, Polling!PaidConfirmed}

\* paid_at and the status of a tracking never disagree.
Consistent(t) == t.paid <=> t.status \in PaidStatus

Seen == Polling!Observation \cup {ObserverError}

\* The row is a tracking that agrees with itself, what is claimed may be polled, and
\* what was observed are totals or an error.
TrackingInv ==
  /\ chain \in [{Receiver} -> Polling!Holding]
  /\ row[Receiver] \in Polling!Tracking /\ Consistent(row[Receiver])
  /\ \A w \in Poller : Polling!Claimed(w) # {} => row[Receiver].status \in Polling!PollableStatus
  /\ \A w \in Poller : work[w] # Idle => work[w].seen \in Seen

LEMMA TrackingInit == Init => TrackingInv
BY PartsAssumption
DEF Init, Polling!Init, Polling!Holding, TrackingInv, Polling!NewTracking, Polling!Tracking,
    Polling!PaymentReceiptStatus, Polling!FailureReason, Polling!Claimed, Consistent, PaidStatus,
    Polling!Watching, Polling!PaidUnconfirmed, Polling!PaidReverted, Polling!PaidConfirmed

\* The status is one of a payment that was seen in full exactly if it was.
LEMMA StatusDecided ==
  ASSUME NEW o \in Polling!Observation, Polling!ObservationValid(o), NEW wasPaid \in BOOLEAN,
         NEW paid, paid = (wasPaid \/ o.observed >= Expected)
  PROVE  LET s == Polling!DecideStatus(o, Expected, paid) IN
         /\ paid \in BOOLEAN
         /\ s \in Polling!PaymentReceiptStatus
         /\ paid <=> s \in PaidStatus
         /\ s = Polling!PaidReverted => wasPaid
<1>1. /\ o.observed \in Nat /\ o.confirmed \in Nat /\ o.confirmed <= o.observed
      /\ Expected \in Nat \ {0} /\ paid \in BOOLEAN
  BY PartsAssumption DEF Polling!Observation, Polling!ObservationValid
<1> DEFINE s == Polling!DecideStatus(o, Expected, paid)
<1>2. \/ o.confirmed >= Expected /\ s = Polling!PaidConfirmed
      \/ o.confirmed < Expected /\ o.observed >= Expected /\ s = Polling!PaidUnconfirmed
      \/ o.observed < Expected /\ paid /\ s = Polling!PaidReverted
      \/ o.observed < Expected /\ ~paid /\ s \in {Polling!Watching, Polling!PartiallyPaid}
  BY <1>1 DEF Polling!DecideStatus
<1>3. \/ paid /\ s \in {Polling!PaidConfirmed, Polling!PaidUnconfirmed}
      \/ wasPaid /\ paid /\ s = Polling!PaidReverted
      \/ ~paid /\ s \in {Polling!Watching, Polling!PartiallyPaid}
  <2> HIDE DEF s
  <2>1. o.confirmed >= Expected => o.observed >= Expected
    BY <1>1
  <2>2. o.observed < Expected <=> ~(o.observed >= Expected)
    BY <1>1
  <2> QED BY <1>2, <2>1, <2>2
<1> HIDE DEF s
<1>4. /\ s \in Polling!PaymentReceiptStatus /\ (paid <=> s \in PaidStatus)
      /\ s = Polling!PaidReverted => wasPaid
  BY <1>3
  DEF PaidStatus, Polling!PaymentReceiptStatus, Polling!Watching, Polling!PartiallyPaid,
      Polling!PaidUnconfirmed, Polling!PaidReverted, Polling!PaidConfirmed,
      Polling!FailedExpired
<1> QED BY <1>1, <1>4 DEF s

\* What a save makes of the row: a payment once seen in full is never unpaid again.
Follows(t, u) ==
  /\ u \in Polling!Tracking /\ Consistent(u)
  /\ t.paid => u.paid
  /\ u.status = Polling!PaidReverted => t.paid

LEMMA OutcomeFollows ==
  ASSUME NEW c, c.address = Receiver, c.tracking \in Polling!Tracking,
         c.tracking.status \in Polling!PollableStatus, Consistent(c.tracking),
         NEW seen \in Seen
  PROVE  Follows(c.tracking, Polling!Outcome(c, seen))
<1>1. CASE seen = ObserverError \/ ~Polling!ObservationValid(seen)
  BY <1>1
  DEF Polling!Outcome, Polling!MarkPollingFailure, Polling!Tracking, Polling!FailureReason,
      Follows, Consistent, PaidStatus, Polling!PaidReverted
<1>2. CASE seen # ObserverError /\ Polling!ObservationValid(seen)
  <2> DEFINE t == Polling!ApplyObservation(c.tracking, seen, Expected)
  <2>1. seen \in Polling!Observation /\ c.tracking.paid \in BOOLEAN
    BY <1>2 DEF Seen, Polling!Tracking
  <2>2. /\ t.paid = (c.tracking.paid \/ seen.observed >= Expected)
        /\ t.status = Polling!DecideStatus(seen, Expected, t.paid)
    BY DEF Polling!ApplyObservation
  <2> HIDE DEF t
  <2>3. /\ t.paid \in BOOLEAN /\ Consistent(t) /\ t.status \in Polling!PaymentReceiptStatus
        /\ t.status = Polling!PaidReverted => c.tracking.paid
    BY <1>2, <2>1, <2>2, StatusDecided DEF Consistent
  <2>4. t \in Polling!Tracking
    BY <1>2, <2>1, <2>3, PartsAssumption
    DEF t, Polling!ApplyObservation, Polling!Tracking, Polling!Observation,
        Polling!ObservationValid, Polling!FailureReason
  <2>5. Polling!Outcome(c, seen) = Polling!ExpireIfDue(t, c.windowPassed)
    BY <1>2 DEF Polling!Outcome, t
  <2>6. CASE ~t.paid /\ c.windowPassed
    <3>1. PICK u : u = [t EXCEPT !.status = Polling!FailedExpired, !.failure = Polling!WindowExpired]
      OBVIOUS
    <3>2. /\ u \in Polling!Tracking /\ u.paid = t.paid /\ u.status = Polling!FailedExpired
          /\ Polling!Outcome(c, seen) = u
      BY <2>4, <2>5, <2>6, <3>1
      DEF Polling!ExpireIfDue, Polling!CanExpireByPaymentWindow, Polling!Tracking,
          Polling!FailureReason, Polling!PaymentReceiptStatus
    <3> QED
      BY <2>1, <2>2, <2>6, <3>2
      DEF Follows, Consistent, PaidStatus, Polling!FailedExpired, Polling!PaidUnconfirmed,
          Polling!PaidReverted, Polling!PaidConfirmed
  <2>7. CASE t.paid \/ ~c.windowPassed
    <3>1. Polling!Outcome(c, seen) = t
      BY <2>5, <2>7 DEF Polling!ExpireIfDue, Polling!CanExpireByPaymentWindow
    <3> QED BY <2>1, <2>2, <2>3, <2>4, <3>1 DEF Follows
  <2> QED BY <2>6, <2>7
<1> QED BY <1>1, <1>2

\* What a step does to the row and the changes, if it does anything to them.
Moves ==
  \E t : /\ row[Receiver].status \in Polling!PollableStatus
         /\ Follows(row[Receiver], t)
         /\ row' = [row EXCEPT ![Receiver] = t]
         /\ outbox' = [outbox EXCEPT ![Receiver] =
              IF row[Receiver].status = t.status THEN @
              ELSE Append(@, [previous |-> row[Receiver].status, current |-> t.status])]

\* A save takes the row from where it is: the snapshot was current.
LEMMA SaveMoves ==
  ASSUME ListInv, ClaimsInv, SnapshotInv, TrackingInv, NEW w \in Poller, Polling!Save(w)
  PROVE  Moves
<1>1. PICK S : outbox \in [{Receiver} -> Seq(S)]
  BY DEF ListInv
<1>2. PICK c, t : c = work[w].claim /\ t = Polling!Outcome(c, work[w].seen)
  OBVIOUS
<1>3. work[w] # Idle /\ c \in Polling!Claimed(w)
  BY <1>2 DEF Polling!Save, Polling!SaveRow, Polling!Claimed
<1>4. c.address = Receiver /\ c.tracking = row[Receiver] /\ work[w].seen \in Seen
  BY <1>2, <1>3 DEF ClaimsInv, SnapshotInv, TrackingInv
<1>5. row[Receiver].status \in Polling!PollableStatus
  BY <1>3 DEF TrackingInv
<1>6. Follows(row[Receiver], t)
  BY <1>2, <1>4, <1>5, OutcomeFollows DEF TrackingInv
<1>7. /\ row' = [row EXCEPT ![Receiver] = t]
      /\ outbox' = [outbox EXCEPT ![Receiver] =
           @ \o Polling!StatusChangedEvent(row[Receiver].status, t)]
  BY <1>2, <1>4 DEF Polling!Save, Polling!SaveRow
<1>8. PICK l, e : l = outbox[Receiver] /\ e = [previous |-> row[Receiver].status, current |-> t.status]
  OBVIOUS
<1>9. l \in Seq(S \cup {e})
  BY <1>1, <1>8
<1>10. l \o << >> = l /\ l \o << e >> = Append(l, e)
  BY <1>9
<1>11. l \o Polling!StatusChangedEvent(row[Receiver].status, t)
         = IF row[Receiver].status = t.status THEN l ELSE Append(l, e)
  BY <1>8, <1>10 DEF Polling!StatusChangedEvent
<1> QED BY <1>5, <1>6, <1>7, <1>8, <1>11 DEF Moves

LEMMA RowSteps ==
  ASSUME ListInv, ClaimsInv, SnapshotInv, TrackingInv, [Next]_vars
  PROVE  (row' = row /\ outbox' = outbox) \/ Moves
<1>1. CASE \E w \in Poller : Save(w)
  BY <1>1, SaveMoves DEF Save
<1>2. CASE \E w \in Poller : Poll(w) \/ PollDisturbed(w)
  BY <1>2
  DEF Poll, PollDisturbed, Polling!ClaimDue, Polling!Observe, Polling!ObserveAs,
      Polling!ObserveFails, Polling!TipFails, Polling!TipFailedBefore, Polling!Abort,
      Polling!rowVars
<1>3. CASE (\E w \in Dispatcher : Send(w) \/ SenderDies(w)) \/ UNCHANGED vars
  BY <1>3 DEF Send, SenderDies, vars, pollVars
<1>4. CASE ChainMoves \/ Tick
  BY <1>4 DEF ChainMoves, Tick, Polling!ChainMoves, Polling!Tick, Polling!rowVars
<1> QED BY <1>1, <1>2, <1>3, <1>4 DEF Next

LEMMA ObserveKeepsTracking ==
  ASSUME ClaimsInv, SnapshotInv, TrackingInv, NEW w \in Poller, NEW c \in batch[w],
         Polling!Observe(w, c) \/ Polling!ObserveFails(w, c) \/ Polling!TipFails(w, c)
           \/ Polling!TipFailedBefore(w, c)
  PROVE  TrackingInv'
<1>1. c.address = Receiver
  BY DEF ClaimsInv
<1>2. Polling!OnChain(Receiver) \in Seen
  BY PartsAssumption DEF TrackingInv, Polling!OnChain, Polling!Holding, Polling!Observation, Seen
<1>3. Polling!Contradiction \in Seen /\ ObserverError \in Seen
  BY DEF Polling!Contradiction, Polling!Observation, Seen
<1>4. PICK seen \in Seen : Polling!StartWork(w, c, seen)
  BY <1>1, <1>2, <1>3
  DEF Polling!Observe, Polling!ObserveAs, Polling!ObserveFails, Polling!TipFails,
      Polling!TipFailedBefore
<1>5. row' = row /\ chain' = chain
  BY DEF Polling!Observe, Polling!ObserveAs, Polling!ObserveFails, Polling!TipFails,
         Polling!TipFailedBefore, Polling!rowVars, Polling!envVars
<1>6. /\ batch' = [batch EXCEPT ![w] = @ \ {c}]
      /\ work' = [work EXCEPT ![w] = [claim |-> c, seen |-> seen]]
  BY <1>4 DEF Polling!StartWork
<1>7. \A v \in Poller : Polling!Claimed(v)' # {} => Polling!Claimed(v) # {}
  BY <1>6 DEF Polling!Claimed, ClaimsInv
<1>8. \A v \in Poller : work'[v] # Idle => work'[v].seen \in Seen
  BY <1>6 DEF TrackingInv, ClaimsInv
<1> QED BY <1>5, <1>7, <1>8 DEF TrackingInv

LEMMA TrackingStep ==
  ASSUME ListInv, ClaimsInv, SnapshotInv, TrackingInv, [Next]_vars
  PROVE  TrackingInv'
<1>1. CASE UNCHANGED <<row, batch, work, chain>>
  BY <1>1 DEF TrackingInv, Polling!Claimed
<1>2. ASSUME NEW w \in Poller, Polling!ClaimDue(w) PROVE TrackingInv'
  <2>1. row[Receiver].status \in Polling!PollableStatus
    BY <1>2 DEF Polling!ClaimDue, Polling!ClaimableRows
  <2>2. row' = row /\ chain' = chain /\ work' = work
    BY <1>2 DEF Polling!ClaimDue, Polling!envVars
  <2> QED BY <2>1, <2>2 DEF TrackingInv
<1>3. ASSUME NEW w \in Poller, Polling!Save(w) PROVE TrackingInv'
  <2>1. PICK t : Follows(row[Receiver], t) /\ row' = [row EXCEPT ![Receiver] = t]
    BY <1>3, SaveMoves DEF Moves
  <2>2. row'[Receiver] = t
    BY <2>1 DEF SnapshotInv
  <2>3. \A v \in Poller : Polling!Claimed(v)' = {}
    <3>1. work[w] # Idle /\ batch' = batch /\ work' = [work EXCEPT ![w] = Idle]
      BY <1>3 DEF Polling!Save, Polling!SaveRow
    <3>2. \A v \in Poller \ {w} : Polling!Claimed(v) = {}
      BY <3>1 DEF SnapshotInv, Polling!Claimed
    <3>3. batch[w] = {}
      BY <3>1 DEF SnapshotInv
    <3> QED BY <3>1, <3>2, <3>3 DEF Polling!Claimed, ClaimsInv
  <2>4. \A v \in Poller : work'[v] # Idle => work'[v].seen \in Seen
    BY <2>3 DEF Polling!Claimed
  <2>5. chain' = chain
    BY <1>3 DEF Polling!Save, Polling!SaveRow, Polling!envVars
  <2> QED BY <2>1, <2>2, <2>3, <2>4, <2>5 DEF TrackingInv, Follows
<1>4. ASSUME NEW w \in Poller, Polling!Abort(w) PROVE TrackingInv'
  <2>1. /\ batch' = [batch EXCEPT ![w] = {}] /\ work' = [work EXCEPT ![w] = Idle]
        /\ row' = row /\ chain' = chain
    BY <1>4 DEF Polling!Abort, Polling!rowVars
  <2>2. \A v \in Poller : Polling!Claimed(v)' # {} => Polling!Claimed(v) # {}
    BY <2>1 DEF Polling!Claimed, ClaimsInv
  <2> QED BY <2>1, <2>2 DEF TrackingInv, ClaimsInv
<1>5. CASE ChainMoves
  <2>1. chain' \in [{Receiver} -> Polling!Holding]
    BY <1>5 DEF ChainMoves, Polling!ChainMoves, TrackingInv
  <2>2. row' = row /\ batch' = batch /\ work' = work
    BY <1>5 DEF ChainMoves, Polling!ChainMoves, Polling!rowVars, Polling!cycleVars
  <2> QED BY <2>1, <2>2 DEF TrackingInv, Polling!Claimed
<1>6. CASE Tick \/ (\E w \in Dispatcher : Send(w) \/ SenderDies(w)) \/ UNCHANGED vars
  BY <1>1, <1>6 DEF Tick, Polling!Tick, Polling!envVars, Send, SenderDies, pollVars, vars
<1>7. CASE \E w \in Poller : Poll(w) \/ Save(w) \/ PollDisturbed(w)
  BY <1>2, <1>3, <1>4, <1>7, ObserveKeepsTracking DEF Poll, Save, PollDisturbed
<1> QED BY <1>5, <1>6, <1>7 DEF Next

LEMMA LifecycleStep ==
  ASSUME ListInv, ClaimsInv, SnapshotInv, TrackingInv, [Next]_vars
  PROVE  [Polling!Lifecycle!Next]_(Polling!Lifecycle!vars)
<1>1. CASE row' = row /\ outbox' = outbox
  BY <1>1 DEF Polling!Lifecycle!vars, Polling!StatusAnswer
<1>2. CASE Moves
  <2>1. PICK t : /\ row[Receiver].status \in Polling!PollableStatus
                 /\ Follows(row[Receiver], t)
                 /\ row' = [row EXCEPT ![Receiver] = t]
                 /\ outbox' = [outbox EXCEPT ![Receiver] =
                      IF row[Receiver].status = t.status THEN @
                      ELSE Append(@, [previous |-> row[Receiver].status, current |-> t.status])]
    BY <1>2 DEF Moves
  <2>2. /\ row'[Receiver] = t /\ outbox = [outbox EXCEPT ![Receiver] = @]
        /\ t.paid \in BOOLEAN /\ row[Receiver].paid \in BOOLEAN
        /\ t.status \in Polling!PaymentReceiptStatus
        /\ Consistent(t) /\ Consistent(row[Receiver])
    BY <2>1 DEF SnapshotInv, TrackingInv, Follows, Polling!Tracking, ListInv
  <2>3. CASE row[Receiver].status = t.status
    <3>1. row[Receiver].paid = t.paid
      BY <2>2, <2>3 DEF Consistent
    <3>2. outbox' = outbox
      BY <2>1, <2>2, <2>3
    <3>3. \A a \in {Receiver} : row'[a].status = row[a].status /\ row'[a].paid = row[a].paid
      BY <2>2, <2>3, <3>1
    <3> QED BY <3>2, <3>3 DEF Polling!Lifecycle!vars, Polling!StatusAnswer
  <2>4. CASE row[Receiver].status # t.status
    <3> DEFINE s == t.status
    <3> USE DEF Polling!Watching, Polling!PartiallyPaid, Polling!PaidUnconfirmed,
            Polling!PaidReverted, Polling!PaidConfirmed, Polling!FailedExpired,
            Polling!Lifecycle!Watching, Polling!Lifecycle!PartiallyPaid,
            Polling!Lifecycle!PaidUnconfirmed, Polling!Lifecycle!PaidReverted,
            Polling!Lifecycle!PaidConfirmed, Polling!Lifecycle!FailedExpired
    <3>1. s \in Polling!Lifecycle!PaymentReceiptStatus
      BY <2>2 DEF Polling!PaymentReceiptStatus, Polling!Lifecycle!PaymentReceiptStatus
    <3>2. ~Polling!Lifecycle!Settled(row[Receiver].status)
      BY <2>1 DEF Polling!PollableStatus, Polling!Lifecycle!Settled
    <3>3. Polling!Lifecycle!Allowed(s, row[Receiver].paid)
      BY <2>1, <2>2 DEF Polling!Lifecycle!Allowed, Consistent, PaidStatus, Follows
    <3>4. t.paid = (row[Receiver].paid
                    \/ s \in {Polling!Lifecycle!PaidUnconfirmed, Polling!Lifecycle!PaidConfirmed})
      BY <2>1, <2>2 DEF Consistent, PaidStatus, Follows
    <3> HIDE DEF s
    <3>5. [a \in {Receiver} |-> row'[a].status]
            = [[a \in {Receiver} |-> row[a].status] EXCEPT ![Receiver] = s]
      BY <2>2 DEF s
    <3>6. [a \in {Receiver} |-> row'[a].paid]
            = [[a \in {Receiver} |-> row[a].paid] EXCEPT ![Receiver] = row[Receiver].paid
                \/ s \in {Polling!Lifecycle!PaidUnconfirmed, Polling!Lifecycle!PaidConfirmed}]
      BY <2>2, <3>4
    <3>7. outbox' = [outbox EXCEPT ![Receiver] =
            Append(@, [previous |-> row[Receiver].status, current |-> s])]
      BY <2>1, <2>4 DEF s
    <3>8. Polling!Lifecycle!Advance(Receiver, s)
      BY <2>4, <3>2, <3>3, <3>5, <3>6, <3>7
      DEF Polling!Lifecycle!Advance, Polling!StatusAnswer, s
    <3> QED BY <3>1, <3>8 DEF Polling!Lifecycle!Next
  <2> QED BY <2>3, <2>4
<1> QED BY <1>1, <1>2, RowSteps

LEMMA TrackingHolds == Spec => [](ListInv /\ ClaimsInv /\ SnapshotInv /\ TrackingInv)
<1>1. ListInv /\ ClaimsInv /\ SnapshotInv /\ TrackingInv /\ [Next]_vars
        => (SnapshotInv /\ TrackingInv)'
  BY SnapshotStep, TrackingStep
<1> QED BY <1>1, SnapshotInit, TrackingInit, ListHolds, PTL DEF Spec

\* With dispatchers at work on the same table, what the status endpoint answers and
\* what is enqueued for the merchant is the one lifecycle of the payment.
THEOREM ImplementsLifecycle == Spec => Polling!LifecycleSpec
<1>1. Init => Polling!Lifecycle!Init
  <2> SUFFICES ASSUME Init PROVE Polling!Lifecycle!Init
    OBVIOUS
  <2>1. row[Receiver].status = Polling!Watching /\ row[Receiver].paid = FALSE
        /\ outbox = [a \in {Receiver} |-> << >>]
    BY DEF Init, Polling!Init, Polling!NewTracking
  <2> QED
    BY <2>1 DEF Polling!StatusAnswer, Polling!Lifecycle!Init, Polling!Lifecycle!Watching,
                Polling!Watching
<1>2. ListInv /\ ClaimsInv /\ SnapshotInv /\ TrackingInv /\ [Next]_vars
        => [Polling!Lifecycle!Next]_(Polling!Lifecycle!vars)
  BY LifecycleStep
<1> QED BY <1>1, <1>2, TrackingHolds, PTL DEF Spec, Polling!LifecycleSpec, Polling!Lifecycle!Spec

-----------------------------------------------------------------------------
(* What a merchant may act on. *)

\* Each change starts where the one before it ended, the first at "watching".
ChangesAreAPath ==
  \A i \in 1..Last : outbox[Receiver][i].previous =
    IF i = 1 THEN Polling!Watching ELSE outbox[Receiver][i - 1].current

\* That a payment was seen in full, if it ever was published, is not taken back.
PaidIsKept ==
  \A i \in 1..Last : outbox[Receiver][i].current \in PaidStatus => row[Receiver].paid

PathInv == ChangesAreAPath /\ Polling!EventsAreMoves /\ PaidIsKept

LEMMA PathInit == Init => PathInv
<1> SUFFICES ASSUME Init PROVE PathInv
  OBVIOUS
<1>1. outbox = [a \in {Receiver} |-> << >>] /\ Last = 0
  BY DEF Init, Polling!Init, Last
<1> QED BY <1>1 DEF PathInv, ChangesAreAPath, Polling!EventsAreMoves, PaidIsKept

LEMMA PathStep ==
  ASSUME ListInv, ClaimsInv, SnapshotInv, LastIsCurrent, TrackingInv, PathInv, [Next]_vars
  PROVE  PathInv'
<1>1. CASE row' = row /\ outbox' = outbox
  BY <1>1 DEF PathInv, ChangesAreAPath, Polling!EventsAreMoves, PaidIsKept, Last
<1>2. CASE Moves
  <2>1. PICK t : /\ row[Receiver].status \in Polling!PollableStatus
                 /\ Follows(row[Receiver], t)
                 /\ row' = [row EXCEPT ![Receiver] = t]
                 /\ outbox' = [outbox EXCEPT ![Receiver] =
                      IF row[Receiver].status = t.status THEN @
                      ELSE Append(@, [previous |-> row[Receiver].status, current |-> t.status])]
    BY <1>2 DEF Moves
  <2>2. PICK S : outbox \in [{Receiver} -> Seq(S)]
    BY DEF ListInv
  <2>3. /\ row'[Receiver] = t /\ Consistent(t) /\ Consistent(row[Receiver])
        /\ row[Receiver].paid => t.paid
    BY <2>1 DEF SnapshotInv, TrackingInv, Follows
  <2>4. CASE row[Receiver].status = t.status
    <3>1. outbox' = outbox
      BY <2>1, <2>2, <2>4
    <3> QED
      BY <2>3, <3>1 DEF PathInv, ChangesAreAPath, Polling!EventsAreMoves, PaidIsKept, Last
  <2>5. CASE row[Receiver].status # t.status
    <3>1. PICK l, e : /\ l = outbox[Receiver]
                      /\ e = [previous |-> row[Receiver].status, current |-> t.status]
      OBVIOUS
    <3>2. l \in Seq(S \cup {e}) /\ Len(l) \in Nat /\ Len(l) = Last
      BY <2>2, <3>1 DEF Last
    <3>3. /\ outbox'[Receiver] = Append(l, e) /\ DOMAIN outbox'[Receiver] = 1..(Last + 1)
          /\ Last' = Last + 1 /\ Last \in Nat
      BY <2>1, <2>2, <2>5, <3>1, <3>2 DEF Last
    <3>4. /\ outbox'[Receiver][Last + 1] = e
          /\ \A i \in 1..Last : outbox'[Receiver][i] = outbox[Receiver][i]
      BY <3>1, <3>2, <3>3
    <3>5. \A i \in 1..(Last + 1) : i \in 1..Last \/ i = Last + 1
      BY <3>3
    <3>6. ChangesAreAPath'
      <4>1. e.previous = IF Last + 1 = 1 THEN Polling!Watching
                         ELSE outbox'[Receiver][(Last + 1) - 1].current
        BY <3>1, <3>3, <3>4 DEF LastIsCurrent
      <4>2. \A i \in 1..Last : outbox'[Receiver][i].previous =
              IF i = 1 THEN Polling!Watching ELSE outbox'[Receiver][i - 1].current
        <5>1. \A i \in 1..Last : i = 1 \/ i - 1 \in 1..Last
          BY <3>3
        <5> QED BY <3>4, <5>1 DEF PathInv, ChangesAreAPath
      <4> QED BY <3>3, <3>4, <3>5, <4>1, <4>2 DEF ChangesAreAPath
    <3>7. Polling!EventsAreMoves'
      <4> DEFINE Move(c) ==
            /\ c.previous \in Polling!PollableStatus /\ c.current # c.previous
            /\ c.previous \in {Polling!PaidUnconfirmed, Polling!PaidReverted} =>
                 c.current \in PaidStatus
      <4>1. Move(e)
        BY <2>1, <2>3, <2>5, <3>1 DEF Consistent, PaidStatus
      <4>2. \A i \in 1..Last : Move(outbox[Receiver][i])
        BY <2>2, <3>1, <3>2 DEF PathInv, Polling!EventsAreMoves, PaidStatus
      <4>3. \A i \in DOMAIN outbox'[Receiver] : Move(outbox'[Receiver][i])
        <5> HIDE DEF Move
        <5> QED BY <3>3, <3>4, <3>5, <4>1, <4>2
      <4> QED BY <4>3 DEF Polling!EventsAreMoves, PaidStatus
    <3>8. PaidIsKept'
      <4>1. e.current \in PaidStatus => t.paid
        BY <2>3, <3>1 DEF Consistent
      <4>2. \A i \in 1..Last : outbox[Receiver][i].current \in PaidStatus => t.paid
        BY <2>3 DEF PathInv, PaidIsKept
      <4> QED BY <2>3, <3>3, <3>4, <3>5, <4>1, <4>2 DEF PaidIsKept, PaidStatus
    <3> QED BY <3>6, <3>7, <3>8 DEF PathInv
  <2> QED BY <2>4, <2>5
<1> QED BY <1>1, <1>2, RowSteps

LEMMA PathHolds == Spec => [](ListInv /\ ClaimsInv /\ OutboxInv /\ LastIsCurrent /\ PathInv)
<1>1. ListInv /\ ClaimsInv /\ OutboxInv /\ [Next]_vars => OutboxInv'
  BY OutboxStep
<1>2. ListInv /\ ClaimsInv /\ SnapshotInv /\ TrackingInv /\ LastIsCurrent /\ PathInv /\ [Next]_vars
        => (LastIsCurrent /\ PathInv)'
  BY LastStep, PathStep
<1> QED BY <1>1, <1>2, OutboxInit, SnapshotInit, PathInit, TrackingHolds, PTL DEF Spec

\* The notifications, in the order of their ids, tell the history of the payment: each
\* starts where the last ended, leaves a status that is open, and takes back no payment.
THEOREM ChangesTellTheHistory == Spec => [](ChangesAreAPath /\ Polling!EventsAreMoves)
BY PathHolds, PTL DEF PathInv

LEMMA LeastNumber ==
  ASSUME NEW T \in SUBSET Nat, T # {}
  PROVE  \E n \in T : \A m \in T : n <= m
<1> DEFINE R == {ss \in Nat \X Nat : ss[1] < ss[2]}
<1>1. IsWellFoundedOn(R, Nat)
  BY NatLessThanWellFounded DEF OpToRel
<1> HIDE DEF R
<1>2. PICK n \in T : \A m \in T : ~(<<m, n>> \in R)
  BY <1>1, WFMin
<1>3. SUFFICES ASSUME NEW m \in T PROVE n <= m
  BY <1>2
<1>4. <<m, n>> \in Nat \X Nat /\ n \in Nat /\ m \in Nat
  BY <1>2
<1>5. ~(m < n)
  BY <1>2, <1>4 DEF R
<1> QED BY <1>4, <1>5

\* The latest of some notifications there is.
LEMMA LargestIndex ==
  ASSUME NEW n \in Nat, NEW s \in SUBSET (1..n), s # {}
  PROVE  Max(s) \in s /\ \A i \in s : i <= Max(s)
<1> DEFINE T == {n - i : i \in s}
<1>1. T \in SUBSET Nat /\ T # {}
  OBVIOUS
<1> HIDE DEF T
<1>2. PICK m \in T : \A k \in T : m <= k
  BY <1>1, LeastNumber
<1>3. PICK i \in s : m = n - i
  BY <1>2 DEF T
<1>4. \A j \in s : i >= j
  <2> SUFFICES ASSUME NEW j \in s PROVE i >= j
    OBVIOUS
  <2>1. n - j \in T
    BY DEF T
  <2>2. n - i <= n - j
    BY <1>2, <1>3, <2>1
  <2> QED BY <2>2
<1>5. \E x \in s : \A y \in s : x >= y
  BY <1>4
<1>6. Max(s) \in s /\ \A y \in s : Max(s) >= y
  BY <1>5 DEF Max
<1> QED BY <1>6

\* Final news is true news: a merchant who holds the payment for confirmed or expired is
\* answered the same by the status endpoint, and one who heard that it was seen in full
\* is not answered that it never was.
FinalNewsIsTrue ==
  /\ Heard \in {Polling!PaidConfirmed, Polling!FailedExpired} =>
       Heard = Polling!StatusAnswer(Receiver).status
  /\ Heard \in PaidStatus => Polling!StatusAnswer(Receiver).paid

\* Whatever notifications are still to come, were lost or were given up: a merchant may
\* ship or cancel on what the last one he took says.
THEOREM MerchantMayActOnFinalNews == Spec => []FinalNewsIsTrue
<1>1. ListInv /\ OutboxInv /\ LastIsCurrent /\ PathInv => FinalNewsIsTrue
  <2> SUFFICES ASSUME ListInv, OutboxInv, LastIsCurrent, PathInv PROVE FinalNewsIsTrue
    OBVIOUS
  <2>1. Last \in Nat
    BY DEF OutboxInv, CommittedTogether
  <2>2. CASE Accepted = {}
    BY <2>2 DEF Heard, FinalNewsIsTrue, PaidStatus, Polling!Watching, Polling!PaidUnconfirmed,
                Polling!PaidReverted, Polling!PaidConfirmed, Polling!FailedExpired
  <2>3. CASE Accepted # {}
    <3>1. Accepted \in SUBSET (1..Last)
      BY DEF Accepted
    <3>2. Max(Accepted) \in Accepted
      BY <2>1, <2>3, <3>1, LargestIndex
    <3>3. PICK m \in 1..Last : Heard = outbox[Receiver][m].current
      BY <2>3, <3>2 DEF Heard, Accepted
    <3>4. Heard \in PaidStatus => row[Receiver].paid
      BY <3>3 DEF PathInv, PaidIsKept
    <3>5. ASSUME Heard \in {Polling!PaidConfirmed, Polling!FailedExpired}
          PROVE  Heard = row[Receiver].status
      <4>1. PICK S : outbox \in [{Receiver} -> Seq(S)]
        BY DEF ListInv
      <4>2. \A i \in 1..Last : outbox[Receiver][i].previous \in Polling!PollableStatus
        BY <4>1 DEF PathInv, Polling!EventsAreMoves, Last
      <4>3. Heard \notin Polling!PollableStatus
        BY <3>5 DEF Polling!PollableStatus, Polling!Watching, Polling!PartiallyPaid,
             Polling!PaidUnconfirmed, Polling!PaidReverted, Polling!PaidConfirmed,
             Polling!FailedExpired
      <4>4. CASE m = Last
        BY <2>1, <3>3, <4>4 DEF LastIsCurrent
      <4>5. CASE m # Last
        <5>1. m + 1 \in 1..Last /\ m + 1 # 1 /\ (m + 1) - 1 = m
          BY <2>1, <4>5
        <5>2. outbox[Receiver][m + 1].previous = Heard
          BY <3>3, <5>1 DEF PathInv, ChangesAreAPath
        <5> QED BY <4>2, <4>3, <5>1, <5>2
      <4> QED BY <4>4, <4>5
    <3> QED BY <3>4, <3>5 DEF FinalNewsIsTrue, Polling!StatusAnswer
  <2> QED BY <2>2, <2>3
<1> QED BY <1>1, PathHolds, PTL

-----------------------------------------------------------------------------
(* Why a merchant may not know. *)

\* Every try a row counts, or a claim of it, was a post of its own; and a row is given
\* up after MaxAttempts of them.
TriedInv ==
  /\ delivery \in [1..MaxEvents -> Dispatch!DeliveryStatus]
  /\ attempts \in [1..MaxEvents -> Nat] /\ posts \in [1..MaxEvents -> Nat]
  /\ \A n \in 1..MaxEvents :
       /\ attempts[n] <= posts[n]
       /\ delivery[n] = "failed" => posts[n] >= MaxAttempts
  /\ \A w \in Dispatcher : \A c \in claimed[w] : c.attempts \in Nat /\ c.attempts <= posts[c.id]
  /\ \A w \in Dispatcher : sending[w] # Idle =>
       LET c == sending[w].claim IN c.attempts \in Nat /\ c.attempts < posts[c.id]

LEMMA TriedInit == Init => TriedInv
BY DEF Init, Dispatch!Init, Dispatch!DeliveryStatus, TriedInv

LEMMA ClaimKeepsTried ==
  ASSUME OutboxInv, TriedInv, NEW w \in Dispatcher, Dispatch!ClaimPending(w)
  PROVE  TriedInv'
<1> DEFINE Taken(n) == [id |-> n, attempts |-> attempts[n]]
<1>1. PICK S \in SUBSET (1..MaxEvents) : claimed' = [claimed EXCEPT ![w] = {Taken(n) : n \in S}]
  BY DEF Dispatch!ClaimPending, Dispatch!ClaimableRows
<1>2. UNCHANGED <<delivery, attempts, posts, sending>>
  BY DEF Dispatch!ClaimPending, Dispatch!history
<1>3. \A c \in {Taken(n) : n \in S} : c.attempts \in Nat /\ c.attempts <= posts[c.id]
  BY DEF TriedInv
<1>4. \A v \in Dispatcher : \A c \in claimed'[v] : c.attempts \in Nat /\ c.attempts <= posts[c.id]
  <2> HIDE DEF Taken
  <2>1. PICK C : C = {Taken(n) : n \in S}
    OBVIOUS
  <2>2. DOMAIN claimed = Dispatcher /\ claimed' = [claimed EXCEPT ![w] = C]
    BY <1>1, <2>1 DEF OutboxInv, SendersInv
  <2>3. \A v \in Dispatcher : claimed'[v] = IF v = w THEN C ELSE claimed[v]
    BY <2>2
  <2> QED BY <1>3, <2>1, <2>3 DEF TriedInv
<1> QED BY <1>2, <1>4 DEF TriedInv

LEMMA PostKeepsTried ==
  ASSUME OutboxInv, TriedInv, NEW w \in Dispatcher, NEW c \in claimed[w], NEW received, NEW ok,
         Dispatch!Post(w, c, received, ok)
  PROVE  TriedInv'
<1>1. /\ claimed' = [claimed EXCEPT ![w] = @ \ {c}]
      /\ sending' = [sending EXCEPT ![w] = [claim |-> c, ok |-> ok]]
      /\ posts' = [posts EXCEPT ![c.id] = @ + 1]
      /\ delivery' = delivery /\ attempts' = attempts
  BY DEF Dispatch!Post, Dispatch!rowVars
<1>2. /\ DOMAIN claimed = Dispatcher /\ DOMAIN sending = Dispatcher
      /\ c.id \in 1..MaxEvents /\ c.attempts \in Nat /\ c.attempts <= posts[c.id]
  BY DEF OutboxInv, SendersInv, TriedInv
<1>3. /\ posts' \in [1..MaxEvents -> Nat] /\ posts'[c.id] = posts[c.id] + 1
      /\ posts[c.id] \in Nat
      /\ \A n \in 1..MaxEvents : posts'[n] >= posts[n] /\ posts[n] \in Nat
  BY <1>1, <1>2 DEF TriedInv
<1>4. \A n \in 1..MaxEvents : /\ attempts'[n] <= posts'[n]
                              /\ delivery'[n] = "failed" => posts'[n] >= MaxAttempts
  BY <1>1, <1>3, PartsAssumption DEF TriedInv
<1>5. \A v \in Dispatcher : \A d \in claimed'[v] : d.attempts \in Nat /\ d.attempts <= posts'[d.id]
  <2> SUFFICES ASSUME NEW v \in Dispatcher, NEW d \in claimed'[v]
               PROVE  d.attempts \in Nat /\ d.attempts <= posts'[d.id]
    OBVIOUS
  <2>1. d \in claimed[v]
    BY <1>1, <1>2
  <2>2. d.id \in 1..MaxEvents /\ d.attempts \in Nat /\ d.attempts <= posts[d.id]
    BY <2>1 DEF OutboxInv, SendersInv, TriedInv
  <2> QED BY <1>3, <2>2
<1>6. \A v \in Dispatcher : sending'[v] # Idle =>
        sending'[v].claim.attempts \in Nat
        /\ sending'[v].claim.attempts < posts'[sending'[v].claim.id]
  <2> SUFFICES ASSUME NEW v \in Dispatcher, sending'[v] # Idle
               PROVE  /\ sending'[v].claim.attempts \in Nat
                      /\ sending'[v].claim.attempts < posts'[sending'[v].claim.id]
    OBVIOUS
  <2>1. CASE v = w
    <3>1. sending'[v].claim = c
      BY <1>1, <1>2, <2>1
    <3> QED BY <1>2, <1>3, <3>1
  <2>2. CASE v # w
    <3>1. PICK d : d = sending[v].claim
      OBVIOUS
    <3>2. sending'[v] = sending[v]
      BY <1>1, <2>2
    <3>3. d.id \in 1..MaxEvents /\ d.attempts \in Nat /\ d.attempts < posts[d.id]
      BY <3>1, <3>2 DEF OutboxInv, SendersInv, TriedInv
    <3> QED BY <1>3, <3>1, <3>2, <3>3
  <2> QED BY <2>1, <2>2
<1> QED BY <1>1, <1>3, <1>4, <1>5, <1>6 DEF TriedInv

LEMMA ResultKeepsTried ==
  ASSUME OutboxInv, TriedInv, NEW w \in Dispatcher, Dispatch!SaveDeliveryResult(w)
  PROVE  TriedInv'
<1>1. PICK c : c = sending[w].claim
  OBVIOUS
<1>2. /\ c.id \in 1..MaxEvents /\ c.attempts \in Nat /\ c.attempts < posts[c.id]
      /\ DOMAIN sending = Dispatcher
  BY <1>1 DEF Dispatch!SaveDeliveryResult, OutboxInv, SendersInv, TriedInv
<1>3. sending' = [sending EXCEPT ![w] = Idle] /\ claimed' = claimed /\ posts' = posts
  BY DEF Dispatch!SaveDeliveryResult, Dispatch!history
<1>4. \/ delivery' = [delivery EXCEPT ![c.id] = "sent"] /\ attempts' = attempts
      \/ /\ attempts' = [attempts EXCEPT ![c.id] = c.attempts + 1]
         /\ \/ delivery' = [delivery EXCEPT ![c.id] = "pending"]
            \/ /\ delivery' = [delivery EXCEPT ![c.id] = "failed"]
               /\ c.attempts + 1 >= MaxAttempts
  BY <1>1 DEF Dispatch!SaveDeliveryResult, Dispatch!SaveSent, Dispatch!SaveFailure,
              Dispatch!CountFailure
<1>5. attempts' \in [1..MaxEvents -> Nat] /\ \A n \in 1..MaxEvents : attempts'[n] <= posts[n]
  <2>1. CASE attempts' = attempts
    BY <2>1 DEF TriedInv
  <2>2. CASE attempts' = [attempts EXCEPT ![c.id] = c.attempts + 1]
    <3>1. c.attempts + 1 \in Nat /\ c.attempts + 1 <= posts[c.id]
      BY <1>2 DEF TriedInv
    <3> QED BY <2>2, <3>1 DEF TriedInv
  <2> QED BY <1>4, <2>1, <2>2
<1>6. /\ delivery' \in [1..MaxEvents -> Dispatch!DeliveryStatus]
      /\ \A n \in 1..MaxEvents : delivery'[n] = "failed" =>
           delivery[n] = "failed" \/ (n = c.id /\ c.attempts + 1 >= MaxAttempts)
  BY <1>2, <1>4 DEF TriedInv, Dispatch!DeliveryStatus
<1>7. \A n \in 1..MaxEvents : delivery'[n] = "failed" => posts[n] >= MaxAttempts
  <2>1. c.attempts + 1 >= MaxAttempts => posts[c.id] >= MaxAttempts
    BY <1>2, PartsAssumption DEF TriedInv
  <2> QED BY <1>6, <2>1 DEF TriedInv
<1>8. \A v \in Dispatcher : sending'[v] # Idle => sending'[v] = sending[v]
  BY <1>2, <1>3
<1> QED BY <1>3, <1>5, <1>6, <1>7, <1>8 DEF TriedInv

LEMMA TriedStep == OutboxInv /\ TriedInv /\ [Next]_vars => TriedInv'
<1> SUFFICES ASSUME OutboxInv, TriedInv, [Next]_vars PROVE TriedInv'
  OBVIOUS
<1>1. CASE UNCHANGED <<delivery, attempts, posts, claimed, sending>>
  BY <1>1 DEF TriedInv
<1>2. ASSUME NEW w \in Dispatcher, Dispatch!Abort(w) PROVE TriedInv'
  <2>1. /\ claimed' = [claimed EXCEPT ![w] = {}] /\ sending' = [sending EXCEPT ![w] = Idle]
        /\ UNCHANGED <<delivery, attempts, posts>>
    BY <1>2 DEF Dispatch!Abort, Dispatch!EndCycle, Dispatch!rowVars, Dispatch!history
  <2>2. \A v \in Dispatcher : /\ claimed'[v] \subseteq claimed[v]
                              /\ sending'[v] # Idle => sending'[v] = sending[v]
    BY <2>1 DEF OutboxInv, SendersInv
  <2> QED BY <2>1, <2>2 DEF TriedInv
<1>3. CASE \E w \in Dispatcher : Send(w) \/ SenderDies(w)
  BY <1>2, <1>3, ClaimKeepsTried, PostKeepsTried, ResultKeepsTried
  DEF Send, SenderDies, Dispatch!PostAccepted, Dispatch!PostRefused, Dispatch!AnswerLost
<1>4. ASSUME NEW w \in Poller, Save(w) PROVE TriedInv'
  <2>1. CASE UNCHANGED sendVars
    BY <1>1, <2>1 DEF sendVars
  <2>2. CASE Dispatch!EnqueueStatusChanged(Last')
    <3>1. /\ delivery' = [delivery EXCEPT ![Last'] = "pending"]
          /\ UNCHANGED <<attempts, posts, claimed, sending>>
      BY <2>2 DEF Dispatch!EnqueueStatusChanged, Dispatch!cycleVars, Dispatch!history
    <3>2. /\ delivery' \in [1..MaxEvents -> Dispatch!DeliveryStatus]
          /\ \A n \in 1..MaxEvents : delivery'[n] = "failed" => delivery[n] = "failed"
      BY <3>1 DEF TriedInv, Dispatch!DeliveryStatus
    <3> QED BY <3>1, <3>2 DEF TriedInv
  <2> QED BY <1>4, <2>1, <2>2 DEF Save
<1>5. CASE (\E w \in Poller : Poll(w) \/ PollDisturbed(w)) \/ ChainMoves \/ Tick \/ UNCHANGED vars
  BY <1>1, <1>5 DEF Poll, PollDisturbed, ChainMoves, Tick, Dispatch!Tick, vars, sendVars
<1> QED BY <1>3, <1>4, <1>5 DEF Next

\* A merchant who holds the payment for something else than the status endpoint answers
\* is either still to be told or was tried MaxAttempts times in vain.
SilenceHasAReason ==
  \/ Heard = Polling!StatusAnswer(Receiver).status
  \/ delivery[Last] = "pending"
  \/ delivery[Last] = "failed" /\ posts[Last] >= MaxAttempts

\* What MerchantLearnsTheOutcome comes down to once nothing is pending any more: however
\* results are lost and saved late, nobody is given up on before he was tried.
THEOREM SilenceIsExplained == Spec => []SilenceHasAReason
<1>1. ListInv /\ ClaimsInv /\ OutboxInv /\ TriedInv /\ [Next]_vars => (OutboxInv /\ TriedInv)'
  BY OutboxStep, TriedStep
<1>2. OutboxInv /\ TriedInv /\ HeardIsAnswered => SilenceHasAReason
  <2> SUFFICES ASSUME OutboxInv, TriedInv, HeardIsAnswered PROVE SilenceHasAReason
    OBVIOUS
  <2>1. Last \in 0..MaxEvents
    BY DEF OutboxInv, CommittedTogether
  <2>2. CASE Last = 0
    BY <2>2 DEF HeardIsAnswered, SilenceHasAReason
  <2>3. CASE Last # 0
    <3>1. Last \in 1..MaxEvents /\ Last <= Last
      BY <2>1, <2>3, MaxEventsAssumption
    <3>2. delivery[Last] \in {"pending", "sent", "failed"}
      BY <3>1 DEF OutboxInv, CommittedTogether, TriedInv, Dispatch!DeliveryStatus
    <3> QED BY <3>1, <3>2 DEF HeardIsAnswered, SilenceHasAReason, TriedInv
  <2> QED BY <2>2, <2>3
<1> QED
  BY <1>1, <1>2, OutboxInit, TriedInit, ListHolds, DeliveryInformsMerchant, PTL DEF Spec

-----------------------------------------------------------------------------
(* What an expiry means to the merchant. *)

\* An observation on which an unpaid row would expire.
Expiring(c, seen) ==
  /\ c.windowPassed /\ seen # ObserverError /\ Polling!ObservationValid(seen)
  /\ seen.observed < Expected

\* What expires, or is about to, was looked at once its window had passed, and did not
\* hold its amount then: a payment in time would have been part of what was seen.
ExpiryInv ==
  /\ window \in [{Receiver} -> Nat] /\ paidInTime \in [{Receiver} -> BOOLEAN]
  /\ paidInTime[Receiver] => chain[Receiver].confirmed + chain[Receiver].unconfirmed >= Expected
  /\ \A w \in Poller : \A c \in Polling!Claimed(w) : c.windowPassed => window[Receiver] = 0
  /\ \A w \in Poller : work[w] # Idle /\ Expiring(work[w].claim, work[w].seen)
       => ~paidInTime[Receiver]
  /\ row[Receiver].status = Polling!FailedExpired => window[Receiver] = 0 /\ ~paidInTime[Receiver]

LEMMA ExpiryInit == Init => ExpiryInv
<1> SUFFICES ASSUME Init PROVE ExpiryInv
  OBVIOUS
<1>1. \A w \in Poller : Polling!Claimed(w) = {} /\ work[w] = Idle
  BY DEF Init, Polling!Init, Polling!Claimed
<1>2. row[Receiver].status # Polling!FailedExpired
  BY DEF Init, Polling!Init, Polling!NewTracking, Polling!Watching, Polling!FailedExpired
<1> QED BY <1>1, <1>2, PartsAssumption DEF Init, Polling!Init, ExpiryInv

\* No outcome but that of an expiring observation is an expiry.
LEMMA OutcomeExpires ==
  ASSUME NEW c, c.address = Receiver, c.tracking \in Polling!Tracking,
         c.tracking.status \in Polling!PollableStatus, NEW seen \in Seen,
         Polling!Outcome(c, seen).status = Polling!FailedExpired
  PROVE  Expiring(c, seen)
<1>1. seen # ObserverError /\ Polling!ObservationValid(seen)
  <2> SUFFICES ASSUME seen = ObserverError \/ ~Polling!ObservationValid(seen) PROVE FALSE
    OBVIOUS
  <2>1. Polling!Outcome(c, seen).status = c.tracking.status
    BY DEF Polling!Outcome, Polling!MarkPollingFailure, Polling!Tracking
  <2> QED
    BY <2>1 DEF Polling!PollableStatus, Polling!Watching, Polling!PartiallyPaid,
                Polling!PaidUnconfirmed, Polling!PaidReverted, Polling!FailedExpired
<1> DEFINE t == Polling!ApplyObservation(c.tracking, seen, Expected)
<1>2. /\ t.paid = (c.tracking.paid \/ seen.observed >= Expected)
      /\ t.status = Polling!DecideStatus(seen, Expected, t.paid)
  BY DEF Polling!ApplyObservation
<1>3. Polling!Outcome(c, seen) = Polling!ExpireIfDue(t, c.windowPassed)
  BY <1>1 DEF Polling!Outcome
<1>4. t.status # Polling!FailedExpired
  BY <1>2
  DEF Polling!DecideStatus, Polling!Watching, Polling!PartiallyPaid, Polling!PaidUnconfirmed,
      Polling!PaidReverted, Polling!PaidConfirmed, Polling!FailedExpired
<1> HIDE DEF t
<1>5. ~t.paid /\ c.windowPassed
  BY <1>3, <1>4 DEF Polling!ExpireIfDue, Polling!CanExpireByPaymentWindow
<1>6. seen.observed \in Int /\ Expected \in Nat
  BY <1>1, PartsAssumption DEF Seen, Polling!Observation
<1>7. ~(seen.observed >= Expected)
  BY <1>2, <1>5
<1>8. seen.observed < Expected
  BY <1>6, <1>7
<1> QED BY <1>1, <1>5, <1>8 DEF Expiring

LEMMA ObserveKeepsExpiry ==
  ASSUME ClaimsInv, TrackingInv, ExpiryInv, NEW w \in Poller, NEW c \in batch[w],
         Polling!Observe(w, c) \/ Polling!ObserveFails(w, c) \/ Polling!TipFails(w, c)
           \/ Polling!TipFailedBefore(w, c)
  PROVE  ExpiryInv'
<1>1. c.address = Receiver /\ c \in Polling!Claimed(w)
  BY DEF ClaimsInv, Polling!Claimed
<1>2. ~Polling!ObservationValid(Polling!Contradiction)
  BY DEF Polling!Contradiction, Polling!ObservationValid
<1>3. PICK seen : /\ Polling!StartWork(w, c, seen)
                  /\ \/ seen = Polling!OnChain(Receiver) \/ seen = ObserverError
                     \/ ~Polling!ObservationValid(seen)
  BY <1>1, <1>2
  DEF Polling!Observe, Polling!ObserveAs, Polling!ObserveFails, Polling!TipFails,
      Polling!TipFailedBefore
<1>4. UNCHANGED <<row, window, chain, paidInTime>>
  BY DEF Polling!Observe, Polling!ObserveAs, Polling!ObserveFails, Polling!TipFails,
         Polling!TipFailedBefore, Polling!rowVars, Polling!envVars
<1>5. /\ batch' = [batch EXCEPT ![w] = @ \ {c}]
      /\ work' = [work EXCEPT ![w] = [claim |-> c, seen |-> seen]]
  BY <1>3 DEF Polling!StartWork
<1>6. Expiring(c, seen) => ~paidInTime[Receiver]
  <2>1. /\ Polling!OnChain(Receiver).observed = chain[Receiver].confirmed + chain[Receiver].unconfirmed
        /\ Polling!OnChain(Receiver).observed \in Int /\ Expected \in Nat
    BY PartsAssumption DEF Polling!OnChain, TrackingInv, Polling!Holding
  <2>2. Expiring(c, seen) => Polling!OnChain(Receiver).observed < Expected
    BY <1>3 DEF Expiring
  <2> QED BY <2>1, <2>2 DEF ExpiryInv
<1>7. work'[w].claim = c /\ work'[w].seen = seen
  BY <1>5 DEF ClaimsInv
<1>8. \A v \in Poller : Polling!Claimed(v)' \subseteq Polling!Claimed(v)
  BY <1>1, <1>5 DEF Polling!Claimed, ClaimsInv
<1>9. ASSUME NEW v \in Poller, work'[v] # Idle, Expiring(work'[v].claim, work'[v].seen)
      PROVE  ~paidInTime[Receiver]
  <2>1. CASE v = w
    BY <1>6, <1>7, <1>9, <2>1
  <2>2. CASE v # w
    BY <1>5, <1>9, <2>2 DEF ExpiryInv
  <2> QED BY <2>1, <2>2
<1> QED BY <1>4, <1>8, <1>9 DEF ExpiryInv

LEMMA SaveKeepsExpiry ==
  ASSUME ClaimsInv, SnapshotInv, TrackingInv, ExpiryInv, NEW w \in Poller, Polling!SaveRow(w)
  PROVE  ExpiryInv'
<1>1. PICK c, t : c = work[w].claim /\ t = Polling!Outcome(c, work[w].seen)
  OBVIOUS
<1>2. work[w] # Idle /\ c \in Polling!Claimed(w)
  BY <1>1 DEF Polling!SaveRow, Polling!Claimed
<1>3. /\ c.address = Receiver /\ c.tracking = row[Receiver] /\ work[w].seen \in Seen
      /\ c.tracking \in Polling!Tracking /\ c.tracking.status \in Polling!PollableStatus
  BY <1>1, <1>2 DEF ClaimsInv, SnapshotInv, TrackingInv
<1>4. /\ row' = [row EXCEPT ![Receiver] = t] /\ work' = [work EXCEPT ![w] = Idle]
      /\ UNCHANGED <<window, batch, chain, paidInTime>>
  BY <1>1, <1>3 DEF Polling!SaveRow, Polling!envVars
<1>5. row'[Receiver] = t
  BY <1>4 DEF SnapshotInv
<1>6. t.status = Polling!FailedExpired => window[Receiver] = 0 /\ ~paidInTime[Receiver]
  <2> SUFFICES ASSUME t.status = Polling!FailedExpired
               PROVE  window[Receiver] = 0 /\ ~paidInTime[Receiver]
    OBVIOUS
  <2>1. Expiring(c, work[w].seen)
    BY <1>1, <1>3, OutcomeExpires
  <2>2. c.windowPassed
    BY <2>1 DEF Expiring
  <2>3. window[Receiver] = 0
    BY <1>2, <2>2 DEF ExpiryInv
  <2>4. ~paidInTime[Receiver]
    BY <1>1, <1>2, <2>1 DEF ExpiryInv
  <2> QED BY <2>3, <2>4
<1>7. \A v \in Poller : Polling!Claimed(v)' \subseteq Polling!Claimed(v)
                        /\ (work'[v] # Idle => work'[v] = work[v])
  BY <1>4 DEF Polling!Claimed, ClaimsInv
<1> QED BY <1>4, <1>5, <1>6, <1>7 DEF ExpiryInv

\* What was not paid in time cannot become so once the window has passed.
LEMMA ChainKeepsExpiry ==
  ASSUME TrackingInv, ExpiryInv, Polling!ChainMoves(Receiver)
  PROVE  ExpiryInv'
<1>1. PICK h \in Polling!Holding :
        /\ chain' = [chain EXCEPT ![Receiver] = h]
        /\ paidInTime' = [paidInTime EXCEPT ![Receiver] =
             h.confirmed + h.unconfirmed >= Expected /\ (@ \/ window[Receiver] > 0)]
  BY DEF Polling!ChainMoves
<1>2. UNCHANGED <<row, window, batch, work>>
  BY DEF Polling!ChainMoves, Polling!rowVars, Polling!cycleVars
<1>3. chain'[Receiver] = h
  BY <1>1 DEF TrackingInv
<1>4. paidInTime'[Receiver] => /\ h.confirmed + h.unconfirmed >= Expected
                               /\ paidInTime[Receiver] \/ window[Receiver] > 0
  BY <1>1 DEF ExpiryInv
<1>5. window[Receiver] = 0 /\ ~paidInTime[Receiver] => ~paidInTime'[Receiver]
  <2>1. window[Receiver] = 0 => ~(window[Receiver] > 0)
    OBVIOUS
  <2> QED BY <1>4, <2>1
<1>6. paidInTime' \in [{Receiver} -> BOOLEAN]
  BY <1>1 DEF ExpiryInv
<1>7. ASSUME NEW v \in Poller, work[v] # Idle, Expiring(work[v].claim, work[v].seen)
      PROVE  ~paidInTime'[Receiver]
  <2>1. work[v].claim \in Polling!Claimed(v)
    BY <1>7 DEF Polling!Claimed
  <2> QED BY <1>5, <1>7, <2>1 DEF ExpiryInv, Expiring
<1>8. \A v \in Poller : Polling!Claimed(v)' = Polling!Claimed(v)
  BY <1>2 DEF Polling!Claimed
<1> QED BY <1>2, <1>3, <1>4, <1>5, <1>6, <1>7, <1>8 DEF ExpiryInv

LEMMA ExpiryStep ==
  ASSUME ListInv, ClaimsInv, SnapshotInv, TrackingInv, ExpiryInv, [Next]_vars
  PROVE  ExpiryInv'
<1>1. CASE UNCHANGED <<row, window, batch, work, chain, paidInTime>>
  BY <1>1 DEF ExpiryInv, Polling!Claimed
<1>2. ASSUME NEW w \in Poller, Polling!ClaimDue(w) PROVE ExpiryInv'
  <2>1. PICK S \in SUBSET {Receiver} :
          batch' = [batch EXCEPT ![w] =
            {[address |-> a, tracking |-> row[a], windowPassed |-> window[a] = 0] : a \in S}]
    BY <1>2 DEF Polling!ClaimDue, Polling!ClaimableRows
  <2> DEFINE Taken(a) == [address |-> a, tracking |-> row[a], windowPassed |-> window[a] = 0]
             C == {Taken(a) : a \in S}
  <2>2. \A c \in C : c.windowPassed => window[Receiver] = 0
    <3> SUFFICES ASSUME NEW a \in S, Taken(a).windowPassed PROVE window[Receiver] = 0
      OBVIOUS
    <3>1. a = Receiver /\ Taken(a).windowPassed = (window[a] = 0)
      OBVIOUS
    <3> QED BY <3>1
  <2> HIDE DEF C, Taken
  <2>3. batch' = [batch EXCEPT ![w] = C]
    BY <2>1 DEF C, Taken
  <2>4. UNCHANGED <<row, window, work, chain, paidInTime>>
    BY <1>2 DEF Polling!ClaimDue, Polling!envVars
  <2>5. \A v \in Poller : Polling!Claimed(v)' \subseteq Polling!Claimed(v) \cup C
    BY <2>3, <2>4 DEF Polling!Claimed, ClaimsInv
  <2> QED BY <2>2, <2>4, <2>5 DEF ExpiryInv
<1>3. ASSUME NEW w \in Poller, Polling!Abort(w) PROVE ExpiryInv'
  <2>1. /\ batch' = [batch EXCEPT ![w] = {}] /\ work' = [work EXCEPT ![w] = Idle]
        /\ UNCHANGED <<row, window, chain, paidInTime>>
    BY <1>3 DEF Polling!Abort, Polling!rowVars
  <2>2. \A v \in Poller : Polling!Claimed(v)' \subseteq Polling!Claimed(v)
                          /\ (work'[v] # Idle => work'[v] = work[v])
    BY <2>1 DEF Polling!Claimed, ClaimsInv
  <2> QED BY <2>1, <2>2 DEF ExpiryInv
<1>4. CASE Tick
  <2>1. /\ window' = [a \in {Receiver} |-> Polling!CountDown(window[a])]
        /\ UNCHANGED <<row, batch, work, chain, paidInTime>>
    BY <1>4 DEF Tick, Polling!Tick, Polling!envVars
  <2>2. window' \in [{Receiver} -> Nat] /\ (window[Receiver] = 0 => window'[Receiver] = 0)
    BY <2>1 DEF ExpiryInv, Polling!CountDown
  <2> QED BY <2>1, <2>2 DEF ExpiryInv, Polling!Claimed
<1>5. CASE ChainMoves
  BY <1>5, ChainKeepsExpiry DEF ChainMoves
<1>6. CASE (\E w \in Dispatcher : Send(w) \/ SenderDies(w)) \/ UNCHANGED vars
  BY <1>1, <1>6 DEF Send, SenderDies, pollVars, vars
<1>7. CASE \E w \in Poller : Poll(w) \/ Save(w) \/ PollDisturbed(w)
  BY <1>2, <1>3, <1>7, ObserveKeepsExpiry, SaveKeepsExpiry
  DEF Poll, Save, PollDisturbed, Polling!Save
<1> QED BY <1>4, <1>5, <1>6, <1>7 DEF Next

\* A merchant who is told that the payment expired was not paid in time, or no longer
\* holds what he was paid: never one who has held the amount since the window was open.
ToldExpiredIsLate == Heard = Polling!FailedExpired => ~paidInTime[Receiver]

\* From the chain to the merchant, through polls that fail, die and come late: nobody is
\* told that a payment expired which is there and came in time.
THEOREM NobodyIsToldTooSoon == Spec => []ToldExpiredIsLate
<1>1. ListInv /\ ClaimsInv /\ SnapshotInv /\ TrackingInv /\ ExpiryInv /\ [Next]_vars => ExpiryInv'
  BY ExpiryStep
<1>2. ExpiryInv /\ FinalNewsIsTrue => ToldExpiredIsLate
  BY DEF ExpiryInv, FinalNewsIsTrue, ToldExpiredIsLate, Polling!StatusAnswer
<1> QED
  BY <1>1, <1>2, ExpiryInit, TrackingHolds, MerchantMayActOnFinalNews, PTL DEF Spec
=============================================================================
