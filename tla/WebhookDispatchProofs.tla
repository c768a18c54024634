------------------------- MODULE WebhookDispatchProofs -------------------------
(***************************************************************************)
(* Proofs about WebhookDispatch, for any notifications, finitely many      *)
(* dispatchers and builds, and any configuration: what holds whatever      *)
(* happens first, then what holds as long as no cycle outlives its lease.  *)
(***************************************************************************)
EXTENDS WebhookDispatch, FiniteSetTheorems, TLAPS

(* The inductive invariants. *)

\* A row that may be tried again has tries left, and so had every claimed one, with
\* a row behind it.
AttemptsInv ==
  /\ \A n \in Notification :
       /\ status[n] = "absent" => attempts[n] = 0
       /\ status[n] = "pending" => attempts[n] < MaxAttempts
  /\ \A w \in Dispatcher : \A c \in Claimed(w) :
       c.attempts < MaxAttempts /\ status[c.id] # "absent"

\* Every failure a row counts, or a claim of it has counted or is about to, was a
\* post of its own, and a success was one the receiver took.
EarnedInv ==
  /\ ResultsAreEarned
  /\ \A w \in Dispatcher : \A c \in Claimed(w) : c.attempts <= posts[c.id]
  /\ \A w \in Dispatcher : sending[w] # Idle =>
       LET c == sending[w].claim IN
       c.attempts < posts[c.id] /\ (sending[w].ok => accepted[c.id])

\* While no cycle has outlived its lease, each row is claimed once, and its claim
\* says what the row says.
ClaimsHold ==
  /\ \A w \in Dispatcher : Busy(w) => age[w] < DispatchTTL
  /\ \A w \in Dispatcher : \A c, d \in Claimed(w) : c.id = d.id => c = d
  /\ \A w \in Dispatcher : sending[w] # Idle => sending[w].claim \notin batch[w]
  /\ \A w \in Dispatcher : \A c \in Claimed(w) :
       /\ lease[c.id] = DispatchTTL - age[w]
       /\ status[c.id] = "pending" /\ attempts[c.id] = c.attempts
  /\ \A v, w \in Dispatcher : v # w => \A c \in Claimed(v), d \in Claimed(w) : c.id # d.id

LeaseInv == overruns = 0 => ClaimsHold

\* A replaced dispatcher runs the new build, whole: it is not replaced again.
RolloutInv == \A w \in Replaced : \A n \in Notification : <<w, n>> \notin unknown

-----------------------------------------------------------------------------
(* What the steps of a cycle leave claimed. *)

\* The three ways a cycle ends early leave every row and every post alone.
Ends(w) == EndCycle(w) /\ UNCHANGED <<rowVars, history>>

\* A step, with the posts and the early ends of a cycle each taken together.
LEMMA Steps ==
  ASSUME [Next]_vars
  PROVE  \/ \E n \in Notification : EnqueueStatusChanged(n)
         \/ \E w \in Dispatcher : ClaimPending(w)
         \/ \E w \in Dispatcher : \E c \in batch[w] : \E received, ok \in BOOLEAN :
              (ok => received) /\ Post(w, c, received, ok)
         \/ \E w \in Dispatcher : SaveDeliveryResult(w)
         \/ \E w \in Dispatcher : Ends(w) /\ faults' = faults
         \/ \E w \in Dispatcher : Abort(w)
         \/ Tick
         \/ UNCHANGED vars
BY DEF Next, PostAccepted, PostRefused, AnswerLost, PolicyMissing, Upgrade, Ends

LEMMA PostEffects ==
  ASSUME TypeOK, NEW w \in Dispatcher, NEW c \in batch[w],
         NEW received \in BOOLEAN, NEW ok \in BOOLEAN, Post(w, c, received, ok)
  PROVE  /\ c \in Claimed(w) /\ c \in Claim /\ c.id \in Notification
         /\ sending[w] = Idle /\ [claim |-> c, ok |-> ok] # Idle
         /\ sending' = [sending EXCEPT ![w] = [claim |-> c, ok |-> ok]]
         /\ sending'[w] = [claim |-> c, ok |-> ok]
         /\ \A v \in Dispatcher \ {w} : sending'[v] = sending[v]
         /\ \A v \in Dispatcher : Claimed(v)' = Claimed(v)
         /\ \A v \in Dispatcher : batch'[v] = batch[v] \ (IF v = w THEN {c} ELSE {})
         /\ posts' = [posts EXCEPT ![c.id] = @ + 1]
         /\ accepted' = [accepted EXCEPT ![c.id] = @ \/ received]
<1>1. /\ sending \in [Dispatcher -> Posted \cup {Idle}] /\ batch \in [Dispatcher -> SUBSET Claim]
      /\ c \in Claim /\ c.id \in Notification
  BY DEF TypeOK, Claim
<1>2. /\ sending[w] = Idle /\ sending' = [sending EXCEPT ![w] = [claim |-> c, ok |-> ok]]
      /\ batch' = [batch EXCEPT ![w] = batch[w] \ {c}]
  BY DEF Post
<1>3. [claim |-> c, ok |-> ok] # Idle
  BY <1>1, IdleAssumption DEF Posted
<1>4. sending'[w] = [claim |-> c, ok |-> ok] /\ sending'[w].claim = c
  BY <1>1, <1>2
<1>5. \A v \in Dispatcher \ {w} : sending'[v] = sending[v] /\ batch'[v] = batch[v]
  BY <1>1, <1>2
<1>6. batch'[w] = batch[w] \ {c}
  BY <1>1, <1>2
<1>7. Claimed(w)' = Claimed(w)
  BY <1>2, <1>3, <1>4, <1>6 DEF Claimed
<1>8. \A v \in Dispatcher : Claimed(v)' = Claimed(v)
  BY <1>5, <1>7 DEF Claimed
<1> QED
  BY <1>1, <1>2, <1>3, <1>4, <1>5, <1>6, <1>8 DEF Post, Claimed

LEMMA EndEffects ==
  ASSUME TypeOK, NEW w \in Dispatcher, EndCycle(w)
  PROVE  /\ Claimed(w)' = {} /\ sending'[w] = Idle /\ batch'[w] = {} /\ age'[w] = 0
         /\ \A v \in Dispatcher \ {w} :
              /\ sending'[v] = sending[v] /\ batch'[v] = batch[v] /\ age'[v] = age[v]
              /\ Claimed(v)' = Claimed(v)
         /\ \A v \in Dispatcher : Claimed(v)' \subseteq Claimed(v)
<1>1. /\ sending'[w] = Idle /\ batch'[w] = {} /\ age'[w] = 0
      /\ \A v \in Dispatcher \ {w} :
           sending'[v] = sending[v] /\ batch'[v] = batch[v] /\ age'[v] = age[v]
  BY DEF EndCycle, TypeOK
<1> QED
  BY <1>1 DEF Claimed

LEMMA SaveEffects ==
  ASSUME TypeOK, NEW w \in Dispatcher, SaveDeliveryResult(w)
  PROVE  /\ sending[w] \in Posted /\ sending[w] # Idle
         /\ sending[w].claim \in Claimed(w) /\ sending[w].claim \in Claim
         /\ sending[w].claim.id \in Notification
         /\ sending' = [sending EXCEPT ![w] = Idle] /\ sending'[w] = Idle /\ batch' = batch
         /\ \A v \in Dispatcher \ {w} :
              sending'[v] = sending[v] /\ age'[v] = age[v] /\ Claimed(v)' = Claimed(v)
         /\ Claimed(w)' = batch[w] /\ (Claimed(w)' # {} => age'[w] = age[w])
         /\ \A v \in Dispatcher : Claimed(v)' \subseteq Claimed(v)
<1>1. sending[w] # Idle /\ sending' = [sending EXCEPT ![w] = Idle] /\ batch' = batch
  BY DEF SaveDeliveryResult
<1>2. sending[w] \in Posted
  BY <1>1 DEF TypeOK
<1>3. sending[w].claim \in Claim /\ sending[w].claim.id \in Notification
  BY <1>2 DEF Posted, Claim
<1>4. sending'[w] = Idle /\ \A v \in Dispatcher \ {w} : sending'[v] = sending[v]
  BY <1>1 DEF TypeOK
<1>5. \A v \in Dispatcher \ {w} : age'[v] = age[v]
  BY DEF SaveDeliveryResult, TypeOK
<1>6. batch[w] # {} => age'[w] = age[w]
  BY DEF SaveDeliveryResult, TypeOK
<1> QED
  BY <1>1, <1>2, <1>3, <1>4, <1>5, <1>6 DEF Claimed

RowAsClaimed(n) == [id |-> n, attempts |-> attempts[n]]

LEMMA ClaimEffects ==
  ASSUME TypeOK, NEW w \in Dispatcher, ClaimPending(w)
  PROVE  \E S \in SUBSET ClaimableRows :
           /\ Claimed(w)' = {RowAsClaimed(n) : n \in S}
           /\ batch'[w] = {RowAsClaimed(n) : n \in S}
           /\ lease' = [n \in Notification |-> IF n \in S THEN DispatchTTL ELSE lease[n]]
           /\ sending[w] = Idle /\ sending' = sending /\ age'[w] = 0
           /\ \A v \in Dispatcher \ {w} :
                Claimed(v)' = Claimed(v) /\ batch'[v] = batch[v] /\ age'[v] = age[v]
<1>1. PICK S \in SUBSET ClaimableRows :
        /\ lease' = [n \in Notification |-> IF n \in S THEN DispatchTTL ELSE lease[n]]
        /\ batch' = [batch EXCEPT ![w] = {RowAsClaimed(n) : n \in S}]
  BY DEF ClaimPending, RowAsClaimed
<1>2. sending[w] = Idle /\ sending' = sending
  BY DEF ClaimPending, Busy, Claimed
<1>3. /\ batch'[w] = {RowAsClaimed(n) : n \in S}
      /\ \A v \in Dispatcher \ {w} : batch'[v] = batch[v]
  BY <1>1 DEF TypeOK
<1>4. age'[w] = 0 /\ \A v \in Dispatcher \ {w} : age'[v] = age[v]
  BY DEF ClaimPending, TypeOK
<1> QED
  BY <1>1, <1>2, <1>3, <1>4 DEF Claimed

-----------------------------------------------------------------------------
(* Typing, and attempts *)

LEMMA TypingInit == Init => TypeOK /\ AttemptsInv
<1> SUFFICES ASSUME Init PROVE TypeOK /\ AttemptsInv
  OBVIOUS
<1>1. TypeOK
  BY ConstantsAssumption DEF Init, TypeOK, DispatcherConfig, Positive, DeliveryStatus
<1>2. \A w \in Dispatcher : Claimed(w) = {}
  BY DEF Init, Claimed
<1> QED
  BY <1>1, <1>2, ConstantsAssumption DEF Init, AttemptsInv, DispatcherConfig, Positive

\* The cycles whose lease ends with this tick.
Overrunning == {w \in Dispatcher : Busy(w) /\ age[w] + 1 = DispatchTTL}

LEMMA OverrunsCounted ==
  /\ Cardinality(Overrunning) \in Nat
  /\ Cardinality(Overrunning) = 0 => Overrunning = {}
<1>1. Overrunning \in SUBSET Dispatcher
  BY DEF Overrunning
<1>2. IsFiniteSet(Overrunning)
  BY <1>1, ConstantsAssumption, FS_Subset
<1> QED
  BY <1>2, FS_CardinalityType, FS_EmptySet

LEMMA TypingStep == TypeOK /\ AttemptsInv /\ [Next]_vars => TypeOK'
<1> SUFFICES ASSUME TypeOK, AttemptsInv, [Next]_vars PROVE TypeOK'
  OBVIOUS
<1>0. /\ BatchSize \in Nat /\ DispatchTTL \in Nat \ {0} /\ RetryDelay \in Nat \ {0}
      /\ MaxAttempts \in Nat \ {0} /\ MaxOverruns \in Nat /\ MaxFaults \in Nat
  BY ConstantsAssumption DEF DispatcherConfig, Positive
<1>1. ASSUME NEW n \in Notification, EnqueueStatusChanged(n) PROVE TypeOK'
  <2>1. status' \in [Notification -> DeliveryStatus]
    BY <1>1 DEF EnqueueStatusChanged, TypeOK, DeliveryStatus
  <2> QED
    BY <1>1, <2>1 DEF EnqueueStatusChanged, TypeOK, cycleVars, history
<1>2. ASSUME NEW w \in Dispatcher, ClaimPending(w) PROVE TypeOK'
  <2>1. PICK S \in SUBSET ClaimableRows :
          /\ batch'[w] = {RowAsClaimed(n) : n \in S}
          /\ lease' = [n \in Notification |-> IF n \in S THEN DispatchTTL ELSE lease[n]]
          /\ sending' = sending
          /\ \A v \in Dispatcher \ {w} : batch'[v] = batch[v]
    BY <1>2, ClaimEffects
  <2>2. \A n \in S : RowAsClaimed(n) \in Claim
    <3> SUFFICES ASSUME NEW n \in S PROVE RowAsClaimed(n) \in Claim
      OBVIOUS
    <3>1. n \in Notification /\ attempts[n] \in Nat
      BY <1>0 DEF ClaimableRows, TypeOK
    <3> QED
      BY <3>1 DEF RowAsClaimed, Claim
  <2>3. {RowAsClaimed(n) : n \in S} \subseteq Claim
    BY <2>2
  <2>4. batch' \in [Dispatcher -> SUBSET Claim]
    <3>1. \A v \in Dispatcher : batch'[v] \in SUBSET Claim
      BY <2>1, <2>3 DEF TypeOK
    <3>2. batch' = [v \in Dispatcher |-> batch'[v]]
      BY <1>2 DEF ClaimPending, TypeOK
    <3> QED
      BY <3>1, <3>2
  <2>5. lease' \in [Notification -> 0..DispatchTTL]
    BY <1>0, <2>1 DEF TypeOK
  <2>6. age' \in [Dispatcher -> 0..DispatchTTL]
    BY <1>0, <1>2 DEF ClaimPending, TypeOK
  <2> QED
    BY <1>2, <2>4, <2>5, <2>6 DEF ClaimPending, TypeOK, history
<1>3. ASSUME NEW w \in Dispatcher, NEW c \in batch[w],
             NEW received \in BOOLEAN, NEW ok \in BOOLEAN, Post(w, c, received, ok)
      PROVE  TypeOK'
  <2>1. /\ c \in Claim /\ c.id \in Notification
        /\ batch' = [batch EXCEPT ![w] = batch[w] \ {c}]
        /\ sending' = [sending EXCEPT ![w] = [claim |-> c, ok |-> ok]]
        /\ posts' = [posts EXCEPT ![c.id] = @ + 1]
        /\ accepted' = [accepted EXCEPT ![c.id] = @ \/ received]
    BY <1>3, PostEffects DEF Post
  <2>2. batch' \in [Dispatcher -> SUBSET Claim]
    BY <2>1 DEF TypeOK
  <2>3. sending' \in [Dispatcher -> Posted \cup {Idle}]
    BY <2>1 DEF TypeOK, Posted
  <2>4. posts' \in [Notification -> Nat]
    BY <2>1 DEF TypeOK
  <2>5. accepted' \in [Notification -> BOOLEAN]
    BY <2>1 DEF TypeOK
  <2> QED
    BY <1>3, <2>2, <2>3, <2>4, <2>5 DEF Post, TypeOK, rowVars
<1>4. ASSUME NEW w \in Dispatcher, SaveDeliveryResult(w) PROVE TypeOK'
  <2> DEFINE c == sending[w].claim
  <2>1. /\ c \in Claimed(w) /\ c \in Claim /\ c.id \in Notification
        /\ sending' = [sending EXCEPT ![w] = Idle] /\ batch' = batch
    BY <1>4, SaveEffects
  <2>2. c.attempts \in Nat /\ c.attempts < MaxAttempts
    BY <2>1 DEF AttemptsInv, Claim
  <2>3. status' \in [Notification -> DeliveryStatus]
    BY <1>4 DEF SaveDeliveryResult, SaveSent, SaveFailure, CountFailure, TypeOK, DeliveryStatus
  <2>4. attempts' \in [Notification -> 0..MaxAttempts]
    <3>1. attempts' = attempts \/ attempts' = [attempts EXCEPT ![c.id] = c.attempts + 1]
      BY <1>4 DEF SaveDeliveryResult, SaveSent, SaveFailure, CountFailure
    <3>2. c.attempts + 1 \in 0..MaxAttempts
      BY <1>0, <2>2
    <3> QED
      BY <3>1, <3>2 DEF TypeOK
  <2>5. due' \in [Notification -> 0..RetryDelay]
    BY <1>0, <1>4 DEF SaveDeliveryResult, SaveSent, SaveFailure, CountFailure, TypeOK
  <2>6. lease' \in [Notification -> 0..DispatchTTL]
    <3>1. lease' = [lease EXCEPT ![c.id] = 0]
      BY <1>4 DEF SaveDeliveryResult
    <3>2. lease \in [Notification -> 0..DispatchTTL] /\ 0 \in 0..DispatchTTL
      BY <1>0 DEF TypeOK
    <3> HIDE DEF c
    <3> QED
      BY <3>1, <3>2
  <2>7. sending' \in [Dispatcher -> Posted \cup {Idle}]
    BY <2>1 DEF TypeOK
  <2>8. age' \in [Dispatcher -> 0..DispatchTTL]
    BY <1>0, <1>4 DEF SaveDeliveryResult, TypeOK
  <2> QED
    BY <1>4, <2>1, <2>3, <2>4, <2>5, <2>6, <2>7, <2>8 DEF SaveDeliveryResult, TypeOK, history
<1>5. ASSUME NEW w \in Dispatcher, EndCycle(w), UNCHANGED <<rowVars, history>>,
             unknown' \subseteq unknown, faults' \in 0..MaxFaults
      PROVE  TypeOK'
  <2>1. /\ batch' \in [Dispatcher -> SUBSET Claim] /\ age' \in [Dispatcher -> 0..DispatchTTL]
        /\ sending' \in [Dispatcher -> Posted \cup {Idle}]
    BY <1>0, <1>5 DEF EndCycle, TypeOK
  <2> QED
    BY <1>5, <2>1 DEF TypeOK, rowVars, history
<1>6. CASE Tick
  <2>1. due' \in [Notification -> 0..RetryDelay]
    BY <1>0, <1>6 DEF Tick, CountDown, TypeOK
  <2>2. lease' \in [Notification -> 0..DispatchTTL]
    BY <1>0, <1>6 DEF Tick, CountDown, TypeOK
  <2>3. age' \in [Dispatcher -> 0..DispatchTTL]
    BY <1>0, <1>6 DEF Tick, TypeOK
  <2>4. overruns' \in 0..MaxOverruns
    BY <1>0, <1>6, OverrunsCounted DEF Tick, TypeOK, Overrunning
  <2> QED
    BY <1>6, <2>1, <2>2, <2>3, <2>4 DEF Tick, TypeOK
<1>7. CASE UNCHANGED vars
  BY <1>7 DEF vars, rowVars, cycleVars, history, TypeOK
<1>8. ASSUME NEW w \in Dispatcher, Abort(w) PROVE TypeOK'
  BY <1>0, <1>5, <1>8 DEF Abort, TypeOK
<1>9. ASSUME NEW w \in Dispatcher, NEW c \in batch[w], PolicyMissing(w, c) PROVE TypeOK'
  BY <1>5, <1>9 DEF PolicyMissing, TypeOK
<1>10. ASSUME NEW w \in Dispatcher, Upgrade(w) PROVE TypeOK'
  BY <1>5, <1>10 DEF Upgrade, TypeOK
<1> QED
  BY <1>1, <1>2, <1>3, <1>4, <1>6, <1>7, <1>8, <1>9, <1>10
  DEF Next, PostAccepted, PostRefused, AnswerLost

\* A save writes what its own claim says: sent, or one try more than at the claim.
LEMMA SaveWrites ==
  ASSUME TypeOK, AttemptsInv, NEW w \in Dispatcher, SaveDeliveryResult(w)
  PROVE  LET c == sending[w].claim IN
         /\ \A n \in Notification \ {c.id} :
              /\ status'[n] = status[n] /\ attempts'[n] = attempts[n]
              /\ due'[n] = due[n] /\ lease'[n] = lease[n]
         /\ lease'[c.id] = 0 /\ posts' = posts /\ accepted' = accepted /\ overruns' = overruns
         /\ \/ sending[w].ok /\ status'[c.id] = "sent" /\ attempts'[c.id] = attempts[c.id]
            \/ /\ ~sending[w].ok /\ attempts'[c.id] = c.attempts + 1
               /\ \/ status'[c.id] = "failed" /\ c.attempts + 1 = MaxAttempts
                  \/ status'[c.id] = "pending" /\ c.attempts + 1 < MaxAttempts
<1> DEFINE c == sending[w].claim
<1>1. c \in Claimed(w) /\ c \in Claim /\ c.id \in Notification
  BY SaveEffects
<1>2. c.attempts \in Nat /\ c.attempts < MaxAttempts /\ MaxAttempts \in Nat
  BY <1>1, ConstantsAssumption DEF AttemptsInv, Claim, DispatcherConfig, Positive
<1>3. /\ lease' = [lease EXCEPT ![c.id] = 0]
      /\ posts' = posts /\ accepted' = accepted /\ overruns' = overruns
  BY DEF SaveDeliveryResult, history
<1>4. CASE SaveSent(w)
  BY <1>1, <1>3, <1>4 DEF SaveSent, TypeOK
<1>5. CASE SaveFailure(w)
  <2>1. /\ ~sending[w].ok /\ attempts' = [attempts EXCEPT ![c.id] = c.attempts + 1]
        /\ \/ /\ c.attempts + 1 >= MaxAttempts
              /\ status' = [status EXCEPT ![c.id] = "failed"] /\ due' = due
           \/ /\ ~(c.attempts + 1 >= MaxAttempts)
              /\ status' = [status EXCEPT ![c.id] = "pending"]
              /\ due' = [due EXCEPT ![c.id] = RetryDelay]
    BY <1>5 DEF SaveFailure, CountFailure
  <2> HIDE DEF c
  <2>2. \A n \in Notification \ {c.id} :
           /\ status'[n] = status[n] /\ attempts'[n] = attempts[n]
           /\ due'[n] = due[n] /\ lease'[n] = lease[n]
    BY <1>3, <2>1 DEF TypeOK
  <2>3. lease'[c.id] = 0 /\ attempts'[c.id] = c.attempts + 1
    BY <1>1, <1>3, <2>1 DEF TypeOK
  <2>4. \/ status'[c.id] = "failed" /\ c.attempts + 1 = MaxAttempts
        \/ status'[c.id] = "pending" /\ c.attempts + 1 < MaxAttempts
    BY <1>1, <1>2, <2>1 DEF TypeOK
  <2> QED
    BY <1>3, <2>1, <2>2, <2>3, <2>4 DEF c
<1> QED
  BY <1>4, <1>5 DEF SaveDeliveryResult

LEMMA AttemptsStep == TypeOK /\ AttemptsInv /\ [Next]_vars => AttemptsInv'
<1> SUFFICES ASSUME TypeOK, AttemptsInv, [Next]_vars PROVE AttemptsInv'
  OBVIOUS
<1>0. /\ MaxAttempts \in Nat \ {0}
      /\ \A w \in Dispatcher : \A c \in Claimed(w) : c.id \in Notification /\ c.attempts \in Nat
  BY ConstantsAssumption DEF DispatcherConfig, Positive, TypeOK, Claimed, Posted, Claim
<1>1. ASSUME NEW n \in Notification, EnqueueStatusChanged(n) PROVE AttemptsInv'
  <2>1. \A w \in Dispatcher : Claimed(w)' = Claimed(w)
    BY <1>1 DEF EnqueueStatusChanged, cycleVars, Claimed
  <2>2. /\ attempts' = attempts /\ status[n] = "absent" /\ status'[n] = "pending"
        /\ \A m \in Notification \ {n} : status'[m] = status[m]
    BY <1>1 DEF EnqueueStatusChanged, TypeOK
  <2>3. \A m \in Notification :
          /\ status'[m] = "absent" => attempts'[m] = 0
          /\ status'[m] = "pending" => attempts'[m] < MaxAttempts
    BY <1>0, <2>2 DEF AttemptsInv
  <2>4. \A w \in Dispatcher : \A c \in Claimed(w) : c.attempts < MaxAttempts /\ status'[c.id] # "absent"
    BY <1>0, <2>2 DEF AttemptsInv
  <2> QED
    BY <2>1, <2>3, <2>4 DEF AttemptsInv
<1>2. ASSUME NEW w \in Dispatcher, ClaimPending(w) PROVE AttemptsInv'
  <2>1. PICK S \in SUBSET ClaimableRows :
          /\ Claimed(w)' = {RowAsClaimed(n) : n \in S}
          /\ \A v \in Dispatcher \ {w} : Claimed(v)' = Claimed(v)
    BY <1>2, ClaimEffects
  <2>2. status' = status /\ attempts' = attempts
    BY <1>2 DEF ClaimPending
  <2>3. \A c \in Claimed(w)' : c.attempts < MaxAttempts /\ status[c.id] # "absent"
    BY <2>1 DEF RowAsClaimed, ClaimableRows, AttemptsInv
  <2> QED
    BY <2>1, <2>2, <2>3 DEF AttemptsInv
<1>3. ASSUME NEW w \in Dispatcher, NEW c \in batch[w],
             NEW received \in BOOLEAN, NEW ok \in BOOLEAN, Post(w, c, received, ok)
      PROVE  AttemptsInv'
  <2>1. /\ \A v \in Dispatcher : Claimed(v)' = Claimed(v)
        /\ status' = status /\ attempts' = attempts
    BY <1>3, PostEffects DEF Post, rowVars
  <2> QED
    BY <2>1 DEF AttemptsInv
<1>4. ASSUME NEW w \in Dispatcher, SaveDeliveryResult(w) PROVE AttemptsInv'
  <2> DEFINE c == sending[w].claim
  <2>1. \A v \in Dispatcher : Claimed(v)' \subseteq Claimed(v)
    BY <1>4, SaveEffects
  <2>2. \A n \in Notification :
          \/ status'[n] = status[n] /\ attempts'[n] = attempts[n]
          \/ status'[n] \in {"sent", "failed"}
          \/ status'[n] = "pending" /\ attempts'[n] < MaxAttempts
    BY <1>4, SaveWrites
  <2> QED
    BY <1>0, <2>1, <2>2 DEF AttemptsInv
<1>5. ASSUME NEW w \in Dispatcher, Ends(w) PROVE AttemptsInv'
  <2>1. /\ \A v \in Dispatcher : Claimed(v)' \subseteq Claimed(v)
        /\ status' = status /\ attempts' = attempts
    BY <1>5, EndEffects DEF Ends, rowVars
  <2> QED
    BY <2>1 DEF AttemptsInv
<1>6. CASE Tick
  BY <1>6 DEF Tick, AttemptsInv, Claimed
<1>7. CASE UNCHANGED vars
  BY <1>7 DEF vars, rowVars, cycleVars, AttemptsInv, Claimed
<1>8. ASSUME NEW w \in Dispatcher, Abort(w) PROVE Ends(w)
  BY <1>8 DEF Abort, Ends
<1> QED
  BY <1>1, <1>2, <1>3, <1>4, <1>5, <1>6, <1>7, <1>8, Steps

\* Every variable keeps its type.  In particular attempts never pass the configured
\* maximum, even when the save of a cycle that overran its lease counts again.
THEOREM TypeCorrect == Spec => []TypeOK
<1>1. TypeOK /\ AttemptsInv /\ [Next]_vars => (TypeOK /\ AttemptsInv)'
  BY TypingStep, AttemptsStep
<1> QED
  BY <1>1, TypingInit, PTL DEF Spec

-----------------------------------------------------------------------------
(* Results are earned *)

\* What is said of a row and of the claims on it, row by row and claim by claim.
RowEarned(n) ==
  /\ status[n] = "sent" => accepted[n]
  /\ status[n] = "failed" => attempts[n] = MaxAttempts /\ posts[n] >= MaxAttempts
  /\ attempts[n] <= posts[n]
ClaimEarned(c) == c.attempts <= posts[c.id]
SendingEarned(w) ==
  sending[w] # Idle =>
    LET c == sending[w].claim IN
    c.attempts < posts[c.id] /\ (sending[w].ok => accepted[c.id])

LEMMA EarnedParts ==
  EarnedInv <=> /\ \A n \in Notification : RowEarned(n)
                /\ \A w \in Dispatcher : \A c \in Claimed(w) : ClaimEarned(c)
                /\ \A w \in Dispatcher : SendingEarned(w)
BY DEF EarnedInv, ResultsAreEarned, RowEarned, ClaimEarned, SendingEarned

LEMMA EarnedInit == Init => EarnedInv
<1> SUFFICES ASSUME Init PROVE EarnedInv
  OBVIOUS
<1>1. \A w \in Dispatcher : Claimed(w) = {} /\ sending[w] = Idle
  BY DEF Init, Claimed
<1> QED
  BY <1>1 DEF Init, EarnedInv, ResultsAreEarned

\* Attempts of a row whose posts only grow stay earned.
LEMMA EarnedStep == TypeOK /\ AttemptsInv /\ EarnedInv /\ [Next]_vars => EarnedInv'
<1> SUFFICES ASSUME TypeOK, AttemptsInv, EarnedInv, [Next]_vars PROVE EarnedInv'
  OBVIOUS
<1>0. /\ MaxAttempts \in Nat \ {0}
      /\ posts \in [Notification -> Nat] /\ attempts \in [Notification -> 0..MaxAttempts]
      /\ \A w \in Dispatcher : \A c \in Claimed(w) : c.id \in Notification /\ c.attempts \in Nat
      /\ \A w \in Dispatcher : sending[w] # Idle => sending[w].claim \in Claimed(w)
  BY ConstantsAssumption DEF DispatcherConfig, Positive, TypeOK, Claimed, Posted, Claim
<1>1. ASSUME NEW n \in Notification, EnqueueStatusChanged(n) PROVE EarnedInv'
  <2>1. /\ \A w \in Dispatcher : Claimed(w)' = Claimed(w)
        /\ sending' = sending /\ posts' = posts /\ accepted' = accepted /\ attempts' = attempts
        /\ \A m \in Notification : status'[m] = status[m] \/ status'[m] = "pending"
    BY <1>1 DEF EnqueueStatusChanged, cycleVars, history, Claimed, TypeOK
  <2> QED
    BY <2>1 DEF EarnedInv, ResultsAreEarned
<1>2. ASSUME NEW w \in Dispatcher, ClaimPending(w) PROVE EarnedInv'
  <2>1. PICK S \in SUBSET ClaimableRows :
          /\ Claimed(w)' = {RowAsClaimed(n) : n \in S}
          /\ sending' = sending
          /\ \A v \in Dispatcher \ {w} : Claimed(v)' = Claimed(v)
    BY <1>2, ClaimEffects
  <2>2. status' = status /\ attempts' = attempts /\ posts' = posts /\ accepted' = accepted
    BY <1>2 DEF ClaimPending, history
  <2>3. \A c \in Claimed(w)' : c.attempts <= posts[c.id]
    BY <2>1 DEF RowAsClaimed, ClaimableRows, EarnedInv, ResultsAreEarned
  <2> QED
    BY <2>1, <2>2, <2>3 DEF EarnedInv, ResultsAreEarned
<1>3. ASSUME NEW w \in Dispatcher, NEW c \in batch[w],
             NEW received \in BOOLEAN, NEW ok \in BOOLEAN, ok => received, Post(w, c, received, ok)
      PROVE  EarnedInv'
  <2>1. /\ c \in Claimed(w) /\ c.id \in Notification /\ c.attempts \in Nat
        /\ sending'[w] = [claim |-> c, ok |-> ok]
        /\ \A v \in Dispatcher \ {w} : sending'[v] = sending[v]
        /\ \A v \in Dispatcher : Claimed(v)' = Claimed(v)
        /\ posts' = [posts EXCEPT ![c.id] = @ + 1]
        /\ accepted' = [accepted EXCEPT ![c.id] = @ \/ received]
    BY <1>3, PostEffects DEF Claim
  <2>2. status' = status /\ attempts' = attempts
    BY <1>3 DEF Post, rowVars
  <2>3. \A n \in Notification : posts[n] \in Nat /\ posts'[n] \in Nat /\ posts[n] <= posts'[n]
    BY <1>0, <2>1
  <2>4. \A n \in Notification : accepted[n] => accepted'[n]
    BY <2>1 DEF TypeOK
  <2>5. posts'[c.id] = posts[c.id] + 1 /\ (received => accepted'[c.id])
    BY <1>0, <2>1 DEF TypeOK
  <2>6. \A n \in Notification : RowEarned(n)'
    BY <1>0, <2>2, <2>3, <2>4, EarnedParts DEF RowEarned
  <2>7. \A v \in Dispatcher : \A d \in Claimed(v)' : ClaimEarned(d)'
    BY <1>0, <2>1, <2>3, EarnedParts DEF ClaimEarned
  <2>8. SendingEarned(w)'
    <3>1. c.attempts <= posts[c.id] /\ posts[c.id] \in Nat
      BY <1>0, <2>1, EarnedParts DEF ClaimEarned
    <3> QED
      BY <1>3, <2>1, <2>5, <3>1 DEF SendingEarned
  <2>9. ASSUME NEW v \in Dispatcher \ {w} PROVE SendingEarned(v)'
    <3>1. SendingEarned(v)
      BY EarnedParts
    <3> QED
      BY <1>0, <2>1, <2>3, <2>4, <3>1 DEF SendingEarned
  <2> QED
    BY <2>6, <2>7, <2>8, <2>9 DEF EarnedInv, ResultsAreEarned, RowEarned, ClaimEarned, SendingEarned
<1>4. ASSUME NEW w \in Dispatcher, SaveDeliveryResult(w) PROVE EarnedInv'
  <2>0. PICK c \in Claim : c = sending[w].claim
    BY <1>4, SaveEffects
  <2>1. /\ c.id \in Notification /\ c \in Claimed(w) /\ c.attempts \in Nat
        /\ sending[w] # Idle /\ sending'[w] = Idle
        /\ \A v \in Dispatcher \ {w} : sending'[v] = sending[v]
        /\ \A v \in Dispatcher : Claimed(v)' \subseteq Claimed(v)
    BY <1>4, <2>0, SaveEffects DEF Claim
  <2>2. /\ posts' = posts /\ accepted' = accepted
        /\ \A n \in Notification \ {c.id} : status'[n] = status[n] /\ attempts'[n] = attempts[n]
        /\ \/ sending[w].ok /\ status'[c.id] = "sent" /\ attempts'[c.id] = attempts[c.id]
           \/ /\ attempts'[c.id] = c.attempts + 1
              /\ \/ status'[c.id] = "failed" /\ c.attempts + 1 = MaxAttempts
                 \/ status'[c.id] = "pending"
    BY <1>4, <2>0, SaveWrites
  <2>3. c.attempts < posts[c.id] /\ (sending[w].ok => accepted[c.id]) /\ posts[c.id] \in Nat
    BY <1>0, <2>0, <2>1 DEF EarnedInv
  <2>4. RowEarned(c.id)'
    <3>1. RowEarned(c.id) /\ attempts[c.id] \in Nat
      BY <1>0, <2>1, EarnedParts
    <3>2. CASE status'[c.id] = "sent"
      BY <1>0, <2>2, <2>3, <3>1, <3>2 DEF RowEarned
    <3>3. CASE status'[c.id] # "sent"
      BY <1>0, <2>1, <2>2, <2>3, <3>3 DEF RowEarned
    <3> QED
      BY <3>2, <3>3
  <2>5. \A n \in Notification \ {c.id} : RowEarned(n)'
    BY <2>2, EarnedParts DEF RowEarned
  <2>6. \A v \in Dispatcher : \A d \in Claimed(v)' : ClaimEarned(d)'
    BY <2>1, <2>2, EarnedParts DEF ClaimEarned
  <2>7. \A v \in Dispatcher : SendingEarned(v)'
    BY <2>1, <2>2, EarnedParts DEF SendingEarned
  <2>8. \A n \in Notification : RowEarned(n)'
    BY <2>4, <2>5
  <2> QED
    BY <2>6, <2>7, <2>8 DEF EarnedInv, ResultsAreEarned, RowEarned, ClaimEarned, SendingEarned
<1>5. ASSUME NEW w \in Dispatcher, Ends(w) PROVE EarnedInv'
  <2>1. /\ \A v \in Dispatcher : Claimed(v)' \subseteq Claimed(v)
        /\ \A v \in Dispatcher : sending'[v] = Idle \/ sending'[v] = sending[v]
        /\ status' = status /\ attempts' = attempts /\ posts' = posts /\ accepted' = accepted
    BY <1>5, EndEffects DEF Ends, rowVars, history
  <2> QED
    BY <2>1 DEF EarnedInv, ResultsAreEarned
<1>6. CASE Tick
  BY <1>6 DEF Tick, EarnedInv, ResultsAreEarned, Claimed
<1>7. CASE UNCHANGED vars
  BY <1>7 DEF vars, rowVars, cycleVars, history, EarnedInv, ResultsAreEarned, Claimed
<1>8. ASSUME NEW w \in Dispatcher, Abort(w) PROVE Ends(w)
  BY <1>8 DEF Abort, Ends
<1> QED
  BY <1>1, <1>2, <1>3, <1>4, <1>5, <1>6, <1>7, <1>8, Steps

\* A row is reported sent only if the receiver took it, and given up only after
\* MaxAttempts posts, however many dispatchers died or overran their lease on it.
THEOREM ResultsEarned == Spec => []ResultsAreEarned
<1>1. Init => TypeOK /\ AttemptsInv /\ EarnedInv
  BY TypingInit, EarnedInit
<1>2. TypeOK /\ AttemptsInv /\ EarnedInv /\ [Next]_vars => (TypeOK /\ AttemptsInv /\ EarnedInv)'
  BY TypingStep, AttemptsStep, EarnedStep
<1>3. EarnedInv => ResultsAreEarned
  BY DEF EarnedInv
<1> QED
  BY <1>1, <1>2, <1>3, PTL DEF Spec

-----------------------------------------------------------------------------
(* As long as no cycle outlives its lease *)

\* What is said of one claim.
ClaimCurrent(w, c) ==
  /\ lease[c.id] = DispatchTTL - age[w]
  /\ status[c.id] = "pending" /\ attempts[c.id] = c.attempts

LEMMA LeaseInit == Init => LeaseInv
<1> SUFFICES ASSUME Init PROVE LeaseInv
  OBVIOUS
<1>1. \A w \in Dispatcher : Claimed(w) = {} /\ sending[w] = Idle
  BY DEF Init, Claimed
<1> QED
  BY <1>1 DEF LeaseInv, ClaimsHold, Busy

LEMMA NoOverrunBefore == TypeOK /\ [Next]_vars /\ overruns' = 0 => overruns = 0
<1> SUFFICES ASSUME TypeOK, [Next]_vars, overruns' = 0 PROVE overruns = 0
  OBVIOUS
<1>1. ASSUME Tick PROVE overruns = 0
  <2>1. overruns \in Nat /\ Cardinality(Overrunning) \in Nat
    BY OverrunsCounted, ConstantsAssumption DEF TypeOK
  <2> QED
    BY <1>1, <2>1 DEF Tick, Overrunning
<1> QED
  BY <1>1, Steps DEF EnqueueStatusChanged, ClaimPending, Post, SaveDeliveryResult, Ends, Abort, vars,
    history

LEMMA LeaseStep == TypeOK /\ AttemptsInv /\ LeaseInv /\ [Next]_vars => LeaseInv'
<1> SUFFICES ASSUME TypeOK, AttemptsInv, LeaseInv, [Next]_vars, overruns' = 0 PROVE ClaimsHold'
  BY DEF LeaseInv
<1>0. /\ DispatchTTL \in Nat \ {0} /\ age \in [Dispatcher -> 0..DispatchTTL]
      /\ lease \in [Notification -> 0..DispatchTTL]
      /\ status \in [Notification -> DeliveryStatus]
      /\ \A w \in Dispatcher : batch[w] \subseteq Claimed(w)
      /\ \A w \in Dispatcher : \A c \in Claimed(w) :
           c.id \in Notification /\ c.attempts \in Nat /\ status[c.id] # "absent"
      /\ \A w \in Dispatcher : sending[w] # Idle => sending[w].claim \in Claimed(w)
  BY ConstantsAssumption
  DEF DispatcherConfig, Positive, TypeOK, Claimed, Posted, Claim, AttemptsInv
<1>9. ClaimsHold
  BY NoOverrunBefore DEF LeaseInv
<1>1. ASSUME NEW n \in Notification, EnqueueStatusChanged(n) PROVE ClaimsHold'
  <2>1. /\ \A w \in Dispatcher : Claimed(w)' = Claimed(w)
        /\ batch' = batch /\ sending' = sending /\ age' = age /\ lease' = lease /\ attempts' = attempts
        /\ \A m \in Notification : m # n => status'[m] = status[m]
        /\ status[n] = "absent"
    BY <1>1 DEF EnqueueStatusChanged, cycleVars, Claimed, TypeOK
  <2>2. \A w \in Dispatcher : \A c \in Claimed(w) : status'[c.id] = status[c.id]
    BY <1>0, <2>1
  <2> QED
    BY <1>9, <2>1, <2>2 DEF ClaimsHold, Busy
<1>2. ASSUME NEW w \in Dispatcher, ClaimPending(w) PROVE ClaimsHold'
  <2>1. PICK S \in SUBSET ClaimableRows :
           /\ Claimed(w)' = {RowAsClaimed(n) : n \in S}
           /\ batch'[w] = {RowAsClaimed(n) : n \in S}
           /\ lease' = [n \in Notification |-> IF n \in S THEN DispatchTTL ELSE lease[n]]
           /\ sending[w] = Idle /\ sending' = sending /\ age'[w] = 0
           /\ \A v \in Dispatcher \ {w} :
                Claimed(v)' = Claimed(v) /\ batch'[v] = batch[v] /\ age'[v] = age[v]
    BY <1>2, ClaimEffects
  <2>2. status' = status /\ attempts' = attempts
    BY <1>2 DEF ClaimPending
  <2>3. \A n \in S : n \in Notification /\ lease[n] = 0 /\ lease'[n] = DispatchTTL /\ status[n] = "pending"
    BY <2>1 DEF ClaimableRows
  <2>4. \A c \in Claimed(w)' : c.id \in S /\ c = RowAsClaimed(c.id) /\ attempts[c.id] = c.attempts
    BY <2>1 DEF RowAsClaimed
  <2>5. ASSUME NEW v \in Dispatcher \ {w}, NEW d \in Claimed(v)
        PROVE  /\ d.id \notin S /\ lease'[d.id] = DispatchTTL - age[v]
               /\ status[d.id] = "pending" /\ attempts[d.id] = d.attempts
    <3>1. /\ lease[d.id] = DispatchTTL - age[v] /\ age[v] < DispatchTTL /\ age[v] \in Nat
          /\ d.id \in Notification
          /\ status[d.id] = "pending" /\ attempts[d.id] = d.attempts
      BY <1>0, <1>9 DEF ClaimsHold, Busy
    <3>2. d.id \notin S
      BY <1>0, <2>3, <3>1
    <3> QED
      BY <2>1, <3>1, <3>2
  <2>6. \A v \in Dispatcher : Busy(v)' => age'[v] < DispatchTTL
    BY <1>0, <1>9, <2>1 DEF ClaimsHold, Busy
  <2>7. \A v \in Dispatcher : \A c, d \in Claimed(v)' : c.id = d.id => c = d
    BY <1>9, <2>1, <2>4 DEF ClaimsHold
  <2>8. \A v \in Dispatcher : sending'[v] # Idle => sending'[v].claim \notin batch'[v]
    BY <1>9, <2>1 DEF ClaimsHold
  <2>9. \A v \in Dispatcher : \A c \in Claimed(v)' :
          /\ lease'[c.id] = DispatchTTL - age'[v]
          /\ status'[c.id] = "pending" /\ attempts'[c.id] = c.attempts
    <3>1. ASSUME NEW c \in Claimed(w)'
          PROVE  /\ lease'[c.id] = DispatchTTL - age'[w]
                 /\ status'[c.id] = "pending" /\ attempts'[c.id] = c.attempts
      <4>1. c.id \in S /\ attempts[c.id] = c.attempts
        BY <2>4
      <4>2. lease'[c.id] = DispatchTTL /\ status[c.id] = "pending"
        BY <2>3, <4>1
      <4>3. DispatchTTL = DispatchTTL - age'[w]
        BY <1>0, <2>1
      <4> QED
        BY <2>2, <4>1, <4>2, <4>3
    <3>2. ASSUME NEW v \in Dispatcher \ {w}, NEW c \in Claimed(v)'
          PROVE  /\ lease'[c.id] = DispatchTTL - age'[v]
                 /\ status'[c.id] = "pending" /\ attempts'[c.id] = c.attempts
      BY <2>1, <2>2, <2>5
    <3> QED
      BY <3>1, <3>2
  <2>10. \A u, v \in Dispatcher : u # v => \A c \in Claimed(u)', d \in Claimed(v)' : c.id # d.id
    BY <1>9, <2>1, <2>4, <2>5 DEF ClaimsHold
  <2> QED
    BY <2>6, <2>7, <2>8, <2>9, <2>10 DEF ClaimsHold
<1>3. ASSUME NEW w \in Dispatcher, NEW c \in batch[w],
             NEW received \in BOOLEAN, NEW ok \in BOOLEAN, Post(w, c, received, ok)
      PROVE  ClaimsHold'
  <2>1. /\ sending'[w] = [claim |-> c, ok |-> ok]
        /\ \A v \in Dispatcher \ {w} : sending'[v] = sending[v]
        /\ \A v \in Dispatcher : Claimed(v)' = Claimed(v)
        /\ \A v \in Dispatcher : batch'[v] = batch[v] \ (IF v = w THEN {c} ELSE {})
        /\ age' = age /\ lease' = lease /\ status' = status /\ attempts' = attempts
    BY <1>3, PostEffects DEF Post, rowVars
  <2>2. \A v \in Dispatcher : sending'[v] # Idle => sending'[v].claim \notin batch'[v]
    BY <1>9, <2>1 DEF ClaimsHold
  <2> QED
    BY <1>9, <2>1, <2>2 DEF ClaimsHold, Busy
<1>4. ASSUME NEW w \in Dispatcher, SaveDeliveryResult(w) PROVE ClaimsHold'
  <2>0. PICK c \in Claim : c = sending[w].claim
    BY <1>4, SaveEffects
  <2>1. /\ c \in Claimed(w) /\ c.id \in Notification /\ c \notin batch[w]
        /\ sending'[w] = Idle /\ batch' = batch
        /\ \A v \in Dispatcher \ {w} :
             sending'[v] = sending[v] /\ age'[v] = age[v] /\ Claimed(v)' = Claimed(v)
        /\ Claimed(w)' = batch[w] /\ (Claimed(w)' # {} => age'[w] = age[w])
        /\ \A v \in Dispatcher : Claimed(v)' \subseteq Claimed(v)
    BY <1>4, <1>9, <2>0, SaveEffects DEF ClaimsHold
  <2>2. \A n \in Notification \ {c.id} :
          status'[n] = status[n] /\ attempts'[n] = attempts[n] /\ lease'[n] = lease[n]
    BY <1>4, <2>0, SaveWrites
  <2>3. \A v \in Dispatcher : \A d \in Claimed(v)' :
          /\ d \in Claimed(v) /\ age'[v] = age[v] /\ d.id \in Notification /\ d.id # c.id
    <3>1. \A d \in Claimed(w)' : d.id # c.id
      BY <1>0, <1>9, <2>1 DEF ClaimsHold
    <3>2. \A v \in Dispatcher \ {w} : \A d \in Claimed(v)' : d.id # c.id
      BY <1>9, <2>1 DEF ClaimsHold
    <3> QED
      BY <1>0, <2>1, <3>1, <3>2
  <2>4. \A v \in Dispatcher : Busy(v)' => age'[v] < DispatchTTL
    BY <1>9, <2>1 DEF ClaimsHold, Busy
  <2>5. \A v \in Dispatcher : \A d \in Claimed(v)' :
          /\ lease'[d.id] = DispatchTTL - age'[v]
          /\ status'[d.id] = "pending" /\ attempts'[d.id] = d.attempts
    BY <1>9, <2>2, <2>3 DEF ClaimsHold
  <2>6. \A v \in Dispatcher : sending'[v] # Idle => sending'[v].claim \notin batch'[v]
    BY <1>9, <2>1 DEF ClaimsHold
  <2> QED
    BY <1>9, <2>1, <2>4, <2>5, <2>6 DEF ClaimsHold
<1>5. ASSUME NEW w \in Dispatcher, Ends(w) PROVE ClaimsHold'
  <2>1. /\ Claimed(w)' = {} /\ sending'[w] = Idle
        /\ \A v \in Dispatcher \ {w} :
             /\ sending'[v] = sending[v] /\ batch'[v] = batch[v] /\ age'[v] = age[v]
             /\ Claimed(v)' = Claimed(v)
        /\ status' = status /\ attempts' = attempts /\ lease' = lease
    BY <1>5, EndEffects DEF Ends, rowVars
  <2>2. \A v \in Dispatcher : \A c \in Claimed(v)' : v # w /\ c \in Claimed(v) /\ age'[v] = age[v]
    BY <2>1
  <2> QED
    BY <1>9, <2>1, <2>2 DEF ClaimsHold, Busy
<1>6. CASE Tick
  <2>1. /\ \A v \in Dispatcher : Claimed(v)' = Claimed(v)
        /\ batch' = batch /\ sending' = sending /\ status' = status /\ attempts' = attempts
    BY <1>6 DEF Tick, Claimed
  <2>2. Overrunning = {}
    <3>1. overruns \in Nat /\ overruns' = overruns + Cardinality(Overrunning)
      BY <1>6, ConstantsAssumption DEF Tick, Overrunning, TypeOK
    <3> QED
      BY <3>1, OverrunsCounted
  <2>3. \A v \in Dispatcher : Busy(v) =>
          age[v] \in Nat /\ age[v] + 1 < DispatchTTL /\ age'[v] = age[v] + 1
    <3> SUFFICES ASSUME NEW v \in Dispatcher, Busy(v)
                 PROVE  age[v] \in Nat /\ age[v] + 1 < DispatchTTL /\ age'[v] = age[v] + 1
      OBVIOUS
    <3>1. age[v] \in Nat /\ age[v] < DispatchTTL
      BY <1>0, <1>9 DEF ClaimsHold
    <3>2. age[v] + 1 # DispatchTTL
      BY <2>2 DEF Overrunning
    <3>3. age'[v] = age[v] + 1
      BY <1>6, <3>1 DEF Tick
    <3> QED
      BY <1>0, <3>1, <3>2, <3>3
  <2>4. ASSUME NEW v \in Dispatcher, NEW c \in Claimed(v)
        PROVE  lease'[c.id] = DispatchTTL - age'[v]
    <3>1. c.id \in Notification /\ lease[c.id] = DispatchTTL - age[v] /\ Busy(v)
      BY <1>0, <1>9 DEF ClaimsHold, Busy
    <3>2. lease'[c.id] = CountDown(lease[c.id])
      BY <1>6, <3>1 DEF Tick
    <3> QED
      BY <1>0, <2>3, <3>1, <3>2 DEF CountDown
  <2> QED
    BY <1>9, <2>1, <2>3, <2>4 DEF ClaimsHold, Busy
<1>7. CASE UNCHANGED vars
  BY <1>7, <1>9 DEF vars, rowVars, cycleVars, ClaimsHold, Busy, Claimed
<1>8. ASSUME NEW w \in Dispatcher, Abort(w) PROVE Ends(w)
  BY <1>8 DEF Abort, Ends
<1> QED
  BY <1>1, <1>2, <1>3, <1>4, <1>5, <1>6, <1>7, <1>8, Steps

LEMMA LeasesHold == Spec => [](TypeOK /\ AttemptsInv /\ LeaseInv)
<1>1. Init => TypeOK /\ AttemptsInv /\ LeaseInv
  BY TypingInit, LeaseInit
<1>2. TypeOK /\ AttemptsInv /\ LeaseInv /\ [Next]_vars => (TypeOK /\ AttemptsInv /\ LeaseInv)'
  BY TypingStep, AttemptsStep, LeaseStep
<1> QED
  BY <1>1, <1>2, PTL DEF Spec

\* A lease keeps its row to one dispatcher as long as no cycle outlives the lease it took.
THEOREM OneDispatcher == Spec => []OneDispatcherPerRow
<1>1. LeaseInv => OneDispatcherPerRow
  BY DEF LeaseInv, ClaimsHold, OneDispatcherPerRow
<1> QED
  BY <1>1, LeasesHold, PTL

\* Until then, what is delivered or given up is final: only pending rows are claimed,
\* posted and saved.
THEOREM ResultsFinal == Spec => ResultsAreFinal
<1>1. ASSUME TypeOK, AttemptsInv, LeaseInv, [Next]_vars, overruns' = 0,
             NEW n \in Notification, status[n] \in {"sent", "failed"}
      PROVE  status'[n] = status[n] /\ posts'[n] = posts[n]
  <2>0. ClaimsHold
    BY <1>1, NoOverrunBefore DEF LeaseInv
  <2>1. ASSUME NEW w \in Dispatcher, NEW c \in batch[w],
               NEW received \in BOOLEAN, NEW ok \in BOOLEAN, Post(w, c, received, ok)
        PROVE  status'[n] = status[n] /\ posts'[n] = posts[n]
    <3>1. /\ c \in Claimed(w) /\ posts' = [posts EXCEPT ![c.id] = @ + 1] /\ status' = status
      BY <1>1, <2>1, PostEffects DEF Post, rowVars
    <3>2. n # c.id
      BY <1>1, <2>0, <3>1 DEF ClaimsHold
    <3> QED
      BY <1>1, <3>1, <3>2 DEF TypeOK
  <2>2. ASSUME NEW w \in Dispatcher, SaveDeliveryResult(w)
        PROVE  status'[n] = status[n] /\ posts'[n] = posts[n]
    <3>1. sending[w].claim \in Claimed(w)
      BY <1>1, <2>2, SaveEffects
    <3>2. n # sending[w].claim.id
      BY <1>1, <2>0, <3>1 DEF ClaimsHold
    <3> QED
      BY <1>1, <2>2, <3>2, SaveWrites
  <2>3. ASSUME NEW m \in Notification, EnqueueStatusChanged(m)
        PROVE  status'[n] = status[n] /\ posts'[n] = posts[n]
    BY <1>1, <2>3 DEF EnqueueStatusChanged, TypeOK, history
  <2> QED
    BY <1>1, <2>1, <2>2, <2>3, Steps
    DEF ClaimPending, Ends, Abort, Tick, vars, rowVars, history
<1>2. TypeOK /\ AttemptsInv /\ LeaseInv /\ [Next]_vars =>
        [overruns' = 0 => \A n \in Notification : status[n] \in {"sent", "failed"} =>
           status'[n] = status[n] /\ posts'[n] = posts[n]]_vars
  BY <1>1
<1> QED
  BY <1>2, LeasesHold, PTL DEF Spec, ResultsAreFinal

\* Each result that is saved settles its row or counts one try more, and none is
\* forgotten.
TriesAreCounted ==
  [][overruns' = 0 => \A n \in Notification :
       /\ attempts'[n] \in {attempts[n], attempts[n] + 1}
       /\ \A w \in Dispatcher : SaveDeliveryResult(w) /\ sending[w].claim.id = n =>
            status'[n] \in {"sent", "failed"} \/ attempts'[n] = attempts[n] + 1]_vars

\* Why EveryNotificationSettles, but for fairness: until a cycle outlives its lease, no
\* stale result takes a row back to fewer tries, so at most MaxAttempts results are saved
\* of it before it is settled.
THEOREM TriesCounted == Spec => TriesAreCounted
<1>1. ASSUME TypeOK, AttemptsInv, LeaseInv, [Next]_vars, overruns' = 0, NEW n \in Notification
      PROVE  /\ attempts'[n] \in {attempts[n], attempts[n] + 1}
             /\ \A w \in Dispatcher : SaveDeliveryResult(w) /\ sending[w].claim.id = n =>
                  status'[n] \in {"sent", "failed"} \/ attempts'[n] = attempts[n] + 1
  <2>0. ClaimsHold
    BY <1>1, NoOverrunBefore DEF LeaseInv
  <2>1. ASSUME NEW w \in Dispatcher, SaveDeliveryResult(w)
        PROVE  /\ attempts'[n] \in {attempts[n], attempts[n] + 1}
               /\ sending[w].claim.id = n =>
                    status'[n] \in {"sent", "failed"} \/ attempts'[n] = attempts[n] + 1
    <3>1. PICK c : c = sending[w].claim
      OBVIOUS
    <3>2. c \in Claimed(w) /\ attempts[c.id] = c.attempts
      BY <1>1, <2>0, <2>1, <3>1, SaveEffects DEF ClaimsHold
    <3>3. CASE n = c.id
      BY <1>1, <2>1, <3>1, <3>2, <3>3, SaveWrites
    <3>4. CASE n # c.id
      BY <1>1, <2>1, <3>1, <3>4, SaveWrites
    <3> QED BY <3>3, <3>4
  <2>2. (\E w \in Dispatcher : SaveDeliveryResult(w)) \/ attempts' = attempts
    BY <1>1, Steps
    DEF EnqueueStatusChanged, ClaimPending, Post, Ends, Abort, Tick, vars, rowVars
  <2> QED BY <2>1, <2>2
<1>2. TypeOK /\ AttemptsInv /\ LeaseInv /\ [Next]_vars =>
        [overruns' = 0 => \A n \in Notification :
           /\ attempts'[n] \in {attempts[n], attempts[n] + 1}
           /\ \A w \in Dispatcher : SaveDeliveryResult(w) /\ sending[w].claim.id = n =>
                status'[n] \in {"sent", "failed"} \/ attempts'[n] = attempts[n] + 1]_vars
  BY <1>1
<1> QED
  BY <1>2, LeasesHold, PTL DEF Spec, TriesAreCounted

-----------------------------------------------------------------------------
(* How often a receiver sees a notification *)

LEMMA Counting ==
  /\ IsFiniteSet(Replaced) /\ Cardinality(Replaced) \in Nat
  /\ \A n \in Notification : IsFiniteSet(InFlight(n)) /\ Cardinality(InFlight(n)) \in Nat
<1>1. Replaced \in SUBSET Dispatcher /\ \A n \in Notification : InFlight(n) \in SUBSET Dispatcher
  BY DEF Replaced, InFlight
<1>2. \A T \in SUBSET Dispatcher : IsFiniteSet(T)
  BY ConstantsAssumption, FS_Subset
<1> QED
  BY <1>1, <1>2, FS_CardinalityType

\* A set that gains or loses an element it had not or had.
LEMMA OneMore ==
  ASSUME NEW S, IsFiniteSet(S), NEW x, x \notin S
  PROVE  Cardinality(S \cup {x}) = Cardinality(S) + 1
BY FS_AddElement

LEMMA OneLess ==
  ASSUME NEW S, IsFiniteSet(S), NEW x
  PROVE  Cardinality(S \ {x}) = Cardinality(S) - (IF x \in S THEN 1 ELSE 0)
BY FS_RemoveElement, FS_CardinalityType

\* The roll-out reaches a dispatcher once, and nothing else changes what is known.
LEMMA UpgradeReplaces ==
  ASSUME TypeOK, RolloutInv, NEW w \in Dispatcher, Upgrade(w)
  PROVE  w \notin Replaced /\ Replaced' = Replaced \cup {w} /\ RolloutInv'
<1>1. PICK n \in Notification : <<w, n>> \in unknown
  BY DEF Upgrade
<1>2. unknown' = {p \in unknown : p[1] # w} /\ unknown \subseteq OldBuild
  BY DEF Upgrade, TypeOK
<1>3. \A m \in Notification : <<w, m>> \notin unknown'
  BY <1>2
<1>4. \A v \in Dispatcher \ {w} : \A m \in Notification : <<v, m>> \in unknown' <=> <<v, m>> \in unknown
  BY <1>2
<1>5. w \notin Replaced
  BY <1>1 DEF RolloutInv
<1>6. Replaced' = Replaced \cup {w}
  BY <1>1, <1>2, <1>3, <1>4 DEF Replaced
<1>7. RolloutInv'
  BY <1>3, <1>4, <1>6 DEF RolloutInv, Replaced
<1> QED
  BY <1>5, <1>6, <1>7

LEMMA RolloutStep == TypeOK /\ RolloutInv /\ [Next]_vars => RolloutInv'
<1> SUFFICES ASSUME TypeOK, RolloutInv, [Next]_vars PROVE RolloutInv'
  OBVIOUS
<1>1. CASE unknown' = unknown
  BY <1>1 DEF RolloutInv, Replaced
<1>2. CASE \E w \in Dispatcher : Upgrade(w)
  BY <1>2, UpgradeReplaces
<1> QED
  BY <1>1, <1>2 DEF Next, EnqueueStatusChanged, ClaimPending, PostAccepted, PostRefused, AnswerLost, Post,
    PolicyMissing, SaveDeliveryResult, Abort, Tick, vars

\* The posts of n that something accounts for.
Counted(n) ==
  attempts[n] + faults + Cardinality(Replaced) + Cardinality(InFlight(n))
    + (IF status[n] = "sent" THEN 1 ELSE 0)

LEMMA BoundInit == Init => RolloutInv /\ PostsAreBounded
<1> SUFFICES ASSUME Init PROVE RolloutInv /\ PostsAreBounded
  OBVIOUS
<1>1. Replaced = {} /\ \A n \in Notification : InFlight(n) = {}
  BY DEF Init, Replaced, InFlight
<1> QED
  BY <1>1, FS_EmptySet DEF Init, RolloutInv, PostsAreBounded

LEMMA BoundStep ==
  TypeOK /\ AttemptsInv /\ LeaseInv /\ RolloutInv /\ PostsAreBounded /\ [Next]_vars => PostsAreBounded'
<1> SUFFICES ASSUME TypeOK, AttemptsInv, LeaseInv, RolloutInv, PostsAreBounded, [Next]_vars,
                    overruns' = 0, NEW n \in Notification
             PROVE  posts'[n] <= Counted(n)'
  BY DEF PostsAreBounded, Counted
<1>0. /\ ClaimsHold /\ posts[n] <= Counted(n)
      /\ posts[n] \in Nat /\ attempts[n] \in Nat /\ faults \in Nat
      /\ Cardinality(Replaced) \in Nat /\ Cardinality(InFlight(n)) \in Nat /\ IsFiniteSet(InFlight(n))
  BY NoOverrunBefore, Counting, ConstantsAssumption
  DEF LeaseInv, PostsAreBounded, Counted, TypeOK, DispatcherConfig, Positive
<1>1. ASSUME NEW m \in Notification, EnqueueStatusChanged(m) PROVE posts'[n] <= Counted(n)'
  <2>1. /\ posts' = posts /\ attempts' = attempts /\ faults' = faults
        /\ Replaced' = Replaced /\ InFlight(n)' = InFlight(n)
        /\ status[n] = "sent" <=> status'[n] = "sent"
    BY <1>1 DEF EnqueueStatusChanged, TypeOK, cycleVars, history, Replaced, InFlight
  <2> QED
    BY <1>0, <2>1 DEF Counted
<1>2. ASSUME NEW w \in Dispatcher, ClaimPending(w) PROVE posts'[n] <= Counted(n)'
  <2>1. sending' = sending
    BY <1>2 DEF ClaimPending
  <2>2. /\ posts' = posts /\ attempts' = attempts /\ faults' = faults /\ status' = status
        /\ Replaced' = Replaced /\ InFlight(n)' = InFlight(n)
    BY <1>2, <2>1 DEF ClaimPending, history, Replaced, InFlight
  <2> QED
    BY <1>0, <2>2 DEF Counted
<1>3. ASSUME NEW w \in Dispatcher, NEW c \in batch[w],
             NEW received \in BOOLEAN, NEW ok \in BOOLEAN, Post(w, c, received, ok)
      PROVE  posts'[n] <= Counted(n)'
  <2>1. /\ sending[w] = Idle /\ [claim |-> c, ok |-> ok] # Idle
        /\ sending'[w] = [claim |-> c, ok |-> ok]
        /\ \A v \in Dispatcher \ {w} : sending'[v] = sending[v]
        /\ posts' = [posts EXCEPT ![c.id] = @ + 1] /\ c.id \in Notification
    BY <1>3, PostEffects
  <2>2. attempts' = attempts /\ faults' = faults /\ status' = status /\ Replaced' = Replaced
    BY <1>3 DEF Post, rowVars, Replaced
  <2>3. CASE n = c.id
    <3>1. w \notin InFlight(n) /\ InFlight(n)' = InFlight(n) \cup {w}
      BY <2>1, <2>3 DEF InFlight
    <3>2. Cardinality(InFlight(n)') = Cardinality(InFlight(n)) + 1
      BY <1>0, <3>1, OneMore
    <3>3. posts'[n] = posts[n] + 1
      BY <2>1, <2>3 DEF TypeOK
    <3> QED
      BY <1>0, <2>2, <3>2, <3>3 DEF Counted
  <2>4. CASE n # c.id
    <3>1. InFlight(n)' = InFlight(n)
      BY <2>1, <2>4 DEF InFlight
    <3>2. posts'[n] = posts[n]
      BY <2>1, <2>4 DEF TypeOK
    <3> QED
      BY <1>0, <2>2, <3>1, <3>2 DEF Counted
  <2> QED
    BY <2>3, <2>4
<1>4. ASSUME NEW w \in Dispatcher, SaveDeliveryResult(w) PROVE posts'[n] <= Counted(n)'
  <2>0. PICK c \in Claim : c = sending[w].claim
    BY <1>4, SaveEffects
  <2>1. /\ c \in Claimed(w) /\ sending[w] # Idle /\ sending'[w] = Idle
        /\ \A v \in Dispatcher \ {w} : sending'[v] = sending[v]
    BY <1>4, <2>0, SaveEffects
  <2>2. faults' = faults /\ Replaced' = Replaced /\ posts' = posts
    BY <1>4 DEF SaveDeliveryResult, history, Replaced
  <2>3. CASE n = c.id
    <3>1. w \in InFlight(n) /\ InFlight(n)' = InFlight(n) \ {w}
      BY <2>0, <2>1, <2>3 DEF InFlight
    <3>2. Cardinality(InFlight(n)') = Cardinality(InFlight(n)) - 1
      BY <1>0, <3>1, OneLess
    <3>3. status[n] = "pending" /\ attempts[n] = c.attempts
      BY <1>0, <2>1, <2>3 DEF ClaimsHold
    <3>4. \/ status'[n] = "sent" /\ attempts'[n] = attempts[n]
          \/ status'[n] # "sent" /\ attempts'[n] = attempts[n] + 1
      BY <1>4, <2>0, <2>3, <3>3, SaveWrites
    <3> QED
      BY <1>0, <2>2, <3>2, <3>3, <3>4 DEF Counted
  <2>4. CASE n # c.id
    <3>1. InFlight(n)' = InFlight(n)
      BY <2>0, <2>1, <2>4 DEF InFlight
    <3>2. status'[n] = status[n] /\ attempts'[n] = attempts[n]
      BY <1>4, <2>0, <2>4, SaveWrites
    <3> QED
      BY <1>0, <2>2, <3>1, <3>2 DEF Counted
  <2> QED
    BY <2>3, <2>4
<1>5. ASSUME NEW w \in Dispatcher, Ends(w) PROVE
        /\ posts' = posts /\ attempts' = attempts /\ status' = status
        /\ InFlight(n)' = InFlight(n) \ {w}
        /\ Cardinality(InFlight(n)') = Cardinality(InFlight(n)) - (IF w \in InFlight(n) THEN 1 ELSE 0)
  <2>1. InFlight(n)' = InFlight(n) \ {w}
    BY <1>5, EndEffects DEF Ends, InFlight
  <2> QED
    BY <1>0, <1>5, <2>1, OneLess DEF Ends, rowVars, history
<1>6. ASSUME NEW w \in Dispatcher, Abort(w) PROVE posts'[n] <= Counted(n)'
  <2>1. Ends(w) /\ faults' = faults + 1 /\ Replaced' = Replaced
    BY <1>6 DEF Abort, Ends, Replaced
  <2> QED
    BY <1>0, <1>5, <2>1 DEF Counted
<1>7. ASSUME NEW w \in Dispatcher, NEW c \in batch[w], PolicyMissing(w, c) PROVE posts'[n] <= Counted(n)'
  <2>1. Ends(w) /\ faults' = faults /\ Replaced' = Replaced /\ w \notin InFlight(n)
    BY <1>7 DEF PolicyMissing, Ends, Replaced, InFlight
  <2> QED
    BY <1>0, <1>5, <2>1 DEF Counted
<1>8. ASSUME NEW w \in Dispatcher, Upgrade(w) PROVE posts'[n] <= Counted(n)'
  <2>1. Ends(w) /\ faults' = faults
    BY <1>8 DEF Upgrade, Ends
  <2>2. Cardinality(Replaced') = Cardinality(Replaced) + 1
    BY <1>8, UpgradeReplaces, Counting, OneMore
  <2> QED
    BY <1>0, <1>5, <2>1, <2>2 DEF Counted
<1>9. CASE Tick \/ UNCHANGED vars
  <2>1. /\ posts' = posts /\ attempts' = attempts /\ faults' = faults /\ status' = status
        /\ Replaced' = Replaced /\ InFlight(n)' = InFlight(n)
    BY <1>9 DEF Tick, vars, rowVars, cycleVars, history, Replaced, InFlight
  <2> QED
    BY <1>0, <2>1 DEF Counted
<1> QED
  BY <1>1, <1>2, <1>3, <1>4, <1>6, <1>7, <1>8, <1>9 DEF Next, PostAccepted, PostRefused, AnswerLost

\* As long as no cycle outlives its lease, every post is accounted for: counted as an
\* attempt, the one that succeeded, under way, or lost with a cycle that died or was
\* replaced - however many rows, dispatchers and retries there are.
THEOREM PostsBounded == Spec => []PostsAreBounded
<1>1. Init => TypeOK /\ AttemptsInv /\ LeaseInv /\ RolloutInv /\ PostsAreBounded
  BY TypingInit, LeaseInit, BoundInit
<1>2. TypeOK /\ AttemptsInv /\ LeaseInv /\ RolloutInv /\ PostsAreBounded /\ [Next]_vars
        => (TypeOK /\ AttemptsInv /\ LeaseInv /\ RolloutInv /\ PostsAreBounded)'
  BY TypingStep, AttemptsStep, LeaseStep, RolloutStep, BoundStep
<1> QED
  BY <1>1, <1>2, PTL DEF Spec
=============================================================================
