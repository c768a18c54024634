----------------------- MODULE AddressAllocationProofs -----------------------
(***************************************************************************)
(* Proofs about AddressAllocation, for any set of requests, keys and       *)
(* policies and any number of slots.                                       *)
(***************************************************************************)
EXTENDS AddressAllocation, FiniteSetTheorems, TLAPS

(* The inductive invariant, in parts. *)

Claimed(r, id) == [policy |-> Ask[r].policy, payload |-> Ask[r].payload, id |-> id]

Tracks(row) == {[id |-> row.id, payload |-> row.payload, address |-> row.address]}

\* Where a request stands says what its transaction has written so far.
TxShapeOf(r) ==
  /\ pc[r] \in OutsideTx => tx[r] = EmptyTx
  /\ pc[r] \notin OutsideTx /\ Ask[r].key = NoKey => tx[r].claim = NoRecord
  /\ pc[r] \notin OutsideTx \cup {"commit"} /\ Ask[r].key # NoKey =>
       tx[r].claim = Claimed(r, 0)
  /\ pc[r] = "commit" /\ Ask[r].key # NoKey => tx[r].claim = Claimed(r, tx[r].row.id)
  /\ pc[r] \in {"reopen", "reserve"} => tx[r].row = NoRow
  /\ pc[r] \in {"complete", "track", "record", "commit"} =>
       /\ tx[r].row # NoRow
       /\ tx[r].row.policy = Ask[r].policy /\ tx[r].row.payload = Ask[r].payload
  /\ pc[r] = "complete" => tx[r].row.status = "reserved" /\ tx[r].row.address = NoAddress
  /\ pc[r] \in {"track", "record", "commit"} =>
       tx[r].row.status = "issued" /\ tx[r].row.address \in Address
  /\ pc[r] \in {"reopen", "reserve", "complete", "track"} => tx[r].tracking = {}
  /\ pc[r] \in {"record", "commit"} => tx[r].tracking = Tracks(tx[r].row)
  /\ pc[r] \in {"lookup", "reload", "claim", "record"} => Ask[r].key # NoKey
  /\ pc[r] # "answered" => answer[r] = NoAnswer /\ made[r] = 0

TxShape == \A r \in Request : TxShapeOf(r)

-----------------------------------------------------------------------------
(* Typing *)

TxType == [claim: Record \cup {NoRecord}, row: Row \cup {NoRow}, tracking: SUBSET Tracking]

\* A step of request r leaves the other requests where they are.
LEMMA Frame ==
  ASSUME NEW r \in Request, Typed, Receive(r) \/ Step(r)
  PROVE  /\ \A q \in Request \ {r} :
              /\ pc'[q] = pc[q] /\ tx'[q] = tx[q]
              /\ answer'[q] = answer[q] /\ made'[q] = made[q]
         /\ enabled' = enabled
<1> DEFINE Same == /\ \A q \in Request \ {r} :
                        /\ pc'[q] = pc[q] /\ tx'[q] = tx[q]
                        /\ answer'[q] = answer[q] /\ made'[q] = made[q]
                   /\ enabled' = enabled
<1> USE DEF Typed, Goto
<1>1. CASE Receive(r)
  BY <1>1 DEF Receive
<1>2. CASE Replay(r) \/ NotRecorded(r) \/ Plan(r)
  BY <1>2 DEF Replay, NotRecorded, Plan, RollBack
<1>3. CASE Claim(r) \/ ReopenFailed(r)
  BY <1>3 DEF Claim, ReopenFailed
<1>4. CASE ReserveFresh(r)
  BY <1>4 DEF ReserveFresh, RollBack
<1>5. CASE DerivationFails(r) \/ Complete(r) \/ StatementFails(r)
  BY <1>5 DEF DerivationFails, Complete, StatementFails, RollBack
<1>6. CASE CreateTracking(r) \/ RecordAnswer(r)
  BY <1>6 DEF CreateTracking, RecordAnswer
<1>7. CASE Commit(r) \/ CommitUnheard(r)
  BY <1>7 DEF Commit, CommitUnheard, Publish
<1> QED
  BY <1>1, <1>2, <1>3, <1>4, <1>5, <1>6, <1>7 DEF Step

LEMMA TypingInit == Init => Typed /\ TxShape
<1> SUFFICES ASSUME Init PROVE Typed /\ TxShape
  OBVIOUS
<1>1. Cardinality(Inherited) \in Nat
  BY FS_CardinalityType, InheritedAssumption
<1>2. Typed
  BY <1>1, InheritedAssumption, ConstantsAssumption, SMTT(30)
  DEF Init, Typed, EmptyTx, NoAnswer, Answer, Position
<1>3. TxShape
  BY DEF Init, TxShape, TxShapeOf, OutsideTx, EmptyTx
<1> QED
  BY <1>2, <1>3

\* Rolling back keeps the types and the shape, whatever the answer.
LEMMA RollBackTyping ==
  ASSUME NEW r \in Request, NEW ans \in Answer, Typed, TxShape, Step(r),
         RollBack(r, ans), UNCHANGED <<dbVars, nextId, enabled, made>>
  PROVE  Typed' /\ TxShape'
<1>1. Typed'
  BY DEF Typed, RollBack, Goto, dbVars, Position, EmptyTx
<1>2. ASSUME NEW q \in Request PROVE TxShapeOf(q)'
  <2>1. CASE q # r
    BY <2>1, Frame DEF TxShape, TxShapeOf
  <2>2. CASE q = r
    BY <2>2 DEF Typed, RollBack, Goto, TxShapeOf, OutsideTx, EmptyTx
  <2> QED
    BY <2>1, <2>2
<1> QED
  BY <1>1, <1>2 DEF TxShape

LEMMA ReplayedAnswerType ==
  ASSUME NEW r \in Request, Typed, Ask[r].key # NoKey, idem[Ask[r].key] # NoRecord
  PROVE  ReplayedAnswer(r) \in Answer
<1>1. idem[Ask[r].key] \in Record
  BY ConstantsAssumption DEF Typed
<1> QED
  BY <1>1, ConstantsAssumption DEF ReplayedAnswer, Failed, Answer, Failure, Record

LEMMA FailedType == \A why \in Failure : Failed(why) \in Answer
BY ConstantsAssumption DEF Failed, Answer

\* At the commit the transaction holds an issued row, its tracking and, under a
\* key, the completed record.
LEMMA AtCommit ==
  ASSUME NEW r \in Request, Typed, TxShape, pc[r] = "commit"
  PROVE  /\ tx[r].row \in Row /\ tx[r].row # NoRow
         /\ tx[r].row.status = "issued" /\ tx[r].row.address \in Address
         /\ tx[r].row.policy = Ask[r].policy /\ tx[r].row.payload = Ask[r].payload
         /\ tx[r].tracking = Tracks(tx[r].row)
         /\ Ask[r].key = NoKey => tx[r].claim = NoRecord
         /\ Ask[r].key # NoKey => /\ tx[r].claim = Claimed(r, tx[r].row.id)
                                  /\ tx[r].claim \in Record /\ Ask[r].key \in Key
<1>1. tx[r] \in TxType
  BY DEF Typed, TxType
<1>2. TxShapeOf(r)
  BY DEF TxShape
<1>3. Ask[r] \in [key: Key \cup {NoKey}, policy: Policy, payload: Payload]
  BY ConstantsAssumption
<1>4. tx[r].row \in Row /\ tx[r].row # NoRow
  BY <1>1, <1>2 DEF TxType, TxShapeOf
<1>5. Claimed(r, tx[r].row.id) \in Record
  BY <1>3, <1>4 DEF Claimed, Record, Row
<1> QED
  BY <1>2, <1>3, <1>4, <1>5 DEF TxShapeOf, OutsideTx

LEMMA PublishTyping ==
  ASSUME NEW r \in Request, NEW ans \in Answer, Typed, TxShape, Step(r),
         pc[r] = "commit", Publish(r), answer' = [answer EXCEPT ![r] = ans],
         UNCHANGED <<nextId, enabled>>
  PROVE  Typed' /\ TxShape'
<1>1. /\ tx[r].row \in Row /\ tx[r].row # NoRow
      /\ tx[r].tracking = Tracks(tx[r].row) /\ tx[r].row.address \in Address
      /\ Ask[r].key = NoKey => tx[r].claim = NoRecord
      /\ Ask[r].key # NoKey => tx[r].claim \in Record /\ Ask[r].key \in Key
  BY AtCommit
<1>2. table' \in SUBSET Row
  BY <1>1 DEF Typed, Publish
<1>3. cursor' \in [Policy -> {NoCursor} \cup 1..(MaxSlot + 1)]
  BY <1>1, ConstantsAssumption DEF Typed, Publish, Row
<1>4. idem' \in [Key -> Record \cup {NoRecord}]
  BY <1>1 DEF Typed, Publish
<1>5. trackings' \in SUBSET Tracking
  BY <1>1 DEF Typed, Publish, Tracks, Tracking, Row
<1>6. made' \in [Request -> 0..MaxId]
  BY <1>1, ConstantsAssumption DEF Typed, Publish, Row
<1>7. Typed'
  BY <1>2, <1>3, <1>4, <1>5, <1>6 DEF Typed, Publish, Goto, Position, EmptyTx
<1>8. ASSUME NEW q \in Request PROVE TxShapeOf(q)'
  <2>1. CASE q # r
    BY <2>1, Frame DEF TxShape, TxShapeOf
  <2>2. CASE q = r
    BY <2>2 DEF Typed, Publish, Goto, TxShapeOf, OutsideTx, EmptyTx
  <2> QED
    BY <2>1, <2>2
<1> QED
  BY <1>7, <1>8 DEF TxShape

\* A statement that only moves its request on and adds to its transaction.
LEMMA ForwardTyping ==
  ASSUME NEW r \in Request, NEW l \in Position, Typed, TxShape, Receive(r) \/ Step(r),
         Goto(r, l), tx' \in [Request -> TxType], nextId' \in 1..(MaxId + 1),
         UNCHANGED <<dbVars, enabled, answer, made>>, TxShapeOf(r)'
  PROVE  Typed' /\ TxShape'
<1>1. Typed'
  BY DEF Typed, TxType, Goto, dbVars
<1>2. \A q \in Request \ {r} : TxShapeOf(q)'
  BY Frame DEF TxShape, TxShapeOf
<1> QED
  BY <1>1, <1>2 DEF TxShape

LEMMA TypingStep == Typed /\ TxShape /\ [Next]_vars => Typed' /\ TxShape'
<1> SUFFICES ASSUME Typed, TxShape, [Next]_vars PROVE Typed' /\ TxShape'
  OBVIOUS
<1>0. ASSUME NEW r \in Request
      PROVE  /\ tx[r] \in TxType /\ TxShapeOf(r)
             /\ Ask[r] \in [key: Key \cup {NoKey}, policy: Policy, payload: Payload]
             /\ tx \in [Request -> TxType] /\ pc \in [Request -> Position]
             /\ nextId \in 1..(MaxId + 1)
  BY ConstantsAssumption DEF Typed, TxShape, TxType
<1> DEFINE Forward(r, l) ==
      /\ Goto(r, l)
      /\ tx' \in [Request -> TxType] /\ nextId' \in 1..(MaxId + 1)
      /\ UNCHANGED <<dbVars, enabled, answer, made>> /\ TxShapeOf(r)'
<1>1. ASSUME NEW r \in Request, Receive(r) PROVE Typed' /\ TxShape'
  <2> DEFINE l == IF Ask[r].key = NoKey THEN "plan" ELSE "lookup"
  <2>1. Forward(r, l)
    BY <1>0, <1>1 DEF Receive, Goto, TxShapeOf, OutsideTx
  <2>2. l \in Position
    BY DEF Position
  <2> QED
    BY <1>1, <2>1, <2>2, ForwardTyping
<1>2. ASSUME NEW r \in Request, Replay(r) PROVE Typed' /\ TxShape'
  <2>1. Ask[r].key # NoKey
    BY <1>0, <1>2 DEF Replay, TxShapeOf
  <2> QED
    BY <1>2, <2>1, ReplayedAnswerType, RollBackTyping DEF Replay, Step
<1>3. ASSUME NEW r \in Request, NotRecorded(r) PROVE Typed' /\ TxShape'
  <2>1. CASE pc[r] = "lookup"
    <3>1. Forward(r, "plan")
      BY <1>0, <1>3, <2>1 DEF NotRecorded, Goto, TxShapeOf, OutsideTx
    <3> QED
      BY <1>3, <3>1, ForwardTyping DEF Step, Position
  <2>2. CASE pc[r] # "lookup"
    BY <1>3, <2>2, FailedType, RollBackTyping DEF NotRecorded, Step, Failure
  <2> QED
    BY <2>1, <2>2
<1>4. ASSUME NEW r \in Request, Plan(r) PROVE Typed' /\ TxShape'
  <2>1. CASE Ask[r].policy \in enabled
    <3> DEFINE l == IF Ask[r].key = NoKey THEN "reopen" ELSE "claim"
    <3>0. Goto(r, l) /\ UNCHANGED <<tx, nextId, dbVars, enabled, answer, made>>
      BY <1>4, <2>1 DEF Plan
    <3>1. Forward(r, l)
      <4>1. CASE Ask[r].key = NoKey
        BY <1>0, <1>4, <3>0, <4>1 DEF Plan, Goto, TxShapeOf, OutsideTx, EmptyTx
      <4>2. CASE Ask[r].key # NoKey
        BY <1>0, <1>4, <3>0, <4>2 DEF Plan, Goto, TxShapeOf, OutsideTx, EmptyTx
      <4> QED
        BY <4>1, <4>2
    <3>2. l \in Position
      BY DEF Position
    <3> QED
      BY <1>4, <3>1, <3>2, ForwardTyping DEF Step
  <2>2. CASE Ask[r].policy \notin enabled
    BY <1>4, <2>2, FailedType, RollBackTyping DEF Plan, Step, Failure
  <2> QED
    BY <2>1, <2>2
<1>5. ASSUME NEW r \in Request, Claim(r) PROVE Typed' /\ TxShape'
  <2>0. pc[r] = "claim" /\ Ask[r].key # NoKey /\ tx[r] = EmptyTx
    BY <1>0, <1>5 DEF Claim, TxShapeOf, OutsideTx
  <2>1. CASE idem[Ask[r].key] = NoRecord
    <3>1. Claimed(r, 0) \in Record
      BY <1>0, ConstantsAssumption DEF Claimed, Record
    <3>2. tx' = [tx EXCEPT ![r].claim = Claimed(r, 0)] /\ Goto(r, "reopen")
          /\ UNCHANGED <<nextId, dbVars, enabled, answer, made>>
      BY <1>5, <2>1 DEF Claim, Claimed
    <3>3. tx' \in [Request -> TxType] /\ tx'[r] = [EmptyTx EXCEPT !.claim = Claimed(r, 0)]
      BY <1>0, <2>0, <3>1, <3>2 DEF TxType, EmptyTx
    <3>4. Forward(r, "reopen")
      BY <1>0, <2>0, <3>2, <3>3 DEF Goto, TxShapeOf, OutsideTx, EmptyTx, Claimed
    <3> QED
      BY <1>5, <3>4, ForwardTyping DEF Step, Position
  <2>2. CASE idem[Ask[r].key] # NoRecord
    <3>1. Forward(r, "reload")
      BY <1>0, <1>5, <2>0, <2>2 DEF Claim, Goto, TxShapeOf, OutsideTx
    <3> QED
      BY <1>5, <3>1, ForwardTyping DEF Step, Position
  <2> QED
    BY <2>1, <2>2
<1>6. ASSUME NEW r \in Request, ReopenFailed(r) PROVE Typed' /\ TxShape'
  <2>1. ASSUME NEW t \in Reopenable(r), Goto(r, "complete"),
               tx' = [tx EXCEPT ![r].row =
                 [t EXCEPT !.status = "reserved", !.payload = Ask[r].payload,
                           !.address = NoAddress]]
        PROVE  Typed' /\ TxShape'
    <3> DEFINE row == [t EXCEPT !.status = "reserved", !.payload = Ask[r].payload,
                                !.address = NoAddress]
    <3>1. row \in Row /\ row.policy = Ask[r].policy /\ row.payload = Ask[r].payload
          /\ row.status = "reserved" /\ row.address = NoAddress
      BY <1>0 DEF Reopenable, Typed, Row, AllocationStatus
    <3>2. pc[r] = "reopen" /\ UNCHANGED <<nextId, dbVars, enabled, answer, made>>
      BY <1>6 DEF ReopenFailed
    <3>3. tx' \in [Request -> TxType] /\ tx'[r] = [tx[r] EXCEPT !.row = row]
      BY <1>0, <2>1, <3>1 DEF TxType
    <3>4. Forward(r, "complete")
      BY <1>0, <2>1, <3>1, <3>2, <3>3, NullsAssumption
      DEF Goto, TxType, TxShapeOf, OutsideTx, Claimed
    <3> QED
      BY <1>6, <3>4, ForwardTyping DEF Step, Position
  <2>2. CASE Goto(r, "reserve") /\ UNCHANGED tx
    <3>1. Forward(r, "reserve")
      BY <1>0, <1>6, <2>2 DEF ReopenFailed, Goto, TxShapeOf, OutsideTx
    <3> QED
      BY <1>6, <3>1, ForwardTyping DEF Step, Position
  <2> QED
    BY <1>6, <2>1, <2>2 DEF ReopenFailed
<1>7. ASSUME NEW r \in Request, ReserveFresh(r) PROVE Typed' /\ TxShape'
  <2> DEFINE row == [id |-> nextId, policy |-> Ask[r].policy, slot |-> NextIndex(Ask[r].policy),
                     payload |-> Ask[r].payload, status |-> "reserved",
                     address |-> NoAddress]
  <2>1. CASE NextIndex(Ask[r].policy) \in 0..MaxSlot /\ nextId <= MaxId
    <3>1. row \in Row
      BY <1>0, <2>1 DEF Row, AllocationStatus
    <3>2. /\ pc[r] = "reserve" /\ Goto(r, "complete") /\ nextId' = nextId + 1
          /\ tx' = [tx EXCEPT ![r].row = row] /\ UNCHANGED <<dbVars, enabled, answer, made>>
      BY <1>7, <2>1, ConstantsAssumption DEF ReserveFresh
    <3>3. tx' \in [Request -> TxType] /\ tx'[r] = [tx[r] EXCEPT !.row = row]
      BY <1>0, <3>1, <3>2 DEF TxType
    <3>4. nextId' \in 1..(MaxId + 1)
      BY <1>0, <2>1, <3>2, ConstantsAssumption
    <3>5. TxShapeOf(r)'
      <4>1. row # NoRow
        BY <3>1, NullsAssumption
      <4> HIDE DEF row
      <4>2. /\ row.policy = Ask[r].policy /\ row.payload = Ask[r].payload
            /\ row.status = "reserved" /\ row.address = NoAddress
        BY DEF row
      <4> QED
        BY <1>0, <3>2, <3>3, <4>1, <4>2 DEF Goto, TxType, TxShapeOf, OutsideTx, Claimed
    <3> QED
      BY <1>7, <3>2, <3>3, <3>4, <3>5, ForwardTyping DEF Step, Position
  <2>2. CASE ~(NextIndex(Ask[r].policy) \in 0..MaxSlot /\ nextId <= MaxId)
    BY <1>7, <2>2, FailedType, RollBackTyping DEF ReserveFresh, Step, Failure
  <2> QED
    BY <2>1, <2>2
<1>8. ASSUME NEW r \in Request, DerivationFails(r) PROVE Typed' /\ TxShape'
  BY <1>8, FailedType, RollBackTyping DEF DerivationFails, Step, Failure
<1>9. ASSUME NEW r \in Request, Complete(r) PROVE Typed' /\ TxShape'
  <2> DEFINE row == [tx[r].row EXCEPT !.status = "issued", !.address = Derived(r)]
  <2>1. CASE \E t \in table : t.id # tx[r].row.id /\ t.address = Derived(r)
    BY <1>9, <2>1, FailedType, RollBackTyping DEF Complete, Step, Failure
  <2>2. CASE ~ \E t \in table : t.id # tx[r].row.id /\ t.address = Derived(r)
    <3>1. /\ pc[r] = "complete" /\ Goto(r, "track") /\ tx' = [tx EXCEPT ![r].row = row]
          /\ UNCHANGED <<nextId, dbVars, enabled, answer, made>>
      BY <1>9, <2>2 DEF Complete
    <3>2. tx[r].row \in Row /\ tx[r].row.policy = Ask[r].policy /\ tx[r].row.payload = Ask[r].payload
      BY <1>0, <3>1 DEF TxType, TxShapeOf
    <3>3. Derived(r) \in Address
      BY <3>2, ConstantsAssumption DEF Derived, Row
    <3>4. /\ row \in Row /\ row.policy = Ask[r].policy /\ row.payload = Ask[r].payload
          /\ row.status = "issued" /\ row.address \in Address
      BY <3>2, <3>3 DEF Row, AllocationStatus
    <3>5. tx' \in [Request -> TxType] /\ tx'[r] = [tx[r] EXCEPT !.row = row]
      BY <1>0, <3>1, <3>4 DEF TxType
    <3>6. Forward(r, "track")
      BY <1>0, <3>1, <3>4, <3>5, NullsAssumption
      DEF Goto, TxType, TxShapeOf, OutsideTx, Claimed
    <3> QED
      BY <1>9, <3>6, ForwardTyping DEF Step, Position
  <2> QED
    BY <2>1, <2>2
<1>10. ASSUME NEW r \in Request, CreateTracking(r) PROVE Typed' /\ TxShape'
  <2> DEFINE l == IF Ask[r].key = NoKey THEN "commit" ELSE "record"
  <2>1. /\ pc[r] = "track" /\ Goto(r, l) /\ tx' = [tx EXCEPT ![r].tracking = Tracks(tx[r].row)]
        /\ UNCHANGED <<nextId, dbVars, enabled, answer, made>>
    BY <1>10 DEF CreateTracking, Tracks
  <2>2. tx[r].row \in Row /\ tx[r].row.address \in Address
    BY <1>0, <2>1 DEF TxType, TxShapeOf
  <2>3. Tracks(tx[r].row) \in SUBSET Tracking
    BY <2>2 DEF Tracks, Tracking, Row
  <2>4. /\ tx' \in [Request -> TxType]
        /\ tx'[r] = [tx[r] EXCEPT !.tracking = Tracks(tx[r].row)]
    BY <1>0, <2>1, <2>3 DEF TxType
  <2>5. Forward(r, l)
    <3>1. CASE Ask[r].key = NoKey
      BY <1>0, <2>1, <2>4, <3>1 DEF Goto, TxType, TxShapeOf, OutsideTx, Claimed
    <3>2. CASE Ask[r].key # NoKey
      BY <1>0, <2>1, <2>4, <3>2 DEF Goto, TxType, TxShapeOf, OutsideTx, Claimed
    <3> QED
      BY <3>1, <3>2
  <2>6. l \in Position
    BY DEF Position
  <2> QED
    BY <1>10, <2>5, <2>6, ForwardTyping DEF Step
<1>11. ASSUME NEW r \in Request, RecordAnswer(r) PROVE Typed' /\ TxShape'
  <2>1. pc[r] = "record" /\ Ask[r].key # NoKey /\ tx[r].claim = Claimed(r, 0)
        /\ tx[r].row \in Row
    BY <1>0, <1>11 DEF RecordAnswer, TxType, TxShapeOf, OutsideTx
  <2>2. Claimed(r, tx[r].row.id) \in Record
    BY <1>0, <2>1 DEF Claimed, Record, Row
  <2>3. [tx[r].claim EXCEPT !.id = tx[r].row.id] = Claimed(r, tx[r].row.id)
    BY <2>1 DEF Claimed
  <2>4. /\ Goto(r, "commit") /\ tx' = [tx EXCEPT ![r].claim = Claimed(r, tx[r].row.id)]
        /\ UNCHANGED <<nextId, dbVars, enabled, answer, made>>
    BY <1>11, <2>3 DEF RecordAnswer
  <2>5. /\ tx' \in [Request -> TxType]
        /\ tx'[r] = [tx[r] EXCEPT !.claim = Claimed(r, tx[r].row.id)]
    BY <1>0, <2>2, <2>4 DEF TxType
  <2>6. Forward(r, "commit")
    BY <1>0, <2>1, <2>4, <2>5 DEF Goto, TxType, TxShapeOf, OutsideTx, Claimed, Tracks
  <2> QED
    BY <1>11, <2>6, ForwardTyping DEF Step, Position
<1>12. ASSUME NEW r \in Request, Commit(r) PROVE Typed' /\ TxShape'
  <2>1. tx[r].row \in Row
    BY <1>12, AtCommit DEF Commit
  <2>2. [outcome |-> "issued", id |-> tx[r].row.id] \in Answer
    BY <2>1, ConstantsAssumption DEF Answer, Row
  <2> QED
    BY <1>12, <2>2, PublishTyping DEF Commit, Step
<1>13. ASSUME NEW r \in Request, CommitUnheard(r) PROVE Typed' /\ TxShape'
  BY <1>13, FailedType, PublishTyping DEF CommitUnheard, Step, Failure
<1>14. ASSUME NEW r \in Request, StatementFails(r) PROVE Typed' /\ TxShape'
  BY <1>14, FailedType, RollBackTyping DEF StatementFails, Step, Failure
<1>15. ASSUME NEW p \in Policy, DisablePolicy(p) PROVE Typed' /\ TxShape'
  BY <1>15 DEF DisablePolicy, Typed, TxShape, TxShapeOf, dbVars
<1>16. CASE UNCHANGED vars
  BY <1>16 DEF vars, dbVars, Typed, TxShape, TxShapeOf
<1> QED
  BY <1>1, <1>2, <1>3, <1>4, <1>5, <1>6, <1>7, <1>8, <1>9, <1>10, <1>11, <1>12, <1>13,
     <1>14, <1>15, <1>16 DEF Next, Step

LEMMA Typing == Spec => [](Typed /\ TxShape)
BY TypingInit, TypingStep, PTL DEF Spec

-----------------------------------------------------------------------------
(* Keys *)

\* A key is in one transaction's hands or on record, never both, and what a
\* request issued under a key is on record.
KeysAreHeld ==
  /\ \A r \in Request : tx[r].claim # NoRecord =>
       Ask[r].key \in Key /\ idem[Ask[r].key] = NoRecord
  /\ \A q, r \in Request :
       tx[q].claim # NoRecord /\ tx[r].claim # NoRecord /\ SameKey(q, r) => q = r
  /\ \A r \in Request : made[r] # 0 /\ Ask[r].key # NoKey => idem[Ask[r].key] # NoRecord

\* What a step of r does to keys: nothing, claim r's key, or publish it.
KeepsKeys(r) ==
  /\ UNCHANGED <<idem, made>>
  /\ tx'[r].claim # NoRecord => tx[r].claim # NoRecord

ClaimsKey(r) ==
  /\ UNCHANGED <<idem, made>>
  /\ Ask[r].key \in Key /\ idem[Ask[r].key] = NoRecord
  /\ \A q \in Request : ~HoldsKey(q, Ask[r].key)

PublishesKey(r) ==
  /\ tx'[r].claim = NoRecord
  /\ Ask[r].key = NoKey => UNCHANGED idem
  /\ Ask[r].key # NoKey =>
       /\ tx[r].claim # NoRecord /\ Ask[r].key \in Key
       /\ idem' = [idem EXCEPT ![Ask[r].key] = tx[r].claim]

LEMMA KeyEffects ==
  ASSUME NEW r \in Request, Typed, TxShape, Receive(r) \/ Step(r)
  PROVE  KeepsKeys(r) \/ ClaimsKey(r) \/ PublishesKey(r)
<1>0. /\ tx \in [Request -> TxType] /\ TxShapeOf(r)
      /\ Ask[r].key \in Key \cup {NoKey}
  BY ConstantsAssumption DEF Typed, TxShape, TxType
<1>1. CASE UNCHANGED <<idem, made, tx>>
  BY <1>1 DEF KeepsKeys
<1>2. ASSUME NEW ans, RollBack(r, ans), UNCHANGED <<idem, made>> PROVE KeepsKeys(r)
  BY <1>0, <1>2 DEF KeepsKeys, RollBack, EmptyTx
<1>3. CASE Receive(r)
  BY <1>1, <1>3 DEF Receive, dbVars
<1>4. CASE Replay(r) \/ NotRecorded(r) \/ Plan(r) \/ DerivationFails(r) \/ StatementFails(r)
  BY <1>1, <1>2, <1>4 DEF Replay, NotRecorded, Plan, DerivationFails, StatementFails, dbVars
<1>5. CASE Claim(r)
  BY <1>0, <1>1, <1>5 DEF Claim, ClaimsKey, TxShapeOf, dbVars
<1>6. CASE ReopenFailed(r)
  BY <1>0, <1>6 DEF ReopenFailed, KeepsKeys, dbVars, TxType
<1>7. CASE ReserveFresh(r)
  BY <1>0, <1>2, <1>7 DEF ReserveFresh, KeepsKeys, dbVars, TxType
<1>8. CASE Complete(r)
  BY <1>0, <1>2, <1>8 DEF Complete, KeepsKeys, dbVars, TxType
<1>9. CASE CreateTracking(r)
  BY <1>0, <1>9 DEF CreateTracking, KeepsKeys, dbVars, TxType
<1>10. CASE RecordAnswer(r)
  <2>1. tx[r].claim = Claimed(r, 0) /\ Ask[r].key # NoKey
    BY <1>0, <1>10 DEF RecordAnswer, TxShapeOf, OutsideTx
  <2>2. Claimed(r, 0) \in Record
    BY <2>1, ConstantsAssumption DEF Claimed, Record
  <2> QED
    BY <1>10, <2>1, <2>2, NullsAssumption DEF RecordAnswer, KeepsKeys, dbVars
<1>11. CASE Commit(r) \/ CommitUnheard(r)
  <2>1. /\ pc[r] = "commit" /\ Publish(r)
        /\ Ask[r].key = NoKey => tx[r].claim = NoRecord
        /\ Ask[r].key # NoKey => tx[r].claim \in Record /\ Ask[r].key \in Key
    BY <1>11, AtCommit DEF Commit, CommitUnheard
  <2> QED
    BY <1>0, <2>1, NullsAssumption DEF Publish, PublishesKey, EmptyTx
<1> QED
  BY <1>3, <1>4, <1>5, <1>6, <1>7, <1>8, <1>9, <1>10, <1>11 DEF Step

LEMMA KeysStep ==
  Typed /\ TxShape /\ KeysAreHeld /\ [Next]_vars => KeysAreHeld'
<1> SUFFICES ASSUME Typed, TxShape, KeysAreHeld, [Next]_vars PROVE KeysAreHeld'
  OBVIOUS
<1>1. ASSUME NEW r \in Request, Receive(r) \/ Step(r) PROVE KeysAreHeld'
  <2>1. \A q \in Request \ {r} : tx'[q] = tx[q] /\ made'[q] = made[q]
    BY <1>1, Frame
  <2>2. CASE KeepsKeys(r)
    BY <2>1, <2>2 DEF KeysAreHeld, KeepsKeys, SameKey
  <2>3. CASE ClaimsKey(r)
    BY <2>1, <2>3 DEF KeysAreHeld, ClaimsKey, SameKey, HoldsKey
  <2>4. CASE PublishesKey(r)
    <3>1. \A k \in Key : idem'[k] # idem[k] => k = Ask[r].key /\ tx[r].claim # NoRecord
      BY <2>4 DEF PublishesKey, Typed
    <3>2. Ask[r].key # NoKey => idem'[Ask[r].key] # NoRecord
      BY <2>4 DEF PublishesKey, Typed
    <3>3. \A k \in Key : idem[k] # NoRecord => idem'[k] # NoRecord
      BY <3>1, <3>2, ConstantsAssumption
    <3>4. ASSUME NEW q \in Request, tx'[q].claim # NoRecord
          PROVE  Ask[q].key \in Key /\ idem'[Ask[q].key] = NoRecord
      <4>1. q # r /\ tx[q].claim # NoRecord
        BY <2>1, <2>4, <3>4 DEF PublishesKey
      <4>2. Ask[q].key \in Key /\ idem[Ask[q].key] = NoRecord
        BY <4>1 DEF KeysAreHeld
      <4> QED
        BY <3>1, <4>1, <4>2, ConstantsAssumption DEF KeysAreHeld, SameKey
    <3>5. ASSUME NEW p \in Request, NEW q \in Request,
                 tx'[p].claim # NoRecord, tx'[q].claim # NoRecord, SameKey(p, q)
          PROVE  p = q
      <4>1. p # r /\ q # r
        BY <2>4, <3>5 DEF PublishesKey
      <4> QED
        BY <2>1, <3>5, <4>1 DEF KeysAreHeld
    <3>6. ASSUME NEW q \in Request, made'[q] # 0, Ask[q].key # NoKey
          PROVE  idem'[Ask[q].key] # NoRecord
      <4>1. CASE q = r
        BY <3>2, <3>6, <4>1
      <4>2. CASE q # r
        <5>1. Ask[q].key \in Key /\ idem[Ask[q].key] # NoRecord
          BY <2>1, <3>6, <4>2, ConstantsAssumption DEF KeysAreHeld
        <5> QED
          BY <3>3, <5>1
      <4> QED
        BY <4>1, <4>2
    <3> QED
      BY <3>4, <3>5, <3>6 DEF KeysAreHeld, SameKey
  <2> QED
    BY <1>1, <2>2, <2>3, <2>4, KeyEffects
<1>2. ASSUME NEW p \in Policy, DisablePolicy(p) PROVE KeysAreHeld'
  BY <1>2 DEF DisablePolicy, KeysAreHeld, dbVars, SameKey
<1>3. CASE UNCHANGED vars
  BY <1>3 DEF vars, dbVars, KeysAreHeld, SameKey
<1> QED
  BY <1>1, <1>2, <1>3 DEF Next

\* A request issues only under a key nobody has issued under yet.
LEMMA OneKeyStep ==
  Typed /\ TxShape /\ KeysAreHeld /\ OneAddressPerKey /\ [Next]_vars => OneAddressPerKey'
<1> SUFFICES ASSUME Typed, TxShape, KeysAreHeld, OneAddressPerKey, [Next]_vars,
                    NEW p \in Request, NEW q \in Request,
                    SameKey(p, q), made'[p] # 0, made'[q] # 0
             PROVE  p = q
  BY DEF OneAddressPerKey, SameKey
<1>1. ASSUME NEW r \in Request, Receive(r) \/ Step(r) PROVE p = q
  <2>1. \A s \in Request \ {r} : made'[s] = made[s]
    BY <1>1, Frame
  <2>2. CASE UNCHANGED made
    BY <2>2 DEF OneAddressPerKey
  <2>3. CASE PublishesKey(r)
    <3>1. Ask[r].key # NoKey => idem[Ask[r].key] = NoRecord
      BY <2>3 DEF PublishesKey, KeysAreHeld
    <3>2. \A s \in Request : SameKey(s, r) => made[s] = 0
      BY <3>1 DEF KeysAreHeld, SameKey
    <3> QED
      BY <2>1, <3>2 DEF OneAddressPerKey, SameKey
  <2> QED
    BY <1>1, <2>2, <2>3, KeyEffects DEF KeepsKeys, ClaimsKey
<1>2. CASE UNCHANGED made
  BY <1>2 DEF OneAddressPerKey
<1> QED
  BY <1>1, <1>2 DEF Next, DisablePolicy, vars

\* One idempotency key issues one address: for any number of concurrent tries,
\* failures, rollbacks and unheard commits.  The claimed key is locked by the
\* INSERT until the commit, and the commit leaves it on record.
THEOREM KeyIssuesOnce == Spec => []OneAddressPerKey
<1>1. Init => KeysAreHeld /\ OneAddressPerKey
  BY DEF Init, KeysAreHeld, OneAddressPerKey, EmptyTx
<1> QED
  BY <1>1, Typing, KeysStep, OneKeyStep, PTL DEF Spec

-----------------------------------------------------------------------------
(* Rows *)

\* Row locks and the id sequence keep every row in one transaction's hands, and
\* no transaction holds an issued one.
RowsAreOwned ==
  /\ \A t \in table : t.id < nextId
  /\ \A t, u \in table : t.id = u.id => t = u
  /\ \A r \in Request : tx[r].row # NoRow =>
       /\ tx[r].row.id < nextId
       /\ \A t \in table : t.id = tx[r].row.id =>
            /\ t.status = "derivation_failed"
            /\ t.policy = tx[r].row.policy /\ t.slot = tx[r].row.slot
  /\ \A q, r \in Request :
       tx[q].row # NoRow /\ tx[r].row # NoRow /\ tx[q].row.id = tx[r].row.id => q = r

SameSlot(row, t) == row.id = t.id /\ row.policy = t.policy /\ row.slot = t.slot

\* What a step of r does to rows: keep its row (perhaps marking it issued) or
\* drop it, lock a failed one, insert a new one, or publish its row.
KeepsRow(r) ==
  /\ UNCHANGED <<table, cursor, nextId>>
  /\ tx'[r].row # NoRow => tx[r].row # NoRow /\ SameSlot(tx'[r].row, tx[r].row)

LocksRow(r) ==
  /\ UNCHANGED <<table, cursor, nextId>>
  /\ tx'[r].row # NoRow
  /\ \E t \in Reopenable(r) : SameSlot(tx'[r].row, t)

InsertsRow(r) ==
  /\ UNCHANGED <<table, cursor>> /\ nextId' = nextId + 1
  /\ tx'[r].row # NoRow /\ tx'[r].row.id = nextId
  /\ tx'[r].row.policy = Ask[r].policy /\ tx'[r].row.slot = NextIndex(Ask[r].policy)
  /\ \A q \in Request : ~HoldsCursor(q, Ask[r].policy)

PublishesRow(r) ==
  /\ pc[r] = "commit" /\ Publish(r)
  /\ UNCHANGED nextId /\ tx'[r] = EmptyTx
  /\ tx[r].row \in Row /\ tx[r].row # NoRow /\ tx[r].row.status = "issued"

LEMMA RowEffects ==
  ASSUME NEW r \in Request, Typed, TxShape, Receive(r) \/ Step(r)
  PROVE  KeepsRow(r) \/ LocksRow(r) \/ InsertsRow(r) \/ PublishesRow(r)
<1>0. /\ tx \in [Request -> TxType] /\ tx[r] \in TxType /\ TxShapeOf(r)
      /\ Ask[r].key \in Key \cup {NoKey}
  BY ConstantsAssumption DEF Typed, TxShape, TxType
<1>1. CASE UNCHANGED <<table, cursor, nextId, tx>>
  BY <1>1 DEF KeepsRow, SameSlot
<1>2. ASSUME NEW ans, RollBack(r, ans), UNCHANGED <<table, cursor, nextId>> PROVE KeepsRow(r)
  BY <1>0, <1>2 DEF KeepsRow, RollBack, EmptyTx
<1>3. CASE Receive(r)
  BY <1>1, <1>3 DEF Receive, dbVars
<1>4. CASE Replay(r) \/ NotRecorded(r) \/ Plan(r) \/ DerivationFails(r) \/ StatementFails(r)
  BY <1>1, <1>2, <1>4 DEF Replay, NotRecorded, Plan, DerivationFails, StatementFails, dbVars
<1>5. CASE Claim(r)
  BY <1>0, <1>5 DEF Claim, KeepsRow, SameSlot, dbVars, TxType
<1>6. CASE ReopenFailed(r)
  <2>1. ASSUME NEW t \in Reopenable(r),
               tx' = [tx EXCEPT ![r].row =
                 [t EXCEPT !.status = "reserved", !.payload = Ask[r].payload,
                           !.address = NoAddress]]
        PROVE  LocksRow(r)
    <3> DEFINE row == [t EXCEPT !.status = "reserved", !.payload = Ask[r].payload,
                                !.address = NoAddress]
    <3>1. row \in Row /\ SameSlot(row, t)
      BY ConstantsAssumption DEF Reopenable, Typed, Row, AllocationStatus, SameSlot
    <3>2. tx'[r].row = row
      BY <1>0, <2>1 DEF TxType
    <3> QED
      BY <1>6, <3>1, <3>2, NullsAssumption DEF ReopenFailed, LocksRow, dbVars
  <2> QED
    BY <1>1, <1>6, <2>1 DEF ReopenFailed, dbVars
<1>7. CASE ReserveFresh(r)
  <2> DEFINE row == [id |-> nextId, policy |-> Ask[r].policy, slot |-> NextIndex(Ask[r].policy),
                     payload |-> Ask[r].payload, status |-> "reserved",
                     address |-> NoAddress]
  <2>1. CASE NextIndex(Ask[r].policy) \in 0..MaxSlot /\ nextId <= MaxId
    <3>1. row \in Row
      BY <2>1, ConstantsAssumption DEF Row, AllocationStatus, Typed
    <3>2. tx' = [tx EXCEPT ![r].row = row] /\ nextId' = nextId + 1
      BY <1>7, <2>1, ConstantsAssumption DEF ReserveFresh
    <3>3. tx'[r].row = row
      BY <1>0, <3>2 DEF TxType
    <3>4. row # NoRow
      BY <3>1, NullsAssumption
    <3> QED
      BY <1>7, <3>2, <3>3, <3>4 DEF ReserveFresh, InsertsRow, dbVars
  <2>2. CASE ~(NextIndex(Ask[r].policy) \in 0..MaxSlot /\ nextId <= MaxId)
    BY <1>2, <1>7, <2>2 DEF ReserveFresh, dbVars
  <2> QED
    BY <2>1, <2>2
<1>8. CASE Complete(r)
  <2> DEFINE row == [tx[r].row EXCEPT !.status = "issued", !.address = Derived(r)]
  <2>1. CASE tx' = [tx EXCEPT ![r].row = row] /\ UNCHANGED <<table, cursor, nextId>>
    <3>1. tx[r].row \in Row /\ tx[r].row # NoRow
      BY <1>0, <1>8 DEF Complete, TxShapeOf, TxType
    <3>2. SameSlot(row, tx[r].row)
      BY <3>1 DEF Row, SameSlot
    <3>3. tx'[r].row = row
      BY <1>0, <2>1 DEF TxType
    <3> QED
      BY <2>1, <3>1, <3>2, <3>3 DEF KeepsRow
  <2> QED
    BY <1>2, <1>8, <2>1 DEF Complete, dbVars
<1>9. CASE CreateTracking(r) \/ RecordAnswer(r)
  <2>1. tx'[r].row = tx[r].row
    BY <1>0, <1>9 DEF CreateTracking, RecordAnswer, TxType
  <2> QED
    BY <1>9, <2>1 DEF CreateTracking, RecordAnswer, KeepsRow, SameSlot, dbVars
<1>10. CASE Commit(r) \/ CommitUnheard(r)
  BY <1>0, <1>10, AtCommit DEF Commit, CommitUnheard, Publish, PublishesRow
<1> QED
  BY <1>3, <1>4, <1>5, <1>6, <1>7, <1>8, <1>9, <1>10 DEF Step

LEMMA RowsInit == Init => RowsAreOwned
<1> SUFFICES ASSUME Init PROVE RowsAreOwned
  OBVIOUS
<1>1. Cardinality(Inherited) \in Nat
  BY FS_CardinalityType, InheritedAssumption
<1>2. \A t \in Inherited : t.id \in Nat
  BY InheritedAssumption, ConstantsAssumption DEF Row
<1> QED
  BY <1>1, <1>2, InheritedAssumption DEF Init, RowsAreOwned, EmptyTx

LEMMA RowsStep ==
  Typed /\ TxShape /\ RowsAreOwned /\ [Next]_vars => RowsAreOwned'
<1> SUFFICES ASSUME Typed, TxShape, RowsAreOwned, [Next]_vars PROVE RowsAreOwned'
  OBVIOUS
<1>0. /\ nextId \in Nat /\ \A t \in table : t \in Row /\ t.id \in Nat
      /\ \A q \in Request : tx[q].row # NoRow => tx[q].row \in Row /\ tx[q].row.id \in Nat
  BY ConstantsAssumption DEF Typed, Row
<1>1. ASSUME NEW r \in Request, Receive(r) \/ Step(r) PROVE RowsAreOwned'
  <2>1. \A q \in Request \ {r} : tx'[q] = tx[q]
    BY <1>1, Frame
  <2>2. CASE KeepsRow(r)
    BY <2>1, <2>2 DEF RowsAreOwned, KeepsRow, SameSlot
  <2>3. CASE LocksRow(r)
    <3>1. PICK t \in Reopenable(r) : SameSlot(tx'[r].row, t)
      BY <2>3 DEF LocksRow
    <3>2. /\ t \in table /\ t.status = "derivation_failed"
          /\ \A q \in Request : tx[q].row # NoRow => tx[q].row.id # t.id
      BY DEF Reopenable, HoldsRow
    <3>3. \A q \in Request \ {r} : tx'[q].row # NoRow => tx'[q].row.id # tx'[r].row.id
      BY <2>1, <3>1, <3>2 DEF SameSlot
    <3>4. \A u \in table : u.id = tx'[r].row.id => u = t
      BY <3>1, <3>2 DEF RowsAreOwned, SameSlot
    <3> QED
      BY <2>1, <2>3, <3>1, <3>2, <3>3, <3>4 DEF RowsAreOwned, LocksRow, SameSlot
  <2>4. CASE InsertsRow(r)
    BY <1>0, <2>1, <2>4 DEF RowsAreOwned, InsertsRow
  <2>5. CASE PublishesRow(r)
    <3>1. table' = {t \in table : t.id # tx[r].row.id} \cup {tx[r].row}
      BY <2>5 DEF PublishesRow, Publish
    <3>2. \A t \in table' : t.id < nextId'
      BY <2>5, <3>1 DEF RowsAreOwned, PublishesRow
    <3>3. \A t, u \in table' : t.id = u.id => t = u
      BY <3>1 DEF RowsAreOwned
    <3>4. \A q \in Request : tx'[q].row # NoRow => q # r /\ tx[q].row # NoRow /\ tx'[q] = tx[q]
      BY <2>1, <2>5 DEF PublishesRow, EmptyTx
    <3>5. \A q \in Request : tx'[q].row # NoRow => tx[q].row.id # tx[r].row.id
      BY <2>5, <3>4 DEF RowsAreOwned, PublishesRow
    <3>6. ASSUME NEW q \in Request, tx'[q].row # NoRow
          PROVE  /\ tx'[q].row.id < nextId'
                 /\ \A t \in table' : t.id = tx'[q].row.id =>
                      /\ t.status = "derivation_failed"
                      /\ t.policy = tx'[q].row.policy /\ t.slot = tx'[q].row.slot
      BY <2>5, <3>1, <3>4, <3>5, <3>6 DEF RowsAreOwned, PublishesRow
    <3>7. \A p, q \in Request :
            tx'[p].row # NoRow /\ tx'[q].row # NoRow /\ tx'[p].row.id = tx'[q].row.id => p = q
      BY <3>4 DEF RowsAreOwned
    <3> QED
      BY <3>2, <3>3, <3>6, <3>7 DEF RowsAreOwned
  <2> QED
    BY <1>1, <2>2, <2>3, <2>4, <2>5, RowEffects
<1>2. CASE UNCHANGED <<table, nextId, tx>>
  BY <1>2 DEF RowsAreOwned
<1> QED
  BY <1>1, <1>2 DEF Next, DisablePolicy, vars, dbVars

LEMMA Rows == Spec => []RowsAreOwned
BY RowsInit, RowsStep, Typing, PTL DEF Spec

\* Every variable keeps its type, no request is left with an open transaction,
\* and the id sequence is ahead of every row, whatever the requests, policies
\* and failures: TxShape says of every position what the transaction holds, and
\* RowsAreOwned where the ids of rows come from.
THEOREM TypeCorrect == Spec => []TypeOK
<1>1. Typed /\ TxShape /\ RowsAreOwned => TypeOK
  BY DEF TypeOK, TxShape, TxShapeOf, RowsAreOwned
<1> QED
  BY <1>1, Typing, Rows, PTL

\* No step touches an issued row: no transaction ever holds its id.
LEMMA IssuedStays ==
  Typed /\ TxShape /\ RowsAreOwned /\ [Next]_vars => Issued \subseteq Issued'
<1> SUFFICES ASSUME Typed, TxShape, RowsAreOwned, [Next]_vars PROVE Issued \subseteq Issued'
  OBVIOUS
<1>1. CASE UNCHANGED table
  BY <1>1 DEF Issued
<1>2. ASSUME NEW r \in Request, PublishesRow(r) PROVE Issued \subseteq Issued'
  <2>1. table' = {t \in table : t.id # tx[r].row.id} \cup {tx[r].row}
    BY <1>2 DEF PublishesRow, Publish
  <2>2. \A t \in Issued : t.id # tx[r].row.id
    BY <1>2 DEF RowsAreOwned, PublishesRow, Issued
  <2> QED
    BY <2>1, <2>2 DEF Issued
<1> QED
  BY <1>1, <1>2, RowEffects
  DEF Next, DisablePolicy, vars, dbVars, KeepsRow, LocksRow, InsertsRow

\* What was issued stays as it was issued, for good.
THEOREM IssuedRowsAreFinal == Spec => IssuedIsFinal
BY IssuedStays, Typing, Rows, PTL DEF Spec, IssuedIsFinal

-----------------------------------------------------------------------------
(* Trackings *)

\* A step of r writes neither rows nor trackings, or publishes both.
LEMMA TrackingEffects ==
  ASSUME NEW r \in Request, Typed, TxShape, Receive(r) \/ Step(r)
  PROVE  \/ UNCHANGED <<table, trackings>>
         \/ PublishesRow(r) /\ tx[r].tracking = Tracks(tx[r].row)
<1>1. CASE Receive(r) \/ Replay(r) \/ NotRecorded(r) \/ Plan(r) \/ Claim(r) \/ ReopenFailed(r)
  BY <1>1 DEF Receive, Replay, NotRecorded, Plan, Claim, ReopenFailed, dbVars
<1>2. CASE ReserveFresh(r) \/ DerivationFails(r) \/ Complete(r) \/ StatementFails(r)
  BY <1>2 DEF ReserveFresh, DerivationFails, Complete, StatementFails, dbVars
<1>3. CASE CreateTracking(r) \/ RecordAnswer(r)
  BY <1>3 DEF CreateTracking, RecordAnswer, dbVars
<1>4. CASE Commit(r) \/ CommitUnheard(r)
  <2>1. tx \in [Request -> TxType]
    BY DEF Typed, TxType
  <2> QED
    BY <1>4, <2>1, AtCommit DEF Commit, CommitUnheard, Publish, PublishesRow
<1> QED
  BY <1>1, <1>2, <1>3, <1>4 DEF Step

\* Whoever publishes a row publishes it issued, with its tracking, in the place of
\* a failed row or of none.
LEMMA TrackedStep ==
  Typed /\ TxShape /\ RowsAreOwned /\ IssuedIsTracked /\ [Next]_vars => IssuedIsTracked'
<1> SUFFICES ASSUME Typed, TxShape, RowsAreOwned, IssuedIsTracked, [Next]_vars
             PROVE  IssuedIsTracked'
  OBVIOUS
<1>1. CASE UNCHANGED <<table, trackings>>
  BY <1>1 DEF IssuedIsTracked, Issued
<1>2. ASSUME NEW r \in Request, PublishesRow(r), tx[r].tracking = Tracks(tx[r].row)
      PROVE  IssuedIsTracked'
  <2>1. table' = {t \in table : t.id # tx[r].row.id} \cup {tx[r].row}
    BY <1>2 DEF PublishesRow, Publish
  <2>2. trackings' = trackings \cup Tracks(tx[r].row)
    BY <1>2 DEF PublishesRow, Publish
  <2>3. Issued' = Issued \cup {tx[r].row}
    BY <1>2, <2>1 DEF RowsAreOwned, PublishesRow, Issued
  <2>4. \A t \in table' : t.status # "reserved"
    BY <1>2, <2>1 DEF IssuedIsTracked, PublishesRow
  <2> QED
    BY <2>2, <2>3, <2>4 DEF IssuedIsTracked, Tracks
<1> QED
  BY <1>1, <1>2, TrackingEffects DEF Next, DisablePolicy, vars, dbVars

LEMMA TrackedInit == Init => IssuedIsTracked
BY InheritedAssumption DEF Init, IssuedIsTracked, Issued

\* The poller's table and the index never part: exactly the issued rows are
\* tracked, under the amount and address they were issued with, and no
\* half-made reservation is visible, whatever fails and whoever retries.
THEOREM IssuedRowsAreTracked == Spec => []IssuedIsTracked
BY TrackedInit, TrackedStep, Typing, Rows, PTL DEF Spec

-----------------------------------------------------------------------------
(* Slots *)

\* The cursor lock keeps the next slot in one transaction's hands.
SlotsAreOwned ==
  /\ \A q, r \in Request :
       IsFresh(q) /\ IsFresh(r) /\ tx[q].row.policy = tx[r].row.policy => q = r
  /\ \A r \in Request, p \in Policy :
       IsFresh(r) /\ tx[r].row.policy = p => tx[r].row.slot = NextIndex(p)

\* MAX(slot_index) + 1 and the cursor agree on the next slot.
LEMMA NextIndexIsNext ==
  ASSUME Typed, NEW p \in Policy, NEW n \in 0..(MaxSlot + 1),
         SlotsOf(p) = 0..(n - 1), cursor[p] # NoCursor => cursor[p] = n
  PROVE  NextIndex(p) = n
<1> DEFINE P(m) == (\A s \in SlotsOf(p) : s < m) /\ (m = 0 \/ m - 1 \in SlotsOf(p))
<1>1. P(n)
  BY ConstantsAssumption
<1>2. \A m \in 0..(MaxSlot + 1) : P(m) => m = n
  <2>1. ASSUME NEW m \in 0..(MaxSlot + 1), P(m) PROVE m = n
    <3>1. n # 0 => n - 1 < m
      <4>1. n # 0 => n - 1 \in SlotsOf(p)
        BY ConstantsAssumption
      <4> QED
        BY <2>1, <4>1
    <3>2. m # 0 => m - 1 <= n - 1
      <4>1. m # 0 => m - 1 \in 0..(n - 1)
        BY <2>1
      <4> QED
        BY <4>1, ConstantsAssumption
    <3> QED
      BY <3>1, <3>2, ConstantsAssumption
  <2> QED
    BY <2>1
<1> HIDE DEF P
<1>3. (CHOOSE m \in 0..(MaxSlot + 1) : P(m)) = n
  BY <1>1, <1>2
<1> QED
  BY <1>3 DEF NextIndex, P

LEMMA SlotsInit == Init => SlotsAreOwned /\ SlotsAreDense
<1> SUFFICES ASSUME Init PROVE SlotsAreOwned /\ SlotsAreDense
  OBVIOUS
<1>1. SlotsAreOwned
  BY DEF Init, SlotsAreOwned, IsFresh, EmptyTx
<1>2. ASSUME NEW p \in Policy
      PROVE  \E n \in 0..(MaxSlot + 1) : /\ SlotsOf(p) = 0..(n - 1)
                                         /\ cursor[p] # NoCursor => cursor[p] = n
  <2>1. CASE cursor[p] # NoCursor
    <3>1. cursor[p] \in 1..(MaxSlot + 1) /\ SlotsOf(p) = 0..(cursor[p] - 1)
      BY <2>1 DEF Init
    <3> QED
      BY <3>1, ConstantsAssumption
  <2>2. CASE cursor[p] = NoCursor /\ table = {}
    <3>1. SlotsOf(p) = 0..(0 - 1)
      BY <2>2 DEF SlotsOf
    <3> QED
      BY <2>2, <3>1, ConstantsAssumption
  <2>3. CASE cursor[p] = NoCursor /\ table = Inherited
    BY <2>3, InheritedAssumption DEF SlotsOf
  <2> QED
    BY <2>1, <2>2, <2>3 DEF Init
<1>3. \A t, u \in table : t # u /\ t.policy = u.policy => t.slot # u.slot
  BY InheritedAssumption DEF Init
<1> QED
  BY <1>1, <1>2, <1>3 DEF SlotsAreDense

LEMMA SlotsStep ==
  /\ Typed /\ TxShape /\ RowsAreOwned /\ SlotsAreOwned /\ SlotsAreDense /\ [Next]_vars
  => SlotsAreOwned' /\ SlotsAreDense'
<1> SUFFICES ASSUME Typed, TxShape, RowsAreOwned, SlotsAreOwned, SlotsAreDense, [Next]_vars
             PROVE  SlotsAreOwned' /\ SlotsAreDense'
  OBVIOUS
<1>1. ASSUME NEW r \in Request, Receive(r) \/ Step(r), UNCHANGED <<table, cursor>>
      PROVE  SlotsAreOwned' /\ SlotsAreDense'
  <2>1. \A q \in Request \ {r} : tx'[q] = tx[q]
    BY <1>1, Frame
  <2>2. \A p : SlotsOf(p)' = SlotsOf(p) /\ NextIndex(p)' = NextIndex(p)
    BY <1>1 DEF SlotsOf, NextIndex
  <2>3. SlotsAreDense'
    BY <1>1, <2>2 DEF SlotsAreDense
  <2>4. \A q \in Request \ {r} : IsFresh(q)' <=> IsFresh(q)
    BY <1>1, <2>1 DEF IsFresh
  <2>5. CASE KeepsRow(r)
    <3>1. IsFresh(r)' => IsFresh(r) /\ SameSlot(tx'[r].row, tx[r].row)
      BY <1>1, <2>5 DEF KeepsRow, SameSlot, IsFresh
    <3> QED
      BY <2>1, <2>2, <2>3, <2>4, <3>1 DEF SlotsAreOwned, SameSlot
  <2>6. CASE LocksRow(r)
    <3>1. ~IsFresh(r)'
      BY <1>1, <2>6 DEF LocksRow, SameSlot, IsFresh, Reopenable
    <3> QED
      BY <2>1, <2>2, <2>3, <2>4, <3>1 DEF SlotsAreOwned
  <2>7. CASE InsertsRow(r)
    <3>1. \A q \in Request \ {r} : IsFresh(q)' => tx'[q].row.policy # tx'[r].row.policy
      BY <2>1, <2>4, <2>7 DEF InsertsRow, HoldsCursor
    <3>2. \A p \in Policy : tx'[r].row.policy = p => tx'[r].row.slot = NextIndex(p)
      BY <2>7 DEF InsertsRow
    <3> QED
      BY <2>1, <2>2, <2>3, <2>4, <3>1, <3>2 DEF SlotsAreOwned
  <2>8. CASE PublishesRow(r)
    <3>1. ~IsFresh(r)' /\ UNCHANGED cursor
      BY <1>1, <2>8 DEF PublishesRow, IsFresh, EmptyTx
    <3> QED
      BY <2>1, <2>2, <2>3, <2>4, <3>1 DEF SlotsAreOwned
  <2> QED
    BY <1>1, <2>5, <2>6, <2>7, <2>8, RowEffects
<1>2. ASSUME NEW r \in Request, Receive(r) \/ Step(r), PublishesRow(r)
      PROVE  SlotsAreOwned' /\ SlotsAreDense'
  <2> DEFINE row == tx[r].row
  <2>1. \A q \in Request \ {r} : tx'[q] = tx[q]
    BY <1>2, Frame
  <2>2. /\ row \in Row /\ row # NoRow /\ tx'[r].row = NoRow
        /\ table' = {t \in table : t.id # row.id} \cup {row}
        /\ cursor' = IF IsFresh(r) THEN [cursor EXCEPT ![row.policy] = row.slot + 1] ELSE cursor
    BY <1>2 DEF PublishesRow, Publish, EmptyTx
  <2>3. \A q \in Request \ {r} : IsFresh(q)' <=> IsFresh(q)
    <3>1. ASSUME NEW q \in Request \ {r}, tx[q].row # NoRow PROVE tx[q].row.id # row.id
      BY <2>2, <3>1 DEF RowsAreOwned
    <3> QED
      BY <2>1, <2>2, <3>1 DEF IsFresh
  <2>4. ~IsFresh(r)'
    BY <2>2 DEF IsFresh
  <2>5. CASE ~IsFresh(r)
    <3>1. PICK old \in table : old.id = row.id
      BY <2>2, <2>5 DEF IsFresh
    <3>2. old.policy = row.policy /\ old.slot = row.slot /\ \A t \in table : t.id = row.id => t = old
      BY <2>2, <3>1 DEF RowsAreOwned
    <3>3. \A p : SlotsOf(p)' = SlotsOf(p) /\ NextIndex(p)' = NextIndex(p)
      <4> SUFFICES ASSUME NEW p PROVE SlotsOf(p)' = SlotsOf(p) /\ NextIndex(p)' = NextIndex(p)
        OBVIOUS
      <4>1. SlotsOf(p)' = SlotsOf(p)
        <5>1. ASSUME NEW s PROVE s \in SlotsOf(p)' <=> s \in SlotsOf(p)
          BY <2>2, <3>1, <3>2 DEF SlotsOf
        <5> QED
          BY <5>1 DEF SlotsOf
      <4>2. cursor' = cursor
        BY <2>2, <2>5
      <4> QED
        BY <4>1, <4>2 DEF NextIndex
    <3>4. SlotsAreOwned'
      BY <2>1, <2>3, <2>4, <3>3 DEF SlotsAreOwned
    <3>5. \A t, u \in table' : t # u /\ t.policy = u.policy => t.slot # u.slot
      <4>1. \A t \in table : t.id # row.id => t # old
        BY <3>1
      <4> QED
        BY <2>2, <3>1, <3>2, <4>1, ConstantsAssumption DEF SlotsAreDense, Typed, Row
    <3> QED
      BY <2>2, <2>5, <3>3, <3>4, <3>5 DEF SlotsAreDense
  <2>6. CASE IsFresh(r)
    <3>0. PICK p0 \in Policy, n \in 0..MaxSlot : row.policy = p0 /\ row.slot = n
      BY <2>2 DEF Row
    <3>1. table' = table \cup {row} /\ cursor' = [cursor EXCEPT ![p0] = n + 1]
      BY <2>2, <2>6, <3>0 DEF IsFresh
    <3>2. SlotsOf(p0) = 0..(n - 1)
      <4>1. PICK m \in 0..(MaxSlot + 1) : SlotsOf(p0) = 0..(m - 1) /\ (cursor[p0] # NoCursor => cursor[p0] = m)
        BY DEF SlotsAreDense
      <4>2. n = NextIndex(p0)
        BY <2>6, <3>0 DEF SlotsAreOwned
      <4>3. NextIndex(p0) = m
        BY <4>1, NextIndexIsNext
      <4> QED
        BY <4>1, <4>2, <4>3
    <3>3. SlotsOf(p0)' = 0..n
      <4>1. SlotsOf(p0)' = SlotsOf(p0) \cup {n}
        <5>1. ASSUME NEW s PROVE s \in SlotsOf(p0)' <=> s \in SlotsOf(p0) \cup {n}
          BY <3>0, <3>1 DEF SlotsOf
        <5> QED
          BY <5>1
      <4>2. 0..(n - 1) \cup {n} = 0..n
        OBVIOUS
      <4> QED
        BY <3>2, <4>1, <4>2
    <3>4. cursor'[p0] = n + 1 /\ n + 1 \in 0..(MaxSlot + 1) /\ (n + 1) - 1 = n
      BY <3>1, ConstantsAssumption DEF Typed
    <3>5. ASSUME NEW p \in Policy, p # p0
          PROVE  SlotsOf(p)' = SlotsOf(p) /\ cursor'[p] = cursor[p] /\ NextIndex(p)' = NextIndex(p)
      <4>1. SlotsOf(p)' = SlotsOf(p)
        <5>1. ASSUME NEW s PROVE s \in SlotsOf(p)' <=> s \in SlotsOf(p)
          BY <3>0, <3>1, <3>5 DEF SlotsOf
        <5> QED
          BY <5>1
      <4>2. cursor'[p] = cursor[p]
        BY <3>1, <3>5 DEF Typed
      <4> QED
        BY <4>1, <4>2 DEF NextIndex
    <3>6. ASSUME NEW p \in Policy
          PROVE  \E m \in 0..(MaxSlot + 1) :
                   SlotsOf(p)' = 0..(m - 1) /\ (cursor'[p] # NoCursor => cursor'[p] = m)
      <4>1. CASE p = p0
        BY <3>3, <3>4, <4>1
      <4>2. CASE p # p0
        <5>1. PICK m \in 0..(MaxSlot + 1) : SlotsOf(p) = 0..(m - 1) /\ (cursor[p] # NoCursor => cursor[p] = m)
          BY DEF SlotsAreDense
        <5>2. SlotsOf(p)' = SlotsOf(p) /\ cursor'[p] = cursor[p]
          BY <3>5, <4>2
        <5> QED
          BY <5>1, <5>2
      <4> QED
        BY <4>1, <4>2
    <3>7. \A t \in table : t.policy = p0 => t.slot # n
      <4>1. \A t \in table : t.policy = p0 => t.slot \in SlotsOf(p0)
        BY DEF SlotsOf
      <4>2. n \notin 0..(n - 1)
        OBVIOUS
      <4> QED
        BY <3>2, <4>1, <4>2
    <3>8. ASSUME NEW p \in Policy, NEW t \in table', NEW u \in table',
                 t # u, t.policy = p, u.policy = p
          PROVE  t.slot # u.slot
      BY <3>0, <3>1, <3>7, <3>8 DEF SlotsAreDense
    <3>9. \A q \in Request \ {r} : IsFresh(q) => tx[q].row.policy # p0
      BY <2>6, <3>0 DEF SlotsAreOwned
    <3>10. ASSUME NEW q \in Request, NEW p \in Policy, IsFresh(q)', tx'[q].row.policy = p
           PROVE  tx'[q].row.slot = NextIndex(p)'
      <4>1. q # r /\ IsFresh(q) /\ tx'[q] = tx[q]
        BY <2>1, <2>3, <2>4, <3>10
      <4>2. p # p0
        BY <3>9, <3>10, <4>1
      <4>3. NextIndex(p)' = NextIndex(p)
        BY <3>5, <4>2
      <4> QED
        BY <3>10, <4>1, <4>3 DEF SlotsAreOwned
    <3>11. SlotsAreOwned'
      BY <2>1, <2>3, <2>4, <3>10 DEF SlotsAreOwned
    <3> QED
      BY <3>6, <3>8, <3>11 DEF SlotsAreDense
  <2> QED
    BY <2>5, <2>6
<1>3. CASE UNCHANGED <<table, cursor, tx>>
  BY <1>3 DEF SlotsAreOwned, SlotsAreDense, SlotsOf, NextIndex, IsFresh
<1> QED
  BY <1>1, <1>2, <1>3, RowEffects
  DEF Next, DisablePolicy, vars, dbVars, KeepsRow, LocksRow, InsertsRow

\* No slot is skipped, shared or burnt: the slots of a policy are numbered from
\* 0 up to its cursor, whatever requests fail, crash or run at the same time.
THEOREM SlotsStayDense == Spec => []SlotsAreDense
BY SlotsInit, SlotsStep, Typing, Rows, PTL DEF Spec

-----------------------------------------------------------------------------
(* Refusals *)

\* Only a request that was told nothing, its address or a 500 has issued.
IssuersAreTold ==
  \A r \in Request : made[r] # 0 => answer[r].outcome \in {"issued", "dependency"}

\* What a step of r does to answers: nothing, refuse r, which has issued nothing,
\* or issue.
KeepsAnswers == UNCHANGED <<answer, made>>

Refuses(r) ==
  /\ UNCHANGED <<table, made>> /\ made[r] = 0
  /\ answer'[r].outcome = "exhausted" => NextIndex(Ask[r].policy) > MaxSlot
  /\ answer'[r].outcome = "not_enabled" => Ask[r].policy \notin enabled

Issues(r) == answer'[r].outcome \in {"issued", "dependency"}

LEMMA AnswerEffects ==
  ASSUME NEW r \in Request, Typed, TxShape, Receive(r) \/ Step(r)
  PROVE  KeepsAnswers \/ Refuses(r) \/ Issues(r)
<1>0. answer \in [Request -> Answer] /\ (pc[r] # "answered" => made[r] = 0)
  BY DEF Typed, TxShape, TxShapeOf
<1>1. ASSUME NEW ans, RollBack(r, ans), UNCHANGED <<dbVars, made>>, pc[r] # "answered",
             ans.outcome = "exhausted" => NextIndex(Ask[r].policy) > MaxSlot,
             ans.outcome = "not_enabled" => Ask[r].policy \notin enabled
      PROVE  Refuses(r)
  BY <1>0, <1>1 DEF RollBack, Refuses, dbVars
<1>2. CASE Receive(r) \/ Claim(r) \/ ReopenFailed(r) \/ CreateTracking(r) \/ RecordAnswer(r)
  BY <1>2 DEF Receive, Claim, ReopenFailed, CreateTracking, RecordAnswer, KeepsAnswers
<1>3. CASE Replay(r)
  <2>1. ReplayedAnswer(r).outcome \notin {"exhausted", "not_enabled"}
    BY DEF ReplayedAnswer, Failed
  <2> QED
    BY <1>1, <1>3, <2>1 DEF Replay
<1>4. CASE NotRecorded(r) \/ DerivationFails(r) \/ Complete(r) \/ StatementFails(r)
  BY <1>1, <1>4 DEF NotRecorded, DerivationFails, Complete, StatementFails, Failed, KeepsAnswers
<1>5. CASE Plan(r)
  BY <1>1, <1>5 DEF Plan, Failed, KeepsAnswers
<1>6. CASE ReserveFresh(r)
  BY <1>1, <1>6 DEF ReserveFresh, Failed, KeepsAnswers
<1>7. CASE Commit(r) \/ CommitUnheard(r)
  BY <1>0, <1>7 DEF Commit, CommitUnheard, Issues, Failed
<1> QED
  BY <1>2, <1>3, <1>4, <1>5, <1>6, <1>7 DEF Step

\* A pool that was used up once stays so: rows keep their slots.
LEMMA PoolsStayFull ==
  ASSUME Typed, Typed', TxShape, RowsAreOwned, [Next]_vars, NEW p \in Policy,
         SlotsOf(p) = 0..MaxSlot
  PROVE  SlotsOf(p)' = 0..MaxSlot
<1>1. CASE UNCHANGED table
  BY <1>1 DEF SlotsOf
<1>2. ASSUME NEW r \in Request, PublishesRow(r) PROVE SlotsOf(p)' = 0..MaxSlot
  <2>1. table' = {t \in table : t.id # tx[r].row.id} \cup {tx[r].row}
    BY <1>2 DEF PublishesRow, Publish
  <2>2. \A t \in table : t.id = tx[r].row.id =>
          t.policy = tx[r].row.policy /\ t.slot = tx[r].row.slot
    BY <1>2 DEF PublishesRow, RowsAreOwned
  <2>3. \A t \in table : \E u \in table' : u.policy = t.policy /\ u.slot = t.slot
    BY <2>1, <2>2
  <2>4. SlotsOf(p) \subseteq SlotsOf(p)'
    BY <2>3 DEF SlotsOf
  <2>5. SlotsOf(p)' \subseteq 0..MaxSlot
    BY DEF SlotsOf, Typed, Row
  <2> QED
    BY <2>4, <2>5
<1> QED
  BY <1>1, <1>2, RowEffects
  DEF Next, DisablePolicy, vars, dbVars, KeepsRow, LocksRow, InsertsRow

\* The next slot is past the last one only when every slot is reserved.
LEMMA PastTheLast ==
  ASSUME Typed, SlotsAreDense, NEW p \in Policy, NextIndex(p) > MaxSlot
  PROVE  SlotsOf(p) = 0..MaxSlot
<1>1. PICK n \in 0..(MaxSlot + 1) :
        SlotsOf(p) = 0..(n - 1) /\ (cursor[p] # NoCursor => cursor[p] = n)
  BY DEF SlotsAreDense
<1>2. n = MaxSlot + 1
  BY <1>1, NextIndexIsNext, ConstantsAssumption
<1> QED
  BY <1>1, <1>2, ConstantsAssumption

LEMMA RefusalsStep ==
  /\ Typed /\ Typed' /\ TxShape /\ RowsAreOwned /\ SlotsAreDense
  /\ IssuersAreTold /\ RefusalsAreTrue /\ [Next]_vars
  => IssuersAreTold' /\ RefusalsAreTrue'
<1> SUFFICES ASSUME Typed, Typed', TxShape, RowsAreOwned, SlotsAreDense,
                    IssuersAreTold, RefusalsAreTrue, [Next]_vars
             PROVE  IssuersAreTold' /\ RefusalsAreTrue'
  OBVIOUS
<1>0. \A q \in Request : Ask[q].policy \in Policy
  BY ConstantsAssumption
<1>1. ASSUME NEW r \in Request, Receive(r) \/ Step(r) PROVE IssuersAreTold'
  <2>1. \A q \in Request \ {r} : answer'[q] = answer[q] /\ made'[q] = made[q]
    BY <1>1, Frame
  <2>2. KeepsAnswers \/ Refuses(r) \/ Issues(r)
    BY <1>1, AnswerEffects
  <2> QED
    BY <2>1, <2>2 DEF IssuersAreTold, KeepsAnswers, Refuses, Issues
<1>2. ASSUME UNCHANGED <<answer, made>> PROVE IssuersAreTold'
  BY <1>2 DEF IssuersAreTold
<1>3. IssuersAreTold'
  BY <1>1, <1>2 DEF Next, DisablePolicy, vars
<1>4. ASSUME NEW q \in Request, StatusCode(answer'[q].outcome) = 409 PROVE made'[q] = 0
  <2>1. StatusCode("issued") = 201 /\ StatusCode("dependency") = 500
    BY DEF StatusCode
  <2> QED
    BY <1>3, <1>4, <2>1 DEF IssuersAreTold
<1>5. ASSUME NEW q \in Request, answer[q].outcome = "exhausted"
      PROVE  SlotsOf(Ask[q].policy)' = 0..MaxSlot
  BY <1>0, <1>5, PoolsStayFull DEF RefusalsAreTrue
<1>6. enabled' \subseteq enabled
  BY Frame DEF Next, DisablePolicy, vars
<1>7. ASSUME NEW q \in Request
      PROVE  /\ answer'[q].outcome = "exhausted" => SlotsOf(Ask[q].policy)' = 0..MaxSlot
             /\ answer'[q].outcome = "not_enabled" => Ask[q].policy \notin enabled'
  <2>1. CASE answer'[q] = answer[q]
    BY <1>5, <1>6, <2>1 DEF RefusalsAreTrue
  <2>2. CASE answer'[q] # answer[q]
    <3>1. Refuses(q) \/ Issues(q)
      BY <2>2, Frame, AnswerEffects DEF Next, DisablePolicy, vars, KeepsAnswers
    <3>2. CASE Refuses(q)
      BY <1>0, <1>6, <3>2, PastTheLast, PoolsStayFull DEF Refuses
    <3>3. CASE Issues(q)
      BY <3>3 DEF Issues
    <3> QED
      BY <3>1, <3>2, <3>3
  <2> QED
    BY <2>1, <2>2
<1> QED
  BY <1>3, <1>4, <1>7 DEF RefusalsAreTrue

\* A client that is refused with 409 has no address waiting for it, and is told
\* the truth: its pool is used up, or its policy disabled, for good.
THEOREM RefusalsTrue == Spec => []RefusalsAreTrue
<1>1. Init => IssuersAreTold /\ RefusalsAreTrue
  BY DEF Init, IssuersAreTold, RefusalsAreTrue, NoAnswer
<1> QED
  BY <1>1, RefusalsStep, Typing, Rows, SlotsStayDense, PTL DEF Spec

-----------------------------------------------------------------------------
(* Idempotent issuance *)

\* A record names the issued row that answers its key.
RecordsAreKept ==
  /\ \A k \in Key : idem[k] # NoRecord =>
       /\ idem[k].id # 0
       /\ \E t \in Issued : /\ t.id = idem[k].id
                            /\ t.policy = idem[k].policy /\ t.payload = idem[k].payload
  /\ \A r \in Request : pc[r] = "reload" => idem[Ask[r].key] # NoRecord

\* An address is on one row, committed or about to be.
Addressed(r) == tx[r].row # NoRow /\ tx[r].row.address # NoAddress

AddressesAreOwned ==
  /\ \A t, u \in table : t.address # NoAddress /\ t.address = u.address => t = u
  /\ \A r \in Request, t \in table :
       Addressed(r) /\ t.address = tx[r].row.address => t.id = tx[r].row.id
  /\ \A q, r \in Request :
       Addressed(q) /\ Addressed(r) /\ tx[q].row.address = tx[r].row.address => q = r

\* What a step of r does to records: it leaves them, or completes r's own.
LEMMA RecordEffects ==
  ASSUME NEW r \in Request, Typed, TxShape, Receive(r) \/ Step(r)
  PROVE  \/ UNCHANGED idem
         \/ /\ PublishesRow(r) /\ Ask[r].key # NoKey /\ Ask[r].key \in Key
            /\ tx[r].row.policy = Ask[r].policy /\ tx[r].row.payload = Ask[r].payload
            /\ idem' = [idem EXCEPT ![Ask[r].key] = Claimed(r, tx[r].row.id)]
<1>1. CASE Receive(r) \/ Replay(r) \/ NotRecorded(r) \/ Plan(r) \/ Claim(r) \/ ReopenFailed(r)
  BY <1>1 DEF Receive, Replay, NotRecorded, Plan, Claim, ReopenFailed, dbVars
<1>2. CASE ReserveFresh(r) \/ DerivationFails(r) \/ Complete(r) \/ StatementFails(r)
  BY <1>2 DEF ReserveFresh, DerivationFails, Complete, StatementFails, dbVars
<1>3. CASE CreateTracking(r) \/ RecordAnswer(r)
  BY <1>3 DEF CreateTracking, RecordAnswer, dbVars
<1>4. CASE Commit(r) \/ CommitUnheard(r)
  <2>1. tx \in [Request -> TxType] /\ pc[r] = "commit" /\ Publish(r) /\ UNCHANGED nextId
    BY <1>4 DEF Typed, TxType, Commit, CommitUnheard
  <2>2. PublishesRow(r)
    BY <2>1, AtCommit DEF Publish, PublishesRow
  <2>3. CASE Ask[r].key = NoKey
    BY <2>1, <2>3, AtCommit DEF Publish
  <2>4. CASE Ask[r].key # NoKey
    BY <2>1, <2>2, <2>4, AtCommit, NullsAssumption DEF Publish
  <2> QED
    BY <2>3, <2>4
<1> QED
  BY <1>1, <1>2, <1>3, <1>4 DEF Step

\* A request looks at its key again only after its claim met the record.
LEMMA ReloadEffects ==
  ASSUME NEW r \in Request, Typed, TxShape, Receive(r) \/ Step(r), pc'[r] = "reload"
  PROVE  idem[Ask[r].key] # NoRecord
<1> USE DEF Goto, RollBack
<1>0. pc \in [Request -> Position]
  BY DEF Typed
<1>1. CASE Receive(r) \/ Replay(r) \/ NotRecorded(r) \/ Plan(r)
  BY <1>0, <1>1 DEF Receive, Replay, NotRecorded, Plan
<1>2. CASE Claim(r)
  BY <1>0, <1>2 DEF Claim
<1>3. CASE ReopenFailed(r) \/ ReserveFresh(r) \/ DerivationFails(r) \/ Complete(r) \/ StatementFails(r)
  BY <1>0, <1>3 DEF ReopenFailed, ReserveFresh, DerivationFails, Complete, StatementFails
<1>4. CASE CreateTracking(r) \/ RecordAnswer(r)
  BY <1>0, <1>4 DEF CreateTracking, RecordAnswer
<1>5. CASE Commit(r) \/ CommitUnheard(r)
  BY <1>0, <1>5 DEF Commit, CommitUnheard, Publish
<1> QED
  BY <1>1, <1>2, <1>3, <1>4, <1>5 DEF Step

LEMMA RecordsStep ==
  Typed /\ TxShape /\ RowsAreOwned /\ RecordsAreKept /\ [Next]_vars => RecordsAreKept'
<1> SUFFICES ASSUME Typed, TxShape, RowsAreOwned, RecordsAreKept, [Next]_vars
             PROVE  RecordsAreKept'
  OBVIOUS
<1>1. Issued \subseteq Issued'
  BY IssuedStays
<1>2. ASSUME UNCHANGED <<idem, pc>> PROVE RecordsAreKept'
  BY <1>1, <1>2 DEF RecordsAreKept
<1>3. ASSUME NEW r \in Request, Receive(r) \/ Step(r) PROVE RecordsAreKept'
  <2>1. \A q \in Request \ {r} : pc'[q] = pc[q]
    BY <1>3, Frame
  <2>2. \A q \in Request : pc'[q] = "reload" => idem[Ask[q].key] # NoRecord
    BY <1>3, <2>1, ReloadEffects DEF RecordsAreKept
  <2>3. CASE UNCHANGED idem
    BY <1>1, <2>2, <2>3 DEF RecordsAreKept
  <2>4. CASE PublishesRow(r) /\ Ask[r].key \in Key
             /\ tx[r].row.policy = Ask[r].policy /\ tx[r].row.payload = Ask[r].payload
             /\ idem' = [idem EXCEPT ![Ask[r].key] = Claimed(r, tx[r].row.id)]
    <3>1. tx[r].row \in Issued' /\ tx[r].row.id # 0
      BY <2>4, ConstantsAssumption DEF PublishesRow, Publish, Issued, Row
    <3>2. Claimed(r, tx[r].row.id) # NoRecord
      BY <2>4, NullsAssumption, ConstantsAssumption DEF Claimed, Record, PublishesRow, Row
    <3>3. /\ idem \in [Key -> Record \cup {NoRecord}]
          /\ idem'[Ask[r].key] = Claimed(r, tx[r].row.id)
          /\ \A k \in Key \ {Ask[r].key} : idem'[k] = idem[k]
      BY <2>4 DEF Typed
    <3>4. ASSUME NEW k \in Key, idem'[k] # NoRecord
          PROVE  /\ idem'[k].id # 0
                 /\ \E t \in Issued' : /\ t.id = idem'[k].id
                                       /\ t.policy = idem'[k].policy
                                       /\ t.payload = idem'[k].payload
      <4>1. CASE k = Ask[r].key
        BY <2>4, <3>1, <3>3, <4>1 DEF Claimed
      <4>2. CASE k # Ask[r].key
        BY <1>1, <3>3, <3>4, <4>2 DEF RecordsAreKept
      <4> QED
        BY <4>1, <4>2
    <3>5. \A q \in Request : pc'[q] = "reload" => idem'[Ask[q].key] # NoRecord
      <4>1. \A k : idem[k] # NoRecord => idem'[k] # NoRecord
        BY <2>4, <3>2, <3>3 DEF Typed
      <4> QED
        BY <2>2, <4>1
    <3> QED
      BY <3>4, <3>5 DEF RecordsAreKept
  <2> QED
    BY <1>3, <2>3, <2>4, RecordEffects
<1> QED
  BY <1>2, <1>3 DEF Next, DisablePolicy, vars, dbVars

\* What a step of r does to addresses: keep the one its row has (or drop it),
\* give its row one that no other row has, or publish its row.
KeepsAddress(r) ==
  /\ UNCHANGED table
  /\ Addressed(r)' => Addressed(r) /\ tx'[r].row = tx[r].row

WritesAddress(r) ==
  /\ UNCHANGED table
  /\ tx[r].row # NoRow /\ tx'[r].row.id = tx[r].row.id
  /\ \A q \in Request \ {r} : ~HoldsAddress(q, tx'[r].row.address)
  /\ \A t \in table : t.address = tx'[r].row.address => t.id = tx[r].row.id

LEMMA AddressEffects ==
  ASSUME NEW r \in Request, Typed, TxShape, Receive(r) \/ Step(r)
  PROVE  KeepsAddress(r) \/ WritesAddress(r) \/ PublishesRow(r)
<1>0. tx \in [Request -> TxType] /\ tx[r] \in TxType /\ TxShapeOf(r)
  BY DEF Typed, TxShape, TxType
<1>1. ASSUME NEW ans, RollBack(r, ans), UNCHANGED table PROVE KeepsAddress(r)
  BY <1>0, <1>1 DEF KeepsAddress, Addressed, RollBack, EmptyTx
<1>2. ASSUME UNCHANGED table, tx'[r].row = tx[r].row PROVE KeepsAddress(r)
  BY <1>2 DEF KeepsAddress, Addressed
<1>3. CASE Receive(r) \/ NotRecorded(r) \/ Plan(r) \/ Replay(r)
  BY <1>1, <1>2, <1>3 DEF Receive, NotRecorded, Plan, Replay, dbVars
<1>4. CASE DerivationFails(r) \/ StatementFails(r)
  BY <1>1, <1>4 DEF DerivationFails, StatementFails, dbVars
<1>5. CASE Claim(r)
  BY <1>0, <1>2, <1>5 DEF Claim, dbVars, TxType
<1>6. CASE ReopenFailed(r)
  <2>1. ASSUME NEW t \in Reopenable(r),
               tx' = [tx EXCEPT ![r].row =
                 [t EXCEPT !.status = "reserved", !.payload = Ask[r].payload,
                           !.address = NoAddress]]
        PROVE  ~Addressed(r)'
    <3>1. tx'[r].row = [t EXCEPT !.status = "reserved", !.payload = Ask[r].payload,
                                 !.address = NoAddress]
      BY <1>0, <2>1 DEF TxType
    <3>2. t \in Row
      BY DEF Reopenable, Typed
    <3> QED
      BY <3>1, <3>2 DEF Addressed, Row
  <2> QED
    BY <1>2, <1>6, <2>1 DEF ReopenFailed, KeepsAddress, dbVars
<1>7. CASE ReserveFresh(r)
  <2>1. ASSUME tx' = [tx EXCEPT ![r].row =
                 [id |-> nextId, policy |-> Ask[r].policy, slot |-> NextIndex(Ask[r].policy),
                  payload |-> Ask[r].payload, status |-> "reserved", address |-> NoAddress]]
        PROVE  ~Addressed(r)'
    BY <1>0, <2>1 DEF TxType, Addressed
  <2> QED
    BY <1>1, <1>7, <2>1 DEF ReserveFresh, KeepsAddress, dbVars
<1>8. CASE Complete(r)
  <2>1. CASE \E t \in table : t.id # tx[r].row.id /\ t.address = Derived(r)
    BY <1>1, <1>8, <2>1 DEF Complete, dbVars
  <2>2. CASE ~ \E t \in table : t.id # tx[r].row.id /\ t.address = Derived(r)
    <3>1. tx[r].row \in Row /\ tx[r].row # NoRow
      BY <1>0, <1>8 DEF Complete, TxShapeOf, TxType
    <3>2. tx'[r].row = [tx[r].row EXCEPT !.status = "issued", !.address = Derived(r)]
      BY <1>0, <1>8, <2>2 DEF Complete, TxType
    <3>3. tx'[r].row.id = tx[r].row.id /\ tx'[r].row.address = Derived(r)
      BY <3>1, <3>2 DEF Row
    <3> QED
      BY <1>8, <2>2, <3>1, <3>3 DEF Complete, WritesAddress, dbVars
  <2> QED
    BY <2>1, <2>2
<1>9. CASE CreateTracking(r) \/ RecordAnswer(r)
  <2>1. tx'[r].row = tx[r].row
    BY <1>0, <1>9 DEF CreateTracking, RecordAnswer, TxType
  <2> QED
    BY <1>2, <1>9, <2>1 DEF CreateTracking, RecordAnswer, dbVars
<1>10. CASE Commit(r) \/ CommitUnheard(r)
  BY <1>0, <1>10, AtCommit DEF Commit, CommitUnheard, Publish, PublishesRow
<1> QED
  BY <1>3, <1>4, <1>5, <1>6, <1>7, <1>8, <1>9, <1>10 DEF Step

LEMMA AddressesStep ==
  Typed /\ TxShape /\ RowsAreOwned /\ AddressesAreOwned /\ [Next]_vars => AddressesAreOwned'
<1> SUFFICES ASSUME Typed, TxShape, RowsAreOwned, AddressesAreOwned, [Next]_vars
             PROVE  AddressesAreOwned'
  OBVIOUS
<1>1. ASSUME NEW r \in Request, Receive(r) \/ Step(r) PROVE AddressesAreOwned'
  <2>1. \A q \in Request \ {r} : tx'[q] = tx[q] /\ (Addressed(q)' <=> Addressed(q))
    BY <1>1, Frame DEF Addressed
  <2>2. CASE KeepsAddress(r)
    BY <2>1, <2>2 DEF AddressesAreOwned, KeepsAddress
  <2>3. CASE WritesAddress(r)
    <3>1. \A q \in Request \ {r} : Addressed(q)' => tx'[q].row.address # tx'[r].row.address
      BY <2>1, <2>3 DEF WritesAddress, HoldsAddress, Addressed
    <3> QED
      BY <2>1, <2>3, <3>1 DEF AddressesAreOwned, WritesAddress
  <2>4. CASE PublishesRow(r)
    <3>1. table' = {t \in table : t.id # tx[r].row.id} \cup {tx[r].row} /\ ~Addressed(r)'
      BY <2>4 DEF PublishesRow, Publish, EmptyTx, Addressed
    <3>2. tx[r].row.address # NoAddress => Addressed(r)
      BY <2>4 DEF PublishesRow, Addressed
    <3>3. \A t, u \in table' : t.address # NoAddress /\ t.address = u.address => t = u
      BY <3>1, <3>2 DEF AddressesAreOwned
    <3>4. \A q \in Request, t \in table' :
            Addressed(q)' /\ t.address = tx'[q].row.address => t.id = tx'[q].row.id
      BY <2>1, <3>1, <3>2 DEF AddressesAreOwned, Addressed
    <3> QED
      BY <2>1, <3>1, <3>3, <3>4 DEF AddressesAreOwned
  <2> QED
    BY <1>1, <2>2, <2>3, <2>4, AddressEffects
<1>2. CASE UNCHANGED <<table, tx>>
  BY <1>2 DEF AddressesAreOwned, Addressed
<1> QED
  BY <1>1, <1>2 DEF Next, DisablePolicy, vars, dbVars

LEMMA Promises == Spec => [](RecordsAreKept /\ AddressesAreOwned)
<1>1. Init => RecordsAreKept /\ AddressesAreOwned
  BY InheritedAssumption
  DEF Init, RecordsAreKept, AddressesAreOwned, Addressed, EmptyTx
<1> QED
  BY <1>1, RecordsStep, AddressesStep, Typing, Rows, PTL DEF Spec

PaymentOf(t) == [id |-> t.id, policy |-> t.policy, payload |-> t.payload, address |-> t.address]

\* The status query answers about every issued row, with what it was issued with.
LEMMA PaymentsAreIssued ==
  ASSUME RowsAreOwned, IssuedIsTracked
  PROVE  Payments = {PaymentOf(t) : t \in Issued}
<1>1. ASSUME NEW t \in Issued PROVE FindStatus(t.id) = {PaymentOf(t)}
  <2>1. {u \in table : u.id = t.id /\ u.status = "issued"} = {t}
    BY DEF RowsAreOwned, Issued
  <2>2. \A u \in Issued : u.id = t.id => u = t
    BY DEF RowsAreOwned, Issued
  <2>3. {w \in trackings : w.id = t.id} = Tracks(t)
    BY <2>2 DEF IssuedIsTracked, Tracks
  <2>4. FindStatus(t.id) =
          {[id |-> t.id, policy |-> u.policy, payload |-> v.payload, address |-> v.address] :
             u \in {t}, v \in Tracks(t)}
    BY <2>1, <2>3 DEF FindStatus
  <2>5. \A x : x \in FindStatus(t.id) <=> x = PaymentOf(t)
    BY <2>4 DEF Tracks, PaymentOf
  <2> QED
    BY <2>5
<1>2. ASSUME NEW t \in table, NEW w \in FindStatus(t.id)
      PROVE  \E u \in Issued : w = PaymentOf(u)
  <2>1. PICK u \in Issued : u.id = t.id
    BY <1>2 DEF FindStatus, Issued
  <2> QED
    BY <1>1, <1>2, <2>1
<1>3. \A t \in Issued : t \in table
  BY DEF Issued
<1> QED
  BY <1>1, <1>2, <1>3 DEF Payments

keysBar == [k \in Key |-> IF idem[k] = NoRecord THEN 0 ELSE idem[k].id]

\* What the next-state relation of idempotent issuance asks of a step of r.
IssuanceInv ==
  Typed /\ TxShape /\ KeysAreHeld /\ RowsAreOwned /\ IssuedIsTracked /\ RecordsAreKept
  /\ AddressesAreOwned

LEMMA Told ==
  ASSUME NEW r \in Request, NEW ans, Typed, TxShape, pc[r] # "answered",
         answer' = [answer EXCEPT ![r] = ans]
  PROVE  Issuance!Tell(r, ans)
BY DEF TxShape, TxShapeOf, NoAnswer, Issuance!Tell, Issuance!Unanswered, Issuance!Answered

\* A commit issues a payment of its own, heard or not.
LEMMA CommitIssues ==
  ASSUME NEW r \in Request, IssuanceInv, IssuanceInv', Commit(r) \/ CommitUnheard(r)
  PROVE  Issuance!Issue(r)
<1> DEFINE row == tx[r].row
           w == PaymentOf(row)
<1>0. /\ Typed /\ TxShape /\ KeysAreHeld /\ RowsAreOwned /\ IssuedIsTracked
      /\ AddressesAreOwned /\ RowsAreOwned' /\ IssuedIsTracked'
  BY DEF IssuanceInv
<1>1. /\ pc[r] = "commit" /\ Publish(r)
      /\ row \in Row /\ row # NoRow /\ row.status = "issued" /\ row.address \in Address
      /\ row.policy = Ask[r].policy /\ row.payload = Ask[r].payload
      /\ Ask[r].key = NoKey => tx[r].claim = NoRecord
      /\ Ask[r].key # NoKey => /\ tx[r].claim = Claimed(r, row.id)
                               /\ tx[r].claim \in Record /\ Ask[r].key \in Key
  BY <1>0, AtCommit DEF Commit, CommitUnheard
<1>2. w \in [id: 1..MaxId, policy: Policy, payload: Payload, address: Address]
  BY <1>1 DEF PaymentOf, Row
<1>3. Issuance!AsAsked(r, w)
  BY <1>1 DEF PaymentOf, Issuance!AsAsked
<1>4. \A v \in Payments : v.id # w.id /\ v.address # w.address
  <2>1. \A t \in Issued : t.id # row.id
    BY <1>0, <1>1 DEF RowsAreOwned, Issued
  <2>2. \A t \in Issued : t.address # row.address
    <3>1. Addressed(r)
      BY <1>1, ConstantsAssumption DEF Addressed
    <3> QED
      BY <1>0, <2>1, <3>1 DEF AddressesAreOwned, Issued
  <2> QED
    BY <1>0, <2>1, <2>2, PaymentsAreIssued DEF PaymentOf
<1>5. Ask[r].key # NoKey => keysBar[Ask[r].key] = 0
  BY <1>0, <1>1, NullsAssumption DEF KeysAreHeld, keysBar
<1>6. Payments' = Payments \cup {w}
  <2>1. table' = {t \in table : t.id # row.id} \cup {row}
    BY <1>1 DEF Publish
  <2>2. Issued' = Issued \cup {row}
    BY <1>0, <1>1, <2>1 DEF RowsAreOwned, Issued
  <2>3. Payments' = {PaymentOf(t) : t \in Issued'}
    <3>1. (Payments = {PaymentOf(t) : t \in Issued})'
      BY <1>0, PaymentsAreIssued, PTL
    <3> QED
      BY <3>1 DEF PaymentOf
  <2> QED
    BY <1>0, <2>2, <2>3, PaymentsAreIssued
<1>7. keysBar' = [k \in Key |-> IF k = Ask[r].key THEN w.id ELSE keysBar[k]]
  <2>1. CASE Ask[r].key = NoKey
    <3>1. idem' = idem
      BY <1>1, <2>1 DEF Publish
    <3> QED
      BY <2>1, <3>1, ConstantsAssumption DEF keysBar
  <2>2. CASE Ask[r].key # NoKey
    <3>1. idem' = [idem EXCEPT ![Ask[r].key] = Claimed(r, row.id)]
          /\ Claimed(r, row.id) # NoRecord
      BY <1>1, <2>2, NullsAssumption DEF Publish
    <3>2. idem \in [Key -> Record \cup {NoRecord}]
      BY <1>0 DEF Typed
    <3> QED
      BY <1>1, <2>2, <3>1, <3>2 DEF keysBar, Claimed, PaymentOf
  <2> QED
    BY <2>1, <2>2
<1>8. \/ Issuance!Tell(r, Issuance!Answered("issued", w.id))
      \/ Issuance!Tell(r, Issuance!Answered("dependency", 0))
  BY <1>0, <1>1, Told DEF Commit, CommitUnheard, Failed, PaymentOf, Issuance!Answered
<1> HIDE DEF w, row
<1> QED
  BY <1>2, <1>3, <1>4, <1>5, <1>6, <1>7, <1>8 DEF Issuance!Issue, keysBar

\* Whoever repeats a request under its key is given its payment or refused.
LEMMA ReplayReplays ==
  ASSUME NEW r \in Request, IssuanceInv, Replay(r), UNCHANGED <<Payments, keysBar>>
  PROVE  Issuance!Replay(r) \/ Issuance!Refuse(r)
<1> DEFINE rec == idem[Ask[r].key]
<1>0. /\ Typed /\ TxShape /\ RowsAreOwned /\ IssuedIsTracked /\ RecordsAreKept
      /\ pc[r] # "answered" /\ Ask[r].key \in Key /\ rec # NoRecord
  BY ConstantsAssumption DEF IssuanceInv, Replay, TxShape, TxShapeOf
<1>1. PICK t \in Issued : t.id = rec.id /\ t.policy = rec.policy /\ t.payload = rec.payload
  BY <1>0 DEF RecordsAreKept
<1>2. rec.id # 0 /\ t \in table /\ t.status = "issued"
  BY <1>0, <1>1 DEF RecordsAreKept, Issued
<1>3. PaymentOf(t) \in Payments /\ Issuance!Names(r, PaymentOf(t))
  BY <1>0, <1>1, PaymentsAreIssued, ConstantsAssumption DEF Issuance!Names, PaymentOf
<1>4. Issuance!Tell(r, ReplayedAnswer(r))
  BY <1>0, Told DEF Replay, RollBack
<1>5. CASE rec.policy # Ask[r].policy \/ rec.payload # Ask[r].payload
  <2>1. ReplayedAnswer(r) = Issuance!Answered("conflict", 0)
    BY <1>2, <1>5 DEF ReplayedAnswer, Failed, Issuance!Answered
  <2>2. ~Issuance!AsAsked(r, PaymentOf(t))
    BY <1>1, <1>5 DEF Issuance!AsAsked, PaymentOf
  <2> QED
    BY <1>3, <1>4, <2>1, <2>2 DEF Issuance!Refuse, keysBar
<1>6. CASE rec.policy = Ask[r].policy /\ rec.payload = Ask[r].payload
  <2>1. ReplayedAnswer(r) = Issuance!Answered("replayed", PaymentOf(t).id)
    BY <1>1, <1>2, <1>6 DEF ReplayedAnswer, Issuance!Answered, PaymentOf
  <2>2. Issuance!AsAsked(r, PaymentOf(t))
    BY <1>1, <1>6 DEF Issuance!AsAsked, PaymentOf
  <2> QED
    BY <1>3, <1>4, <2>1, <2>2 DEF Issuance!Replay, keysBar
<1> QED
  BY <1>5, <1>6

LEMMA FailureRefuses ==
  ASSUME NEW r \in Request, IssuanceInv, pc[r] # "answered",
         NEW why \in {"dependency", "derivation_failed", "exhausted", "not_enabled"},
         RollBack(r, Failed(why)), UNCHANGED <<Payments, keysBar>>
  PROVE  Issuance!Refuse(r)
<1>1. Issuance!Tell(r, Issuance!Answered(why, 0))
  BY Told DEF RollBack, Failed, IssuanceInv, Issuance!Answered
<1> QED
  BY <1>1 DEF Issuance!Refuse, keysBar

LEMMA IssuanceStep ==
  IssuanceInv /\ IssuanceInv' /\ [Next]_vars => [Issuance!Next]_(Issuance!vars)
<1> SUFFICES ASSUME IssuanceInv, IssuanceInv', [Next]_vars
             PROVE  [Issuance!Next]_(Issuance!vars)
  OBVIOUS
<1>1. ASSUME UNCHANGED dbVars PROVE UNCHANGED <<Payments, keysBar>>
  BY <1>1 DEF dbVars, Payments, FindStatus, keysBar
<1>2. ASSUME UNCHANGED <<dbVars, answer>> PROVE UNCHANGED Issuance!vars
  BY <1>1, <1>2 DEF Issuance!vars, keysBar
<1>3. ASSUME NEW r \in Request, Receive(r) \/ Step(r)
      PROVE  \/ Issuance!Issue(r) \/ Issuance!Replay(r) \/ Issuance!Refuse(r)
             \/ UNCHANGED Issuance!vars
  <2>1. CASE Receive(r) \/ Claim(r) \/ ReopenFailed(r) \/ CreateTracking(r) \/ RecordAnswer(r)
    BY <1>2, <2>1 DEF Receive, Claim, ReopenFailed, CreateTracking, RecordAnswer
  <2>2. CASE Replay(r)
    BY <1>1, <2>2, ReplayReplays DEF Replay
  <2>3. CASE NotRecorded(r)
    <3>1. pc[r] = "lookup"
      BY <2>3 DEF NotRecorded, IssuanceInv, RecordsAreKept
    <3> QED
      BY <1>2, <2>3, <3>1 DEF NotRecorded
  <2>4. CASE Plan(r)
    BY <1>1, <1>2, <2>4, FailureRefuses DEF Plan
  <2>5. CASE ReserveFresh(r)
    BY <1>1, <1>2, <2>5, FailureRefuses DEF ReserveFresh
  <2>6. CASE Complete(r)
    BY <1>1, <1>2, <2>6, FailureRefuses DEF Complete
  <2>7. CASE DerivationFails(r) \/ StatementFails(r)
    BY <1>1, <2>7, FailureRefuses DEF DerivationFails, StatementFails
  <2>8. CASE Commit(r) \/ CommitUnheard(r)
    BY <2>8, CommitIssues
  <2> QED
    BY <1>3, <2>1, <2>2, <2>3, <2>4, <2>5, <2>6, <2>7, <2>8 DEF Step
<1>4. CASE UNCHANGED <<dbVars, answer>>
  BY <1>2, <1>4
<1> QED
  BY <1>3, <1>4 DEF Next, DisablePolicy, vars, Issuance!Next

LEMMA IssuanceInit == Init => Issuance!Init
<1> SUFFICES ASSUME Init PROVE Issuance!Init
  OBVIOUS
<1>1. Payments = {}
  BY DEF Init, Payments, FindStatus
<1> QED
  BY <1>1
  DEF Init, NoAnswer, Issuance!Init, Issuance!Unanswered, Issuance!Answered

\* Concurrent transactions, retries, rollbacks, unheard commits and failed slots
\* taken up again are idempotent issuance to those who ask: every answer is one it
\* gives, in an order it could have given them.
THEOREM ImplementsIssuance == Spec => IssuanceSpec
<1>1. Init => KeysAreHeld
  BY DEF Init, KeysAreHeld, EmptyTx
<1>2. Spec => []KeysAreHeld
  BY <1>1, Typing, KeysStep, PTL DEF Spec
<1>3. Spec => []IssuanceInv
  BY <1>2, Typing, Rows, IssuedRowsAreTracked, Promises, PTL DEF IssuanceInv
<1> QED
  BY <1>3, IssuanceInit, IssuanceStep, PTL DEF Spec, IssuanceSpec, Issuance!Spec

-----------------------------------------------------------------------------
(* What a client may do with an answer *)

\* The client of r was told the id of a payment.
Given(r) == answer[r].outcome \in {"issued", "replayed"}

\* Row t is what r asked for and was told.
Fulfils(t, r) ==
  t.id = answer[r].id /\ t.policy = Ask[r].policy /\ t.payload = Ask[r].payload

\* An id that was told is on record for the key it was asked under, or for nobody.
AnswersOnRecord ==
  /\ \A r \in Request : Given(r) => \E t \in Issued : Fulfils(t, r)
  /\ \A r \in Request : Given(r) /\ Ask[r].key # NoKey =>
       idem[Ask[r].key] # NoRecord /\ idem[Ask[r].key].id = answer[r].id
  /\ \A r \in Request : Given(r) /\ Ask[r].key = NoKey =>
       \A k \in Key : idem[k] # NoRecord => idem[k].id # answer[r].id
  /\ \A q, r \in Request :
       /\ Given(q) /\ Given(r) /\ answer[q].id = answer[r].id
       /\ Ask[q].key = NoKey /\ Ask[r].key = NoKey
       => q = r
  /\ \A k, l \in Key :
       idem[k] # NoRecord /\ idem[l] # NoRecord /\ idem[k].id = idem[l].id => k = l

\* What a step of r does to answers: it tells no id it had not told, or the one
\* on record, or issues one.
TellsNothing(r) == UNCHANGED idem /\ (Given(r)' => answer'[r] = answer[r])

TellsRecord(r) ==
  /\ UNCHANGED idem /\ Ask[r].key \in Key /\ idem[Ask[r].key] # NoRecord
  /\ Given(r)' => /\ answer'[r].id = idem[Ask[r].key].id
                  /\ idem[Ask[r].key].policy = Ask[r].policy
                  /\ idem[Ask[r].key].payload = Ask[r].payload

TellsOwn(r) ==
  /\ PublishesRow(r)
  /\ tx[r].row.policy = Ask[r].policy /\ tx[r].row.payload = Ask[r].payload
  /\ Given(r)' => answer'[r].id = tx[r].row.id
  /\ Ask[r].key = NoKey => UNCHANGED idem
  /\ Ask[r].key # NoKey =>
       /\ Ask[r].key \in Key
       /\ idem' = [idem EXCEPT ![Ask[r].key] = Claimed(r, tx[r].row.id)]
       /\ idem[Ask[r].key] = NoRecord

LEMMA GivenEffects ==
  ASSUME NEW r \in Request, Typed, TxShape, KeysAreHeld, Receive(r) \/ Step(r)
  PROVE  TellsNothing(r) \/ TellsRecord(r) \/ TellsOwn(r)
<1>0. answer \in [Request -> Answer]
  BY DEF Typed
<1>1. ASSUME NEW ans, ans.outcome \notin {"issued", "replayed"}, RollBack(r, ans), UNCHANGED idem
      PROVE  TellsNothing(r)
  BY <1>0, <1>1 DEF RollBack, TellsNothing, Given
<1>2. CASE UNCHANGED <<idem, answer>>
  BY <1>2 DEF TellsNothing
<1>3. CASE Receive(r) \/ Claim(r) \/ ReopenFailed(r) \/ CreateTracking(r) \/ RecordAnswer(r)
  BY <1>2, <1>3 DEF Receive, Claim, ReopenFailed, CreateTracking, RecordAnswer, dbVars
<1>4. CASE Replay(r)
  <2>1. Ask[r].key \in Key
    BY <1>4, ConstantsAssumption DEF Replay, TxShape, TxShapeOf
  <2>2. answer'[r] = ReplayedAnswer(r) /\ UNCHANGED idem /\ idem[Ask[r].key] # NoRecord
    BY <1>0, <1>4 DEF Replay, RollBack, dbVars
  <2> QED BY <2>1, <2>2 DEF ReplayedAnswer, Failed, TellsRecord, Given
<1>5. CASE NotRecorded(r) \/ Plan(r) \/ ReserveFresh(r)
  BY <1>1, <1>2, <1>5 DEF NotRecorded, Plan, ReserveFresh, Failed, dbVars
<1>6. CASE DerivationFails(r) \/ Complete(r) \/ StatementFails(r)
  BY <1>1, <1>2, <1>6 DEF DerivationFails, Complete, StatementFails, Failed, dbVars
<1>7. CASE Commit(r) \/ CommitUnheard(r)
  <2>1. /\ tx \in [Request -> TxType] /\ pc[r] = "commit" /\ Publish(r) /\ UNCHANGED nextId
    BY <1>7 DEF Typed, TxType, Commit, CommitUnheard
  <2>2. PublishesRow(r) /\ tx[r].row.policy = Ask[r].policy /\ tx[r].row.payload = Ask[r].payload
    BY <2>1, AtCommit DEF Publish, PublishesRow
  <2>3. Given(r)' => answer'[r].id = tx[r].row.id
    BY <1>0, <1>7 DEF Commit, CommitUnheard, Given, Failed
  <2>4. Ask[r].key = NoKey => UNCHANGED idem
    BY <2>1, AtCommit DEF Publish
  <2>5. Ask[r].key # NoKey =>
       /\ Ask[r].key \in Key
       /\ idem' = [idem EXCEPT ![Ask[r].key] = Claimed(r, tx[r].row.id)]
       /\ idem[Ask[r].key] = NoRecord
    BY <2>1, AtCommit, NullsAssumption DEF Publish, KeysAreHeld
  <2> QED BY <2>2, <2>3, <2>4, <2>5 DEF TellsOwn
<1> QED
  BY <1>3, <1>4, <1>5, <1>6, <1>7 DEF Step

LEMMA AnswersStep ==
  ASSUME Typed, TxShape, KeysAreHeld, RowsAreOwned, RecordsAreKept, AnswersOnRecord, [Next]_vars
  PROVE  AnswersOnRecord'
<1>0. Issued \subseteq Issued' /\ \A q \in Request : Ask[q].key \in Key \cup {NoKey}
  BY IssuedStays, ConstantsAssumption
<1>1. ASSUME UNCHANGED <<idem, answer>> PROVE AnswersOnRecord'
  BY <1>0, <1>1 DEF AnswersOnRecord, Given, Fulfils
<1>2. ASSUME NEW r \in Request, Receive(r) \/ Step(r) PROVE AnswersOnRecord'
  <2>0. \A q \in Request \ {r} : answer'[q] = answer[q]
    BY <1>2, Frame
  <2>1. CASE TellsNothing(r)
    <3>1. \A q \in Request : Given(q)' => Given(q) /\ answer'[q] = answer[q]
      BY <2>0, <2>1 DEF TellsNothing, Given
    <3>2. idem' = idem
      BY <2>1 DEF TellsNothing
    <3> QED BY <1>0, <3>1, <3>2 DEF AnswersOnRecord, Fulfils
  <2>2. CASE TellsRecord(r)
    <3>1. idem' = idem /\ Ask[r].key \in Key /\ idem[Ask[r].key] # NoRecord
      BY <2>2 DEF TellsRecord
    <3>2. Given(r)' => /\ answer'[r].id = idem[Ask[r].key].id
                       /\ \E t \in Issued' : Fulfils(t, r)'
      BY <1>0, <2>2, <3>1 DEF TellsRecord, RecordsAreKept, Fulfils
    <3>3. \A q \in Request \ {r} : Given(q)' => Given(q) /\ answer'[q] = answer[q]
      BY <2>0 DEF Given
    <3>4. Ask[r].key # NoKey
      BY <3>1, ConstantsAssumption
    <3> QED BY <1>0, <3>1, <3>2, <3>3, <3>4 DEF AnswersOnRecord, Fulfils
  <2>3. CASE TellsOwn(r)
    <3> DEFINE n == tx[r].row.id
    <3>1. \A t \in Issued : t.id # n
      BY <2>3 DEF TellsOwn, PublishesRow, RowsAreOwned, Issued
    <3>2. \A q \in Request \ {r} : Given(q)' => Given(q) /\ answer'[q] = answer[q]
      BY <2>0 DEF Given
    <3>3. \A q \in Request \ {r} : Given(q)' => answer'[q].id # n
      BY <3>1, <3>2 DEF AnswersOnRecord, Fulfils
    <3>4. \A k \in Key : idem[k] # NoRecord => idem[k].id # n
      BY <3>1 DEF RecordsAreKept
    <3>5. tx[r].row \in Issued' /\ tx[r].row.policy = Ask[r].policy
          /\ tx[r].row.payload = Ask[r].payload
      BY <2>3 DEF TellsOwn, PublishesRow, Publish, Issued
    <3>6. Given(r)' => answer'[r].id = n
      BY <2>3 DEF TellsOwn
    <3>7. \A q \in Request : Given(q)' => \E t \in Issued' : Fulfils(t, q)'
      BY <1>0, <3>2, <3>5, <3>6 DEF AnswersOnRecord, Fulfils
    <3>8. CASE Ask[r].key = NoKey
      <4>1. idem' = idem
        BY <2>3, <3>8 DEF TellsOwn
      <4> HIDE DEF n
      <4> QED BY <3>2, <3>3, <3>4, <3>6, <3>7, <3>8, <4>1 DEF AnswersOnRecord
    <3>9. CASE Ask[r].key # NoKey
      <4>1. Ask[r].key \in Key /\ idem[Ask[r].key] = NoRecord
            /\ idem' = [idem EXCEPT ![Ask[r].key] = Claimed(r, n)]
        BY <2>3, <3>9 DEF TellsOwn
      <4>2. idem \in [Key -> Record \cup {NoRecord}]
        BY DEF Typed
      <4>3. Claimed(r, n) # NoRecord /\ Claimed(r, n).id = n
        BY <2>3, NullsAssumption, ConstantsAssumption
        DEF TellsOwn, Claimed, Record, PublishesRow, Row
      <4>4. /\ idem'[Ask[r].key] # NoRecord /\ idem'[Ask[r].key].id = n
            /\ \A k \in Key \ {Ask[r].key} : idem'[k] = idem[k]
        BY <4>1, <4>2, <4>3
      <4>5. \A q \in Request \ {r} : Given(q)' => Ask[q].key # Ask[r].key
        BY <3>2, <3>9, <4>1 DEF AnswersOnRecord
      <4> HIDE DEF n
      <4>6. \A q \in Request : Given(q)' /\ Ask[q].key # NoKey =>
              idem'[Ask[q].key] # NoRecord /\ idem'[Ask[q].key].id = answer'[q].id
        BY <1>0, <3>2, <3>6, <4>4, <4>5 DEF AnswersOnRecord
      <4>7. \A q \in Request : Given(q)' /\ Ask[q].key = NoKey =>
              \A k \in Key : idem'[k] # NoRecord => idem'[k].id # answer'[q].id
        BY <3>2, <3>3, <3>9, <4>4 DEF AnswersOnRecord
      <4>8. \A k, l \in Key :
              idem'[k] # NoRecord /\ idem'[l] # NoRecord /\ idem'[k].id = idem'[l].id => k = l
        BY <3>4, <4>4 DEF AnswersOnRecord
      <4>9. \A q, s \in Request :
              /\ Given(q)' /\ Given(s)' /\ answer'[q].id = answer'[s].id
              /\ Ask[q].key = NoKey /\ Ask[s].key = NoKey
              => q = s
        BY <3>2, <3>9 DEF AnswersOnRecord
      <4> QED BY <3>7, <4>6, <4>7, <4>8, <4>9 DEF AnswersOnRecord
    <3> QED BY <3>8, <3>9
  <2> QED BY <1>2, <2>1, <2>2, <2>3, GivenEffects
<1> QED
  BY <1>1, <1>2 DEF Next, DisablePolicy, vars, dbVars

\* The address a client was told was issued for what it asked, and no other client
\* was told it, but one that repeated the request under its key.
AddressesAreOwn ==
  /\ \A r \in Request : Given(r) => \E t \in Issued : Fulfils(t, r)
  /\ \A q, r \in Request : \A t, u \in Issued :
       /\ Given(q) /\ t.id = answer[q].id
       /\ Given(r) /\ u.id = answer[r].id
       /\ t.address = u.address
       => q = r \/ SameKey(q, r)

\* Nobody is told to pay to an address that another client's payment may arrive at:
\* for any derivation, however many rows derive to one address, and whatever is retried,
\* rolled back or committed unheard.
THEOREM ClientsHaveOwnAddresses == Spec => []AddressesAreOwn
<1>1. Init => KeysAreHeld /\ AnswersOnRecord
  BY DEF Init, KeysAreHeld, EmptyTx, AnswersOnRecord, Given, NoAnswer
<1>2. Spec => []KeysAreHeld
  BY <1>1, Typing, KeysStep, PTL DEF Spec
<1>3. Spec => [](Typed /\ IssuedIsTracked /\ AddressesAreOwned /\ AnswersOnRecord)
  BY <1>1, <1>2, Typing, Rows, IssuedRowsAreTracked, Promises, AnswersStep, PTL DEF Spec
<1>4. Typed /\ IssuedIsTracked /\ AddressesAreOwned /\ AnswersOnRecord => AddressesAreOwn
  <2> SUFFICES ASSUME Typed, IssuedIsTracked, AddressesAreOwned, AnswersOnRecord,
                      NEW q \in Request, NEW r \in Request, NEW t \in Issued, NEW u \in Issued,
                      Given(q), t.id = answer[q].id, Given(r), u.id = answer[r].id,
                      t.address = u.address
               PROVE  q = r \/ SameKey(q, r)
    BY DEF AddressesAreOwn, AnswersOnRecord
  <2>1. t.address \in Address
    <3>1. [id |-> t.id, payload |-> t.payload, address |-> t.address] \in Tracking
      BY DEF IssuedIsTracked, Typed
    <3> QED BY <3>1 DEF Tracking
  <2>2. t = u
    BY <2>1, ConstantsAssumption DEF AddressesAreOwned, Issued
  <2>3. answer[q].id = answer[r].id
    BY <2>2
  <2>4. Ask[q].key \in Key \cup {NoKey} /\ Ask[r].key \in Key \cup {NoKey}
    BY ConstantsAssumption
  <2> QED BY <2>3, <2>4 DEF AnswersOnRecord, SameKey
<1> QED BY <1>3, <1>4, PTL

-----------------------------------------------------------------------------
(* Waiting *)

\* What request r waits for is held by request q: the key it claims, the cursor it
\* reserves from, or the address it derived.
WaitsFor(r, q) ==
  \/ pc[r] = "claim" /\ HoldsKey(q, Ask[r].key)
  \/ pc[r] = "reserve" /\ HoldsCursor(q, Ask[r].policy)
  \/ pc[r] = "complete" /\ q # r /\ HoldsAddress(q, Derived(r))

\* Among requests that are waiting there is always one that waits for none of them.
NobodyWaitsInACircle ==
  \A D \in SUBSET Request : D # {} => \E r \in D : \A q \in D : ~WaitsFor(r, q)

\* Locks are taken in the order key, cursor, address, and what a request waits for is
\* held by one that is further.
LEMMA WaitsAreForward ==
  ASSUME Typed, TxShape, NEW r \in Request, NEW q \in Request, WaitsFor(r, q)
  PROVE  \/ pc[r] = "claim" /\ pc[q] \notin OutsideTx
         \/ pc[r] = "reserve" /\ pc[q] \in {"complete", "track", "record", "commit"}
         \/ pc[r] = "complete" /\ pc[q] \in {"track", "record", "commit"}
<1>1. /\ pc[q] \in Position /\ TxShapeOf(q) /\ TxShapeOf(r)
      /\ tx[r].row \in Row \cup {NoRow}
  BY DEF Typed, TxShape
<1>2. tx[q].row # NoRow => pc[q] \in {"complete", "track", "record", "commit"}
  BY <1>1 DEF TxShapeOf, Position, OutsideTx, EmptyTx
<1>3. CASE pc[r] = "claim"
  <2>1. tx[q].claim # NoRecord
    BY <1>3 DEF WaitsFor, HoldsKey
  <2> QED BY <1>1, <1>3, <2>1 DEF TxShapeOf, EmptyTx
<1>4. CASE pc[r] = "reserve"
  <2>1. tx[q].row # NoRow
    BY <1>4 DEF WaitsFor, HoldsCursor, IsFresh
  <2> QED BY <1>2, <1>4, <2>1
<1>5. CASE pc[r] = "complete"
  <2>1. tx[q].row # NoRow /\ tx[q].row.address = Derived(r)
    BY <1>5 DEF WaitsFor, HoldsAddress
  <2>2. Derived(r) \in Address /\ Derived(r) # NoAddress
    <3>1. tx[r].row \in Row
      BY <1>1, <1>5 DEF TxShapeOf
    <3> QED BY <3>1, ConstantsAssumption DEF Row, Derived
  <2>3. pc[q] # "complete"
    BY <1>1, <2>1, <2>2 DEF TxShapeOf
  <2> QED BY <1>2, <1>5, <2>1, <2>3
<1> QED BY <1>3, <1>4, <1>5 DEF WaitsFor

\* Whatever keys, policies and addresses requests share, however many there are: no
\* deadlock, so that PostgreSQL has none to break by failing one of them.  The reopen
\* query locks a row out of that order, but skips those that are locked; all the other
\* statements wait for nobody.
THEOREM NoDeadlock == Spec => []NobodyWaitsInACircle
<1>1. Typed /\ TxShape => NobodyWaitsInACircle
  <2> SUFFICES ASSUME Typed, TxShape, NEW D \in SUBSET Request, D # {}
               PROVE  \E r \in D : \A q \in D : ~WaitsFor(r, q)
    BY DEF NobodyWaitsInACircle
  <2>1. CASE \E r \in D : pc[r] \notin {"claim", "reserve", "complete"}
    BY <2>1 DEF WaitsFor
  <2>2. CASE \A r \in D : pc[r] \in {"claim", "reserve", "complete"}
    <3>1. CASE \E r \in D : pc[r] = "complete"
      BY <2>2, <3>1, WaitsAreForward
    <3>2. CASE \E r \in D : pc[r] = "reserve" /\ \A q \in D : pc[q] # "complete"
      BY <2>2, <3>2, WaitsAreForward
    <3>3. CASE \A q \in D : pc[q] = "claim"
      BY <3>3, WaitsAreForward DEF OutsideTx
    <3> QED BY <2>2, <3>1, <3>2, <3>3
  <2> QED BY <2>1, <2>2
<1> QED BY <1>1, Typing, PTL
=============================================================================
