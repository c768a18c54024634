--------------------------- MODULE AddressAllocation ---------------------------
(***************************************************************************)
(* Address allocation: concurrent requests, each served by one run of      *)
(* allocatePaymentAddressUseCase.Execute, draw addresses from the slots of *)
(* an address policy.  A request with an idempotency key first looks for a *)
(* recorded answer; then one READ COMMITTED transaction claims the key,    *)
(* reserves a slot, derives its address, issues it, creates its receipt    *)
(* tracking and records the answer under the key.                          *)
(*                                                                         *)
(* table, cursor, idem and trackings hold what is COMMITTED.  tx[r] holds  *)
(* what request r's open transaction has written; its row locks are read   *)
(* off tx[r].  A retry is another request with the same key.               *)
(*                                                                         *)
(* Requests are finite in number and each is served once, which bounds the *)
(* model; MaxSlot stands for the code's maxSlotIndex, 2^31 - 1, and MaxId  *)
(* for the last number of the BIGSERIAL sequence, 2^63 - 1.                *)
(***************************************************************************)
EXTENDS Integers, FiniteSets

CONSTANTS
  Request, Key, Policy, Payload, Address,
  Ask,                 \* Ask[r]: what request r asks for
  AddressOf(_, _, _),  \* address derived from a policy, a slot and an id
  Inherited,           \* failed reservations an earlier release may have left in the table
  MaxSlot, MaxId,
  NoKey, NoRow, NoRecord, NoAddress

\* A policy here is an address policy together with its address space; a
\* payload is an expected amount with a customer reference.
ASSUME ConstantsAssumption ==
  /\ Ask \in [Request -> [key: Key \cup {NoKey}, policy: Policy, payload: Payload]]
  /\ \A p \in Policy, s \in 0..MaxSlot, i \in 1..MaxId : AddressOf(p, s, i) \in Address
  /\ MaxSlot \in Nat /\ MaxId \in Nat
  /\ NoKey \notin Key /\ NoAddress \notin Address

AllocationStatus == {"reserved", "issued", "derivation_failed"}
Row == [id: 1..MaxId, policy: Policy, slot: 0..MaxSlot, payload: Payload,
        status: AllocationStatus, address: Address \cup {NoAddress}]
Record == [policy: Policy, payload: Payload, id: 0..MaxId]
Tracking == [id: 1..MaxId, payload: Payload, address: Address]

ASSUME NullsAssumption == NoRow \notin Row /\ NoRecord \notin Record

\* Earlier releases, which committed failed derivations, also numbered slots
\* from 0 up without gaps.
ASSUME InheritedAssumption ==
  /\ Inherited \in SUBSET Row /\ IsFiniteSet(Inherited)
  /\ Cardinality(Inherited) <= MaxId
  /\ \A t \in Inherited : /\ t.id <= Cardinality(Inherited)
                          /\ t.status = "derivation_failed" /\ t.address = NoAddress
  /\ \A t, u \in Inherited :
       t # u => t.id # u.id /\ (t.policy = u.policy => t.slot # u.slot)
  /\ \A p \in Policy : \E n \in 0..(MaxSlot + 1) :
       {t.slot : t \in {u \in Inherited : u.policy = p}} = 0..(n - 1)

VARIABLES
  table,      \* address_policy_allocations
  cursor,     \* address_policy_cursors: next_index, or NoCursor
  idem,       \* payment_address_idempotency_keys
  trackings,  \* payment_receipt_trackings, as created
  nextId,     \* the id sequence, which no rollback takes back
  enabled,    \* policies enabled in the running configuration
  pc,         \* pc[r]: the next statement of request r
  tx,         \* tx[r]: uncommitted writes of request r
  answer,     \* answer[r]: what the client is told
  made        \* history: made[r] is the id request r issued, or 0

dbVars == <<table, cursor, idem, trackings>>
vars == <<dbVars, nextId, enabled, pc, tx, answer, made>>

NoCursor == -1
EmptyTx == [claim |-> NoRecord, row |-> NoRow, tracking |-> {}]

Failure == {"dependency", "derivation_failed", "exhausted", "not_enabled", "conflict",
            "record_incomplete", "missing_allocation", "claim_without_record"}
Answer == [outcome: {"none", "issued", "replayed"} \cup Failure, id: 0..MaxId]
NoAnswer == [outcome |-> "none", id |-> 0]
Failed(why) == [outcome |-> why, id |-> 0]

Position == {"idle", "lookup", "plan", "claim", "reopen", "reserve", "complete",
             "track", "record", "commit", "reload", "answered"}

SlotsOf(p) == {t.slot : t \in {u \in table : u.policy = p}}

Init ==
  /\ table \in {{}, Inherited}
  /\ cursor \in [Policy -> {NoCursor} \cup 1..(MaxSlot + 1)]
  /\ \A p \in Policy : cursor[p] # NoCursor => SlotsOf(p) = 0..(cursor[p] - 1)
  /\ idem = [k \in Key |-> NoRecord]
  /\ trackings = {}
  /\ nextId = Cardinality(Inherited) + 1
  /\ enabled = Policy
  /\ pc = [r \in Request |-> "idle"]
  /\ tx = [r \in Request |-> EmptyTx]
  /\ answer = [r \in Request |-> NoAnswer]
  /\ made = [r \in Request |-> 0]

-----------------------------------------------------------------------------
(* What an open transaction holds. *)

Goto(r, l) == pc' = [pc EXCEPT ![r] = l]

\* Mutants: statements that do not wait for each other.
NoKeyLock(r, k) == FALSE
NoAddressLock(r, a) == FALSE

\* Rows another transaction inserted or updated stay locked until it ends.
HoldsKey(r, k) == tx[r].claim # NoRecord /\ Ask[r].key = k
HoldsRow(r, id) == tx[r].row # NoRow /\ tx[r].row.id = id
IsFresh(r) == tx[r].row # NoRow /\ \A t \in table : t.id # tx[r].row.id
HoldsCursor(r, p) == IsFresh(r) /\ tx[r].row.policy = p
HoldsAddress(r, a) == tx[r].row # NoRow /\ tx[r].row.address = a

\* Mutant: the failed transaction is left open.
LeaveOpen(r, ans) ==
  /\ answer' = [answer EXCEPT ![r] = ans]
  /\ Goto(r, "answered")
  /\ UNCHANGED tx

\* The request ends: its transaction is rolled back, if one is open.
RollBack(r, ans) ==
  /\ tx' = [tx EXCEPT ![r] = EmptyTx]
  /\ answer' = [answer EXCEPT ![r] = ans]
  /\ Goto(r, "answered")

-----------------------------------------------------------------------------
(* Execute, before the transaction. *)

Receive(r) ==
  /\ pc[r] = "idle"
  /\ Goto(r, IF Ask[r].key = NoKey THEN "plan" ELSE "lookup")
  /\ UNCHANGED <<dbVars, nextId, enabled, tx, answer, made>>

\* Mutant: the replay compares payloads but not policies.
ReplayedDespitePolicy(r) ==
  LET rec == idem[Ask[r].key] IN
  IF rec.id = 0 THEN Failed("record_incomplete")
  ELSE IF rec.payload # Ask[r].payload THEN Failed("conflict")
  ELSE [outcome |-> "replayed", id |-> rec.id]

\* loadReplayedAllocationResponse for a record that was found.  The record and
\* the row it names are read by two statements, but neither ever changes.
ReplayedAnswer(r) ==
  LET rec == idem[Ask[r].key] IN
  IF rec.id = 0 THEN Failed("record_incomplete")
  ELSE IF rec.policy # Ask[r].policy \/ rec.payload # Ask[r].payload THEN Failed("conflict")
  ELSE IF \E t \in table : t.id = rec.id /\ t.status = "issued"
       THEN [outcome |-> "replayed", id |-> rec.id]
       ELSE Failed("missing_allocation")

Replay(r) ==
  /\ pc[r] \in {"lookup", "reload"}
  /\ idem[Ask[r].key] # NoRecord
  /\ RollBack(r, ReplayedAnswer(r))
  /\ UNCHANGED <<dbVars, nextId, enabled, made>>

\* Nothing recorded yet.  On the second look, after a claim met an existing
\* key, that is reported as a conflict without a record.
NotRecorded(r) ==
  /\ pc[r] \in {"lookup", "reload"}
  /\ idem[Ask[r].key] = NoRecord
  /\ IF pc[r] = "lookup"
     THEN Goto(r, "plan") /\ UNCHANGED <<tx, answer>>
     ELSE RollBack(r, Failed("claim_without_record"))
  /\ UNCHANGED <<dbVars, nextId, enabled, made>>

Plan(r) ==
  /\ pc[r] = "plan"
  /\ IF Ask[r].policy \in enabled
     THEN Goto(r, IF Ask[r].key = NoKey THEN "reopen" ELSE "claim") /\ UNCHANGED <<tx, answer>>
     ELSE RollBack(r, Failed("not_enabled"))
  /\ UNCHANGED <<dbVars, nextId, enabled, made>>

-----------------------------------------------------------------------------
(* issueAllocation: the statements of the transaction, in order. *)

\* INSERT of the key waits for a transaction that has inserted the same key.
Claim(r) ==
  /\ pc[r] = "claim"
  /\ \A q \in Request : ~HoldsKey(q, Ask[r].key)
  /\ IF idem[Ask[r].key] = NoRecord
     THEN /\ tx' = [tx EXCEPT ![r].claim =
               [policy |-> Ask[r].policy, payload |-> Ask[r].payload, id |-> 0]]
          /\ Goto(r, "reopen")
     ELSE Goto(r, "reload") /\ UNCHANGED tx
  /\ UNCHANGED <<dbVars, nextId, enabled, answer, made>>

\* Mutant: the reopen query does not look at the status.
ReopenableDespiteStatus(r) ==
  {t \in table : t.policy = Ask[r].policy /\ \A q \in Request : ~HoldsRow(q, t.id)}

Reopenable(r) ==
  {t \in table : /\ t.policy = Ask[r].policy
                 /\ t.status = "derivation_failed"
                 /\ \A q \in Request : ~HoldsRow(q, t.id)}

\* ReopenFailedReservation: FOR UPDATE SKIP LOCKED.  Which of several rows was
\* reserved first is not kept, so any of them may be.
ReopenFailed(r) ==
  /\ pc[r] = "reopen"
  /\ \/ \E t \in Reopenable(r) :
          /\ tx' = [tx EXCEPT ![r].row =
               [t EXCEPT !.status = "reserved", !.payload = Ask[r].payload,
                         !.address = NoAddress]]
          /\ Goto(r, "complete")
     \/ /\ Reopenable(r) = {}
        /\ Goto(r, "reserve")
        /\ UNCHANGED tx
  /\ UNCHANGED <<dbVars, nextId, enabled, answer, made>>

\* Mutant: a new cursor row starts at 0, whatever slots there are.
NextIndexFromZero(p) == IF cursor[p] # NoCursor THEN cursor[p] ELSE 0

\* Mutant: slots are counted from 1.
NextIndexFromOne(p) ==
  IF cursor[p] # NoCursor THEN cursor[p]
  ELSE CHOOSE n \in 1..(MaxSlot + 1) :
         (\A s \in SlotsOf(p) : s < n) /\ (n = 1 \/ n - 1 \in SlotsOf(p))

\* A policy without a cursor row gets one at MAX(slot_index) + 1.
NextIndex(p) ==
  IF cursor[p] # NoCursor THEN cursor[p]
  ELSE CHOOSE n \in 0..(MaxSlot + 1) :
         (\A s \in SlotsOf(p) : s < n) /\ (n = 0 \/ n - 1 \in SlotsOf(p))

\* ReserveFresh: the cursor row is created or locked FOR UPDATE, a row is
\* inserted at next_index and the cursor is advanced.
ReserveFresh(r) ==
  LET p == Ask[r].policy
      slot == NextIndex(p)
  IN
  /\ pc[r] = "reserve"
  /\ \A q \in Request : ~HoldsCursor(q, p)
  /\ \/ /\ slot \in 0..MaxSlot /\ nextId <= MaxId
        /\ tx' = [tx EXCEPT ![r].row =
             [id |-> nextId, policy |-> p, slot |-> slot, payload |-> Ask[r].payload,
              status |-> "reserved", address |-> NoAddress]]
        /\ nextId' = nextId + 1
        /\ Goto(r, "complete")
        /\ UNCHANGED answer
     \/ /\ slot > MaxSlot
        /\ RollBack(r, Failed("exhausted"))
        /\ UNCHANGED nextId
  /\ UNCHANGED <<dbVars, enabled, made>>

\* handleDerivationFailure marks the row derivation_failed and releases the
\* key, and then returns the error that makes WithinTransaction roll back both.
DerivationFails(r) ==
  /\ pc[r] = "complete"
  /\ RollBack(r, Failed("derivation_failed"))
  /\ UNCHANGED <<dbVars, nextId, enabled, made>>

Derived(r) == AddressOf(tx[r].row.policy, tx[r].row.slot, tx[r].row.id)

\* The address is derived and the row issued under UNIQUE (chain, address),
\* which waits for a transaction that has written the same address.
Complete(r) ==
  /\ pc[r] = "complete"
  /\ \A q \in Request \ {r} : ~HoldsAddress(q, Derived(r))
  /\ IF \E t \in table : t.id # tx[r].row.id /\ t.address = Derived(r)
     THEN RollBack(r, Failed("dependency"))
     ELSE /\ tx' = [tx EXCEPT ![r].row =
               [tx[r].row EXCEPT !.status = "issued", !.address = Derived(r)]]
          /\ Goto(r, "track")
          /\ UNCHANGED answer
  /\ UNCHANGED <<dbVars, nextId, enabled, made>>

CreateTracking(r) ==
  /\ pc[r] = "track"
  /\ tx' = [tx EXCEPT ![r].tracking =
       {[id |-> tx[r].row.id, payload |-> tx[r].row.payload, address |-> tx[r].row.address]}]
  /\ Goto(r, IF Ask[r].key = NoKey THEN "commit" ELSE "record")
  /\ UNCHANGED <<dbVars, nextId, enabled, answer, made>>

\* Mutant: the claimed record never gets the id.
RecordForgotten(r) ==
  /\ pc[r] = "record"
  /\ Goto(r, "commit")
  /\ UNCHANGED <<dbVars, nextId, enabled, tx, answer, made>>

\* CompletePaymentAddressIdempotency: the claimed record gets the id.
RecordAnswer(r) ==
  /\ pc[r] = "record"
  /\ tx' = [tx EXCEPT ![r].claim = [tx[r].claim EXCEPT !.id = tx[r].row.id]]
  /\ Goto(r, "commit")
  /\ UNCHANGED <<dbVars, nextId, enabled, answer, made>>

-----------------------------------------------------------------------------
(* How the transaction ends. *)

Publish(r) ==
  LET row == tx[r].row IN
  /\ table' = {t \in table : t.id # row.id} \cup {row}
  /\ cursor' = IF IsFresh(r) THEN [cursor EXCEPT ![row.policy] = row.slot + 1] ELSE cursor
  /\ idem' = IF tx[r].claim = NoRecord THEN idem
             ELSE [idem EXCEPT ![Ask[r].key] = tx[r].claim]
  /\ trackings' = trackings \cup tx[r].tracking
  /\ made' = [made EXCEPT ![r] = row.id]
  /\ tx' = [tx EXCEPT ![r] = EmptyTx]
  /\ Goto(r, "answered")

Commit(r) ==
  /\ pc[r] = "commit"
  /\ Publish(r)
  /\ answer' = [answer EXCEPT ![r] = [outcome |-> "issued", id |-> tx[r].row.id]]
  /\ UNCHANGED <<nextId, enabled>>

\* The commit happened, but the process died or lost the database's answer.
CommitUnheard(r) ==
  /\ pc[r] = "commit"
  /\ Publish(r)
  /\ answer' = [answer EXCEPT ![r] = Failed("dependency")]
  /\ UNCHANGED <<nextId, enabled>>

\* Mutant: what the failed request wrote so far is committed.
FailsHalfway(r) ==
  /\ pc[r] = "track"
  /\ Publish(r)
  /\ answer' = [answer EXCEPT ![r] = Failed("dependency")]
  /\ UNCHANGED <<nextId, enabled>>

\* A statement or the commit fails, the client goes away or the process dies.
StatementFails(r) ==
  /\ pc[r] \notin {"idle", "plan", "answered"}
  /\ RollBack(r, Failed("dependency"))
  /\ UNCHANGED <<dbVars, nextId, enabled, made>>

\* A release is deployed that no longer enables policy p.
DisablePolicy(p) ==
  /\ p \in enabled
  /\ enabled' = enabled \ {p}
  /\ UNCHANGED <<dbVars, nextId, pc, tx, answer, made>>

\* The status query: an issued row joined with its tracking.  Empty if there is
\* no issued row ("not found") or no tracking joins it ("incomplete").
FindStatus(id) ==
  {[id |-> id, policy |-> t.policy, payload |-> w.payload, address |-> w.address] :
     t \in {u \in table : u.id = id /\ u.status = "issued"},
     w \in {u \in trackings : u.id = id}}
Payments == UNION {FindStatus(t.id) : t \in table}

\* mapAllocatePaymentAddressError: only what the client can act on is not a 500.
StatusCode(outcome) ==
  CASE outcome \in {"none"} -> 0
    [] outcome \in {"issued", "replayed"} -> 201
    [] outcome \in {"conflict", "exhausted", "not_enabled"} -> 409
    [] OTHER -> 500

-----------------------------------------------------------------------------
Step(r) ==
  \/ Replay(r) \/ NotRecorded(r) \/ Plan(r)
  \/ Claim(r) \/ ReopenFailed(r) \/ ReserveFresh(r)
  \/ DerivationFails(r) \/ Complete(r) \/ CreateTracking(r) \/ RecordAnswer(r)
  \/ Commit(r) \/ CommitUnheard(r) \/ StatementFails(r)

Next ==
  \/ \E r \in Request : Receive(r) \/ Step(r)
  \/ \E p \in Policy : DisablePolicy(p)

Spec == Init /\ [][Next]_vars

\* A request that was received runs on to its end; none is owed to arrive.  No
\* failure is owed either, so nobody is ever freed from a wait by one.
Serve(r) ==
  \/ Replay(r) \/ NotRecorded(r) \/ Plan(r)
  \/ Claim(r) \/ ReopenFailed(r) \/ ReserveFresh(r)
  \/ Complete(r) \/ CreateTracking(r) \/ RecordAnswer(r) \/ Commit(r)

FairSpec == Spec /\ \A r \in Request : WF_vars(Serve(r))

-----------------------------------------------------------------------------
(* Properties *)

Issued == {t \in table : t.status = "issued"}
SameKey(q, r) == Ask[q].key # NoKey /\ Ask[q].key = Ask[r].key

\* Every variable keeps its type.
Typed ==
  /\ table \in SUBSET Row
  /\ cursor \in [Policy -> {NoCursor} \cup 1..(MaxSlot + 1)]
  /\ idem \in [Key -> Record \cup {NoRecord}]
  /\ trackings \in SUBSET Tracking
  /\ nextId \in 1..(MaxId + 1)
  /\ enabled \in SUBSET Policy
  /\ pc \in [Request -> Position]
  /\ tx \in [Request -> [claim: Record \cup {NoRecord}, row: Row \cup {NoRow},
                         tracking: SUBSET Tracking]]
  /\ answer \in [Request -> Answer]
  /\ made \in [Request -> 0..MaxId]

\* Where a request has no transaction: before it begins, and after it ended.
OutsideTx == {"idle", "lookup", "plan", "claim", "reload", "answered"}

\* Every variable keeps its type.  A request holds nothing of a transaction
\* before the first statement, while it looks its key up again, and once it is
\* answered: no way out of Execute leaves a transaction open.  The id sequence
\* is ahead of every row, committed or still in a transaction, so that no row
\* is ever inserted under the id of another.
TypeOK ==
  /\ Typed
  /\ \A r \in Request : pc[r] \in OutsideTx => tx[r] = EmptyTx
  /\ \A t \in table : t.id < nextId
  /\ \A r \in Request : tx[r].row # NoRow => tx[r].row.id < nextId

\* The slots of a policy are numbered without a gap or a repetition, up to its
\* cursor: failed and abandoned requests burn no slot, concurrent ones never
\* share one, and the UNIQUE constraint on slots is never what saves them.
SlotsAreDense ==
  \A p \in Policy :
    /\ \E n \in 0..(MaxSlot + 1) :
         SlotsOf(p) = 0..(n - 1) /\ (cursor[p] # NoCursor => cursor[p] = n)
    /\ \A t, u \in table : t # u /\ t.policy = p /\ u.policy = p => t.slot # u.slot

\* The index state cannot diverge from the receipt state: exactly the issued
\* rows are tracked, under the same amount and address, and no half-made
\* reservation is ever visible.
IssuedIsTracked ==
  /\ trackings = {[id |-> t.id, payload |-> t.payload, address |-> t.address] : t \in Issued}
  /\ \A t \in table : t.status # "reserved"

\* One idempotency key issues one address, however many requests carry it,
\* whatever fails and whoever is told about it.
OneAddressPerKey ==
  \A q, r \in Request : SameKey(q, r) /\ made[q] # 0 /\ made[r] # 0 => q = r

\* What clients are told implements idempotent issuance.  Whoever is given an
\* address is given the one his key stands for, with the policy and payload he
\* asked for; its status can be asked for from then on, whatever is disabled; no
\* two payments wait on one blockchain address, even when two policies derive
\* from the same key; and the errors the code reserves for a broken idempotency
\* table are never told to anybody.
Issuance ==
  INSTANCE IdempotentIssuance WITH
    Payment <- [id: 1..MaxId, policy: Policy, payload: Payload, address: Address],
    payments <- Payments,
    keys <- [k \in Key |-> IF idem[k] = NoRecord THEN 0 ELSE idem[k].id],
    told <- answer
IssuanceSpec == Issuance!Spec

\* Only a request that issued nothing is refused with 409, and for the reason it
\* is given: no slot of the pool is left that was never reserved, or the policy
\* has been disabled.  After a 500 the client has to ask again to find out.
RefusalsAreTrue ==
  \A r \in Request :
    /\ StatusCode(answer[r].outcome) = 409 => made[r] = 0
    /\ answer[r].outcome = "exhausted" => SlotsOf(Ask[r].policy) = 0..MaxSlot
    /\ answer[r].outcome = "not_enabled" => Ask[r].policy \notin enabled

\* What was issued is never changed, re-reserved or given to another payment.
IssuedIsFinal == [][Issued \subseteq Issued']_vars

\* A failed derivation is persisted on its reservation.
FailureIsPersisted ==
  [][\A r \in Request :
       answer[r].outcome = "none" /\ answer'[r].outcome = "derivation_failed" =>
         \E t \in table' : t.id = tx[r].row.id /\ t.status = "derivation_failed"]_vars

\* Every request that was received is answered: waiting for keys, cursors, rows
\* and addresses never ends in a deadlock.  What was received or answered stays
\* so, so this is one condition that holds for good in the end.
EveryRequestIsAnswered ==
  <>[](\A r \in Request : pc[r] # "idle" => answer[r].outcome # "none")
=============================================================================
