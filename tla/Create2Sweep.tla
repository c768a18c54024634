---------------------------- MODULE Create2Sweep ----------------------------
(***************************************************************************)
(* The life of an Ethereum payment address: a factory is deployed, an API  *)
(* that finds it ready issues addresses under it, customers pay to them    *)
(* while nothing lives there yet, and operators collect the payments with  *)
(* the sweep script, whose one transaction makes the factory deploy the    *)
(* missing receivers and empty all of them.                                *)
(*                                                                         *)
(* An address is the hash of factory, salt and init code.  The salt is the *)
(* row's own, so address and row are one here; it is the address that its  *)
(* recorded factory computes from its recorded init code, and no other.    *)
(*                                                                         *)
(* Bound: MaxPaid[a], what customers pay to address a in all.              *)
(***************************************************************************)
EXTENDS Integers, FiniteSets

CONSTANTS
  Row,          \* rows of address_policy_allocations
  Factory,      \* factory addresses the checked-in metadata may name
  Code,         \* init codes: receiver artifact and collector
  Collector,
  CollectorOf,  \* CollectorOf[c]: the collector that is part of init code c
  Asset,
  AssetOf,      \* AssetOf[a]: the asset row a is to be paid in
  Operator,     \* people who run the sweep script
  MaxBatch,     \* max_batch_size
  MaxPaid,      \* bound
  NoMaterial, Idle

Build == [factory: Factory, code: Code]
Sweep == [factory: Factory, asset: Asset, rows: SUBSET Row]
Reading == [rows: SUBSET Row, unread: SUBSET Row]

ASSUME ConstantsAssumption ==
  /\ CollectorOf \in [Code -> Collector]
  /\ AssetOf \in [Row -> Asset]
  /\ MaxBatch \in Nat \ {0}
  /\ MaxPaid \in [Row -> Nat]
ASSUME NullsAssumption == NoMaterial \notin Build /\ Idle \notin Reading

VARIABLES
  onchain,    \* onchain[f]: what lives at address f
  metadata,   \* factoryAddress of the checked-in metadata
  running,    \* builds that serve: factory and init code they issue under
  material,   \* material[a]: factory and init code of sweep_material_json
  deployed,   \* rows whose receiver has been deployed
  held,       \* held[a]: what lies at the address
  paid,       \* history: paid[a], all that was ever paid to it
  arrived,    \* arrived[a][k]: what collector k got out of it
  script,     \* script[o]: the rows operator o's script works through
  mempool     \* sweeps broadcast and not yet mined

operatorVars == <<script, mempool>>
balances == <<deployed, held, paid, arrived>>
vars == <<onchain, metadata, running, material, balances, operatorVars>>

Init ==
  /\ onchain \in [Factory -> {"nothing", "factory", "other"}]
  /\ metadata \in Factory
  /\ running = {}
  /\ material = [a \in Row |-> NoMaterial]
  /\ deployed = {}
  /\ held = [a \in Row |-> 0]
  /\ paid = [a \in Row |-> 0]
  /\ arrived = [a \in Row |-> [k \in Collector |-> 0]]
  /\ script = [o \in Operator |-> Idle]
  /\ mempool = {}

Issued == {a \in Row : material[a] # NoMaterial}

-----------------------------------------------------------------------------
(* Deployment and issuance *)

\* The deploy script: the creation may run out of gas and still be answered with
\* an address, and the script may be stopped before it edits the metadata.
DeployFactory(f) ==
  /\ onchain[f] = "nothing"
  /\ onchain' \in {onchain, [onchain EXCEPT ![f] = "factory"]}
  /\ metadata' \in {metadata, f}
  /\ UNCHANGED <<running, material, balances, operatorVars>>

\* Mutant: any code passes for the factory.
ReadyWithAnyCode(f) == onchain[f] # "nothing"

\* The code at f has the runtime hash of the checked-in factory artifact.
Ready(f) == onchain[f] = "factory"

\* An API process starts: metadata is embedded in the build, the collector comes
\* from the environment.  It serves only if its factory is ready.
Start(c) ==
  /\ Ready(metadata)
  /\ running' = running \cup {[factory |-> metadata, code |-> c]}
  /\ UNCHANGED <<onchain, metadata, material, balances, operatorVars>>

Shut(b) ==
  /\ b \in running
  /\ running' = running \ {b}
  /\ UNCHANGED <<onchain, metadata, material, balances, operatorVars>>

\* Mutant: a row that has its material may be given another.
Reissuable == Row

Issuable == Row \ Issued

\* The row becomes issued with the material that its address follows from.
Issue(a, b) ==
  /\ a \in Issuable
  /\ b \in running
  /\ material' = [material EXCEPT ![a] = b]
  /\ UNCHANGED <<onchain, metadata, running, balances, operatorVars>>

Pay(a) ==
  /\ a \in Issued
  /\ paid[a] < MaxPaid[a]
  /\ paid' = [paid EXCEPT ![a] = @ + 1]
  /\ held' = [held EXCEPT ![a] = @ + 1]
  /\ UNCHANGED <<onchain, metadata, running, material, deployed, arrived, operatorVars>>

-----------------------------------------------------------------------------
(* The sweep script.  That it dies on a selection is not a step: it has changed *)
(* nothing and is as if it had not been started, or stopped (Stop).             *)

\* Mutant: rows of different assets in one batch.
MixedBatch(S) ==
  /\ S # {} /\ Cardinality(S) <= MaxBatch
  /\ \A a, b \in S : material[a].factory = material[b].factory

\* The rows must share the factory they were issued under and the asset.
Batch(S) ==
  /\ S # {} /\ Cardinality(S) <= MaxBatch
  /\ \A a, b \in S : material[a].factory = material[b].factory /\ AssetOf[a] = AssetOf[b]

\* One query reads the selected rows; rows that are issued never change again.
Select(o, S) ==
  /\ script[o] = Idle
  /\ S \subseteq Issued
  /\ Batch(S)
  /\ script' = [script EXCEPT ![o] = [rows |-> S, unread |-> S]]
  /\ UNCHANGED <<onchain, metadata, running, material, balances, mempool>>

\* The balance of one receiver is read; the script goes on unless it is zero.
ReadBalance(o, a) ==
  /\ script[o] # Idle
  /\ a \in script[o].unread
  /\ held[a] > 0
  /\ script' = [script EXCEPT ![o].unread = @ \ {a}]
  /\ UNCHANGED <<onchain, metadata, running, material, balances, mempool>>

\* Mutant: the factory of the checked-in metadata in place of the rows' own.
CurrentFactory(S) == metadata

\* selected_factory_address: the one the rows record.
SelectedFactory(S) == material[CHOOSE a \in S : TRUE].factory

\* The factory must have code; the signed transaction is out of the script's hands.
Broadcast(o) ==
  /\ script[o] # Idle
  /\ script[o].unread = {}
  /\ LET S == script[o].rows IN
       /\ onchain[SelectedFactory(S)] # "nothing"
       /\ mempool' = mempool \cup
            {[factory |-> SelectedFactory(S), asset |-> AssetOf[CHOOSE a \in S : TRUE], rows |-> S]}
  /\ script' = [script EXCEPT ![o] = Idle]
  /\ UNCHANGED <<onchain, metadata, running, material, balances>>

\* Dry run, a failed check, a refused signature, an interrupt.
Stop(o) ==
  /\ script[o] # Idle
  /\ script' = [script EXCEPT ![o] = Idle]
  /\ UNCHANGED <<onchain, metadata, running, material, balances, mempool>>

-----------------------------------------------------------------------------
(* The contracts *)

\* The rows of tx whose address is the one this factory computes.  From material of
\* another factory it would deploy, and sweep, an address nobody has paid to; and
\* a call to an address with no factory finishes without doing anything.
Receivers(tx) ==
  IF onchain[tx.factory] = "factory"
  THEN {a \in tx.rows : material[a].factory = tx.factory}
  ELSE {}

\* A receiver holding none of tx's asset returns at once.
Emptied(tx) == {a \in Receivers(tx) : AssetOf[a] = tx.asset /\ held[a] > 0}

\* Mutant: what the address has received in all is transferred, not what it holds.
CollectReceived(tx, S) ==
  /\ deployed' = deployed \cup Receivers(tx)
  /\ held' = [a \in Row |-> IF a \in S THEN held[a] - paid[a] ELSE held[a]]
  /\ arrived' = [a \in Row |-> [k \in Collector |->
       arrived[a][k] + (IF a \in S /\ k = CollectorOf[material[a].code] THEN paid[a] ELSE 0)]]

\* Receivers are deployed where code is missing, then the rows of S are swept, each
\* to the collector that its init code fixed.
Collect(tx, S) ==
  /\ deployed' = deployed \cup Receivers(tx)
  /\ held' = [a \in Row |-> IF a \in S THEN 0 ELSE held[a]]
  /\ arrived' = [a \in Row |-> [k \in Collector |->
       arrived[a][k] + (IF a \in S /\ k = CollectorOf[material[a].code] THEN held[a] ELSE 0)]]

\* Mutant: the factory goes on when a receiver's transfer fails.
SweepSkippingFailures(tx) == \E S \in SUBSET Emptied(tx) : Collect(tx, S)

\* sweep, sweepERC20: a transfer that fails reverts the whole transaction, so one
\* that succeeds has made them all.
SweepAll(tx) == Collect(tx, Emptied(tx))

Succeed(tx) ==
  /\ tx \in mempool
  /\ SweepAll(tx)
  /\ mempool' = mempool \ {tx}
  /\ UNCHANGED <<onchain, metadata, running, material, paid, script>>

\* Reverted (a refused transfer, out of gas), or never mined.
Fail(tx) ==
  /\ tx \in mempool
  /\ mempool' = mempool \ {tx}
  /\ UNCHANGED <<onchain, metadata, running, material, balances, script>>

-----------------------------------------------------------------------------
Next ==
  \/ \E f \in Factory : DeployFactory(f)
  \/ \E c \in Code : Start(c)
  \/ \E b \in running : Shut(b)
  \/ \E a \in Row : Pay(a) \/ \E b \in running : Issue(a, b)
  \/ \E o \in Operator :
       \/ \E S \in SUBSET Issued : Select(o, S)
       \/ \E a \in Row : ReadBalance(o, a)
       \/ Broadcast(o) \/ Stop(o)
  \/ \E tx \in mempool : Succeed(tx) \/ Fail(tx)

Spec == Init /\ [][Next]_vars

-----------------------------------------------------------------------------
(* Properties *)

\* Every variable keeps its type; only issued addresses have receivers, and no
\* balance falls below zero.
TypeOK ==
  /\ onchain \in [Factory -> {"nothing", "factory", "other"}]
  /\ metadata \in Factory
  /\ running \subseteq Build
  /\ material \in [Row -> Build \cup {NoMaterial}]
  /\ deployed \subseteq Issued
  /\ held \in [Row -> Nat] /\ paid \in [Row -> Nat]
  /\ arrived \in [Row -> [Collector -> Nat]]
  /\ \A a \in Row : paid[a] <= MaxPaid[a]
  /\ script \in [Operator -> Reading \cup {Idle}]
  /\ mempool \subseteq Sweep

\* No address is given to a customer that could not be emptied: the factory it
\* follows from is there, whatever deployments failed, were interrupted or never
\* recorded, and whichever builds run.
PaymentsAreRecoverable == \A a \in Issued : onchain[material[a].factory] = "factory"

\* Payments go to the collector fixed when the address was issued, through its
\* receiver, once, and to nobody else: what has arrived there and what still lies
\* at the address is what was paid, after factories, collectors and builds have
\* changed, and with sweeps that overlap, fail or are repeated.
NothingIsLost ==
  \A a \in Issued, k \in Collector :
    /\ k = CollectorOf[material[a].code] => arrived[a][k] + held[a] = paid[a]
    /\ k # CollectorOf[material[a].code] => arrived[a][k] = 0
    /\ arrived[a][k] > 0 => a \in deployed

\* A sweep that is reported successful has left no receiver of its batch holding
\* what it came for, though balances were read and other sweeps mined meanwhile.
SuccessMeansSwept ==
  [][\A tx \in mempool : Succeed(tx) => \A a \in tx.rows : held'[a] = 0 /\ a \in deployed']_vars
=============================================================================
