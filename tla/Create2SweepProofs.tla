------------------------- MODULE Create2SweepProofs -------------------------
(* Theorems of Create2Sweep, for any rows, factories, collectors and operators. *)
EXTENDS Create2Sweep, TLAPS

(***************************************************************************)
(* Types.  What a script selected and what a sweep was signed for stay     *)
(* true of the rows, since an issued row keeps its material.               *)
(***************************************************************************)
ScriptsMatch ==
  \A o \in Operator : script[o] # Idle =>
    /\ script[o].rows \subseteq Issued
    /\ script[o].rows # {}
    /\ \A a, b \in script[o].rows :
         material[a].factory = material[b].factory /\ AssetOf[a] = AssetOf[b]

SweepsMatch ==
  \A tx \in mempool :
    /\ tx.rows \subseteq Issued
    /\ \A a \in tx.rows : material[a].factory = tx.factory /\ AssetOf[a] = tx.asset

TypeInv == TypeOK /\ ScriptsMatch /\ SweepsMatch

\* An issued row records a build and keeps it.
LEMMA IssuedHasBuild == ASSUME TypeOK, NEW a \in Issued PROVE material[a] \in Build
BY DEF TypeOK, Issued

LEMMA IssueKeepsOthers ==
  ASSUME TypeOK, NEW a \in Row, NEW b \in running, Issue(a, b)
  PROVE  /\ material' \in [Row -> Build \cup {NoMaterial}]
         /\ Issued' = Issued \cup {a}
         /\ a \notin Issued
         /\ \A c \in Issued : material'[c] = material[c]
         /\ material'[a] = b
<1>1. b \in Build /\ b # NoMaterial
  BY NullsAssumption DEF TypeOK
<1> QED
  BY <1>1 DEF TypeOK, Issue, Issued, Issuable

\* A successful sweep leaves balances that are balances.
LEMMA CollectKeepsTypes ==
  ASSUME TypeInv, NEW tx \in mempool, SweepAll(tx)
  PROVE  /\ held' \in [Row -> Nat]
         /\ arrived' \in [Row -> [Collector -> Nat]]
         /\ deployed' \subseteq Issued
<1>1. held' \in [Row -> Nat]
  BY DEF TypeInv, TypeOK, SweepAll, Collect
<1>2. \A a \in Row, k \in Collector :
        arrived[a][k] + (IF a \in Emptied(tx) /\ k = CollectorOf[material[a].code]
                         THEN held[a] ELSE 0) \in Nat
  BY DEF TypeInv, TypeOK
<1>3. arrived' \in [Row -> [Collector -> Nat]]
  BY <1>2 DEF SweepAll, Collect
<1>4. deployed' \subseteq Issued
  BY DEF TypeInv, TypeOK, SweepsMatch, SweepAll, Collect, Receivers
<1> QED
  BY <1>1, <1>3, <1>4

LEMMA TypeInit == Init => TypeInv
<1> SUFFICES ASSUME Init PROVE TypeInv
  OBVIOUS
<1>1. \A f \in Factory : onchain[f] \in {"nothing", "factory", "other"}
  BY DEF Init
<1>2. TypeOK
  BY ConstantsAssumption DEF Init, TypeOK, Issued
<1>3. ScriptsMatch /\ SweepsMatch
  BY DEF Init, ScriptsMatch, SweepsMatch
<1> QED
  BY <1>2, <1>3 DEF TypeInv

LEMMA TypeStep == TypeInv /\ [Next]_vars => TypeInv'
<1> SUFFICES ASSUME TypeInv, [Next]_vars PROVE TypeInv'
  OBVIOUS
<1> USE DEF TypeInv
<1>1. ASSUME NEW f \in Factory, DeployFactory(f) PROVE TypeInv'
  BY <1>1 DEF DeployFactory, TypeOK, ScriptsMatch, SweepsMatch, Issued, balances, operatorVars
<1>2. ASSUME NEW c \in Code, Start(c) PROVE TypeInv'
  BY <1>2 DEF Start, TypeOK, ScriptsMatch, SweepsMatch, Issued, balances, operatorVars, Build
<1>3. ASSUME NEW b \in running, Shut(b) PROVE TypeInv'
  BY <1>3 DEF Shut, TypeOK, ScriptsMatch, SweepsMatch, Issued, balances, operatorVars
<1>4. ASSUME NEW a \in Row, Pay(a) PROVE TypeInv'
  <2>1. paid[a] + 1 \in Nat /\ paid[a] + 1 <= MaxPaid[a] /\ held[a] + 1 \in Nat
    <3>1. paid[a] \in Nat /\ held[a] \in Nat /\ MaxPaid[a] \in Nat /\ paid[a] < MaxPaid[a]
      BY <1>4, ConstantsAssumption DEF Pay, TypeOK
    <3> QED
      BY <3>1
  <2>2. /\ paid' \in [Row -> Nat] /\ \A c \in Row : paid'[c] <= MaxPaid[c]
        /\ held' \in [Row -> Nat]
    BY <1>4, <2>1 DEF Pay, TypeOK
  <2>3. TypeOK'
    BY <1>4, <2>2 DEF Pay, TypeOK, Issued, operatorVars
  <2> QED
    BY <1>4, <2>3 DEF Pay, ScriptsMatch, SweepsMatch, Issued, operatorVars
<1>5. ASSUME NEW a \in Row, NEW b \in running, Issue(a, b) PROVE TypeInv'
  <2>0. /\ material' \in [Row -> Build \cup {NoMaterial}]
        /\ Issued \subseteq Issued'
        /\ \A c \in Issued : material'[c] = material[c]
    BY <1>5, IssueKeepsOthers
  <2>1. TypeOK'
    BY <1>5, <2>0 DEF Issue, TypeOK, balances, operatorVars
  <2>2. ScriptsMatch'
    <3> SUFFICES ASSUME NEW o \in Operator, script[o] # Idle
                 PROVE  /\ script[o].rows \subseteq Issued'
                        /\ script[o].rows # {}
                        /\ \A c, d \in script[o].rows :
                             /\ material'[c].factory = material'[d].factory
                             /\ AssetOf[c] = AssetOf[d]
      BY <1>5 DEF Issue, ScriptsMatch, operatorVars
    <3> QED
      BY <2>0 DEF ScriptsMatch
  <2>3. SweepsMatch'
    <3> SUFFICES ASSUME NEW tx \in mempool
                 PROVE  /\ tx.rows \subseteq Issued'
                        /\ \A c \in tx.rows :
                             material'[c].factory = tx.factory /\ AssetOf[c] = tx.asset
      BY <1>5 DEF Issue, SweepsMatch, operatorVars
    <3> QED
      BY <2>0 DEF SweepsMatch
  <2> QED
    BY <2>1, <2>2, <2>3
<1>6. ASSUME NEW o \in Operator, NEW S \in SUBSET Issued, Select(o, S) PROVE TypeInv'
  <2>1. [rows |-> S, unread |-> S] \in Reading
    BY DEF Reading, Issued
  <2>2. TypeOK' /\ SweepsMatch'
    BY <1>6, <2>1 DEF Select, TypeOK, SweepsMatch, Issued, balances
  <2>3. ScriptsMatch'
    BY <1>6 DEF Select, Batch, TypeOK, ScriptsMatch, Issued
  <2> QED
    BY <2>2, <2>3
<1>7. ASSUME NEW o \in Operator, NEW a \in Row, ReadBalance(o, a) PROVE TypeInv'
  <2>1. script[o] \in Reading
    BY <1>7 DEF ReadBalance, TypeOK
  <2>2. /\ script'[o] = [rows |-> script[o].rows, unread |-> script[o].unread \ {a}]
        /\ script'[o] \in Reading
    BY <1>7, <2>1 DEF ReadBalance, TypeOK, Reading
  <2>3. \A p \in Operator : p # o => script'[p] = script[p]
    BY <1>7 DEF ReadBalance, TypeOK
  <2>4. script' \in [Operator -> Reading \cup {Idle}]
    BY <1>7, <2>2 DEF ReadBalance, TypeOK
  <2>5. TypeOK' /\ SweepsMatch'
    BY <1>7, <2>4 DEF ReadBalance, TypeOK, SweepsMatch, Issued, balances
  <2>6. ScriptsMatch'
    BY <1>7, <2>2, <2>3 DEF ReadBalance, ScriptsMatch, Issued
  <2> QED
    BY <2>5, <2>6
<1>8. ASSUME NEW o \in Operator, Broadcast(o) PROVE TypeInv'
  <2> DEFINE S == script[o].rows
             one == CHOOSE a \in S : TRUE
             tx == [factory |-> SelectedFactory(S), asset |-> AssetOf[one], rows |-> S]
  <2>1. /\ script[o] \in Reading /\ script[o] # Idle
        /\ S \subseteq Issued /\ one \in S
        /\ \A a \in S : material[a].factory = material[one].factory /\ AssetOf[a] = AssetOf[one]
    BY <1>8 DEF Broadcast, TypeOK, ScriptsMatch
  <2>2. tx \in Sweep
    BY <2>1, IssuedHasBuild, ConstantsAssumption DEF SelectedFactory, Sweep, Build, Issued
  <2>3. TypeOK' /\ ScriptsMatch'
    BY <1>8, <2>2 DEF Broadcast, TypeOK, ScriptsMatch, Issued, balances
  <2>4. mempool' = mempool \cup {tx} /\ UNCHANGED material
    BY <1>8 DEF Broadcast
  <2>5. /\ tx.rows \subseteq Issued
        /\ \A a \in tx.rows : material[a].factory = tx.factory /\ AssetOf[a] = tx.asset
    BY <2>1 DEF SelectedFactory
  <2>6. SweepsMatch'
    BY <2>4, <2>5 DEF SweepsMatch, Issued
  <2> QED
    BY <2>3, <2>6
<1>9. ASSUME NEW o \in Operator, Stop(o) PROVE TypeInv'
  BY <1>9 DEF Stop, TypeOK, ScriptsMatch, SweepsMatch, Issued, balances
<1>10. ASSUME NEW tx \in mempool, Succeed(tx) PROVE TypeInv'
  <2>1. TypeOK'
    BY <1>10, CollectKeepsTypes DEF Succeed, TypeOK, Issued
  <2> QED
    BY <1>10, <2>1 DEF Succeed, ScriptsMatch, SweepsMatch, Issued
<1>11. ASSUME NEW tx \in mempool, Fail(tx) PROVE TypeInv'
  BY <1>11 DEF Fail, TypeOK, ScriptsMatch, SweepsMatch, Issued, balances
<1>12. ASSUME UNCHANGED vars PROVE TypeInv'
  BY <1>12 DEF vars, TypeOK, ScriptsMatch, SweepsMatch, Issued, balances, operatorVars
<1> QED
  BY <1>1, <1>2, <1>3, <1>4, <1>5, <1>6, <1>7, <1>8, <1>9, <1>10, <1>11, <1>12 DEF Next

\* TypeOK for every value of the constants: scripts, sweeps, balances and recovery
\* material keep their types.
THEOREM TypeCorrect == Spec => []TypeOK
<1>1. TypeInv => TypeOK
  BY DEF TypeInv
<1> QED
  BY <1>1, TypeInit, TypeStep, PTL DEF Spec

(***************************************************************************)
(* Recovery.  Every build that serves found its factory ready, a factory   *)
(* never goes away, and an address is issued by a build that serves.       *)
(***************************************************************************)
RunningIsReady == \A b \in running : onchain[b.factory] = "factory"

RecoveryInv == TypeInv /\ RunningIsReady /\ PaymentsAreRecoverable

LEMMA RecoveryInit == Init => RecoveryInv
BY TypeInit DEF Init, RecoveryInv, RunningIsReady, PaymentsAreRecoverable, Issued

LEMMA RecoveryStep == RecoveryInv /\ [Next]_vars => RecoveryInv'
<1> SUFFICES ASSUME RecoveryInv, [Next]_vars PROVE RecoveryInv'
  OBVIOUS
<1>t. TypeInv /\ TypeInv' /\ TypeOK
  BY TypeStep DEF RecoveryInv, TypeInv
<1> USE DEF RecoveryInv
<1>1. ASSUME NEW f \in Factory, DeployFactory(f) PROVE RecoveryInv'
  <2>1. \A g \in Factory : onchain[g] = "factory" => onchain'[g] = "factory"
    BY <1>1, <1>t DEF DeployFactory, TypeOK
  <2>2. \A b \in running : b.factory \in Factory
    BY <1>t DEF TypeOK, Build
  <2>3. \A a \in Issued : material[a].factory \in Factory
    BY <1>t, IssuedHasBuild DEF Build
  <2> QED
    BY <1>1, <1>t, <2>1, <2>2, <2>3
    DEF DeployFactory, RunningIsReady, PaymentsAreRecoverable, Issued
<1>2. ASSUME NEW c \in Code, Start(c) PROVE RecoveryInv'
  BY <1>2, <1>t DEF Start, Ready, RunningIsReady, PaymentsAreRecoverable, Issued
<1>3. ASSUME NEW b \in running, Shut(b) PROVE RecoveryInv'
  BY <1>3, <1>t DEF Shut, RunningIsReady, PaymentsAreRecoverable, Issued
<1>4. ASSUME NEW a \in Row, NEW b \in running, Issue(a, b) PROVE RecoveryInv'
  <2>1. \A c \in Issued' : onchain[material'[c].factory] = "factory"
    BY <1>4, <1>t, IssueKeepsOthers DEF RunningIsReady, PaymentsAreRecoverable
  <2> QED
    BY <1>4, <1>t, <2>1 DEF Issue, RunningIsReady, PaymentsAreRecoverable
<1>5. ASSUME UNCHANGED <<onchain, running, material>> PROVE RecoveryInv'
  BY <1>5, <1>t DEF RunningIsReady, PaymentsAreRecoverable, Issued
<1>6. CASE \E a \in Row : Pay(a)
  BY <1>5, <1>6 DEF Pay
<1>7. CASE \E o \in Operator :
             \/ \E S \in SUBSET Issued : Select(o, S)
             \/ \E a \in Row : ReadBalance(o, a)
             \/ Broadcast(o) \/ Stop(o)
  BY <1>5, <1>7 DEF Select, ReadBalance, Broadcast, Stop
<1>8. CASE \E tx \in mempool : Succeed(tx) \/ Fail(tx)
  BY <1>5, <1>8 DEF Succeed, Fail
<1>9. CASE UNCHANGED vars
  BY <1>5, <1>9 DEF vars
<1> QED
  BY <1>1, <1>2, <1>3, <1>4, <1>6, <1>7, <1>8, <1>9 DEF Next

\* PaymentsAreRecoverable for every value of the constants: whatever deployments
\* fail and whichever builds run, the factory of an issued address is there.
THEOREM AddressesCanBeEmptied == Spec => []PaymentsAreRecoverable
<1>1. RecoveryInv => PaymentsAreRecoverable
  BY DEF RecoveryInv
<1> QED
  BY <1>1, RecoveryInit, RecoveryStep, PTL DEF Spec

\* SuccessMeansSwept for every value of the constants: a sweep that succeeds has
\* emptied all of its batch, as its rows share the factory it was sent to.
THEOREM SweepsAreComplete == Spec => SuccessMeansSwept
<1>1. ASSUME RecoveryInv, NEW tx \in mempool, Succeed(tx), NEW a \in tx.rows
      PROVE  held'[a] = 0 /\ a \in deployed'
  <2>1. /\ a \in Issued /\ a \in Row
        /\ material[a].factory = tx.factory /\ AssetOf[a] = tx.asset
        /\ held[a] \in Nat
    BY <1>1 DEF RecoveryInv, TypeInv, TypeOK, SweepsMatch, Issued
  <2>2. a \in Receivers(tx)
    BY <1>1, <2>1 DEF RecoveryInv, PaymentsAreRecoverable, Receivers
  <2>3. a \in deployed' /\ held'[a] = IF a \in Emptied(tx) THEN 0 ELSE held[a]
    BY <1>1, <2>1, <2>2 DEF Succeed, SweepAll, Collect
  <2>4. held[a] > 0 => a \in Emptied(tx)
    BY <2>1, <2>2 DEF Emptied
  <2> QED
    BY <2>1, <2>3, <2>4
<1>2. RecoveryInv => [\A tx \in mempool : Succeed(tx) =>
                        \A a \in tx.rows : held'[a] = 0 /\ a \in deployed']_vars
  BY <1>1
<1> QED
  BY <1>2, RecoveryInit, RecoveryStep, PTL DEF Spec, SuccessMeansSwept

(***************************************************************************)
(* Money.  Balances change by payments, which add the same to both sides,  *)
(* and by sweeps, which move what is held to the recorded collector.       *)
(***************************************************************************)
NothingUnissued ==
  \A a \in Row \ Issued :
    held[a] = 0 /\ paid[a] = 0 /\ \A k \in Collector : arrived[a][k] = 0

MoneyInv == TypeInv /\ NothingIsLost /\ NothingUnissued

LEMMA MoneyInit == Init => MoneyInv
BY TypeInit DEF Init, MoneyInv, NothingIsLost, NothingUnissued, Issued

LEMMA MoneyStep == MoneyInv /\ [Next]_vars => MoneyInv'
<1> SUFFICES ASSUME MoneyInv, [Next]_vars PROVE MoneyInv'
  OBVIOUS
<1>t. TypeInv /\ TypeInv' /\ TypeOK
  BY TypeStep DEF MoneyInv, TypeInv
<1>1. ASSUME NEW a \in Row, Pay(a) PROVE MoneyInv'
  <2>1. /\ a \in Issued /\ Issued' = Issued
        /\ \A c \in Row : paid'[c] = paid[c] + (IF c = a THEN 1 ELSE 0)
        /\ \A c \in Row : held'[c] = held[c] + (IF c = a THEN 1 ELSE 0)
        /\ UNCHANGED <<material, arrived, deployed>>
    BY <1>1, <1>t DEF Pay, TypeOK, Issued
  <2>2. \A c \in Issued, k \in Collector :
          held[c] \in Nat /\ paid[c] \in Nat /\ arrived[c][k] \in Nat
    BY <1>t DEF TypeOK, Issued
  <2>3. NothingIsLost'
    BY <2>1, <2>2 DEF MoneyInv, NothingIsLost, Issued
  <2>4. NothingUnissued'
    BY <2>1, <1>t DEF MoneyInv, NothingUnissued, TypeOK
  <2> QED
    BY <1>t, <2>3, <2>4 DEF MoneyInv
<1>2. ASSUME NEW a \in Row, NEW b \in running, Issue(a, b) PROVE MoneyInv'
  <2>1. /\ Issued' = Issued \cup {a} /\ a \notin Issued
        /\ \A c \in Issued : material'[c] = material[c]
        /\ UNCHANGED <<held, paid, arrived, deployed>>
    BY <1>2, <1>t, IssueKeepsOthers DEF Issue, balances
  <2>2. held[a] = 0 /\ paid[a] = 0 /\ \A k \in Collector : arrived[a][k] = 0
    BY <2>1 DEF MoneyInv, NothingUnissued
  <2>3. NothingIsLost'
    BY <2>1, <2>2 DEF MoneyInv, NothingIsLost
  <2>4. NothingUnissued'
    BY <2>1 DEF MoneyInv, NothingUnissued
  <2> QED
    BY <1>t, <2>3, <2>4 DEF MoneyInv
<1>3. ASSUME NEW tx \in mempool, Succeed(tx) PROVE MoneyInv'
  <2>1. /\ \A c \in Row : held'[c] = IF c \in Emptied(tx) THEN 0 ELSE held[c]
        /\ \A c \in Row, k \in Collector :
             arrived'[c][k] = arrived[c][k] +
               (IF c \in Emptied(tx) /\ k = CollectorOf[material[c].code] THEN held[c] ELSE 0)
        /\ deployed' = deployed \cup Receivers(tx)
        /\ Issued' = Issued /\ UNCHANGED <<material, paid>>
    BY <1>3 DEF Succeed, SweepAll, Collect, Issued
  <2>2. Emptied(tx) \subseteq Receivers(tx) /\ Emptied(tx) \subseteq Issued
    BY <1>t DEF TypeInv, SweepsMatch, Emptied, Receivers
  <2>3. ASSUME NEW c \in Issued, NEW k \in Collector
        PROVE  /\ k = CollectorOf[material[c].code] => arrived'[c][k] + held'[c] = paid[c]
               /\ k # CollectorOf[material[c].code] => arrived'[c][k] = 0
               /\ arrived'[c][k] > 0 => c \in deployed'
    <3>1. c \in Row /\ held[c] \in Nat /\ paid[c] \in Nat /\ arrived[c][k] \in Nat
      BY <1>t DEF TypeOK, Issued
    <3>2. CASE c \in Emptied(tx) /\ k = CollectorOf[material[c].code]
      BY <2>1, <2>2, <3>1, <3>2 DEF MoneyInv, NothingIsLost
    <3>3. CASE ~(c \in Emptied(tx) /\ k = CollectorOf[material[c].code])
      BY <2>1, <3>1, <3>3 DEF MoneyInv, NothingIsLost
    <3> QED
      BY <3>2, <3>3
  <2>4. NothingIsLost'
    BY <2>1, <2>3 DEF NothingIsLost
  <2>5. NothingUnissued'
    BY <2>1, <2>2 DEF MoneyInv, NothingUnissued
  <2> QED
    BY <1>t, <2>4, <2>5 DEF MoneyInv
<1>4. ASSUME UNCHANGED <<material, balances>> PROVE MoneyInv'
  BY <1>4, <1>t DEF MoneyInv, NothingIsLost, NothingUnissued, Issued, balances
<1>5. CASE \/ \E f \in Factory : DeployFactory(f)
           \/ \E c \in Code : Start(c)
           \/ \E b \in running : Shut(b)
  BY <1>4, <1>5 DEF DeployFactory, Start, Shut
<1>6. CASE \E o \in Operator :
             \/ \E S \in SUBSET Issued : Select(o, S)
             \/ \E a \in Row : ReadBalance(o, a)
             \/ Broadcast(o) \/ Stop(o)
  BY <1>4, <1>6 DEF Select, ReadBalance, Broadcast, Stop
<1>7. CASE \E tx \in mempool : Fail(tx)
  BY <1>4, <1>7 DEF Fail
<1>8. CASE UNCHANGED vars
  BY <1>4, <1>8 DEF vars
<1> QED
  BY <1>1, <1>2, <1>3, <1>5, <1>6, <1>7, <1>8 DEF Next

\* NothingIsLost for every value of the constants: what was paid to an address lies
\* there or has arrived at the collector fixed when it was issued.
THEOREM PaymentsAreConserved == Spec => []NothingIsLost
<1>1. MoneyInv => NothingIsLost
  BY DEF MoneyInv
<1> QED
  BY <1>1, MoneyInit, MoneyStep, PTL DEF Spec
=============================================================================
