------------------------ MODULE CloudflareWorkerProofs ------------------------
(***************************************************************************)
(* Proofs about CloudflareWorker, for any jobs and any pool of clients:    *)
(* transactions never mix, no post ends the Go program as long as the      *)
(* dispatcher runs do not overlap, and no job waits for ever on the others.*)
(***************************************************************************)
EXTENDS CloudflareWorker, TLAPS

(* The inductive invariants. *)

Active(j) == pc[j] \notin {"idle", "answered"}

\* A job's bridge is registered from its first turn of the event loop to its last.
ContextsInv == \A j \in Job : Active(j) => j \in contexts

\* No two dispatcher runs are under way at once.
DispatchersApart ==
  \A i, j \in Dispatching : i # j => ~(Active(i) /\ Active(j))

\* A dispatcher run has a post function, and the program never ended.
BridgeInv ==
  /\ \A j \in Dispatching : Active(j) => poster = "bound"
  /\ BridgeIsScoped

-----------------------------------------------------------------------------
(* Typing *)

\* A step that leaves clients alone moves its job within its transaction or outside.
LEMMA Moves ==
  ASSUME TypeOK, NEW j \in Job, NEW l \in Place, Goto(j, l), client' = client,
         pc[j] \in InTransaction <=> l \in InTransaction
  PROVE  /\ pc' \in [Job -> Place] /\ client' \in [Job -> Client \cup {NoClient}]
         /\ \A i \in Job : client'[i] # NoClient <=> pc'[i] \in InTransaction
BY DEF Goto, TypeOK

\* A step that takes a client or gives it back begins or ends the transaction.
LEMMA MovesWithClient ==
  ASSUME TypeOK, NEW j \in Job, NEW l \in Place, NEW c \in Client \cup {NoClient},
         Goto(j, l), client' = [client EXCEPT ![j] = c],
         c # NoClient <=> l \in InTransaction
  PROVE  /\ pc' \in [Job -> Place] /\ client' \in [Job -> Client \cup {NoClient}]
         /\ \A i \in Job : client'[i] # NoClient <=> pc'[i] \in InTransaction
BY DEF Goto, TypeOK

LEMMA TypingInit == Init => TypeOK
BY ConstantsAssumption DEF Init, TypeOK, Place, InTransaction

LEMMA TypingStep == TypeOK /\ [Next]_vars => TypeOK'
<1> SUFFICES ASSUME TypeOK, [Next]_vars PROVE TypeOK'
  OBVIOUS
<1> USE ConstantsAssumption
<1>1. ASSUME NEW j \in Job,
             \/ Receive(j) \/ Enter(j) \/ AskToBegin(j) \/ AskToQuery(j) \/ AskToLock(j)
             \/ EndTx(j) \/ Return(j) \/ Post(j) \/ Fetch(j)
             \/ QueryPool(j) \/ LockRow(j) \/ Begun(j) \/ PostEnds(j) \/ FetchEnds(j)
      PROVE  TypeOK'
  <2>1. /\ pc' \in [Job -> Place] /\ client' \in [Job -> Client \cup {NoClient}]
        /\ \A i \in Job : client'[i] # NoClient <=> pc'[i] \in InTransaction
    <3>1. CASE pc' = pc /\ client' = client
      BY <3>1 DEF TypeOK
    <3>2. CASE ~(pc' = pc /\ client' = client)
      <4>1. client' = client
        BY <1>1 DEF Receive, Enter, AskToBegin, AskToQuery, AskToLock, EndTx, Return, Post, Fetch,
          QueryPool, LockRow, Begun, PostEnds, FetchEnds, dbVars
      <4>2. \E l \in Place : Goto(j, l) /\ (pc[j] \in InTransaction <=> l \in InTransaction)
        BY <1>1, <3>2, <4>1 DEF Receive, Enter, AskToBegin, AskToQuery, AskToLock, EndTx, Return, Post,
          Fetch, QueryPool, LockRow, Begun, PostEnds, FetchEnds, Place, InTransaction, Running, Call
      <4> QED
        BY <4>1, <4>2, Moves
    <3> QED
      BY <3>1, <3>2
  <2>2. runtime' \in {"absent", "starting", "up", "broken", "exited"}
    BY <1>1 DEF Receive, Enter, AskToBegin, AskToQuery, AskToLock, EndTx, Return, Post, Fetch,
      QueryPool, LockRow, Begun, PostEnds, FetchEnds, TypeOK
  <2>3. /\ poster' \in {"unbound", "bound", "deleted"}
        /\ contexts' \in SUBSET Job /\ observers' \in SUBSET Observing
    BY <1>1 DEF Receive, Enter, AskToBegin, AskToQuery, AskToLock, EndTx, Return, Post, Fetch,
      QueryPool, LockRow, Begun, PostEnds, FetchEnds, bridges, Observes, TypeOK
  <2>4. idle' \in SUBSET Client /\ lock' \in Job \cup {Nobody} /\ faults' \in 0..MaxFaults
    BY <1>1 DEF Receive, Enter, AskToBegin, AskToQuery, AskToLock, EndTx, Return, Post, Fetch,
      QueryPool, LockRow, Begun, PostEnds, FetchEnds, dbVars, TypeOK
  <2>5. calls' \in [Job -> 0..MaxCalls]
    <3>1. calls' = calls \/ (calls[j] < MaxCalls /\ calls' = [calls EXCEPT ![j] = @ + 1])
      BY <1>1 DEF Receive, Enter, AskToBegin, AskToQuery, AskToLock, EndTx, Return, Post, Fetch,
        QueryPool, LockRow, Begun, PostEnds, FetchEnds, Call
    <3> QED
      BY <3>1 DEF TypeOK
  <2> QED
    BY <2>1, <2>2, <2>3, <2>4, <2>5 DEF TypeOK
<1>2. ASSUME NEW j \in Job, Connect(j) \/ BeginFails(j) \/ Released(j) \/ Leave(j) PROVE TypeOK'
  <2>1. /\ pc' \in [Job -> Place] /\ client' \in [Job -> Client \cup {NoClient}]
        /\ \A i \in Job : client'[i] # NoClient <=> pc'[i] \in InTransaction
    <3>1. \E l \in Place, c \in Client \cup {NoClient} :
            /\ Goto(j, l) /\ client' = [client EXCEPT ![j] = c]
            /\ c # NoClient <=> l \in InTransaction
      BY <1>2 DEF Connect, BeginFails, Released, Leave, Place, InTransaction, TypeOK
    <3> QED
      BY <3>1, MovesWithClient
  <2>2. idle' \in SUBSET Client
    <3>1. pc[j] \in InTransaction => client[j] \in Client
      BY DEF TypeOK
    <3> QED
      BY <1>2, <3>1 DEF Connect, BeginFails, Released, Leave, InTransaction, TypeOK
  <2>3. /\ poster' \in {"unbound", "bound", "deleted"}
        /\ contexts' \in SUBSET Job /\ observers' \in SUBSET Observing
        /\ lock' \in Job \cup {Nobody} /\ faults' \in 0..MaxFaults
    BY <1>2 DEF Connect, BeginFails, Released, Leave, Fault, bridges, TypeOK
  <2>4. runtime' = runtime /\ calls' = calls
    BY <1>2 DEF Connect, BeginFails, Released, Leave
  <2> QED
    BY <2>1, <2>2, <2>3, <2>4 DEF TypeOK
<1>3. CASE RuntimeStarts \/ RuntimeFails
  BY <1>3 DEF RuntimeStarts, RuntimeFails, Fault, bridges, dbVars, TypeOK
<1>4. CASE UNCHANGED vars
  BY <1>4 DEF vars, bridges, dbVars, TypeOK
<1> QED
  BY <1>1, <1>2, <1>3, <1>4 DEF Next, Progress

\* Every variable keeps its type, and a job has a client exactly while it is in a
\* transaction: however the jobs interleave, and whatever fails.
THEOREM TypeCorrect == Spec => []TypeOK
BY TypingInit, TypingStep, PTL DEF Spec

-----------------------------------------------------------------------------
(* Clients and transactions *)

LEMMA ClientsInit == Init => ContextsInv /\ ClientsAreApart
<1> SUFFICES ASSUME Init PROVE ContextsInv /\ ClientsAreApart
  OBVIOUS
<1>1. /\ idle = Client /\ contexts = {}
      /\ \A j \in Job : client[j] = NoClient /\ pc[j] = "idle"
  BY DEF Init
<1> QED
  BY <1>1, ConstantsAssumption DEF ContextsInv, Active, ClientsAreApart

LEMMA ContextsStep == TypeOK /\ ContextsInv /\ [Next]_vars => ContextsInv'
<1> SUFFICES ASSUME TypeOK, ContextsInv, [Next]_vars PROVE ContextsInv'
  OBVIOUS
<1>1. ASSUME NEW j \in Job, Receive(j) PROVE ContextsInv'
  BY <1>1 DEF Receive, Goto, ContextsInv, Active, TypeOK
<1>2. ASSUME NEW j \in Job, Leave(j) PROVE ContextsInv'
  BY <1>2 DEF Leave, Goto, ContextsInv, Active, TypeOK
<1>3. CASE contexts' = contexts /\ \A j \in Job : pc'[j] = pc[j] \/ Active(j)
  BY <1>3 DEF ContextsInv, Active
<1>4. ASSUME NEW j \in Job, (Progress(j) /\ ~Leave(j)) \/ BeginFails(j)
      PROVE  contexts' = contexts /\ \A i \in Job : pc'[i] = pc[i] \/ Active(i)
  <2>1. contexts' = contexts
    BY <1>4 DEF Progress, Enter, AskToBegin, AskToQuery, AskToLock, EndTx, Return, Post, Fetch, Connect,
      QueryPool, LockRow, Begun, Released, PostEnds, FetchEnds, BeginFails, bridges
  <2>2. Active(j)
    BY <1>4 DEF Progress, Enter, AskToBegin, AskToQuery, AskToLock, EndTx, Return, Post, Fetch, Connect,
      QueryPool, LockRow, Begun, Released, PostEnds, FetchEnds, BeginFails, Call, Running, Active
  <2>3. pc' = pc \/ \E l : pc' = [pc EXCEPT ![j] = l]
    BY <1>4 DEF Progress, Enter, AskToBegin, AskToQuery, AskToLock, EndTx, Return, Post, Fetch, Connect,
      QueryPool, LockRow, Begun, Released, PostEnds, FetchEnds, BeginFails, Goto
  <2>4. \A i \in Job : i # j => pc'[i] = pc[i]
    BY <2>3 DEF TypeOK
  <2> QED
    BY <2>1, <2>2, <2>4
<1>5. ASSUME RuntimeStarts \/ RuntimeFails \/ UNCHANGED vars
      PROVE  contexts' = contexts /\ pc' = pc
  BY <1>5 DEF RuntimeStarts, RuntimeFails, vars, bridges
<1> QED
  BY <1>1, <1>2, <1>3, <1>4, <1>5 DEF Next

\* A client changes hands three ways: the pool gives one it has, or takes one back.
LEMMA Handing ==
  ASSUME TypeOK, [Next]_vars
  PROVE  \/ idle' = idle /\ client' = client
         \/ \E j \in Job, c \in idle :
              /\ pc[j] = "connecting" /\ client[j] = NoClient
              /\ idle' = idle \ {c} /\ client' = [client EXCEPT ![j] = c]
         \/ \E j \in Job :
              /\ client[j] # NoClient
              /\ idle' = idle \cup {client[j]} /\ client' = [client EXCEPT ![j] = NoClient]
<1>1. ASSUME NEW j \in Job, Connect(j)
      PROVE  \E c \in idle :
              /\ pc[j] = "connecting" /\ client[j] = NoClient
              /\ idle' = idle \ {c} /\ client' = [client EXCEPT ![j] = c]
  BY <1>1 DEF Connect, TypeOK, InTransaction
<1>2. ASSUME NEW j \in Job, BeginFails(j) \/ Released(j)
      PROVE  /\ client[j] # NoClient
             /\ idle' = idle \cup {client[j]} /\ client' = [client EXCEPT ![j] = NoClient]
  BY <1>2 DEF BeginFails, Released, TypeOK, InTransaction
<1>3. ASSUME NEW j \in Job, Leave(j) PROVE idle' = idle /\ client' = client
  <2>1. client[j] = NoClient
    BY <1>3 DEF Leave, TypeOK, InTransaction
  <2> QED
    BY <1>3, <2>1 DEF Leave, TypeOK
<1>4. ASSUME NEW j \in Job,
             \/ Receive(j) \/ Enter(j) \/ AskToBegin(j) \/ AskToQuery(j) \/ AskToLock(j)
             \/ EndTx(j) \/ Return(j) \/ Post(j) \/ Fetch(j)
             \/ QueryPool(j) \/ LockRow(j) \/ Begun(j) \/ PostEnds(j) \/ FetchEnds(j)
      PROVE  idle' = idle /\ client' = client
  BY <1>4 DEF Receive, Enter, AskToBegin, AskToQuery, AskToLock, EndTx, Return, Post, Fetch,
    QueryPool, LockRow, Begun, PostEnds, FetchEnds, dbVars
<1>5. ASSUME RuntimeStarts \/ RuntimeFails \/ UNCHANGED vars PROVE idle' = idle /\ client' = client
  BY <1>5 DEF RuntimeStarts, RuntimeFails, vars, dbVars
<1> QED
  BY <1>1, <1>2, <1>3, <1>4, <1>5 DEF Next, Progress

LEMMA ClientsStep ==
  TypeOK /\ ContextsInv /\ ClientsAreApart /\ [Next]_vars => ClientsAreApart'
<1> SUFFICES ASSUME TypeOK, ContextsInv, ClientsAreApart, [Next]_vars PROVE ClientsAreApart'
  OBVIOUS
<1>1. TypeOK' /\ ContextsInv'
  BY TypingStep, ContextsStep
<1>2. \A j \in Job : client'[j] # NoClient => j \in contexts'
  BY <1>1 DEF TypeOK, ContextsInv, Active, InTransaction
<1>3. NoClient \notin idle /\ client \in [Job -> Client \cup {NoClient}] /\ idle \subseteq Client
  BY ConstantsAssumption DEF TypeOK
<1>4. CASE idle' = idle /\ client' = client
  BY <1>2, <1>4 DEF ClientsAreApart
<1>5. ASSUME NEW j \in Job, NEW c \in idle, client[j] = NoClient,
             idle' = idle \ {c}, client' = [client EXCEPT ![j] = c]
      PROVE  ClientsAreApart'
  <2>1. client'[j] = c /\ c # NoClient /\ \A i \in Job \ {j} : client'[i] = client[i] /\ client[i] # c
    BY <1>3, <1>5 DEF ClientsAreApart
  <2>2. \A i, k \in Job : i # k /\ client'[i] # NoClient => client'[i] # client'[k]
    BY <2>1 DEF ClientsAreApart
  <2>3. \A i \in Job : client'[i] \notin idle'
    BY <1>5, <2>1 DEF ClientsAreApart
  <2>4. {client'[i] : i \in Job} \ {NoClient} = ({client[i] : i \in Job} \ {NoClient}) \cup {c}
    BY <1>5, <2>1
  <2>5. idle' \cup ({client'[i] : i \in Job} \ {NoClient}) = Client
    BY <1>5, <2>4 DEF ClientsAreApart
  <2> QED
    BY <1>2, <2>2, <2>3, <2>5 DEF ClientsAreApart
<1>6. ASSUME NEW j \in Job, client[j] # NoClient,
             idle' = idle \cup {client[j]}, client' = [client EXCEPT ![j] = NoClient]
      PROVE  ClientsAreApart'
  <2>1. client'[j] = NoClient /\ \A i \in Job \ {j} : client'[i] = client[i] /\ client[i] # client[j]
    BY <1>3, <1>6 DEF ClientsAreApart
  <2>2. \A i, k \in Job : i # k /\ client'[i] # NoClient => client'[i] # client'[k]
    BY <2>1 DEF ClientsAreApart
  <2>3. \A i \in Job : client'[i] \notin idle'
    BY <1>3, <1>6, <2>1 DEF ClientsAreApart
  <2>4. {client[i] : i \in Job} \ {NoClient} = ({client'[i] : i \in Job} \ {NoClient}) \cup {client[j]}
    BY <1>6, <2>1
  <2>5. idle' \cup ({client'[i] : i \in Job} \ {NoClient}) = Client
    BY <1>6, <2>4 DEF ClientsAreApart
  <2> QED
    BY <1>2, <2>2, <2>3, <2>5 DEF ClientsAreApart
<1> QED
  BY <1>4, <1>5, <1>6, Handing

\* Transactions never mix and no client of the pool is lost or given out twice, for
\* any number of jobs on the event loop and whatever fails.
THEOREM ClientsApart == Spec => []ClientsAreApart
<1>1. Init => TypeOK /\ ContextsInv /\ ClientsAreApart
  BY TypingInit, ClientsInit
<1>2. TypeOK /\ ContextsInv /\ ClientsAreApart /\ [Next]_vars
        => (TypeOK /\ ContextsInv /\ ClientsAreApart)'
  BY TypingStep, ContextsStep, ClientsStep
<1> QED
  BY <1>1, <1>2, PTL DEF Spec

-----------------------------------------------------------------------------
(* The post function *)

LEMMA BridgeInit == Init => BridgeInv
BY ConstantsAssumption DEF Init, BridgeInv, BridgeIsScoped, Active

LEMMA BridgeStep ==
  TypeOK /\ DispatchersApart /\ BridgeInv /\ [Next]_vars => BridgeInv'
<1> SUFFICES ASSUME TypeOK, DispatchersApart, BridgeInv, [Next]_vars PROVE BridgeInv'
  OBVIOUS
<1> USE ConstantsAssumption
<1>1. ASSUME NEW j \in Job, Receive(j) PROVE BridgeInv'
  BY <1>1 DEF Receive, Goto, Notifies, BridgeInv, BridgeIsScoped, Active, TypeOK
<1>2. ASSUME NEW j \in Job, Leave(j) PROVE BridgeInv'
  <2>1. runtime' = runtime /\ pc' = [pc EXCEPT ![j] = "answered"] /\ Active(j)
    BY <1>2 DEF Leave, Goto, Active
  <2>2. CASE j \in Dispatching
    <3>1. \A i \in Dispatching : ~(pc'[i] \notin {"idle", "answered"})
      BY <2>1, <2>2 DEF DispatchersApart, Active, TypeOK
    <3> QED
      BY <2>1, <3>1 DEF BridgeInv, BridgeIsScoped, Active
  <2>3. CASE j \notin Dispatching
    <3>1. poster' = poster /\ \A i \in Dispatching : pc'[i] = pc[i]
      BY <1>2, <2>1, <2>3 DEF Leave, Notifies, TypeOK
    <3> QED
      BY <2>1, <3>1 DEF BridgeInv, BridgeIsScoped, Active
  <2> QED
    BY <2>2, <2>3
<1>3. CASE poster' = poster /\ runtime' # "exited" /\ \A j \in Job : pc'[j] = pc[j] \/ Active(j)
  BY <1>3 DEF BridgeInv, BridgeIsScoped, Active
<1>4. ASSUME NEW j \in Job, (Progress(j) /\ ~Leave(j)) \/ BeginFails(j)
      PROVE  poster' = poster /\ runtime' # "exited" /\ \A i \in Job : pc'[i] = pc[i] \/ Active(i)
  <2>1. poster' = poster
    BY <1>4 DEF Progress, Enter, AskToBegin, AskToQuery, AskToLock, EndTx, Return, Post, Fetch, Connect,
      QueryPool, LockRow, Begun, Released, PostEnds, FetchEnds, BeginFails, bridges
  <2>2. Active(j)
    BY <1>4 DEF Progress, Enter, AskToBegin, AskToQuery, AskToLock, EndTx, Return, Post, Fetch, Connect,
      QueryPool, LockRow, Begun, Released, PostEnds, FetchEnds, BeginFails, Call, Running, Active
  <2>3. pc' = pc \/ \E l : pc' = [pc EXCEPT ![j] = l]
    BY <1>4 DEF Progress, Enter, AskToBegin, AskToQuery, AskToLock, EndTx, Return, Post, Fetch, Connect,
      QueryPool, LockRow, Begun, Released, PostEnds, FetchEnds, BeginFails, Goto
  <2>4. \A i \in Job : i # j => pc'[i] = pc[i]
    BY <2>3 DEF TypeOK
  <2>5. runtime' = runtime
    <3>1. CASE Post(j)
      <4>1. poster = "bound"
        BY <2>2, <3>1 DEF Post, Notifies, BridgeInv
      <4> QED
        BY <3>1, <4>1 DEF Post
    <3>2. CASE ~Post(j)
      BY <1>4, <3>2 DEF Progress, Enter, AskToBegin, AskToQuery, AskToLock, EndTx, Return, Fetch,
        Connect, QueryPool, LockRow, Begun, Released, PostEnds, FetchEnds, BeginFails
    <3> QED
      BY <3>1, <3>2
  <2> QED
    BY <2>1, <2>2, <2>4, <2>5 DEF BridgeInv, BridgeIsScoped
<1>5. ASSUME RuntimeStarts \/ RuntimeFails \/ UNCHANGED vars
      PROVE  poster' = poster /\ runtime' # "exited" /\ pc' = pc
  BY <1>5 DEF RuntimeStarts, RuntimeFails, vars, bridges, BridgeInv, BridgeIsScoped
<1> QED
  BY <1>1, <1>2, <1>3, <1>4, <1>5 DEF Next

\* As long as no two dispatcher runs are under way at once, each finds the post function
\* it registered: no post ends the Go program that all jobs share.  (Two that overlap
\* do end it: the run worker_overlap.)
THEOREM BridgeScoped == Spec /\ []DispatchersApart => []BridgeIsScoped
<1>1. Init => TypeOK /\ BridgeInv
  BY TypingInit, BridgeInit
<1>2. TypeOK /\ BridgeInv /\ DispatchersApart /\ [Next]_vars => (TypeOK /\ BridgeInv)'
  BY TypingStep, BridgeStep
<1>3. BridgeInv => BridgeIsScoped
  BY DEF BridgeInv
<1> QED
  BY <1>1, <1>2, <1>3, PTL DEF Spec

-----------------------------------------------------------------------------
(* Waiting *)

\* The row is locked by a transaction that has nothing more to wait for.
LockInv == lock # Nobody => pc[lock] \in {"locked", "ending"}

\* No client is idle, or the row is locked.
Waits(j) ==
  \/ pc[j] \in {"connecting", "querying"} /\ idle = {}
  \/ pc[j] = "waiting" /\ lock # Nobody

\* When a job waits there is one in a transaction that does not, on whose end all who
\* wait depend.
SomeTransactionGoesOn ==
  (\E j \in Job : Waits(j)) => \E j \in Job : client[j] # NoClient /\ ~Waits(j)

LEMMA LockStep == TypeOK /\ LockInv /\ [Next]_vars => LockInv'
<1> SUFFICES ASSUME TypeOK, LockInv, [Next]_vars PROVE LockInv'
  OBVIOUS
<1> USE DEF LockInv
<1>1. ASSUME NEW j \in Job, LockRow(j) PROVE LockInv'
  BY <1>1 DEF LockRow, Goto, TypeOK
<1>2. ASSUME NEW j \in Job, Released(j) \/ Leave(j) PROVE LockInv'
  BY <1>2, ConstantsAssumption DEF Released, Leave, Goto, TypeOK
<1>3. ASSUME NEW j \in Job, EndTx(j) PROVE LockInv'
  BY <1>3, ConstantsAssumption DEF EndTx, Goto, dbVars, TypeOK
<1>4. ASSUME NEW j \in Job,
             \/ Receive(j) \/ Enter(j) \/ AskToBegin(j) \/ AskToQuery(j) \/ AskToLock(j)
             \/ Return(j) \/ Post(j) \/ Fetch(j) \/ Connect(j) \/ QueryPool(j) \/ Begun(j)
             \/ BeginFails(j) \/ PostEnds(j) \/ FetchEnds(j)
      PROVE  LockInv'
  <2>1. lock' = lock
    BY <1>4 DEF Receive, Enter, AskToBegin, AskToQuery, AskToLock, Return, Post, Fetch, Connect,
         QueryPool, Begun, BeginFails, PostEnds, FetchEnds, dbVars
  <2>2. pc[j] \notin {"locked", "ending"} /\ \A i \in Job \ {j} : pc'[i] = pc[i]
    BY <1>4 DEF Receive, Enter, AskToBegin, AskToQuery, AskToLock, Return, Post, Fetch, Connect,
         QueryPool, Begun, BeginFails, PostEnds, FetchEnds, Call, Running, Goto, TypeOK
  <2> QED BY <2>1, <2>2 DEF TypeOK
<1>5. CASE RuntimeStarts \/ RuntimeFails \/ UNCHANGED vars
  BY <1>5 DEF RuntimeStarts, RuntimeFails, dbVars, vars
<1> QED BY <1>1, <1>2, <1>3, <1>4, <1>5 DEF Next, Progress

\* However many jobs share however small a pool: no deadlock, neither of two jobs that
\* hold a client and want another, nor of one that has the row and one that has the
\* last client.
THEOREM NoDeadlock == Spec => []SomeTransactionGoesOn
<1>1. Init => LockInv
  BY DEF Init, LockInv
<1>2. TypeOK /\ ClientsAreApart /\ LockInv => SomeTransactionGoesOn
  <2> SUFFICES ASSUME TypeOK, ClientsAreApart, LockInv, NEW i \in Job, Waits(i)
               PROVE  \E j \in Job : client[j] # NoClient /\ ~Waits(j)
    BY DEF SomeTransactionGoesOn
  <2>1. CASE lock # Nobody
    <3>1. lock \in Job /\ pc[lock] \in {"locked", "ending"}
      BY <2>1 DEF TypeOK, LockInv
    <3> QED BY <3>1 DEF TypeOK, InTransaction, Waits
  <2>2. CASE lock = Nobody
    <3>1. idle = {}
      BY <2>2 DEF Waits
    <3>2. PICK j \in Job : client[j] # NoClient
      BY <3>1, ConstantsAssumption DEF ClientsAreApart
    <3> QED BY <2>2, <3>2 DEF TypeOK, InTransaction, Waits
  <2> QED BY <2>1, <2>2
<1> QED BY <1>1, <1>2, LockStep, TypeCorrect, ClientsApart, PTL DEF Spec
=============================================================================
