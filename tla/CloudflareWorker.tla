---------------------------- MODULE CloudflareWorker ----------------------------
(***************************************************************************)
(* One isolate of the Cloudflare worker.  API requests, poller runs and    *)
(* dispatcher runs are jobs that interleave on its event loop and share    *)
(* one Go program compiled to Wasm, one pool of database clients and one   *)
(* global function that posts webhooks.  Each job registers its bridges,   *)
(* waits for the Go program, has it run the operation - transactions, posts*)
(* and blockchain requests through the bridges - and unregisters.          *)
(*                                                                         *)
(* A statement that locks a row is kept, as a lock all jobs compete for;   *)
(* what else the statements do is in the other modules.                    *)
(*                                                                         *)
(* Bounds: MaxCalls calls of a job through its bridges; MaxFaults failures.*)
(***************************************************************************)
EXTENDS Integers, FiniteSets

CONSTANTS
  Job,          \* requests and scheduled runs the isolate serves
  Dispatching,  \* the jobs that are webhook dispatcher runs
  Observing,    \* the jobs that are Bitcoin poller runs
  Client,       \* database clients of the pool
  MaxCalls, MaxFaults,
  NoClient, Nobody

ASSUME ConstantsAssumption ==
  /\ Dispatching \subseteq Job /\ Observing \subseteq Job \ Dispatching
  /\ Client # {} /\ NoClient \notin Client
  /\ Nobody \notin Job
  /\ MaxCalls \in Nat /\ MaxFaults \in Nat

VARIABLES
  runtime,   \* the Go program: runtimePromise, or what became of it
  poster,    \* globalThis.__payruneWebhookPost
  contexts,  \* jobs whose postgres bridge is registered
  observers, \* jobs whose Bitcoin observer bridge is registered
  idle,      \* clients in the pool
  client,    \* client[j]: the client of job j's transaction
  lock,      \* the job whose transaction holds the row lock
  pc,        \* pc[j]: where job j stands
  calls,     \* calls[j]: bridge calls job j has made
  faults

dbVars == <<idle, client, lock>>
bridges == <<poster, contexts, observers>>
vars == <<runtime, bridges, dbVars, pc, calls, faults>>

Goto(j, l) == pc' = [pc EXCEPT ![j] = l]
Fault == faults < MaxFaults /\ faults' = faults + 1

\* Loading the module registers a post function that has no environment.
Init ==
  /\ runtime = "absent" /\ poster = "unbound" /\ contexts = {} /\ observers = {}
  /\ idle = Client /\ client = [j \in Job |-> NoClient] /\ lock = Nobody
  /\ pc = [j \in Job |-> "idle"] /\ calls = [j \in Job |-> 0] /\ faults = 0

-----------------------------------------------------------------------------
(* The JavaScript shell. *)

\* Only dispatcher runs are wired to the notifier, and poller runs to the observer.
Notifies(j) == j \in Dispatching
Observes(j) == j \in Observing

\* Bridges are registered and the Go program is asked for, in one turn of the
\* event loop.
Receive(j) ==
  /\ pc[j] = "idle"
  /\ Goto(j, "entered")
  /\ contexts' = contexts \cup {j}
  /\ observers' = IF Observes(j) THEN observers \cup {j} ELSE observers
  /\ poster' = IF Notifies(j) THEN "bound" ELSE poster
  /\ runtime' = IF runtime = "absent" THEN "starting" ELSE runtime
  /\ UNCHANGED <<dbVars, calls, faults>>

RuntimeStarts ==
  /\ runtime = "starting"
  /\ runtime' = "up"
  /\ UNCHANGED <<bridges, dbVars, pc, calls, faults>>

\* The rejected promise is kept: every later job is given it too.
RuntimeFails ==
  /\ runtime = "starting"
  /\ runtime' = "broken"
  /\ Fault
  /\ UNCHANGED <<bridges, dbVars, pc, calls>>

\* payruneWorkerHandle starts a goroutine, or throws.
Enter(j) ==
  /\ pc[j] = "entered"
  /\ runtime \notin {"absent", "starting"}
  /\ Goto(j, IF runtime = "up" THEN "running" ELSE "leaving")
  /\ UNCHANGED <<runtime, bridges, dbVars, calls, faults>>

\* Mutant: every job takes the post function away.
LeaveForAll(j) ==
  /\ pc[j] = "leaving"
  /\ Goto(j, "answered")
  /\ contexts' = contexts \ {j} /\ observers' = observers \ {j}
  /\ poster' = "deleted"
  /\ idle' = idle \cup ({client[j]} \ {NoClient})
  /\ client' = [client EXCEPT ![j] = NoClient]
  /\ lock' = IF lock = j THEN Nobody ELSE lock
  /\ UNCHANGED <<runtime, calls, faults>>

\* The finally block: bridges are unregistered, and a transaction that is still
\* open is rolled back.
Leave(j) ==
  /\ pc[j] = "leaving"
  /\ Goto(j, "answered")
  /\ contexts' = contexts \ {j} /\ observers' = observers \ {j}
  /\ poster' = IF Notifies(j) THEN "deleted" ELSE poster
  /\ idle' = idle \cup ({client[j]} \ {NoClient})
  /\ client' = [client EXCEPT ![j] = NoClient]
  /\ lock' = IF lock = j THEN Nobody ELSE lock
  /\ UNCHANGED <<runtime, calls, faults>>

-----------------------------------------------------------------------------
(* The job in the Go program, which runs only while the program does. *)

Running(j, l) == runtime = "up" /\ pc[j] = l

Call(j) ==
  /\ Running(j, "running")
  /\ calls[j] < MaxCalls
  /\ calls' = [calls EXCEPT ![j] = @ + 1]

\* BeginTx, or a statement outside a transaction, asks the pool for a client.
AskToBegin(j) == Call(j) /\ Goto(j, "connecting") /\ UNCHANGED <<runtime, bridges, dbVars, faults>>

\* Mutant: a statement that misses the transaction it belongs to.
AskAnywhere(j) ==
  /\ \/ Call(j)
     \/ Running(j, "inTx") /\ UNCHANGED calls
  /\ Goto(j, "querying")
  /\ UNCHANGED <<runtime, bridges, dbVars, faults>>

AskToQuery(j) == Call(j) /\ Goto(j, "querying") /\ UNCHANGED <<runtime, bridges, dbVars, faults>>

\* A statement of the transaction that locks a row.
AskToLock(j) ==
  /\ Running(j, "inTx")
  /\ Goto(j, "waiting")
  /\ UNCHANGED <<runtime, bridges, dbVars, calls, faults>>

\* CommitTx or RollbackTx.
EndTx(j) ==
  /\ Running(j, "inTx") \/ Running(j, "locked")
  /\ Goto(j, "ending")
  /\ UNCHANGED <<runtime, bridges, dbVars, calls, faults>>

\* Calling a global that is not a function panics, which ends the Go program.
Post(j) ==
  /\ Notifies(j)
  /\ Call(j)
  /\ IF poster = "deleted"
     THEN runtime' = "exited" /\ UNCHANGED pc
     ELSE Goto(j, "posting") /\ UNCHANGED runtime
  /\ UNCHANGED <<bridges, dbVars, faults>>

\* A request of the Bitcoin observer, which finds its endpoint by the job's bridge.
Fetch(j) ==
  /\ Observes(j)
  /\ Call(j)
  /\ Goto(j, IF j \in observers THEN "fetching" ELSE "running")
  /\ UNCHANGED <<runtime, bridges, dbVars, faults>>

\* The operation is over, with a response or an error.
Return(j) ==
  /\ Running(j, "running")
  /\ Goto(j, "leaving")
  /\ UNCHANGED <<runtime, bridges, dbVars, calls, faults>>

-----------------------------------------------------------------------------
(* Bridge calls that JavaScript completes, whether or not Go still waits. *)

\* pool.connect() is answered once a client is idle.
Connect(j) ==
  /\ pc[j] = "connecting"
  /\ \E c \in idle :
       /\ idle' = idle \ {c}
       /\ client' = [client EXCEPT ![j] = c]
  /\ Goto(j, "beginning")
  /\ UNCHANGED <<runtime, bridges, lock, calls, faults>>

\* pool.query() borrows an idle client for the one statement.
QueryPool(j) ==
  /\ pc[j] = "querying"
  /\ idle # {}
  /\ Goto(j, "running")
  /\ UNCHANGED <<runtime, bridges, dbVars, calls, faults>>

\* The statement ends once no other transaction has the row locked.
LockRow(j) ==
  /\ pc[j] = "waiting"
  /\ lock = Nobody
  /\ lock' = j
  /\ Goto(j, "locked")
  /\ UNCHANGED <<runtime, bridges, idle, client, calls, faults>>

Begun(j) ==
  /\ pc[j] = "beginning"
  /\ Goto(j, "inTx")
  /\ UNCHANGED <<runtime, bridges, dbVars, calls, faults>>

\* Mutant: the client is not given back.
BeginFailsLeaking(j) ==
  /\ pc[j] = "beginning"
  /\ Fault
  /\ client' = [client EXCEPT ![j] = NoClient]
  /\ Goto(j, "running")
  /\ UNCHANGED <<runtime, bridges, idle, lock, calls>>

BeginFails(j) ==
  /\ pc[j] = "beginning"
  /\ Fault
  /\ idle' = idle \cup {client[j]}
  /\ client' = [client EXCEPT ![j] = NoClient]
  /\ Goto(j, "running")
  /\ UNCHANGED <<runtime, bridges, lock, calls>>

\* Mutant: the client of an ended transaction is kept.
ReleasedLate(j) ==
  /\ pc[j] = "ending"
  /\ lock' = IF lock = j THEN Nobody ELSE lock
  /\ Goto(j, "running")
  /\ UNCHANGED <<runtime, bridges, idle, client, calls, faults>>

\* COMMIT or ROLLBACK has been answered, or has failed: the client goes back.
Released(j) ==
  /\ pc[j] = "ending"
  /\ idle' = idle \cup {client[j]}
  /\ client' = [client EXCEPT ![j] = NoClient]
  /\ lock' = IF lock = j THEN Nobody ELSE lock
  /\ Goto(j, "running")
  /\ UNCHANGED <<runtime, bridges, calls, faults>>

\* A 2xx, another status, or the timeout.
PostEnds(j) ==
  /\ pc[j] = "posting"
  /\ Goto(j, "running")
  /\ UNCHANGED <<runtime, bridges, dbVars, calls, faults>>

\* The endpoint has answered, or the request is aborted after its timeout.
FetchEnds(j) ==
  /\ pc[j] = "fetching"
  /\ Goto(j, "running")
  /\ UNCHANGED <<runtime, bridges, dbVars, calls, faults>>

-----------------------------------------------------------------------------
Progress(j) ==
  \/ Enter(j) \/ Leave(j)
  \/ AskToBegin(j) \/ AskToQuery(j) \/ AskToLock(j) \/ EndTx(j) \/ Return(j)
  \/ Post(j) \/ Fetch(j)
  \/ Connect(j) \/ QueryPool(j) \/ LockRow(j)
  \/ Begun(j) \/ Released(j) \/ PostEnds(j) \/ FetchEnds(j)

Next ==
  \/ \E j \in Job : Receive(j) \/ Progress(j) \/ BeginFails(j)
  \/ RuntimeStarts \/ RuntimeFails

Spec == Init /\ [][Next]_vars

\* The event loop serves every job that can go on.  Fairness is strong because a
\* job that waits for a client or for the row is served in turn, though others
\* take them in between.
FairSpec ==
  /\ Spec
  /\ WF_vars(RuntimeStarts)
  /\ \A j \in Job : SF_vars(Progress(j))

-----------------------------------------------------------------------------
(* Properties *)

InTransaction == {"beginning", "inTx", "waiting", "locked", "ending"}
Place == InTransaction \cup {"idle", "entered", "running", "connecting", "querying",
                            "posting", "fetching", "leaving", "answered"}

\* Every variable keeps its type, and a job has a client exactly while it is in
\* a transaction.
TypeOK ==
  /\ runtime \in {"absent", "starting", "up", "broken", "exited"}
  /\ poster \in {"unbound", "bound", "deleted"}
  /\ contexts \in SUBSET Job /\ observers \in SUBSET Observing
  /\ idle \in SUBSET Client
  /\ client \in [Job -> Client \cup {NoClient}]
  /\ lock \in Job \cup {Nobody}
  /\ pc \in [Job -> Place]
  /\ calls \in [Job -> 0..MaxCalls]
  /\ faults \in 0..MaxFaults
  /\ \A j \in Job :
       client[j] # NoClient <=> pc[j] \in InTransaction

\* Transactions never mix and no client is lost: each client is in the pool or
\* in one transaction, of a job whose bridge is registered.
ClientsAreApart ==
  /\ \A i, j \in Job : i # j /\ client[i] # NoClient => client[i] # client[j]
  /\ \A j \in Job : client[j] \notin idle /\ (client[j] # NoClient => j \in contexts)
  /\ idle \cup ({client[j] : j \in Job} \ {NoClient}) = Client

\* A dispatcher run finds the post function it registered as long as it lasts: no
\* post ends the Go program all jobs share.  Only true of dispatcher runs that do
\* not overlap in one isolate.
BridgeIsScoped == runtime # "exited"

\* Every job is answered, however few clients the pool has: none ever waits for
\* a second client while it holds one, or while others wait for the row it has
\* locked.
EveryJobEnds == <>[](\A j \in Job : pc[j] \in {"idle", "answered"})
=============================================================================
