-------------------------- MODULE BitcoinObservation --------------------------
(***************************************************************************)
(* One Bitcoin address observed through an Esplora API, which answers one  *)
(* request at a time: the block height, the confirmed transactions of the  *)
(* address page by page, newest first, and its mempool.  Blocks, payments, *)
(* replacements and reorganisations happen between any two requests.       *)
(*                                                                         *)
(* The blockchain and the API are external; the observer is the code.  The *)
(* poller that asks for the observation is in BitcoinReceipt.              *)
(* Bounds: Tx and MaxHeight bound the chain, MaxReorg the depth of a       *)
(* reorganisation.  The code's cap of 10,000 pages is never met.           *)
(***************************************************************************)
EXTENDS Integers, SequencesExt

CONSTANTS
  Tx,                     \* transactions that may pay the address
  Amount,                 \* Amount[t]: what t pays to it
  Conflicting,            \* pairs {t, u} that spend the same coin
  RequiredConfirmations,
  PageSize,               \* 25 in the code
  MaxReorg,               \* bound: blocks a reorganisation may replace
  MaxHeight,              \* bound: blocks
  EarlyBlocks,            \* bound: blocks whose time may lie before issued_at
  NoTx

\* The confirmations addresses are issued with are set, or have a default.
ConfirmationTerms == RequiredConfirmations \in Nat \ {0}

ASSUME ConstantsAssumption ==
  /\ IsFiniteSet(Tx) /\ Amount \in [Tx -> Nat \ {0}]
  /\ Conflicting \subseteq SUBSET Tx
  /\ ConfirmationTerms /\ PageSize \in Nat \ {0}
  /\ MaxReorg \in Nat /\ MaxHeight \in Nat \ {0} /\ EarlyBlocks \in Nat
  /\ NoTx \notin Tx

VARIABLES
  chain,    \* blocks: [txs, early]; a block's height is its index
  mempool,
  pc,       \* what the observer asks for next
  tip,      \* LatestBlockHeight, as fetched for the cycle
  listed,   \* entries received so far, in order
  last,     \* txid the next page starts after, or NoTx
  result,   \* totals of the last observation that was completed
  steady,   \* history: transactions that have not moved since it began
  calm      \* history: no reorganisation since it began

chainVars == <<chain, mempool>>
observerVars == <<pc, tip, listed, last, result>>
history == <<steady, calm>>
vars == <<chainVars, observerVars, history>>

Block == [txs: SUBSET Tx, early: BOOLEAN]
Entry == [id: Tx, height: 0..MaxHeight, early: BOOLEAN]  \* height 0: in the mempool
NoResult == [confirmed |-> 0, unconfirmed |-> 0]

Total(S) == FoldSet(LAMBDA t, sum : sum + Amount[t], 0, S)
Mined(blocks) == UNION {blocks[h].txs : h \in DOMAIN blocks}
Conflicts(t) == {u \in Tx : u # t /\ {t, u} \in Conflicting}

ObservationInit ==
  /\ chain = << [txs |-> {}, early |-> TRUE] >>
  /\ mempool = {}
  /\ pc = "idle" /\ tip = 0 /\ listed = << >> /\ last = NoTx /\ result = NoResult
  /\ steady = {} /\ calm = TRUE

-----------------------------------------------------------------------------
(* The blockchain. *)

\* A payment, or a replacement of one that is not mined yet.
Broadcast(t) ==
  /\ t \notin mempool \cup Mined(chain)
  /\ Conflicts(t) \cap Mined(chain) = {}
  /\ mempool' = (mempool \ Conflicts(t)) \cup {t}
  /\ steady' = steady \ Conflicts(t)
  /\ UNCHANGED <<chain, observerVars, calm>>

BlockAt(h) ==
  {b \in [txs: SUBSET mempool, early: BOOLEAN] : b.early => h <= EarlyBlocks}

Mine ==
  /\ Len(chain) < MaxHeight
  /\ \E b \in BlockAt(Len(chain) + 1) :
       /\ chain' = Append(chain, b)
       /\ mempool' = mempool \ b.txs
       /\ steady' = steady \ b.txs
  /\ UNCHANGED <<observerVars, calm>>

\* A longer branch replaces the last d blocks; what it leaves out is pending again.
Reorganise ==
  \E d \in 1..MaxReorg :
    LET base == Len(chain) - d IN
    /\ base >= 1 /\ base + d + 1 <= MaxHeight
    /\ LET freed == mempool \cup UNION {chain[h].txs : h \in (base + 1)..Len(chain)} IN
       \E S \in SUBSET freed : \E height \in [S -> (base + 1)..(base + d + 1)] :
         /\ chain' = [h \in 1..(base + d + 1) |->
              IF h <= base THEN chain[h]
              ELSE [txs |-> {t \in S : height[t] = h}, early |-> FALSE]]
         /\ mempool' = freed \ S
         /\ steady' = steady \ freed
    /\ calm' = FALSE
    /\ UNCHANGED observerVars

-----------------------------------------------------------------------------
(* The API. *)

EntriesOf(h) ==
  SetToSeq({[id |-> t, height |-> h, early |-> chain[h].early] : t \in chain[h].txs})
MempoolEntries ==
  SetToSeq({[id |-> t, height |-> 0, early |-> FALSE] : t \in mempool})

\* GET /address/:a/txs/chain: newest block first.
Listing == FlattenSeq([i \in 1..Len(chain) |-> EntriesOf(Len(chain) + 1 - i)])

\* GET .../txs/chain/:last.  If last is not in the chain any more, the listing
\* is empty or starts over, depending on the server.
After(id) ==
  IF id = NoTx THEN {Listing}
  ELSE IF id \in Mined(chain)
       THEN {SubSeq(Listing, i + 1, Len(Listing)) :
               i \in {j \in DOMAIN Listing : Listing[j].id = id}}
       ELSE {<< >>, Listing}

FirstOf(list, n) == SubSeq(list, 1, IF n < Len(list) THEN n ELSE Len(list))

-----------------------------------------------------------------------------
(* The observer. *)

\* calculateConfirmations
Confirmations(latest, height) ==
  IF height = 0 \/ height > latest THEN 0 ELSE latest - height + 1

\* Mutant: entries are not told apart by txid.
AddEveryEntry(sum, e, latest) ==
  IF Confirmations(latest, e.height) >= RequiredConfirmations
  THEN [sum EXCEPT !.confirmed = @ + Amount[e.id]]
  ELSE [sum EXCEPT !.unconfirmed = @ + Amount[e.id]]

\* aggregateInboundTotals: the first entry of a txid counts, the others do not.
Add(sum, e, latest) ==
  IF e.id \in sum.seen \/ e.early
  THEN [sum EXCEPT !.seen = @ \cup {e.id}]
  ELSE IF Confirmations(latest, e.height) >= RequiredConfirmations
       THEN [sum EXCEPT !.seen = @ \cup {e.id}, !.confirmed = @ + Amount[e.id]]
       ELSE [sum EXCEPT !.seen = @ \cup {e.id}, !.unconfirmed = @ + Amount[e.id]]
NothingSeen == [seen |-> {}, confirmed |-> 0, unconfirmed |-> 0]

\* Mutant: the height is read after the transactions.
AggregateAtNewTip(entries, latest) ==
  FoldLeft(LAMBDA sum, e : Add(sum, e, Len(chain)), NothingSeen, entries)

Aggregate(entries, latest) ==
  FoldLeft(LAMBDA sum, e : Add(sum, e, latest), NothingSeen, entries)

\* Mutant: the mempool is read first (and again at the end).
FetchTipAndMempool ==
  /\ pc = "idle"
  /\ tip' = Len(chain)
  /\ pc' = "chain"
  /\ listed' = MempoolEntries
  /\ steady' = mempool \cup Mined(chain) /\ calm' = TRUE
  /\ UNCHANGED <<chainVars, last, result>>

\* Mutant: the height of the block that is still being built.
FetchPendingTip ==
  /\ pc = "idle"
  /\ tip' = Len(chain) + 1
  /\ pc' = "chain"
  /\ steady' = mempool \cup Mined(chain) /\ calm' = TRUE
  /\ UNCHANGED <<chainVars, listed, last, result>>

\* FetchLatestBlockHeight, once per poll cycle, before the address is observed.
FetchTip ==
  /\ pc = "idle"
  /\ tip' = Len(chain)
  /\ pc' = "chain"
  /\ steady' = mempool \cup Mined(chain) /\ calm' = TRUE
  /\ UNCHANGED <<chainVars, listed, last, result>>

\* Mutant: a full page is taken for the last one.
NoFurtherPage(page) == FALSE
\* Only a page shorter than PageSize is the last.
HasNext(page) == Len(page) >= PageSize

\* fetchAddressChainTransactions, one page.
ReadPage ==
  /\ pc = "chain"
  /\ \E rest \in After(last) :
       LET page == FirstOf(rest, PageSize) IN
       /\ listed' = listed \o page
       /\ IF HasNext(page)
          THEN last' = page[Len(page)].id /\ UNCHANGED pc
          ELSE pc' = "mempool" /\ UNCHANGED last
  /\ UNCHANGED <<chainVars, tip, result, history>>

\* fetchAddressMempoolTransactions, and the totals that are reported.
ReadMempool ==
  /\ pc = "mempool"
  /\ LET sum == Aggregate(listed \o MempoolEntries, tip) IN
     result' = [confirmed |-> sum.confirmed, unconfirmed |-> sum.unconfirmed]
  /\ pc' = "observed"
  /\ listed' = << >> /\ last' = NoTx
  /\ UNCHANGED <<chainVars, tip, steady, calm>>

\* A request fails or is answered with anything but 200: what it read is dropped.
RequestFails ==
  /\ pc \in {"chain", "mempool"}
  /\ pc' = "idle"
  /\ listed' = << >> /\ last' = NoTx
  /\ steady' = {} /\ calm' = TRUE
  /\ UNCHANGED <<chainVars, tip, result>>

\* The end of the cycle, which alone remembers the height.
Rest ==
  /\ pc' = "idle"
  /\ tip' = 0 /\ listed' = << >> /\ last' = NoTx /\ result' = NoResult
  /\ steady' = {} /\ calm' = TRUE
  /\ UNCHANGED chainVars

ChainStep == (\E t \in Tx : Broadcast(t)) \/ Mine \/ Reorganise

-----------------------------------------------------------------------------
(* Properties *)

\* Every variable keeps its type, and no payment is in two blocks.
ObservationTypeOK ==
  /\ chain \in Seq(Block) /\ Len(chain) \in 1..MaxHeight
  /\ mempool \in SUBSET (Tx \ Mined(chain))
  /\ \A g, h \in DOMAIN chain : g # h => chain[g].txs \cap chain[h].txs = {}
  /\ pc \in {"idle", "chain", "mempool", "observed"}
  /\ tip \in 0..Len(chain)
  /\ listed \in Seq(Entry)
  /\ last \in Tx \cup {NoTx}
  /\ result \in [confirmed: Nat, unconfirmed: Nat]
  /\ steady \in SUBSET Tx /\ calm \in BOOLEAN

Observed == result.confirmed + result.unconfirmed
InEarlyBlock(t) == \E h \in DOMAIN chain : chain[h].early /\ t \in chain[h].txs

\* However blocks arrive between the pages, a payment that stays where it was
\* during the observation is counted.  One that is mined between the listing
\* of the chain and the reading of the mempool may be missed, and so may any
\* when a reorganisation takes away the transaction a page starts after.
SteadyPaymentsAreCounted ==
  pc = "observed" /\ calm => Observed >= Total({t \in steady : ~InEarlyBlock(t)})

\* What is reported could be had: some set of transactions pays exactly that, so
\* none is counted twice, even if a reorganisation moves it under the observer
\* and it is listed in the chain and in the mempool.  Without a reorganisation no
\* two of the set spend the same coin: the mempool is read after the chain, so a
\* payment and the replacement that is mined instead are never both seen.
ReportIsPayable ==
  pc = "observed" =>
    \E S \in SUBSET Tx : /\ calm => \A t \in S : Conflicts(t) \cap S = {}
                         /\ Total(S) = Observed
=============================================================================
