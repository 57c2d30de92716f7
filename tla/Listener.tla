------------------------------- MODULE Listener -------------------------------
(***************************************************************************)
(* pkg/blockchain/evm/listener.go: the node follows the events of one      *)
(* contract with a live subscription and, after every reconnection, a      *)
(* reconciliation of the blocks it may have missed.  The handler stores    *)
(* each event in contract_events in the transaction that applies it, so a  *)
(* crash either keeps both or loses both.                                  *)
(*                                                                         *)
(* A contract event ("log") is a position in the chain's own order; the    *)
(* chain only grows (reorganisations are not modelled).  A Go channel of   *)
(* logs is a set, received from in chain order: both senders, the          *)
(* reconciliation and the subscription, send in that order.                *)
(***************************************************************************)
EXTENDS Integers, Sequences

CONSTANTS
  BlockStep,  \* blocks per FilterLogs call
  MaxBlock,   \* bound on the height of the chain
  MaxLogs     \* bound on the logs of one block

ASSUME ListenerConstantsOK ==
  BlockStep \in Nat \ {0} /\ MaxBlock \in Nat /\ MaxLogs \in Nat

VARIABLES
  tip,           \* the chain's height (external)
  logs,          \* the block of each log on the chain, in order (external)
  stored,        \* contract_events
  phase,         \* where listenEvents is
  lastBlock,     \* its variable of that name
  historicalCh, currentCh,
  reconciling,   \* reconcileBlockRange is running
  startBlock, endBlock, currentBlock,  \* and its variables
  checkDone,     \* historicalCheckDone, currentCheckDone
  unfetched      \* auxiliary: blocks that a reconciliation left out

chain == <<tip, logs>>
reconciliation == <<reconciling, startBlock, endBlock, currentBlock>>
session == <<historicalCh, currentCh, checkDone, reconciliation>>
vars == <<chain, stored, phase, lastBlock, session, unfetched>>

Phases == {"down", "idle", "subscribed", "history", "live"}

TypeOK ==
  /\ tip \in 0..MaxBlock
  /\ logs \in Seq(1..MaxBlock)
  /\ stored \subseteq DOMAIN logs
  /\ phase \in Phases
  /\ lastBlock \in 0..tip
  /\ historicalCh \subseteq DOMAIN logs /\ currentCh \subseteq DOMAIN logs
  /\ reconciling \in BOOLEAN /\ checkDone \in BOOLEAN
  /\ startBlock \in Nat /\ endBlock \in Nat /\ currentBlock \in 0..tip
  /\ unfetched \subseteq 0..tip

IdleSession ==
  /\ historicalCh = {} /\ currentCh = {} /\ checkDone = FALSE
  /\ reconciling = FALSE /\ startBlock = 0 /\ endBlock = 0 /\ currentBlock = 0

Init ==
  /\ tip = 0 /\ logs = <<>>
  /\ stored = {}
  /\ phase = "down"
  /\ lastBlock = 0
  /\ IdleSession
  /\ unfetched = {}

Earliest(ch) == CHOOSE i \in ch : \A j \in ch : i <= j

Connected == phase \in {"subscribed", "history", "live"}

\* The chain gains a block with n of the contract's logs, which a live
\* subscription delivers.
Mine(n) ==
  /\ tip < MaxBlock
  /\ tip' = tip + 1
  /\ logs' = logs \o [i \in 1..n |-> tip + 1]
  /\ currentCh' = IF Connected THEN currentCh \cup (Len(logs) + 1)..(Len(logs) + n)
                               ELSE currentCh
  /\ UNCHANGED <<stored, phase, lastBlock, historicalCh, checkDone, reconciliation,
                 unfetched>>

-------------------------------------------------------------------------------
(* listenEvents *)

\* GetLatestContractEventBlockNumber: the highest block stored, or 0.
LatestStoredBlock ==
  CHOOSE b \in {logs[i] : i \in stored} \cup {0} : \A i \in stored : logs[i] <= b

Start ==
  /\ phase = "down"
  /\ phase' = "idle"
  /\ lastBlock' = LatestStoredBlock
  /\ UNCHANGED <<chain, stored, session, unfetched>>

Subscribe ==
  /\ phase = "idle"
  /\ phase' = "subscribed"
  /\ UNCHANGED <<chain, stored, lastBlock, session, unfetched>>

\* Mutation: the reconciliation begins after the last block handled, of which
\* some logs may be missing.
FetchTipAfterLast ==
  /\ phase = "subscribed"
  /\ phase' = "history"
  /\ IF lastBlock = 0
     THEN /\ unfetched' = unfetched \cup 0..tip
          /\ UNCHANGED reconciliation
     ELSE /\ reconciling' = TRUE
          /\ startBlock' = lastBlock + 1
          /\ endBlock' = lastBlock + 1 + BlockStep
          /\ currentBlock' = tip
          /\ UNCHANGED unfetched
  /\ UNCHANGED <<chain, stored, lastBlock, historicalCh, currentCh, checkDone>>

\* The chain tip is fetched after subscribing, and the reconciliation started;
\* with no event stored yet there is nothing to start from and it is skipped.
FetchTip ==
  /\ phase = "subscribed"
  /\ phase' = "history"
  /\ IF lastBlock = 0
     THEN /\ unfetched' = unfetched \cup 0..tip
          /\ UNCHANGED reconciliation
     ELSE /\ reconciling' = TRUE
          /\ startBlock' = lastBlock
          /\ endBlock' = lastBlock + BlockStep
          /\ currentBlock' = tip
          /\ UNCHANGED unfetched
  /\ UNCHANGED <<chain, stored, lastBlock, historicalCh, currentCh, checkDone>>

-------------------------------------------------------------------------------
(* reconcileBlockRange, a goroutine of its own *)

\* One window.  A failed FilterLogs call is repeated and changes nothing.
FetchWindow ==
  LET last == IF endBlock > currentBlock THEN currentBlock ELSE endBlock
  IN  /\ reconciling
      /\ currentBlock > startBlock
      /\ historicalCh' = historicalCh \cup {i \in DOMAIN logs : logs[i] \in startBlock..last}
      /\ startBlock' = last + 1
      /\ endBlock' = last + BlockStep
      /\ UNCHANGED <<chain, stored, phase, lastBlock, currentCh, checkDone,
                     reconciling, currentBlock, unfetched>>

\* Mutation: a range that ends at the tip is never closed.
CloseHistoryBelow ==
  /\ reconciling
  /\ currentBlock < startBlock
  /\ reconciling' = FALSE
  /\ UNCHANGED <<chain, stored, phase, lastBlock, historicalCh, currentCh, checkDone,
                 startBlock, endBlock, currentBlock, unfetched>>

\* The range is exhausted and historicalCh closed.
CloseHistory ==
  /\ reconciling
  /\ currentBlock <= startBlock
  /\ reconciling' = FALSE
  /\ unfetched' = unfetched \cup startBlock..currentBlock
  /\ UNCHANGED <<chain, stored, phase, lastBlock, historicalCh, currentCh, checkDone,
                 startBlock, endBlock, currentBlock>>

-------------------------------------------------------------------------------
(* processEvents *)

\* Until the first log that is not in the database, logs are looked up and the
\* present ones skipped; after it every log goes to the handler.
Process(i) ==
  IF ~checkDone /\ i \in stored
  THEN UNCHANGED <<stored, checkDone>>
  ELSE checkDone' = TRUE /\ stored' = stored \cup {i}

HandleHistorical ==
  /\ phase = "history"
  /\ historicalCh # {}
  /\ Process(Earliest(historicalCh))
  /\ historicalCh' = historicalCh \ {Earliest(historicalCh)}
  /\ UNCHANGED <<chain, phase, lastBlock, currentCh, reconciliation, unfetched>>

\* Mutation: the live phase relies on the look-ups of the historical one.
EnterLiveUnchecked ==
  /\ phase = "history"
  /\ historicalCh = {} /\ ~reconciling
  /\ phase' = "live"
  /\ UNCHANGED <<chain, stored, lastBlock, session, unfetched>>

EnterLive ==
  /\ phase = "history"
  /\ historicalCh = {} /\ ~reconciling
  /\ phase' = "live"
  /\ checkDone' = FALSE
  /\ UNCHANGED <<chain, stored, lastBlock, historicalCh, currentCh, reconciliation,
                 unfetched>>

HandleLive ==
  /\ phase = "live"
  /\ currentCh # {}
  /\ lastBlock' = logs[Earliest(currentCh)]
  /\ Process(Earliest(currentCh))
  /\ currentCh' = currentCh \ {Earliest(currentCh)}
  /\ UNCHANGED <<chain, phase, historicalCh, reconciliation, unfetched>>

EndSession ==
  /\ historicalCh' = {} /\ currentCh' = {} /\ checkDone' = FALSE
  /\ reconciling' = FALSE /\ startBlock' = 0 /\ endBlock' = 0 /\ currentBlock' = 0
  /\ UNCHANGED <<chain, stored, unfetched>>

\* The subscription, or the request for the tip, fails; whatever the channels
\* still held is dropped and the loop subscribes anew.
SubscriptionLost ==
  /\ Connected
  /\ phase' = "idle"
  /\ EndSession
  /\ UNCHANGED lastBlock

\* The process dies: a crash, the back-off limit, or an error of the handler
\* or of the database, after which main.go exits.
Crash ==
  /\ phase # "down"
  /\ phase' = "down"
  /\ lastBlock' = 0
  /\ EndSession

Listening == Start \/ Subscribe \/ FetchTip \/ FetchWindow \/ CloseHistory
             \/ HandleHistorical \/ EnterLive \/ HandleLive

Next ==
  \/ \E n \in 0..MaxLogs : Mine(n)
  \/ Listening
  \/ SubscriptionLost
  \/ Crash

Spec == Init /\ [][Next]_vars

\* The listener's goroutines run; nothing is assumed of the chain or of
\* failures.
FairSpec == Spec /\ WF_vars(Listening)

-------------------------------------------------------------------------------
\* The logs that a step passes to the handler.
Handled ==
  IF checkDone' THEN (historicalCh \ historicalCh') \cup (currentCh \ currentCh') ELSE {}

\* "Deduplicated delivery" (the Listener type's comment): each log that the
\* handler is given comes after all that were applied before, in the order of
\* the chain, whatever was lost, buffered twice or handled before a crash in
\* the middle of a block.
DeliveredOnceInOrder ==
  [][\A i \in Handled : \A j \in stored : j < i]_vars

LeftOut(i) == i \in DOMAIN logs /\ logs[i] \in unfetched

\* The logs missing below the newest one applied are those of blocks that a
\* reconciliation left out: the loop ends when its next window would begin at
\* the tip, and it never begins before the first event is stored.
GapsAreUnfetchedTips ==
  \A j \in stored : \A i \in 1..j : i \in stored \/ LeftOut(i)

\* If failures stop for long enough, the listener catches up: every log on
\* the chain is applied, but for those of the blocks left out.
EventuallyApplied ==
  \/ []<>~Connected
  \/ []<>(\A i \in DOMAIN logs : i \in stored \/ LeftOut(i))

\* "Gap-free ... delivery even across restarts" (the Listener type's comment):
\* a log between two applied ones has been applied.
GapFree ==
  \A j, k \in stored : \A i \in j..k : i \in stored
===============================================================================
