---------------------------- MODULE Listener_proofs ----------------------------
(***************************************************************************)
(* What the event listener guarantees for every block step, every chain    *)
(* and every sequence of failures: the handler is given each log once and  *)
(* in the chain's order, and the logs it never gets are those of blocks a  *)
(* reconciliation left out.                                                *)
(***************************************************************************)
EXTENDS Listener, Totals_proofs, SequenceTheorems

-------------------------------------------------------------------------------
(* The inductive invariant *)

LogsInOrder ==
  /\ \A i \in DOMAIN logs : logs[i] <= tip
  /\ \A i, j \in DOMAIN logs : i <= j => logs[i] <= logs[j]

\* Log i is missing below an applied log j.
Gap(i, j) == i \in DOMAIN logs \ stored /\ j \in stored /\ i < j

\* Within a block, logs are applied from the first on.
BlocksFillInOrder == \A i, j \in DOMAIN logs : Gap(i, j) => logs[i] < logs[j]

\* A reconciliation from lastBlock on meets no gap.
ResumesAboveGaps ==
  phase # "down" => \A i, j \in DOMAIN logs : Gap(i, j) => logs[i] < lastBlock

ResumesAtApplied ==
  phase # "down" => lastBlock = 0 \/ \E s \in stored : logs[s] = lastBlock

SessionFits ==
  /\ phase \in {"down", "idle"} => currentCh = {}
  /\ phase # "history" => historicalCh = {} /\ ~reconciling
  /\ phase \notin {"history", "live"} => ~checkDone /\ startBlock = 0

\* The subscription buffers whole blocks, up to the tip.
LiveBuffer ==
  \A i \in currentCh :
    /\ lastBlock <= logs[i]
    /\ \A k \in DOMAIN logs : k > i => k \in currentCh
    /\ \A k \in DOMAIN logs : logs[k] = logs[i] => k \in currentCh \cup stored

\* The reconciliation buffers whole blocks, from lastBlock up to startBlock.
HistoryBuffer ==
  phase = "history" =>
    /\ \A i \in historicalCh : logs[i] >= lastBlock /\ logs[i] < startBlock
    /\ startBlock <= currentBlock + 1
    /\ reconciling => lastBlock <= startBlock /\ startBlock <= endBlock
    /\ \A k \in DOMAIN logs :
         logs[k] >= lastBlock /\ logs[k] < startBlock => k \in stored \cup historicalCh

\* Once the look-ups have ended, all that is still to come is new.
LookupsEndAtNew ==
  checkDone =>
    /\ phase = "live" => \A j \in stored : \A i \in currentCh : j < i
    /\ phase = "history" =>
         \A j \in stored :
           /\ \A i \in historicalCh : j < i
           /\ reconciling => \A k \in DOMAIN logs : logs[k] >= startBlock => j < k

\* Every log is applied, buffered, still to be fetched, or left out.
HistoryAccounted ==
  phase = "history" => \A k \in DOMAIN logs :
    \/ k \in stored \cup currentCh \cup historicalCh
    \/ LeftOut(k)
    \/ reconciling /\ logs[k] \in startBlock..currentBlock

LiveAccounted ==
  phase = "live" => \A k \in DOMAIN logs : k \in stored \cup currentCh \/ LeftOut(k)

Ordering ==
  /\ LogsInOrder /\ BlocksFillInOrder /\ ResumesAboveGaps /\ SessionFits
  /\ LiveBuffer /\ HistoryBuffer /\ LookupsEndAtNew

Accounting ==
  ResumesAtApplied /\ HistoryAccounted /\ LiveAccounted /\ GapsAreUnfetchedTips

-------------------------------------------------------------------------------
(* Data *)

\* Logs are numbered from 1 and their blocks are numbers.
LEMMA LogFacts ==
  ASSUME TypeOK
  PROVE  /\ tip \in Nat /\ MaxBlock \in Nat /\ BlockStep \in Nat
         /\ Len(logs) \in Nat /\ DOMAIN logs = 1..Len(logs)
         /\ \A i \in DOMAIN logs : logs[i] \in Nat /\ logs[i] >= 1
         /\ lastBlock \in Nat /\ currentBlock \in Nat /\ startBlock \in Nat
         /\ endBlock \in Nat
BY ListenerConstantsOK DEF TypeOK

\* A channel that is not empty has a first log.
LEMMA EarliestIsFirst ==
  ASSUME NEW ch, ch \subseteq Nat, ch # {}
  PROVE  Earliest(ch) \in ch /\ \A j \in ch : Earliest(ch) <= j
BY LeastNatural DEF Earliest

\* The latest stored block is that of an applied log, or 0 when there is none.
LEMMA LatestStoredIsMax ==
  ASSUME TypeOK
  PROVE  /\ LatestStoredBlock \in {logs[i] : i \in stored} \cup {0}
         /\ \A i \in stored : logs[i] <= LatestStoredBlock
<1> DEFINE B == {logs[i] : i \in stored} \cup {0}
<1>1. MaxBlock \in Nat /\ B \subseteq 0..MaxBlock /\ B # {}
  BY ListenerConstantsOK DEF TypeOK
<1>2. \E b \in B : \A c \in B : c <= b
  <2> HIDE DEF B
  <2> QED
    BY <1>1, GreatestNatural
<1>3. \E b \in B : \A i \in stored : logs[i] <= b
  BY <1>2
<1> QED
  BY <1>3 DEF LatestStoredBlock

-------------------------------------------------------------------------------
(* Type correctness *)

\* What a new block does to the chain.
LEMMA MineFacts ==
  ASSUME TypeOK, NEW n \in 0..MaxLogs, Mine(n)
  PROVE  /\ n \in Nat /\ tip' = tip + 1 /\ tip' \in 1..MaxBlock
         /\ logs' \in Seq(1..MaxBlock)
         /\ Len(logs') = Len(logs) + n
         /\ DOMAIN logs' = 1..(Len(logs) + n)
         /\ \A i \in DOMAIN logs : i \in DOMAIN logs' /\ logs'[i] = logs[i]
         /\ \A i \in DOMAIN logs' \ DOMAIN logs : i > Len(logs) /\ logs'[i] = tip + 1
<1> USE DEF TypeOK
<1> DEFINE new == [i \in 1..n |-> tip + 1]
<1>1. n \in Nat /\ tip + 1 \in 1..MaxBlock /\ tip' = tip + 1
  BY ListenerConstantsOK DEF Mine
<1>2. new \in Seq(1..MaxBlock) /\ Len(new) = n /\ \A i \in 1..n : new[i] = tip + 1
  BY <1>1
<1>3. logs' = logs \o new
  BY DEF Mine
<1> HIDE DEF new
<1>4. logs' \in Seq(1..MaxBlock) /\ Len(logs') = Len(logs) + n
  BY <1>2, <1>3
<1>5. Len(logs) \in Nat /\ DOMAIN logs = 1..Len(logs) /\ DOMAIN logs' = 1..(Len(logs) + n)
  BY <1>4
<1>6. \A i \in DOMAIN logs : i \in DOMAIN logs' /\ logs'[i] = logs[i]
  BY <1>1, <1>2, <1>3, <1>5
<1>7. \A i \in DOMAIN logs' \ DOMAIN logs : i > Len(logs) /\ logs'[i] = tip + 1
  BY <1>1, <1>2, <1>3, <1>5
<1> QED
  BY <1>1, <1>4, <1>5, <1>6, <1>7

\* Every step of the listener and of the chain keeps the types.
LEMMA NextTypeOK == TypeOK /\ LogsInOrder /\ [Next]_vars => TypeOK'
<1> SUFFICES ASSUME TypeOK, LogsInOrder, [Next]_vars PROVE TypeOK'
  OBVIOUS
<1> USE DEF TypeOK, Phases, vars, chain, session, reconciliation
<1>1. ASSUME NEW n \in 0..MaxLogs, Mine(n) PROVE TypeOK'
  <2>1. /\ tip' \in 1..MaxBlock /\ tip' = tip + 1 /\ logs' \in Seq(1..MaxBlock)
        /\ DOMAIN logs \subseteq DOMAIN logs' /\ DOMAIN logs' = 1..(Len(logs) + n)
    BY <1>1, MineFacts
  <2>2. currentCh' \subseteq DOMAIN logs'
    BY <1>1, <2>1, LogFacts DEF Mine
  <2>3. UNCHANGED <<stored, phase, lastBlock, historicalCh, checkDone, reconciling, startBlock,
                    endBlock, currentBlock, unfetched>>
    BY <1>1 DEF Mine
  <2> QED
    BY <2>1, <2>2, <2>3
<1>2. CASE Start
  <2>1. LatestStoredBlock \in 0..tip
    BY LatestStoredIsMax, LogFacts DEF LogsInOrder
  <2> QED
    BY <1>2, <2>1 DEF Start
<1>3. CASE Subscribe
  BY <1>3 DEF Subscribe
<1>4. CASE FetchTip
  <2>1. 0..tip \subseteq 0..tip' /\ tip \in 0..tip
    BY <1>4, LogFacts DEF FetchTip
  <2>2. CASE lastBlock = 0
    <3>1. unfetched' = unfetched \cup 0..tip /\ phase' = "history"
      BY <1>4, <2>2 DEF FetchTip
    <3>2. UNCHANGED <<chain, stored, lastBlock, historicalCh, currentCh, checkDone,
                      reconciling, startBlock, endBlock, currentBlock>>
      BY <1>4, <2>2 DEF FetchTip
    <3> QED
      BY <3>1, <3>2
  <2>3. CASE lastBlock # 0
    <3>1. /\ phase' = "history" /\ startBlock' = lastBlock /\ currentBlock' = tip
          /\ endBlock' = lastBlock + BlockStep
          /\ UNCHANGED <<chain, stored, lastBlock, historicalCh, currentCh, checkDone, unfetched>>
      BY <1>4, <2>3 DEF FetchTip
    <3>2. reconciling' \in BOOLEAN
      BY <1>4, <2>3 DEF FetchTip
    <3> QED
      BY <2>1, <3>1, <3>2, LogFacts
  <2> QED
    BY <2>2, <2>3
<1>5. CASE FetchWindow
  BY <1>5, LogFacts DEF FetchWindow
<1>6. CASE CloseHistory
  <2>1. startBlock..currentBlock \subseteq 0..tip
    BY LogFacts
  <2> QED
    BY <1>6, <2>1 DEF CloseHistory
<1>7. CASE HandleHistorical
  <2>1. Earliest(historicalCh) \in DOMAIN logs
    BY <1>7, EarliestIsFirst DEF HandleHistorical
  <2> QED
    BY <1>7, <2>1 DEF HandleHistorical, Process
<1>8. CASE EnterLive
  BY <1>8 DEF EnterLive
<1>9. CASE HandleLive
  <2>1. Earliest(currentCh) \in DOMAIN logs
    BY <1>9, EarliestIsFirst DEF HandleLive
  <2>2. logs[Earliest(currentCh)] \in 0..tip
    BY <2>1, LogFacts DEF LogsInOrder
  <2> QED
    BY <1>9, <2>1, <2>2 DEF HandleLive, Process
<1>10. CASE SubscriptionLost
  <2>1. /\ phase' = "idle" /\ lastBlock' \in {lastBlock, 0}
        /\ historicalCh' = {} /\ currentCh' = {}
        /\ startBlock' = 0 /\ endBlock' = 0 /\ currentBlock' = 0
        /\ UNCHANGED <<chain, stored, unfetched>>
    BY <1>10 DEF SubscriptionLost, EndSession
  <2>2. checkDone' \in BOOLEAN /\ reconciling' \in BOOLEAN
    BY <1>10 DEF SubscriptionLost, EndSession
  <2> QED
    BY <2>1, <2>2, LogFacts
<1>11. CASE Crash
  <2>1. /\ phase' = "down" /\ lastBlock' \in {lastBlock, 0}
        /\ historicalCh' = {} /\ currentCh' = {}
        /\ startBlock' = 0 /\ endBlock' = 0 /\ currentBlock' = 0
        /\ UNCHANGED <<chain, stored, unfetched>>
    BY <1>11 DEF Crash, EndSession
  <2>2. checkDone' \in BOOLEAN /\ reconciling' \in BOOLEAN
    BY <1>11 DEF Crash, EndSession
  <2> QED
    BY <2>1, <2>2, LogFacts
<1>12. CASE UNCHANGED vars
  BY <1>12
<1> QED
  BY <1>1, <1>2, <1>3, <1>4, <1>5, <1>6, <1>7, <1>8, <1>9, <1>10, <1>11, <1>12
  DEF Next, Listening

-------------------------------------------------------------------------------
(* Order *)

\* The chain's order survives a new block; no other step touches it.
LEMMA NextLogsInOrder == TypeOK /\ LogsInOrder /\ [Next]_vars => LogsInOrder'
<1> SUFFICES ASSUME TypeOK, LogsInOrder, [Next]_vars PROVE LogsInOrder'
  OBVIOUS
<1>1. ASSUME NEW n \in 0..MaxLogs, Mine(n) PROVE LogsInOrder'
  <2> USE DEF LogsInOrder
  <2>1. /\ n \in Nat /\ Len(logs) \in Nat /\ tip \in Nat /\ tip' = tip + 1
        /\ DOMAIN logs = 1..Len(logs) /\ DOMAIN logs' = 1..(Len(logs) + n)
        /\ \A i \in DOMAIN logs : logs'[i] = logs[i] /\ logs[i] \in Nat
        /\ \A i \in DOMAIN logs' \ DOMAIN logs : i > Len(logs) /\ logs'[i] = tip + 1
    BY <1>1, MineFacts, LogFacts
  <2>2. ASSUME NEW i \in DOMAIN logs' PROVE logs'[i] <= tip'
    BY <2>1
  <2>3. ASSUME NEW i \in DOMAIN logs', NEW j \in DOMAIN logs', i <= j
        PROVE  logs'[i] <= logs'[j]
    <3>1. CASE j \in DOMAIN logs
      <4>1. i \in DOMAIN logs
        BY <2>1, <2>3, <3>1
      <4> QED
        BY <4>1, <2>1, <2>3, <3>1
    <3>2. CASE j \notin DOMAIN logs
      BY <2>1, <2>3, <3>2
    <3> QED
      BY <3>1, <3>2
  <2> QED
    BY <2>2, <2>3
<1>2. ASSUME UNCHANGED chain PROVE LogsInOrder'
  BY <1>2 DEF LogsInOrder, chain
<1> QED
  BY <1>1, <1>2 DEF Next, Listening, vars, Start, Subscribe, FetchTip, FetchWindow,
     CloseHistory, HandleHistorical, EnterLive, HandleLive, SubscriptionLost, Crash,
     EndSession

\* A new block joins the end of the chain and, whole, of a live subscription.
LEMMA MineOrdering ==
  ASSUME TypeOK, Ordering, NEW n \in 0..MaxLogs, Mine(n)
  PROVE  Ordering'
<1> USE DEF Ordering
<1>1. LogsInOrder'
  BY NextLogsInOrder DEF Next
<1>2. /\ n \in Nat /\ Len(logs) \in Nat /\ tip \in Nat /\ tip' = tip + 1
      /\ DOMAIN logs = 1..Len(logs) /\ DOMAIN logs' = 1..(Len(logs) + n)
      /\ \A i \in DOMAIN logs : logs'[i] = logs[i] /\ logs[i] \in Nat /\ logs[i] <= tip
      /\ \A i \in DOMAIN logs' \ DOMAIN logs : i > Len(logs) /\ logs'[i] = tip + 1
  BY MineFacts, LogFacts DEF LogsInOrder
<1>3. /\ UNCHANGED <<stored, phase, lastBlock, historicalCh, checkDone, reconciling, startBlock>>
      /\ currentCh' = IF Connected THEN currentCh \cup (Len(logs) + 1)..(Len(logs) + n)
                                   ELSE currentCh
      /\ UNCHANGED <<currentBlock, endBlock>>
  BY DEF Mine, reconciliation
<1>4. /\ stored \subseteq DOMAIN logs /\ historicalCh \subseteq DOMAIN logs
      /\ currentCh \subseteq DOMAIN logs /\ lastBlock \in 0..tip
      /\ currentBlock \in 0..tip /\ startBlock \in Nat
  BY DEF TypeOK
<1>5. \A i, j : Gap(i, j)' => j \in DOMAIN logs /\ i \in DOMAIN logs /\ Gap(i, j)
  BY <1>2, <1>3, <1>4 DEF Gap
<1>6. BlocksFillInOrder'
  BY <1>2, <1>5 DEF BlocksFillInOrder
<1>7. ResumesAboveGaps'
  BY <1>2, <1>3, <1>5 DEF ResumesAboveGaps
<1>8. SessionFits'
  BY <1>3 DEF SessionFits, Connected
<1>9. LiveBuffer'
  <2>1. CASE Connected
    <3> DEFINE new == (Len(logs) + 1)..(Len(logs) + n)
    <3>1. currentCh' = currentCh \cup new /\ DOMAIN logs' = DOMAIN logs \cup new
      BY <1>2, <1>3, <2>1
    <3>2. ASSUME NEW i \in new, NEW k \in DOMAIN logs'
          PROVE  /\ lastBlock' <= logs'[i]
                 /\ k > i => k \in new
                 /\ logs'[k] = logs'[i] => k \in new
      BY <1>2, <1>3, <1>4
    <3>3. ASSUME NEW i \in currentCh, NEW k \in DOMAIN logs'
          PROVE  /\ lastBlock' <= logs'[i]
                 /\ k > i => k \in currentCh \cup new
                 /\ logs'[k] = logs'[i] => k \in currentCh \cup stored
      BY <1>2, <1>3, <1>4 DEF LiveBuffer
    <3> HIDE DEF new
    <3>4. ASSUME NEW i \in currentCh', NEW k \in DOMAIN logs'
          PROVE  /\ lastBlock' <= logs'[i]
                 /\ k > i => k \in currentCh'
                 /\ logs'[k] = logs'[i] => k \in currentCh' \cup stored'
      BY <1>3, <3>1, <3>2, <3>3
    <3>5. currentCh' \subseteq DOMAIN logs'
      BY <1>4, <3>1
    <3> QED
      BY <3>4, <3>5 DEF LiveBuffer
  <2>2. CASE ~Connected
    <3>1. currentCh' = {}
      BY <1>3, <2>2 DEF SessionFits, Connected, TypeOK, Phases
    <3> QED
      BY <3>1 DEF LiveBuffer
  <2> QED
    BY <2>1, <2>2
<1>10. HistoryBuffer'
  <2>1. SUFFICES ASSUME phase = "history" PROVE HistoryBuffer'
    BY <1>3 DEF HistoryBuffer
  <2> QED
    BY <1>2, <1>3, <1>4, <2>1 DEF HistoryBuffer
<1>11. LookupsEndAtNew'
  BY <1>2, <1>3, <1>4 DEF LookupsEndAtNew
<1> QED
  BY <1>1, <1>6, <1>7, <1>8, <1>9, <1>10, <1>11

\* The steps that neither store a log nor begin a session.
LEMMA QuietOrdering ==
  ASSUME TypeOK, Ordering, Subscribe \/ FetchTip \/ FetchWindow \/ CloseHistory \/ EnterLive
  PROVE  Ordering'
<1> USE DEF Ordering
<1> USE LogFacts
<1>1. LogsInOrder'
  BY NextLogsInOrder DEF Next, Listening
<1>2. /\ UNCHANGED <<tip, logs, stored, lastBlock, currentCh>>
      /\ phase # "down" /\ phase' # "down"
  BY DEF Subscribe, FetchTip, FetchWindow, CloseHistory, EnterLive, chain, session,
     SessionFits
<1>3. \A i, j : Gap(i, j)' <=> Gap(i, j)
  BY <1>2 DEF Gap
<1>4. BlocksFillInOrder' /\ ResumesAboveGaps' /\ LiveBuffer'
  BY <1>2, <1>3 DEF BlocksFillInOrder, ResumesAboveGaps, LiveBuffer
<1>5. CASE Subscribe
  <2>1. SessionFits' /\ HistoryBuffer' /\ LookupsEndAtNew'
    BY <1>2, <1>5 DEF Subscribe, session, reconciliation, SessionFits, HistoryBuffer,
       LookupsEndAtNew
  <2> QED
    BY <1>1, <1>4, <2>1
<1>6. CASE FetchTip
  <2>1. /\ phase = "subscribed" /\ phase' = "history" /\ ~checkDone' /\ historicalCh' = {}
        /\ startBlock = 0 /\ UNCHANGED <<historicalCh, checkDone>>
    BY <1>6 DEF FetchTip, SessionFits
  <2>2. \/ lastBlock = 0 /\ startBlock' = 0 /\ ~reconciling' /\ currentBlock' = currentBlock
        \/ startBlock' = lastBlock /\ currentBlock' = tip /\ endBlock' = lastBlock + BlockStep
    BY <1>6, <2>1 DEF FetchTip, reconciliation, SessionFits
  <2>3. HistoryBuffer'
    BY <1>2, <2>1, <2>2 DEF HistoryBuffer, TypeOK
  <2>4. SessionFits' /\ LookupsEndAtNew'
    BY <1>2, <2>1 DEF SessionFits, LookupsEndAtNew
  <2> QED
    BY <1>1, <1>4, <2>3, <2>4
<1>7. CASE FetchWindow
  <2> DEFINE last == IF endBlock > currentBlock THEN currentBlock ELSE endBlock
             new == {i \in DOMAIN logs : logs[i] \in startBlock..last}
  <2>1. /\ reconciling /\ reconciling' /\ phase = "history"
        /\ UNCHANGED <<phase, checkDone, currentBlock>>
        /\ currentBlock > startBlock
        /\ historicalCh' = historicalCh \cup new
        /\ startBlock' = last + 1 /\ endBlock' = last + BlockStep
    BY <1>7 DEF FetchWindow, SessionFits
  <2>2. /\ last \in Nat /\ last <= currentBlock /\ startBlock <= last
        /\ lastBlock <= startBlock /\ BlockStep >= 1
    BY <2>1, ListenerConstantsOK DEF HistoryBuffer
  <2> HIDE DEF last
  <2>3. SessionFits'
    BY <2>1 DEF SessionFits
  <2>4. HistoryBuffer'
    <3>1. ASSUME NEW i \in historicalCh' PROVE logs'[i] >= lastBlock' /\ logs'[i] < startBlock'
      BY <1>2, <2>1, <2>2 DEF HistoryBuffer, TypeOK
    <3>2. ASSUME NEW k \in DOMAIN logs', logs'[k] >= lastBlock', logs'[k] < startBlock'
          PROVE  k \in stored' \cup historicalCh'
      BY <1>2, <2>1, <2>2, <3>2 DEF HistoryBuffer
    <3>3. /\ startBlock' <= currentBlock' + 1
          /\ lastBlock' <= startBlock' /\ startBlock' <= endBlock'
      BY <1>2, <2>1, <2>2
    <3> QED
      BY <3>1, <3>2, <3>3 DEF HistoryBuffer
  <2>5. LookupsEndAtNew'
    <3> SUFFICES ASSUME checkDone, NEW j \in stored
                 PROVE  /\ \A i \in historicalCh' : j < i
                        /\ \A k \in DOMAIN logs : logs[k] >= startBlock' => j < k
      BY <1>2, <2>1 DEF LookupsEndAtNew
    <3> QED
      BY <2>1, <2>2 DEF LookupsEndAtNew
  <2> QED
    BY <1>1, <1>4, <2>3, <2>4, <2>5
<1>8. CASE CloseHistory
  <2>1. /\ reconciling /\ ~reconciling' /\ phase = "history"
        /\ UNCHANGED <<phase, checkDone, historicalCh, startBlock, endBlock, currentBlock>>
    BY <1>8 DEF CloseHistory, SessionFits
  <2>2. SessionFits' /\ HistoryBuffer' /\ LookupsEndAtNew'
    BY <1>2, <2>1 DEF SessionFits, HistoryBuffer, LookupsEndAtNew
  <2> QED
    BY <1>1, <1>4, <2>2
<1>9. CASE EnterLive
  <2>1. /\ phase' = "live" /\ ~checkDone' /\ historicalCh' = {} /\ ~reconciling'
    BY <1>9 DEF EnterLive, reconciliation
  <2>2. SessionFits' /\ HistoryBuffer' /\ LookupsEndAtNew'
    BY <1>2, <2>1 DEF SessionFits, HistoryBuffer, LookupsEndAtNew
  <2> QED
    BY <1>1, <1>4, <2>2
<1> QED
  BY <1>5, <1>6, <1>7, <1>8, <1>9

\* The steps that begin or end a session.
LEMMA SessionOrdering ==
  ASSUME TypeOK, Ordering, Start \/ SubscriptionLost \/ Crash
  PROVE  Ordering'
<1> USE DEF Ordering
<1>1. LogsInOrder'
  BY NextLogsInOrder DEF Next, Listening
<1>2. /\ UNCHANGED <<tip, logs, stored>>
      /\ currentCh' = {} /\ historicalCh' = {} /\ ~reconciling' /\ ~checkDone'
      /\ startBlock' = 0 /\ phase' \in {"down", "idle"}
  BY DEF Start, SubscriptionLost, Crash, EndSession, chain, session, reconciliation,
     SessionFits
<1>3. \A i, j : Gap(i, j)' <=> Gap(i, j)
  BY <1>2 DEF Gap
<1>4. BlocksFillInOrder' /\ LiveBuffer' /\ HistoryBuffer' /\ SessionFits' /\ LookupsEndAtNew'
  BY <1>2, <1>3 DEF BlocksFillInOrder, LiveBuffer, HistoryBuffer, SessionFits, LookupsEndAtNew
<1>5. ResumesAboveGaps'
  <2>1. CASE Start
    <3>1. lastBlock' = LatestStoredBlock
      BY <2>1 DEF Start
    <3>2. LatestStoredBlock \in Nat /\ \A i \in stored : logs[i] <= LatestStoredBlock
      BY LatestStoredIsMax, LogFacts DEF TypeOK
    <3>3. ASSUME NEW i \in DOMAIN logs, NEW j \in DOMAIN logs, Gap(i, j)
          PROVE  logs[i] < LatestStoredBlock
      <4>1. logs[i] < logs[j] /\ j \in stored
        BY <3>3 DEF BlocksFillInOrder, Gap
      <4> QED
        BY <3>2, <4>1, LogFacts
    <3> QED
      BY <1>2, <1>3, <3>1, <3>3 DEF ResumesAboveGaps
  <2>2. CASE SubscriptionLost
    <3>1. phase # "down" /\ lastBlock' = lastBlock
      BY <2>2 DEF SubscriptionLost, Connected
    <3> QED
      BY <1>2, <1>3, <3>1 DEF ResumesAboveGaps
  <2>3. CASE Crash
    BY <2>3 DEF Crash, ResumesAboveGaps
  <2> QED
    BY <2>1, <2>2, <2>3
<1> QED
  BY <1>1, <1>4, <1>5

\* A historical log that goes to the handler comes after all applied ones, and
\* the logs missing below it are of blocks below the reconciliation.
LEMMA HistoricalIsNew ==
  ASSUME TypeOK, Ordering, HandleHistorical,
         NEW i, i = Earliest(historicalCh)
  PROVE  /\ i \in historicalCh /\ i \in DOMAIN logs
         /\ \A k \in historicalCh \ {i} : i < k
         /\ checkDone \/ i \notin stored => \A j \in stored : j < i
         /\ \A k \in DOMAIN logs \ stored : k < i => logs[k] < lastBlock
         /\ lastBlock <= logs[i] /\ logs[i] < startBlock
<1> USE DEF Ordering
<1> USE LogFacts
<1>1. phase = "history" /\ historicalCh # {}
  BY DEF HandleHistorical
<1>2. historicalCh \subseteq Nat /\ historicalCh \subseteq DOMAIN logs /\ stored \subseteq DOMAIN logs
  BY DEF TypeOK
<1>3. i \in historicalCh /\ \A k \in historicalCh : i <= k
  BY <1>1, <1>2, EarliestIsFirst
<1>4. lastBlock <= logs[i] /\ logs[i] < startBlock
  BY <1>1, <1>3 DEF HistoryBuffer
<1>5. ASSUME i \notin stored, NEW j \in stored PROVE j < i
  <2>1. ~ Gap(i, j)
    BY <1>1, <1>2, <1>3, <1>4 DEF ResumesAboveGaps
  <2> QED
    BY <1>2, <1>3, <1>5, <2>1 DEF Gap
<1>6. ASSUME checkDone, NEW j \in stored PROVE j < i
  BY <1>1, <1>3, <1>6 DEF LookupsEndAtNew
<1>7. ASSUME NEW k \in DOMAIN logs \ stored, k < i PROVE logs[k] < lastBlock
  <2>1. logs[k] <= logs[i]
    BY <1>2, <1>3, <1>7 DEF LogsInOrder
  <2>2. k \notin historicalCh
    BY <1>2, <1>3, <1>7
  <2> QED
    BY <1>1, <1>2, <1>3, <1>4, <2>1, <2>2 DEF HistoryBuffer
<1> QED
  BY <1>2, <1>3, <1>4, <1>5, <1>6, <1>7

\* The same of a log of the subscription.
LEMMA LiveIsNew ==
  ASSUME TypeOK, Ordering, HandleLive,
         NEW i, i = Earliest(currentCh)
  PROVE  /\ i \in currentCh /\ i \in DOMAIN logs
         /\ \A k \in currentCh \ {i} : i < k
         /\ checkDone \/ i \notin stored => \A j \in stored : j < i
         /\ \A k \in DOMAIN logs \ stored : k < i => logs[k] < logs[i]
         /\ lastBlock <= logs[i]
<1> USE DEF Ordering
<1> USE LogFacts
<1>1. phase = "live" /\ currentCh # {}
  BY DEF HandleLive
<1>2. currentCh \subseteq Nat /\ currentCh \subseteq DOMAIN logs /\ stored \subseteq DOMAIN logs
  BY DEF TypeOK
<1>3. i \in currentCh /\ \A k \in currentCh : i <= k
  BY <1>1, <1>2, EarliestIsFirst
<1>4. lastBlock <= logs[i]
  BY <1>3 DEF LiveBuffer
<1>5. ASSUME i \notin stored, NEW j \in stored PROVE j < i
  <2>1. ~ Gap(i, j)
    BY <1>1, <1>2, <1>3, <1>4 DEF ResumesAboveGaps
  <2> QED
    BY <1>2, <1>3, <1>5, <2>1 DEF Gap
<1>6. ASSUME checkDone, NEW j \in stored PROVE j < i
  BY <1>1, <1>3, <1>6 DEF LookupsEndAtNew
<1>7. ASSUME NEW k \in DOMAIN logs \ stored, k < i PROVE logs[k] < logs[i]
  <2>1. logs[k] <= logs[i]
    BY <1>2, <1>3, <1>7 DEF LogsInOrder
  <2>2. k \notin currentCh
    BY <1>2, <1>3, <1>7
  <2>3. logs[k] # logs[i]
    BY <1>3, <1>7, <2>2 DEF LiveBuffer
  <2> QED
    BY <1>2, <1>3, <2>1, <2>3
<1> QED
  BY <1>2, <1>3, <1>4, <1>5, <1>6, <1>7

\* A log handled, from either channel, leaves no gap of its own block and none
\* that the next reconciliation would meet.
LEMMA HandledOrdering ==
  ASSUME TypeOK, Ordering, HandleHistorical \/ HandleLive
  PROVE  Ordering'
<1> USE DEF Ordering
<1> USE LogFacts
<1>1. LogsInOrder'
  BY NextLogsInOrder DEF Next, Listening
<1>2. stored \subseteq DOMAIN logs
  BY DEF TypeOK
<1>3. CASE HandleHistorical
  <2> DEFINE i == Earliest(historicalCh)
  <2>1. /\ UNCHANGED <<tip, logs, phase, lastBlock, currentCh, reconciling, startBlock, endBlock,
                       currentBlock>>
        /\ phase = "history" /\ historicalCh' = historicalCh \ {i} /\ Process(i)
    BY <1>3 DEF HandleHistorical, chain, reconciliation
  <2>2. /\ i \in historicalCh /\ i \in DOMAIN logs
        /\ \A k \in historicalCh \ {i} : i < k
        /\ checkDone \/ i \notin stored => \A j \in stored : j < i
        /\ \A k \in DOMAIN logs \ stored : k < i => logs[k] < lastBlock
        /\ lastBlock <= logs[i] /\ logs[i] < startBlock
    BY <1>3, HistoricalIsNew
  <2> HIDE DEF i
  <2>3. stored' = stored \cup {i}
    BY <2>1 DEF Process
  <2>4. checkDone' => \A j \in stored' : j <= i
    <3>1. checkDone' => checkDone \/ i \notin stored
      BY <2>1 DEF Process
    <3> QED
      BY <1>2, <2>2, <2>3, <3>1
  <2>5. ASSUME NEW k \in DOMAIN logs, NEW j \in DOMAIN logs, Gap(k, j)'
        PROVE  logs[k] < lastBlock /\ (Gap(k, j) \/ j = i)
    BY <1>2, <2>1, <2>2, <2>3, <2>5 DEF Gap, ResumesAboveGaps
  <2>6. BlocksFillInOrder'
    BY <2>1, <2>2, <2>5 DEF BlocksFillInOrder
  <2>7. ResumesAboveGaps'
    BY <2>1, <2>5 DEF ResumesAboveGaps
  <2>8. SessionFits' /\ LiveBuffer' /\ HistoryBuffer'
    BY <2>1, <2>3 DEF SessionFits, LiveBuffer, HistoryBuffer
  <2>9. LookupsEndAtNew'
    <3> SUFFICES ASSUME checkDone', NEW j \in stored'
                 PROVE  /\ \A k \in historicalCh' : j < k
                        /\ \A k \in DOMAIN logs : logs[k] >= startBlock => j < k
      BY <2>1 DEF LookupsEndAtNew
    <3>1. j <= i /\ j \in DOMAIN logs
      BY <1>2, <2>2, <2>3, <2>4
    <3>2. ASSUME NEW k \in historicalCh' PROVE j < k
      BY <2>1, <2>2, <3>1 DEF TypeOK
    <3>3. ASSUME NEW k \in DOMAIN logs, logs[k] >= startBlock PROVE j < k
      <4>1. ~ (k <= i)
        BY <2>2, <3>3 DEF LogsInOrder
      <4> QED
        BY <2>2, <3>1, <4>1
    <3> QED
      BY <3>2, <3>3
  <2> QED
    BY <1>1, <2>6, <2>7, <2>8, <2>9
<1>4. CASE HandleLive
  <2> DEFINE i == Earliest(currentCh)
  <2>1. /\ UNCHANGED <<tip, logs, phase, historicalCh, reconciling, startBlock, endBlock,
                       currentBlock>>
        /\ phase = "live" /\ currentCh' = currentCh \ {i} /\ Process(i) /\ lastBlock' = logs[i]
    BY <1>4 DEF HandleLive, chain, reconciliation
  <2>2. /\ i \in currentCh /\ i \in DOMAIN logs
        /\ \A k \in currentCh \ {i} : i < k
        /\ checkDone \/ i \notin stored => \A j \in stored : j < i
        /\ \A k \in DOMAIN logs \ stored : k < i => logs[k] < logs[i]
        /\ lastBlock <= logs[i]
    BY <1>4, LiveIsNew
  <2> HIDE DEF i
  <2>3. stored' = stored \cup {i}
    BY <2>1 DEF Process
  <2>4. checkDone' => \A j \in stored' : j <= i
    <3>1. checkDone' => checkDone \/ i \notin stored
      BY <2>1 DEF Process
    <3> QED
      BY <1>2, <2>2, <2>3, <3>1
  <2>5. ASSUME NEW k \in DOMAIN logs, NEW j \in DOMAIN logs, Gap(k, j)'
        PROVE  logs[k] < logs[i] /\ (Gap(k, j) \/ j = i)
    BY <1>2, <2>1, <2>2, <2>3, <2>5 DEF Gap, ResumesAboveGaps
  <2>6. BlocksFillInOrder'
    BY <2>1, <2>2, <2>5 DEF BlocksFillInOrder
  <2>7. ResumesAboveGaps'
    BY <2>1, <2>5 DEF ResumesAboveGaps
  <2>8. SessionFits' /\ HistoryBuffer'
    BY <2>1, <2>3 DEF SessionFits, HistoryBuffer
  <2>9. LiveBuffer'
    <3> SUFFICES ASSUME NEW m \in currentCh'
                 PROVE  /\ logs[i] <= logs[m]
                        /\ \A k \in DOMAIN logs : k > m => k \in currentCh'
                        /\ \A k \in DOMAIN logs :
                             logs[k] = logs[m] => k \in currentCh' \cup stored'
      BY <2>1 DEF LiveBuffer
    <3>1. m \in currentCh /\ m \in DOMAIN logs /\ i < m
      BY <2>1, <2>2 DEF TypeOK
    <3>2. logs[i] <= logs[m]
      BY <2>2, <3>1 DEF LogsInOrder
    <3>3. ASSUME NEW k \in DOMAIN logs, k > m PROVE k \in currentCh'
      BY <2>1, <2>2, <3>1, <3>3 DEF LiveBuffer
    <3>4. ASSUME NEW k \in DOMAIN logs, logs[k] = logs[m] PROVE k \in currentCh' \cup stored'
      BY <2>1, <2>3, <3>1, <3>4 DEF LiveBuffer
    <3> QED
      BY <3>2, <3>3, <3>4
  <2>10. LookupsEndAtNew'
    <3> SUFFICES ASSUME checkDone', NEW j \in stored', NEW k \in currentCh'
                 PROVE  j < k
      BY <2>1 DEF LookupsEndAtNew
    <3>1. j <= i /\ j \in DOMAIN logs
      BY <1>2, <2>2, <2>3, <2>4
    <3> QED
      BY <2>1, <2>2, <3>1 DEF TypeOK
  <2> QED
    BY <1>1, <2>6, <2>7, <2>8, <2>9, <2>10
<1> QED
  BY <1>3, <1>4

\* Every step keeps the order.
LEMMA NextOrdering == TypeOK /\ Ordering /\ [Next]_vars => Ordering'
<1> SUFFICES ASSUME TypeOK, Ordering, [Next]_vars PROVE Ordering'
  OBVIOUS
<1>1. CASE UNCHANGED vars
  BY <1>1 DEF vars, chain, session, reconciliation, Ordering, LogsInOrder, BlocksFillInOrder,
     ResumesAboveGaps, SessionFits, LiveBuffer, HistoryBuffer, LookupsEndAtNew, Gap
<1> QED
  BY <1>1, MineOrdering, QuietOrdering, SessionOrdering, HandledOrdering DEF Next, Listening

\* The invariant of the delivery order holds at first.
LEMMA InitOrdering == Init => TypeOK /\ Ordering
<1> SUFFICES ASSUME Init PROVE TypeOK /\ Ordering
  OBVIOUS
<1>1. TypeOK
  <2>1. reconciling \in BOOLEAN /\ checkDone \in BOOLEAN
    BY DEF Init, IdleSession
  <2> QED
    BY <2>1, ListenerConstantsOK DEF Init, IdleSession, TypeOK, Phases
<1>2. DOMAIN logs = {} /\ stored = {} /\ currentCh = {} /\ historicalCh = {}
      /\ phase = "down" /\ ~checkDone /\ ~reconciling /\ startBlock = 0
  BY DEF Init, IdleSession
<1> QED
  BY <1>1, <1>2 DEF Ordering, LogsInOrder, BlocksFillInOrder,
     ResumesAboveGaps, SessionFits, LiveBuffer, HistoryBuffer, LookupsEndAtNew, Gap

\* The order holds in every reachable state.
LEMMA AlwaysOrdered == Spec => [](TypeOK /\ Ordering)
<1>1. TypeOK /\ Ordering /\ [Next]_vars => (TypeOK /\ Ordering)'
  BY NextTypeOK, NextOrdering DEF Ordering
<1> QED
  BY <1>1, InitOrdering, PTL DEF Spec

\* The logs a step gives to the handler come after every log applied before.
LEMMA HandledIsNew ==
  ASSUME TypeOK, Ordering, [Next]_vars
  PROVE  [\A i \in Handled : \A j \in stored : j < i]_vars
<1>1. CASE HandleHistorical
  <2> DEFINE i == Earliest(historicalCh)
  <2>1. checkDone \/ i \notin stored => \A j \in stored : j < i
    BY <1>1, HistoricalIsNew
  <2>2. checkDone' => checkDone \/ i \notin stored
    BY <1>1 DEF HandleHistorical, Process
  <2>3. Handled \subseteq {i} /\ (~checkDone' => Handled = {})
    BY <1>1 DEF HandleHistorical, Handled
  <2> QED
    BY <2>1, <2>2, <2>3
<1>2. CASE HandleLive
  <2> DEFINE i == Earliest(currentCh)
  <2>1. checkDone \/ i \notin stored => \A j \in stored : j < i
    BY <1>2, LiveIsNew
  <2>2. checkDone' => checkDone \/ i \notin stored
    BY <1>2 DEF HandleLive, Process
  <2>3. Handled \subseteq {i} /\ (~checkDone' => Handled = {})
    BY <1>2 DEF HandleLive, Handled
  <2> QED
    BY <2>1, <2>2, <2>3
<1>3. CASE UNCHANGED vars
  BY <1>3
<1>4. ASSUME NEW n \in 0..MaxLogs, Mine(n) PROVE Handled = {}
  BY <1>4 DEF Mine, Handled
<1>5. ASSUME Start \/ Subscribe \/ FetchTip \/ FetchWindow \/ CloseHistory \/ EnterLive
      PROVE  Handled = {}
  BY <1>5 DEF Start, Subscribe, FetchTip, FetchWindow, CloseHistory, EnterLive, session, Handled
<1>6. ASSUME SubscriptionLost \/ Crash PROVE Handled = {}
  BY <1>6 DEF SubscriptionLost, Crash, EndSession, Handled
<1> QED
  BY <1>1, <1>2, <1>3, <1>4, <1>5, <1>6 DEF Next, Listening

\* "Deduplicated delivery" (the comment on the Listener type): whatever blocks
\* the chain mines and wherever the subscription or the process fails, the
\* handler is given each log once, after all that it was given before.
THEOREM DeliveryInOrder == Spec => DeliveredOnceInOrder
<1>1. Spec => [](TypeOK /\ Ordering)
  BY AlwaysOrdered
<1>2. TypeOK /\ Ordering /\ [Next]_vars => [\A i \in Handled : \A j \in stored : j < i]_vars
  BY HandledIsNew
<1> QED
  BY <1>1, <1>2, PTL DEF Spec, DeliveredOnceInOrder

-------------------------------------------------------------------------------
(* Completeness *)

\* The logs below the block to resume from are applied or left out.
LEMMA BelowLastBlock ==
  ASSUME TypeOK, Ordering, Accounting, phase # "down",
         NEW k \in DOMAIN logs, logs[k] < lastBlock
  PROVE  k \in stored \/ LeftOut(k)
<1> USE LogFacts
<1>1. PICK s \in stored : logs[s] = lastBlock
  BY DEF Accounting, ResumesAtApplied
<1>2. s \in DOMAIN logs
  BY DEF TypeOK
<1>3. ~ (s <= k)
  BY <1>1, <1>2 DEF Ordering, LogsInOrder
<1>4. k \in 1..s
  BY <1>2, <1>3
<1> QED
  BY <1>4 DEF Accounting, GapsAreUnfetchedTips

\* A new block leaves no log unaccounted for.
LEMMA MineAccounting ==
  ASSUME TypeOK, Ordering, Accounting, NEW n \in 0..MaxLogs, Mine(n)
  PROVE  Accounting'
<1>2. /\ n \in Nat /\ Len(logs) \in Nat
      /\ DOMAIN logs = 1..Len(logs) /\ DOMAIN logs' = 1..(Len(logs) + n)
      /\ \A i \in DOMAIN logs : i \in DOMAIN logs' /\ logs'[i] = logs[i]
  BY MineFacts, LogFacts
<1>3. /\ UNCHANGED <<stored, phase, lastBlock, historicalCh, reconciling, startBlock,
                     currentBlock, unfetched>>
      /\ Connected => currentCh' = currentCh \cup (Len(logs) + 1)..(Len(logs) + n)
  BY DEF Mine, reconciliation
<1>4. stored \subseteq DOMAIN logs
  BY DEF TypeOK
<1>5. \A k \in DOMAIN logs : LeftOut(k) => LeftOut(k)'
  BY <1>2, <1>3 DEF LeftOut
<1>6. ResumesAtApplied'
  BY <1>2, <1>3, <1>4 DEF Accounting, ResumesAtApplied
<1>7. GapsAreUnfetchedTips'
  <2> SUFFICES ASSUME NEW j \in stored, NEW i \in 1..j PROVE i \in stored \/ LeftOut(i)'
    BY <1>3 DEF GapsAreUnfetchedTips
  <2>1. i \in DOMAIN logs
    BY <1>2, <1>4
  <2> QED
    BY <1>5, <2>1 DEF Accounting, GapsAreUnfetchedTips
<1>8. HistoryAccounted'
  <2> SUFFICES ASSUME phase = "history", NEW k \in DOMAIN logs'
               PROVE  \/ k \in stored \cup currentCh' \cup historicalCh
                      \/ LeftOut(k)'
                      \/ reconciling /\ logs'[k] \in startBlock..currentBlock
    BY <1>3 DEF HistoryAccounted
  <2>1. CASE k \in DOMAIN logs
    BY <1>2, <1>3, <1>5, <2>1 DEF Accounting, HistoryAccounted, Connected
  <2>2. CASE k \notin DOMAIN logs
    BY <1>2, <1>3, <2>2 DEF Connected
  <2> QED
    BY <2>1, <2>2
<1>9. LiveAccounted'
  <2> SUFFICES ASSUME phase = "live", NEW k \in DOMAIN logs'
               PROVE  k \in stored \cup currentCh' \/ LeftOut(k)'
    BY <1>3 DEF LiveAccounted
  <2>1. CASE k \in DOMAIN logs
    BY <1>2, <1>3, <1>5, <2>1 DEF Accounting, LiveAccounted, Connected
  <2>2. CASE k \notin DOMAIN logs
    BY <1>2, <1>3, <2>2 DEF Connected
  <2> QED
    BY <2>1, <2>2
<1> QED
  BY <1>6, <1>7, <1>8, <1>9 DEF Accounting

\* The steps of a session that store nothing.
LEMMA QuietAccounting ==
  ASSUME TypeOK, Ordering, Accounting,
         Start \/ Subscribe \/ FetchTip \/ FetchWindow \/ CloseHistory \/ EnterLive
         \/ SubscriptionLost \/ Crash
  PROVE  Accounting'
<1> USE LogFacts
<1>1. UNCHANGED <<logs, stored>> /\ unfetched \subseteq unfetched'
  BY DEF Start, Subscribe, FetchTip, FetchWindow, CloseHistory, EnterLive,
     SubscriptionLost, Crash, EndSession, chain
<1>2. \A k : LeftOut(k) => LeftOut(k)'
  BY <1>1 DEF LeftOut
<1>3. GapsAreUnfetchedTips'
  BY <1>1, <1>2 DEF Accounting, GapsAreUnfetchedTips
<1>4. CASE Start
  <2>1. ResumesAtApplied'
    BY <1>1, <1>4, LatestStoredIsMax DEF Start, ResumesAtApplied
  <2> QED
    BY <1>3, <1>4, <2>1 DEF Start, Accounting, HistoryAccounted, LiveAccounted
<1>5. CASE Subscribe
  <2>1. phase # "down" /\ phase' = "subscribed" /\ lastBlock' = lastBlock
    BY <1>5 DEF Subscribe
  <2> QED
    BY <1>1, <1>3, <2>1 DEF Accounting, ResumesAtApplied, HistoryAccounted, LiveAccounted
<1>6. CASE FetchTip
  <2>1. phase # "down" /\ phase' = "history" /\ UNCHANGED <<lastBlock, currentCh, historicalCh>>
    BY <1>6 DEF FetchTip
  <2>2. ResumesAtApplied' /\ LiveAccounted'
    BY <1>1, <2>1 DEF Accounting, ResumesAtApplied, LiveAccounted
  <2>3. HistoryAccounted'
    <3> SUFFICES ASSUME NEW k \in DOMAIN logs
                 PROVE  \/ k \in stored \/ LeftOut(k)'
                        \/ reconciling' /\ logs[k] \in startBlock'..currentBlock'
      BY <1>1, <2>1 DEF HistoryAccounted
    <3>1. logs[k] \in 0..tip
      BY DEF Ordering, LogsInOrder
    <3>2. CASE lastBlock = 0
      BY <1>1, <1>6, <3>1, <3>2 DEF FetchTip, LeftOut
    <3>3. CASE lastBlock # 0 /\ logs[k] < lastBlock
      BY <1>2, <2>1, <3>3, BelowLastBlock
    <3>4. CASE lastBlock # 0 /\ ~ (logs[k] < lastBlock)
      BY <1>6, <3>1, <3>4 DEF FetchTip
    <3> QED
      BY <3>2, <3>3, <3>4
  <2> QED
    BY <1>3, <2>2, <2>3 DEF Accounting
<1>7. CASE FetchWindow
  <2> DEFINE last == IF endBlock > currentBlock THEN currentBlock ELSE endBlock
  <2>1. /\ reconciling /\ reconciling' /\ phase = "history"
        /\ UNCHANGED <<phase, lastBlock, currentCh, currentBlock>>
        /\ historicalCh' = historicalCh \cup {i \in DOMAIN logs : logs[i] \in startBlock..last}
        /\ startBlock' = last + 1 /\ last \in Nat
    BY <1>7 DEF FetchWindow, Ordering, SessionFits
  <2> HIDE DEF last
  <2>2. HistoryAccounted'
    <3> SUFFICES ASSUME NEW k \in DOMAIN logs
                 PROVE  \/ k \in stored \cup currentCh \cup historicalCh' \/ LeftOut(k)'
                        \/ logs[k] \in startBlock'..currentBlock
      BY <1>1, <2>1 DEF HistoryAccounted
    <3>1. CASE logs[k] \in startBlock..currentBlock
      BY <2>1, <3>1
    <3>2. CASE logs[k] \notin startBlock..currentBlock
      BY <1>2, <2>1, <3>2 DEF Accounting, HistoryAccounted
    <3> QED
      BY <3>1, <3>2
  <2>3. ResumesAtApplied' /\ LiveAccounted'
    BY <1>1, <2>1 DEF Accounting, ResumesAtApplied, LiveAccounted
  <2> QED
    BY <1>3, <2>2, <2>3 DEF Accounting
<1>8. CASE CloseHistory
  <2>1. /\ phase = "history" /\ unfetched' = unfetched \cup startBlock..currentBlock
        /\ UNCHANGED <<phase, lastBlock, currentCh, historicalCh>>
    BY <1>8 DEF CloseHistory, Ordering, SessionFits
  <2>2. \A k \in DOMAIN logs : logs[k] \in startBlock..currentBlock => LeftOut(k)'
    BY <1>1, <2>1 DEF LeftOut
  <2>3. HistoryAccounted'
    BY <1>1, <1>2, <2>1, <2>2 DEF Accounting, HistoryAccounted
  <2>4. ResumesAtApplied' /\ LiveAccounted'
    BY <1>1, <2>1 DEF Accounting, ResumesAtApplied, LiveAccounted
  <2> QED
    BY <1>3, <2>3, <2>4 DEF Accounting
<1>9. CASE EnterLive
  <2>1. /\ phase = "history" /\ phase' = "live" /\ UNCHANGED <<lastBlock, currentCh>>
        /\ historicalCh = {} /\ ~reconciling
    BY <1>9 DEF EnterLive
  <2>2. LiveAccounted'
    BY <1>1, <1>2, <2>1 DEF Accounting, LiveAccounted, HistoryAccounted
  <2>3. ResumesAtApplied' /\ HistoryAccounted'
    BY <1>1, <2>1 DEF Accounting, ResumesAtApplied, HistoryAccounted
  <2> QED
    BY <1>3, <2>2, <2>3 DEF Accounting
<1>10. CASE SubscriptionLost
  <2>1. phase # "down" /\ phase' = "idle" /\ lastBlock' = lastBlock
    BY <1>10 DEF SubscriptionLost, Connected
  <2> QED
    BY <1>1, <1>3, <2>1 DEF Accounting, ResumesAtApplied, HistoryAccounted, LiveAccounted
<1>11. CASE Crash
  <2>1. phase' = "down"
    BY <1>11 DEF Crash
  <2> QED
    BY <1>3, <2>1 DEF Accounting, ResumesAtApplied, HistoryAccounted, LiveAccounted
<1> QED
  BY <1>4, <1>5, <1>6, <1>7, <1>8, <1>9, <1>10, <1>11

\* A log handled is stored, and those missing below it are left out.
LEMMA HandledAccounting ==
  ASSUME TypeOK, Ordering, Accounting, HandleHistorical \/ HandleLive
  PROVE  Accounting'
<1> USE LogFacts
<1>1. stored \subseteq DOMAIN logs
  BY DEF TypeOK
<1>2. ASSUME UNCHANGED <<logs, unfetched>>,
             NEW i \in DOMAIN logs, stored' = stored \cup {i},
             \A k \in DOMAIN logs \ stored : k < i => LeftOut(k)
      PROVE  GapsAreUnfetchedTips' /\ \A k : LeftOut(k)' <=> LeftOut(k)
  <2>1. \A k : LeftOut(k)' <=> LeftOut(k)
    BY <1>2 DEF LeftOut
  <2>2. ASSUME NEW j \in stored', NEW k \in 1..j PROVE k \in stored' \/ LeftOut(k)
    <3>1. CASE j \in stored
      BY <1>2, <2>2, <3>1 DEF Accounting, GapsAreUnfetchedTips
    <3>2. CASE j = i
      <4>1. k \in DOMAIN logs /\ (k < i \/ k = i)
        BY <2>2, <3>2
      <4> QED
        BY <1>2, <4>1
    <3> QED
      BY <1>2, <3>1, <3>2
  <2> QED
    BY <2>1, <2>2 DEF GapsAreUnfetchedTips
<1>3. CASE HandleHistorical
  <2> DEFINE i == Earliest(historicalCh)
  <2>1. /\ UNCHANGED <<logs, phase, lastBlock, currentCh, reconciling, startBlock, currentBlock,
                       unfetched>>
        /\ phase = "history" /\ historicalCh' = historicalCh \ {i} /\ Process(i)
    BY <1>3 DEF HandleHistorical, chain, reconciliation
  <2>2. i \in DOMAIN logs /\ \A k \in DOMAIN logs \ stored : k < i => logs[k] < lastBlock
    BY <1>3, HistoricalIsNew
  <2> HIDE DEF i
  <2>3. stored' = stored \cup {i}
    BY <2>1 DEF Process
  <2>4. \A k \in DOMAIN logs \ stored : k < i => LeftOut(k)
    BY <2>1, <2>2, BelowLastBlock
  <2>5. GapsAreUnfetchedTips' /\ \A k : LeftOut(k)' <=> LeftOut(k)
    BY <1>2, <2>1, <2>2, <2>3, <2>4
  <2>6. ResumesAtApplied' /\ LiveAccounted'
    BY <2>1, <2>3 DEF Accounting, ResumesAtApplied, LiveAccounted
  <2>7. HistoryAccounted'
    BY <2>1, <2>3, <2>5 DEF Accounting, HistoryAccounted
  <2> QED
    BY <2>5, <2>6, <2>7 DEF Accounting
<1>4. CASE HandleLive
  <2> DEFINE i == Earliest(currentCh)
  <2>1. /\ UNCHANGED <<logs, phase, unfetched>>
        /\ phase = "live" /\ currentCh' = currentCh \ {i} /\ Process(i) /\ lastBlock' = logs[i]
    BY <1>4 DEF HandleLive, chain
  <2>2. i \in DOMAIN logs /\ i \in currentCh /\ \A k \in currentCh \ {i} : i < k
    BY <1>4, LiveIsNew
  <2> HIDE DEF i
  <2>3. stored' = stored \cup {i}
    BY <2>1 DEF Process
  <2>4. \A k \in DOMAIN logs \ stored : k < i => LeftOut(k)
    BY <2>1, <2>2 DEF Accounting, LiveAccounted
  <2>5. GapsAreUnfetchedTips' /\ \A k : LeftOut(k)' <=> LeftOut(k)
    BY <1>2, <2>1, <2>2, <2>3, <2>4
  <2>6. ResumesAtApplied' /\ HistoryAccounted'
    BY <2>1, <2>2, <2>3 DEF ResumesAtApplied, HistoryAccounted
  <2>7. LiveAccounted'
    BY <2>1, <2>3, <2>5 DEF Accounting, LiveAccounted
  <2> QED
    BY <2>5, <2>6, <2>7 DEF Accounting
<1> QED
  BY <1>3, <1>4

\* Below the newest log applied, the listener has missed only logs of blocks
\* that a reconciliation left out: the tip of a range, or all that came before
\* the first event.  Failures alone lose nothing.
THEOREM OnlyTipsAreMissed == Spec => []GapsAreUnfetchedTips
<1>1. Init => Accounting
  BY DEF Init, Accounting, ResumesAtApplied, HistoryAccounted, LiveAccounted,
     GapsAreUnfetchedTips
<1>2. TypeOK /\ Ordering /\ Accounting /\ [Next]_vars => Accounting'
  <2> SUFFICES ASSUME TypeOK, Ordering, Accounting, [Next]_vars PROVE Accounting'
    OBVIOUS
  <2>1. CASE UNCHANGED vars
    BY <2>1 DEF vars, chain, session, reconciliation, Accounting, ResumesAtApplied,
       HistoryAccounted, LiveAccounted, GapsAreUnfetchedTips, LeftOut
  <2> QED
    BY <2>1, MineAccounting, QuietAccounting, HandledAccounting DEF Next, Listening
<1>3. Accounting => GapsAreUnfetchedTips
  BY DEF Accounting
<1> QED
  BY <1>1, <1>2, <1>3, AlwaysOrdered, PTL DEF Spec
===============================================================================
