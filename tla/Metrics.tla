------------------------------ MODULE Metrics -------------------------------
(***************************************************************************)
(* What the node measures of itself.                                       *)
(*                                                                         *)
(*   Runtime metrics: the API handlers write through a metricStore, which  *)
(*   buffers a callback per write and runs the callbacks once the database *)
(*   transaction has committed (src/clearnode/api/metric_store.go and      *)
(*   wrapWithMetrics in rpc_router.go).                                    *)
(*   Store metrics: a goroutine (runStoreMetricsExporter in main.go) reads *)
(*   the tables every 30 seconds and sets gauges.  The total value locked  *)
(*   is kept in the table lifespan_metrics and only moved on by the rows   *)
(*   of transactions younger than its last timestamp                       *)
(*   (src/clearnode/store/database/lifespan_metric.go).                    *)
(*                                                                         *)
(* A row's created_at is set before its transaction commits, so rows       *)
(* become visible in another order than that of their timestamps.  There   *)
(* is one asset, one user, one channel and one app session.                *)
(***************************************************************************)
EXTENDS Integers, Sequences, FiniteSets, FiniteSetsExt, Functions, TLC

CONSTANTS
    Requests,   \* API requests, each one database transaction
    Kind,       \* request -> the type of the transaction it records
    Windows,    \* time spans of the activity gauges
    MaxTime     \* bound on the clock

VARIABLES
    now,
    up,          \* the process runs
    tx,          \* request -> phase, created_at of its row, buffered callbacks
    transactions,\* committed rows: requests
    balance,     \* user_balances: balance, enforced, updated_at
    channel,     \* status of the channel
    appSession,  \* status of the app session
    lifespan,    \* total_value_locked: domain -> value, last_timestamp
    nodeBalance, \* node_balance, as the last event set it
    exporter,    \* step of the exporter, the mark it read, the rows it sums up
    runtime,     \* counter -> value
    gauges,      \* gauge -> value, of the gauges the last step of the exporter set
    counted,     \* history: requests whose rows the stored sums include
    queriedTo,   \* history: latest created_at a delta query has returned
    passed       \* history: requests that committed behind queriedTo

tables == <<transactions, balance, channel, appSession, lifespan, nodeBalance>>
measured == <<runtime, gauges>>
history == <<counted, queriedTo, passed>>
vars == <<now, up, tx, tables, exporter, measured, history>>

Never == 0
Counters == {"UserState", "Transaction"}
Domains == {"channels", "app_sessions"}
DomainOf(k) == IF k \in {"HomeDeposit", "HomeWithdrawal"} THEN "channels" ELSE "app_sessions"
Net(k) == IF k \in {"HomeDeposit", "Commit"} THEN 1 ELSE -1
Effect(k) == IF k \in {"HomeDeposit", "Release"} THEN 1 ELSE -1
NoRow == [phase |-> "new", at |-> Never, callbacks |-> <<>>]
Idle == [step |-> "idle", mark |-> Never, deltas |-> {}]
NetOf(S) == SumFunction([r \in S |-> Net(Kind[r])])

Init ==
    /\ now = 1 /\ up = TRUE
    /\ tx = [r \in Requests |-> NoRow]
    /\ transactions = {}
    /\ balance = [balance |-> 1, enforced |-> 1, updated |-> Never]
    /\ channel = "open" /\ appSession = "open"
    /\ lifespan = <<>> /\ nodeBalance = 0
    /\ exporter = Idle
    /\ runtime = [c \in Counters |-> 0] /\ gauges = <<>>
    /\ counted = {} /\ queriedTo = Never /\ passed = {}

Tick ==
    /\ now < MaxTime
    /\ now' = now + 1
    /\ UNCHANGED <<up, tx, tables, exporter, measured, history>>

(***************************************************************************)
(* Requests: wrapWithMetrics around a handler.                             *)
(***************************************************************************)
StoreUserState(r) ==
    /\ up /\ tx[r].phase = "new"
    /\ tx' = [tx EXCEPT ![r].phase = "stored", ![r].callbacks = Append(@, "UserState")]
    /\ UNCHANGED <<now, up, tables, exporter, measured, history>>

RecordTransaction(r) ==
    /\ up /\ tx[r].phase = "stored"
    /\ tx' = [tx EXCEPT ![r].phase = "recorded", ![r].at = now,
                        ![r].callbacks = Append(@, "Transaction")]
    /\ UNCHANGED <<now, up, tables, exporter, measured, history>>

(* The rows of the transaction become visible together. *)
Commit(r) ==
    /\ up /\ tx[r].phase = "recorded"
    /\ tx' = [tx EXCEPT ![r].phase = "committed"]
    /\ transactions' = transactions \cup {r}
    /\ balance' = [balance EXCEPT !.balance = @ + Effect(Kind[r]), !.updated = now]
    /\ appSession' = IF Kind[r] = "Release" THEN "closed" ELSE appSession
    /\ passed' = passed \cup {p \in {r} : tx[p].at <= queriedTo}
    /\ UNCHANGED <<now, up, channel, lifespan, nodeBalance, exporter, measured, counted, queriedTo>>

(* The handler or the database fails: no callback runs. *)
Rollback(r) ==
    /\ up /\ tx[r].phase \in {"stored", "recorded"}
    /\ tx' = [tx EXCEPT ![r].phase = "failed"]
    /\ UNCHANGED <<now, up, tables, exporter, measured, history>>

flush(r) ==
    /\ up /\ tx[r].phase = "committed"
    /\ tx' = [tx EXCEPT ![r].phase = "flushed", ![r].callbacks = <<>>]
    /\ runtime' = [c \in Counters |->
                     runtime[c] + Cardinality({i \in DOMAIN tx[r].callbacks : tx[r].callbacks[i] = c})]
    /\ UNCHANGED <<now, up, tables, exporter, gauges, history>>

(***************************************************************************)
(* Events of the chain.                                                    *)
(***************************************************************************)
ChannelClosed ==
    /\ up /\ channel = "open"
    /\ channel' = "closed"
    /\ balance' = [balance EXCEPT !.enforced = 0]
    /\ UNCHANGED <<now, up, tx, transactions, appSession, lifespan, nodeBalance, exporter, measured, history>>

(* The closing also changes the node's balance, by an event of its own. *)
SetNodeBalance ==
    /\ up /\ channel = "closed" /\ nodeBalance = 0
    /\ nodeBalance' = 1
    /\ UNCHANGED <<now, up, tx, transactions, balance, channel, appSession, lifespan, exporter, measured, history>>

(***************************************************************************)
(* runStoreMetricsExporter.                                                *)
(***************************************************************************)
Steps == <<"idle", "channels", "sessions", "mark", "delta", "upsert", "read", "node", "users", "active">>
After(step) == LET i == CHOOSE j \in DOMAIN Steps : Steps[j] = step
               IN  Steps[1 + (i % Len(Steps))]

GoOn == exporter' = [exporter EXCEPT !.step = After(@)]

(* Only the labels that the query returns are set. *)
ExportOf(step, values) ==
    /\ up /\ exporter.step = step
    /\ gauges' = values
    /\ GoOn
    /\ UNCHANGED <<now, up, tx, tables, runtime, history>>

(* A query of a plain gauge fails: the error is logged. *)
ExportFails ==
    /\ up /\ exporter.step \in {"channels", "sessions", "read", "node", "users", "active"}
    /\ gauges' = <<>>
    /\ GoOn
    /\ UNCHANGED <<now, up, tx, tables, runtime, history>>

ExporterTick ==
    /\ up /\ exporter.step = "idle"
    /\ exporter' = [Idle EXCEPT !.step = "channels"]
    /\ gauges' = <<>>
    /\ UNCHANGED <<now, up, tx, tables, runtime, history>>

GetChannelsCountByLabels == <<"channels", channel>> :> 1
GetAppSessionsCountByLabels == <<"app_sessions", appSession>> :> 1
GetNodeBalance == IF nodeBalance = 0 THEN <<>> ELSE <<"node_balance">> :> nodeBalance

GetUserBalanceSummary ==
    LET b == balance.balance  e == balance.enforced
    IN  (<<"total">> :> b) @@ (<<"underfunded">> :> Max({0, b - e}))
        @@ (<<"releasable">> :> Max({0, e - b}))

(* Rows older than the window do not count; the label ALL always exists. *)
CountActiveUsers ==
    [w \in {<<"active_users", x>> : x \in Windows} |->
        IF balance.updated > now - w[2] /\ balance.updated # Never THEN 1 ELSE 0]

ExportChannels == ExportOf("channels", GetChannelsCountByLabels)
ExportAppSessions == ExportOf("sessions", GetAppSessionsCountByLabels)
ExportNodeBalance == ExportOf("node", GetNodeBalance)
ExportUserBalances == ExportOf("users", GetUserBalanceSummary)
ExportActive == ExportOf("active", CountActiveUsers)

(* GetTotalValueLocked: the mark is the latest timestamp of any domain. *)
GetLifetimeMetricLastTimestamp ==
    /\ up /\ exporter.step = "mark"
    /\ exporter' = [exporter EXCEPT !.step = "delta",
                       !.mark = Max({Never} \cup {lifespan[d].last : d \in DOMAIN lifespan})]
    /\ gauges' = <<>>
    /\ UNCHANGED <<now, up, tx, tables, runtime, history>>

(* Mutant: created_at >= the mark. *)
SinceInclusive(mark) == {r \in transactions : tx[r].at >= mark}
Since(mark) == {r \in transactions : tx[r].at > mark}

TVLDeltas ==
    /\ up /\ exporter.step = "delta"
    /\ exporter' = [exporter EXCEPT !.step = "upsert", !.deltas = Since(exporter.mark)]
    /\ queriedTo' = Max({queriedTo} \cup {tx[r].at : r \in Since(exporter.mark)})
    /\ UNCHANGED <<now, up, tx, tables, measured, counted, passed>>

(* One statement adds the net sums and moves the timestamps on. *)
TVLUpsert ==
    LET of(d) == {r \in exporter.deltas : DomainOf(Kind[r]) = d}
        latest(d) == Max({tx[r].at : r \in of(d)})
        moved == {d \in Domains : of(d) # {}}
        old(d) == IF d \in DOMAIN lifespan THEN lifespan[d] ELSE [value |-> 0, last |-> Never]
    IN  /\ up /\ exporter.step = "upsert"
        /\ lifespan' = [d \in moved |-> [value |-> old(d).value + NetOf(of(d)),
                                         last |-> Max({old(d).last, latest(d)})]] @@ lifespan
        /\ counted' = counted \cup exporter.deltas
        /\ exporter' = [Idle EXCEPT !.step = "read"]
        /\ UNCHANGED <<now, up, tx, transactions, balance, channel, appSession, nodeBalance,
                       measured, queriedTo, passed>>

(* One of its statements fails: nothing is stored, the gauges stay. *)
TVLFails ==
    /\ up /\ exporter.step \in {"mark", "delta", "upsert"}
    /\ exporter' = [Idle EXCEPT !.step = "node"]
    /\ gauges' = <<>>
    /\ UNCHANGED <<now, up, tx, tables, runtime, history>>

ExportTVL ==
    ExportOf("read", [g \in {<<"tvl", d>> : d \in DOMAIN lifespan} |-> lifespan[g[2]].value])

(***************************************************************************)
(* Crash and restart: what is in memory is lost, open transactions roll    *)
(* back, committed ones keep their rows whether flushed or not.            *)
(***************************************************************************)
Crash ==
    /\ up
    /\ up' = FALSE
    /\ tx' = [r \in Requests |->
                IF tx[r].phase \in {"stored", "recorded"} THEN [tx[r] EXCEPT !.phase = "failed"]
                ELSE IF tx[r].phase \in {"committed", "flushed"} THEN [tx[r] EXCEPT !.phase = "past"]
                ELSE tx[r]]
    /\ exporter' = Idle
    /\ runtime' = [c \in Counters |-> 0]
    /\ gauges' = <<>>
    /\ UNCHANGED <<now, tables, history>>

Restart ==
    /\ ~up
    /\ up' = TRUE
    /\ UNCHANGED <<now, tx, tables, exporter, measured, history>>

Exporter ==
    \/ ExporterTick
    \/ ExportChannels
    \/ ExportAppSessions
    \/ GetLifetimeMetricLastTimestamp
    \/ TVLDeltas
    \/ TVLUpsert
    \/ TVLFails
    \/ ExportTVL
    \/ ExportNodeBalance
    \/ ExportUserBalances
    \/ ExportActive
    \/ ExportFails

Request(r) ==
    \/ StoreUserState(r)
    \/ RecordTransaction(r)
    \/ Commit(r)
    \/ Rollback(r)
    \/ flush(r)

Next ==
    \/ Tick
    \/ \E r \in Requests : Request(r)
    \/ ChannelClosed
    \/ SetNodeBalance
    \/ Exporter
    \/ Crash
    \/ Restart

Spec == Init /\ [][Next]_vars

(***************************************************************************)
(* Properties.                                                             *)
(***************************************************************************)
(* The stored total of a domain is the sum of the rows counted into it,    *)
(* each once, over failed statements, crashes between the query and the    *)
(* update, and rows that become visible late.  A visible row at or before  *)
(* the mark is missing only if the mark had passed it when it committed.   *)
TotalsCountOnce ==
    /\ counted \subseteq transactions
    /\ \A d \in DOMAIN lifespan :
          lifespan[d].value = NetOf({r \in counted : DomainOf(Kind[r]) = d})
    /\ \A r \in transactions \ (counted \cup exporter.deltas \cup passed) :
          \A d \in DOMAIN lifespan : tx[r].at > lifespan[d].last

(* The runtime counters count committed writes: the ones flushed since the *)
(* process started.                                                        *)
CountersCountCommits ==
    \A c \in Counters : runtime[c] = Cardinality({r \in transactions : tx[r].phase = "flushed"})

(* Neither the stored totals (GetTotalValueLocked) nor the counters of the *)
(* metricStore count a write twice, or one that did not commit.            *)
MetricsCountOnce == TotalsCountOnce /\ CountersCountCommits
=============================================================================
