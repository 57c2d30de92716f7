----------------------------- MODULE MCServices -----------------------------
(***************************************************************************)
(* The node's services that share no state with each other, and its client *)
(* programs, each in a scope of its own: in one scope one of them runs and *)
(* the variables of the others keep a fixed value.                         *)
(***************************************************************************)
EXTENDS Listener, Cerebro, TLC

CONSTANTS
  w1, w2, k1,   \* two wallets that share a session key
  Nil, Error    \* of Wire

VARIABLES
  scope,
  \* Stress
  method, stage, connected, job, failed, workers, expired, faults, exit,
  limits, balance, open, unsigned, head, appSessions,
  \* Metrics
  metricsTime, up, tx, transactions, userBalance, channel, appSession, lifespan,
  nodeBalance, exporter, runtime, gauges, counted, queriedTo, passed,
  \* NodeProcess
  config, registry, pending, tables, command, pc, memoryStore, todo, verified,
  router, started, serving, status, launches,
  \* Wire
  symbol, assets, channelStates, channels, scheduled, cache, hub, events

stressVars == <<method, stage, connected, job, failed, workers, expired, faults, exit,
                limits, balance, open, unsigned, head, appSessions>>
metricsVars == <<metricsTime, up, tx, transactions, userBalance, channel, appSession, lifespan,
                 nodeBalance, exporter, runtime, gauges, counted, queriedTo, passed>>
processVars == <<config, registry, pending, tables, command, pc, memoryStore, todo,
                 verified, router, started, serving, status, launches>>
wireVars == <<symbol, assets, channelStates, channels, scheduled, cache, hub, events>>

-------------------------------------------------------------------------------
(* Session keys *)

MCSymbols == {"usdc", "USDC"}

\* The symbols name one asset.
MCLower == [s \in MCSymbols |-> "usdc"]

\* The key is asked for that asset, in one spelling and in two.
MCGrants == {<<{"USDC"}, 1>>, <<MCSymbols, 1>>}

\* Malformed; no validator; the default one; both; session keys and one that
\* is unknown.
MCBitmaps == {-1, 0, 1, 3, 6}

-------------------------------------------------------------------------------
(* The stress tool and the metrics *)

S == INSTANCE Stress WITH
  session <- appSessions, clients <- workers,
  Iterations <- 2, Cycles <- 1, Amount <- 1, Rounds <- 1, Wallets <- 3,
  AppSessions <- 2, Participants <- 2, Operates <- 1, TotalReqs <- 3,
  Connections <- 2, MaxErrorPercent <- 1, MaxFaults <- 1

\* A deposit that is locked and a release of an app session's funds.
M == INSTANCE Metrics WITH
  balance <- userBalance, now <- metricsTime,
  Requests <- {1, 2}, Kind <- (1 :> "HomeDeposit") @@ (2 :> "Release"),
  Windows <- {1}, MaxTime <- 2

-------------------------------------------------------------------------------
(* Configurations of the node process *)

Adr(d) == <<d, TRUE>>
NoAdr == <<"", FALSE>>

ChainOf(id, hubAdr, locking) ==
  [id |-> id, name |-> "chain", disabled |-> FALSE, blockStep |-> 0,
   hub |-> hubAdr, locking |-> locking,
   validators |-> IF hubAdr = NoAdr THEN <<>> ELSE (1 :> Adr("v"))]

TokenOf(id, address, decimals) ==
  [chain |-> id, address |-> address, decimals |-> decimals, disabled |-> FALSE]

AssetOf(name, decimals, suggested, tokens) ==
  [symbol |-> name, decimals |-> decimals, suggested |-> suggested,
   disabled |-> FALSE, tokens |-> tokens]

\* Two chains and a disabled one; one asset on all of them, one only there.
Plain ==
  [driver |-> "postgres", signer |-> "key", minChallenge |-> 1, maxChallenge |-> 7,
   chains |-> <<ChainOf(1, Adr("h1"), Adr("l1")), ChainOf(2, Adr("h2"), NoAdr),
                [ChainOf(3, NoAdr, NoAdr) EXCEPT !.disabled = TRUE]>>,
   assets |-> <<AssetOf("usdc", 6, 1, <<TokenOf(1, Adr("t1"), 6), TokenOf(2, Adr("t2"), 8),
                                        TokenOf(3, Adr("t3"), 6)>>),
                AssetOf("weth", 8, 3, <<TokenOf(3, Adr("t4"), 8)>>)>>,
   rpc |-> [c \in 1..3 |-> [url |-> TRUE, chain |-> c, version |-> 1]]]

\* That one; other drivers and signers; too many decimals; a chain with a
\* locking contract only; a symbol given twice; no driver and a second validator
\* of one chain.
ProcessConfigs ==
  {Plain,
   [Plain EXCEPT !.driver = "sqlite", !.signer = "gcp-kms"],
   [Plain EXCEPT !.driver = "mysql"],
   [Plain EXCEPT !.signer = "none"],
   [Plain EXCEPT !.assets[1].decimals = 7],
   [Plain EXCEPT !.chains[2].hub = NoAdr, !.chains[2].locking = Adr("l2")],
   [Plain EXCEPT !.assets[2] = AssetOf("usdc", 8, 2, <<TokenOf(2, <<"t2", FALSE>>, 8)>>)],
   [Plain EXCEPT !.driver = "", !.chains[1].validators = (1 :> Adr("v")) @@ (2 :> Adr("u"))]}

\* No validator registered yet; both; another one under the first id.
ProcessRegistries ==
  {<<>>, (<<1, 1>> :> Adr("v")) @@ (<<2, 1>> :> Adr("v")), <<1, 1>> :> Adr("w")}

P == INSTANCE NodeProcess WITH
  store <- memoryStore, running <- started,
  Configs <- ProcessConfigs, Registries <- ProcessRegistries, MaxLaunches <- 2

-------------------------------------------------------------------------------
(* Forms of a state.  The operator moves the asset, whose symbol has capital
   letters, from one chain to a token of another with other decimals. *)

WireToken(id, decimals) ==
  [blockchainId |-> id, address |-> [id |-> <<"token", id>>, lower |-> FALSE],
   decimals |-> decimals]

W == INSTANCE Wire WITH
  Nonces <- {1, 2}, Symbols <- {[id |-> <<"usdc">>, lower |-> FALSE]},
  Configs <- {{WireToken(1, 0)}, {WireToken(2, 1)}}, MaxStates <- 4, MaxEvents <- 1

-------------------------------------------------------------------------------
Scopes == {"listener", "keys", "cerebro", "stress", "metrics", "process", "wire"}

ServicesInit ==
  /\ scope \in Scopes
  /\ Init
  /\ IF scope = "keys" THEN KeyInit ELSE NodeRuns
  /\ CliInit
  /\ S!Init /\ (scope = "stress" \/ (method = "pool" /\ open = {0} /\ limits.channels /\ limits.applications))
  /\ M!Init
  /\ P!Init /\ (scope = "process" \/ (config = Plain /\ registry = <<>>))
  /\ W!Init /\ (scope = "wire" \/ assets = W!NewMemoryStore({WireToken(1, 0)}))

ServicesNext ==
  \/ scope = "listener" /\ Next /\ UNCHANGED <<cerebroVars, stressVars, metricsVars, processVars, wireVars>>
  \/ scope = "keys" /\ KeyNext /\ UNCHANGED <<vars, cliVars, stressVars, metricsVars, processVars, wireVars>>
  \/ scope = "cerebro" /\ CerebroNext /\ UNCHANGED <<vars, stressVars, metricsVars, processVars, wireVars>>
  \/ scope = "stress" /\ S!Next /\ UNCHANGED <<vars, cerebroVars, metricsVars, processVars, wireVars>>
  \/ scope = "metrics" /\ M!Next /\ UNCHANGED <<vars, cerebroVars, stressVars, processVars, wireVars>>
  \/ scope = "process" /\ P!Next /\ UNCHANGED <<vars, cerebroVars, stressVars, metricsVars, wireVars>>
  \/ scope = "wire" /\ W!Next /\ UNCHANGED <<vars, cerebroVars, stressVars, metricsVars, processVars>>

servicesVars == <<scope, vars, cerebroVars, stressVars, metricsVars, processVars,
                  wireVars>>

\* Fair are the listener's goroutines, and nothing else needs to be.
ServicesSpec ==
  /\ ServicesInit /\ [][ServicesNext /\ UNCHANGED scope]_servicesVars
  /\ WF_vars(Listening)

-------------------------------------------------------------------------------
(* The properties of the components that are instances; those of the
   listener and of the session keys are in their modules. *)

\* A stress run that passes has returned all funds to the origin wallet.
PassMeansFundsHome == S!PassMeansFundsHome

\* The stress tool reports an error only when a call was lost or rate limited,
\* the context expired, the node is configured to refuse what the test needs or
\* the test is one of the two that are beyond the tool's own limits.
OnlyFaultsFail == S!OnlyFaultsFail

\* The stored totals and the counters count each committed write once.
MetricsCountOnce == M!MetricsCountOnce

\* A node that serves requests has completed its start-up: tables, chains,
\* validators, listeners, workers and asset look-ups.
ReadyWhenServing == P!ReadyWhenServing

\* A serving node accepts channels whose challenge period is within the bounds
\* of its configuration.
ConfiguredChallengesAccepted == P!ConfiguredChallengesAccepted

\* Whatever a party signed, the contract checks, whoever reads the state back
\* and with whichever table of assets, and on the channel it was signed for.
EncodedAsSigned == W!EncodedAsSigned

\* No state follows one on a channel the node has no row of.
UnknownChannelIsDeadEnd == W!UnknownChannelIsDeadEnd
=============================================================================
