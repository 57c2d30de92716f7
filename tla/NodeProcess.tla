---------------------------- MODULE NodeProcess -----------------------------
(***************************************************************************)
(* The clearnode process (src/clearnode/main.go, runtime.go): what it does *)
(* between its launch and the moment it serves requests, its shutdown, and *)
(* the operator commands that share its start; the configuration of chains *)
(* and assets it loads (src/clearnode/store/memory); the database it       *)
(* migrates (src/clearnode/store/database/database.go).                    *)
(*                                                                         *)
(* An address is a pair: its digits, and whether it is written with the    *)
(* mixed case of a checksum.  What persists over launches is the database  *)
(* and the validators registered on the chains.                            *)
(***************************************************************************)
EXTENDS Integers, Sequences, FiniteSets, SequencesExt, FiniteSetsExt, Functions, TLC

CONSTANTS
    Configs,      \* contents of the configuration directory and environment
    Registries,   \* validators registered on the chains before the first launch
    MaxLaunches   \* bound on the number of launches

VARIABLES
    config,    \* the configuration of this deployment
    registry,  \* <<chain, validator id>> -> validator address
    pending,   \* registrations that were sent and are not mined
    tables,    \* tables of the database
    command,   \* "node", "address" or "register-validators"
    pc,        \* step of the command, "exited" when no process runs
    store,     \* the memory store
    todo,      \* chains left in the current loop over GetBlockchains
    verified,  \* keys of BlockchainRPCs
    router,    \* bounds of the challenge period in the router's configuration
    running,   \* goroutines of the listeners and workers
    serving,   \* servers that accept connections, "sockets": open WebSockets
    status,    \* exit status of the last process, -1 when it was killed
    launches

chainVars == <<registry, pending>>
procVars == <<command, pc, store, todo, verified, router, running, serving, status>>
vars == <<config, chainVars, tables, procVars, launches>>

(***************************************************************************)
(* Configuration.                                                          *)
(***************************************************************************)
NoAddress == <<"", FALSE>>
ToLower(a) == <<a[1], FALSE>>
ValidAddress(a) == a[1] \notin {"", "malformed"}   \* contractAddressRegex

(* core.ChannelSignerTypes without the default one, which needs no validator. *)
ValidatorTypes == {1}
ChannelHubVersion == 1
defaultBlockStep == 10000

Enabled(s) == SelectSeq(s, LAMBDA x : ~x.disabled)

verifyBlockchainsConfig(chains) ==
    \A bc \in Range(Enabled(chains)) :
        /\ bc.name # ""
        /\ bc.hub # NoAddress \/ bc.locking # NoAddress
        /\ \A a \in {bc.hub, bc.locking} \ {NoAddress} : ValidAddress(a)
        /\ bc.hub # NoAddress =>
              \A t \in ValidatorTypes : t \in DOMAIN bc.validators /\ ValidAddress(bc.validators[t])

WithBlockStep(bc) == IF bc.blockStep = 0 THEN [bc EXCEPT !.blockStep = defaultBlockStep] ELSE bc

(* Of two entries with the same id the later one is used. *)
getEnabledBlockchains(chains) ==
    LET on == Enabled(chains)
        last(id) == Max({i \in DOMAIN on : on[i].id = id})
    IN  [id \in {on[i].id : i \in DOMAIN on} |-> WithBlockStep(on[last(id)])]

verifyAssetsConfig(assets) ==
    \A asset \in Range(Enabled(assets)) :
        /\ asset.symbol # ""
        /\ asset.suggested # 0
        /\ \A token \in Range(Enabled(asset.tokens)) :
              ValidAddress(token.address) /\ asset.decimals <= token.decimals

(* The tokens of an asset on chains with a hub, with lower-case addresses. *)
Kept(asset, supported) ==
    LET on == SelectSeq(Enabled(asset.tokens), LAMBDA token : token.chain \in supported)
    IN  [i \in DOMAIN on |-> [on[i] EXCEPT !.address = ToLower(@)]]

Supported(chains) == {id \in DOMAIN chains : chains[id].hub # NoAddress}

(* Assets without a token are left out. *)
Published(assets, supported) ==
    LET on == Enabled(assets)
        all == [i \in DOMAIN on |-> [on[i] EXCEPT !.tokens = Kept(on[i], supported)]]
    IN  SelectSeq(all, LAMBDA asset : asset.tokens # <<>>)

(* A published asset must be suggested on a chain where it has a token. *)
SuggestionsValid(assets) ==
    \A asset \in Range(assets) : \E token \in Range(asset.tokens) : token.chain = asset.suggested

LoadsMemoryStore(cfg) ==
    /\ verifyBlockchainsConfig(cfg.chains)
    /\ verifyAssetsConfig(cfg.assets)
    /\ SuggestionsValid(Published(cfg.assets, Supported(getEnabledBlockchains(cfg.chains))))

NewMemoryStoreV1(cfg) ==
    LET chains == getEnabledBlockchains(cfg.chains)
        ids == SetToSortSeq(DOMAIN chains, <)
    IN  [blockchains |-> [i \in DOMAIN ids |-> chains[ids[i]]],
         assets |-> Published(cfg.assets, Supported(chains))]

NoStore == [blockchains |-> <<>>, assets |-> <<>>]
NoRouter == [minChallenge |-> 0, maxChallenge |-> 0]

(***************************************************************************)
(* Lookups in the store.  Its maps hold what was entered last; a lookup    *)
(* gives a set of one value, or the empty set for an error.                *)
(***************************************************************************)
GetBlockchains == store.blockchains
GetAssets(chain) ==
    LET of(asset) == [asset EXCEPT !.tokens = SelectSeq(@, LAMBDA t : t.chain = chain)]
    IN  SelectSeq([i \in DOMAIN store.assets |-> of(store.assets[i])], LAMBDA a : a.tokens # <<>>)

Entries ==
    FlattenSeq([i \in DOMAIN store.assets |->
        [j \in DOMAIN store.assets[i].tokens |->
            [token |-> store.assets[i].tokens[j], symbol |-> store.assets[i].symbol]]])

LastEntry(Matches(_)) ==
    LET hits == {i \in DOMAIN Entries : Matches(Entries[i])}
    IN  {Entries[i] : i \in {k \in hits : k = Max(hits)}}

GetTokenAddress(symbol, chain) ==
    {e.token.address : e \in LastEntry(LAMBDA e : e.symbol = symbol /\ e.token.chain = chain)}

IsAssetSupported(symbol, address, chain) ==
    \E known \in GetTokenAddress(symbol, chain) : ToLower(known) = ToLower(address)

ByToken(chain, address) ==
    LastEntry(LAMBDA e : e.token.chain = chain /\ e.token.address = ToLower(address))
GetTokenAsset(chain, address) == {e.symbol : e \in ByToken(chain, address)}
GetTokenDecimals(chain, address) == {e.token.decimals : e \in ByToken(chain, address)}

GetAssetDecimals(symbol) ==
    LET hits == {i \in DOMAIN store.assets : store.assets[i].symbol = symbol}
    IN  {store.assets[i].decimals : i \in {k \in hits : k = Max(hits)}}

(***************************************************************************)
(* The process.                                                            *)
(***************************************************************************)
Order(cmd) ==
    CASE cmd = "node" -> <<"env", "db", "memory", "gateway", "signer", "rpcnode", "rpcs", "chains", "servers", "serving">>
      [] cmd = "register-validators" -> <<"memory", "signer", "rpcs", "register", "done">>
      [] cmd = "address" -> <<"signer", "done">>

Position == CHOOSE i \in DOMAIN Order(command) : Order(command)[i] = pc
Advance == pc' = Order(command)[Position + 1]

AllTables == {"channels", "states", "transactions", "channel_session_keys"}
(* migrateSqlite does not name the models of these tables. *)
NotMigratedBySqlite == {"states", "transactions", "channel_session_keys"}

Init ==
    /\ config \in Configs
    /\ registry \in Registries
    /\ pending = {} /\ tables = {}
    /\ command = "node" /\ pc = "exited" /\ store = NoStore /\ todo = <<>>
    /\ verified = {} /\ router = NoRouter /\ running = {} /\ serving = {} /\ status = 0
    /\ launches = 0

Launch(cmd) ==
    /\ pc = "exited" /\ launches < MaxLaunches
    /\ launches' = launches + 1
    /\ command' = cmd
    /\ pc' = Order(cmd)[1]
    /\ UNCHANGED <<config, chainVars, tables, store, todo, verified, router, running, serving, status>>

(* Whatever ends the process ends its goroutines and servers with it. *)
Exit(code) ==
    /\ pc' = "exited" /\ status' = code
    /\ store' = NoStore /\ todo' = <<>> /\ verified' = {} /\ router' = NoRouter
    /\ running' = {} /\ serving' = {}
    /\ UNCHANGED <<config, command, launches>>

Fatal == Exit(1) /\ UNCHANGED <<chainVars, tables>>

(* Steps that touch no state of this model: the environment, the action    *)
(* gateway, the signer, the metrics and the RPC node.                      *)
ReadEnv ==
    /\ pc \in {"env", "gateway", "rpcnode"}
    /\ Advance
    /\ UNCHANGED <<config, chainVars, tables, command, store, todo, verified, router, running, serving, status, launches>>

(* A key, or the name of a KMS key, must go with the type of the signer. *)
initSigner ==
    /\ pc = "signer" /\ config.signer \in {"key", "gcp-kms"}
    /\ Advance
    /\ UNCHANGED <<config, chainVars, tables, command, store, todo, verified, router, running, serving, status, launches>>

(* Postgres: the schema, the embedded migrations, the pool. *)
connectToPostgresql ==
    /\ pc = "db" /\ config.driver = "postgres"
    /\ tables' = AllTables
    /\ Advance
    /\ UNCHANGED <<config, chainVars, command, store, todo, verified, router, running, serving, status, launches>>

(* Sqlite, which is also what no driver means: AutoMigrate, whose error    *)
(* nobody looks at.                                                        *)
connectToSqlite ==
    /\ pc = "db" /\ config.driver \in {"sqlite", ""}
    /\ tables' = tables \cup (AllTables \ NotMigratedBySqlite)
    /\ Advance
    /\ UNCHANGED <<config, chainVars, command, store, todo, verified, router, running, serving, status, launches>>

NewMemoryStoreV1FromConfig ==
    /\ pc = "memory" /\ LoadsMemoryStore(config)
    /\ store' = NewMemoryStoreV1(config)
    /\ todo' = NewMemoryStoreV1(config).blockchains
    /\ Advance
    /\ UNCHANGED <<config, chainVars, tables, command, verified, router, running, serving, status, launches>>

(* checkChainId and checkChannelHubVersion.  The second one is called with *)
(* the zero address when a chain has no hub, and fails there.              *)
RpcAnswers(b) ==
    LET rpc == config.rpc[b.id]
    IN  rpc.url /\ rpc.chain = b.id /\ b.hub # NoAddress /\ rpc.version = ChannelHubVersion

initBlockchainRPC ==
    /\ pc = "rpcs" /\ todo # <<>> /\ RpcAnswers(Head(todo))
    /\ verified' = verified \cup {Head(todo).id}
    /\ todo' = Tail(todo)
    /\ UNCHANGED <<config, chainVars, tables, command, pc, store, router, running, serving, status, launches>>

(* The Backbone and, from it, the router's configuration: the maximum is   *)
(* configured and is not handed over.                                      *)
RouterConfig(cfg) == [minChallenge |-> cfg.minChallenge, maxChallenge |-> 0]

RpcsVerified ==
    /\ pc = "rpcs" /\ todo = <<>>
    /\ todo' = GetBlockchains
    /\ router' = IF command = "node" THEN RouterConfig(config) ELSE router
    /\ Advance
    /\ UNCHANGED <<config, chainVars, tables, command, store, verified, running, serving, status, launches>>

Registered(b, t) == IF <<b.id, t>> \in DOMAIN registry THEN registry[<<b.id, t>>] ELSE NoAddress

(* Mutant: any validator under the id will do. *)
IsRegisteredAny(b, t) == Registered(b, t) # NoAddress
IsRegistered(b, t) == ToLower(Registered(b, t)) = ToLower(b.validators[t])

(* The validators that are left for chain b. *)
ToRegister(b) == IF b.hub = NoAddress THEN {} ELSE DOMAIN b.validators

(* EnsureSigValidatorRegistered for every validator, in check-only mode. *)
ValidatorsInPlace(b) == \A t \in DOMAIN b.validators : IsRegistered(b, t)

Goroutines(b) ==
    (IF b.hub = NoAddress THEN {} ELSE {<<"listener", b.id, b.hub>>, <<"worker", b.id, b.hub>>})
    \cup (IF b.locking = NoAddress THEN {} ELSE {<<"listener", b.id, b.locking>>})

StartChain ==
    LET b == Head(todo)
    IN  /\ pc = "chains" /\ todo # <<>>
        /\ b.id \in verified
        /\ b.hub # NoAddress => ValidatorsInPlace(b)
        /\ running' = running \cup Goroutines(b)
        /\ todo' = Tail(todo)
        /\ UNCHANGED <<config, chainVars, tables, command, pc, store, verified, router, serving, status, launches>>

ChainsStarted ==
    /\ pc = "chains" /\ todo = <<>>
    /\ Advance
    /\ UNCHANGED <<config, chainVars, tables, command, store, todo, verified, router, running, serving, status, launches>>

(* The metrics exporter and both servers start as goroutines. *)
StartServers ==
    /\ pc = "servers"
    /\ serving' = {"metrics", "rpc"}
    /\ Advance
    /\ UNCHANGED <<config, chainVars, tables, command, store, todo, verified, router, running, status, launches>>

(* A client connects: its WebSocket is taken from the server. *)
Connect ==
    /\ "rpc" \in serving
    /\ serving' = serving \cup {"sockets"}
    /\ UNCHANGED <<config, chainVars, tables, command, pc, store, todo, verified, router, running, status, launches>>

(* What the checks refuse, whatever the environment does. *)
Refused ==
    /\ \/ pc = "db" /\ config.driver \notin {"postgres", "sqlite", ""}
       \/ pc = "memory" /\ ~LoadsMemoryStore(config)
       \/ pc = "signer" /\ config.signer \notin {"key", "gcp-kms"}
       \/ pc = "rpcs" /\ todo # <<>> /\ ~RpcAnswers(Head(todo))
       \/ /\ pc = "chains" /\ todo # <<>>
          /\ Head(todo).hub # NoAddress /\ ~ValidatorsInPlace(Head(todo))
       \/ /\ pc = "register" /\ todo # <<>>
          /\ \E t \in ToRegister(Head(todo)) :
                Registered(Head(todo), t) # NoAddress /\ ~IsRegistered(Head(todo), t)
    /\ Fatal

(* A database, KMS or chain endpoint that does not answer, a port in use,  *)
(* a listener or worker that stops with an error.                          *)
Fails == pc \notin {"exited", "done"} /\ Fatal

(* SIGKILL, or an earlier SIGTERM: signal.Notify comes last. *)
Kill ==
    /\ pc # "exited"
    /\ Exit(-1)
    /\ UNCHANGED <<chainVars, tables>>

(***************************************************************************)
(* Operator commands.                                                      *)
(***************************************************************************)
(* The next validator, in the order of a map: it is there, or its          *)
(* registration is sent and the outcome not waited for.  What was sent     *)
(* before a validator that does not match stays sent.                      *)
RegisterValidators ==
    LET b == Head(todo)
    IN  /\ pc = "register" /\ todo # <<>>
        /\ \E t \in ToRegister(b) :
              /\ Registered(b, t) = NoAddress \/ IsRegistered(b, t)
              /\ pending' = pending \cup (IF IsRegistered(b, t) THEN {} ELSE {<<b.id, t, b.validators[t]>>})
              /\ todo' = [todo EXCEPT ![1].validators = Restrict(@, ToRegister(b) \ {t})]
        /\ UNCHANGED <<config, registry, tables, command, pc, store, verified, router, running, serving, status, launches>>

NextChain ==
    /\ pc = "register" /\ todo # <<>> /\ ToRegister(Head(todo)) = {}
    /\ todo' = Tail(todo)
    /\ UNCHANGED <<config, chainVars, tables, command, pc, store, verified, router, running, serving, status, launches>>

AllRegistered ==
    /\ pc = "register" /\ todo = <<>>
    /\ Advance
    /\ UNCHANGED <<config, chainVars, tables, command, store, todo, verified, router, running, serving, status, launches>>

CommandDone ==
    /\ pc = "done"
    /\ Exit(0)
    /\ UNCHANGED <<chainVars, tables>>

(* The hub keeps the first validator registered under an id. *)
Mined(p) ==
    /\ pending' = pending \ {p}
    /\ registry' = registry @@ (<<p[1], p[2]>> :> p[3])
    /\ UNCHANGED <<config, tables, procVars, launches>>

(***************************************************************************)
(* Shutdown on SIGINT or SIGTERM.                                          *)
(***************************************************************************)
Signal ==
    /\ pc = "serving"
    /\ pc' = "stopping"
    /\ UNCHANGED <<config, chainVars, tables, command, store, todo, verified, router, running, serving, status, launches>>

ShutdownMetrics ==
    /\ pc = "stopping" /\ "metrics" \in serving
    /\ serving' = serving \ {"metrics"}
    /\ UNCHANGED <<config, chainVars, tables, command, pc, store, todo, verified, router, running, status, launches>>

(* Connections are no longer accepted; the WebSockets that are open are    *)
(* not the server's any more and stay.                                     *)
ShutdownRpc ==
    /\ pc = "stopping" /\ "metrics" \notin serving
    /\ serving' = serving \ {"rpc"}
    /\ pc' = "cancel"
    /\ UNCHANGED <<config, chainVars, tables, command, store, todo, verified, router, running, status, launches>>

(* The goroutine of the RPC server takes ErrServerClosed for a failure. *)
RpcServerClosed ==
    /\ pc \in {"cancel", "close"}
    /\ Fatal

cancelBlockchain ==
    /\ pc = "cancel"
    /\ running' = {}
    /\ pc' = "close"
    /\ UNCHANGED <<config, chainVars, tables, command, store, todo, verified, router, serving, status, launches>>

CloseBackbone ==
    /\ pc = "close"
    /\ Exit(0)
    /\ UNCHANGED <<chainVars, tables>>

Next ==
    \/ \E cmd \in {"node", "address", "register-validators"} : Launch(cmd)
    \/ ReadEnv
    \/ connectToPostgresql
    \/ connectToSqlite
    \/ NewMemoryStoreV1FromConfig
    \/ initSigner
    \/ initBlockchainRPC
    \/ RpcsVerified
    \/ StartChain
    \/ ChainsStarted
    \/ StartServers
    \/ Connect
    \/ Refused
    \/ Fails
    \/ Kill
    \/ RegisterValidators
    \/ NextChain
    \/ AllRegistered
    \/ CommandDone
    \/ \E p \in pending : Mined(p)
    \/ Signal
    \/ ShutdownMetrics
    \/ ShutdownRpc
    \/ RpcServerClosed
    \/ cancelBlockchain
    \/ CloseBackbone

Spec == Init /\ [][Next]_vars

(***************************************************************************)
(* Properties.                                                             *)
(***************************************************************************)
(* The configuration, whose checks allow it, gives two assets the symbol   *)
(* or two entries the chain and address of this token.                     *)
Ambiguous(e) ==
    \/ Cardinality({i \in DOMAIN store.assets : store.assets[i].symbol = e.symbol}) > 1
    \/ Cardinality({i \in DOMAIN Entries : Entries[i].token.chain = e.token.chain
                        /\ (Entries[i].symbol = e.symbol \/ Entries[i].token.address = e.token.address)}) > 1

(* What GetAssets publishes is what the lookups answer: for the addresses  *)
(* of events, which are written with a checksum, too.                      *)
AssetsResolve ==
    \A b \in Range(GetBlockchains) : \A a \in Range(GetAssets(b.id)) : \A t \in Range(a.tokens) :
        ~Ambiguous([token |-> t, symbol |-> a.symbol]) =>
            /\ GetTokenAddress(a.symbol, t.chain) = {t.address}
            /\ IsAssetSupported(a.symbol, <<t.address[1], TRUE>>, t.chain)
            /\ GetTokenAsset(t.chain, <<t.address[1], TRUE>>) = {a.symbol}
            /\ GetTokenDecimals(t.chain, t.address) = {t.decimals}
            /\ GetAssetDecimals(a.symbol) # {} /\ \A d \in GetAssetDecimals(a.symbol) : d <= t.decimals
            /\ b.hub # NoAddress

(* A node that answers requests, on WebSockets that outlive its server     *)
(* too, has migrated its database (sqlite apart, where the models of three *)
(* tables are missing), has verified every chain it publishes, finds the   *)
(* configured validators on each hub, listens to every contract with a     *)
(* positive block step, has a worker for every hub (until a shutdown has   *)
(* cancelled them, just before its end), and resolves every asset it       *)
(* publishes: on the first launch, after a crash at any step, next to an   *)
(* operator who registers validators.                                      *)
ReadyWhenServing ==
    serving \cap {"rpc", "sockets"} # {} =>
        /\ config.driver = "postgres" => tables = AllTables
        /\ \A b \in Range(GetBlockchains) :
              /\ b.id \in verified /\ b.blockStep > 0
              /\ Goroutines(b) \subseteq running \/ pc = "close"
              /\ b.hub # NoAddress =>
                    \A t \in ValidatorTypes : ToLower(Registered(b, t)) = ToLower(b.validators[t])
        /\ AssetsResolve

(* A node that serves accepts a channel whose challenge period lies within *)
(* the bounds it was configured with (ChannelMinChallengeDuration and      *)
(* ChannelMaxChallengeDuration, checked in request_creation.go).           *)
ConfiguredChallengesAccepted ==
    "rpc" \in serving =>
        \A challenge \in config.minChallenge .. config.maxChallenge :
            challenge >= router.minChallenge /\ challenge <= router.maxChallenge
=============================================================================
