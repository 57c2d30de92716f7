------------------------------ MODULE Cerebro ------------------------------
(* The command line client: its configuration file, the Go SDK client it   *)
(* holds and replaces whenever the configuration changes, and the session  *)
(* key that it may sign states with.                                       *)
(*                                                                         *)
(* Commands run one at a time; the goroutines that watch connections, the  *)
(* node and the wallet's other clients take their steps in between.        *)
EXTENDS SessionKeys

CONSTANTS
  MaxClients        \* bound on the connections made

VARIABLES
  store,      \* config.db, kept between launches
  running,    \* the process runs
  client,     \* o.client: the SDK client in use, or Nobody
  clients,    \* connections made so far
  closed,     \* the connections whose WaitCh is closed
  monitors,   \* the connections a goroutine watches
  exitCh,     \* exitCh of the operator is closed
  cmd         \* what the command in progress does next

cliVars == <<store, running, client, clients, closed, monitors, exitCh, cmd>>
procVars == <<running, client, clients, closed, monitors, exitCh, cmd>>
cerebroVars == <<keyVars, cliVars>>

Idle == [pc |-> "idle"]

(***************************************************************************)
(* Signers and connections                                                 *)
(***************************************************************************)
\* buildStateSigner: the signature it will put on states. GetSessionKey needs
\* the key, its metadata and its authorisation.
BuildStateSigner ==
  IF Nobody \notin {store.key, store.meta, store.auth}
  THEN SessionKeySig(store.key, store.meta, store.auth)
  ELSE DefaultSig(store.wallet)

NewClient(id, wallet, signer) ==
  [id |-> id, wallet |-> wallet, signer |-> signer]

\* The process ends; only the configuration outlives it.
Die ==
  /\ running' = FALSE
  /\ client' = Nobody
  /\ closed' = {}
  /\ monitors' = {}
  /\ exitCh' = FALSE
  /\ cmd' = Idle
  /\ UNCHANGED clients

\* NewOperator: a first launch makes a wallet; a failed connection is fatal.
Launch ==
  /\ ~running /\ clients < MaxClients
  /\ \E w \in Wallets :
       /\ store.wallet \in {Nobody, w}
       /\ store' = [store EXCEPT !.wallet = w]
       /\ \/ /\ nodeUp
             /\ running' = TRUE
             /\ clients' = clients + 1
             /\ client' = NewClient(clients + 1, w,
                  IF store.wallet = Nobody /\ store.auth = Nobody
                  THEN DefaultSig(w) ELSE BuildStateSigner)
             /\ monitors' = {clients + 1}
          \/ UNCHANGED <<running, clients, client, monitors>>
  /\ UNCHANGED <<keyVars, closed, exitCh, cmd>>

\* The start of reconnect: the old client is dropped and closed; closing none
\* ends the process.
Reconnect ==
  IF client = Nobody
  THEN Die
  ELSE /\ client' = Nobody
       /\ closed' = closed \cup {client.id}
       /\ cmd' = [pc |-> "connect"]
       /\ UNCHANGED <<running, clients, monitors, exitCh>>

\* The rest of reconnect: a client with the signer the configuration names.
Connect ==
  /\ cmd.pc = "connect"
  /\ cmd' = Idle
  /\ \/ /\ nodeUp /\ clients < MaxClients
        /\ clients' = clients + 1
        /\ client' = NewClient(clients + 1, store.wallet, BuildStateSigner)
        /\ monitors' = monitors \cup {clients + 1}
     \/ UNCHANGED <<clients, client, monitors>>
  /\ UNCHANGED <<keyVars, store, running, closed, exitCh>>

\* The node or the network drops the connection; the SDK closes WaitCh.
LoseConnection ==
  /\ client # Nobody /\ client.id \notin closed
  /\ closed' = closed \cup {client.id}
  /\ UNCHANGED <<keyVars, store, running, client, clients, monitors, exitCh, cmd>>

\* The goroutine that watches a client acts only for the one in use.
Monitor(i) ==
  /\ i \in monitors /\ i \in closed
  /\ monitors' = monitors \ {i}
  /\ exitCh' = (exitCh \/ (client # Nobody /\ client.id = i))
  /\ UNCHANGED <<keyVars, store, running, client, clients, closed, cmd>>

\* main waits for exitCh.
MainEnds ==
  /\ exitCh
  /\ Die
  /\ UNCHANGED <<keyVars, store>>

(***************************************************************************)
(* Commands                                                                *)
(***************************************************************************)
Prompt == running /\ cmd = Idle

\* config wallet import and generate.
ImportWallet(w) ==
  /\ Prompt
  /\ store' = [store EXCEPT !.wallet = w]
  /\ Reconnect
  /\ UNCHANGED keyVars

\* config rpc import and config node set-ws-url: endpoints, which no property
\* tells apart, and a new client.
SetEndpoint ==
  /\ Prompt
  /\ Reconnect
  /\ UNCHANGED <<keyVars, store>>

\* config session-key generate and import: only the private key is replaced.
StoreSessionKey(k) ==
  /\ Prompt
  /\ store' = [store EXCEPT !.key = k]
  /\ UNCHANGED <<keyVars, procVars>>

ClearSessionKey ==
  /\ Prompt
  /\ store' = [store EXCEPT !.key = Nobody, !.meta = Nobody, !.auth = Nobody]
  /\ Reconnect
  /\ UNCHANGED keyVars

\* A call of the client; without a client (after a reconnection that failed)
\* it ends the process.
CallClient == IF client = Nobody THEN Die ELSE UNCHANGED procVars

\* Any command that only asks the node or a chain: ping stands for them.
Query ==
  /\ Prompt
  /\ CallClient
  /\ UNCHANGED <<keyVars, store>>

\* deposit, withdraw, transfer, acknowledge and close-channel: the client signs
\* a state of its wallet and sends it, a new channel with the validators that
\* the node supports. The node may refuse it, and the call may be lost.
SignState(asset) ==
  /\ Prompt
  /\ CallClient
  /\ \/ /\ client # Nobody /\ client.id \notin closed
        /\ CoSignState(client.wallet, asset, BuildSigValidatorsBitmap, client.signer)
     \/ UNCHANGED <<channelBitmaps, lastSigned>>
  /\ UNCHANGED <<now, keyRows, registeredAt, nodeUp, store>>

\* config session-key register-channel-key: the next version after the one
\* the node reports, or the first when the node cannot be asked.
RegisterChannelKey(k, symbols, lifetime) ==
  /\ Prompt /\ client # Nobody
  /\ Cardinality(keyRows) < MaxRows
  /\ \E version \in {1, GetLastVersion(store.wallet, k) + 1} :
       LET expires == now + lifetime IN
       cmd' = [pc |-> "submit", user |-> store.wallet, key |-> k,
               version |-> version, symbols |-> symbols, expires |-> expires,
               auth |-> AuthSig(client.wallet, k, MetadataHash(version, symbols, expires))]
  /\ UNCHANGED <<keyVars, store, running, client, clients, closed, monitors, exitCh>>

\* SubmitSessionKeyState reads the last version; the version must be the next.
SubmitSessionKeyState ==
  /\ cmd.pc = "submit"
  /\ cmd' = IF /\ nodeUp /\ client.id \notin closed
               /\ DelegationValid(cmd)
               /\ cmd.version = GetLastVersion(cmd.user, cmd.key) + 1
            THEN [cmd EXCEPT !.pc = "insert"]
            ELSE Idle
  /\ UNCHANGED <<keyVars, store, running, client, clients, closed, monitors, exitCh>>

\* The insertion; the answer, good or bad, may not reach the client.
InsertSessionKeyState ==
  /\ cmd.pc = "insert"
  /\ StoreKeyState(cmd)
  /\ \/ /\ RowFits(cmd)
        /\ cmd' = [cmd EXCEPT !.pc = "activate"]
     \/ cmd' = Idle
  /\ UNCHANGED <<now, channelBitmaps, registeredAt, nodeUp, lastSigned, store, running,
                 client, clients, closed, monitors, exitCh>>

\* The key just registered is the stored one: it signs from now on.
ActivateSessionKey ==
  /\ cmd.pc = "activate"
  /\ IF store.key = cmd.key
     THEN /\ store' = [store EXCEPT !.auth = cmd.auth,
                         !.meta = MetadataHash(cmd.version, cmd.symbols, cmd.expires)]
          /\ Reconnect
     ELSE /\ cmd' = Idle
          /\ UNCHANGED <<store, running, client, clients, closed, monitors, exitCh>>
  /\ UNCHANGED keyVars

\* exit: closing a closed channel ends the process as well.
Exit ==
  /\ Prompt
  /\ IF exitCh
     THEN Die
     ELSE /\ exitCh' = TRUE
          /\ UNCHANGED <<running, client, clients, closed, monitors, cmd>>
  /\ UNCHANGED <<keyVars, store>>

(***************************************************************************)
(* Specification                                                           *)
(***************************************************************************)
\* The client has never been started.
CliInit ==
  /\ store = [wallet |-> Nobody, key |-> Nobody, meta |-> Nobody, auth |-> Nobody]
  /\ running = FALSE
  /\ client = Nobody
  /\ clients = 0
  /\ closed = {}
  /\ monitors = {}
  /\ exitCh = FALSE
  /\ cmd = Idle

\* The node runs, with the validator registered.
NodeRuns ==
  /\ now = 0
  /\ keyRows = {}
  /\ channelBitmaps = <<>>
  /\ registeredAt = 0
  /\ nodeUp = TRUE
  /\ lastSigned = Nobody

CerebroInit == NodeRuns /\ CliInit

\* Time passes and the wallets' other clients register keys.
Others ==
  /\ \/ Tick
     \/ \E w \in Wallets, k \in SessionKeys, g \in Grants : RegisterKey(w, k, g[1], g[2])
  /\ UNCHANGED cliVars

Command ==
  \/ \E w \in Wallets : ImportWallet(w)
  \/ SetEndpoint
  \/ \E k \in SessionKeys : StoreSessionKey(k)
  \/ ClearSessionKey
  \/ Query
  \/ \E a \in Assets : SignState(a)
  \/ \E k \in SessionKeys, g \in Grants : RegisterChannelKey(k, g[1], g[2])
  \/ Exit

CommandStep ==
  Connect \/ SubmitSessionKeyState \/ InsertSessionKeyState \/ ActivateSessionKey

CerebroNext ==
  \/ Others \/ Launch \/ LoseConnection \/ Command \/ CommandStep \/ MainEnds
  \/ \E i \in monitors : Monitor(i)

CerebroSpec == CerebroInit /\ [][CerebroNext]_cerebroVars

(***************************************************************************)
(* Properties                                                              *)
(***************************************************************************)
\* The session key the client signs with works: as long as it is neither
\* superseded nor expired, the node accepts its signature for every asset the
\* user asked for, in whatever case the symbols were typed. Excepted is a
\* configuration in which the wallet or the key was replaced under a stored
\* authorisation, which the client goes on using (storeSessionKey and
\* importWallet leave it) (createChannelSessionKey, buildStateSigner,
\* StoreChannelSessionKeyState, ValidateChannelSessionKeyForAsset).
ActiveKeySigns ==
  client # Nobody /\ client.signer.type = SessionKey =>
    LET sig == client.signer IN
    \/ sig.auth.by # client.wallet
    \/ sig.auth.key # sig.by
    \/ sig.meta.expires <= now
    \/ GetLastVersion(client.wallet, sig.by) > sig.meta.version
    \/ \A s \in sig.meta.symbols : Verify(client.wallet, Lower[s], sig)
=============================================================================
