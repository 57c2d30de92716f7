---------------------------------- MODULE Wire ---------------------------------
(***************************************************************************)
(* The forms one user's state of one asset takes between the wallet that   *)
(* signs it and the contract that checks the signature: the SDK's          *)
(* core.State, the JSON of the request, the node's core.State, the rows of *)
(* channel_states and channels, the JSON of the answer, and the contract's *)
(* State.  What is signed is the packed state (core/state_packer.go); what *)
(* the contract checks is built by other code (evm/utils.go) from what was *)
(* read back, with the decimals a table of assets gives at that time.      *)
(*                                                                         *)
(* A string that names an address, a hash or a symbol is a record of what  *)
(* it denotes and of whether it is written in lower-case letters: Go's ==, *)
(* the keys of its maps and SQL's = tell the spellings apart, EqualFold    *)
(* and the conversions to bytes do not.  A signature is what it signs.     *)
(* Requests are atomic here; module Node has their interleavings and the   *)
(* rest of the node's rules, module ChannelHub the contract's.  Only home  *)
(* transitions occur: the node refuses those that would add an escrow      *)
(* ledger, and the node's balance of a home ledger stays zero.             *)
(***************************************************************************)
EXTENDS Integers, Sequences, FiniteSets

CONSTANTS
  Nil,        \* Go's nil; an unset column
  Error,      \* what a call that fails returns
  Nonces,     \* the nonces of the channels the user may create
  Symbols,    \* the spellings in which the operator may have configured the asset
  Configs,    \* the operator's configurations of the asset: sets of tokens
  MaxStates,  \* bound: rows in channel_states
  MaxEvents   \* bound: events of the hub that wait for the node

VARIABLES
  symbol,         \* the asset's symbol in the node's configuration
  assets,         \* MemoryStoreV1: the asset's tokens, [blockchainId, address, decimals]
  channelStates,  \* channel_states
  channels,       \* channels
  scheduled,      \* rows of channel_states scheduled for a checkpoint
  cache,          \* clientAssetStore.cache, Nil while empty
  hub,            \* the contract: [ChannelBytes -> [status, version]]
  events          \* its events, not handled yet

vars == <<symbol, assets, channelStates, channels, scheduled, cache, hub, events>>

-------------------------------------------------------------------------------
(* Strings *)

Str(id, lower) == [id |-> id, lower |-> lower]

ToLower(t) == [t EXCEPT !.lower = TRUE]

EqualFold(s, t) == s.id = t.id

\* HexToHash, HexToAddress and parseAccountIdToBytes32
Bytes(t) == t.id

\* strconv.FormatUint and Decimal.String, and their inverses.
Digits(n) == [digits |-> n]

Number(d) == d.digits

User == Str(<<"user">>, FALSE)   \* GetUserAddress: the checksum spelling
Peer == Str(<<"peer">>, FALSE)   \* as the caller of Transfer writes it
NoAddress == Str(<<>>, TRUE)
ZeroHash == Str(<<"zero">>, TRUE)

-------------------------------------------------------------------------------
(* core.State *)

VoidTransition == [type |-> "void", txId |-> Nil, accountId |-> NoAddress, amount |-> 0]

NewVoidState(asset, wallet) ==
  [asset |-> asset, userWallet |-> wallet, epoch |-> 0, version |-> 0,
   homeChannelId |-> Nil, transition |-> VoidTransition,
   homeLedger |-> [blockchainId |-> 0, tokenAddress |-> NoAddress,
                   userBalance |-> 0, userNetFlow |-> 0, nodeNetFlow |-> 0],
   userSig |-> Nil, nodeSig |-> Nil]

IsFinal(s) == s.transition.type = "finalize"

NextState(s) ==
  IF IsFinal(s)
  THEN [NewVoidState(s.asset, s.userWallet) EXCEPT !.epoch = s.epoch + 1]
  ELSE [s EXCEPT !.version = @ + 1, !.transition = VoidTransition,
                 !.userSig = Nil, !.nodeSig = Nil]

\* The hash is of the asset's spelling and of the address's bytes.
GetStateID(s) == <<Bytes(s.userWallet), s.asset, s.epoch, s.version>>

\* The hash is of the account's spelling.
getTransactionID(account, s) == <<account, GetStateID(s)>>

\* GenerateChannelMetadata hashes the asset's spelling into the channel's id.
ChannelHash(asset, nonce) == <<"channel", nonce, asset.lower>>

GetHomeChannelID(asset, nonce) == Str(ChannelHash(asset, nonce), TRUE)

ChannelBytes == {<<"channel", n, low>> : n \in Nonces, low \in BOOLEAN}

ApplyChannelCreation(s, nonce, chain, token) ==
  [s EXCEPT !.homeChannelId = GetHomeChannelID(s.asset, nonce),
            !.homeLedger.blockchainId = chain, !.homeLedger.tokenAddress = token]

\* The Apply methods.
Applied(s, type, account, txId, a) ==
  LET user == CASE type \in {"home_deposit", "transfer_receive"} -> a
                [] type \in {"transfer_send", "finalize"} -> -a
                [] OTHER -> 0
      flow == CASE type = "home_deposit" -> a [] type = "finalize" -> -a [] OTHER -> 0
  IN  [s EXCEPT !.transition = [type |-> type, txId |-> txId, accountId |-> account,
                                amount |-> a],
                !.homeLedger.userBalance = @ + user,
                !.homeLedger.userNetFlow = @ + flow,
                !.homeLedger.nodeNetFlow = @ + user - flow]

\* What the user's own transitions name; peer is the recipient of a transfer.
AppliedByUser(s, type, peer) ==
  LET account == CASE type = "transfer_send" -> peer
                   [] type = "acknowledgement" -> ZeroHash
                   [] OTHER -> s.homeChannelId
      a == CASE type = "acknowledgement" -> 0
             [] type = "finalize" -> s.homeLedger.userBalance
             [] OTHER -> 1
  IN  Applied(s, type, account,
              IF type = "acknowledgement" THEN <<>> ELSE getTransactionID(account, s), a)

TransitionToIntent(t) ==
  CASE t.type = "finalize" -> "CLOSE"
    [] t.type = "home_deposit" -> "DEPOSIT"
    [] OTHER -> "OPERATE"

\* The comparisons of ValidateAdvancement are of spellings.
ValidateAdvancement(cur, p) ==
  LET next == NextState(cur)
      expected == IF next.homeChannelId # Nil THEN next
                  ELSE [next EXCEPT
                          !.homeChannelId = p.homeChannelId,
                          !.homeLedger.blockchainId = p.homeLedger.blockchainId,
                          !.homeLedger.tokenAddress = p.homeLedger.tokenAddress]
      t == p.transition
  IN  /\ p.homeChannelId # Nil
      /\ t.type = "acknowledgement" => cur.userSig = Nil
      /\ [p EXCEPT !.userSig = Nil] = AppliedByUser(expected, t.type, t.accountId)
      /\ p.homeLedger.userBalance >= 0

-------------------------------------------------------------------------------
(* Assets: the node's table, and the client's cache of it *)

ChainIds == UNION {{t.blockchainId : t \in config} : config \in Configs}

\* NewMemoryStoreV1: token addresses in lower case, the symbol as configured.
NewMemoryStore(config) ==
  {[t EXCEPT !.address = ToLower(@)] : t \in config}

\* The node's IsAssetSupported, GetAssetDecimals and GetTokenDecimals.
IsAssetSupported(asset, l) ==
  /\ asset = symbol
  /\ \E t \in assets : t.blockchainId = l.blockchainId
                            /\ EqualFold(t.address, l.tokenAddress)

IsAssetKnown(asset) == asset = symbol

NodeTokenDecimals(l) ==
  LET found == {t \in assets : t.blockchainId = l.blockchainId
                                     /\ t.address = ToLower(l.tokenAddress)}
  IN  IF found = {} THEN Error ELSE (CHOOSE t \in found : TRUE).decimals

\* GetAssets of the node's API, and of the SDK.
mapAssetV1(a) ==
  {[t EXCEPT !.blockchainId = Digits(@)] : t \in a}

transformAssets(r) ==
  {[t EXCEPT !.blockchainId = Number(@)] : t \in r}

populateCache == transformAssets(mapAssetV1(assets))

\* The cache after a lookup that fetches only when it is empty; the lookups
\* by symbol also fetch when the symbol, in lower case, is not cached, which
\* for the configured one is the same.
Cached == IF cache = Nil THEN populateCache ELSE cache

ClientTokenDecimals(l) ==
  LET found == {t \in Cached : t.blockchainId = l.blockchainId
                                     /\ EqualFold(t.address, l.tokenAddress)}
  IN  IF found = {} THEN Error ELSE (CHOOSE t \in found : TRUE).decimals

\* clientAssetStore.GetTokenAddress, which Approve and the allowance use.
CachedTokenAddress(chain) ==
  LET found == {t \in Cached : t.blockchainId = chain}
  IN  IF found = {} THEN Error ELSE (CHOOSE t \in found : TRUE).address

\* Client.getTokenAddress asks the node every time.
getTokenAddress(asset, chain) ==
  LET now == populateCache
      found == {t \in now : t.blockchainId = chain}
  IN  IF ~EqualFold(asset, symbol) \/ found = {} THEN Error
      ELSE (CHOOSE t \in found : TRUE).address

-------------------------------------------------------------------------------
(* What is signed *)

\* Mutation: the account is hashed as it is spelled.
TransitionHashOfSpelling(t) == <<t.type, t.txId, t.accountId, t.amount>>

GetStateTransitionHash(t) == <<t.type, t.txId, Bytes(t.accountId), t.amount>>

packedLedger(l, decimals) ==
  [chainId |-> l.blockchainId, token |-> Bytes(l.tokenAddress), decimals |-> decimals,
   userAllocation |-> l.userBalance * 10^decimals,
   userNetFlow |-> l.userNetFlow * 10^decimals,
   nodeNetFlow |-> l.nodeNetFlow * 10^decimals]

packSigningData(s, decimals) ==
  [channelId |-> Bytes(s.homeChannelId), version |-> s.version,
   intent |-> TransitionToIntent(s.transition),
   metadata |-> GetStateTransitionHash(s.transition),
   homeLedger |-> packedLedger(s.homeLedger, decimals)]

\* Error without a channel, or when the token is unknown.
PackState(s, decimals) ==
  IF s.homeChannelId = Nil \/ decimals = Error THEN Error
  ELSE <<packSigningData(s, decimals)>>

PackChallengeState(s, decimals) ==
  IF s.homeChannelId = Nil \/ decimals = Error THEN Error
  ELSE <<packSigningData(s, decimals), "challenge">>

-------------------------------------------------------------------------------
(* What the contract gets, and the message it checks the signatures of *)

coreLedgerToContractLedger(l, decimals) ==
  [chainId |-> l.blockchainId, token |-> Bytes(l.tokenAddress), decimals |-> decimals,
   userAllocation |-> l.userBalance * 10^decimals,
   userNetFlow |-> l.userNetFlow * 10^decimals,
   nodeNetFlow |-> l.nodeNetFlow * 10^decimals]

coreStateToContractState(s, decimals) ==
  [version |-> s.version, intent |-> TransitionToIntent(s.transition),
   metadata |-> GetStateTransitionHash(s.transition),
   homeLedger |-> coreLedgerToContractLedger(s.homeLedger, decimals),
   userSig |-> s.userSig, nodeSig |-> s.nodeSig]

\* Utils.toSigningData, with the channel the call names.
SigningData(channelId, c) ==
  [channelId |-> channelId, version |-> c.version, intent |-> c.intent,
   metadata |-> c.metadata, homeLedger |-> c.homeLedger]

\* coreDefToContractDef of the definition the SDK reads off the channel.
coreDefToContractDef(channel, asset) == [nonce |-> channel.nonce, metadata |-> asset.lower]

\* Utils.getChannelId
HubChannelId(def) == <<"channel", def.nonce, def.metadata>>

-------------------------------------------------------------------------------
(* JSON: numbers are written in digits, strings stay as they are *)

transformLedgerToRPC(l) ==
  [l EXCEPT !.blockchainId = Digits(@), !.userBalance = Digits(@),
            !.userNetFlow = Digits(@), !.nodeNetFlow = Digits(@)]

transformStateToRPC(s) ==
  [s EXCEPT !.epoch = Digits(@), !.version = Digits(@), !.transition.amount = Digits(@),
            !.homeLedger = transformLedgerToRPC(@)]

toCoreLedger(l) ==
  [l EXCEPT !.blockchainId = Number(@), !.userBalance = Number(@),
            !.userNetFlow = Number(@), !.nodeNetFlow = Number(@)]

toCoreState(r) ==
  [r EXCEPT !.epoch = Number(@), !.version = Number(@), !.transition.amount = Number(@),
            !.homeLedger = toCoreLedger(@)]

coreStateToRPC(s) ==
  [s EXCEPT !.epoch = Digits(@), !.version = Digits(@), !.transition.amount = Digits(@),
            !.homeLedger = [@ EXCEPT !.blockchainId = Digits(@), !.userBalance = Digits(@),
                                     !.userNetFlow = Digits(@), !.nodeNetFlow = Digits(@)]]

transformLedger(l) ==
  [l EXCEPT !.blockchainId = Number(@), !.userBalance = Number(@),
            !.userNetFlow = Number(@), !.nodeNetFlow = Number(@)]

transformState(r) ==
  [r EXCEPT !.epoch = Number(@), !.version = Number(@), !.transition.amount = Number(@),
            !.homeLedger = transformLedger(@)]

coreChannelToRPC(c) ==
  [c EXCEPT !.blockchainId = Digits(@), !.nonce = Digits(@), !.stateVersion = Digits(@)]

transformChannel(r) ==
  [r EXCEPT !.blockchainId = Number(@), !.nonce = Number(@), !.stateVersion = Number(@)]

-------------------------------------------------------------------------------
(* The tables *)

\* The chain and the token of the home ledger are not stored.
coreStateToDB(s) ==
  [asset |-> s.asset, userWallet |-> ToLower(s.userWallet),
   epoch |-> s.epoch, version |-> s.version,
   homeChannelId |-> IF s.homeChannelId = Nil THEN Nil ELSE ToLower(s.homeChannelId),
   transition |-> [s.transition EXCEPT !.accountId = ToLower(@)],
   homeUserBalance |-> s.homeLedger.userBalance,
   homeUserNetFlow |-> s.homeLedger.userNetFlow,
   homeNodeNetFlow |-> s.homeLedger.nodeNetFlow,
   userSig |-> s.userSig, nodeSig |-> s.nodeSig]

\* LEFT JOIN channels ON home_channel_id = channel_id
Joined(row) == {c \in channels : c.channelId = row.homeChannelId}

\* The core.State of a row whose home ledger is on chain, in token.
OnChain(row, chain, token) ==
  [asset |-> row.asset, userWallet |-> row.userWallet,
   epoch |-> row.epoch, version |-> row.version,
   homeChannelId |-> row.homeChannelId, transition |-> row.transition,
   homeLedger |-> [blockchainId |-> chain, tokenAddress |-> token,
                   userBalance |-> row.homeUserBalance,
                   userNetFlow |-> row.homeUserNetFlow,
                   nodeNetFlow |-> row.homeNodeNetFlow],
   userSig |-> row.userSig, nodeSig |-> row.nodeSig]

\* Mutation: a channel missing from the table is taken to be in a configured token.
databaseStateToCoreLenient(row) ==
  LET c == CHOOSE c \in Joined(row) : TRUE
      t == CHOOSE t \in assets : TRUE
  IN  IF row.homeChannelId = Nil THEN OnChain(row, 0, NoAddress)
      ELSE IF Joined(row) = {} THEN OnChain(row, t.blockchainId, t.address)
      ELSE OnChain(row, c.blockchainId, c.tokenAddress)

databaseStateToCore(row) ==
  IF row.homeChannelId = Nil THEN OnChain(row, 0, NoAddress)
  ELSE IF Joined(row) = {} THEN Error
  ELSE LET c == CHOOSE c \in Joined(row) : TRUE
       IN  OnChain(row, c.blockchainId, c.tokenAddress)

Later(r, q) == r.epoch > q.epoch \/ (r.epoch = q.epoch /\ r.version > q.version)

CoSigned(row) == row.userSig # Nil /\ row.nodeSig # Nil

Latest(rows) == CHOOSE r \in rows : \A q \in rows : ~Later(q, r)

\* The wallet is compared in lower case, the asset as it is spelled.
RowsOf(wallet, asset, signed) ==
  {r \in channelStates : /\ r.userWallet = ToLower(wallet) /\ r.asset = asset
                         /\ signed => CoSigned(r)}

GetLastUserState(wallet, asset, signed) ==
  LET rows == RowsOf(wallet, asset, signed)
  IN  IF rows = {} THEN Nil ELSE databaseStateToCore(Latest(rows))

\* core.NewChannel as CreateChannel inserts it: the asset in lower case.
ChannelRow(s, channelId, nonce) ==
  [channelId |-> ToLower(channelId), asset |-> ToLower(s.asset), nonce |-> nonce,
   blockchainId |-> s.homeLedger.blockchainId,
   tokenAddress |-> ToLower(s.homeLedger.tokenAddress),
   status |-> "void", stateVersion |-> 0]

\* CheckOpenChannel and GetActiveHomeChannel.
ActiveHomeChannels(asset) ==
  {c \in channels : c.asset = ToLower(asset) /\ c.status \in {"void", "open"}}

\* A deposit must be enforced before the next state; a channel missing from
\* the table passes.
EnsureNoOngoingStateTransitions(wallet, asset) ==
  LET rows == RowsOf(wallet, asset, TRUE) IN
  rows # {} /\ Latest(rows).transition.type = "home_deposit" =>
     \A c \in Joined(Latest(rows)) : c.stateVersion = Latest(rows).version

StoreUserState(s) == channelStates' = channelStates \cup {coreStateToDB(s)}

-------------------------------------------------------------------------------
(* The node's handlers *)

\* The handlers of get_latest_state and get_home_channel, as the SDK sees them.
GetLatestState(asset, signed) ==
  LET s == GetLastUserState(User, asset, signed)
  IN  IF s \in {Nil, Error} THEN Error ELSE transformState(coreStateToRPC(s))

GetHomeChannel(asset) ==
  {transformChannel(coreChannelToRPC(c)) : c \in ActiveHomeChannels(asset)}

CurrentState(asset, wallet) ==
  LET last == GetLastUserState(wallet, asset, FALSE)
  IN  IF last = Nil THEN NewVoidState(asset, wallet) ELSE last

\* The user's signature is over the state as the node packs it; the node
\* signs the same bytes.
CoSign(p) ==
  LET packed == PackState(p, NodeTokenDecimals(p.homeLedger))
  IN  /\ packed # Error /\ p.userSig = packed
      /\ StoreUserState([p EXCEPT !.nodeSig = packed])

RequestCreation(r, nonce) ==
  LET p == toCoreState([r EXCEPT !.userWallet = ToLower(@)])   \* NormalizeHexAddress
      cur == CurrentState(p.asset, p.userWallet)
      channelId == GetHomeChannelID(p.asset, nonce)
  IN  /\ IsAssetSupported(p.asset, p.homeLedger)
      /\ cur # Error
      /\ p.homeChannelId # Nil /\ EqualFold(p.homeChannelId, channelId)
      /\ cur.homeChannelId # Nil => IsFinal(cur) /\ ~EqualFold(p.homeChannelId, cur.homeChannelId)
      /\ IsAssetKnown(p.asset) /\ ValidateAdvancement(cur, p)
      /\ \A c \in channels : c.channelId # ToLower(channelId)
      /\ channels' = channels \cup {ChannelRow(p, channelId, nonce)}
      /\ CoSign(p)

SubmitState(r) ==
  LET p == toCoreState(r)
      cur == CurrentState(p.asset, p.userWallet)
  IN  /\ ActiveHomeChannels(p.asset) # {}
      /\ cur # Error
      /\ EnsureNoOngoingStateTransitions(cur.userWallet, cur.asset)
      /\ IsAssetKnown(p.asset) /\ ValidateAdvancement(cur, p)
      /\ CoSign(p)
      /\ UNCHANGED channels

\* issueTransferReceiverState: the node's part of a transfer to the user.
issueTransferReceiverState ==
  LET peer == ToLower(Peer)
      cur == CurrentState(symbol, ToLower(User))
      new == Applied(NextState(cur), "transfer_receive", peer,
                     getTransactionID(User, [cur EXCEPT !.userWallet = peer]), 1)
      packed == PackState(new, NodeTokenDecimals(new.homeLedger))
  IN  /\ cur # Error
      /\ GetLastUserState(User, symbol, TRUE) # Error
      /\ new.homeChannelId # Nil => packed # Error
      /\ StoreUserState([new EXCEPT !.nodeSig = IF new.homeChannelId = Nil THEN Nil ELSE packed])
      /\ UNCHANGED <<symbol, assets, channels, scheduled, cache, hub, events>>

\* The operator restarts the node with another configuration of the asset.
NodeRestarts(config) ==
  /\ assets' = NewMemoryStore(config)
  /\ UNCHANGED <<symbol, channelStates, channels, scheduled, cache, hub, events>>

\* The handlers of the hub's events; the refresh of user_balances that ends
\* them is NodeStore's EnforcedBalance.
HandleEvent ==
  LET e == Head(events)
      found == {c \in channels : c.channelId = e.channelId}
      c == CHOOSE c \in found : TRUE
      status == CASE e.type = "created" -> "open"
                  [] e.type = "checkpointed" -> IF c.status = "challenged" THEN "open"
                                                ELSE c.status
                  [] OTHER -> e.type
      new == [c EXCEPT !.stateVersion = e.version, !.status = status]
      signed == {r \in channelStates : r.homeChannelId = e.channelId /\ CoSigned(r)}
      stale == e.type = "challenged" /\ e.version < c.stateVersion
  IN  /\ events # <<>> /\ events' = Tail(events)
      /\ IF found = {} \/ stale THEN UNCHANGED <<channels, scheduled>>
         ELSE /\ channels' = (channels \ {c}) \cup {new}
              /\ scheduled' = IF e.type = "challenged" /\ Latest(signed).version > e.version
                              THEN scheduled \cup {Latest(signed)} ELSE scheduled
      /\ UNCHANGED <<symbol, assets, channelStates, cache, hub>>

-------------------------------------------------------------------------------
(* The contract: whose signatures it accepts and what it pulls *)

Verified(channelId, c) ==
  c.userSig = <<SigningData(channelId, c)>> /\ c.nodeSig = <<SigningData(channelId, c)>>

\* A call that takes the channel from one of the statuses to status with c.
Enforced(channelId, c, from, status, event) ==
  LET h == hub[channelId] IN
  /\ h.status \in from /\ Verified(channelId, c)
  /\ Len(events) < MaxEvents
  /\ hub' = [hub EXCEPT ![channelId] = [status |-> status, version |-> c.version]]
  /\ events' = Append(events, [type |-> event, channelId |-> Str(channelId, TRUE),
                               version |-> c.version])

CreateChannel(channelId, c) ==
  c.intent # "CLOSE" /\ Enforced(channelId, c, {"void"}, "open", "created")

CheckpointChannel(channelId, c) ==
  /\ c.version > hub[channelId].version
  /\ IF c.intent = "CLOSE"
     THEN Enforced(channelId, c, {"open", "challenged"}, "closed", "closed")
     ELSE Enforced(channelId, c, {"open", "challenged"}, "open", "checkpointed")

ChallengeChannel(channelId, c, challengerSig) ==
  /\ c.version >= hub[channelId].version
  /\ challengerSig = <<SigningData(channelId, c), "challenge">>
  /\ Enforced(channelId, c, {"open"}, "challenged", "challenged")

-------------------------------------------------------------------------------
(* The SDK *)

\* ValidateAndSignState, and the request of the state that follows cur.
SignAndSend(cur, next, nonce) ==
  LET sig == PackState(next, ClientTokenDecimals(next.homeLedger))
      request == transformStateToRPC([next EXCEPT !.userSig = sig])
  IN  /\ ValidateAdvancement(cur, next) /\ sig # Error
      /\ IF nonce = Nil THEN SubmitState(request) ELSE RequestCreation(request, nonce)

\* Deposit, Transfer, Acknowledge and CloseHomeChannel.  A channel to create
\* is on the chain of the caller, the one it has set or the suggested one.
Propose(asset, type, peer) ==
  LET seen == GetLatestState(asset, FALSE)
      cur == IF seen = Error THEN NewVoidState(asset, User) ELSE seen
      next == NextState(cur)
  IN  /\ IF cur.homeChannelId # Nil
         THEN /\ type = "home_deposit" =>
                   \E chain \in ChainIds : getTokenAddress(asset, chain) # Error
              /\ next.homeChannelId # Nil
              /\ SignAndSend(cur, AppliedByUser(next, type, peer), Nil)
         ELSE /\ type # "finalize"
              /\ \E chain \in ChainIds, nonce \in Nonces :
                   LET token == getTokenAddress(asset, chain)
                       opened == ApplyChannelCreation(next, nonce, chain, token)
                   IN  /\ token # Error
                       /\ SignAndSend(cur, AppliedByUser(opened, type, peer), nonce)
      /\ cache' = Cached
      /\ UNCHANGED <<symbol, assets, scheduled, hub, events>>

Deposit(asset) == Propose(asset, "home_deposit", Nil)

Transfer(asset) == Propose(asset, "transfer_send", Peer)

Acknowledge(asset) == Propose(asset, "acknowledgement", Nil)

CloseHomeChannel(asset) == Propose(asset, "finalize", Nil)

\* A client of its own making that deposits to a channel the node has never
\* heard of, when the next state has none.
SubmitToUnknownChannel(channelId, t) ==
  LET cur == CurrentState(symbol, ToLower(User))
      next == NextState(cur)
      base == [next EXCEPT !.homeChannelId = channelId,
                           !.homeLedger.blockchainId = t.blockchainId,
                           !.homeLedger.tokenAddress = t.address]
      p == AppliedByUser(base, "home_deposit", Nil)
  IN  /\ cur # Error /\ next.homeChannelId = Nil
      /\ \A c \in channels : ~EqualFold(c.channelId, channelId)
      /\ SubmitState(transformStateToRPC([p EXCEPT !.userSig = PackState(p, t.decimals)]))
      /\ UNCHANGED <<symbol, assets, scheduled, cache, hub, events>>

\* Client.Checkpoint of the last co-signed state: Create, Checkpoint or Close.
Checkpoint(asset) ==
  LET s == GetLatestState(asset, TRUE)
      decimals == ClientTokenDecimals(s.homeLedger)
      c == coreStateToContractState(s, decimals)
  IN  /\ s # Error /\ decimals # Error
      /\ c.intent = "DEPOSIT" => CachedTokenAddress(s.homeLedger.blockchainId) # Error
      /\ \E channel \in GetHomeChannel(asset) :
           IF channel.status = "void" /\ c.intent # "CLOSE"
           THEN CreateChannel(HubChannelId(coreDefToContractDef(channel, s.asset)), c)
           ELSE CheckpointChannel(Bytes(s.homeChannelId), c)
      /\ cache' = Cached
      /\ UNCHANGED <<symbol, assets, channelStates, channels, scheduled>>

\* Client.Challenge with a co-signed state the user has kept.
Challenge(row) ==
  LET s == transformState(coreStateToRPC(databaseStateToCore(row)))
      decimals == ClientTokenDecimals(s.homeLedger)
      packed == PackState(s, decimals)
  IN  /\ CoSigned(row) /\ databaseStateToCore(row) # Error
      /\ packed # Error /\ s.userSig = packed /\ s.nodeSig = packed
      /\ ChallengeChannel(Bytes(s.homeChannelId), coreStateToContractState(s, decimals),
                          PackChallengeState(s, decimals))
      /\ cache' = Cached
      /\ UNCHANGED <<symbol, assets, channelStates, channels, scheduled>>

\* A lookup of a symbol the cache has not: every asset is fetched again.
LookUpUnknownAsset ==
  /\ cache' = populateCache
  /\ UNCHANGED <<symbol, assets, channelStates, channels, scheduled, hub, events>>

ClientRestarts ==
  /\ cache' = Nil
  /\ UNCHANGED <<symbol, assets, channelStates, channels, scheduled,
                 hub, events>>

\* The node's worker checkpoints a scheduled state; a finalize is refused.
WorkerCheckpoints(row) ==
  LET s == databaseStateToCore(row)
      decimals == NodeTokenDecimals(s.homeLedger)
      c == coreStateToContractState(s, decimals)
  IN  /\ s # Error /\ decimals # Error /\ c.intent # "CLOSE"
      /\ CheckpointChannel(Bytes(s.homeChannelId), c)
      /\ scheduled' = scheduled \ {row}
      /\ UNCHANGED <<symbol, assets, channelStates, channels, cache>>

-------------------------------------------------------------------------------
Init ==
  /\ symbol \in Symbols
  /\ assets \in {NewMemoryStore(config) : config \in Configs}
  /\ channelStates = {} /\ channels = {} /\ scheduled = {}
  /\ cache = Nil
  /\ hub = [c \in ChannelBytes |-> [status |-> "void", version |-> 0]]
  /\ events = <<>>

Next ==
  \/ \E config \in Configs : NodeRestarts(config)
  \/ ClientRestarts
  \/ LookUpUnknownAsset
  \/ HandleEvent
  \/ \E row \in scheduled : WorkerCheckpoints(row)
  \/ \E row \in channelStates : Challenge(row)
  \/ \E asset \in Symbols : Checkpoint(asset)
  \/ /\ Cardinality(channelStates) < MaxStates
     /\ \/ issueTransferReceiverState
        \/ \E asset \in Symbols :
             Deposit(asset) \/ Transfer(asset) \/ Acknowledge(asset) \/ CloseHomeChannel(asset)
        \/ \E nonce \in Nonces : \E t \in assets :
             SubmitToUnknownChannel(Str(ChannelHash(symbol, nonce), FALSE), t)

Spec == Init /\ [][Next]_vars

-------------------------------------------------------------------------------
(* Properties *)

\* Whatever a party signed, the contract checks: a stored state read back by
\* the node, or by a client over the API, at any later time and with the
\* decimals its own table of assets then gives, converts to the contract's
\* State whose signing data is exactly what the signatures on it are over, and
\* the definition rebuilt from the channel's row, which has lost the asset's
\* spelling, hashes to the channel both signed for.  The spellings, the columns
\* that are not stored, a token replaced in the configuration, and a cache that
\* has missed it make a read or a conversion fail at worst (databaseStateToCore,
\* coreStateToContractState, coreDefToContractDef).
EncodedAsSigned ==
  \A row \in channelStates :
    LET s == databaseStateToCore(row)
        Signed(view, decimals) ==
          LET c == coreStateToContractState(view, decimals)
          IN  {c.userSig, c.nodeSig} \subseteq {Nil, <<SigningData(Bytes(view.homeChannelId), c)>>}
        Encodes(view, decimals) == decimals # Error => Signed(view, decimals)
    IN  s # Error /\ row.homeChannelId # Nil =>
          /\ Encodes(s, NodeTokenDecimals(s.homeLedger))
          /\ LET view == transformState(coreStateToRPC(s))
             IN  Encodes(view, ClientTokenDecimals(view.homeLedger))
          /\ \A channel \in GetHomeChannel(row.asset) :
               channel.channelId = row.homeChannelId =>
                 HubChannelId(coreDefToContractDef(channel, row.asset)) = Bytes(row.homeChannelId)

\* submit_state accepts a state on a channel the node has no row of, when the
\* current state has none and an older channel is still open.  No state ever
\* follows it: what it claims to deposit is never spent, because every path
\* to a next state reads it first and the read fails (databaseStateToCore).
UnknownChannelIsDeadEnd ==
  \A row \in channelStates :
    row.homeChannelId # Nil /\ Joined(row) = {} => \A q \in channelStates : ~Later(q, row)

===============================================================================
