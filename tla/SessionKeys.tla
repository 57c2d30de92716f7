---------------------------- MODULE SessionKeys ----------------------------
(* Channel session keys: the registry of delegations the node keeps, the   *)
(* check it makes of the signature on a channel state, and the check the   *)
(* hub makes of the same signature on the chain.                           *)
(*                                                                         *)
(* The hash of a delegation's metadata is the record it hashes and a       *)
(* signature names its maker and what it was made over. The rest of the    *)
(* two handlers that co-sign states is in Node.                            *)
EXTENDS Integers, FiniteSets, FiniteSetsExt

CONSTANTS
  Wallets,          \* user addresses
  SessionKeys,      \* session key addresses
  Symbols,          \* asset symbols as users type them
  Lower,            \* the lower case of a symbol: the asset it names
  Nobody,           \* an address no one holds, or no value at all
  Bitmaps,          \* the approved validators that channel definitions name
  Grants,           \* pairs of symbols and a lifetime asked for a session key
  MaxSessionKeyIDs, \* maxSessionKeyIDs of the handler
  ActivationDelay,  \* VALIDATOR_ACTIVATION_DELAY of the hub
  MaxRows,          \* bound on the delegations registered
  MaxTime           \* bound on the clock

ASSUME SessionKeysAssumption ==
  ActivationDelay \in Nat /\ \A g \in Grants : g[2] \in Nat

VARIABLES
  now,            \* the clock, of the node and of the blocks
  keyRows,        \* channel_session_key_states_v1 with its assets
  channelBitmaps, \* approved_sig_validators of open home channels
  registeredAt,   \* when the hub registered the session key validator, or -1
  nodeUp,         \* the node has started and serves requests
  lastSigned      \* the state the node co-signed last

keyVars == <<now, keyRows, channelBitmaps, registeredAt, nodeUp, lastSigned>>

Assets == {Lower[s] : s \in Symbols}
Malformed == -1

(***************************************************************************)
(* Bitmaps of signature validators                                         *)
(***************************************************************************)
Default == 0
SessionKey == 1
ChannelSignerTypes == {Default, SessionKey}

Bit(mask, i) == (mask \div 2^i) % 2 = 1

SignerTypesToBitmask(types) == SumSet({2^t : t \in types})

BuildSigValidatorsBitmap == SignerTypesToBitmask(ChannelSignerTypes)

\* Mutation: the first bit stands for the session keys.
OffsetSignerSupported(approved, type) ==
  \/ type = Default
  \/ type > 0 /\ approved # Malformed /\ Bit(approved, type - 1)

IsChannelSignerSupported(approved, type) ==
  \/ type = Default
  \/ approved # Malformed /\ Bit(approved, type)

SignerValidatorsSupported(approved) ==
  /\ approved # Malformed
  /\ \A i \in 0..7 :
       Bit(approved, i) => Bit(SignerTypesToBitmask(ChannelSignerTypes), i)

(***************************************************************************)
(* Delegations and signatures                                              *)
(***************************************************************************)
MetadataHash(version, symbols, expires) ==
  [version |-> version, symbols |-> symbols, expires |-> expires]

\* A wallet's signature over a delegation to a key.
AuthSig(wallet, key, meta) == [by |-> wallet, key |-> key, meta |-> meta]

\* Signatures of the default signer and of the session key signer.
DefaultSig(wallet) ==
  [type |-> Default, by |-> wallet, meta |-> Nobody, auth |-> Nobody]
SessionKeySig(key, meta, auth) ==
  [type |-> SessionKey, by |-> key, meta |-> meta, auth |-> auth]

\* The address recovered from an authorisation of a key with some metadata:
\* its maker's, or some other address when it was made over something else.
RecoverAuth(sig) ==
  IF sig.auth.key = sig.by /\ sig.auth.meta = sig.meta THEN sig.auth.by ELSE Nobody

RowsOf(user, key) == {r \in keyRows : r.user = user /\ r.key = key}

GetLastVersion(user, key) == Max({r.version : r \in RowsOf(user, key)} \cup {0})

ValidateChannelSessionKeyForAsset(wallet, key, asset, meta) ==
  \E r \in RowsOf(wallet, key) :
    /\ r.expires > now
    /\ r.metadataHash = meta
    /\ r.version = GetLastVersion(wallet, key)
    /\ asset \in r.assets

\* ChannelSigValidator.Verify, for the wallet and the asset of a state.
Verify(wallet, asset, sig) ==
  \/ sig.type = Default /\ sig.by = wallet
  \/ /\ sig.type = SessionKey
     /\ RecoverAuth(sig) = wallet
     /\ ValidateChannelSessionKeyForAsset(wallet, sig.by, asset, sig.meta)

(***************************************************************************)
(* The hub                                                                 *)
(***************************************************************************)
ValidatorActive == registeredAt # -1 /\ now >= registeredAt + ActivationDelay

\* _validateSignatures of the hub for the user's signature.
HubValidates(approved, wallet, sig) ==
  \/ sig.type = Default /\ sig.by = wallet
  \/ /\ sig.type = SessionKey
     /\ Bit(approved, SessionKey)
     /\ ValidatorActive
     /\ RecoverAuth(sig) = wallet

\* The operator command register-validator.
RegisterNodeValidator ==
  /\ registeredAt = -1
  /\ registeredAt' = now
  /\ UNCHANGED <<now, keyRows, channelBitmaps, nodeUp, lastSigned>>

\* The node starts, which it does only with the validator registered; that
\* the delay is over it does not ask.
StartNode ==
  /\ ~nodeUp
  /\ registeredAt # -1
  /\ nodeUp' = TRUE
  /\ UNCHANGED <<now, keyRows, channelBitmaps, registeredAt, lastSigned>>

(***************************************************************************)
(* The node's handlers                                                     *)
(***************************************************************************)
\* The user authorised the key with this metadata.
ValidateChannelSessionKeyAuthSig(d) ==
  d.auth = AuthSig(d.user, d.key, MetadataHash(d.version, d.symbols, d.expires))

\* What SubmitSessionKeyState checks before its transaction.
DelegationValid(d) ==
  /\ d.version # 0
  /\ d.expires >= now
  /\ Cardinality(d.symbols) <= MaxSessionKeyIDs
  /\ ValidateChannelSessionKeyAuthSig(d)

\* Mutation: the hash is taken over the symbols as they are stored.
KeyRowOfStoredSymbols(d) ==
  [user |-> d.user, key |-> d.key, version |-> d.version,
   assets |-> {Lower[s] : s \in d.symbols}, expires |-> d.expires,
   metadataHash |-> MetadataHash(d.version, {Lower[s] : s \in d.symbols}, d.expires)]

KeyRow(d) ==
  [user |-> d.user, key |-> d.key, version |-> d.version,
   assets |-> {Lower[s] : s \in d.symbols}, expires |-> d.expires,
   metadataHash |-> MetadataHash(d.version, d.symbols, d.expires)]

\* The rows fit: no other row has the user, key and version, and no two
\* symbols are the same asset, which is part of the assets' key.
RowFits(d) ==
  /\ \A r \in RowsOf(d.user, d.key) : r.version # d.version
  /\ \A s, t \in d.symbols : Lower[s] = Lower[t] => s = t

\* StoreChannelSessionKeyState, rolled back when a row does not fit.
StoreKeyState(d) ==
  keyRows' = IF RowFits(d) THEN keyRows \cup {KeyRow(d)} ELSE keyRows

CoSign(wallet, asset, approved, sig) ==
  lastSigned' = [wallet |-> wallet, asset |-> asset, approved |-> approved, sig |-> sig]

\* The checks of RequestCreation that concern signatures.
CreationAllowed(wallet, asset, approved, sig) ==
  /\ nodeUp
  /\ <<wallet, asset>> \notin DOMAIN channelBitmaps
  /\ SignerValidatorsSupported(approved)
  /\ IsChannelSignerSupported(approved, sig.type)
  /\ Verify(wallet, asset, sig)

\* The checks of SubmitState that concern signatures.
SubmitAllowed(wallet, asset, sig) ==
  /\ nodeUp
  /\ <<wallet, asset>> \in DOMAIN channelBitmaps
  /\ IsChannelSignerSupported(channelBitmaps[<<wallet, asset>>], sig.type)
  /\ Verify(wallet, asset, sig)

\* RequestCreation or SubmitState of a state of a wallet, whichever applies.
CoSignState(wallet, asset, approved, sig) ==
  \/ /\ CreationAllowed(wallet, asset, approved, sig)
     /\ channelBitmaps' = [c \in DOMAIN channelBitmaps \cup {<<wallet, asset>>} |->
          IF c = <<wallet, asset>> THEN approved ELSE channelBitmaps[c]]
     /\ CoSign(wallet, asset, approved, sig)
  \/ /\ SubmitAllowed(wallet, asset, sig)
     /\ CoSign(wallet, asset, channelBitmaps[<<wallet, asset>>], sig)
     /\ UNCHANGED channelBitmaps

\* A client of a wallet asks for a signature on its next state.
RequestSignature(wallet, asset, approved, sig) ==
  /\ CoSignState(wallet, asset, approved, sig)
  /\ UNCHANGED <<now, keyRows, registeredAt, nodeUp>>

\* A client of a wallet registers a key, from reading the last version to the
\* insertion of the next one.
RegisterKey(wallet, key, symbols, lifetime) ==
  LET version == GetLastVersion(wallet, key) + 1
      meta == MetadataHash(version, symbols, now + lifetime)
      d == [user |-> wallet, key |-> key, version |-> version, symbols |-> symbols,
            expires |-> now + lifetime, auth |-> AuthSig(wallet, key, meta)]
  IN
  /\ nodeUp
  /\ Cardinality(keyRows) < MaxRows
  /\ DelegationValid(d)
  /\ StoreKeyState(d)
  /\ UNCHANGED <<now, channelBitmaps, registeredAt, nodeUp, lastSigned>>

Tick ==
  /\ now < MaxTime
  /\ now' = now + 1
  /\ UNCHANGED <<keyRows, channelBitmaps, registeredAt, nodeUp, lastSigned>>

\* Before the session key validator is registered and the node started.
KeyInit ==
  /\ now = 0
  /\ keyRows = {}
  /\ channelBitmaps = <<>>
  /\ registeredAt = -1
  /\ nodeUp = FALSE
  /\ lastSigned = Nobody

\* The signatures users can make: each key with each authorisation made so far.
Signatures ==
  {DefaultSig(w) : w \in Wallets} \cup
  {SessionKeySig(k, r.metadataHash, AuthSig(r.user, r.key, r.metadataHash)) :
     k \in SessionKeys, r \in keyRows}

KeyNext ==
  \/ RegisterNodeValidator \/ StartNode \/ Tick
  \/ \E w \in Wallets, a \in Assets, b \in Bitmaps, sig \in Signatures :
       RequestSignature(w, a, b, sig)
  \/ \E w \in Wallets, k \in SessionKeys, g \in Grants : RegisterKey(w, k, g[1], g[2])

KeySpec == KeyInit /\ [][KeyNext]_keyVars

(***************************************************************************)
(* Properties                                                              *)
(***************************************************************************)
\* A state that the node co-signed can be enforced: from the end of the
\* validator's activation delay on, the hub accepts the signature that the
\* node accepted, whatever happened to the key, the channel or the registry
\* since (ChannelSigValidator.Verify, IsChannelSignerSupported and
\* ensureSigValidatorsRegistered against ChannelHub._validateSignatures).
SignedStatesAreEnforceable ==
  \/ lastSigned = Nobody
  \/ HubValidates(lastSigned.approved, lastSigned.wallet, lastSigned.sig)
  \/ /\ lastSigned.sig.type = SessionKey
     /\ registeredAt # -1 /\ now < registeredAt + ActivationDelay
     /\ Bit(lastSigned.approved, SessionKey)
     /\ RecoverAuth(lastSigned.sig) = lastSigned.wallet
=============================================================================
