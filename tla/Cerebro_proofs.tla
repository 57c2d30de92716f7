--------------------------- MODULE Cerebro_proofs ---------------------------
(* Session keys, for every set of wallets, keys, grants and bitmaps: the   *)
(* node co-signs only what the hub will accept, and the key that the       *)
(* client holds is one that the node accepts.                              *)
EXTENDS Cerebro, Totals_proofs

-------------------------------------------------------------------------------
(* What the node has co-signed *)

\* Why the hub will accept the signature that the node accepted last.  The
\* node checks it once; nothing it does later, no other key and no expiry takes
\* any of this back.  That the validator is registered comes from the start of
\* the node, before any request.
CoSigned ==
  /\ now \in Nat /\ registeredAt \in Int
  /\ nodeUp => registeredAt # -1
  /\ \/ lastSigned = Nobody
     \/ lastSigned.sig.type = Default /\ lastSigned.sig.by = lastSigned.wallet
     \/ /\ lastSigned.sig.type = SessionKey
        /\ registeredAt # -1
        /\ Bit(lastSigned.approved, SessionKey)
        /\ RecoverAuth(lastSigned.sig) = lastSigned.wallet

\* What RequestCreation and SubmitState check is what the hub will check.
LEMMA CoSignChecks ==
  ASSUME CoSigned, NEW w, NEW a, NEW b, NEW sig, RequestSignature(w, a, b, sig)
  PROVE  CoSigned'
<1>1. UNCHANGED <<now, registeredAt, nodeUp>> /\ nodeUp
  BY DEF RequestSignature, CoSignState, CreationAllowed, SubmitAllowed
<1>2. PICK approved : /\ CoSign(w, a, approved, sig)
                      /\ IsChannelSignerSupported(approved, sig.type)
                      /\ Verify(w, a, sig)
  BY DEF RequestSignature, CoSignState, CreationAllowed, SubmitAllowed
<1>3. /\ lastSigned'.wallet = w /\ lastSigned'.approved = approved
      /\ lastSigned'.sig = sig
  BY <1>2 DEF CoSign
<1>4. \/ sig.type = Default /\ sig.by = w
      \/ sig.type = SessionKey /\ RecoverAuth(sig) = w /\ Bit(approved, SessionKey)
  BY <1>2 DEF Verify, IsChannelSignerSupported, Default, SessionKey
<1>5. (RecoverAuth(lastSigned.sig))' = RecoverAuth(sig)
  BY <1>3 DEF RecoverAuth
<1>6. (Bit(lastSigned.approved, SessionKey))' = Bit(approved, SessionKey)
  BY <1>3
<1> QED
  BY <1>1, <1>3, <1>4, <1>5, <1>6 DEF CoSigned

\* CoSigned holds throughout.
LEMMA CoSignedInvariant == KeySpec => []CoSigned
<1>1. KeyInit => CoSigned
  BY DEF KeyInit, CoSigned
<1>2. CoSigned /\ [KeyNext]_keyVars => CoSigned'
  <2> SUFFICES ASSUME CoSigned, [KeyNext]_keyVars
               PROVE  CoSigned'
    OBVIOUS
  <2>1. CASE RegisterNodeValidator
    BY <2>1 DEF RegisterNodeValidator, CoSigned
  <2>2. CASE StartNode
    BY <2>2 DEF StartNode, CoSigned
  <2>3. CASE Tick
    BY <2>3 DEF Tick, CoSigned
  <2>4. ASSUME NEW w, NEW a, NEW b, NEW sig, RequestSignature(w, a, b, sig)
        PROVE  CoSigned'
    BY <2>4, CoSignChecks
  <2>5. ASSUME NEW w, NEW k, NEW g, RegisterKey(w, k, g[1], g[2])
        PROVE  CoSigned'
    BY <2>5 DEF RegisterKey, CoSigned
  <2>6. CASE UNCHANGED keyVars
    BY <2>6 DEF keyVars, CoSigned
  <2> QED
    BY <2>1, <2>2, <2>3, <2>4, <2>5, <2>6 DEF KeyNext
<1> QED
  BY <1>1, <1>2, PTL DEF KeySpec

\* A state that the node co-signed passes the hub's check of the user's
\* signature, at the latest when the session key validator is active: for every
\* set of wallets, keys, grants and bitmaps, whatever is registered, expires or
\* is superseded in between (ChannelSigValidator.Verify and
\* IsChannelSignerSupported against ChannelHub._validateSignatures).
THEOREM CoSignedIsEnforceable ==
  KeySpec => []SignedStatesAreEnforceable
<1>1. CoSigned => SignedStatesAreEnforceable
  BY SessionKeysAssumption
     DEF CoSigned, SignedStatesAreEnforceable, HubValidates, ValidatorActive
<1> QED
  BY <1>1, CoSignedInvariant, PTL

-------------------------------------------------------------------------------
(* The key that the client signs with *)

\* The node has a row for this delegation, as the wallet signed it.
Delegated(wallet, key, meta) ==
  \E r \in keyRows :
    /\ r.user = wallet /\ r.key = key
    /\ r.metadataHash = meta
    /\ r.version = meta.version /\ r.expires = meta.expires
    /\ r.assets = {Lower[s] : s \in meta.symbols}

\* Versions are naturals with an upper bound, so that there is a last one.
RowsBounded ==
  /\ \A r \in keyRows : r.version \in Nat /\ r.expires \in Int
  /\ \E n \in Nat : \A r \in keyRows : r.version <= n

\* The authorisation in the configuration is of its metadata and of a row; key
\* and wallet may since have been replaced.
StoredIsDelegated ==
  /\ store = [wallet |-> store.wallet, key |-> store.key, meta |-> store.meta,
              auth |-> store.auth]
  /\ store.meta # Nobody /\ store.auth # Nobody =>
       /\ store.auth.meta = store.meta
       /\ Delegated(store.auth.by, store.auth.key, store.meta)

SignerIsDelegated ==
  client # Nobody /\ client.signer.type = SessionKey =>
    /\ client.signer.auth.meta = client.signer.meta
    /\ Delegated(client.signer.auth.by, client.signer.auth.key, client.signer.meta)

\* Where a registration has got to: accepted by the node, then stored.
RegistrationInProgress ==
  /\ cmd.pc \in {"submit", "insert", "activate"} =>
       /\ cmd = [pc |-> cmd.pc, user |-> cmd.user, key |-> cmd.key,
                 version |-> cmd.version, symbols |-> cmd.symbols,
                 expires |-> cmd.expires, auth |-> cmd.auth]
       /\ cmd.version \in Nat /\ cmd.expires \in Int
  /\ cmd.pc \in {"insert", "activate"} => ValidateChannelSessionKeyAuthSig(cmd)
  /\ cmd.pc = "activate" => KeyRow(cmd) \in keyRows

KeysInv ==
  /\ now \in Nat
  /\ RowsBounded
  /\ StoredIsDelegated
  /\ SignerIsDelegated
  /\ RegistrationInProgress

\* GetLastVersion is the highest version of the rows, 0 if there is none.
LEMMA LastVersion ==
  ASSUME RowsBounded, NEW wallet, NEW key
  PROVE  /\ GetLastVersion(wallet, key) \in Nat
         /\ \A r \in RowsOf(wallet, key) : r.version <= GetLastVersion(wallet, key)
<1> DEFINE T == {r.version : r \in RowsOf(wallet, key)} \cup {0}
<1>1. PICK n \in Nat : \A r \in keyRows : r.version <= n
  BY DEF RowsBounded
<1>2. T \subseteq 0..n
  BY <1>1 DEF RowsBounded, RowsOf
<1>3. T # {}
  OBVIOUS
<1> HIDE DEF T
<1>4. \E x \in T : \A y \in T : y <= x
  BY <1>2, <1>3, GreatestNatural
<1>5. \E x \in T : \A y \in T : x >= y
  BY <1>2, <1>4
<1>6. Max(T) \in T /\ \A y \in T : Max(T) >= y
  BY <1>5 DEF Max
<1>7. GetLastVersion(wallet, key) = Max(T)
  BY DEF T, GetLastVersion
<1>8. \A r \in RowsOf(wallet, key) : r.version \in T
  BY DEF T
<1>9. \A y \in T : y \in Nat
  BY <1>2
<1>10. Max(T) \in Nat /\ \A y \in T : y <= Max(T)
  <2> DEFINE m == Max(T)
  <2>1. m \in T /\ \A y \in T : m >= y
    BY <1>6
  <2> HIDE DEF m
  <2>2. m \in Nat /\ \A y \in T : y <= m
    BY <2>1, <1>9
  <2> QED
    BY <2>2 DEF m
<1> QED
  BY <1>7, <1>8, <1>10

\* Rows are only added, so a delegation stays.
LEMMA DelegationStays ==
  ASSUME keyRows \subseteq keyRows', NEW wallet, NEW key, NEW meta,
         Delegated(wallet, key, meta)
  PROVE  Delegated(wallet, key, meta)'
BY DEF Delegated

\* A row is stored with its bound.
LEMMA StoreKeepsBounds ==
  ASSUME RowsBounded, NEW d, d.version \in Nat, d.expires \in Int, StoreKeyState(d)
  PROVE  RowsBounded' /\ keyRows \subseteq keyRows'
<1>1. keyRows \subseteq keyRows' /\ keyRows' \subseteq keyRows \cup {KeyRow(d)}
  BY DEF StoreKeyState
<1>2. KeyRow(d).version = d.version /\ KeyRow(d).expires = d.expires
  BY DEF KeyRow
<1>3. \A r \in keyRows' : r.version \in Nat /\ r.expires \in Int
  BY <1>1, <1>2 DEF RowsBounded
<1>4. PICK n \in Nat : \A r \in keyRows : r.version <= n
  BY DEF RowsBounded
<1>5. /\ n + d.version \in Nat
      /\ \A r \in keyRows' : r.version <= n + d.version
  BY <1>1, <1>2, <1>4 DEF RowsBounded
<1> QED
  BY <1>1, <1>3, <1>5 DEF RowsBounded

\* Time passes and other clients register keys.
LEMMA OthersKeep ==
  ASSUME KeysInv, Others
  PROVE  KeysInv'
<1>1. UNCHANGED cliVars /\ (now' = now + 1 \/ UNCHANGED now)
  BY DEF Others, Tick, RegisterKey
<1>2. RowsBounded' /\ keyRows \subseteq keyRows'
  <2>1. CASE Tick
    BY <2>1 DEF Tick, KeysInv, RowsBounded
  <2>2. ASSUME NEW w \in Wallets, NEW k \in SessionKeys, NEW g \in Grants,
               RegisterKey(w, k, g[1], g[2])
        PROVE  RowsBounded' /\ keyRows \subseteq keyRows'
    <3>1. GetLastVersion(w, k) \in Nat
      BY LastVersion DEF KeysInv
    <3> DEFINE version == GetLastVersion(w, k) + 1
               d == [user |-> w, key |-> k, version |-> version, symbols |-> g[1],
                     expires |-> now + g[2],
                     auth |-> AuthSig(w, k, MetadataHash(version, g[1], now + g[2]))]
    <3>2. StoreKeyState(d)
      BY <2>2 DEF RegisterKey
    <3>3. d.version \in Nat /\ d.expires \in Int
      BY <3>1, SessionKeysAssumption DEF KeysInv
    <3> HIDE DEF d
    <3> QED
      BY <3>2, <3>3, StoreKeepsBounds DEF KeysInv
  <2> QED
    BY <2>1, <2>2 DEF Others
<1>3. StoredIsDelegated'
  BY <1>1, <1>2, DelegationStays DEF KeysInv, StoredIsDelegated, cliVars
<1>4. SignerIsDelegated'
  BY <1>1, <1>2, DelegationStays DEF KeysInv, SignerIsDelegated, cliVars
<1>5. RegistrationInProgress'
  BY <1>1, <1>2 DEF KeysInv, RegistrationInProgress, cliVars,
     ValidateChannelSessionKeyAuthSig, KeyRow
<1>6. now' \in Nat
  BY <1>1 DEF KeysInv
<1> QED
  BY <1>2, <1>3, <1>4, <1>5, <1>6 DEF KeysInv

\* A step of the client alone keeps the invariant if the configuration's
\* authorisation stays a delegated one, the client keeps its signer, loses it
\* or takes the configuration's, and no registration starts or goes on.
LEMMA ClientKeeps ==
  ASSUME KeysInv, UNCHANGED <<now, keyRows>>, StoredIsDelegated',
         \/ UNCHANGED client
         \/ client' = Nobody
         \/ client'.signer = BuildStateSigner
         \/ client'.signer.type = Default,
         UNCHANGED cmd \/ cmd'.pc \in {"idle", "connect"}
  PROVE  KeysInv'
<1>1. now' \in Nat /\ RowsBounded'
  BY DEF KeysInv, RowsBounded, keyVars
<1>2. RegistrationInProgress'
  BY DEF KeysInv, RegistrationInProgress, keyVars, ValidateChannelSessionKeyAuthSig, KeyRow
<1>3. keyRows \subseteq keyRows'
  BY DEF keyVars
<1>4. SignerIsDelegated'
  <2>1. CASE UNCHANGED client
    BY <2>1, <1>3, DelegationStays DEF KeysInv, SignerIsDelegated
  <2>2. CASE client' = Nobody
    BY <2>2 DEF SignerIsDelegated
  <2>3. CASE client'.signer.type = Default
    BY <2>3 DEF SignerIsDelegated, Default, SessionKey
  <2>4. CASE client'.signer = BuildStateSigner
    <3>1. CASE client'.signer = DefaultSig(store.wallet)
      BY <3>1 DEF SignerIsDelegated, DefaultSig, Default, SessionKey
    <3>2. CASE /\ Nobody \notin {store.key, store.meta, store.auth}
               /\ client'.signer = SessionKeySig(store.key, store.meta, store.auth)
      <4>1. client'.signer.meta = store.meta /\ client'.signer.auth = store.auth
        BY <3>2 DEF SessionKeySig
      <4>2. /\ store.auth.meta = store.meta
            /\ Delegated(store.auth.by, store.auth.key, store.meta)
        BY <3>2 DEF KeysInv, StoredIsDelegated
      <4> QED
        BY <4>1, <4>2, <1>3 DEF SignerIsDelegated, Delegated
    <3> QED
      BY <2>4, <3>1, <3>2 DEF BuildStateSigner
  <2> QED
    BY <2>1, <2>2, <2>3, <2>4
<1> QED
  BY <1>1, <1>2, <1>4 DEF KeysInv

\* Losing the client, with the process or for a new one.
LEMMA ClientLost ==
  ASSUME Die \/ Reconnect
  PROVE  client' = Nobody /\ cmd'.pc \in {"idle", "connect"}
BY DEF Die, Reconnect, Idle

\* The registration of a key: what the client signs,
LEMMA RegisterKeeps ==
  ASSUME KeysInv, NEW k, NEW symbols, NEW lifetime \in Nat,
         RegisterChannelKey(k, symbols, lifetime)
  PROVE  KeysInv'
<1>1. UNCHANGED <<keyVars, store, client>>
  BY DEF RegisterChannelKey
<1>2. now' \in Nat /\ RowsBounded' /\ StoredIsDelegated' /\ SignerIsDelegated'
  BY <1>1 DEF KeysInv, RowsBounded, StoredIsDelegated, SignerIsDelegated, Delegated, keyVars
<1>3. PICK version \in {1, GetLastVersion(store.wallet, k) + 1} :
        cmd' = [pc |-> "submit", user |-> store.wallet, key |-> k,
                version |-> version, symbols |-> symbols, expires |-> now + lifetime,
                auth |-> AuthSig(client.wallet, k,
                                 MetadataHash(version, symbols, now + lifetime))]
  BY DEF RegisterChannelKey
<1>4. version \in Nat /\ now + lifetime \in Int
  BY LastVersion DEF KeysInv
<1>5. RegistrationInProgress'
  BY <1>3, <1>4 DEF RegistrationInProgress
<1> QED
  BY <1>2, <1>5 DEF KeysInv

\* what the node checks,
LEMMA SubmitKeeps ==
  ASSUME KeysInv, SubmitSessionKeyState
  PROVE  KeysInv'
<1>1. UNCHANGED <<keyVars, store, client>>
  BY DEF SubmitSessionKeyState
<1>2. now' \in Nat /\ RowsBounded' /\ StoredIsDelegated' /\ SignerIsDelegated'
  BY <1>1 DEF KeysInv, RowsBounded, StoredIsDelegated, SignerIsDelegated, Delegated, keyVars
<1>3. RegistrationInProgress'
  <2>1. CASE cmd' = Idle
    BY <2>1 DEF RegistrationInProgress, Idle
  <2>2. CASE cmd' = [cmd EXCEPT !.pc = "insert"] /\ DelegationValid(cmd)
    <3>1. /\ cmd.pc = "submit"
          /\ cmd = [pc |-> cmd.pc, user |-> cmd.user, key |-> cmd.key,
                    version |-> cmd.version, symbols |-> cmd.symbols,
                    expires |-> cmd.expires, auth |-> cmd.auth]
          /\ cmd.version \in Nat /\ cmd.expires \in Int
      BY DEF SubmitSessionKeyState, KeysInv, RegistrationInProgress
    <3>2. cmd' = [pc |-> "insert", user |-> cmd.user, key |-> cmd.key,
                  version |-> cmd.version, symbols |-> cmd.symbols,
                  expires |-> cmd.expires, auth |-> cmd.auth]
      BY <2>2, <3>1
    <3>3. ValidateChannelSessionKeyAuthSig(cmd)
      BY <2>2 DEF DelegationValid
    <3> QED
      BY <3>1, <3>2, <3>3 DEF RegistrationInProgress, ValidateChannelSessionKeyAuthSig
  <2> QED
    BY <2>1, <2>2 DEF SubmitSessionKeyState
<1> QED
  BY <1>2, <1>3 DEF KeysInv

\* what it stores
LEMMA InsertKeeps ==
  ASSUME KeysInv, InsertSessionKeyState
  PROVE  KeysInv'
<1>1. /\ UNCHANGED <<now, store, client>> /\ StoreKeyState(cmd)
      /\ \/ RowFits(cmd) /\ cmd' = [cmd EXCEPT !.pc = "activate"]
         \/ cmd' = Idle
  BY DEF InsertSessionKeyState
<1>2. /\ cmd = [pc |-> cmd.pc, user |-> cmd.user, key |-> cmd.key,
                version |-> cmd.version, symbols |-> cmd.symbols,
                expires |-> cmd.expires, auth |-> cmd.auth]
      /\ cmd.version \in Nat /\ cmd.expires \in Int
      /\ ValidateChannelSessionKeyAuthSig(cmd)
  BY DEF InsertSessionKeyState, KeysInv, RegistrationInProgress
<1>3. RowsBounded' /\ keyRows \subseteq keyRows'
  BY <1>1, <1>2, StoreKeepsBounds DEF KeysInv
<1>4. now' \in Nat /\ StoredIsDelegated' /\ SignerIsDelegated'
  BY <1>1, <1>3 DEF KeysInv, StoredIsDelegated, SignerIsDelegated, Delegated
<1>5. RegistrationInProgress'
  <2>1. CASE cmd' = Idle
    BY <2>1 DEF RegistrationInProgress, Idle
  <2>2. CASE RowFits(cmd) /\ cmd' = [cmd EXCEPT !.pc = "activate"]
    <3>1. cmd' = [pc |-> "activate", user |-> cmd.user, key |-> cmd.key,
                  version |-> cmd.version, symbols |-> cmd.symbols,
                  expires |-> cmd.expires, auth |-> cmd.auth]
      BY <2>2, <1>2
    <3>2. KeyRow(cmd) \in keyRows'
      BY <1>1, <2>2 DEF StoreKeyState
    <3>3. KeyRow(cmd)' = KeyRow(cmd)
      BY <3>1 DEF KeyRow
    <3>4. ValidateChannelSessionKeyAuthSig(cmd)'
      BY <3>1, <1>2 DEF ValidateChannelSessionKeyAuthSig
    <3> QED
      BY <3>1, <3>2, <3>3, <3>4, <1>2 DEF RegistrationInProgress
  <2> QED
    BY <1>1, <2>1, <2>2
<1> QED
  BY <1>3, <1>4, <1>5 DEF KeysInv

\* and what the client keeps of it.
LEMMA ActivateKeeps ==
  ASSUME KeysInv, ActivateSessionKey
  PROVE  KeysInv'
<1> DEFINE meta == MetadataHash(cmd.version, cmd.symbols, cmd.expires)
<1>1. UNCHANGED keyVars
  BY DEF ActivateSessionKey
<1>2. CASE store.key # cmd.key
  <2>1. UNCHANGED <<store, client>> /\ cmd' = Idle
    BY <1>2 DEF ActivateSessionKey
  <2>2. StoredIsDelegated'
    BY <1>1, <2>1 DEF KeysInv, StoredIsDelegated, Delegated, keyVars
  <2> QED
    BY <1>1, <2>1, <2>2, ClientKeeps DEF Idle, keyVars
<1>3. CASE store.key = cmd.key
  <2>1. store' = [store EXCEPT !.auth = cmd.auth, !.meta = meta] /\ Reconnect
    BY <1>3 DEF ActivateSessionKey
  <2>2. client' = Nobody /\ cmd'.pc \in {"idle", "connect"}
    BY <2>1, ClientLost
  <2>3. store = [wallet |-> store.wallet, key |-> store.key, meta |-> store.meta,
                 auth |-> store.auth]
    BY DEF KeysInv, StoredIsDelegated
  <2>4. store' = [wallet |-> store.wallet, key |-> store.key, meta |-> meta,
                  auth |-> cmd.auth]
    BY <2>1, <2>3
  <2>5. cmd.auth = AuthSig(cmd.user, cmd.key, meta) /\ KeyRow(cmd) \in keyRows'
    BY <1>1 DEF ActivateSessionKey, KeysInv, RegistrationInProgress,
       ValidateChannelSessionKeyAuthSig, keyVars
  <2>6. /\ store'.auth.by = cmd.user /\ store'.auth.key = cmd.key
        /\ store'.auth.meta = meta /\ store'.meta = meta
    BY <2>4, <2>5 DEF AuthSig
  <2>7. /\ meta.version = cmd.version /\ meta.symbols = cmd.symbols
        /\ meta.expires = cmd.expires
    BY DEF MetadataHash
  <2>8. /\ KeyRow(cmd).user = cmd.user /\ KeyRow(cmd).key = cmd.key
        /\ KeyRow(cmd).version = cmd.version /\ KeyRow(cmd).expires = cmd.expires
        /\ KeyRow(cmd).assets = {Lower[s] : s \in cmd.symbols}
        /\ KeyRow(cmd).metadataHash = meta
    BY DEF KeyRow
  <2> HIDE DEF meta
  <2>9. Delegated(store.auth.by, store.auth.key, store.meta)'
    BY <2>5, <2>6, <2>7, <2>8 DEF Delegated
  <2>10. StoredIsDelegated'
    BY <2>4, <2>6, <2>9 DEF StoredIsDelegated
  <2> QED
    BY <1>1, <2>2, <2>10, ClientKeeps DEF keyVars
<1> QED
  BY <1>2, <1>3

\* The other steps change at most the wallet or the key of the configuration,
\* or clear its authorisation.
StoreKept ==
  \/ UNCHANGED store
  \/ \E w : store' = [store EXCEPT !.wallet = w]
  \/ \E k : store' = [store EXCEPT !.key = k]
  \/ store' = [store EXCEPT !.key = Nobody, !.meta = Nobody, !.auth = Nobody]

\* What the configuration file says of a delegation stays true while the
\* node's keys stay.
LEMMA StoredStays ==
  ASSUME KeysInv, UNCHANGED <<now, keyRows>>, StoreKept
  PROVE  StoredIsDelegated'
<1>1. store = [wallet |-> store.wallet, key |-> store.key, meta |-> store.meta,
               auth |-> store.auth]
  BY DEF KeysInv, StoredIsDelegated
<1>2. CASE UNCHANGED store
  BY <1>2 DEF KeysInv, StoredIsDelegated, Delegated, keyVars
<1>3. ASSUME NEW w, store' = [store EXCEPT !.wallet = w]
      PROVE  StoredIsDelegated'
  <2>1. store' = [wallet |-> w, key |-> store.key, meta |-> store.meta, auth |-> store.auth]
    BY <1>1, <1>3
  <2> QED
    BY <2>1 DEF KeysInv, StoredIsDelegated, Delegated, keyVars
<1>4. ASSUME NEW k, store' = [store EXCEPT !.key = k]
      PROVE  StoredIsDelegated'
  <2>1. store' = [wallet |-> store.wallet, key |-> k, meta |-> store.meta, auth |-> store.auth]
    BY <1>1, <1>4
  <2> QED
    BY <2>1 DEF KeysInv, StoredIsDelegated, Delegated, keyVars
<1>5. CASE store' = [store EXCEPT !.key = Nobody, !.meta = Nobody, !.auth = Nobody]
  <2>1. store' = [wallet |-> store.wallet, key |-> Nobody, meta |-> Nobody, auth |-> Nobody]
    BY <1>1, <1>5
  <2> QED
    BY <2>1 DEF StoredIsDelegated
<1> QED
  BY <1>2, <1>3, <1>4, <1>5 DEF StoreKept

\* The commands and the goroutines that take no part in a registration.
LEMMA CommandsKeep ==
  ASSUME KeysInv,
         \/ Launch \/ LoseConnection \/ MainEnds \/ Connect
         \/ \E i \in monitors : Monitor(i)
         \/ \E w \in Wallets : ImportWallet(w)
         \/ SetEndpoint
         \/ \E k \in SessionKeys : StoreSessionKey(k)
         \/ ClearSessionKey
         \/ Query
         \/ \E a \in Assets : SignState(a)
         \/ Exit
  PROVE  KeysInv'
<1>1. UNCHANGED <<now, keyRows>>
  BY DEF keyVars, Launch, LoseConnection, MainEnds, Connect, Monitor, ImportWallet, SetEndpoint,
     StoreSessionKey, ClearSessionKey, Query, SignState, CallClient, Exit
<1>2. StoreKept
  BY DEF StoreKept, Launch, LoseConnection, MainEnds, Connect, Monitor, ImportWallet,
     SetEndpoint, StoreSessionKey, ClearSessionKey, Query, SignState, CallClient, Exit
<1>3. StoredIsDelegated'
  BY <1>1, <1>2, StoredStays
<1>4. CASE Launch
  <2>1. UNCHANGED cmd
    BY <1>4 DEF Launch
  <2>2. \/ UNCHANGED client
        \/ client'.signer = BuildStateSigner
        \/ client'.signer.type = Default
    BY <1>4 DEF Launch, NewClient, DefaultSig
  <2> QED
    BY <1>1, <1>3, <2>1, <2>2, ClientKeeps
<1>5. CASE Connect
  <2>1. cmd'.pc = "idle"
    BY <1>5 DEF Connect, Idle
  <2>2. UNCHANGED client \/ client'.signer = BuildStateSigner
    BY <1>5 DEF Connect, NewClient
  <2> QED
    BY <1>1, <1>3, <2>1, <2>2, ClientKeeps
<1>6. CASE LoseConnection \/ \E i \in monitors : Monitor(i)
  <2>1. UNCHANGED <<client, cmd>>
    BY <1>6 DEF LoseConnection, Monitor
  <2> QED
    BY <1>1, <1>3, <2>1, ClientKeeps
<1>7. CASE \/ \E w \in Wallets : ImportWallet(w)
           \/ MainEnds \/ SetEndpoint \/ ClearSessionKey
  <2>1. Die \/ Reconnect
    BY <1>7 DEF MainEnds, ImportWallet, SetEndpoint, ClearSessionKey
  <2> QED
    BY <1>1, <1>3, <2>1, ClientLost, ClientKeeps
<1>8. CASE \/ \E k \in SessionKeys : StoreSessionKey(k)
           \/ Query
           \/ \E a \in Assets : SignState(a)
           \/ Exit
  <2>1. Die \/ UNCHANGED <<client, cmd>>
    BY <1>8 DEF StoreSessionKey, Query, SignState, CallClient, Exit, procVars
  <2> QED
    BY <1>1, <1>3, <2>1, ClientLost, ClientKeeps
<1> QED
  BY <1>4, <1>5, <1>6, <1>7, <1>8

\* The invariant of the client, its file and the registered keys holds
\* throughout.
LEMMA KeysInvariant ==
  CerebroSpec => []KeysInv
<1>1. CerebroInit => KeysInv
  BY DEF CerebroInit, NodeRuns, CliInit, Idle, KeysInv, RowsBounded, StoredIsDelegated,
     SignerIsDelegated, RegistrationInProgress
<1>2. KeysInv /\ [CerebroNext]_cerebroVars => KeysInv'
  <2> SUFFICES ASSUME KeysInv, [CerebroNext]_cerebroVars
               PROVE  KeysInv'
    OBVIOUS
  <2>1. CASE UNCHANGED cerebroVars
    BY <2>1 DEF cerebroVars, keyVars, cliVars, KeysInv, RowsBounded, StoredIsDelegated,
       SignerIsDelegated, RegistrationInProgress, Delegated,
       ValidateChannelSessionKeyAuthSig, KeyRow
  <2>2. CASE Others
    BY <2>2, OthersKeep
  <2>3. ASSUME NEW k \in SessionKeys, NEW g \in Grants, RegisterChannelKey(k, g[1], g[2])
        PROVE  KeysInv'
    BY <2>3, RegisterKeeps, SessionKeysAssumption
  <2> QED
    BY <2>1, <2>2, <2>3, SubmitKeeps, InsertKeeps, ActivateKeeps, CommandsKeep
       DEF CerebroNext, Command, CommandStep
<1> QED
  BY <1>1, <1>2, PTL DEF CerebroSpec

\* The node accepts the session key that the client signs with, for every asset
\* the user asked for, until the key expires or is superseded: for every set of
\* wallets, keys and grants, and however registrations, lost answers,
\* reconnections and restarts of the client interleave (createChannelSessionKey,
\* buildStateSigner, ValidateChannelSessionKeyForAsset).
THEOREM HeldKeySigns ==
  CerebroSpec => []ActiveKeySigns
<1>1. KeysInv => ActiveKeySigns
  <2> SUFFICES ASSUME KeysInv, client # Nobody, client.signer.type = SessionKey,
                      client.signer.auth.by = client.wallet,
                      client.signer.auth.key = client.signer.by,
                      ~(client.signer.meta.expires <= now),
                      ~(GetLastVersion(client.wallet, client.signer.by)
                          > client.signer.meta.version),
                      NEW s \in client.signer.meta.symbols
               PROVE  Verify(client.wallet, Lower[s], client.signer)
    BY DEF ActiveKeySigns
  <2> DEFINE sig == client.signer
             w == client.wallet
             last == GetLastVersion(w, sig.by)
  <2>1. sig.auth.meta = sig.meta /\ Delegated(w, sig.by, sig.meta)
    BY DEF KeysInv, SignerIsDelegated
  <2>2. RecoverAuth(sig) = w
    BY <2>1 DEF RecoverAuth
  <2>3. PICK r \in keyRows :
          /\ r.user = w /\ r.key = sig.by
          /\ r.metadataHash = sig.meta
          /\ r.version = sig.meta.version /\ r.expires = sig.meta.expires
          /\ r.assets = {Lower[t] : t \in sig.meta.symbols}
    BY <2>1 DEF Delegated
  <2>4. r \in RowsOf(w, sig.by)
    BY <2>3 DEF RowsOf
  <2>5. last \in Nat /\ r.version <= last
    BY <2>4, LastVersion DEF KeysInv
  <2>6. r.version \in Nat /\ r.expires \in Int /\ now \in Nat
    BY DEF KeysInv, RowsBounded
  <2>7. r.version = last
    BY <2>3, <2>5, <2>6
  <2>8. r.expires > now
    BY <2>3, <2>6
  <2>9. Lower[s] \in r.assets
    BY <2>3
  <2> QED
    BY <2>2, <2>3, <2>4, <2>7, <2>8, <2>9
       DEF Verify, ValidateChannelSessionKeyForAsset
<1> QED
  BY <1>1, KeysInvariant, PTL
=============================================================================
