-------------------------- MODULE ChannelHub_proofs --------------------------
(***************************************************************************)
(* What ChannelHub guarantees for every set of channels, users, tokens and *)
(* co-signed states: type correctness, that a channel locks exactly the    *)
(* allocations of the state last enforced, that states are enforced in the *)
(* order they were signed, that an escrow locks what its state put aside   *)
(* and goes to its owner, that the queue of escrow deposits is sound, and  *)
(* that users pay and receive what their states say.                       *)
(***************************************************************************)
EXTENDS ChannelHub, Totals_proofs, SequenceTheorems

-------------------------------------------------------------------------------
(* Data *)

\* The fields of a state have the types of the Solidity structs.
LEMMA StateFields ==
  ASSUME NEW s \in State
  PROVE  /\ s.version \in Nat /\ s.intent \in StateIntent
         /\ s.homeLedger \in Ledger /\ s.nonHomeLedger \in Ledger
         /\ s.homeLedger.userAllocation \in Nat /\ s.homeLedger.nodeAllocation \in Nat
         /\ s.homeLedger.userNetFlow \in Int /\ s.homeLedger.nodeNetFlow \in Int
         /\ s.nonHomeLedger.userAllocation \in Nat
         /\ s.nonHomeLedger.nodeAllocation \in Nat
BY DEF State, Ledger

\* The two ledgers of a state exchanged make a state.
LEMMA SwapIsState ==
  ASSUME NEW s \in State
  PROVE  SwapLedgers(s) \in State
BY DEF SwapLedgers, State

\* A never-written slot is a state.
LEMMA EmptyIsState == EmptyState \in State
BY DEF EmptyState, EmptyLedger, State, Ledger, StateIntent

\* An escrow of a co-signed state has an id.
LEMMA EscrowIdInRange ==
  ASSUME NEW c \in Channels, NEW s \in Signed[c]
  PROVE  EscrowIdOf(c, s) \in EscrowIds /\ s \in State
BY SignedOK DEF EscrowIdOf, EscrowIds

\* The effects of a candidate are integers.
LEMMA DeltasAreIntegers ==
  ASSUME NEW m \in ChannelMeta, NEW s \in State
  PROVE  /\ userFundsDelta(m, s) \in Int
         /\ nodeFundsDelta(m, s) \in Int
         /\ expectedLocked(m, s) \in Int
<1>1. m.lastState \in State /\ m.lockedFunds \in Nat
  BY DEF ChannelMeta
<1>2. UserNfDelta(m, s) \in Int /\ NodeNfDelta(m, s) \in Int
  BY <1>1, StateFields DEF UserNfDelta, NodeNfDelta
<1>3. s.homeLedger.nodeAllocation \in Int
  BY StateFields
<1>4. userFundsDelta(m, s) \in Int
  BY <1>2 DEF userFundsDelta
<1>5. nodeFundsDelta(m, s) \in Int
  BY <1>2, <1>3 DEF nodeFundsDelta
<1> QED
  BY <1>1, <1>4, <1>5 DEF expectedLocked

\* A new status is a status.
LEMMA NewStatusType ==
  ASSUME NEW m, NEW s
  PROVE  newStatus(m, s) \in {"CLOSED", "MIGRATING_IN", "MIGRATED_OUT", "OPERATING"}
BY DEF newStatus

\* The record that _applyEffects leaves is well typed.
LEMMA EnforcedMetaType ==
  ASSUME NEW m \in ChannelMeta, NEW s \in State, expectedLocked(m, s) >= 0
  PROVE  EnforcedMeta(m, s) \in ChannelMeta
<1>1. expectedLocked(m, s) \in Nat
  BY DeltasAreIntegers
<1>2. newStatus(m, s) \in ChannelStatus
  BY NewStatusType DEF ChannelStatus
<1> QED
  BY <1>1, <1>2 DEF EnforcedMeta, ChannelMeta

-------------------------------------------------------------------------------
(* Moving funds *)

BalancesOK ==
  /\ reclaims \in [Accounts -> [Tokens -> Nat]]
  /\ wallet \in [Accounts -> [Tokens -> Nat]]
  /\ custody \in [Tokens -> Nat]

\* Adding to or setting one balance keeps a table of balances one.
LEMMA BalanceUpdate ==
  ASSUME NEW f \in [Accounts -> [Tokens -> Nat]], NEW a \in Accounts, NEW t,
         NEW v, t \in Tokens => v \in Nat
  PROVE  [f EXCEPT ![a][t] = v] \in [Accounts -> [Tokens -> Nat]]
<1>1. [f[a] EXCEPT ![t] = v] \in [Tokens -> Nat]
  OBVIOUS
<1> QED
  BY <1>1

\* The same of a table of one account's balances.
LEMMA TokenUpdate ==
  ASSUME NEW f \in [Tokens -> Nat], NEW t, NEW v, t \in Tokens => v \in Nat
  PROVE  [f EXCEPT ![t] = v] \in [Tokens -> Nat]
OBVIOUS

\* Pulling funds keeps balances natural: the token refuses an overdraft.
LEMMA PullFundsType ==
  ASSUME BalancesOK, NEW a \in Accounts, NEW t, NEW amount \in Nat, PullFunds(a, t, amount)
  PROVE  BalancesOK'
<1>1. t \in Tokens => wallet[a][t] - amount \in Nat /\ custody[t] + amount \in Nat
  BY DEF BalancesOK, PullFunds
<1>2. wallet' \in [Accounts -> [Tokens -> Nat]]
  BY <1>1, BalanceUpdate DEF BalancesOK, PullFunds
<1>3. custody' \in [Tokens -> Nat]
  BY <1>1, TokenUpdate DEF BalancesOK, PullFunds
<1> QED
  BY <1>2, <1>3 DEF BalancesOK, PullFunds

\* Pushing funds keeps balances natural, whether the transfer succeeds or not.
LEMMA PushFundsType ==
  ASSUME BalancesOK, NEW a \in Accounts, NEW t, NEW amount \in Nat,
         NonRevertingPushFunds(a, t, amount)
  PROVE  BalancesOK'
<1>1. CASE /\ MayTransfer(a, t, amount)
           /\ wallet' = [wallet EXCEPT ![a][t] = @ + amount]
           /\ custody' = [custody EXCEPT ![t] = @ - amount]
           /\ UNCHANGED reclaims
  <2>1. t \in Tokens => wallet[a][t] + amount \in Nat /\ custody[t] - amount \in Nat
    BY <1>1 DEF BalancesOK, MayTransfer
  <2>2. wallet' \in [Accounts -> [Tokens -> Nat]]
    BY <1>1, <2>1, BalanceUpdate DEF BalancesOK
  <2>3. custody' \in [Tokens -> Nat]
    BY <1>1, <2>1, TokenUpdate DEF BalancesOK
  <2> QED
    BY <1>1, <2>2, <2>3 DEF BalancesOK
<1>2. CASE /\ reclaims' = [reclaims EXCEPT ![a][t] = @ + amount]
           /\ UNCHANGED <<wallet, custody>>
  <2>1. t \in Tokens => reclaims[a][t] + amount \in Nat
    BY DEF BalancesOK
  <2>2. reclaims' \in [Accounts -> [Tokens -> Nat]]
    BY <1>2, <2>1, BalanceUpdate DEF BalancesOK
  <2> QED
    BY <1>2, <2>2 DEF BalancesOK
<1> QED
  BY <1>1, <1>2 DEF NonRevertingPushFunds

\* So does moving the user's share of a transition.
LEMMA MoveUserFundsType ==
  ASSUME BalancesOK, NEW u \in Accounts, NEW t, NEW delta \in Int, MoveUserFunds(u, t, delta)
  PROVE  BalancesOK'
<1>1. CASE delta >= 0 /\ PullFunds(u, t, delta)
  BY <1>1, PullFundsType
<1>2. CASE delta < 0 /\ NonRevertingPushFunds(u, t, -delta)
  BY <1>2, PushFundsType
<1> QED
  BY <1>1, <1>2 DEF MoveUserFunds

\* The final payments of a unilateral closure never overdraw the hub.
LEMMA PayAllocationsType ==
  ASSUME BalancesOK, NEW u \in Users, NEW t, NEW x \in Nat, NEW y \in Nat,
         PayAllocations(u, t, x, y)
  PROVE  BalancesOK'
<1>1. PICK toUser \in {0, x}, toNode \in {0, y} :
        /\ toUser # 0 => MayTransfer(u, t, toUser)
        /\ toNode # 0 => MayTransfer(NODE, t, toUser + toNode)
        /\ wallet' = [wallet EXCEPT ![u][t] = @ + toUser, ![NODE][t] = @ + toNode]
        /\ custody' = [custody EXCEPT ![t] = @ - (toUser + toNode)]
        /\ reclaims' = [reclaims EXCEPT ![u][t] = @ + (x - toUser),
                                        ![NODE][t] = @ + (y - toNode)]
  BY DEF PayAllocations
<1>2. u \in Accounts /\ NODE \in Accounts /\ u # NODE
  BY ConstantsOK DEF Accounts
<1>3. t \in Tokens => custody[t] - (toUser + toNode) \in Nat
  BY <1>1 DEF MayTransfer, BalancesOK
<1>4. toUser \in Nat /\ toNode \in Nat /\ x - toUser \in Nat /\ y - toNode \in Nat
  OBVIOUS
<1>5. ASSUME NEW f \in [Accounts -> [Tokens -> Nat]], NEW p \in Nat, NEW q \in Nat
      PROVE  [f EXCEPT ![u][t] = @ + p, ![NODE][t] = @ + q] \in [Accounts -> [Tokens -> Nat]]
  <2> DEFINE g == [f EXCEPT ![u][t] = f[u][t] + p]
  <2>1. g \in [Accounts -> [Tokens -> Nat]]
    BY <1>2, BalanceUpdate
  <2> HIDE DEF g
  <2>2. [g EXCEPT ![NODE][t] = g[NODE][t] + q] \in [Accounts -> [Tokens -> Nat]]
    BY <1>2, <2>1, BalanceUpdate
  <2> QED
    BY <2>2 DEF g
<1>6. wallet' \in [Accounts -> [Tokens -> Nat]]
  BY <1>1, <1>4, <1>5 DEF BalancesOK
<1>7. reclaims' \in [Accounts -> [Tokens -> Nat]]
  BY <1>1, <1>4, <1>5 DEF BalancesOK
<1>8. custody' \in [Tokens -> Nat]
  BY <1>1, <1>3, TokenUpdate DEF BalancesOK
<1> QED
  BY <1>6, <1>7, <1>8 DEF BalancesOK

-------------------------------------------------------------------------------
(* The purge *)

QueueOK ==
  /\ escrowDeposits \in [EscrowIds -> EscrowDepositMeta]
  /\ escrowDepositIds \in Seq(EscrowIds)
  /\ escrowHead \in 0..Len(escrowDepositIds)
  /\ nodeBalances \in [Tokens -> Nat]

\* A purge stops within the queue, and it passes no entry that blocks it.
LEMMA PurgeEndRange ==
  ASSUME escrowDepositIds \in Seq(EscrowIds), escrowHead \in 0..Len(escrowDepositIds),
         NEW ed, NEW steps \in Nat
  PROVE  /\ PurgeEnd(ed, steps) \in escrowHead..Len(escrowDepositIds)
         /\ \A j \in escrowHead..(PurgeEnd(ed, steps) - 1) : ~BlocksPurge(ed, j)
<1> DEFINE end == IF escrowHead + steps < Len(escrowDepositIds)
                  THEN escrowHead + steps ELSE Len(escrowDepositIds)
           Stops == {i \in escrowHead..end : i = end \/ BlocksPurge(ed, i)}
           Right(i) == /\ i = end \/ BlocksPurge(ed, i)
                       /\ \A j \in escrowHead..(i - 1) : ~BlocksPurge(ed, j)
<1>1. end \in escrowHead..Len(escrowDepositIds) /\ escrowHead \in Nat
  OBVIOUS
<1>2. PICK i \in Stops : \A j \in Stops : i <= j
  <2>1. Stops \subseteq Nat /\ Stops # {}
    BY <1>1
  <2> QED
    BY <2>1, LeastNatural
<1>3. i \in escrowHead..end /\ Right(i)
  BY <1>1, <1>2
<1>4. PurgeEnd(ed, steps) = CHOOSE j \in escrowHead..end : Right(j)
  BY DEF PurgeEnd
<1>5. PurgeEnd(ed, steps) \in escrowHead..end /\ Right(PurgeEnd(ed, steps))
  BY <1>3, <1>4
<1> QED
  BY <1>1, <1>5

\* The ids of escrows are finitely many.
LEMMA EscrowIdsFinite == IsFiniteSet(EscrowIds)
BY ConstantsOK, FS_Product DEF EscrowIds

\* A purge keeps the queue, the escrows and the vault well typed.
LEMMA PurgeType ==
  ASSUME QueueOK, NEW nb \in [Tokens -> Nat], NEW ed \in [EscrowIds -> EscrowDepositMeta],
         NEW steps \in Nat, PurgeEscrowDeposits(nb, ed, steps)
  PROVE  /\ escrowDeposits' \in [EscrowIds -> EscrowDepositMeta]
         /\ nodeBalances' \in [Tokens -> Nat]
         /\ escrowHead' \in 0..Len(escrowDepositIds)
<1>1. \A e \in EscrowIds : finalizedDeposit(ed[e]) \in EscrowDepositMeta
  BY DEF finalizedDeposit, EscrowDepositMeta, EscrowStatus
<1>2. escrowDeposits' \in [EscrowIds -> EscrowDepositMeta]
  BY <1>1 DEF PurgeEscrowDeposits
<1>3. \A e \in EscrowIds : LockedAmounts(ed)[e] \in Nat
  BY DEF LockedAmounts, EscrowDepositMeta
<1>4. ASSUME NEW t \in Tokens
      PROVE  Total(LockedAmounts(ed), Purged(ed, steps) \cap EscrowsIn(ed, t)) \in Nat
  <2> DEFINE S == Purged(ed, steps) \cap EscrowsIn(ed, t)
  <2>1. S \subseteq EscrowIds
    BY DEF EscrowsIn
  <2>2. IsFiniteSet(S)
    BY <2>1, EscrowIdsFinite, FS_Subset
  <2>3. \A e \in S : LockedAmounts(ed)[e] \in Nat
    BY <1>3, <2>1
  <2> HIDE DEF S
  <2>4. Total(LockedAmounts(ed), S) \in Nat
    BY <2>2, <2>3, TotalNat
  <2> QED
    BY <2>4 DEF S
<1>5. nodeBalances' \in [Tokens -> Nat]
  BY <1>4 DEF PurgeEscrowDeposits
<1>6. escrowHead' \in 0..Len(escrowDepositIds)
  BY PurgeEndRange DEF PurgeEscrowDeposits, QueueOK
<1> QED
  BY <1>2, <1>5, <1>6

-------------------------------------------------------------------------------
(* Type correctness *)

\* TypeOK in the parts that the lemmas above are about.
LEMMA TypeOKParts ==
  TypeOK <=> /\ channels \in [Channels -> ChannelMeta]
             /\ userChannels \in [Users -> SUBSET Channels]
             /\ escrowWithdrawals \in [EscrowIds -> EscrowWithdrawalMeta]
             /\ QueueOK /\ BalancesOK /\ now \in Nat
BY DEF TypeOK, QueueOK, BalancesOK

\* The deployment starts well typed.
LEMMA InitTypeOK == Init => TypeOK
<1> SUFFICES ASSUME Init PROVE TypeOK
  OBVIOUS
<1>1. channels \in [Channels -> ChannelMeta]
  BY EmptyIsState DEF Init, ChannelMeta, ChannelStatus
<1>2. escrowDeposits \in [EscrowIds -> EscrowDepositMeta]
  BY EmptyIsState DEF Init, EscrowDepositMeta, EscrowStatus
<1>3. escrowWithdrawals \in [EscrowIds -> EscrowWithdrawalMeta]
  BY EmptyIsState DEF Init, EscrowWithdrawalMeta, EscrowStatus
<1> QED
  BY <1>1, <1>2, <1>3, HubConstantsOK DEF Init, TypeOK

\* Listing and unlisting a channel keeps the users' sets well typed.
LEMMA ListingType ==
  ASSUME TypeOK, NEW c \in Channels,
         ListChannel(c) \/ UnlistChannel(c) \/ UNCHANGED userChannels
  PROVE  userChannels' \in [Users -> SUBSET Channels]
BY DEF TypeOK, ListChannel, UnlistChannel

\* A validated transition moves funds and writes the record without breaking a
\* type: the vault covers what the node adds.
LEMMA ApplyType ==
  ASSUME TypeOK, NEW c \in Channels, NEW s \in State, NEW meta \in ChannelMeta,
         validateTransition(channels[c], s, nodeBalances[s.homeLedger.token], now),
         ApplyTransitionEffects(c, s, meta),
         userChannels' \in [Users -> SUBSET Channels]
  PROVE  TypeOK'
<1> DEFINE t == s.homeLedger.token
           m == channels[c]
           nb == [nodeBalances EXCEPT ![t] = @ - nodeFundsDelta(m, s)]
<1>1. m \in ChannelMeta /\ QueueOK /\ BalancesOK
  BY TypeOKParts
<1>2. userFundsDelta(m, s) \in Int /\ nodeFundsDelta(m, s) \in Int
  BY <1>1, DeltasAreIntegers
<1>3. channels' \in [Channels -> ChannelMeta]
  BY DEF TypeOK, ApplyTransitionEffects
<1>4. User[c] \in Accounts
  BY ConstantsOK DEF Accounts
<1>5. BalancesOK'
  BY <1>1, <1>2, <1>4, MoveUserFundsType DEF ApplyTransitionEffects
<1>6. t \in Tokens => nodeBalances[t] - nodeFundsDelta(m, s) \in Nat
  BY <1>2 DEF TypeOK, validateTransition, validateInvariants
<1>7. nb \in [Tokens -> Nat]
  BY <1>6, TokenUpdate DEF TypeOK
<1>8. PurgeEscrowDeposits(nb, escrowDeposits, MaxDepositEscrowSteps)
  BY DEF ApplyTransitionEffects
<1>9. QueueOK'
  BY <1>1, <1>7, <1>8, PurgeType, HubConstantsOK DEF QueueOK, ApplyTransitionEffects
<1> QED
  BY <1>3, <1>5, <1>9 DEF TypeOK, QueueOK, BalancesOK, ApplyTransitionEffects

\* Enforcing a state, through whichever entry point, keeps the types.
LEMMA EnforceType ==
  ASSUME TypeOK, NEW c \in Channels, NEW s \in State, EnforceState(c, s),
         ListChannel(c) \/ UnlistChannel(c) \/ UNCHANGED userChannels
  PROVE  TypeOK'
<1>1. channels[c] \in ChannelMeta
  BY DEF TypeOK
<1>2. expectedLocked(channels[c], s) >= 0
  BY DEF EnforceState, validateTransition, validateInvariants
<1>3. EnforcedMeta(channels[c], s) \in ChannelMeta
  BY <1>1, <1>2, EnforcedMetaType
<1> QED
  BY <1>3, ApplyType, ListingType DEF EnforceState

\* Every action of ChannelNext keeps the types.
LEMMA ChannelNextType ==
  ASSUME TypeOK, ChannelNext
  PROVE  TypeOK'
<1>1. PICK c \in Channels :
        \/ \E s \in Signed[c] :
             \/ createChannel(c, s) \/ depositToChannel(c, s)
             \/ withdrawFromChannel(c, s) \/ checkpointChannel(c, s)
             \/ \E sender \in Senders : challengeWithNewerState(c, s, sender)
             \/ closeCooperatively(c, s)
             \/ \E sender \in Senders : initiateEscrowDepositOnHome(c, s, sender)
             \/ initiateEscrowWithdrawalOnHome(c, s) \/ finalizeEscrowOnHome(c, s)
             \/ initiateMigration(c, s) \/ finalizeMigration(c, s)
        \/ challengeWithSameVersion(c)
        \/ closeAfterChallenge(c)
  BY DEF ChannelNext
<1>2. channels[c] \in ChannelMeta /\ now \in Nat /\ ChallengeExpiry(c) \in Nat
  BY ConstantsOK DEF TypeOK, ChallengeExpiry
<1>3. ASSUME NEW s \in Signed[c],
             \/ createChannel(c, s) \/ depositToChannel(c, s)
             \/ withdrawFromChannel(c, s) \/ checkpointChannel(c, s)
             \/ closeCooperatively(c, s)
             \/ \E sender \in Senders : initiateEscrowDepositOnHome(c, s, sender)
             \/ initiateEscrowWithdrawalOnHome(c, s) \/ finalizeEscrowOnHome(c, s)
      PROVE  TypeOK'
  <2>1. s \in State
    BY EscrowIdInRange
  <2>2. EnforceState(c, s) /\ (ListChannel(c) \/ UnlistChannel(c) \/ UNCHANGED userChannels)
    BY <1>3 DEF createChannel, depositToChannel, withdrawFromChannel, checkpointChannel,
       closeCooperatively, initiateEscrowDepositOnHome, initiateEscrowWithdrawalOnHome,
       finalizeEscrowOnHome
  <2> QED
    BY <2>1, <2>2, EnforceType
<1>4. ASSUME NEW s \in Signed[c], initiateMigration(c, s) \/ finalizeMigration(c, s)
      PROVE  TypeOK'
  <2>1. s \in State /\ SwapLedgers(s) \in State
    BY EscrowIdInRange, SwapIsState
  <2>2. /\ EnforceState(c, s) \/ EnforceState(c, SwapLedgers(s))
        /\ ListChannel(c) \/ UnlistChannel(c) \/ UNCHANGED userChannels
    BY <1>4 DEF initiateMigration, finalizeMigration
  <2> QED
    BY <2>1, <2>2, EnforceType
<1>5. ASSUME NEW s \in Signed[c], NEW sender \in Senders, challengeWithNewerState(c, s, sender)
      PROVE  TypeOK'
  <2> DEFINE meta == [status |-> "DISPUTED", lastState |-> s,
                      challengeExpireAt |-> ChallengeExpiry(c),
                      lockedFunds |-> expectedLocked(channels[c], s)]
  <2>1. s \in State
    BY EscrowIdInRange
  <2>2. expectedLocked(channels[c], s) \in Nat
    BY <1>2, <1>5, <2>1, DeltasAreIntegers
       DEF challengeWithNewerState, validateTransition, validateInvariants
  <2>3. meta \in ChannelMeta
    BY <1>2, <2>1, <2>2 DEF ChannelMeta, ChannelStatus
  <2>4. /\ validateTransition(channels[c], s, nodeBalances[s.homeLedger.token], now)
        /\ ApplyTransitionEffects(c, s, meta)
        /\ UNCHANGED userChannels
    BY <1>5 DEF challengeWithNewerState
  <2> QED
    BY <2>1, <2>3, <2>4, ApplyType DEF TypeOK
<1>6. CASE challengeWithSameVersion(c)
  <2>1. channels' \in [Channels -> ChannelMeta]
    BY <1>2, <1>6 DEF challengeWithSameVersion, TypeOK, ChannelMeta, ChannelStatus
  <2> QED
    BY <1>6, <2>1 DEF challengeWithSameVersion, TypeOK, queue, funds
<1>7. CASE closeAfterChallenge(c)
  <2>1. channels' \in [Channels -> ChannelMeta]
    BY <1>2, <1>7 DEF closeAfterChallenge, TypeOK, ChannelMeta, ChannelStatus
  <2>2. channels[c].lastState \in State
    BY <1>2 DEF ChannelMeta
  <2>3. BalancesOK'
    BY <1>7, <2>2, StateFields, PayAllocationsType, ConstantsOK, TypeOKParts
       DEF closeAfterChallenge
  <2>4. userChannels' \in [Users -> SUBSET Channels]
    BY <1>7, ListingType DEF closeAfterChallenge
  <2> QED
    BY <1>7, <2>1, <2>3, <2>4 DEF closeAfterChallenge, TypeOK, queue, BalancesOK
<1> QED
  BY <1>1, <1>3, <1>4, <1>5, <1>6, <1>7

\* What each step makes of an escrow's record is a record of its type.
LEMMA EscrowDepositRecords ==
  ASSUME NEW m \in EscrowDepositMeta, NEW s \in State, NEW time \in Nat
  PROVE  /\ m.lockedAmount \in Nat
         /\ initiatedDeposit(m, s, time) \in EscrowDepositMeta
         /\ challengedDeposit(m, time) \in EscrowDepositMeta
         /\ finalizedDeposit(m) \in EscrowDepositMeta
         /\ [finalizedDeposit(m) EXCEPT !.challengeExpireAt = 0] \in EscrowDepositMeta
<1>1. m.lockedAmount \in Nat
  BY DEF EscrowDepositMeta
<1>2. m.lockedAmount + s.nonHomeLedger.userAllocation \in Nat
  BY <1>1, StateFields
<1>3. time + UnlockDelay \in Nat /\ time + EscrowChallengeDuration \in Nat
  BY EscrowDelaysOK
<1>4. initiatedDeposit(m, s, time) \in EscrowDepositMeta
  BY <1>2, <1>3 DEF initiatedDeposit, EscrowDepositMeta, EscrowStatus
<1>5. challengedDeposit(m, time) \in EscrowDepositMeta
  BY <1>3 DEF challengedDeposit, EscrowDepositMeta, EscrowStatus
<1>6. finalizedDeposit(m) \in EscrowDepositMeta
  BY DEF finalizedDeposit, EscrowDepositMeta, EscrowStatus
<1>7. [finalizedDeposit(m) EXCEPT !.challengeExpireAt = 0] \in EscrowDepositMeta
  BY DEF finalizedDeposit, EscrowDepositMeta, EscrowStatus
<1> QED
  BY <1>1, <1>4, <1>5, <1>6, <1>7

\* The same of withdrawals.
LEMMA EscrowWithdrawalRecords ==
  ASSUME NEW m \in EscrowWithdrawalMeta, NEW s \in State, NEW time \in Nat
  PROVE  /\ m.lockedAmount \in Nat
         /\ initiatedWithdrawal(m, s) \in EscrowWithdrawalMeta
         /\ challengedWithdrawal(m, time) \in EscrowWithdrawalMeta
         /\ finalizedWithdrawal(m) \in EscrowWithdrawalMeta
         /\ [finalizedWithdrawal(m) EXCEPT !.challengeExpireAt = 0] \in EscrowWithdrawalMeta
<1>1. m.lockedAmount \in Nat
  BY DEF EscrowWithdrawalMeta
<1>2. m.lockedAmount + s.nonHomeLedger.nodeAllocation \in Nat
  BY <1>1, StateFields
<1>3. time + EscrowChallengeDuration \in Nat
  BY EscrowDelaysOK
<1>4. initiatedWithdrawal(m, s) \in EscrowWithdrawalMeta
  BY <1>2 DEF initiatedWithdrawal, EscrowWithdrawalMeta, EscrowStatus
<1>5. challengedWithdrawal(m, time) \in EscrowWithdrawalMeta
  BY <1>3 DEF challengedWithdrawal, EscrowWithdrawalMeta, EscrowStatus
<1>6. finalizedWithdrawal(m) \in EscrowWithdrawalMeta
  BY DEF finalizedWithdrawal, EscrowWithdrawalMeta, EscrowStatus
<1>7. [finalizedWithdrawal(m) EXCEPT !.challengeExpireAt = 0] \in EscrowWithdrawalMeta
  BY DEF finalizedWithdrawal, EscrowWithdrawalMeta, EscrowStatus
<1> QED
  BY <1>1, <1>4, <1>5, <1>6, <1>7

\* A step that purges after writing the escrow table ed and the vault nb.
LEMMA PurgingStepType ==
  ASSUME TypeOK, NEW nb \in [Tokens -> Nat], NEW ed \in [EscrowIds -> EscrowDepositMeta],
         NEW steps \in Nat, PurgeEscrowDeposits(nb, ed, steps),
         UNCHANGED <<channels, userChannels, now>>,
         escrowDepositIds' = escrowDepositIds
           \/ \E e \in EscrowIds : escrowDepositIds' = Append(escrowDepositIds, e),
         escrowWithdrawals' \in [EscrowIds -> EscrowWithdrawalMeta],
         BalancesOK'
  PROVE  TypeOK'
<1>1. /\ escrowDeposits' \in [EscrowIds -> EscrowDepositMeta]
      /\ nodeBalances' \in [Tokens -> Nat]
      /\ escrowHead' \in 0..Len(escrowDepositIds)
  BY PurgeType, TypeOKParts
<1>2. escrowDepositIds' \in Seq(EscrowIds) /\ Len(escrowDepositIds') >= Len(escrowDepositIds)
  <2>1. escrowDepositIds \in Seq(EscrowIds) /\ Len(escrowDepositIds) \in Nat
    BY DEF TypeOK
  <2>2. CASE escrowDepositIds' = escrowDepositIds
    BY <2>1, <2>2
  <2>3. ASSUME NEW e \in EscrowIds, escrowDepositIds' = Append(escrowDepositIds, e)
        PROVE  escrowDepositIds' \in Seq(EscrowIds)
               /\ Len(escrowDepositIds') >= Len(escrowDepositIds)
    <3>1. /\ Append(escrowDepositIds, e) \in Seq(EscrowIds)
          /\ Len(Append(escrowDepositIds, e)) = Len(escrowDepositIds) + 1
      BY <2>1, AppendProperties
    <3> QED
      BY <2>1, <2>3, <3>1
  <2> QED
    BY <2>2, <2>3
<1>3. escrowHead' \in 0..Len(escrowDepositIds')
  BY <1>1, <1>2 DEF TypeOK
<1> QED
  BY <1>1, <1>2, <1>3 DEF TypeOK, BalancesOK

\* Every action of EscrowNext keeps the types.
LEMMA EscrowNextType ==
  ASSUME TypeOK, EscrowNext
  PROVE  TypeOK'
<1>1. BalancesOK /\ QueueOK /\ now \in Nat /\ MaxDepositEscrowSteps \in Nat
      /\ EscrowChallengeDuration \in Nat /\ UnlockDelay \in Nat
  BY TypeOKParts, HubConstantsOK, EscrowDelaysOK
<1>2. ASSUME NEW e \in EscrowIds
      PROVE  /\ escrowDeposits[e] \in EscrowDepositMeta
             /\ escrowDeposits[e].lockedAmount \in Nat
             /\ escrowWithdrawals[e] \in EscrowWithdrawalMeta
             /\ escrowWithdrawals[e].lockedAmount \in Nat
             /\ e[1] \in Channels /\ User[e[1]] \in Accounts
  BY ConstantsOK DEF TypeOK, EscrowDepositMeta, EscrowWithdrawalMeta, EscrowIds, Accounts
<1>3. ASSUME UNCHANGED <<reclaims, wallet, custody>>
      PROVE  BalancesOK'
  BY <1>1, <1>3 DEF BalancesOK
<1>4. ASSUME NEW c \in Channels, NEW s \in Signed[c], initiateEscrowDeposit(c, s)
      PROVE  TypeOK'
  <2> DEFINE e == EscrowIdOf(c, s)
             ed == [escrowDeposits EXCEPT ![e] = initiatedDeposit(escrowDeposits[e], s, now)]
  <2>1. e \in EscrowIds /\ s \in State /\ s.nonHomeLedger.userAllocation \in Nat
    BY EscrowIdInRange, StateFields
  <2>2. initiatedDeposit(escrowDeposits[e], s, now) \in EscrowDepositMeta
    BY <1>1, <1>2, <2>1, EscrowDepositRecords
  <2>3. ed \in [EscrowIds -> EscrowDepositMeta]
    BY <2>2 DEF TypeOK
  <2>4. BalancesOK'
    BY <1>1, <1>4, <2>1, PullFundsType, ConstantsOK DEF initiateEscrowDeposit, Accounts
  <2> QED
    BY <1>1, <1>4, <2>1, <2>3, <2>4, PurgingStepType DEF initiateEscrowDeposit, TypeOK
<1>5. ASSUME NEW c \in Channels, NEW s \in Signed[c], initiateEscrowWithdrawal(c, s)
      PROVE  TypeOK'
  <2> DEFINE e == EscrowIdOf(c, s)
             t == s.nonHomeLedger.token
             amount == s.nonHomeLedger.nodeAllocation
             nb == [nodeBalances EXCEPT ![t] = @ - amount]
  <2>1. e \in EscrowIds /\ s \in State /\ amount \in Nat
    BY EscrowIdInRange, StateFields
  <2>2. initiatedWithdrawal(escrowWithdrawals[e], s) \in EscrowWithdrawalMeta
    BY <1>1, <1>2, <2>1, EscrowWithdrawalRecords
  <2>3. escrowWithdrawals' \in [EscrowIds -> EscrowWithdrawalMeta]
    BY <1>5, <2>2 DEF TypeOK, initiateEscrowWithdrawal
  <2>4. t \in Tokens => nodeBalances[t] - amount \in Nat
    BY <1>5, <2>1 DEF initiateEscrowWithdrawal, initiateWithdrawalAllowed, TypeOK
  <2>5. nb \in [Tokens -> Nat]
    BY <2>4, TokenUpdate DEF TypeOK
  <2> QED
    BY <1>1, <1>3, <1>5, <2>3, <2>5, PurgingStepType DEF initiateEscrowWithdrawal, TypeOK
<1>6. ASSUME NEW e \in EscrowIds, challengeEscrowDeposit(e)
      PROVE  TypeOK'
  <2>1. challengedDeposit(escrowDeposits[e], now) \in EscrowDepositMeta
    BY <1>1, <1>2, EmptyIsState, EscrowDepositRecords
  <2>2. [escrowDeposits EXCEPT ![e] = challengedDeposit(@, now)]
          \in [EscrowIds -> EscrowDepositMeta]
    BY <2>1 DEF TypeOK
  <2> QED
    BY <1>1, <1>3, <1>6, <2>2, PurgingStepType DEF challengeEscrowDeposit, TypeOK
<1>7. ASSUME NEW e \in EscrowIds, refundEscrowDeposit(e)
      PROVE  TypeOK'
  <2> DEFINE m == escrowDeposits[e]
             n == [finalizedDeposit(m) EXCEPT !.challengeExpireAt = 0]
  <2>1. n \in EscrowDepositMeta
    BY <1>1, <1>2, EmptyIsState, EscrowDepositRecords
  <2>2. [escrowDeposits EXCEPT ![e] = n] \in [EscrowIds -> EscrowDepositMeta]
    BY <2>1 DEF TypeOK
  <2>3. BalancesOK'
    BY <1>1, <1>2, <1>7, PushFundsType DEF refundEscrowDeposit
  <2> QED
    BY <1>1, <1>7, <2>2, <2>3, PurgingStepType DEF refundEscrowDeposit, TypeOK
<1>8. ASSUME NEW e \in EscrowIds, NEW s, finalizeEscrowDeposit(e, s)
      PROVE  TypeOK'
  <2> DEFINE m == escrowDeposits[e]
             nb == [nodeBalances EXCEPT ![EscrowToken(m)] = @ + m.lockedAmount]
  <2>1. finalizedDeposit(m) \in EscrowDepositMeta
    BY <1>1, <1>2, EmptyIsState, EscrowDepositRecords
  <2>2. [escrowDeposits EXCEPT ![e] = finalizedDeposit(m)] \in [EscrowIds -> EscrowDepositMeta]
    BY <2>1 DEF TypeOK
  <2>3. nb \in [Tokens -> Nat]
    <3>1. EscrowToken(m) \in Tokens => nodeBalances[EscrowToken(m)] + m.lockedAmount \in Nat
      BY <1>2 DEF TypeOK
    <3> QED
      BY <3>1, TokenUpdate DEF TypeOK
  <2> QED
    BY <1>1, <1>3, <1>8, <2>2, <2>3, PurgingStepType DEF finalizeEscrowDeposit, TypeOK
<1>9. ASSUME NEW e \in EscrowIds, challengeEscrowWithdrawal(e)
      PROVE  TypeOK'
  <2>1. challengedWithdrawal(escrowWithdrawals[e], now) \in EscrowWithdrawalMeta
    BY <1>1, <1>2, EmptyIsState, EscrowWithdrawalRecords
  <2>2. escrowWithdrawals' \in [EscrowIds -> EscrowWithdrawalMeta]
    BY <1>9, <2>1 DEF TypeOK, challengeEscrowWithdrawal
  <2> QED
    BY <1>1, <1>3, <1>9, <2>2, PurgingStepType DEF challengeEscrowWithdrawal, TypeOK
<1>10. ASSUME NEW e \in EscrowIds, revertEscrowWithdrawal(e)
       PROVE  TypeOK'
  <2> DEFINE m == escrowWithdrawals[e]
             nb == [nodeBalances EXCEPT ![EscrowToken(m)] = @ + m.lockedAmount]
  <2>1. [finalizedWithdrawal(m) EXCEPT !.challengeExpireAt = 0] \in EscrowWithdrawalMeta
    BY <1>1, <1>2, EmptyIsState, EscrowWithdrawalRecords
  <2>2. escrowWithdrawals' \in [EscrowIds -> EscrowWithdrawalMeta]
    BY <1>10, <2>1 DEF TypeOK, revertEscrowWithdrawal
  <2>3. nb \in [Tokens -> Nat]
    <3>1. EscrowToken(m) \in Tokens => nodeBalances[EscrowToken(m)] + m.lockedAmount \in Nat
      BY <1>2 DEF TypeOK
    <3> QED
      BY <3>1, TokenUpdate DEF TypeOK
  <2> QED
    BY <1>1, <1>3, <1>10, <2>2, <2>3, PurgingStepType DEF revertEscrowWithdrawal, TypeOK
<1>11. ASSUME NEW e \in EscrowIds, NEW s, finalizeEscrowWithdrawal(e, s)
       PROVE  TypeOK'
  <2> DEFINE m == escrowWithdrawals[e]
  <2>1. finalizedWithdrawal(m) \in EscrowWithdrawalMeta
    BY <1>1, <1>2, EmptyIsState, EscrowWithdrawalRecords
  <2>2. escrowWithdrawals' \in [EscrowIds -> EscrowWithdrawalMeta]
    BY <1>11, <2>1 DEF TypeOK, finalizeEscrowWithdrawal
  <2>3. BalancesOK'
    BY <1>1, <1>2, <1>11, PushFundsType DEF finalizeEscrowWithdrawal
  <2> QED
    BY <1>1, <1>11, <2>2, <2>3, PurgingStepType DEF finalizeEscrowWithdrawal, TypeOK
<1> QED
  BY <1>4, <1>5, <1>6, <1>7, <1>8, <1>9, <1>10, <1>11 DEF EscrowNext

\* Every action of VaultNext keeps the types.
LEMMA VaultNextType ==
  ASSUME TypeOK, VaultNext
  PROVE  TypeOK'
<1>1. ASSUME NEW a \in Senders, NEW t \in Tokens, NEW amount \in Amounts,
             depositToNode(a, t, amount)
      PROVE  TypeOK'
  <2>1. a \in Accounts /\ amount \in Nat
    BY HubConstantsOK
  <2>2. BalancesOK'
    BY <1>1, <2>1, PullFundsType, TypeOKParts DEF depositToNode
  <2>3. nodeBalances' \in [Tokens -> Nat]
    BY <1>1, <2>1, TokenUpdate DEF depositToNode, TypeOK
  <2> QED
    BY <1>1, <2>2, <2>3 DEF depositToNode, TypeOK, BalancesOK, queue
<1>2. ASSUME NEW t \in Tokens, NEW amount \in Amounts, withdrawFromNode(t, amount)
      PROVE  TypeOK'
  <2>1. amount \in Nat /\ NODE \in Accounts
    BY HubConstantsOK DEF Accounts
  <2>2. /\ nodeBalances[t] - amount \in Nat /\ custody[t] - amount \in Nat
        /\ wallet[NODE][t] + amount \in Nat
    BY <1>2, <2>1 DEF withdrawFromNode, TypeOK
  <2>3. wallet' \in [Accounts -> [Tokens -> Nat]]
    BY <1>2, <2>1, <2>2, BalanceUpdate DEF withdrawFromNode, TypeOK
  <2>4. nodeBalances' \in [Tokens -> Nat] /\ custody' \in [Tokens -> Nat]
    BY <1>2, <2>2, TokenUpdate DEF withdrawFromNode, TypeOK
  <2> QED
    BY <1>2, <2>3, <2>4 DEF withdrawFromNode, TypeOK, queue
<1>3. ASSUME NEW a \in Senders, NEW t \in Tokens, claimFunds(a, t)
      PROVE  TypeOK'
  <2>1. a \in Accounts
    BY HubConstantsOK
  <2>2. wallet[a][t] + reclaims[a][t] \in Nat /\ custody[t] - reclaims[a][t] \in Nat
    BY <1>3, <2>1 DEF claimFunds, TypeOK
  <2>3. wallet' \in [Accounts -> [Tokens -> Nat]] /\ reclaims' \in [Accounts -> [Tokens -> Nat]]
    BY <1>3, <2>1, <2>2, BalanceUpdate DEF claimFunds, TypeOK
  <2>4. custody' \in [Tokens -> Nat]
    BY <1>3, <2>2, TokenUpdate DEF claimFunds, TypeOK
  <2> QED
    BY <1>3, <2>3, <2>4 DEF claimFunds, TypeOK, queue
<1> QED
  BY <1>1, <1>2, <1>3 DEF VaultNext

\* Every step keeps the types.
LEMMA NextTypeOK == TypeOK /\ [Next]_vars => TypeOK'
<1> SUFFICES ASSUME TypeOK, [Next]_vars PROVE TypeOK'
  OBVIOUS
<1>1. CASE ChannelNext
  BY <1>1, ChannelNextType
<1>2. CASE EscrowNext
  BY <1>2, EscrowNextType
<1>3. CASE VaultNext
  BY <1>3, VaultNextType
<1>4. ASSUME NEW steps \in PurgeSteps, purgeEscrowDeposits(steps)
      PROVE  TypeOK'
  BY <1>4, PurgingStepType, HubConstantsOK DEF purgeEscrowDeposits, TypeOK, BalancesOK
<1>5. CASE Tick
  BY <1>5 DEF Tick, TypeOK, queue, funds
<1>6. CASE UNCHANGED vars
  BY <1>6 DEF vars, TypeOK, queue, funds
<1> QED
  BY <1>1, <1>2, <1>3, <1>4, <1>5, <1>6 DEF Next

\* TypeOK of every reachable state, for all constants: in particular no
\* sequence of transactions drives the node's vault, a locked amount or the
\* hub's own token balance below zero.
THEOREM TypeCorrect == Spec => []TypeOK
BY InitTypeOK, NextTypeOK, PTL DEF Spec

-------------------------------------------------------------------------------
(* Locked funds *)

\* LockedMatchesAllocations of one channel record.
LocksItsAllocations(m) ==
  m.lockedFunds =
    IF m.status \in LiveStatus
    THEN m.lastState.homeLedger.userAllocation + m.lastState.homeLedger.nodeAllocation
    ELSE 0

\* Whatever the intent, the record that a validated state leaves locks its
\* allocations: phase 3 of the engine compares the two unless the channel ends.
LEMMA EnforcedLocks ==
  ASSUME NEW m \in ChannelMeta, NEW s \in State, NEW available, NEW time,
         validateTransition(m, s, available, time)
  PROVE  LocksItsAllocations(EnforcedMeta(m, s))
<1> DEFINE n == EnforcedMeta(m, s)
<1>1. n.status = newStatus(m, s) /\ n.lastState = s
  BY DEF EnforcedMeta
<1>2. n.lockedFunds = IF closesChannel(m, s) THEN 0 ELSE expectedLocked(m, s)
  BY DEF EnforcedMeta
<1>3. newStatus(m, s) \in LiveStatus <=> ~closesChannel(m, s)
  BY NewStatusType DEF LiveStatus, closesChannel
<1>4. ~closesChannel(m, s) =>
        s.homeLedger.userAllocation + s.homeLedger.nodeAllocation = expectedLocked(m, s)
  BY DEF validateTransition, validateInvariants
<1> QED
  BY <1>1, <1>2, <1>3, <1>4 DEF LocksItsAllocations

\* A challenge admits no state that ends the channel.
LEMMA ChallengeDoesNotClose ==
  ASSUME NEW c, NEW s, NEW sender, challengeWithNewerState(c, s, sender)
  PROVE  ~closesChannel(channels[c], s)
BY DEF challengeWithNewerState, closesChannel, newStatus

\* Every step on a channel is one of four, whichever function was called.
LEMMA ChannelSteps ==
  ASSUME ChannelNext
  PROVE  \E c \in Channels :
           \/ \E s \in State : \/ EnforceState(c, s)
                               \/ \E sender : challengeWithNewerState(c, s, sender)
           \/ challengeWithSameVersion(c)
           \/ closeAfterChallenge(c)
<1>1. PICK c \in Channels :
        \/ \E s \in Signed[c] :
             \/ \E r \in {s, SwapLedgers(s)} : EnforceState(c, r)
             \/ \E sender \in Senders : challengeWithNewerState(c, s, sender)
        \/ challengeWithSameVersion(c)
        \/ closeAfterChallenge(c)
  BY DEF ChannelNext, createChannel, depositToChannel, withdrawFromChannel,
     checkpointChannel, closeCooperatively, initiateEscrowDepositOnHome,
     initiateEscrowWithdrawalOnHome, finalizeEscrowOnHome, initiateMigration,
     finalizeMigration
<1>2. \A s \in Signed[c] : s \in State /\ SwapLedgers(s) \in State
  BY EscrowIdInRange, SwapIsState
<1> QED
  BY <1>1, <1>2

\* Every step on a channel leaves records that lock their allocations.
LEMMA ChannelNextLocks ==
  ASSUME TypeOK, \A c \in Channels : LocksItsAllocations(channels[c]), ChannelNext
  PROVE  \A c \in Channels : LocksItsAllocations(channels'[c])
<1>1. PICK c \in Channels :
        \/ \E s \in Signed[c] :
             \/ \E r \in {s, SwapLedgers(s)} : EnforceState(c, r)
             \/ \E sender \in Senders : challengeWithNewerState(c, s, sender)
        \/ challengeWithSameVersion(c)
        \/ closeAfterChallenge(c)
  BY DEF ChannelNext, createChannel, depositToChannel, withdrawFromChannel,
     checkpointChannel, closeCooperatively, initiateEscrowDepositOnHome,
     initiateEscrowWithdrawalOnHome, finalizeEscrowOnHome, initiateMigration,
     finalizeMigration
<1>2. channels \in [Channels -> ChannelMeta] /\ channels[c] \in ChannelMeta
  BY DEF TypeOK
<1>3. ASSUME NEW n, channels' = [channels EXCEPT ![c] = n], LocksItsAllocations(n)
      PROVE  \A d \in Channels : LocksItsAllocations(channels'[d])
  <2>1. ASSUME NEW d \in Channels PROVE LocksItsAllocations(channels'[d])
    <3>1. CASE d = c
      BY <1>2, <1>3, <3>1
    <3>2. CASE d # c
      BY <1>2, <1>3, <3>2
    <3> QED
      BY <3>1, <3>2
  <2> QED
    BY <2>1
<1>4. ASSUME NEW s \in State, EnforceState(c, s)
      PROVE  \A d \in Channels : LocksItsAllocations(channels'[d])
  <2>1. LocksItsAllocations(EnforcedMeta(channels[c], s))
    BY <1>2, <1>4, EnforcedLocks DEF EnforceState
  <2>2. channels' = [channels EXCEPT ![c] = EnforcedMeta(channels[c], s)]
    BY <1>4 DEF EnforceState, ApplyTransitionEffects
  <2> QED
    BY <1>3, <2>1, <2>2
<1>5. ASSUME NEW s \in Signed[c], NEW sender \in Senders, challengeWithNewerState(c, s, sender)
      PROVE  \A d \in Channels : LocksItsAllocations(channels'[d])
  <2> DEFINE m == channels[c]
             n == [status |-> "DISPUTED", lastState |-> s,
                   challengeExpireAt |-> ChallengeExpiry(c),
                   lockedFunds |-> expectedLocked(m, s)]
  <2>1. ~closesChannel(m, s) /\ validateInvariants(m, s, nodeBalances[s.homeLedger.token])
    BY <1>5, ChallengeDoesNotClose DEF challengeWithNewerState, validateTransition
  <2>2. s.homeLedger.userAllocation + s.homeLedger.nodeAllocation = expectedLocked(m, s)
    BY <2>1 DEF validateInvariants
  <2>3. LocksItsAllocations(n)
    BY <2>2 DEF LocksItsAllocations, LiveStatus
  <2>4. channels' = [channels EXCEPT ![c] = n]
    BY <1>5 DEF challengeWithNewerState, ApplyTransitionEffects
  <2> QED
    BY <1>3, <2>3, <2>4
<1>6. CASE challengeWithSameVersion(c)
  <2> DEFINE n == [channels[c] EXCEPT !.status = "DISPUTED",
                                      !.challengeExpireAt = ChallengeExpiry(c)]
  <2>1. channels' = [channels EXCEPT ![c] = n]
    BY <1>2, <1>6 DEF challengeWithSameVersion
  <2>2. LocksItsAllocations(n)
    BY <1>2, <1>6 DEF challengeWithSameVersion, LocksItsAllocations, LiveStatus, ChannelMeta
  <2> QED
    BY <1>3, <2>1, <2>2
<1>7. CASE closeAfterChallenge(c)
  <2> DEFINE n == [channels[c] EXCEPT !.status = "CLOSED", !.lockedFunds = 0,
                                      !.challengeExpireAt = 0]
  <2>1. channels' = [channels EXCEPT ![c] = n]
    BY <1>2, <1>7 DEF closeAfterChallenge
  <2>2. LocksItsAllocations(n)
    BY <1>2 DEF LocksItsAllocations, LiveStatus, ChannelMeta
  <2> QED
    BY <1>3, <2>1, <2>2
<1>8. \A s \in Signed[c] : s \in State /\ SwapLedgers(s) \in State
  BY EscrowIdInRange, SwapIsState
<1> QED
  BY <1>1, <1>4, <1>5, <1>6, <1>7, <1>8

\* Every other step leaves the channels alone.
LEMMA OtherStepsKeepChannels ==
  ASSUME [Next]_vars, ~ChannelNext
  PROVE  UNCHANGED channels
BY DEF Next, EscrowNext, VaultNext, vars, initiateEscrowDeposit, initiateEscrowWithdrawal,
   challengeEscrowDeposit, challengeEscrowWithdrawal, revertEscrowWithdrawal,
   refundEscrowDeposit, finalizeEscrowDeposit, finalizeEscrowWithdrawal, depositToNode,
   withdrawFromNode, claimFunds, purgeEscrowDeposits, Tick

\* The locked funds of a live channel are the allocations of its last state, in
\* every reachable state and for all constants, whatever the parties sign:
\* what a unilateral closure pays out is what the hub has set aside.
THEOREM LockedFundsAreTheAllocations == Spec => []LockedMatchesAllocations
<1> DEFINE Locks == \A c \in Channels : LocksItsAllocations(channels[c])
<1>1. Init => Locks
  BY DEF Init, LocksItsAllocations, LiveStatus
<1>2. TypeOK /\ Locks /\ [Next]_vars => Locks'
  <2> SUFFICES ASSUME TypeOK, Locks, [Next]_vars PROVE Locks'
    OBVIOUS
  <2>1. CASE ChannelNext
    BY <2>1, ChannelNextLocks
  <2>2. CASE ~ChannelNext
    BY <2>2, OtherStepsKeepChannels
  <2> QED
    BY <2>1, <2>2
<1>3. Locks => LockedMatchesAllocations
  BY DEF LockedMatchesAllocations, LocksItsAllocations, IsLive
<1> QED
  BY <1>1, <1>2, <1>3, TypeCorrect, PTL DEF Spec

-------------------------------------------------------------------------------
(* The order of enforcement *)

\* The engine admits nothing on a closed channel, nothing after a challenge has
\* expired, and no version that is not newer.
LEMMA ValidatedIsOrdered ==
  ASSUME NEW m \in ChannelMeta, NEW s \in State, NEW available, NEW time \in Nat,
         validateTransition(m, s, available, time)
  PROVE  /\ m.status # "CLOSED"
         /\ ~(m.status = "DISPUTED" /\ m.challengeExpireAt < time)
         /\ s.version > m.lastState.version \/ IsEmptyState(m.lastState)
<1>1. m.challengeExpireAt \in Nat
  BY DEF ChannelMeta
<1>2. ~(m.status = "DISPUTED" /\ m.challengeExpireAt < time)
  BY <1>1 DEF validateTransition, validateUniversal
<1>3. s.version > m.lastState.version \/ IsEmptyState(m.lastState)
  BY DEF validateTransition, validateUniversal
<1>4. m.status # "CLOSED"
  BY DEF validateTransition, intentAllowed, depositAllowed, withdrawAllowed,
     operateAllowed, closeAllowed, initiateEscrowDepositAllowed,
     finalizeEscrowDepositAllowed, initiateEscrowWithdrawalAllowed,
     finalizeEscrowWithdrawalAllowed, initiateMigrationInAllowed,
     initiateMigrationOutAllowed, finalizeMigrationInAllowed,
     finalizeMigrationOutAllowed, LiveStatus
<1> QED
  BY <1>2, <1>3, <1>4

\* Every step on a channel respects the order.
LEMMA ChannelNextOrdered ==
  ASSUME TypeOK, ChannelNext
  PROVE  \A d \in Channels : OrderedStep(d)
<1>1. PICK c \in Channels :
        \/ \E s \in Signed[c] :
             \/ \E r \in {s, SwapLedgers(s)} : EnforceState(c, r)
             \/ \E sender \in Senders : challengeWithNewerState(c, s, sender)
        \/ challengeWithSameVersion(c)
        \/ closeAfterChallenge(c)
  BY DEF ChannelNext, createChannel, depositToChannel, withdrawFromChannel,
     checkpointChannel, closeCooperatively, initiateEscrowDepositOnHome,
     initiateEscrowWithdrawalOnHome, finalizeEscrowOnHome, initiateMigration,
     finalizeMigration
<1>2. channels \in [Channels -> ChannelMeta] /\ channels[c] \in ChannelMeta /\ now \in Nat
  BY DEF TypeOK
<1>3. ASSUME NEW n, channels' = [channels EXCEPT ![c] = n], OrderedStep(c)
      PROVE  \A d \in Channels : OrderedStep(d)
  <2>1. \A d \in Channels : d # c => channels'[d] = channels[d]
    BY <1>2, <1>3
  <2> QED
    BY <1>3, <2>1 DEF OrderedStep
<1>4. ASSUME NEW s \in State, NEW n,
             validateTransition(channels[c], s, nodeBalances[s.homeLedger.token], now),
             channels' = [channels EXCEPT ![c] = n], n.lastState = s
      PROVE  \A d \in Channels : OrderedStep(d)
  <2>1. channels'[c] = n
    BY <1>2, <1>4
  <2>2. OrderedStep(c)
    BY <1>2, <1>4, <2>1, ValidatedIsOrdered DEF OrderedStep, ChallengeExpired
  <2> QED
    BY <1>3, <1>4, <2>2
<1>5. ASSUME NEW s \in State, EnforceState(c, s)
      PROVE  \A d \in Channels : OrderedStep(d)
  <2>1. EnforcedMeta(channels[c], s).lastState = s
    BY DEF EnforcedMeta
  <2>2. /\ validateTransition(channels[c], s, nodeBalances[s.homeLedger.token], now)
        /\ channels' = [channels EXCEPT ![c] = EnforcedMeta(channels[c], s)]
    BY <1>5 DEF EnforceState, ApplyTransitionEffects
  <2> QED
    BY <1>4, <2>1, <2>2
<1>6. ASSUME NEW s \in Signed[c], NEW sender \in Senders, challengeWithNewerState(c, s, sender)
      PROVE  \A d \in Channels : OrderedStep(d)
  <2> DEFINE n == [status |-> "DISPUTED", lastState |-> s,
                   challengeExpireAt |-> ChallengeExpiry(c),
                   lockedFunds |-> expectedLocked(channels[c], s)]
  <2>1. s \in State
    BY EscrowIdInRange
  <2>2. /\ validateTransition(channels[c], s, nodeBalances[s.homeLedger.token], now)
        /\ channels' = [channels EXCEPT ![c] = n]
    BY <1>6 DEF challengeWithNewerState, ApplyTransitionEffects
  <2>3. n.lastState = s
    OBVIOUS
  <2> HIDE DEF n
  <2> QED
    BY <1>4, <2>1, <2>2, <2>3
<1>7. CASE challengeWithSameVersion(c)
  <2> DEFINE n == [channels[c] EXCEPT !.status = "DISPUTED",
                                      !.challengeExpireAt = ChallengeExpiry(c)]
  <2>1. channels' = [channels EXCEPT ![c] = n] /\ channels'[c] = n
    BY <1>2, <1>7 DEF challengeWithSameVersion
  <2>2. n.lastState = channels[c].lastState
    BY <1>2 DEF ChannelMeta
  <2>3. OrderedStep(c)
    BY <1>7, <2>1, <2>2 DEF challengeWithSameVersion, OrderedStep, ChallengeExpired
  <2> QED
    BY <1>3, <2>1, <2>3
<1>8. CASE closeAfterChallenge(c)
  <2> DEFINE n == [channels[c] EXCEPT !.status = "CLOSED", !.lockedFunds = 0,
                                      !.challengeExpireAt = 0]
  <2>1. channels' = [channels EXCEPT ![c] = n] /\ channels'[c] = n
    BY <1>2, <1>8 DEF closeAfterChallenge
  <2>2. n.lastState = channels[c].lastState /\ n.status = "CLOSED"
    BY <1>2 DEF ChannelMeta
  <2>3. OrderedStep(c)
    BY <1>8, <2>1, <2>2 DEF closeAfterChallenge, OrderedStep, ChallengeExpired
  <2> QED
    BY <1>3, <2>1, <2>3
<1>9. \A s \in Signed[c] : s \in State /\ SwapLedgers(s) \in State
  BY EscrowIdInRange, SwapIsState
<1> QED
  BY <1>1, <1>5, <1>6, <1>7, <1>8, <1>9

\* A state is enforced only over an older one, a closed channel is final, and an
\* expired challenge can only end in the closure it announced: no race between
\* a late answer and the closure can be won by the late answer.
THEOREM EnforcementOrder == Spec => EnforcementIsOrdered
<1>1. TypeOK /\ [Next]_vars => [\A c \in Channels : OrderedStep(c)]_vars
  <2> SUFFICES ASSUME TypeOK, [Next]_vars PROVE \A c \in Channels : OrderedStep(c)
    OBVIOUS
  <2>1. CASE ChannelNext
    BY <2>1, ChannelNextOrdered
  <2>2. CASE ~ChannelNext
    BY <2>2, OtherStepsKeepChannels DEF OrderedStep
  <2> QED
    BY <2>1, <2>2
<1> QED
  BY <1>1, TypeCorrect, PTL DEF Spec, EnforcementIsOrdered

-------------------------------------------------------------------------------
(* Escrows *)

OpenEscrow == {"INITIALIZED", "DISPUTED"}

\* EscrowLocksExact of one deposit and of one withdrawal record.
DepositLocks(m) ==
  m.lockedAmount =
    IF m.status \in OpenEscrow THEN m.initState.nonHomeLedger.userAllocation ELSE 0

WithdrawalLocks(m) ==
  m.lockedAmount =
    IF m.status \in OpenEscrow THEN m.initState.nonHomeLedger.nodeAllocation ELSE 0

EscrowsLock ==
  /\ \A e \in EscrowIds : DepositLocks(escrowDeposits[e])
  /\ \A e \in EscrowIds : WithdrawalLocks(escrowWithdrawals[e])

\* What each step makes of a deposit's record locks what it should.
LEMMA DepositRecordsLock ==
  ASSUME NEW m \in EscrowDepositMeta, DepositLocks(m), NEW s \in State, NEW time
  PROVE  /\ m.status = "VOID" => DepositLocks(initiatedDeposit(m, s, time))
         /\ m.status = "INITIALIZED" => DepositLocks(challengedDeposit(m, time))
         /\ DepositLocks(finalizedDeposit(m))
         /\ DepositLocks([finalizedDeposit(m) EXCEPT !.challengeExpireAt = 0])
<1>1. ASSUME m.status = "VOID" PROVE DepositLocks(initiatedDeposit(m, s, time))
  <2>1. m.lockedAmount = 0 /\ s.nonHomeLedger.userAllocation \in Nat
    BY <1>1, StateFields DEF DepositLocks, OpenEscrow
  <2>2. /\ initiatedDeposit(m, s, time).lockedAmount = s.nonHomeLedger.userAllocation
        /\ initiatedDeposit(m, s, time).status = "INITIALIZED"
        /\ initiatedDeposit(m, s, time).initState = s
    BY <2>1 DEF initiatedDeposit, EscrowDepositMeta
  <2> QED
    BY <2>2 DEF DepositLocks, OpenEscrow
<1>2. m.status = "INITIALIZED" => DepositLocks(challengedDeposit(m, time))
  BY DEF DepositLocks, OpenEscrow, challengedDeposit, EscrowDepositMeta
<1>3. DepositLocks(finalizedDeposit(m))
  BY DEF DepositLocks, OpenEscrow, finalizedDeposit, EscrowDepositMeta
<1>4. DepositLocks([finalizedDeposit(m) EXCEPT !.challengeExpireAt = 0])
  BY DEF DepositLocks, OpenEscrow, finalizedDeposit, EscrowDepositMeta
<1> QED
  BY <1>1, <1>2, <1>3, <1>4

\* The same of withdrawals.
LEMMA WithdrawalRecordsLock ==
  ASSUME NEW m \in EscrowWithdrawalMeta, WithdrawalLocks(m), NEW s \in State, NEW time
  PROVE  /\ m.status = "VOID" => WithdrawalLocks(initiatedWithdrawal(m, s))
         /\ m.status = "INITIALIZED" => WithdrawalLocks(challengedWithdrawal(m, time))
         /\ WithdrawalLocks(finalizedWithdrawal(m))
         /\ WithdrawalLocks([finalizedWithdrawal(m) EXCEPT !.challengeExpireAt = 0])
<1>1. ASSUME m.status = "VOID" PROVE WithdrawalLocks(initiatedWithdrawal(m, s))
  <2>1. m.lockedAmount = 0 /\ s.nonHomeLedger.nodeAllocation \in Nat
    BY <1>1, StateFields DEF WithdrawalLocks, OpenEscrow
  <2>2. /\ initiatedWithdrawal(m, s).lockedAmount = s.nonHomeLedger.nodeAllocation
        /\ initiatedWithdrawal(m, s).status = "INITIALIZED"
        /\ initiatedWithdrawal(m, s).initState = s
    BY <2>1 DEF initiatedWithdrawal, EscrowWithdrawalMeta
  <2> QED
    BY <2>2 DEF WithdrawalLocks, OpenEscrow
<1>2. m.status = "INITIALIZED" => WithdrawalLocks(challengedWithdrawal(m, time))
  BY DEF WithdrawalLocks, OpenEscrow, challengedWithdrawal, EscrowWithdrawalMeta
<1>3. WithdrawalLocks(finalizedWithdrawal(m))
  BY DEF WithdrawalLocks, OpenEscrow, finalizedWithdrawal, EscrowWithdrawalMeta
<1>4. WithdrawalLocks([finalizedWithdrawal(m) EXCEPT !.challengeExpireAt = 0])
  BY DEF WithdrawalLocks, OpenEscrow, finalizedWithdrawal, EscrowWithdrawalMeta
<1> QED
  BY <1>1, <1>2, <1>3, <1>4

\* A purge of a table whose entries lock what they should leaves such a table.
LEMMA PurgeLocks ==
  ASSUME NEW ed \in [EscrowIds -> EscrowDepositMeta], \A e \in EscrowIds : DepositLocks(ed[e]),
         NEW nb, NEW steps, PurgeEscrowDeposits(nb, ed, steps)
  PROVE  \A e \in EscrowIds : DepositLocks(escrowDeposits'[e])
<1> SUFFICES ASSUME NEW e \in EscrowIds PROVE DepositLocks(escrowDeposits'[e])
  OBVIOUS
<1>1. escrowDeposits'[e] \in {ed[e], finalizedDeposit(ed[e])}
  BY DEF PurgeEscrowDeposits
<1>2. DepositLocks(finalizedDeposit(ed[e]))
  BY EmptyIsState, DepositRecordsLock
<1> QED
  BY <1>1, <1>2

\* Replacing one entry of the deposits, then purging.
LEMMA PurgeAfterUpdateLocks ==
  ASSUME TypeOK, EscrowsLock, NEW e \in EscrowIds, NEW n \in EscrowDepositMeta,
         DepositLocks(n), NEW nb, NEW steps,
         PurgeEscrowDeposits(nb, [escrowDeposits EXCEPT ![e] = n], steps)
  PROVE  \A d \in EscrowIds : DepositLocks(escrowDeposits'[d])
<1> DEFINE ed == [escrowDeposits EXCEPT ![e] = n]
<1>1. ed \in [EscrowIds -> EscrowDepositMeta]
  BY DEF TypeOK
<1>2. \A d \in EscrowIds : DepositLocks(ed[d])
  <2>1. \A d \in EscrowIds : ed[d] \in {escrowDeposits[d], n}
    BY DEF TypeOK
  <2> QED
    BY <2>1 DEF EscrowsLock
<1> HIDE DEF ed
<1>3. PurgeEscrowDeposits(nb, ed, steps)
  BY DEF ed
<1> QED
  BY <1>1, <1>2, <1>3, PurgeLocks

\* Replacing one entry of the withdrawals.
LEMMA UpdateWithdrawalLocks ==
  ASSUME TypeOK, EscrowsLock, NEW e \in EscrowIds, NEW n, WithdrawalLocks(n),
         escrowWithdrawals' = [escrowWithdrawals EXCEPT ![e] = n]
  PROVE  \A d \in EscrowIds : WithdrawalLocks(escrowWithdrawals'[d])
<1>1. \A d \in EscrowIds : escrowWithdrawals'[d] \in {escrowWithdrawals[d], n}
  BY DEF TypeOK
<1> QED
  BY <1>1 DEF EscrowsLock

\* Every action of EscrowNext keeps the locks exact.
LEMMA EscrowNextLocks ==
  ASSUME TypeOK, EscrowsLock, EscrowNext
  PROVE  EscrowsLock'
<1>1. ASSUME NEW e \in EscrowIds
      PROVE  /\ escrowDeposits[e] \in EscrowDepositMeta /\ DepositLocks(escrowDeposits[e])
             /\ escrowWithdrawals[e] \in EscrowWithdrawalMeta
             /\ WithdrawalLocks(escrowWithdrawals[e])
  BY DEF TypeOK, EscrowsLock
<1>2. now \in Nat /\ EmptyState \in State
  BY EmptyIsState DEF TypeOK
<1>3. ASSUME UNCHANGED escrowWithdrawals, \A e \in EscrowIds : DepositLocks(escrowDeposits'[e])
      PROVE  EscrowsLock'
  BY <1>3 DEF EscrowsLock
<1>4. ASSUME NEW nb, NEW steps, PurgeEscrowDeposits(nb, escrowDeposits, steps)
      PROVE  \A e \in EscrowIds : DepositLocks(escrowDeposits'[e])
  BY <1>4, PurgeLocks DEF TypeOK, EscrowsLock
<1>5. ASSUME NEW c \in Channels, NEW s \in Signed[c], initiateEscrowDeposit(c, s)
      PROVE  EscrowsLock'
  <2> DEFINE e == EscrowIdOf(c, s)
             n == initiatedDeposit(escrowDeposits[e], s, now)
  <2>1. e \in EscrowIds /\ s \in State
    BY EscrowIdInRange
  <2>2. escrowDeposits[e].status = "VOID"
    BY <1>5 DEF initiateEscrowDeposit, initiateDepositAllowed
  <2>3. n \in EscrowDepositMeta /\ DepositLocks(n)
    BY <1>1, <1>2, <2>1, <2>2, EscrowDepositRecords, DepositRecordsLock
  <2>4. PurgeEscrowDeposits(nodeBalances, [escrowDeposits EXCEPT ![e] = n],
                            MaxDepositEscrowSteps) /\ UNCHANGED escrowWithdrawals
    BY <1>5 DEF initiateEscrowDeposit
  <2> HIDE DEF e, n
  <2> QED
    BY <1>3, <2>1, <2>3, <2>4, PurgeAfterUpdateLocks
<1>6. ASSUME NEW c \in Channels, NEW s \in Signed[c], initiateEscrowWithdrawal(c, s)
      PROVE  EscrowsLock'
  <2> DEFINE e == EscrowIdOf(c, s)
             n == initiatedWithdrawal(escrowWithdrawals[e], s)
  <2>1. e \in EscrowIds /\ s \in State
    BY EscrowIdInRange
  <2>2. escrowWithdrawals[e].status = "VOID"
    BY <1>6 DEF initiateEscrowWithdrawal, initiateWithdrawalAllowed
  <2>3. WithdrawalLocks(n)
    BY <1>1, <1>2, <2>1, <2>2, WithdrawalRecordsLock
  <2>4. escrowWithdrawals' = [escrowWithdrawals EXCEPT ![e] = n]
    BY <1>6 DEF initiateEscrowWithdrawal
  <2>5. \A d \in EscrowIds : DepositLocks(escrowDeposits'[d])
    BY <1>4, <1>6 DEF initiateEscrowWithdrawal
  <2> QED
    BY <2>1, <2>3, <2>4, <2>5, UpdateWithdrawalLocks DEF EscrowsLock
<1>7. ASSUME NEW e \in EscrowIds, challengeEscrowDeposit(e)
      PROVE  EscrowsLock'
  <2> DEFINE n == challengedDeposit(escrowDeposits[e], now)
  <2>1. n \in EscrowDepositMeta /\ DepositLocks(n)
    BY <1>1, <1>2, <1>7, EscrowDepositRecords, DepositRecordsLock
       DEF challengeEscrowDeposit, challengeDepositAllowed
  <2>2. PurgeEscrowDeposits(nodeBalances, [escrowDeposits EXCEPT ![e] = n],
                            MaxDepositEscrowSteps) /\ UNCHANGED escrowWithdrawals
    BY <1>7 DEF challengeEscrowDeposit
  <2> HIDE DEF n
  <2> QED
    BY <1>3, <2>1, <2>2, PurgeAfterUpdateLocks
<1>8. ASSUME NEW e \in EscrowIds, refundEscrowDeposit(e)
      PROVE  EscrowsLock'
  <2> DEFINE n == [finalizedDeposit(escrowDeposits[e]) EXCEPT !.challengeExpireAt = 0]
  <2>1. n \in EscrowDepositMeta /\ DepositLocks(n)
    BY <1>1, <1>2, EscrowDepositRecords, DepositRecordsLock
  <2>2. PurgeEscrowDeposits(nodeBalances, [escrowDeposits EXCEPT ![e] = n],
                            MaxDepositEscrowSteps) /\ UNCHANGED escrowWithdrawals
    BY <1>8 DEF refundEscrowDeposit
  <2> HIDE DEF n
  <2> QED
    BY <1>3, <2>1, <2>2, PurgeAfterUpdateLocks
<1>9. ASSUME NEW e \in EscrowIds, NEW s, finalizeEscrowDeposit(e, s)
      PROVE  EscrowsLock'
  <2> DEFINE n == finalizedDeposit(escrowDeposits[e])
  <2>1. n \in EscrowDepositMeta /\ DepositLocks(n)
    BY <1>1, <1>2, EscrowDepositRecords, DepositRecordsLock
  <2>2. PICK nb : PurgeEscrowDeposits(nb, [escrowDeposits EXCEPT ![e] = n],
                                      MaxDepositEscrowSteps) /\ UNCHANGED escrowWithdrawals
    BY <1>9 DEF finalizeEscrowDeposit
  <2> HIDE DEF n
  <2> QED
    BY <1>3, <2>1, <2>2, PurgeAfterUpdateLocks
<1>10. ASSUME NEW e \in EscrowIds, challengeEscrowWithdrawal(e)
       PROVE  EscrowsLock'
  <2> DEFINE n == challengedWithdrawal(escrowWithdrawals[e], now)
  <2>1. WithdrawalLocks(n) /\ escrowWithdrawals' = [escrowWithdrawals EXCEPT ![e] = n]
    BY <1>1, <1>2, <1>10, WithdrawalRecordsLock
       DEF challengeEscrowWithdrawal, challengeWithdrawalAllowed
  <2>2. \A d \in EscrowIds : DepositLocks(escrowDeposits'[d])
    BY <1>4, <1>10 DEF challengeEscrowWithdrawal
  <2> QED
    BY <2>1, <2>2, UpdateWithdrawalLocks DEF EscrowsLock
<1>11. ASSUME NEW e \in EscrowIds, revertEscrowWithdrawal(e)
       PROVE  EscrowsLock'
  <2> DEFINE n == [finalizedWithdrawal(escrowWithdrawals[e]) EXCEPT !.challengeExpireAt = 0]
  <2>1. WithdrawalLocks(n) /\ escrowWithdrawals' = [escrowWithdrawals EXCEPT ![e] = n]
    BY <1>1, <1>2, <1>11, WithdrawalRecordsLock DEF revertEscrowWithdrawal
  <2>2. \A d \in EscrowIds : DepositLocks(escrowDeposits'[d])
    BY <1>4, <1>11 DEF revertEscrowWithdrawal
  <2> QED
    BY <2>1, <2>2, UpdateWithdrawalLocks DEF EscrowsLock
<1>12. ASSUME NEW e \in EscrowIds, NEW s, finalizeEscrowWithdrawal(e, s)
       PROVE  EscrowsLock'
  <2> DEFINE n == finalizedWithdrawal(escrowWithdrawals[e])
  <2>1. WithdrawalLocks(n) /\ escrowWithdrawals' = [escrowWithdrawals EXCEPT ![e] = n]
    BY <1>1, <1>2, <1>12, WithdrawalRecordsLock DEF finalizeEscrowWithdrawal
  <2>2. \A d \in EscrowIds : DepositLocks(escrowDeposits'[d])
    BY <1>4, <1>12 DEF finalizeEscrowWithdrawal
  <2> QED
    BY <2>1, <2>2, UpdateWithdrawalLocks DEF EscrowsLock
<1> QED
  BY <1>5, <1>6, <1>7, <1>8, <1>9, <1>10, <1>11, <1>12 DEF EscrowNext

\* The other steps touch the escrows through a purge at most.
LEMMA OtherStepsPurge ==
  ASSUME [Next]_vars, ~EscrowNext
  PROVE  /\ UNCHANGED escrowWithdrawals
         /\ \/ UNCHANGED escrowDeposits
            \/ \E nb : \E steps \in Nat : PurgeEscrowDeposits(nb, escrowDeposits, steps)
<1> MaxDepositEscrowSteps \in Nat /\ PurgeSteps \subseteq Nat
  BY HubConstantsOK
<1>1. ASSUME NEW c, NEW s, EnforceState(c, s)
      PROVE  /\ UNCHANGED escrowWithdrawals
             /\ \E nb : \E steps \in Nat : PurgeEscrowDeposits(nb, escrowDeposits, steps)
  BY <1>1 DEF EnforceState, ApplyTransitionEffects
<1>2. ASSUME NEW c, NEW s, NEW sender, challengeWithNewerState(c, s, sender)
      PROVE  /\ UNCHANGED escrowWithdrawals
             /\ \E nb : \E steps \in Nat : PurgeEscrowDeposits(nb, escrowDeposits, steps)
  BY <1>2 DEF challengeWithNewerState, ApplyTransitionEffects
<1>3. ASSUME NEW c, challengeWithSameVersion(c) \/ closeAfterChallenge(c)
      PROVE  UNCHANGED escrowWithdrawals /\ UNCHANGED escrowDeposits
  BY <1>3 DEF challengeWithSameVersion, closeAfterChallenge, queue
<1>4. CASE ChannelNext
  <2>1. \E c \in Channels :
          \/ \E s : EnforceState(c, s)
          \/ \E s, sender : challengeWithNewerState(c, s, sender)
          \/ challengeWithSameVersion(c) \/ closeAfterChallenge(c)
    BY <1>4 DEF ChannelNext, createChannel, depositToChannel, withdrawFromChannel,
       checkpointChannel, closeCooperatively, initiateEscrowDepositOnHome,
       initiateEscrowWithdrawalOnHome, finalizeEscrowOnHome, initiateMigration,
       finalizeMigration
  <2> QED
    BY <2>1, <1>1, <1>2, <1>3
<1>5. CASE VaultNext
  BY <1>5 DEF VaultNext, depositToNode, withdrawFromNode, claimFunds, queue
<1>6. CASE \E steps \in PurgeSteps : purgeEscrowDeposits(steps)
  BY <1>6 DEF purgeEscrowDeposits
<1>7. CASE Tick \/ UNCHANGED vars
  BY <1>7 DEF Tick, vars, queue
<1> QED
  BY <1>4, <1>5, <1>6, <1>7 DEF Next

\* An escrow locks what its initial state put in while it is open and nothing
\* after, for all constants: neither the purge nor any of the three ways to
\* finalize pays an escrow out twice, or a different amount.
THEOREM EscrowLocks == Spec => []EscrowLocksExact
<1>1. Init => EscrowsLock
  BY DEF Init, EscrowsLock, DepositLocks, WithdrawalLocks, OpenEscrow
<1>2. TypeOK /\ EscrowsLock /\ [Next]_vars => EscrowsLock'
  <2> SUFFICES ASSUME TypeOK, EscrowsLock, [Next]_vars PROVE EscrowsLock'
    OBVIOUS
  <2>1. CASE EscrowNext
    BY <2>1, EscrowNextLocks
  <2>2. CASE ~EscrowNext
    <3>1. UNCHANGED escrowWithdrawals
      BY <2>2, OtherStepsPurge
    <3>2. CASE UNCHANGED escrowDeposits
      BY <3>1, <3>2 DEF EscrowsLock
    <3>3. CASE \E nb, steps : PurgeEscrowDeposits(nb, escrowDeposits, steps)
      BY <3>1, <3>3, PurgeLocks DEF EscrowsLock, TypeOK
    <3> QED
      BY <2>2, <3>2, <3>3, OtherStepsPurge
  <2> QED
    BY <2>1, <2>2
<1>3. EscrowsLock => EscrowLocksExact
  BY DEF EscrowsLock, DepositLocks, WithdrawalLocks, OpenEscrow, EscrowLocksExact
<1> QED
  BY <1>1, <1>2, <1>3, TypeCorrect, PTL DEF Spec

-------------------------------------------------------------------------------
(* The queue of escrow deposits *)

\* A deposit that a purge passes over.
Done(m) == m.status \in {"FINALIZED", "DISPUTED"}

\* What may become of a deposit's record, as far as the queue is concerned.
SameOrLater(m, n) ==
  /\ n.unlockAt = m.unlockAt
  /\ n.status = "VOID" <=> m.status = "VOID"
  /\ Done(m) => Done(n)

\* What a step does to the queue: the head moves over deposits that are done
\* afterwards, and at most one new deposit goes to the end.
QueueStep ==
  /\ now' >= now
  /\ escrowHead' \in escrowHead..Len(escrowDepositIds)
  /\ \A i \in (escrowHead + 1)..escrowHead' : Done(escrowDeposits'[escrowDepositIds[i]])
  /\ \/ /\ escrowDepositIds' = escrowDepositIds
        /\ \A e \in EscrowIds : SameOrLater(escrowDeposits[e], escrowDeposits'[e])
     \/ \E e \in EscrowIds :
          /\ escrowDepositIds' = Append(escrowDepositIds, e)
          /\ escrowDeposits[e].status = "VOID" /\ escrowDeposits'[e].status # "VOID"
          /\ escrowDeposits'[e].unlockAt = now + UnlockDelay
          /\ \A d \in EscrowIds \ {e} : SameOrLater(escrowDeposits[d], escrowDeposits'[d])

\* A purge finalizes deposits and moves the head over those that are done.
LEMMA PurgeQueue ==
  ASSUME TypeOK, NEW nb, NEW ed \in [EscrowIds -> EscrowDepositMeta], NEW steps \in Nat,
         PurgeEscrowDeposits(nb, ed, steps)
  PROVE  /\ escrowHead' \in escrowHead..Len(escrowDepositIds)
         /\ \A i \in (escrowHead + 1)..escrowHead' : Done(escrowDeposits'[escrowDepositIds[i]])
         /\ \A e \in EscrowIds : SameOrLater(ed[e], escrowDeposits'[e])
<1> DEFINE P == Purged(ed, steps)
           ids == escrowDepositIds
           end == PurgeEnd(ed, steps)
<1>1. ids \in Seq(EscrowIds) /\ escrowHead \in 0..Len(ids) /\ Len(ids) \in Nat
  BY DEF TypeOK
<1>2. end \in escrowHead..Len(ids) /\ \A j \in escrowHead..(end - 1) : ~BlocksPurge(ed, j)
  BY <1>1, PurgeEndRange
<1>3. escrowHead' = end
  BY DEF PurgeEscrowDeposits
<1>4. \A e \in EscrowIds : escrowDeposits'[e] = IF e \in P THEN finalizedDeposit(ed[e]) ELSE ed[e]
  BY DEF PurgeEscrowDeposits
<1>5. \A e \in P : ed[e].status = "INITIALIZED"
  BY DEF Purged
<1>6. \A e \in EscrowIds : /\ finalizedDeposit(ed[e]).status = "FINALIZED"
                           /\ finalizedDeposit(ed[e]).unlockAt = ed[e].unlockAt
  BY DEF finalizedDeposit, EscrowDepositMeta
<1>7. ASSUME NEW i \in (escrowHead + 1)..end
      PROVE  Done(escrowDeposits'[ids[i]])
  <2>1. i \in 1..Len(ids) /\ i - 1 \in escrowHead..(end - 1) /\ (i - 1) + 1 = i
    BY <1>1, <1>2
  <2>2. ids[i] \in EscrowIds
    BY <1>1, <2>1
  <2>3. ~BlocksPurge(ed, i - 1)
    BY <1>2, <2>1
  <2>4. Done(ed[ids[i]]) \/ ed[ids[i]].status = "INITIALIZED"
    BY <2>1, <2>3 DEF BlocksPurge, isEscrowDepositSkippable, isEscrowDepositUnlockable, Done
  <2>5. CASE ed[ids[i]].status = "INITIALIZED"
    <3>1. ids[i] \in P
      BY <2>5 DEF Purged
    <3> QED
      BY <1>4, <1>6, <2>2, <3>1 DEF Done
  <2>6. CASE Done(ed[ids[i]])
    <3>1. ids[i] \notin P
      BY <1>5, <2>6 DEF Done
    <3> QED
      BY <1>4, <2>2, <2>6, <3>1
  <2> QED
    BY <2>4, <2>5, <2>6
<1> HIDE DEF P
<1>8. \A e \in EscrowIds : SameOrLater(ed[e], escrowDeposits'[e])
  BY <1>4, <1>5, <1>6 DEF SameOrLater, Done
<1> QED
  BY <1>2, <1>3, <1>7, <1>8

\* Writing one deposit's record, then purging.
LEMMA UpdateQueue ==
  ASSUME TypeOK, NEW nb, NEW e \in EscrowIds, NEW n \in EscrowDepositMeta,
         SameOrLater(escrowDeposits[e], n),
         PurgeEscrowDeposits(nb, [escrowDeposits EXCEPT ![e] = n], MaxDepositEscrowSteps),
         escrowDepositIds' = escrowDepositIds, now' = now
  PROVE  QueueStep
<1> DEFINE ed == [escrowDeposits EXCEPT ![e] = n]
<1>1. ed \in [EscrowIds -> EscrowDepositMeta] /\ MaxDepositEscrowSteps \in Nat /\ now \in Nat
  BY HubConstantsOK DEF TypeOK
<1>2. \A d \in EscrowIds : SameOrLater(escrowDeposits[d], ed[d])
  BY DEF SameOrLater, TypeOK
<1>3. PurgeEscrowDeposits(nb, ed, MaxDepositEscrowSteps)
  OBVIOUS
<1> HIDE DEF ed
<1>4. /\ escrowHead' \in escrowHead..Len(escrowDepositIds)
      /\ \A i \in (escrowHead + 1)..escrowHead' : Done(escrowDeposits'[escrowDepositIds[i]])
      /\ \A d \in EscrowIds : SameOrLater(ed[d], escrowDeposits'[d])
  BY <1>1, <1>3, PurgeQueue
<1>5. \A d \in EscrowIds : SameOrLater(escrowDeposits[d], escrowDeposits'[d])
  BY <1>2, <1>4 DEF SameOrLater
<1> QED
  BY <1>1, <1>4, <1>5 DEF QueueStep

\* A purge without a write.
LEMMA PurgeOnlyQueue ==
  ASSUME TypeOK, NEW nb, NEW steps \in Nat, PurgeEscrowDeposits(nb, escrowDeposits, steps),
         escrowDepositIds' = escrowDepositIds, now' = now
  PROVE  QueueStep
<1>1. escrowDeposits \in [EscrowIds -> EscrowDepositMeta] /\ now \in Nat
  BY DEF TypeOK
<1>2. /\ escrowHead' \in escrowHead..Len(escrowDepositIds)
      /\ \A i \in (escrowHead + 1)..escrowHead' : Done(escrowDeposits'[escrowDepositIds[i]])
      /\ \A d \in EscrowIds : SameOrLater(escrowDeposits[d], escrowDeposits'[d])
  BY <1>1, PurgeQueue
<1> QED
  BY <1>1, <1>2 DEF QueueStep

\* A step that leaves the deposits alone.
LEMMA NoQueueStep ==
  ASSUME TypeOK, UNCHANGED queue, now' >= now
  PROVE  QueueStep
<1>1. escrowHead \in 0..Len(escrowDepositIds) /\ Len(escrowDepositIds) \in Nat
  BY DEF TypeOK
<1>2. escrowHead' \in escrowHead..Len(escrowDepositIds) /\ (escrowHead + 1)..escrowHead' = {}
  BY <1>1 DEF queue
<1> QED
  BY <1>2 DEF QueueStep, SameOrLater, queue

\* Initiating a deposit puts it at the end of the queue.
LEMMA InitiateQueue ==
  ASSUME TypeOK, NEW c \in Channels, NEW s \in Signed[c], initiateEscrowDeposit(c, s)
  PROVE  QueueStep
<1> DEFINE e == EscrowIdOf(c, s)
           n == initiatedDeposit(escrowDeposits[e], s, now)
           ed == [escrowDeposits EXCEPT ![e] = n]
<1>1. e \in EscrowIds /\ s \in State /\ now \in Nat /\ MaxDepositEscrowSteps \in Nat
  BY EscrowIdInRange, HubConstantsOK DEF TypeOK
<1>2. escrowDeposits[e] \in EscrowDepositMeta /\ escrowDeposits[e].status = "VOID"
  BY <1>1 DEF TypeOK, initiateEscrowDeposit, initiateDepositAllowed
<1>3. n \in EscrowDepositMeta /\ n.status = "INITIALIZED" /\ n.unlockAt = now + UnlockDelay
  BY <1>1, <1>2, EscrowDepositRecords DEF initiatedDeposit, EscrowDepositMeta
<1>4. /\ PurgeEscrowDeposits(nodeBalances, ed, MaxDepositEscrowSteps)
      /\ escrowDepositIds' = Append(escrowDepositIds, e) /\ now' = now
  BY DEF initiateEscrowDeposit
<1> HIDE DEF n, e
<1>5. /\ ed \in [EscrowIds -> EscrowDepositMeta] /\ ed[e] = n
      /\ \A d \in EscrowIds \ {e} : ed[d] = escrowDeposits[d]
  BY <1>1, <1>3 DEF TypeOK
<1> HIDE DEF ed
<1>6. /\ escrowHead' \in escrowHead..Len(escrowDepositIds)
      /\ \A i \in (escrowHead + 1)..escrowHead' : Done(escrowDeposits'[escrowDepositIds[i]])
      /\ \A d \in EscrowIds : SameOrLater(ed[d], escrowDeposits'[d])
  BY <1>1, <1>4, <1>5, PurgeQueue
<1>7. escrowDeposits'[e].status # "VOID" /\ escrowDeposits'[e].unlockAt = now + UnlockDelay
  BY <1>1, <1>3, <1>5, <1>6 DEF SameOrLater
<1>8. \A d \in EscrowIds \ {e} : SameOrLater(escrowDeposits[d], escrowDeposits'[d])
  BY <1>5, <1>6
<1> QED
  BY <1>1, <1>2, <1>4, <1>6, <1>7, <1>8 DEF QueueStep

\* Every step is such a step.
LEMMA NextQueueStep ==
  ASSUME TypeOK, [Next]_vars
  PROVE  QueueStep
<1>1. now \in Nat /\ MaxDepositEscrowSteps \in Nat
  BY HubConstantsOK DEF TypeOK
<1>2. CASE ChannelNext
  <2>1. ASSUME NEW c, NEW s, NEW meta, ApplyTransitionEffects(c, s, meta)
        PROVE  QueueStep
    BY <1>1, <2>1, PurgeOnlyQueue DEF ApplyTransitionEffects
  <2>2. ASSUME NEW c, challengeWithSameVersion(c) \/ closeAfterChallenge(c)
        PROVE  QueueStep
    BY <1>1, <2>2, NoQueueStep DEF challengeWithSameVersion, closeAfterChallenge
  <2>3. ASSUME NEW c, NEW s, NEW sender, EnforceState(c, s) \/ challengeWithNewerState(c, s, sender)
        PROVE  QueueStep
    BY <2>1, <2>3 DEF EnforceState, challengeWithNewerState
  <2> QED
    BY <1>2, <2>2, <2>3, ChannelSteps
<1>3. CASE EscrowNext
  <2>1. ASSUME NEW e \in EscrowIds
        PROVE  escrowDeposits[e] \in EscrowDepositMeta
    BY DEF TypeOK
  <2>2. ASSUME NEW e \in EscrowIds, challengeEscrowDeposit(e)
        PROVE  QueueStep
    <3> DEFINE n == challengedDeposit(escrowDeposits[e], now)
    <3>1. n \in EscrowDepositMeta
      BY <1>1, <2>1, EmptyIsState, EscrowDepositRecords
    <3>2. SameOrLater(escrowDeposits[e], n)
      BY <2>1, <2>2 DEF challengeEscrowDeposit, challengeDepositAllowed, challengedDeposit,
         SameOrLater, Done, EscrowDepositMeta
    <3>3. /\ PurgeEscrowDeposits(nodeBalances, [escrowDeposits EXCEPT ![e] = n],
                                 MaxDepositEscrowSteps)
          /\ escrowDepositIds' = escrowDepositIds /\ now' = now
      BY <2>2 DEF challengeEscrowDeposit
    <3> HIDE DEF n
    <3> QED
      BY <3>1, <3>2, <3>3, UpdateQueue
  <2>3. ASSUME NEW e \in EscrowIds, refundEscrowDeposit(e)
        PROVE  QueueStep
    <3> DEFINE n == [finalizedDeposit(escrowDeposits[e]) EXCEPT !.challengeExpireAt = 0]
    <3>1. n \in EscrowDepositMeta
      BY <1>1, <2>1, EmptyIsState, EscrowDepositRecords
    <3>2. SameOrLater(escrowDeposits[e], n)
      BY <2>1, <2>3 DEF refundEscrowDeposit, EscrowChallengeExpired, finalizedDeposit,
         SameOrLater, Done, EscrowDepositMeta
    <3>3. /\ PurgeEscrowDeposits(nodeBalances, [escrowDeposits EXCEPT ![e] = n],
                                 MaxDepositEscrowSteps)
          /\ escrowDepositIds' = escrowDepositIds /\ now' = now
      BY <2>3 DEF refundEscrowDeposit
    <3> HIDE DEF n
    <3> QED
      BY <3>1, <3>2, <3>3, UpdateQueue
  <2>4. ASSUME NEW e \in EscrowIds, NEW s, finalizeEscrowDeposit(e, s)
        PROVE  QueueStep
    <3> DEFINE n == finalizedDeposit(escrowDeposits[e])
    <3>1. n \in EscrowDepositMeta
      BY <1>1, <2>1, EmptyIsState, EscrowDepositRecords
    <3>2. SameOrLater(escrowDeposits[e], n)
      BY <2>1, <2>4 DEF finalizeEscrowDeposit, finalizeDepositAllowed, escrowSuccessor,
         finalizedDeposit, SameOrLater, Done, EscrowDepositMeta
    <3>3. PICK nb : /\ PurgeEscrowDeposits(nb, [escrowDeposits EXCEPT ![e] = n],
                                           MaxDepositEscrowSteps)
                    /\ escrowDepositIds' = escrowDepositIds /\ now' = now
      BY <2>4 DEF finalizeEscrowDeposit
    <3> HIDE DEF n
    <3> QED
      BY <3>1, <3>2, <3>3, UpdateQueue
  <2>5. ASSUME NEW c \in Channels, NEW s \in Signed[c], initiateEscrowWithdrawal(c, s)
        PROVE  QueueStep
    BY <1>1, <2>5, PurgeOnlyQueue DEF initiateEscrowWithdrawal
  <2>6. ASSUME NEW e \in EscrowIds, challengeEscrowWithdrawal(e) \/ revertEscrowWithdrawal(e)
        PROVE  QueueStep
    BY <1>1, <2>6, PurgeOnlyQueue DEF challengeEscrowWithdrawal, revertEscrowWithdrawal
  <2>7. ASSUME NEW e \in EscrowIds, NEW s, finalizeEscrowWithdrawal(e, s)
        PROVE  QueueStep
    BY <1>1, <2>7, PurgeOnlyQueue DEF finalizeEscrowWithdrawal
  <2> QED
    BY <1>3, <2>2, <2>3, <2>4, <2>5, <2>6, <2>7, InitiateQueue DEF EscrowNext
<1>4. CASE VaultNext
  BY <1>1, <1>4, NoQueueStep DEF VaultNext, depositToNode, withdrawFromNode, claimFunds
<1>5. ASSUME NEW steps \in PurgeSteps, purgeEscrowDeposits(steps)
      PROVE  QueueStep
  BY <1>1, <1>5, PurgeOnlyQueue, HubConstantsOK DEF purgeEscrowDeposits
<1>6. CASE Tick \/ UNCHANGED vars
  <2>1. UNCHANGED queue /\ now' >= now
    BY <1>1, <1>6 DEF Tick, vars
  <2> QED
    BY <2>1, NoQueueStep
<1> QED
  BY <1>2, <1>3, <1>4, <1>5, <1>6 DEF Next

\* QueueSound as an inductive invariant: a deposit is in the queue once it has
\* been made and at one place only, and no unlock time is further away than a
\* deposit made now would have.
QueueInvariant ==
  /\ \A e \in EscrowIds : escrowDeposits[e].status # "VOID" <=>
       \E i \in DOMAIN escrowDepositIds : escrowDepositIds[i] = e
  /\ \A i, j \in DOMAIN escrowDepositIds : escrowDepositIds[i] = escrowDepositIds[j] => i = j
  /\ \A i, j \in DOMAIN escrowDepositIds : i < j =>
       escrowDeposits[escrowDepositIds[i]].unlockAt
         <= escrowDeposits[escrowDepositIds[j]].unlockAt
  /\ \A i \in 1..escrowHead : Done(escrowDeposits[escrowDepositIds[i]])
  /\ \A i \in DOMAIN escrowDepositIds :
       escrowDeposits[escrowDepositIds[i]].unlockAt <= now + UnlockDelay

\* Every step keeps it.
LEMMA QueueInvariantStep ==
  ASSUME TypeOK, TypeOK', QueueInvariant, QueueStep
  PROVE  QueueInvariant'
<1> DEFINE ids == escrowDepositIds
           D == DOMAIN escrowDepositIds
<1>1. ids \in Seq(EscrowIds) /\ Len(ids) \in Nat /\ D = 1..Len(ids) /\ escrowHead \in 0..Len(ids)
      /\ escrowHead' \in escrowHead..Len(ids) /\ UnlockDelay \in Nat /\ now \in Nat /\ now' \in Nat
      /\ now' >= now
  BY EscrowDelaysOK DEF TypeOK, QueueStep
<1>2. \A i \in D : ids[i] \in EscrowIds
  BY <1>1
<1>3. \A e \in EscrowIds : escrowDeposits[e].unlockAt \in Nat /\ escrowDeposits'[e].unlockAt \in Nat
  BY DEF TypeOK, EscrowDepositMeta
<1>4. ASSUME NEW e \in EscrowIds, escrowDeposits[e].status # "VOID"
      PROVE  SameOrLater(escrowDeposits[e], escrowDeposits'[e])
  BY <1>4 DEF QueueStep
<1>5. \A i \in D : /\ escrowDeposits'[ids[i]].unlockAt = escrowDeposits[ids[i]].unlockAt
                   /\ Done(escrowDeposits[ids[i]]) => Done(escrowDeposits'[ids[i]])
  <2>1. \A i \in D : escrowDeposits[ids[i]].status # "VOID"
    BY <1>2 DEF QueueInvariant
  <2> QED
    BY <1>2, <1>4, <2>1 DEF SameOrLater
<1>6. \A i \in 1..escrowHead' : Done(escrowDeposits'[ids[i]])
  <2> SUFFICES ASSUME NEW i \in 1..escrowHead' PROVE Done(escrowDeposits'[ids[i]])
    OBVIOUS
  <2>1. i \in D /\ (i \in 1..escrowHead \/ i \in (escrowHead + 1)..escrowHead')
    BY <1>1
  <2>2. CASE i \in 1..escrowHead
    BY <1>5, <2>1, <2>2 DEF QueueInvariant
  <2>3. CASE i \in (escrowHead + 1)..escrowHead'
    BY <2>3 DEF QueueStep
  <2> QED
    BY <2>1, <2>2, <2>3
<1>7. \A i \in D : escrowDeposits'[ids[i]].unlockAt <= now + UnlockDelay
  BY <1>5 DEF QueueInvariant
<1>8. \A i, j \in D : i < j =>
        escrowDeposits'[ids[i]].unlockAt <= escrowDeposits'[ids[j]].unlockAt
  BY <1>5 DEF QueueInvariant
<1>9. CASE /\ ids' = ids
           /\ \A e \in EscrowIds : SameOrLater(escrowDeposits[e], escrowDeposits'[e])
  <2>1. \A e \in EscrowIds : escrowDeposits'[e].status # "VOID" <=> \E i \in D : ids[i] = e
    BY <1>9 DEF SameOrLater, QueueInvariant
  <2>2. \A i \in D : escrowDeposits'[ids[i]].unlockAt <= now' + UnlockDelay
    BY <1>1, <1>2, <1>3, <1>7
  <2> QED
    BY <1>6, <1>8, <1>9, <2>1, <2>2 DEF QueueInvariant
<1>10. ASSUME NEW e \in EscrowIds, ids' = Append(ids, e),
              escrowDeposits[e].status = "VOID", escrowDeposits'[e].status # "VOID",
              escrowDeposits'[e].unlockAt = now + UnlockDelay,
              \A d \in EscrowIds \ {e} : SameOrLater(escrowDeposits[d], escrowDeposits'[d])
       PROVE  QueueInvariant'
  <2> DEFINE new == escrowDepositIds'
             l == Len(ids) + 1
  <2>1. /\ new \in Seq(EscrowIds) /\ Len(new) = l /\ new[l] = e
        /\ \A i \in 1..Len(ids) : new[i] = ids[i]
    BY <1>1, <1>10, AppendProperties
  <2>2. DOMAIN new = 1..l /\ l \in Nat
    BY <1>1, <2>1
  <2> HIDE DEF new
  <2>3. \A i \in 1..l : i = l \/ i \in D
    BY <1>1
  <2>4. \A i \in D : i \in 1..l /\ i < l /\ new[i] = ids[i]
    BY <1>1, <2>1
  <2>5. \A i \in D : ids[i] # e
    BY <1>10 DEF QueueInvariant
  <2>6. \A d \in EscrowIds : escrowDeposits'[d].status # "VOID" <=>
          \E i \in 1..l : new[i] = d
    <3> SUFFICES ASSUME NEW d \in EscrowIds
                 PROVE  escrowDeposits'[d].status # "VOID" <=> \E i \in 1..l : new[i] = d
      OBVIOUS
    <3>1. CASE d = e
      BY <1>10, <2>1, <2>2, <3>1
    <3>2. CASE d # e
      <4>1. escrowDeposits'[d].status # "VOID" <=> \E i \in D : ids[i] = d
        BY <1>10, <3>2 DEF SameOrLater, QueueInvariant
      <4>2. (\E i \in D : ids[i] = d) <=> (\E i \in 1..l : new[i] = d)
        BY <2>1, <2>3, <2>4, <3>2
      <4> QED
        BY <4>1, <4>2
    <3> QED
      BY <3>1, <3>2
  <2>7. \A i, j \in 1..l : new[i] = new[j] => i = j
    <3>1. \A i, j \in D : new[i] = new[j] => i = j
      BY <2>4 DEF QueueInvariant
    <3>2. \A i \in D : new[i] # new[l]
      BY <2>1, <2>4, <2>5
    <3> QED
      BY <2>3, <3>1, <3>2
  <2>8. \A i, j \in 1..l : i < j =>
          escrowDeposits'[new[i]].unlockAt <= escrowDeposits'[new[j]].unlockAt
    <3> SUFFICES ASSUME NEW i \in 1..l, NEW j \in 1..l, i < j
                 PROVE  escrowDeposits'[new[i]].unlockAt <= escrowDeposits'[new[j]].unlockAt
      OBVIOUS
    <3>1. i \in D /\ (j = l \/ j \in D)
      BY <1>1, <2>2, <2>3
    <3>2. CASE j = l
      BY <1>7, <1>10, <2>1, <2>4, <3>1, <3>2
    <3>3. CASE j \in D
      BY <1>8, <2>4, <3>1, <3>3
    <3> QED
      BY <3>1, <3>2, <3>3
  <2>9. \A i \in 1..escrowHead' : Done(escrowDeposits'[new[i]])
    BY <1>1, <1>6, <2>4
  <2>10. \A i \in 1..l : escrowDeposits'[new[i]].unlockAt <= now' + UnlockDelay
    <3> SUFFICES ASSUME NEW i \in 1..l
                 PROVE  escrowDeposits'[new[i]].unlockAt <= now' + UnlockDelay
      OBVIOUS
    <3>1. escrowDeposits'[new[i]].unlockAt <= now + UnlockDelay
      BY <1>1, <1>7, <1>10, <2>1, <2>3, <2>4
    <3>2. new[i] \in EscrowIds
      BY <1>2, <2>1, <2>3, <2>4
    <3> QED
      BY <1>1, <1>3, <3>1, <3>2
  <2> QED
    BY <2>2, <2>6, <2>7, <2>8, <2>9, <2>10 DEF QueueInvariant, new
<1> QED
  BY <1>9, <1>10 DEF QueueStep

\* The queue of escrow deposits keeps its promises for all constants: whatever is
\* challenged, refunded or finalized out of order, the queue stays sorted by
\* unlock time, holds every deposit once, and the head never passes one that
\* still has to be unlocked.
THEOREM QueueIsSound == Spec => []QueueSound
<1>1. Init => QueueInvariant
  BY DEF Init, QueueInvariant
<1>2. TypeOK /\ TypeOK' /\ QueueInvariant /\ [Next]_vars => QueueInvariant'
  BY NextQueueStep, QueueInvariantStep
<1>3. TypeOK /\ QueueInvariant => QueueSound
  <2> SUFFICES ASSUME TypeOK, QueueInvariant PROVE QueueSound
    OBVIOUS
  <2>1. ASSUME NEW e \in EscrowIds
        PROVE  Cardinality(PositionsOf(e)) = IF escrowDeposits[e].status = "VOID" THEN 0 ELSE 1
    <3>1. CASE escrowDeposits[e].status = "VOID"
      <4>1. PositionsOf(e) = {}
        BY <3>1 DEF QueueInvariant, PositionsOf
      <4> QED
        BY <3>1, <4>1, FS_EmptySet
    <3>2. CASE escrowDeposits[e].status # "VOID"
      <4>1. PICK i \in DOMAIN escrowDepositIds : escrowDepositIds[i] = e
        BY <3>2 DEF QueueInvariant
      <4>2. PositionsOf(e) = {i}
        BY <4>1 DEF QueueInvariant, PositionsOf
      <4> QED
        BY <3>2, <4>2, FS_Singleton
    <3> QED
      BY <3>1, <3>2
  <2> QED
    BY <2>1 DEF QueueInvariant, QueueSound, Done
<1> QED
  BY <1>1, <1>2, <1>3, TypeCorrect, PTL DEF Spec

-------------------------------------------------------------------------------
(* What the user pays and receives *)

\* A transfer to or from an account changes what it can take home, whether the
\* token moves it or the hub keeps it back.
LEMMA PullHoldings ==
  ASSUME BalancesOK, NEW a \in Accounts, NEW t \in Tokens, NEW amount \in Nat,
         PullFunds(a, t, amount)
  PROVE  Holdings(a, t)' = Holdings(a, t) - amount
<1>1. wallet[a][t] \in Nat /\ reclaims[a][t] \in Nat
  BY DEF BalancesOK
<1>2. wallet'[a][t] = wallet[a][t] - amount /\ reclaims'[a][t] = reclaims[a][t]
  BY DEF BalancesOK, PullFunds
<1> QED
  BY <1>1, <1>2 DEF Holdings

\* A push does, paid out or kept back for the account.
LEMMA PushHoldings ==
  ASSUME BalancesOK, NEW a \in Accounts, NEW t \in Tokens, NEW amount \in Nat,
         NonRevertingPushFunds(a, t, amount)
  PROVE  Holdings(a, t)' = Holdings(a, t) + amount
<1>1. wallet[a][t] \in Nat /\ reclaims[a][t] \in Nat
  BY DEF BalancesOK
<1>2. CASE /\ wallet' = [wallet EXCEPT ![a][t] = @ + amount]
           /\ UNCHANGED reclaims
  <2>1. wallet'[a][t] = wallet[a][t] + amount /\ reclaims'[a][t] = reclaims[a][t]
    BY <1>2 DEF BalancesOK
  <2> QED
    BY <1>1, <2>1 DEF Holdings
<1>3. CASE /\ reclaims' = [reclaims EXCEPT ![a][t] = @ + amount]
           /\ UNCHANGED wallet
  <2>1. reclaims'[a][t] = reclaims[a][t] + amount /\ wallet'[a][t] = wallet[a][t]
    BY <1>3 DEF BalancesOK
  <2> QED
    BY <1>1, <2>1 DEF Holdings
<1> QED
  BY <1>2, <1>3 DEF NonRevertingPushFunds

\* What is moved to or from the user, by its sign.
LEMMA MoveHoldings ==
  ASSUME BalancesOK, NEW a \in Accounts, NEW t \in Tokens, NEW delta \in Int,
         MoveUserFunds(a, t, delta)
  PROVE  Holdings(a, t)' - Holdings(a, t) = -delta
<1>1. Holdings(a, t) \in Int
  BY DEF BalancesOK, Holdings
<1>2. CASE delta >= 0 /\ PullFunds(a, t, delta)
  BY <1>1, <1>2, PullHoldings
<1>3. CASE delta < 0 /\ NonRevertingPushFunds(a, t, -delta)
  <2>1. -delta \in Nat
    BY <1>3
  <2> QED
    BY <1>1, <1>3, <2>1, PushHoldings
<1> QED
  BY <1>2, <1>3 DEF MoveUserFunds

\* A channel without a definition has no flows.
NoFlowsYet(m) == m.status = "VOID" => m.lastState.homeLedger.userNetFlow = 0

\* The engine moves the change of the user's net flow, for every intent, unless
\* the channel comes back from another chain or leaves for one.
LEMMA FundsDeltaIsFlowDelta ==
  ASSUME NEW m \in ChannelMeta, NEW s \in State, NEW available, NEW time,
         validateTransition(m, s, available, time), NoFlowsYet(m),
         m.status # "MIGRATED_OUT", newStatus(m, s) # "MIGRATED_OUT"
  PROVE  userFundsDelta(m, s) = s.homeLedger.userNetFlow - m.lastState.homeLedger.userNetFlow
<1>1. m.lastState.homeLedger.userNetFlow \in Int /\ s.homeLedger.userNetFlow \in Int
  BY StateFields DEF ChannelMeta
<1>2. CASE s.intent \in {"DEPOSIT", "WITHDRAW", "CLOSE"}
  BY <1>2 DEF userFundsDelta, UserNfDelta
<1>3. CASE s.intent \notin {"DEPOSIT", "WITHDRAW", "CLOSE"}
  <2>1. userFundsDelta(m, s) = 0
    BY <1>3 DEF userFundsDelta
  <2>2. ~(s.intent = "FINALIZE_MIGRATION" /\ finalizeMigrationOutAllowed(m, s))
    BY DEF newStatus, finalizeMigrationOutAllowed
  <2>3. CASE s.intent = "INITIATE_MIGRATION" /\ initiateMigrationInAllowed(m, s)
    BY <1>1, <2>1, <2>3 DEF initiateMigrationInAllowed, NoFlowsYet
  <2>4. CASE UserNfDelta(m, s) = 0
    BY <1>1, <2>1, <2>4 DEF UserNfDelta
  <2>5. \/ s.intent = "INITIATE_MIGRATION" /\ initiateMigrationInAllowed(m, s)
        \/ UserNfDelta(m, s) = 0
    BY <1>3, <2>2 DEF validateTransition, intentAllowed, operateAllowed,
       initiateEscrowDepositAllowed, finalizeEscrowDepositAllowed,
       initiateEscrowWithdrawalAllowed, finalizeEscrowWithdrawalAllowed,
       initiateMigrationOutAllowed, finalizeMigrationInAllowed
  <2> QED
    BY <2>3, <2>4, <2>5
<1> QED
  BY <1>2, <1>3

\* The property of one channel and one token.
RealFlow(c, t) ==
  LET old == channels[c].lastState
      new == channels'[c].lastState
  IN  /\ new # old
      /\ t = new.homeLedger.token
      /\ channels[c].status # "MIGRATED_OUT"
      /\ channels'[c].status # "MIGRATED_OUT"
      => Holdings(User[c], t)' - Holdings(User[c], t)
           = old.homeLedger.userNetFlow - new.homeLedger.userNetFlow

\* A state that is enforced, or enforced and challenged, moves what it says.
LEMMA ApplyRealFlow ==
  ASSUME TypeOK, NEW c \in Channels, NoFlowsYet(channels[c]), NEW s \in State, NEW meta,
         meta.lastState = s,
         meta.status # "MIGRATED_OUT" => newStatus(channels[c], s) # "MIGRATED_OUT",
         validateTransition(channels[c], s, nodeBalances[s.homeLedger.token], now),
         ApplyTransitionEffects(c, s, meta), NEW t \in Tokens
  PROVE  RealFlow(c, t)
<1> DEFINE m == channels[c]
<1>1. m \in ChannelMeta /\ BalancesOK /\ User[c] \in Accounts
  BY TypeOKParts, ConstantsOK DEF Accounts
<1>2. channels'[c] = meta
  BY DEF TypeOK, ApplyTransitionEffects
<1>3. userFundsDelta(m, s) \in Int
  BY <1>1, DeltasAreIntegers
<1>4. m.lastState.homeLedger.userNetFlow \in Int /\ s.homeLedger.userNetFlow \in Int
  BY <1>1, StateFields DEF ChannelMeta
<1>5. SUFFICES ASSUME t = s.homeLedger.token, m.status # "MIGRATED_OUT",
                      meta.status # "MIGRATED_OUT"
               PROVE  Holdings(User[c], t)' - Holdings(User[c], t)
                        = m.lastState.homeLedger.userNetFlow - s.homeLedger.userNetFlow
  BY <1>2 DEF RealFlow
<1>6. MoveUserFunds(User[c], t, userFundsDelta(m, s))
  BY <1>5 DEF ApplyTransitionEffects
<1>7. Holdings(User[c], t)' - Holdings(User[c], t) = -userFundsDelta(m, s)
  BY <1>1, <1>3, <1>6, MoveHoldings
<1>8. userFundsDelta(m, s) = s.homeLedger.userNetFlow - m.lastState.homeLedger.userNetFlow
  BY <1>1, <1>5, FundsDeltaIsFlowDelta
<1> QED
  BY <1>4, <1>7, <1>8

\* Every step on a channel moves what its state says, and a channel gets its
\* first state together with a status.
LEMMA ChannelNextRealFlow ==
  ASSUME TypeOK, \A d \in Channels : NoFlowsYet(channels[d]), ChannelNext
  PROVE  /\ \A d \in Channels : NoFlowsYet(channels'[d])
         /\ \A d \in Channels, t \in Tokens : RealFlow(d, t)
<1>1. PICK c \in Channels :
        \/ \E s \in State : \/ EnforceState(c, s)
                            \/ \E sender : challengeWithNewerState(c, s, sender)
        \/ challengeWithSameVersion(c)
        \/ closeAfterChallenge(c)
  BY ChannelSteps
<1>2. channels \in [Channels -> ChannelMeta] /\ channels[c] \in ChannelMeta
  BY DEF TypeOK
<1>3. ASSUME NEW n, channels' = [channels EXCEPT ![c] = n], NoFlowsYet(n),
             \A t \in Tokens : RealFlow(c, t)
      PROVE  /\ \A d \in Channels : NoFlowsYet(channels'[d])
             /\ \A d \in Channels, t \in Tokens : RealFlow(d, t)
  <2>1. \A d \in Channels : d # c => channels'[d] = channels[d]
    BY <1>2, <1>3
  <2>2. channels'[c] = n
    BY <1>2, <1>3
  <2>3. \A d \in Channels : NoFlowsYet(channels'[d])
    BY <1>3, <2>1, <2>2
  <2>4. ASSUME NEW d \in Channels, NEW t \in Tokens PROVE RealFlow(d, t)
    BY <1>3, <2>1 DEF RealFlow
  <2> QED
    BY <2>3, <2>4
<1>4. ASSUME NEW s \in State, EnforceState(c, s)
      PROVE  /\ \A d \in Channels : NoFlowsYet(channels'[d])
             /\ \A d \in Channels, t \in Tokens : RealFlow(d, t)
  <2> DEFINE n == EnforcedMeta(channels[c], s)
  <2>1. n.lastState = s /\ n.status = newStatus(channels[c], s)
    BY DEF EnforcedMeta
  <2>2. NoFlowsYet(n)
    BY <2>1, NewStatusType DEF NoFlowsYet
  <2> HIDE DEF n
  <2>3. /\ validateTransition(channels[c], s, nodeBalances[s.homeLedger.token], now)
        /\ ApplyTransitionEffects(c, s, n)
    BY <1>4 DEF EnforceState, n
  <2>4. \A t \in Tokens : RealFlow(c, t)
    BY <2>1, <2>3, ApplyRealFlow
  <2>5. channels' = [channels EXCEPT ![c] = n]
    BY <2>3 DEF ApplyTransitionEffects
  <2> QED
    BY <1>3, <2>2, <2>4, <2>5
<1>5. ASSUME NEW s \in State, NEW sender, challengeWithNewerState(c, s, sender)
      PROVE  /\ \A d \in Channels : NoFlowsYet(channels'[d])
             /\ \A d \in Channels, t \in Tokens : RealFlow(d, t)
  <2> DEFINE n == [status |-> "DISPUTED", lastState |-> s,
                   challengeExpireAt |-> ChallengeExpiry(c),
                   lockedFunds |-> expectedLocked(channels[c], s)]
  <2>1. n.lastState = s /\ n.status = "DISPUTED" /\ NoFlowsYet(n)
    BY DEF NoFlowsYet
  <2>2. /\ validateTransition(channels[c], s, nodeBalances[s.homeLedger.token], now)
        /\ ApplyTransitionEffects(c, s, n)
    BY <1>5 DEF challengeWithNewerState
  <2> HIDE DEF n
  <2>3. newStatus(channels[c], s) # "MIGRATED_OUT"
    BY <1>5, ChallengeDoesNotClose DEF closesChannel
  <2>4. \A t \in Tokens : RealFlow(c, t)
    BY <2>1, <2>2, <2>3, ApplyRealFlow
  <2>5. channels' = [channels EXCEPT ![c] = n]
    BY <2>2 DEF ApplyTransitionEffects
  <2> QED
    BY <1>3, <2>1, <2>4, <2>5
<1>6. CASE challengeWithSameVersion(c)
  <2> DEFINE n == [channels[c] EXCEPT !.status = "DISPUTED",
                                      !.challengeExpireAt = ChallengeExpiry(c)]
  <2>1. channels' = [channels EXCEPT ![c] = n] /\ channels'[c] = n
    BY <1>2, <1>6 DEF challengeWithSameVersion
  <2>2. n.lastState = channels[c].lastState /\ n.status = "DISPUTED"
    BY <1>2 DEF ChannelMeta
  <2>3. NoFlowsYet(n) /\ \A t \in Tokens : RealFlow(c, t)
    BY <2>1, <2>2 DEF NoFlowsYet, RealFlow
  <2> QED
    BY <1>3, <2>1, <2>3
<1>7. CASE closeAfterChallenge(c)
  <2> DEFINE n == [channels[c] EXCEPT !.status = "CLOSED", !.lockedFunds = 0,
                                      !.challengeExpireAt = 0]
  <2>1. channels' = [channels EXCEPT ![c] = n] /\ channels'[c] = n
    BY <1>2, <1>7 DEF closeAfterChallenge
  <2>2. n.lastState = channels[c].lastState /\ n.status = "CLOSED"
    BY <1>2 DEF ChannelMeta
  <2>3. NoFlowsYet(n) /\ \A t \in Tokens : RealFlow(c, t)
    BY <2>1, <2>2 DEF NoFlowsYet, RealFlow
  <2> QED
    BY <1>3, <2>1, <2>3
<1> QED
  BY <1>1, <1>4, <1>5, <1>6, <1>7

\* What the users pay in and take out follows the states they signed: enforcing
\* a state, by any function and with any intent, changes what the user can take
\* home by exactly the change of userNetFlow, for every set of co-signed states.
\* The exceptions are the two ends of a migration.
THEOREM FlowsAreReal == Spec => NetFlowIsReal
<1> DEFINE Inv == \A c \in Channels : NoFlowsYet(channels[c])
           Step == \A c \in Channels, t \in Tokens : RealFlow(c, t)
<1>1. Init => Inv
  BY DEF Init, NoFlowsYet, EmptyState, EmptyLedger
<1>2. TypeOK /\ Inv /\ [Next]_vars => Inv' /\ Step
  <2> SUFFICES ASSUME TypeOK, Inv, [Next]_vars PROVE Inv' /\ Step
    OBVIOUS
  <2>1. CASE ChannelNext
    BY <2>1, ChannelNextRealFlow
  <2>2. CASE ~ChannelNext
    BY <2>2, OtherStepsKeepChannels DEF NoFlowsYet, RealFlow
  <2> QED
    BY <2>1, <2>2
<1>3. TypeOK /\ Inv /\ [Next]_vars => Inv' /\ [Step]_vars
  BY <1>2
<1> HIDE DEF Inv, Step
<1>4. Spec => [][Step]_vars
  BY <1>1, <1>3, TypeCorrect, PTL DEF Spec
<1> QED
  BY <1>4 DEF NetFlowIsReal, Step, RealFlow

-------------------------------------------------------------------------------
(* To whom an escrow goes *)

\* An escrow that was ever opened is in a token of this chain.
HeldHere(m) == m.status # "VOID" => EscrowToken(m) \in Tokens

EscrowsHeldHere ==
  /\ \A e \in EscrowIds : HeldHere(escrowDeposits[e])
  /\ \A e \in EscrowIds : HeldHere(escrowWithdrawals[e])

\* The two halves of EscrowGoesToItsOwner, for one escrow.
DepositPaid(e) ==
  LET m == escrowDeposits[e]
  IN  Finalizes(m, escrowDeposits'[e]) =>
        \/ UserGains(e[1], EscrowToken(m), m.lockedAmount)
           /\ EscrowChallengeExpired(m)
        \/ ~EscrowChallengeExpired(m)
           /\ \/ HasSuccessor(m, e[1], "FINALIZE_ESCROW_DEPOSIT")
              \/ m.status = "INITIALIZED" /\ m.unlockAt <= now

WithdrawalPaid(e) ==
  LET w == escrowWithdrawals[e]
  IN  Finalizes(w, escrowWithdrawals'[e]) =>
        \/ UserGains(e[1], EscrowToken(w), w.lockedAmount)
           /\ HasSuccessor(w, e[1], "FINALIZE_ESCROW_WITHDRAWAL")
        \/ EscrowChallengeExpired(w)

\* A purge releases only what is unlocked.
LEMMA PurgedIsUnlocked ==
  ASSUME TypeOK, NEW ed, NEW steps \in Nat, NEW e \in Purged(ed, steps)
  PROVE  ed[e].status = "INITIALIZED" /\ ed[e].unlockAt <= now
<1> DEFINE ids == escrowDepositIds
           end == PurgeEnd(ed, steps)
<1>1. ids \in Seq(EscrowIds) /\ escrowHead \in 0..Len(ids) /\ Len(ids) \in Nat
  BY DEF TypeOK
<1>2. end \in escrowHead..Len(ids) /\ \A j \in escrowHead..(end - 1) : ~BlocksPurge(ed, j)
  BY <1>1, PurgeEndRange
<1>3. PICK i \in (escrowHead + 1)..end : e = ids[i] /\ ed[ids[i]].status = "INITIALIZED"
  BY DEF Purged
<1>4. i - 1 \in escrowHead..(end - 1) /\ (i - 1) + 1 = i
  BY <1>1, <1>2
<1>5. ~BlocksPurge(ed, i - 1)
  BY <1>2, <1>4
<1> QED
  BY <1>3, <1>4, <1>5 DEF BlocksPurge, isEscrowDepositSkippable, isEscrowDepositUnlockable

\* What a purge makes of each deposit.
LEMMA PurgeRecords ==
  ASSUME TypeOK, NEW nb, NEW ed, NEW steps \in Nat, PurgeEscrowDeposits(nb, ed, steps),
         NEW e \in EscrowIds
  PROVE  \/ escrowDeposits'[e] = ed[e]
         \/ /\ escrowDeposits'[e] = finalizedDeposit(ed[e])
            /\ ed[e].status = "INITIALIZED" /\ ed[e].unlockAt <= now
<1>1. escrowDeposits'[e] = IF e \in Purged(ed, steps) THEN finalizedDeposit(ed[e]) ELSE ed[e]
  BY DEF PurgeEscrowDeposits
<1> QED
  BY <1>1, PurgedIsUnlocked

\* A purge by itself pays as it should.
LEMMA PurgePays ==
  ASSUME TypeOK, NEW nb, NEW steps \in Nat, PurgeEscrowDeposits(nb, escrowDeposits, steps),
         \A e \in EscrowIds : HeldHere(escrowDeposits[e])
  PROVE  \A e \in EscrowIds : DepositPaid(e) /\ HeldHere(escrowDeposits'[e])
<1> SUFFICES ASSUME NEW e \in EscrowIds PROVE DepositPaid(e) /\ HeldHere(escrowDeposits'[e])
  OBVIOUS
<1>1. escrowDeposits[e] \in EscrowDepositMeta
  BY DEF TypeOK
<1>2. CASE escrowDeposits'[e] = escrowDeposits[e]
  BY <1>2 DEF DepositPaid, Finalizes, HeldHere
<1>3. CASE /\ escrowDeposits'[e] = finalizedDeposit(escrowDeposits[e])
           /\ escrowDeposits[e].status = "INITIALIZED" /\ escrowDeposits[e].unlockAt <= now
  <2>1. finalizedDeposit(escrowDeposits[e]).initState = escrowDeposits[e].initState
    BY <1>1 DEF finalizedDeposit, EscrowDepositMeta
  <2>2. HeldHere(escrowDeposits'[e])
    BY <1>3, <2>1 DEF HeldHere, EscrowToken
  <2>3. DepositPaid(e)
    BY <1>3 DEF DepositPaid, EscrowChallengeExpired
  <2> QED
    BY <2>2, <2>3
<1> QED
  BY <1>2, <1>3, PurgeRecords

\* A purge after the record n of one deposit was written.
LEMMA UpdatePays ==
  ASSUME TypeOK, NEW nb, NEW steps \in Nat, NEW e \in EscrowIds, NEW n \in EscrowDepositMeta,
         PurgeEscrowDeposits(nb, [escrowDeposits EXCEPT ![e] = n], steps),
         \A d \in EscrowIds : HeldHere(escrowDeposits[d]), HeldHere(n),
         ~(n.status = "INITIALIZED" /\ n.unlockAt <= now),
         escrowDeposits'[e] = n => DepositPaid(e)
  PROVE  \A d \in EscrowIds : DepositPaid(d) /\ HeldHere(escrowDeposits'[d])
<1> DEFINE ed == [escrowDeposits EXCEPT ![e] = n]
<1>1. /\ ed[e] = n
      /\ \A d \in EscrowIds : d # e => ed[d] = escrowDeposits[d]
      /\ \A d \in EscrowIds : escrowDeposits[d] \in EscrowDepositMeta
  BY DEF TypeOK
<1> HIDE DEF ed
<1>2. PurgeEscrowDeposits(nb, ed, steps)
  BY DEF ed
<1>3. DepositPaid(e) /\ HeldHere(escrowDeposits'[e])
  BY <1>1, <1>2, PurgeRecords
<1>4. ASSUME NEW d \in EscrowIds, d # e PROVE DepositPaid(d) /\ HeldHere(escrowDeposits'[d])
  <2> DEFINE m == escrowDeposits[d]
  <2>1. ed[d] = m /\ m \in EscrowDepositMeta
    BY <1>1, <1>4
  <2>2. CASE escrowDeposits'[d] = m
    BY <2>2 DEF DepositPaid, Finalizes, HeldHere
  <2>3. CASE /\ escrowDeposits'[d] = finalizedDeposit(m)
             /\ m.status = "INITIALIZED" /\ m.unlockAt <= now
    <3>1. finalizedDeposit(m).initState = m.initState
      BY <2>1 DEF finalizedDeposit, EscrowDepositMeta
    <3>2. HeldHere(escrowDeposits'[d])
      BY <2>3, <3>1 DEF HeldHere, EscrowToken
    <3>3. DepositPaid(d)
      BY <2>3 DEF DepositPaid, EscrowChallengeExpired
    <3> QED
      BY <3>2, <3>3
  <2> QED
    BY <1>2, <2>1, <2>2, <2>3, PurgeRecords
<1> QED
  BY <1>3, <1>4

\* The record n of one withdrawal is written.
LEMMA UpdateWithdrawalPays ==
  ASSUME TypeOK, NEW e \in EscrowIds, NEW n, HeldHere(n),
         \A d \in EscrowIds : HeldHere(escrowWithdrawals[d]),
         escrowWithdrawals' = [escrowWithdrawals EXCEPT ![e] = n],
         escrowWithdrawals'[e] = n => WithdrawalPaid(e)
  PROVE  \A d \in EscrowIds : WithdrawalPaid(d) /\ HeldHere(escrowWithdrawals'[d])
<1>1. /\ escrowWithdrawals'[e] = n
      /\ \A d \in EscrowIds : d # e => escrowWithdrawals'[d] = escrowWithdrawals[d]
  BY DEF TypeOK
<1> QED
  BY <1>1 DEF WithdrawalPaid, Finalizes

\* What each step leaves of a record's status, token and time.
LEMMA InitiatedToken ==
  ASSUME NEW m \in EscrowDepositMeta, NEW w \in EscrowWithdrawalMeta, NEW s, NEW time
  PROVE  /\ initiatedDeposit(m, s, time).status = "INITIALIZED"
         /\ initiatedDeposit(m, s, time).unlockAt = time + UnlockDelay
         /\ EscrowToken(initiatedDeposit(m, s, time)) = s.nonHomeLedger.token
         /\ initiatedWithdrawal(w, s).status = "INITIALIZED"
         /\ EscrowToken(initiatedWithdrawal(w, s)) = s.nonHomeLedger.token
BY DEF initiatedDeposit, initiatedWithdrawal, EscrowToken, EscrowDepositMeta,
   EscrowWithdrawalMeta

\* A challenge changes the status and keeps the token.
LEMMA ChallengedToken ==
  ASSUME NEW m \in EscrowDepositMeta, NEW w \in EscrowWithdrawalMeta, NEW time
  PROVE  /\ challengedDeposit(m, time).status = "DISPUTED"
         /\ EscrowToken(challengedDeposit(m, time)) = EscrowToken(m)
         /\ challengedWithdrawal(w, time).status = "DISPUTED"
         /\ EscrowToken(challengedWithdrawal(w, time)) = EscrowToken(w)
BY DEF challengedDeposit, challengedWithdrawal, EscrowToken, EscrowDepositMeta,
   EscrowWithdrawalMeta

\* So does the end.
LEMMA FinalizedToken ==
  ASSUME NEW m \in EscrowDepositMeta, NEW w \in EscrowWithdrawalMeta
  PROVE  /\ finalizedDeposit(m).status = "FINALIZED"
         /\ EscrowToken(finalizedDeposit(m)) = EscrowToken(m)
         /\ [finalizedDeposit(m) EXCEPT !.challengeExpireAt = 0].status = "FINALIZED"
         /\ EscrowToken([finalizedDeposit(m) EXCEPT !.challengeExpireAt = 0]) = EscrowToken(m)
         /\ EscrowToken(finalizedWithdrawal(w)) = EscrowToken(w)
         /\ EscrowToken([finalizedWithdrawal(w) EXCEPT !.challengeExpireAt = 0]) = EscrowToken(w)
BY DEF finalizedDeposit, finalizedWithdrawal, EscrowToken, EscrowDepositMeta,
   EscrowWithdrawalMeta

\* The engines admit only states whose escrow is in a token of this chain.
LEMMA EscrowTokenIsHere ==
  ASSUME NEW m, NEW s, NEW time, escrowUniversal(m, s, time)
  PROVE  s.nonHomeLedger.token \in Tokens
BY DEF escrowUniversal, validateTokenDecimals

\* Every escrow goes to its owner in this step.
EscrowStepPays ==
  \A e \in EscrowIds : DepositPaid(e) /\ WithdrawalPaid(e)

\* Every step on an escrow pays its owner.
LEMMA EscrowNextPays ==
  ASSUME TypeOK, EscrowsHeldHere, EscrowNext
  PROVE  EscrowsHeldHere' /\ EscrowStepPays
<1>1. ASSUME NEW e \in EscrowIds
      PROVE  /\ escrowDeposits[e] \in EscrowDepositMeta /\ HeldHere(escrowDeposits[e])
             /\ escrowWithdrawals[e] \in EscrowWithdrawalMeta /\ HeldHere(escrowWithdrawals[e])
             /\ e[1] \in Channels /\ User[e[1]] \in Accounts
  BY ConstantsOK DEF TypeOK, EscrowsHeldHere, EscrowIds, Accounts
<1>2. /\ now \in Nat /\ EmptyState \in State /\ BalancesOK /\ MaxDepositEscrowSteps \in Nat
      /\ UnlockDelay \in Nat \ {0}
  BY EmptyIsState, TypeOKParts, HubConstantsOK, EscrowDelaysOK
<1>3. ASSUME UNCHANGED escrowWithdrawals,
             \A e \in EscrowIds : DepositPaid(e) /\ HeldHere(escrowDeposits'[e])
      PROVE  EscrowsHeldHere' /\ EscrowStepPays
  BY <1>3 DEF EscrowsHeldHere, EscrowStepPays, WithdrawalPaid, Finalizes
<1>4. ASSUME NEW nb, PurgeEscrowDeposits(nb, escrowDeposits, MaxDepositEscrowSteps),
             \A e \in EscrowIds : WithdrawalPaid(e) /\ HeldHere(escrowWithdrawals'[e])
      PROVE  EscrowsHeldHere' /\ EscrowStepPays
  <2>1. \A e \in EscrowIds : DepositPaid(e) /\ HeldHere(escrowDeposits'[e])
    BY <1>1, <1>2, <1>4, PurgePays
  <2> QED
    BY <1>4, <2>1 DEF EscrowsHeldHere, EscrowStepPays
<1>5. ASSUME NEW c \in Channels, NEW s \in Signed[c], initiateEscrowDeposit(c, s)
      PROVE  EscrowsHeldHere' /\ EscrowStepPays
  <2> DEFINE e == EscrowIdOf(c, s)
             n == initiatedDeposit(escrowDeposits[e], s, now)
  <2>1. e \in EscrowIds /\ s \in State
    BY EscrowIdInRange
  <2>2. n \in EscrowDepositMeta
    BY <1>1, <1>2, <2>1, EscrowDepositRecords
  <2>3. s.nonHomeLedger.token \in Tokens
    BY <1>5, EscrowTokenIsHere DEF initiateEscrowDeposit
  <2>4. n.status = "INITIALIZED" /\ n.unlockAt > now /\ HeldHere(n)
    <3>1. /\ n.status = "INITIALIZED" /\ n.unlockAt = now + UnlockDelay
          /\ EscrowToken(n) = s.nonHomeLedger.token
      BY <1>1, <2>1, InitiatedToken
    <3> HIDE DEF n
    <3> QED
      BY <1>2, <2>3, <3>1 DEF HeldHere
  <2>5. PurgeEscrowDeposits(nodeBalances, [escrowDeposits EXCEPT ![e] = n],
                            MaxDepositEscrowSteps) /\ UNCHANGED escrowWithdrawals
    BY <1>5 DEF initiateEscrowDeposit
  <2> HIDE DEF e, n
  <2>6. ~(n.status = "INITIALIZED" /\ n.unlockAt <= now)
    BY <1>2, <2>2, <2>4 DEF EscrowDepositMeta
  <2>7. escrowDeposits'[e] = n => DepositPaid(e)
    BY <2>4 DEF DepositPaid, Finalizes
  <2> QED
    BY <1>1, <1>2, <1>3, <2>1, <2>2, <2>4, <2>5, <2>6, <2>7, UpdatePays
<1>6. ASSUME NEW c \in Channels, NEW s \in Signed[c], initiateEscrowWithdrawal(c, s)
      PROVE  EscrowsHeldHere' /\ EscrowStepPays
  <2> DEFINE e == EscrowIdOf(c, s)
             n == initiatedWithdrawal(escrowWithdrawals[e], s)
  <2>1. e \in EscrowIds /\ s \in State
    BY EscrowIdInRange
  <2>2. s.nonHomeLedger.token \in Tokens
    BY <1>6, EscrowTokenIsHere DEF initiateEscrowWithdrawal
  <2>3. n.status = "INITIALIZED" /\ HeldHere(n)
    <3>1. n.status = "INITIALIZED" /\ EscrowToken(n) = s.nonHomeLedger.token
      BY <1>1, <2>1, InitiatedToken
    <3> QED
      BY <2>2, <3>1 DEF HeldHere
  <2>4. escrowWithdrawals' = [escrowWithdrawals EXCEPT ![e] = n]
    BY <1>6 DEF initiateEscrowWithdrawal
  <2>5. PICK nb : PurgeEscrowDeposits(nb, escrowDeposits, MaxDepositEscrowSteps)
    BY <1>6 DEF initiateEscrowWithdrawal
  <2> HIDE DEF e, n
  <2>6. escrowWithdrawals'[e] = n => WithdrawalPaid(e)
    BY <2>3 DEF WithdrawalPaid, Finalizes
  <2> QED
    BY <1>1, <1>4, <2>1, <2>3, <2>4, <2>5, <2>6, UpdateWithdrawalPays
<1>7. ASSUME NEW e \in EscrowIds, challengeEscrowDeposit(e)
      PROVE  EscrowsHeldHere' /\ EscrowStepPays
  <2> DEFINE n == challengedDeposit(escrowDeposits[e], now)
  <2>1. n \in EscrowDepositMeta
    BY <1>1, <1>2, EscrowDepositRecords
  <2>2. escrowDeposits[e].status # "VOID"
    BY <1>7 DEF challengeEscrowDeposit, challengeDepositAllowed
  <2>3. n.status = "DISPUTED" /\ HeldHere(n)
    BY <1>1, <1>2, <2>2, ChallengedToken DEF HeldHere
  <2>4. PurgeEscrowDeposits(nodeBalances, [escrowDeposits EXCEPT ![e] = n],
                            MaxDepositEscrowSteps) /\ UNCHANGED escrowWithdrawals
    BY <1>7 DEF challengeEscrowDeposit
  <2> HIDE DEF n
  <2>5. escrowDeposits'[e] = n => DepositPaid(e)
    BY <2>3 DEF DepositPaid, Finalizes
  <2> QED
    BY <1>1, <1>2, <1>3, <2>1, <2>3, <2>4, <2>5, UpdatePays
<1>8. ASSUME NEW e \in EscrowIds, refundEscrowDeposit(e)
      PROVE  EscrowsHeldHere' /\ EscrowStepPays
  <2> DEFINE m == escrowDeposits[e]
             n == [finalizedDeposit(m) EXCEPT !.challengeExpireAt = 0]
  <2>1. n \in EscrowDepositMeta /\ m.lockedAmount \in Nat
    BY <1>1, <1>2, EscrowDepositRecords
  <2>2. EscrowChallengeExpired(m) /\ EscrowToken(m) \in Tokens
    BY <1>1, <1>8 DEF refundEscrowDeposit, EscrowChallengeExpired, HeldHere
  <2>3. n.status = "FINALIZED" /\ HeldHere(n)
    BY <1>1, <1>2, <2>2, FinalizedToken DEF HeldHere
  <2>4. NonRevertingPushFunds(User[e[1]], EscrowToken(m), m.lockedAmount)
    BY <1>8 DEF refundEscrowDeposit
  <2>5. UserGains(e[1], EscrowToken(m), m.lockedAmount)
    <3>1. PICK t \in Tokens, amount \in Nat : t = EscrowToken(m) /\ amount = m.lockedAmount
      BY <2>1, <2>2
    <3>2. NonRevertingPushFunds(User[e[1]], t, amount)
      BY <2>4, <3>1
    <3>3. Holdings(User[e[1]], t)' = Holdings(User[e[1]], t) + amount
      BY <1>1, <1>2, <3>2, PushHoldings
    <3> QED
      BY <3>1, <3>3 DEF UserGains, Holdings
  <2>6. PurgeEscrowDeposits(nodeBalances, [escrowDeposits EXCEPT ![e] = n],
                            MaxDepositEscrowSteps) /\ UNCHANGED escrowWithdrawals
    BY <1>8 DEF refundEscrowDeposit
  <2> HIDE DEF n
  <2>7. DepositPaid(e)
    BY <2>2, <2>5 DEF DepositPaid
  <2> QED
    BY <1>1, <1>2, <1>3, <2>1, <2>3, <2>6, <2>7, UpdatePays
<1>9. ASSUME NEW e \in EscrowIds, NEW s \in Signed[e[1]], finalizeEscrowDeposit(e, s)
      PROVE  EscrowsHeldHere' /\ EscrowStepPays
  <2> DEFINE m == escrowDeposits[e]
             n == finalizedDeposit(m)
  <2>1. n \in EscrowDepositMeta
    BY <1>1, <1>2, EscrowDepositRecords
  <2>2. /\ ~EscrowChallengeExpired(m)
        /\ m.status # "VOID"
        /\ s.intent = "FINALIZE_ESCROW_DEPOSIT" /\ s.version = m.initState.version + 1
    BY <1>9 DEF finalizeEscrowDeposit, finalizeDepositAllowed, escrowSuccessor
  <2>3. n.status = "FINALIZED" /\ HeldHere(n)
    BY <1>1, <1>2, <2>2, FinalizedToken DEF HeldHere
  <2>4. PICK nb : PurgeEscrowDeposits(nb, [escrowDeposits EXCEPT ![e] = n],
                                      MaxDepositEscrowSteps) /\ UNCHANGED escrowWithdrawals
    BY <1>9 DEF finalizeEscrowDeposit
  <2>5. HasSuccessor(m, e[1], "FINALIZE_ESCROW_DEPOSIT")
    BY <2>2 DEF HasSuccessor
  <2> HIDE DEF n
  <2>6. DepositPaid(e)
    BY <2>2, <2>5 DEF DepositPaid
  <2> QED
    BY <1>1, <1>2, <1>3, <2>1, <2>3, <2>4, <2>6, UpdatePays
<1>10. ASSUME NEW e \in EscrowIds, challengeEscrowWithdrawal(e)
       PROVE  EscrowsHeldHere' /\ EscrowStepPays
  <2> DEFINE n == challengedWithdrawal(escrowWithdrawals[e], now)
  <2>1. escrowWithdrawals[e].status # "VOID"
    BY <1>10 DEF challengeEscrowWithdrawal, challengeWithdrawalAllowed
  <2>2. n.status = "DISPUTED" /\ HeldHere(n)
    BY <1>1, <1>2, <2>1, ChallengedToken DEF HeldHere
  <2>3. /\ escrowWithdrawals' = [escrowWithdrawals EXCEPT ![e] = n]
        /\ PurgeEscrowDeposits(nodeBalances, escrowDeposits, MaxDepositEscrowSteps)
    BY <1>10 DEF challengeEscrowWithdrawal
  <2> HIDE DEF n
  <2>4. escrowWithdrawals'[e] = n => WithdrawalPaid(e)
    BY <2>2 DEF WithdrawalPaid, Finalizes
  <2> QED
    BY <1>1, <1>4, <2>2, <2>3, <2>4, UpdateWithdrawalPays
<1>11. ASSUME NEW e \in EscrowIds, revertEscrowWithdrawal(e)
       PROVE  EscrowsHeldHere' /\ EscrowStepPays
  <2> DEFINE m == escrowWithdrawals[e]
             n == [finalizedWithdrawal(m) EXCEPT !.challengeExpireAt = 0]
  <2>1. EscrowChallengeExpired(m) /\ m.status # "VOID"
    BY <1>11 DEF revertEscrowWithdrawal, EscrowChallengeExpired
  <2>2. HeldHere(n)
    BY <1>1, <1>2, <2>1, FinalizedToken DEF HeldHere
  <2>3. escrowWithdrawals' = [escrowWithdrawals EXCEPT ![e] = n]
    BY <1>11 DEF revertEscrowWithdrawal
  <2>4. PICK nb : PurgeEscrowDeposits(nb, escrowDeposits, MaxDepositEscrowSteps)
    BY <1>11 DEF revertEscrowWithdrawal
  <2> HIDE DEF n
  <2>5. WithdrawalPaid(e)
    BY <2>1 DEF WithdrawalPaid
  <2> QED
    BY <1>1, <1>4, <2>2, <2>3, <2>4, <2>5, UpdateWithdrawalPays
<1>12. ASSUME NEW e \in EscrowIds, NEW s \in Signed[e[1]], finalizeEscrowWithdrawal(e, s)
       PROVE  EscrowsHeldHere' /\ EscrowStepPays
  <2> DEFINE m == escrowWithdrawals[e]
             n == finalizedWithdrawal(m)
  <2>1. /\ m.status # "VOID"
        /\ s.intent = "FINALIZE_ESCROW_WITHDRAWAL" /\ s.version = m.initState.version + 1
    BY <1>12 DEF finalizeEscrowWithdrawal, finalizeWithdrawalAllowed, escrowSuccessor
  <2>2. EscrowToken(m) \in Tokens /\ m.lockedAmount \in Nat
    BY <1>1, <2>1 DEF HeldHere, EscrowWithdrawalMeta
  <2>3. HeldHere(n)
    BY <1>1, <1>2, <2>1, FinalizedToken DEF HeldHere
  <2>4. /\ NonRevertingPushFunds(User[e[1]], EscrowToken(m), m.lockedAmount)
        /\ escrowWithdrawals' = [escrowWithdrawals EXCEPT ![e] = n]
        /\ PurgeEscrowDeposits(nodeBalances, escrowDeposits, MaxDepositEscrowSteps)
    BY <1>12 DEF finalizeEscrowWithdrawal
  <2>5. UserGains(e[1], EscrowToken(m), m.lockedAmount)
    <3>1. PICK t \in Tokens, amount \in Nat : t = EscrowToken(m) /\ amount = m.lockedAmount
      BY <2>2
    <3>2. NonRevertingPushFunds(User[e[1]], t, amount)
      BY <2>4, <3>1
    <3>3. Holdings(User[e[1]], t)' = Holdings(User[e[1]], t) + amount
      BY <1>1, <1>2, <3>2, PushHoldings
    <3> QED
      BY <3>1, <3>3 DEF UserGains, Holdings
  <2>6. HasSuccessor(m, e[1], "FINALIZE_ESCROW_WITHDRAWAL")
    BY <2>1 DEF HasSuccessor
  <2> HIDE DEF n
  <2>7. WithdrawalPaid(e)
    BY <2>5, <2>6 DEF WithdrawalPaid
  <2> QED
    BY <1>1, <1>4, <2>3, <2>4, <2>7, UpdateWithdrawalPays
<1> QED
  BY <1>5, <1>6, <1>7, <1>8, <1>9, <1>10, <1>11, <1>12 DEF EscrowNext

\* Escrows go to their owners, for all constants and however purges run inside
\* other transactions: a deposit goes back to the user in full when its
\* challenge expired and to the node's vault only with the signed successor or
\* after unlockAt; a withdrawal reaches the user only with the signed successor,
\* and the node takes it back only when a challenge expired.
THEOREM EscrowOwners == Spec => EscrowGoesToItsOwner
<1>1. Init => EscrowsHeldHere
  BY DEF Init, EscrowsHeldHere, HeldHere
<1>2. TypeOK /\ EscrowsHeldHere /\ [Next]_vars => EscrowsHeldHere' /\ [EscrowStepPays]_vars
  <2> SUFFICES ASSUME TypeOK, EscrowsHeldHere, [Next]_vars
               PROVE  EscrowsHeldHere' /\ EscrowStepPays
    OBVIOUS
  <2>1. CASE EscrowNext
    BY <2>1, EscrowNextPays
  <2>2. CASE ~EscrowNext
    <3>1. UNCHANGED escrowWithdrawals
      BY <2>2, OtherStepsPurge
    <3>2. CASE UNCHANGED escrowDeposits
      BY <3>1, <3>2 DEF EscrowsHeldHere, HeldHere, EscrowStepPays, DepositPaid,
         WithdrawalPaid, Finalizes
    <3>3. ASSUME NEW nb, NEW steps \in Nat, PurgeEscrowDeposits(nb, escrowDeposits, steps)
          PROVE  EscrowsHeldHere' /\ EscrowStepPays
      <4>1. \A e \in EscrowIds : DepositPaid(e) /\ HeldHere(escrowDeposits'[e])
        BY <3>3, PurgePays DEF EscrowsHeldHere
      <4> QED
        BY <3>1, <4>1 DEF EscrowsHeldHere, EscrowStepPays, WithdrawalPaid, Finalizes
    <3> QED
      BY <2>2, <3>2, <3>3, OtherStepsPurge
  <2> QED
    BY <2>1, <2>2
<1> DEFINE Step ==
      \A e \in EscrowIds :
        LET m == escrowDeposits[e]
            w == escrowWithdrawals[e]
        IN  /\ Finalizes(m, escrowDeposits'[e]) =>
                 \/ UserGains(e[1], EscrowToken(m), m.lockedAmount)
                    /\ EscrowChallengeExpired(m)
                 \/ ~EscrowChallengeExpired(m)
                    /\ \/ HasSuccessor(m, e[1], "FINALIZE_ESCROW_DEPOSIT")
                       \/ m.status = "INITIALIZED" /\ m.unlockAt <= now
            /\ Finalizes(w, escrowWithdrawals'[e]) =>
                 \/ UserGains(e[1], EscrowToken(w), w.lockedAmount)
                    /\ HasSuccessor(w, e[1], "FINALIZE_ESCROW_WITHDRAWAL")
                 \/ EscrowChallengeExpired(w)
<1>3. EscrowStepPays => Step
  BY DEF EscrowStepPays, DepositPaid, WithdrawalPaid
<1>4. TypeOK /\ EscrowsHeldHere /\ [Next]_vars => EscrowsHeldHere' /\ [Step]_vars
  BY <1>2, <1>3
<1> HIDE DEF Step
<1>5. Spec => [][Step]_vars
  BY <1>1, <1>4, TypeCorrect, PTL DEF Spec
<1> QED
  BY <1>5 DEF EscrowGoesToItsOwner, Step
===============================================================================
