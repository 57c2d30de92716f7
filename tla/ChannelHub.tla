------------------------------ MODULE ChannelHub ------------------------------
(***************************************************************************)
(* contracts/src/ChannelHub.sol on one chain: channels whose home chain is *)
(* this one, escrows of channels whose home is elsewhere, the node's       *)
(* vault, the funds kept back from failed transfers, and block time.       *)
(*                                                                         *)
(* One action is one transaction.  A reverted transaction changes nothing  *)
(* and is not a step.  wallet and custody are the ERC-20 contracts'        *)
(* balances (external): wallet[a] is what the addresses that a controls    *)
(* hold, custody what the hub holds.                                       *)
(***************************************************************************)
EXTENDS ChannelEngine, EscrowEngines, Sequences, Totals

CONSTANTS
  MaxDepositEscrowSteps,  \* MAX_DEPOSIT_ESCROW_STEPS, 64
  Senders,     \* the accounts that submit transactions
  Frozen,      \* accounts to which a token transfer always fails
  Amounts,     \* amounts the node moves in and out of its vault
  PurgeSteps,  \* budgets with which purgeEscrowDeposits is called
  WalletInit,  \* [Accounts -> [Tokens -> Nat]], the balances at the start
  MaxTime      \* bound on block time

ASSUME HubConstantsOK ==
  /\ MaxDepositEscrowSteps \in Nat
  /\ Senders \subseteq Accounts /\ Frozen \subseteq Accounts
  /\ Amounts \subseteq Nat \ {0}
  /\ PurgeSteps \subseteq Nat
  /\ WalletInit \in [Accounts -> [Tokens -> Nat]]
  /\ MaxTime \in Nat

VARIABLES
  channels,           \* _channels
  userChannels,       \* _userChannels
  escrowDeposits,     \* _escrowDeposits
  escrowDepositIds,   \* _escrowDepositIds
  escrowHead,         \* escrowHead
  escrowWithdrawals,  \* _escrowWithdrawals
  nodeBalances,       \* _nodeBalances
  reclaims,           \* _reclaims
  wallet, custody,    \* ERC-20 balances outside and inside the hub
  now                 \* block.timestamp

funds == <<nodeBalances, reclaims, wallet, custody>>
queue == <<escrowDeposits, escrowDepositIds, escrowHead>>
vars == <<channels, userChannels, queue, escrowWithdrawals, funds, now>>

TypeOK ==
  /\ channels \in [Channels -> ChannelMeta]
  /\ userChannels \in [Users -> SUBSET Channels]
  /\ escrowDeposits \in [EscrowIds -> EscrowDepositMeta]
  /\ escrowDepositIds \in Seq(EscrowIds)
  /\ escrowHead \in 0..Len(escrowDepositIds)
  /\ escrowWithdrawals \in [EscrowIds -> EscrowWithdrawalMeta]
  /\ nodeBalances \in [Tokens -> Nat]
  /\ reclaims \in [Accounts -> [Tokens -> Nat]]
  /\ wallet \in [Accounts -> [Tokens -> Nat]]
  /\ custody \in [Tokens -> Nat]
  /\ now \in Nat

Init ==
  /\ channels = [c \in Channels |->
       [status |-> "VOID", lastState |-> EmptyState,
        challengeExpireAt |-> 0, lockedFunds |-> 0]]
  /\ userChannels = [u \in Users |-> {}]
  /\ escrowDeposits = [e \in EscrowIds |->
       [status |-> "VOID", initState |-> EmptyState, unlockAt |-> 0,
        challengeExpireAt |-> 0, lockedAmount |-> 0]]
  /\ escrowDepositIds = <<>>
  /\ escrowHead = 0
  /\ escrowWithdrawals = [e \in EscrowIds |->
       [status |-> "VOID", initState |-> EmptyState,
        challengeExpireAt |-> 0, lockedAmount |-> 0]]
  /\ nodeBalances = [t \in Tokens |-> 0]
  /\ reclaims = [a \in Accounts |-> [t \in Tokens |-> 0]]
  /\ wallet = WalletInit
  /\ custody = [t \in Tokens |-> 0]
  /\ now = 0

-------------------------------------------------------------------------------
(* Moving funds *)

\* _pullFunds of amount from account a; the token refuses when a lacks it.
PullFunds(a, t, amount) ==
  /\ wallet[a][t] >= amount
  /\ wallet' = [wallet EXCEPT ![a][t] = @ - amount]
  /\ custody' = [custody EXCEPT ![t] = @ + amount]
  /\ UNCHANGED reclaims

\* A token may always refuse a transfer, and does when the account is frozen
\* or the hub lacks the amount.
MayTransfer(a, t, amount) == a \notin Frozen /\ custody[t] >= amount

\* _nonRevertingPushFunds: a failed transfer is kept for a to reclaim.
NonRevertingPushFunds(a, t, amount) ==
  \/ /\ MayTransfer(a, t, amount)
     /\ wallet' = [wallet EXCEPT ![a][t] = @ + amount]
     /\ custody' = [custody EXCEPT ![t] = @ - amount]
     /\ UNCHANGED reclaims
  \/ /\ reclaims' = [reclaims EXCEPT ![a][t] = @ + amount]
     /\ UNCHANGED <<wallet, custody>>

\* A positive delta is pulled from the user, a negative one pushed.
MoveUserFunds(u, t, delta) ==
  \/ delta >= 0 /\ PullFunds(u, t, delta)
  \/ delta < 0 /\ NonRevertingPushFunds(u, t, -delta)

-------------------------------------------------------------------------------
(* The queue of escrow deposits *)

\* Mutation: the unlock time is not looked at.
unlockableAtOnce(m) == m.status = "INITIALIZED"

isEscrowDepositUnlockable(m) == m.status = "INITIALIZED" /\ m.unlockAt <= now

\* Mutation: a finalized deposit holds the queue up.
skippableOnlyDisputed(m) == m.status = "DISPUTED"

isEscrowDepositSkippable(m) == m.status \in {"FINALIZED", "DISPUTED"}

\* The queue's entry at position i, counted from 0, holds the purge up.
BlocksPurge(ed, i) ==
  LET m == ed[escrowDepositIds[i + 1]]
  IN  ~isEscrowDepositSkippable(m) /\ ~isEscrowDepositUnlockable(m)

\* Where a purge of at most steps entries leaves the head.
PurgeEnd(ed, steps) ==
  LET end == IF escrowHead + steps < Len(escrowDepositIds)
             THEN escrowHead + steps ELSE Len(escrowDepositIds)
  IN  CHOOSE i \in escrowHead..end :
        /\ i = end \/ BlocksPurge(ed, i)
        /\ \A j \in escrowHead..(i - 1) : ~BlocksPurge(ed, j)

\* Mutation: the head moves past one deposit more than is unlocked.
PurgedButLast(ed, steps) ==
  {escrowDepositIds[i] : i \in {j \in (escrowHead + 1)..(PurgeEnd(ed, steps) - 1) :
                                  ed[escrowDepositIds[j]].status = "INITIALIZED"}}

\* The deposits it unlocks.
Purged(ed, steps) ==
  {escrowDepositIds[i] : i \in {j \in (escrowHead + 1)..PurgeEnd(ed, steps) :
                                  ed[escrowDepositIds[j]].status = "INITIALIZED"}}

LockedAmounts(ed) == [e \in DOMAIN ed |-> ed[e].lockedAmount]

EscrowsIn(ed, t) == {e \in DOMAIN ed : ed[e].initState.nonHomeLedger.token = t}

\* _purgeEscrowDeposits(steps), run on the escrows ed and the vault nb that
\* the rest of the transaction leaves.
PurgeEscrowDeposits(nb, ed, steps) ==
  LET P == Purged(ed, steps)
  IN  /\ escrowDeposits' =
           [e \in EscrowIds |-> IF e \in P THEN finalizedDeposit(ed[e]) ELSE ed[e]]
      /\ nodeBalances' =
           [t \in Tokens |-> nb[t] + Total(LockedAmounts(ed), P \cap EscrowsIn(ed, t))]
      /\ escrowHead' = PurgeEnd(ed, steps)

-------------------------------------------------------------------------------
(* Enforcing a signed state on a channel *)

\* Until _applyEffects stores a definition, no signature verifies against the
\* empty one that the functions taking only a channel id read.
HasDefinition(c) == channels[c].status # "VOID"

isChannelHomeChain(c) ==
  /\ channels[c].status \notin {"VOID", "MIGRATED_OUT"}
  /\ channels[c].lastState.homeLedger.chainId = ChainId

\* _applyTransitionEffects, with the record meta the caller leaves behind.
ApplyTransitionEffects(c, s, meta) ==
  LET t == s.homeLedger.token
      m == channels[c]
  IN  /\ channels' = [channels EXCEPT ![c] = meta]
      /\ MoveUserFunds(User[c], t, userFundsDelta(m, s))
      /\ PurgeEscrowDeposits(
           [nodeBalances EXCEPT ![t] = @ - nodeFundsDelta(m, s)],
           escrowDeposits, MaxDepositEscrowSteps)
      /\ UNCHANGED <<escrowDepositIds, escrowWithdrawals, now>>

\* Mutation: a channel that closes keeps its locked funds.
EnforcedMetaKeepsLock(m, s) ==
  [status |-> newStatus(m, s), lastState |-> s, challengeExpireAt |-> 0,
   lockedFunds |-> IF closesChannel(m, s) THEN m.lockedFunds ELSE expectedLocked(m, s)]

\* What _applyEffects makes of the channel record.
EnforcedMeta(m, s) ==
  [status |-> newStatus(m, s), lastState |-> s, challengeExpireAt |-> 0,
   lockedFunds |-> IF closesChannel(m, s) THEN 0 ELSE expectedLocked(m, s)]

EnforceState(c, s) ==
  /\ validateTransition(channels[c], s, nodeBalances[s.homeLedger.token], now)
  /\ ApplyTransitionEffects(c, s, EnforcedMeta(channels[c], s))

ListChannel(c) == userChannels' = [userChannels EXCEPT ![User[c]] = @ \cup {c}]
UnlistChannel(c) == userChannels' = [userChannels EXCEPT ![User[c]] = @ \ {c}]

-------------------------------------------------------------------------------
(* Channel lifecycle *)

createChannel(c, s) ==
  /\ s.intent \in {"DEPOSIT", "WITHDRAW", "OPERATE"}
  /\ channels[c].status = "VOID"
  /\ requireValidDefinition(c)
  /\ EnforceState(c, s)
  /\ ListChannel(c)

depositToChannel(c, s) ==
  /\ s.intent = "DEPOSIT"
  /\ HasDefinition(c)
  /\ EnforceState(c, s)
  /\ UNCHANGED userChannels

withdrawFromChannel(c, s) ==
  /\ s.intent = "WITHDRAW"
  /\ HasDefinition(c)
  /\ EnforceState(c, s)
  /\ UNCHANGED userChannels

checkpointChannel(c, s) ==
  /\ s.intent = "OPERATE"
  /\ HasDefinition(c)
  /\ EnforceState(c, s)
  /\ UNCHANGED userChannels

\* The expiry a challenge of channel c sets now; kept below the time bound so
\* that it can pass.
ChallengeExpiry(c) == now + ChallengeDuration[c]

\* challengeChannel with a newer state, which is enforced first.
challengeWithNewerState(c, s, sender) ==
  LET m == channels[c]
      disputed == [status |-> "DISPUTED", lastState |-> s,
                   challengeExpireAt |-> ChallengeExpiry(c),
                   lockedFunds |-> expectedLocked(m, s)]
  IN  /\ m.status \in {"OPERATING", "MIGRATING_IN"}
      /\ s.version > m.lastState.version
      /\ s.intent # "CLOSE"
      /\ ~(m.status = "OPERATING" /\ s.intent = "FINALIZE_MIGRATION")
      /\ s.intent = "INITIATE_ESCROW_DEPOSIT" => sender = NODE
      /\ ChallengeExpiry(c) < MaxTime
      /\ validateTransition(m, s, nodeBalances[s.homeLedger.token], now)
      /\ ApplyTransitionEffects(c, s, disputed)
      /\ UNCHANGED userChannels

\* challengeChannel with a state of the stored version: nothing is enforced.
challengeWithSameVersion(c) ==
  /\ channels[c].status \in {"OPERATING", "MIGRATING_IN"}
  /\ ChallengeExpiry(c) < MaxTime
  /\ channels' = [channels EXCEPT ![c].status = "DISPUTED",
                                  ![c].challengeExpireAt = ChallengeExpiry(c)]
  /\ UNCHANGED <<userChannels, queue, escrowWithdrawals, funds, now>>

ChallengeExpired(c) ==
  channels[c].status = "DISPUTED" /\ channels[c].challengeExpireAt < now

\* Mutation: a transfer that fails reverts the closing.
PayAllocationsOrRevert(u, t, userAmount, nodeAmount) ==
  /\ userAmount # 0 => MayTransfer(u, t, userAmount)
  /\ nodeAmount # 0 => MayTransfer(NODE, t, userAmount + nodeAmount)
  /\ wallet' = [wallet EXCEPT ![u][t] = @ + userAmount, ![NODE][t] = @ + nodeAmount]
  /\ custody' = [custody EXCEPT ![t] = @ - (userAmount + nodeAmount)]
  /\ UNCHANGED reclaims

\* The transfers of closeChannel to the user and then to the node.
PayAllocations(u, t, userAmount, nodeAmount) ==
  \E toUser \in {0, userAmount}, toNode \in {0, nodeAmount} :
      /\ toUser # 0 => MayTransfer(u, t, toUser)
      /\ toNode # 0 => MayTransfer(NODE, t, toUser + toNode)
      /\ wallet' = [wallet EXCEPT ![u][t] = @ + toUser, ![NODE][t] = @ + toNode]
      /\ custody' = [custody EXCEPT ![t] = @ - (toUser + toNode)]
      /\ reclaims' = [reclaims EXCEPT ![u][t] = @ + (userAmount - toUser),
                                      ![NODE][t] = @ + (nodeAmount - toNode)]

\* closeChannel, path 1: anyone, after the challenge has expired.
closeAfterChallenge(c) ==
  LET home == channels[c].lastState.homeLedger
  IN  /\ ChallengeExpired(c)
      /\ channels' = [channels EXCEPT ![c].status = "CLOSED", ![c].lockedFunds = 0,
                                      ![c].challengeExpireAt = 0]
      /\ PayAllocations(User[c], home.token, home.userAllocation, home.nodeAllocation)
      /\ UnlistChannel(c)
      /\ UNCHANGED <<queue, escrowWithdrawals, nodeBalances, now>>

\* closeChannel, path 2: with a signed CLOSE state.
closeCooperatively(c, s) ==
  /\ ~ChallengeExpired(c)
  /\ s.intent = "CLOSE"
  /\ EnforceState(c, s)
  /\ UnlistChannel(c)

-------------------------------------------------------------------------------
(* Escrows and migrations: the home chain's side *)

initiateEscrowDepositOnHome(c, s, sender) ==
  /\ s.intent = "INITIATE_ESCROW_DEPOSIT"
  /\ requireValidDefinition(c)
  /\ isChannelHomeChain(c)
  /\ sender = NODE
  /\ EnforceState(c, s)
  /\ UNCHANGED userChannels

initiateEscrowWithdrawalOnHome(c, s) ==
  /\ s.intent = "INITIATE_ESCROW_WITHDRAWAL"
  /\ requireValidDefinition(c)
  /\ isChannelHomeChain(c)
  /\ EnforceState(c, s)
  /\ UNCHANGED userChannels

\* finalizeEscrowDeposit and finalizeEscrowWithdrawal with an escrow id that
\* has no metadata here: the candidate's intent is not looked at.
finalizeEscrowOnHome(c, s) ==
  /\ isChannelHomeChain(c)
  /\ EnforceState(c, s)
  /\ UNCHANGED userChannels

initiateMigration(c, s) ==
  /\ s.intent = "INITIATE_MIGRATION"
  /\ \/ /\ isChannelHomeChain(c)
        /\ EnforceState(c, s)
        /\ UNCHANGED userChannels
     \/ /\ ~isChannelHomeChain(c)
        /\ requireValidDefinition(c)
        /\ EnforceState(c, SwapLedgers(s))
        /\ ListChannel(c)

finalizeMigration(c, s) ==
  /\ s.intent = "FINALIZE_MIGRATION"
  /\ HasDefinition(c)
  /\ \/ /\ s.nonHomeLedger.chainId = ChainId
        /\ EnforceState(c, SwapLedgers(s))
        /\ UnlistChannel(c)
     \/ /\ s.nonHomeLedger.chainId # ChainId
        /\ EnforceState(c, s)
        /\ UNCHANGED userChannels

-------------------------------------------------------------------------------
(* Escrows: the non-home chain's side *)

\* The token an escrow of metadata m is held in.
EscrowToken(m) == m.initState.nonHomeLedger.token

\* The id under which a state initiates an escrow.
EscrowIdOf(c, s) == <<c, s.version>>

initiateEscrowDeposit(c, s) ==
  LET e == EscrowIdOf(c, s)
      m == escrowDeposits[e]
      nonHome == s.nonHomeLedger
  IN  /\ requireValidDefinition(c)
      /\ ~isChannelHomeChain(c)
      /\ now + UnlockDelay < MaxTime
      /\ escrowUniversal(m, s, now)
      /\ initiateDepositAllowed(m, s)
      /\ PullFunds(User[c], nonHome.token, nonHome.userAllocation)
      /\ PurgeEscrowDeposits(nodeBalances,
           [escrowDeposits EXCEPT ![e] = initiatedDeposit(m, s, now)],
           MaxDepositEscrowSteps)
      /\ escrowDepositIds' = Append(escrowDepositIds, e)
      /\ UNCHANGED <<channels, userChannels, escrowWithdrawals, now>>

challengeEscrowDeposit(e) ==
  /\ now + EscrowChallengeDuration < MaxTime
  /\ challengeDepositAllowed(escrowDeposits[e], now)
  /\ PurgeEscrowDeposits(nodeBalances,
       [escrowDeposits EXCEPT ![e] = challengedDeposit(@, now)],
       MaxDepositEscrowSteps)
  /\ UNCHANGED <<channels, userChannels, escrowDepositIds, escrowWithdrawals,
                 reclaims, wallet, custody, now>>

EscrowChallengeExpired(m) == m.status = "DISPUTED" /\ m.challengeExpireAt < now

\* finalizeEscrowDeposit after the challenge: the deposit goes back.
refundEscrowDeposit(e) ==
  LET m == escrowDeposits[e]
  IN  /\ EscrowChallengeExpired(m)
      /\ NonRevertingPushFunds(User[e[1]], EscrowToken(m), m.lockedAmount)
      /\ PurgeEscrowDeposits(nodeBalances,
           [escrowDeposits EXCEPT ![e] = [finalizedDeposit(m) EXCEPT !.challengeExpireAt = 0]],
           MaxDepositEscrowSteps)
      /\ UNCHANGED <<channels, userChannels, escrowDepositIds, escrowWithdrawals, now>>

\* finalizeEscrowDeposit with a signed state: the deposit goes to the vault.
finalizeEscrowDeposit(e, s) ==
  LET m == escrowDeposits[e]
  IN  /\ ~EscrowChallengeExpired(m)
      /\ escrowUniversal(m, s, now)
      /\ finalizeDepositAllowed(m, s)
      /\ PurgeEscrowDeposits(
           [nodeBalances EXCEPT ![EscrowToken(m)] = @ + m.lockedAmount],
           [escrowDeposits EXCEPT ![e] = finalizedDeposit(m)],
           MaxDepositEscrowSteps)
      /\ UNCHANGED <<channels, userChannels, escrowDepositIds, escrowWithdrawals,
                     reclaims, wallet, custody, now>>

initiateEscrowWithdrawal(c, s) ==
  LET e == EscrowIdOf(c, s)
      m == escrowWithdrawals[e]
      t == s.nonHomeLedger.token
  IN  /\ requireValidDefinition(c)
      /\ ~isChannelHomeChain(c)
      /\ escrowUniversal(m, s, now)
      /\ initiateWithdrawalAllowed(m, s, nodeBalances[t])
      /\ escrowWithdrawals' = [escrowWithdrawals EXCEPT ![e] = initiatedWithdrawal(m, s)]
      /\ PurgeEscrowDeposits(
           [nodeBalances EXCEPT ![t] = @ - s.nonHomeLedger.nodeAllocation],
           escrowDeposits, MaxDepositEscrowSteps)
      /\ UNCHANGED <<channels, userChannels, escrowDepositIds,
                     reclaims, wallet, custody, now>>

challengeEscrowWithdrawal(e) ==
  /\ now + EscrowChallengeDuration < MaxTime
  /\ challengeWithdrawalAllowed(escrowWithdrawals[e])
  /\ escrowWithdrawals' = [escrowWithdrawals EXCEPT ![e] = challengedWithdrawal(@, now)]
  /\ PurgeEscrowDeposits(nodeBalances, escrowDeposits, MaxDepositEscrowSteps)
  /\ UNCHANGED <<channels, userChannels, escrowDepositIds,
                 reclaims, wallet, custody, now>>

\* finalizeEscrowWithdrawal after the challenge: the node takes its funds back.
revertEscrowWithdrawal(e) ==
  LET m == escrowWithdrawals[e]
  IN  /\ EscrowChallengeExpired(m)
      /\ escrowWithdrawals' = [escrowWithdrawals EXCEPT
           ![e] = [finalizedWithdrawal(m) EXCEPT !.challengeExpireAt = 0]]
      /\ PurgeEscrowDeposits(
           [nodeBalances EXCEPT ![EscrowToken(m)] = @ + m.lockedAmount],
           escrowDeposits, MaxDepositEscrowSteps)
      /\ UNCHANGED <<channels, userChannels, escrowDepositIds,
                     reclaims, wallet, custody, now>>

\* finalizeEscrowWithdrawal with a signed state: the user is paid.
finalizeEscrowWithdrawal(e, s) ==
  LET m == escrowWithdrawals[e]
  IN  /\ ~EscrowChallengeExpired(m)
      /\ escrowUniversal(m, s, now)
      /\ finalizeWithdrawalAllowed(m, s)
      /\ NonRevertingPushFunds(User[e[1]], EscrowToken(m), m.lockedAmount)
      /\ escrowWithdrawals' = [escrowWithdrawals EXCEPT ![e] = finalizedWithdrawal(m)]
      /\ PurgeEscrowDeposits(nodeBalances, escrowDeposits, MaxDepositEscrowSteps)
      /\ UNCHANGED <<channels, userChannels, escrowDepositIds, now>>

-------------------------------------------------------------------------------
(* The vault, reclaims, the public purge, and time *)

depositToNode(a, t, amount) ==
  /\ PullFunds(a, t, amount)
  /\ nodeBalances' = [nodeBalances EXCEPT ![t] = @ + amount]
  /\ UNCHANGED <<channels, userChannels, queue, escrowWithdrawals, now>>

\* The destination is an address of the node's choice: its wallet.
withdrawFromNode(t, amount) ==
  /\ nodeBalances[t] >= amount
  /\ custody[t] >= amount
  /\ nodeBalances' = [nodeBalances EXCEPT ![t] = @ - amount]
  /\ wallet' = [wallet EXCEPT ![NODE][t] = @ + amount]
  /\ custody' = [custody EXCEPT ![t] = @ - amount]
  /\ UNCHANGED <<channels, userChannels, queue, escrowWithdrawals, reclaims, now>>

\* The destination is an address of a's choice that the token accepts.
claimFunds(a, t) ==
  /\ reclaims[a][t] > 0
  /\ custody[t] >= reclaims[a][t]
  /\ reclaims' = [reclaims EXCEPT ![a][t] = 0]
  /\ wallet' = [wallet EXCEPT ![a][t] = @ + reclaims[a][t]]
  /\ custody' = [custody EXCEPT ![t] = @ - reclaims[a][t]]
  /\ UNCHANGED <<channels, userChannels, queue, escrowWithdrawals, nodeBalances, now>>

purgeEscrowDeposits(steps) ==
  /\ PurgeEscrowDeposits(nodeBalances, escrowDeposits, steps)
  /\ UNCHANGED <<channels, userChannels, escrowDepositIds, escrowWithdrawals,
                 reclaims, wallet, custody, now>>

Tick ==
  /\ now < MaxTime
  /\ now' = now + 1
  /\ UNCHANGED <<channels, userChannels, queue, escrowWithdrawals, funds>>

-------------------------------------------------------------------------------
ChannelNext ==
  \E c \in Channels :
    \/ \E s \in Signed[c] :
         \/ createChannel(c, s)
         \/ depositToChannel(c, s)
         \/ withdrawFromChannel(c, s)
         \/ checkpointChannel(c, s)
         \/ \E sender \in Senders : challengeWithNewerState(c, s, sender)
         \/ closeCooperatively(c, s)
         \/ \E sender \in Senders : initiateEscrowDepositOnHome(c, s, sender)
         \/ initiateEscrowWithdrawalOnHome(c, s)
         \/ finalizeEscrowOnHome(c, s)
         \/ initiateMigration(c, s)
         \/ finalizeMigration(c, s)
    \/ challengeWithSameVersion(c)
    \/ closeAfterChallenge(c)

EscrowNext ==
  \/ \E c \in Channels : \E s \in Signed[c] :
       initiateEscrowDeposit(c, s) \/ initiateEscrowWithdrawal(c, s)
  \/ \E e \in EscrowIds :
       \/ challengeEscrowDeposit(e)
       \/ challengeEscrowWithdrawal(e)
       \/ revertEscrowWithdrawal(e)
       \/ refundEscrowDeposit(e)
       \/ \E s \in Signed[e[1]] :
            finalizeEscrowDeposit(e, s) \/ finalizeEscrowWithdrawal(e, s)

VaultNext ==
  \E t \in Tokens :
    \/ \E a \in Senders, amount \in Amounts : depositToNode(a, t, amount)
    \/ \E amount \in Amounts : NODE \in Senders /\ withdrawFromNode(t, amount)
    \/ \E a \in Senders : claimFunds(a, t)

Next ==
  \/ ChannelNext
  \/ EscrowNext
  \/ VaultNext
  \/ \E steps \in PurgeSteps : purgeEscrowDeposits(steps)
  \/ Tick

Spec == Init /\ [][Next]_vars

-------------------------------------------------------------------------------
(* Safety *)

IsLive(c) == channels[c].status \in LiveStatus

\* What the hub owes in token t: to the node's vault, to live channels, to
\* open escrows and to accounts whose transfers failed.
ChannelsIn(t) == {c \in Channels : channels[c].lastState.homeLedger.token = t}

LockedFunds == [c \in Channels |-> channels[c].lockedFunds]

ReclaimsIn(t) == [a \in Accounts |-> reclaims[a][t]]

Liabilities(t) ==
  nodeBalances[t]
  + Total(LockedFunds, ChannelsIn(t))
  + Total(LockedAmounts(escrowDeposits), EscrowsIn(escrowDeposits, t))
  + Total(LockedAmounts(escrowWithdrawals), EscrowsIn(escrowWithdrawals, t))
  + Total(ReclaimsIn(t), Accounts)

\* The locked funds of a live channel are exactly the allocations of the state
\* last enforced, whichever of the ten intents and whichever entry point
\* enforced it; a channel that is not live locks nothing.  closeChannel pays
\* these allocations out without looking at lockedFunds.
LockedMatchesAllocations ==
  \A c \in Channels :
    LET home == channels[c].lastState.homeLedger
    IN  channels[c].lockedFunds =
          IF IsLive(c) THEN home.userAllocation + home.nodeAllocation ELSE 0

\* The tokens the hub holds cover everything it owes, at every step of any mix
\* of channels, escrows, purges, failed transfers and vault movements.
Solvent == \A t \in Tokens : custody[t] >= Liabilities(t)

\* No step leaves a token in the hub that nobody is owed, but one: a final
\* migration away from this chain, which zeroes lockedFunds and releases only
\* the node's net-flow change (_calculateFinalizeMigrationEffects).
Surplus(t) == custody[t] - Liabilities(t)

NothingStranded ==
  [][\A t \in Tokens : Surplus(t)' # Surplus(t) =>
       \E c \in ChannelsIn(t) :
         IsLive(c) /\ channels'[c].status = "MIGRATED_OUT"]_vars

\* What account a can take home in token t.
Holdings(a, t) == wallet[a][t] + reclaims[a][t]

\* A state's userNetFlow is not a figure the parties agreed on only: when a
\* state is enforced the user pays or receives exactly its change.  The two
\* ends of a migration start and drop the count.
NetFlowIsReal ==
  [][\A c \in Channels, t \in Tokens :
       LET old == channels[c].lastState
           new == channels'[c].lastState
       IN  /\ new # old
           /\ t = new.homeLedger.token
           /\ channels[c].status # "MIGRATED_OUT"
           /\ channels'[c].status # "MIGRATED_OUT"
           => Holdings(User[c], t)' - Holdings(User[c], t)
                = old.homeLedger.userNetFlow - new.homeLedger.userNetFlow]_vars

\* The version of the enforced state only grows, a closed channel never
\* changes again, and once a challenge has expired the only thing left is to
\* close with the state that was challenged.
OrderedStep(c) ==
  LET m == channels[c]
      n == channels'[c]
  IN  /\ n.lastState # m.lastState =>
           n.lastState.version > m.lastState.version \/ IsEmptyState(m.lastState)
      /\ m.status = "CLOSED" => n = m
      /\ ChallengeExpired(c) /\ n # m =>
           n.status = "CLOSED" /\ n.lastState = m.lastState

EnforcementIsOrdered == [][\A c \in Channels : OrderedStep(c)]_vars

\* The escrow deposit queue keeps its promises: it holds every deposit once,
\* in order of unlockAt, and nothing before the head still waits for a purge.
PositionsOf(e) == {i \in DOMAIN escrowDepositIds : escrowDepositIds[i] = e}

QueueSound ==
  /\ \A e \in EscrowIds :
       Cardinality(PositionsOf(e)) = IF escrowDeposits[e].status = "VOID" THEN 0 ELSE 1
  /\ \A i, j \in DOMAIN escrowDepositIds : i < j =>
       escrowDeposits[escrowDepositIds[i]].unlockAt
         <= escrowDeposits[escrowDepositIds[j]].unlockAt
  /\ \A i \in 1..escrowHead :
       escrowDeposits[escrowDepositIds[i]].status \in {"FINALIZED", "DISPUTED"}

\* An escrow locks what its initial state put in for as long as it is open,
\* and nothing after, so it is paid out once.
EscrowLocksExact ==
  /\ \A e \in EscrowIds :
       escrowDeposits[e].lockedAmount =
         IF escrowDeposits[e].status \in {"INITIALIZED", "DISPUTED"}
         THEN escrowDeposits[e].initState.nonHomeLedger.userAllocation ELSE 0
  /\ \A e \in EscrowIds :
       escrowWithdrawals[e].lockedAmount =
         IF escrowWithdrawals[e].status \in {"INITIALIZED", "DISPUTED"}
         THEN escrowWithdrawals[e].initState.nonHomeLedger.nodeAllocation ELSE 0

\* An open escrow leaves to the right party.  A deposit reaches the node only
\* with the signed successor of its initial state or, unchallenged, when its
\* unlock time has come; once disputed and expired it goes back to the user.
\* A withdrawal reaches the user only with the signed successor.
HasSuccessor(m, c, intent) ==
  \E s \in Signed[c] : s.intent = intent /\ s.version = m.initState.version + 1

Finalizes(m, n) == m.status # "FINALIZED" /\ n.status = "FINALIZED"

UserGains(c, t, amount) ==
  wallet'[User[c]][t] + reclaims'[User[c]][t] = Holdings(User[c], t) + amount

EscrowGoesToItsOwner ==
  [][\A e \in EscrowIds :
       LET m == escrowDeposits[e]
           w == escrowWithdrawals[e]
       IN  /\ Finalizes(m, escrowDeposits'[e]) =>
                \/ UserGains(e[1], EscrowToken(m), m.lockedAmount)
                   /\ EscrowChallengeExpired(m)
                \/ ~EscrowChallengeExpired(m)
                   /\ \/ HasSuccessor(m, e[1], "FINALIZE_ESCROW_DEPOSIT")
                      \/ m.status = "INITIALIZED" /\ m.unlockAt <= now
           /\ Finalizes(w, escrowWithdrawals'[e]) =>
                \/ UserGains(e[1], EscrowToken(w), w.lockedAmount)
                   /\ HasSuccessor(w, e[1], "FINALIZE_ESCROW_WITHDRAWAL")
                \/ EscrowChallengeExpired(w)]_vars

-------------------------------------------------------------------------------
(* Liveness: time passes, and whoever waits for an expired challenge or for
   the purge queue calls the function that anyone may call. *)

Fairness ==
  /\ WF_vars(Tick)
  /\ \A c \in Channels : WF_vars(closeAfterChallenge(c))
  /\ \A e \in EscrowIds :
       WF_vars(refundEscrowDeposit(e)) /\ WF_vars(revertEscrowWithdrawal(e))
  /\ \A steps \in PurgeSteps : WF_vars(purgeEscrowDeposits(steps))

FairSpec == Spec /\ Fairness

\* A dispute always ends, even when the token refuses to pay the user: a newer
\* state answers it or the channel is closed.
DisputesEnd == \A c \in Channels :
  channels[c].status = "DISPUTED" ~> channels[c].status # "DISPUTED"

\* Every escrow deposit is paid out in the end, to one side or the other, and
\* so is every challenged withdrawal.
EscrowsEnd ==
  /\ \A e \in EscrowIds :
       escrowDeposits[e].status # "VOID" ~> escrowDeposits[e].status = "FINALIZED"
  /\ \A e \in EscrowIds :
       escrowWithdrawals[e].status = "DISPUTED" ~>
         escrowWithdrawals[e].status = "FINALIZED"

-------------------------------------------------------------------------------
(* Three statements of the documentation that the contract does not meet *)

\* "Any strictly newer valid state supersedes an active challenge"
\* (contracts/SECURITY.md): opening a challenge on the stored state does not
\* invalidate a state that could have been enforced just before.
ChallengeIsAnswerable ==
  [][\A c \in Channels :
       LET m == channels[c]
           n == channels'[c]
       IN  m.status # "DISPUTED" /\ n.status = "DISPUTED" /\ n.lastState = m.lastState =>
             \A s \in Signed[c] :
               LET available == nodeBalances[s.homeLedger.token]
               IN  validateTransition(m, s, available, now)
                     => validateTransition(n, s, available, now)]_vars

\* "The user's allocation is preserved (normalized by decimal precision)"
\* (docs/protocol/cross-chain-and-assets.md): a signed state that gives the user
\* the migrated amount in the new chain's units completes the migration.
PreservesAllocation(m, s) ==
  LET old == m.lastState.nonHomeLedger
  IN  /\ s.intent = "FINALIZE_MIGRATION"
      /\ s.version = m.lastState.version + 1
      /\ s.homeLedger.token = m.lastState.homeLedger.token
      /\ s.homeLedger.chainId = ChainId /\ s.nonHomeLedger.chainId = old.chainId
      /\ SameWad(s.homeLedger.userAllocation, s.homeLedger.decimals,
                 old.userAllocation, old.decimals)
      /\ s.homeLedger.nodeAllocation = 0
      /\ s.nonHomeLedger.userAllocation = 0 /\ s.nonHomeLedger.nodeAllocation = 0
      /\ BalancedLedger(s.homeLedger)
      /\ UserNfDelta(m, s) = 0 /\ NodeNfDelta(m, s) = 0

MigrationCompletes ==
  \A c \in Channels :
    channels[c].status = "MIGRATING_IN" =>
      \A s \in Signed[c] :
        PreservesAllocation(channels[c], s) =>
          validateTransition(channels[c], s, nodeBalances[s.homeLedger.token], now)

\* "Release all currently locked funds to node vault" (the comment in
\* _calculateFinalizeMigrationEffects): when a migration takes a channel away
\* from this chain, the vault gains what the channel had locked.
MigrationReleasesFunds ==
  [][\A c \in Channels :
       IsLive(c) /\ channels'[c].status = "MIGRATED_OUT" =>
         LET t == channels[c].lastState.homeLedger.token
         IN  nodeBalances'[t] >= nodeBalances[t] + channels[c].lockedFunds]_vars
===============================================================================
