---------------------------- MODULE ChannelEngine ----------------------------
(***************************************************************************)
(* contracts/src/ChannelEngine.sol: which signed state may follow the one  *)
(* stored on a channel's home chain, and which funds move when it does.    *)
(* A revert is a predicate that is FALSE.  In every operator m is the      *)
(* channel's stored ChannelMeta and s the candidate state.                 *)
(***************************************************************************)
EXTENDS ChannelTypes

UserNfDelta(m, s) == s.homeLedger.userNetFlow - m.lastState.homeLedger.userNetFlow
NodeNfDelta(m, s) == s.homeLedger.nodeNetFlow - m.lastState.homeLedger.nodeNetFlow

-------------------------------------------------------------------------------
(* Phase 1: what every candidate must satisfy *)

\* Mutation: the token may change from state to state.
validateUniversalAnyToken(m, s, time) ==
  /\ s.homeLedger.chainId = ChainId
  /\ s.version > m.lastState.version \/ IsEmptyState(m.lastState)
  /\ validateTokenDecimals(s.homeLedger)
  /\ IF s.intent \in EscrowIntent \cup MigrationIntent
     THEN /\ ~IsEmptyLedger(s.nonHomeLedger)
          /\ s.nonHomeLedger.chainId # ChainId
     ELSE IsEmptyLedger(s.nonHomeLedger)
  /\ BalancedLedger(s.homeLedger)
  /\ m.status = "DISPUTED" => time <= m.challengeExpireAt

\* Mutation: a state is accepted after the challenge has expired.
validateUniversalNoExpiry(m, s, time) ==
  /\ validateUniversalAnyToken([m EXCEPT !.challengeExpireAt = time], s, time)
  /\ ~IsEmptyState(m.lastState) =>
       s.homeLedger.token = m.lastState.homeLedger.token

validateUniversal(m, s, time) ==
  /\ s.homeLedger.chainId = ChainId
  /\ s.version > m.lastState.version \/ IsEmptyState(m.lastState)
  /\ ~IsEmptyState(m.lastState) =>
       s.homeLedger.token = m.lastState.homeLedger.token
  /\ validateTokenDecimals(s.homeLedger)
  /\ IF s.intent \in EscrowIntent \cup MigrationIntent
     THEN /\ ~IsEmptyLedger(s.nonHomeLedger)
          /\ s.nonHomeLedger.chainId # ChainId
     ELSE IsEmptyLedger(s.nonHomeLedger)
  /\ BalancedLedger(s.homeLedger)
  /\ m.status = "DISPUTED" => time <= m.challengeExpireAt

-------------------------------------------------------------------------------
(* Phase 2: what each intent requires *)

LiveStatus == {"OPERATING", "DISPUTED", "MIGRATING_IN"}

depositAllowed(m, s) ==
  /\ m.status \in {"VOID"} \cup LiveStatus
  /\ UserNfDelta(m, s) > 0

withdrawAllowed(m, s) ==
  /\ m.status \in {"VOID"} \cup LiveStatus
  /\ UserNfDelta(m, s) < 0

operateAllowed(m, s) ==
  /\ m.status \in {"VOID"} \cup LiveStatus
  /\ UserNfDelta(m, s) = 0
  /\ s.homeLedger.nodeAllocation = 0

\* Mutation: a closing state may leave allocations behind.
closeAllowedWithAllocations(m, s) ==
  /\ m.status \in LiveStatus
  /\ m.lockedFunds + UserNfDelta(m, s) + NodeNfDelta(m, s) >= 0

closeAllowed(m, s) ==
  /\ m.status \in LiveStatus
  /\ s.homeLedger.userAllocation = 0
  /\ s.homeLedger.nodeAllocation = 0
  /\ m.lockedFunds + UserNfDelta(m, s) + NodeNfDelta(m, s) >= 0

initiateEscrowDepositAllowed(m, s) ==
  LET home == s.homeLedger
      nonHome == s.nonHomeLedger
  IN  /\ m.status \in LiveStatus
      /\ UserNfDelta(m, s) = 0
      /\ nonHome.userAllocation > 0
      /\ SameWad(home.nodeAllocation, home.decimals,
                 nonHome.userAllocation, nonHome.decimals)
      /\ nonHome.userNetFlow = nonHome.userAllocation

finalizeEscrowDepositAllowed(m, s) ==
  LET prev == m.lastState
      amount == prev.nonHomeLedger.userAllocation
      userAllocDelta == s.homeLedger.userAllocation - prev.homeLedger.userAllocation
  IN  /\ m.status \in LiveStatus
      /\ prev.intent = "INITIATE_ESCROW_DEPOSIT"
      /\ s.version = prev.version + 1
      /\ s.nonHomeLedger.userAllocation = 0
      /\ s.nonHomeLedger.nodeAllocation = 0
      /\ s.homeLedger.nodeAllocation = 0
      /\ UserNfDelta(m, s) = 0
      /\ NodeNfDelta(m, s) = 0
      /\ s.nonHomeLedger.userNetFlow = amount
      /\ s.nonHomeLedger.nodeNetFlow = -amount
      /\ userAllocDelta >= 0  \* checked subtraction
      /\ SameWad(userAllocDelta, s.homeLedger.decimals,
                 amount, prev.nonHomeLedger.decimals)

initiateEscrowWithdrawalAllowed(m, s) ==
  /\ m.status \in LiveStatus
  /\ UserNfDelta(m, s) = 0
  /\ s.homeLedger.nodeAllocation = 0
  /\ s.nonHomeLedger.userNetFlow = 0
  /\ s.nonHomeLedger.userAllocation = 0
  /\ s.nonHomeLedger.nodeAllocation = s.nonHomeLedger.nodeNetFlow

finalizeEscrowWithdrawalAllowed(m, s) ==
  /\ m.status \in LiveStatus
  /\ UserNfDelta(m, s) = 0
  /\ s.homeLedger.nodeAllocation = 0
  /\ s.nonHomeLedger.userAllocation = 0
  /\ s.nonHomeLedger.nodeAllocation = 0
  /\ s.nonHomeLedger.userNetFlow = -s.nonHomeLedger.nodeNetFlow

\* The channel arrives on this chain: the node locks what the user holds on
\* the old home chain (nonHomeLedger, after the swap).
initiateMigrationInAllowed(m, s) ==
  LET home == s.homeLedger
      old == s.nonHomeLedger
  IN  /\ m.status \in {"VOID", "MIGRATED_OUT"}
      /\ old.userAllocation > 0
      /\ old.nodeAllocation = 0
      /\ home.userAllocation = 0
      /\ SameWad(home.nodeAllocation, home.decimals, old.userAllocation, old.decimals)
      /\ SameWad(home.nodeNetFlow, home.decimals, old.userAllocation, old.decimals)
      /\ home.userNetFlow = 0

\* The channel prepares to leave this chain.
initiateMigrationOutAllowed(m, s) ==
  LET home == s.homeLedger
      new == s.nonHomeLedger
  IN  /\ m.status \in {"OPERATING", "DISPUTED"}
      /\ UserNfDelta(m, s) = 0
      /\ home.userAllocation > 0
      /\ home.nodeAllocation = 0
      /\ new.userAllocation = 0
      /\ SameWad(new.nodeAllocation, new.decimals, home.userAllocation, home.decimals)
      /\ SameWad(new.nodeNetFlow, new.decimals, home.userAllocation, home.decimals)
      /\ new.userNetFlow = 0

\* The new home chain completes the migration.  The allocation is compared
\* with the old chain's amount as it is, without scaling.
finalizeMigrationInAllowed(m, s) ==
  /\ m.status = "MIGRATING_IN"
  /\ m.lastState.intent = "INITIATE_MIGRATION"
  /\ s.version = m.lastState.version + 1
  /\ s.homeLedger.userAllocation = m.lastState.nonHomeLedger.userAllocation
  /\ s.homeLedger.nodeAllocation = 0
  /\ s.nonHomeLedger.userAllocation = 0
  /\ s.nonHomeLedger.nodeAllocation = 0
  /\ UserNfDelta(m, s) = 0
  /\ NodeNfDelta(m, s) = 0

\* The old home chain lets the channel go.
finalizeMigrationOutAllowed(m, s) ==
  /\ m.status \in {"OPERATING", "DISPUTED"}
  /\ IF m.lastState.intent = "INITIATE_MIGRATION"
     THEN s.version = m.lastState.version + 1
     ELSE s.version > m.lastState.version + 1
  /\ s.homeLedger.userAllocation = 0
  /\ s.homeLedger.nodeAllocation = 0
  /\ s.nonHomeLedger.userAllocation > 0
  /\ s.nonHomeLedger.nodeAllocation = 0

intentAllowed(m, s) ==
  \/ s.intent = "DEPOSIT" /\ depositAllowed(m, s)
  \/ s.intent = "WITHDRAW" /\ withdrawAllowed(m, s)
  \/ s.intent = "OPERATE" /\ operateAllowed(m, s)
  \/ s.intent = "CLOSE" /\ closeAllowed(m, s)
  \/ s.intent = "INITIATE_ESCROW_DEPOSIT" /\ initiateEscrowDepositAllowed(m, s)
  \/ s.intent = "FINALIZE_ESCROW_DEPOSIT" /\ finalizeEscrowDepositAllowed(m, s)
  \/ s.intent = "INITIATE_ESCROW_WITHDRAWAL" /\ initiateEscrowWithdrawalAllowed(m, s)
  \/ s.intent = "FINALIZE_ESCROW_WITHDRAWAL" /\ finalizeEscrowWithdrawalAllowed(m, s)
  \/ /\ s.intent = "INITIATE_MIGRATION"
     /\ initiateMigrationInAllowed(m, s) \/ initiateMigrationOutAllowed(m, s)
  \/ /\ s.intent = "FINALIZE_MIGRATION"
     /\ finalizeMigrationInAllowed(m, s) \/ finalizeMigrationOutAllowed(m, s)

\* Mutation: closing moves no funds of the user.
userFundsDeltaNotOnClose(m, s) ==
  IF s.intent \in {"DEPOSIT", "WITHDRAW"} THEN UserNfDelta(m, s) ELSE 0

\* The effects of an allowed transition.  newChallengeExpiry is 0 in all of
\* them and is left out.
userFundsDelta(m, s) ==
  IF s.intent \in {"DEPOSIT", "WITHDRAW", "CLOSE"} THEN UserNfDelta(m, s) ELSE 0

nodeFundsDelta(m, s) ==
  IF s.intent = "INITIATE_MIGRATION" /\ m.status \in {"VOID", "MIGRATED_OUT"}
  THEN s.homeLedger.nodeAllocation
  ELSE NodeNfDelta(m, s)

newStatus(m, s) ==
  CASE s.intent = "CLOSE" -> "CLOSED"
    [] s.intent = "INITIATE_MIGRATION" /\ m.status \in {"VOID", "MIGRATED_OUT"}
         -> "MIGRATING_IN"
    [] s.intent = "FINALIZE_MIGRATION" /\ m.status # "MIGRATING_IN"
         -> "MIGRATED_OUT"
    [] OTHER -> "OPERATING"

closesChannel(m, s) == newStatus(m, s) \in {"CLOSED", "MIGRATED_OUT"}

-------------------------------------------------------------------------------
(* Phase 3: what every effect must satisfy; available is the node's vault *)

expectedLocked(m, s) == m.lockedFunds + userFundsDelta(m, s) + nodeFundsDelta(m, s)

\* Mutation: the node's vault is not asked.
validateInvariantsUnfunded(m, s, available) ==
  /\ expectedLocked(m, s) >= 0
  /\ ~closesChannel(m, s) =>
       s.homeLedger.userAllocation + s.homeLedger.nodeAllocation = expectedLocked(m, s)

validateInvariants(m, s, available) ==
  /\ expectedLocked(m, s) >= 0
  /\ ~closesChannel(m, s) =>
       s.homeLedger.userAllocation + s.homeLedger.nodeAllocation = expectedLocked(m, s)
  /\ nodeFundsDelta(m, s) > 0 => available >= nodeFundsDelta(m, s)

validateTransition(m, s, available, time) ==
  /\ validateUniversal(m, s, time)
  /\ intentAllowed(m, s)
  /\ validateInvariants(m, s, available)
===============================================================================
