---------------------------- MODULE EscrowEngines ----------------------------
(***************************************************************************)
(* contracts/src/EscrowDepositEngine.sol and EscrowWithdrawalEngine.sol:   *)
(* the life of an escrow on a channel's non-home chain.  A revert is a     *)
(* predicate that is FALSE; m is the stored metadata of the escrow and s   *)
(* the candidate state.                                                    *)
(***************************************************************************)
EXTENDS ChannelTypes

CONSTANTS
  UnlockDelay,             \* EscrowDepositEngine.UNLOCK_DELAY, 3 hours
  EscrowChallengeDuration  \* CHALLENGE_DURATION of both engines, 1 day

ASSUME EscrowDelaysOK == UnlockDelay \in Nat \ {0} /\ EscrowChallengeDuration \in Nat \ {0}

\* Both engines: the escrow is open and this is the non-home chain.
escrowUniversal(m, s, time) ==
  /\ m.status # "FINALIZED"
  /\ s.homeLedger.chainId # ChainId
  /\ s.nonHomeLedger.chainId = ChainId
  /\ s.version > 0
  /\ validateTokenDecimals(s.nonHomeLedger)
  /\ BalancedLedger(s.nonHomeLedger)
  /\ m.status = "DISPUTED" => time <= m.challengeExpireAt

\* The final state is the immediate successor of the initial one.
escrowSuccessor(m, s) ==
  /\ m.status \in {"INITIALIZED", "DISPUTED"}
  /\ s.version = m.initState.version + 1
  /\ s.nonHomeLedger.token = m.initState.nonHomeLedger.token

-------------------------------------------------------------------------------
(* Escrow deposits: the user locks here, the node on the home chain *)

initiateDepositAllowed(m, s) ==
  LET nonHome == s.nonHomeLedger
  IN  /\ s.intent = "INITIATE_ESCROW_DEPOSIT"
      /\ m.status = "VOID"
      /\ nonHome.userNetFlow = nonHome.userAllocation
      /\ nonHome.nodeAllocation = 0
      /\ nonHome.nodeNetFlow = 0
      /\ SameWad(s.homeLedger.nodeAllocation, s.homeLedger.decimals,
                 nonHome.userAllocation, nonHome.decimals)
      /\ nonHome.userAllocation # 0  \* FundMovementIsRequired

finalizeDepositAllowed(m, s) ==
  LET init == m.initState
      amount == init.nonHomeLedger.userAllocation
      userHomeAllocDelta == s.homeLedger.userAllocation - init.homeLedger.userAllocation
  IN  /\ s.intent = "FINALIZE_ESCROW_DEPOSIT"
      /\ escrowSuccessor(m, s)
      /\ init.intent = "INITIATE_ESCROW_DEPOSIT"
      /\ s.nonHomeLedger.userNetFlow = amount
      /\ s.nonHomeLedger.nodeNetFlow = -amount
      /\ s.nonHomeLedger.userAllocation = 0
      /\ s.nonHomeLedger.nodeAllocation = 0
      /\ userHomeAllocDelta >= 0  \* checked subtraction
      /\ SameWad(userHomeAllocDelta, s.homeLedger.decimals,
                 amount, init.nonHomeLedger.decimals)
      /\ s.homeLedger.nodeAllocation = 0
      /\ s.homeLedger.userNetFlow = init.homeLedger.userNetFlow
      /\ m.lockedAmount # 0  \* FundMovementIsRequired

challengeDepositAllowed(m, time) == m.status = "INITIALIZED" /\ time < m.unlockAt

\* The record after each step.  applyEscrowDepositEffects overwrites the
\* expiry only with a positive one, so a finalized escrow keeps its own.
initiatedDeposit(m, s, time) ==
  [m EXCEPT !.status = "INITIALIZED", !.initState = s, !.unlockAt = time + UnlockDelay,
            !.lockedAmount = m.lockedAmount + s.nonHomeLedger.userAllocation]

challengedDeposit(m, time) ==
  [m EXCEPT !.status = "DISPUTED", !.challengeExpireAt = time + EscrowChallengeDuration]

\* Mutation: the amount stays locked.
finalizedDepositStillLocked(m) == [m EXCEPT !.status = "FINALIZED"]

finalizedDeposit(m) == [m EXCEPT !.status = "FINALIZED", !.lockedAmount = 0]

-------------------------------------------------------------------------------
(* Escrow withdrawals: the node locks here for the user to take *)

initiateWithdrawalAllowed(m, s, available) ==
  LET home == s.homeLedger
      nonHome == s.nonHomeLedger
  IN  /\ s.intent = "INITIATE_ESCROW_WITHDRAWAL"
      /\ m.status = "VOID"
      /\ nonHome.userAllocation = 0
      /\ nonHome.userNetFlow = 0
      /\ nonHome.nodeNetFlow = nonHome.nodeAllocation
      /\ home.decimals <= MaxPrecision
      /\ toWad(home.userAllocation, home.decimals)
           >= toWad(nonHome.nodeAllocation, nonHome.decimals)
      /\ home.nodeAllocation = 0
      /\ nonHome.nodeAllocation # 0  \* FundMovementIsRequired
      /\ available >= nonHome.nodeAllocation

finalizeWithdrawalAllowed(m, s) ==
  LET init == m.initState
      amount == init.nonHomeLedger.nodeAllocation
      homeUserAllocDelta == init.homeLedger.userAllocation - s.homeLedger.userAllocation
      homeNodeNfDelta == s.homeLedger.nodeNetFlow - init.homeLedger.nodeNetFlow
  IN  /\ s.intent = "FINALIZE_ESCROW_WITHDRAWAL"
      /\ escrowSuccessor(m, s)
      /\ init.intent = "INITIATE_ESCROW_WITHDRAWAL"
      /\ s.nonHomeLedger.userAllocation = 0
      /\ s.nonHomeLedger.userNetFlow = -amount
      /\ s.nonHomeLedger.nodeAllocation = 0
      /\ s.nonHomeLedger.nodeNetFlow = amount
      /\ homeUserAllocDelta > 0
      /\ SameWad(homeUserAllocDelta, s.homeLedger.decimals,
                 amount, init.nonHomeLedger.decimals)
      /\ homeNodeNfDelta < 0
      /\ SameWad(-homeNodeNfDelta, s.homeLedger.decimals,
                 amount, init.nonHomeLedger.decimals)
      /\ m.lockedAmount # 0  \* FundMovementIsRequired

challengeWithdrawalAllowed(m) == m.status = "INITIALIZED"

initiatedWithdrawal(m, s) ==
  [m EXCEPT !.status = "INITIALIZED", !.initState = s,
            !.lockedAmount = m.lockedAmount + s.nonHomeLedger.nodeAllocation]

challengedWithdrawal(m, time) ==
  [m EXCEPT !.status = "DISPUTED", !.challengeExpireAt = time + EscrowChallengeDuration]

finalizedWithdrawal(m) == [m EXCEPT !.status = "FINALIZED", !.lockedAmount = 0]
===============================================================================
