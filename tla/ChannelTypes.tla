----------------------------- MODULE ChannelTypes -----------------------------
(***************************************************************************)
(* The data of the channel protocol as one deployment of the ChannelHub    *)
(* contract sees it (contracts/src/interfaces/Types.sol, WadMath.sol and   *)
(* Utils.sol): ledgers, states, statuses, intents, the metadata records of *)
(* channels and escrows, and amounts scaled to a common precision.         *)
(*                                                                         *)
(* A channel id is the hash of a ChannelDefinition, so the definition is a *)
(* function of the id: User and ChallengeDuration give the two fields the  *)
(* contract uses.  Signatures are abstracted to membership: Signed[c] is   *)
(* the set of states of channel c that carry valid signatures of both the  *)
(* user and the node.                                                      *)
(***************************************************************************)
EXTENDS Integers, FiniteSets

CONSTANTS
  Channels,           \* channel ids
  Users, NODE,        \* the users' addresses and the node's
  User,               \* [Channels -> Users], def.user
  ChallengeDuration,  \* [Channels -> Nat], def.challengeDuration
  MinChallengeDuration,
  Tokens,             \* the ERC-20 contracts deployed on this chain
  NoToken,            \* the zero address
  ChainId,            \* block.chainid of this deployment
  MaxPrecision,       \* WadMath.MAX_PRECISION
  TokenDecimals,      \* [Tokens -> 0..MaxPrecision], IERC20Metadata.decimals()
  Versions,           \* the state versions, a uint64 in the code
  Signed              \* [Channels -> SUBSET State], the co-signed states

ChannelStatus ==
  {"VOID", "OPERATING", "DISPUTED", "CLOSED", "MIGRATING_IN", "MIGRATED_OUT"}

EscrowStatus == {"VOID", "INITIALIZED", "DISPUTED", "FINALIZED"}

EscrowIntent ==
  {"INITIATE_ESCROW_DEPOSIT", "FINALIZE_ESCROW_DEPOSIT",
   "INITIATE_ESCROW_WITHDRAWAL", "FINALIZE_ESCROW_WITHDRAWAL"}

MigrationIntent == {"INITIATE_MIGRATION", "FINALIZE_MIGRATION"}

StateIntent ==
  {"OPERATE", "CLOSE", "DEPOSIT", "WITHDRAW"} \cup EscrowIntent \cup MigrationIntent

Ledger ==
  [chainId : Nat, token : Tokens \cup {NoToken}, decimals : Nat,
   userAllocation : Nat, userNetFlow : Int,
   nodeAllocation : Nat, nodeNetFlow : Int]

State ==
  [version : Nat, intent : StateIntent, homeLedger : Ledger, nonHomeLedger : Ledger]

Accounts == Users \cup {NODE}

ASSUME ConstantsOK ==
  /\ IsFiniteSet(Channels) /\ IsFiniteSet(Users)
  /\ NODE \notin Users
  /\ NoToken \notin Tokens
  /\ User \in [Channels -> Users]
  /\ ChallengeDuration \in [Channels -> Nat]
  /\ MinChallengeDuration \in Nat
  /\ ChainId \in Nat \ {0}
  /\ MaxPrecision \in Nat
  /\ TokenDecimals \in [Tokens -> Nat]
  /\ IsFiniteSet(Versions) /\ Versions \subseteq Nat
  /\ DOMAIN Signed = Channels

\* Every co-signed state is a value of the State struct.
ASSUME SignedOK ==
  \A c \in Channels : \A s \in Signed[c] : s \in State /\ s.version \in Versions

-------------------------------------------------------------------------------
EmptyLedger ==
  [chainId |-> 0, token |-> NoToken, decimals |-> 0,
   userAllocation |-> 0, userNetFlow |-> 0,
   nodeAllocation |-> 0, nodeNetFlow |-> 0]

\* The value of a State slot that was never written.
EmptyState ==
  [version |-> 0, intent |-> "OPERATE",
   homeLedger |-> EmptyLedger, nonHomeLedger |-> EmptyLedger]

IsEmptyLedger(l) == l.chainId = 0

IsEmptyState(s) == IsEmptyLedger(s.homeLedger) /\ IsEmptyLedger(s.nonHomeLedger)

\* An amount scaled to MaxPrecision decimals.
toWad(amount, decimals) == amount * 10^(MaxPrecision - decimals)

\* The amounts a and b, in tokens of da and db decimals, have the same worth;
\* toWad reverts on decimals above the maximum.
SameWad(a, da, b, db) ==
  /\ da <= MaxPrecision /\ db <= MaxPrecision
  /\ toWad(a, da) = toWad(b, db)

\* The declared decimals are those of the token contract, when it is on this
\* chain and can be asked.
validateTokenDecimals(l) ==
  /\ l.decimals <= MaxPrecision
  /\ l.chainId = ChainId => l.token \in Tokens /\ l.decimals = TokenDecimals[l.token]

\* Allocations are backed by net flows.
BalancedLedger(l) ==
  /\ l.userNetFlow + l.nodeNetFlow >= 0
  /\ l.userAllocation + l.nodeAllocation = l.userNetFlow + l.nodeNetFlow

\* The two ledgers exchanged, as the migration functions store them.
SwapLedgers(s) ==
  [s EXCEPT !.homeLedger = s.nonHomeLedger, !.nonHomeLedger = s.homeLedger]

-------------------------------------------------------------------------------
\* What the contract stores of a channel and of an escrow.
ChannelMeta ==
  [status : ChannelStatus, lastState : State,
   challengeExpireAt : Nat, lockedFunds : Nat]

EscrowDepositMeta ==
  [status : EscrowStatus, initState : State, unlockAt : Nat,
   challengeExpireAt : Nat, lockedAmount : Nat]

EscrowWithdrawalMeta ==
  [status : EscrowStatus, initState : State,
   challengeExpireAt : Nat, lockedAmount : Nat]

\* escrowId is the hash of a channel id and a state version.
EscrowIds == Channels \X Versions

\* _requireValidDefinition of the definition behind channel c.
requireValidDefinition(c) ==
  /\ User[c] # NODE
  /\ ChallengeDuration[c] >= MinChallengeDuration
===============================================================================
