------------------------------- MODULE CoreState -------------------------------
(***************************************************************************)
(* pkg/core: a user's off-chain state for one asset, the transitions that  *)
(* advance it (types.go), the rule by which the node and the SDK accept a  *)
(* proposed successor (state_advancer.go), the transaction recorded for it *)
(* and its conversion to the contract's State (evm/utils.go).              *)
(*                                                                         *)
(* One asset is modelled; it is left out of every record and key.  Hashes  *)
(* are injective, so an id is the tuple of what is hashed.  Amounts are    *)
(* integers in units of the finest precision any client can write;         *)
(* AssetUnit is the smallest amount of the asset in those units.  Each     *)
(* Apply operator returns the advanced state; MayApply says when the code  *)
(* returns it rather than an error.                                        *)
(***************************************************************************)
EXTENDS Integers, Sequences

CONSTANTS
  Nil,        \* Go's nil
  NoToken,    \* the empty token address
  AssetUnit   \* 10^-decimals of the asset

ASSUME CoreAssumption == AssetUnit \in Nat \ {0}

TransitionType ==
  {"void", "acknowledgement", "home_deposit", "home_withdrawal",
   "escrow_deposit", "escrow_withdraw", "transfer_send", "transfer_receive",
   "commit", "release", "migrate", "escrow_lock", "mutual_lock", "finalize"}

VoidTransition == [type |-> "void", txId |-> Nil, accountId |-> Nil, amount |-> 0]

\* The amounts of a ledger; a fresh one has no chain and no token.
ZeroLedger(chain, token) ==
  [tokenAddress |-> token, blockchainId |-> chain,
   userBalance |-> 0, userNetFlow |-> 0, nodeBalance |-> 0, nodeNetFlow |-> 0]

NewVoidState(wallet) ==
  [transition |-> VoidTransition, userWallet |-> wallet, epoch |-> 0, version |-> 0,
   homeChannelId |-> Nil, escrowChannelId |-> Nil,
   homeLedger |-> ZeroLedger(0, NoToken), escrowLedger |-> Nil,
   userSig |-> FALSE, nodeSig |-> FALSE]

GetStateID(s) == <<s.userWallet, s.epoch, s.version>>

GetHomeChannelID(wallet, nonce) == <<wallet, nonce>>

GetEscrowChannelID(homeChannelId, version) == <<homeChannelId, version>>

\* GetSenderTransactionID and GetReceiverTransactionID.
getTransactionID(account, stateId) == <<account, stateId>>

IsFinal(s) == s.transition.type = "finalize"

\* Mutation: a new epoch goes on counting versions.
NextStateVersionGoesOn(s) ==
  IF IsFinal(s)
  THEN [NewVoidState(s.userWallet) EXCEPT !.epoch = s.epoch + 1, !.version = s.version + 1]
  ELSE [s EXCEPT !.transition = VoidTransition, !.version = s.version + 1,
                 !.userSig = FALSE, !.nodeSig = FALSE]

NextState(s) ==
  LET next == IF IsFinal(s)
              THEN [NewVoidState(s.userWallet) EXCEPT !.epoch = s.epoch + 1,
                                                      !.escrowLedger = s.escrowLedger]
              ELSE [s EXCEPT !.transition = VoidTransition,
                             !.version = s.version + 1,
                             !.userSig = FALSE, !.nodeSig = FALSE]
      escrowDone == /\ s.escrowLedger # Nil
                    /\ s.transition.type \in {"escrow_deposit", "escrow_withdraw"}
  IN  IF escrowDone THEN [next EXCEPT !.escrowChannelId = Nil, !.escrowLedger = Nil]
                    ELSE next

ApplyChannelCreation(s, chain, token, nonce) ==
  [s EXCEPT !.homeLedger.tokenAddress = token,
            !.homeLedger.blockchainId = chain,
            !.homeChannelId = GetHomeChannelID(s.userWallet, nonce)]

-------------------------------------------------------------------------------
(* The transitions *)

SenderTransition(s, type, account, amount) ==
  [type |-> type, txId |-> getTransactionID(account, GetStateID(s)),
   accountId |-> account, amount |-> amount]

ApplyAcknowledgementTransition(s) ==
  [s EXCEPT !.transition = [type |-> "acknowledgement", txId |-> 0, accountId |-> 0,
                            amount |-> 0]]

ApplyHomeDepositTransition(s, a) ==
  [s EXCEPT !.transition = SenderTransition(s, "home_deposit", s.homeChannelId, a),
            !.homeLedger.userNetFlow = @ + a,
            !.homeLedger.userBalance = @ + a]

ApplyHomeWithdrawalTransition(s, a) ==
  [s EXCEPT !.transition = SenderTransition(s, "home_withdrawal", s.homeChannelId, a),
            !.homeLedger.userNetFlow = @ - a,
            !.homeLedger.userBalance = @ - a]

ApplyTransferSendTransition(s, recipient, a) ==
  [s EXCEPT !.transition = SenderTransition(s, "transfer_send", recipient, a),
            !.homeLedger.userBalance = @ - a,
            !.homeLedger.nodeNetFlow = @ - a]

ApplyTransferReceiveTransition(s, sender, a, txId) ==
  [s EXCEPT !.transition = [type |-> "transfer_receive", txId |-> txId,
                            accountId |-> sender, amount |-> a],
            !.homeLedger.userBalance = @ + a,
            !.homeLedger.nodeNetFlow = @ + a]

ApplyCommitTransition(s, account, a) ==
  [s EXCEPT !.transition = SenderTransition(s, "commit", account, a),
            !.homeLedger.userBalance = @ - a,
            !.homeLedger.nodeNetFlow = @ - a]

ApplyReleaseTransition(s, account, a) ==
  [s EXCEPT !.transition = SenderTransition(s, "release", account, a),
            !.homeLedger.userBalance = @ + a,
            !.homeLedger.nodeNetFlow = @ + a]

ApplyMutualLockTransition(s, chain, token, a) ==
  LET escrowId == GetEscrowChannelID(s.homeChannelId, s.version) IN
  [s EXCEPT !.transition = SenderTransition(s, "mutual_lock", escrowId, a),
            !.escrowChannelId = escrowId,
            !.homeLedger.nodeBalance = @ + a,
            !.homeLedger.nodeNetFlow = @ + a,
            !.escrowLedger = [ZeroLedger(chain, token) EXCEPT !.userBalance = a,
                                                              !.userNetFlow = a]]

ApplyEscrowDepositTransition(s, a) ==
  [s EXCEPT !.transition = SenderTransition(s, "escrow_deposit", s.escrowChannelId, a),
            !.homeLedger.userBalance = @ + a,
            !.homeLedger.nodeBalance = 0,
            !.escrowLedger.userBalance = @ - a,
            !.escrowLedger.nodeNetFlow = @ - a]

ApplyEscrowLockTransition(s, chain, token, a) ==
  LET escrowId == GetEscrowChannelID(s.homeChannelId, s.version) IN
  [s EXCEPT !.transition = SenderTransition(s, "escrow_lock", escrowId, a),
            !.escrowChannelId = escrowId,
            !.homeLedger.nodeBalance = 0,
            !.escrowLedger = [ZeroLedger(chain, token) EXCEPT !.nodeBalance = a,
                                                              !.nodeNetFlow = a]]

\* Mutation: the node's net flow on the home ledger is forgotten.
ApplyEscrowWithdrawHomeFlow(s, a) ==
  [s EXCEPT !.transition = SenderTransition(s, "escrow_withdraw", s.escrowChannelId, a),
            !.homeLedger.userBalance = @ - a,
            !.escrowLedger.userNetFlow = @ - a,
            !.escrowLedger.nodeBalance = @ - a]

ApplyEscrowWithdrawTransition(s, a) ==
  [s EXCEPT !.transition = SenderTransition(s, "escrow_withdraw", s.escrowChannelId, a),
            !.homeLedger.userBalance = @ - a,
            !.homeLedger.nodeNetFlow = @ - a,
            !.escrowLedger.userNetFlow = @ - a,
            !.escrowLedger.nodeBalance = @ - a]

ApplyFinalizeTransition(s) ==
  LET a == s.homeLedger.userBalance IN
  [s EXCEPT !.transition = SenderTransition(s, "finalize", s.homeChannelId, a),
            !.homeLedger.userNetFlow = @ - a,
            !.homeLedger.userBalance = 0]

\* The errors of the Apply methods; t is the transition to apply and el the
\* escrow ledger of the proposal.  Migrate is not implemented and always fails.
MayApply(s, t, el) ==
  /\ s.transition.type = "void"
  /\ t.type # "migrate"
  /\ t.type \in {"home_deposit", "home_withdrawal", "finalize",
                 "mutual_lock", "escrow_lock"} => s.homeChannelId # Nil
  /\ t.type \in {"mutual_lock", "escrow_lock"} =>
       el # Nil /\ el.blockchainId # 0 /\ el.tokenAddress # NoToken
  /\ t.type = "escrow_lock" => s.homeLedger.userBalance >= t.amount
  /\ t.type \in {"escrow_deposit", "escrow_withdraw"} =>
       s.escrowChannelId # Nil /\ s.escrowLedger # Nil

\* What the state becomes under the transition t a user may propose.
Applied(s, t, el) ==
  CASE t.type = "acknowledgement" -> ApplyAcknowledgementTransition(s)
    [] t.type = "home_deposit"    -> ApplyHomeDepositTransition(s, t.amount)
    [] t.type = "home_withdrawal" -> ApplyHomeWithdrawalTransition(s, t.amount)
    [] t.type = "transfer_send"   -> ApplyTransferSendTransition(s, t.accountId, t.amount)
    [] t.type = "commit"          -> ApplyCommitTransition(s, t.accountId, t.amount)
    [] t.type = "mutual_lock"     ->
         ApplyMutualLockTransition(s, el.blockchainId, el.tokenAddress, t.amount)
    [] t.type = "escrow_deposit"  -> ApplyEscrowDepositTransition(s, t.amount)
    [] t.type = "escrow_lock"     ->
         ApplyEscrowLockTransition(s, el.blockchainId, el.tokenAddress, t.amount)
    [] t.type = "escrow_withdraw" -> ApplyEscrowWithdrawTransition(s, t.amount)
    [] t.type = "finalize"        -> ApplyFinalizeTransition(s)

-------------------------------------------------------------------------------
(* Validation *)

ValidateDecimalPrecision(amount) == amount % AssetUnit = 0

\* Ledger.Validate
ValidLedger(l) ==
  /\ l.tokenAddress # NoToken
  /\ l.blockchainId # 0
  /\ l.userBalance >= 0
  /\ l.nodeBalance >= 0
  /\ l.userBalance + l.nodeBalance = l.userNetFlow + l.nodeNetFlow

\* The types a proposal may have, with the sign its amount must have.
ValidAmount(t) ==
  /\ ValidateDecimalPrecision(t.amount)
  /\ CASE t.type = "acknowledgement" -> t.amount = 0
       [] t.type = "finalize"        -> t.amount >= 0
       [] OTHER                      -> t.amount > 0

\* Which transition may follow the current one.
ValidSuccession(cur, t) ==
  LET last == cur.transition IN
  /\ t.type \notin {"void", "transfer_receive", "release"}
  /\ last.type = "mutual_lock" => t.type = "escrow_deposit"
  /\ last.type = "escrow_lock" => t.type = "escrow_withdraw"
  /\ t.type = "acknowledgement" => ~cur.userSig
  /\ t.type = "escrow_deposit" => last.type = "mutual_lock" /\ last.amount = t.amount
  /\ t.type = "escrow_withdraw" => last.type = "escrow_lock" /\ last.amount = t.amount

\* The successor of the current state that the proposal p must extend; a
\* state without a channel takes the channel, the chain and the token of p.
ExpectedState(cur, p) ==
  LET next == NextState(cur) IN
  IF next.homeChannelId = Nil
  THEN [next EXCEPT !.homeChannelId = p.homeChannelId,
                    !.homeLedger.blockchainId = p.homeLedger.blockchainId,
                    !.homeLedger.tokenAddress = p.homeLedger.tokenAddress]
  ELSE next

\* Mutation: the resulting ledgers are not validated.
ValidateAdvancementNoLedger(cur, p) ==
  LET exp == ExpectedState(cur, p)
      t == p.transition
  IN  /\ p.homeChannelId # Nil
      /\ p.homeChannelId = exp.homeChannelId
      /\ GetStateID(p) = GetStateID(exp)
      /\ ValidAmount(t)
      /\ ValidSuccession(cur, t)
      /\ MayApply(exp, t, p.escrowLedger)
      /\ LET new == Applied(exp, t, p.escrowLedger)
         IN  /\ new.transition = t
             /\ new.homeLedger = p.homeLedger

ValidateAdvancement(cur, p) ==
  LET exp == ExpectedState(cur, p)
      t == p.transition
  IN  /\ p.homeChannelId # Nil
      /\ p.homeChannelId = exp.homeChannelId
      /\ GetStateID(p) = GetStateID(exp)
      /\ ValidAmount(t)
      /\ ValidSuccession(cur, t)
      /\ MayApply(exp, t, p.escrowLedger)
      /\ LET new == Applied(exp, t, p.escrowLedger)
         IN  /\ new.transition = t
             /\ new.homeLedger = p.homeLedger /\ ValidLedger(p.homeLedger)
             /\ new.escrowChannelId = p.escrowChannelId
             /\ new.escrowLedger = p.escrowLedger
             /\ p.escrowLedger # Nil =>
                  /\ ValidLedger(p.escrowLedger)
                  /\ p.escrowLedger.blockchainId # p.homeLedger.blockchainId

-------------------------------------------------------------------------------
(* What is derived from a state *)

\* The action the gateway counts for a transition type; Nil if none.
GatedAction(type) == IF type = "transfer_send" THEN "transfer" ELSE Nil

\* NewTransactionFromTransition: the transactions row of the sender's state
\* (Nil for a release) and the receiver's state (Nil unless the node issued
\* one).
NewTransactionFromTransition(sender, receiver, t) ==
  LET home == sender.homeChannelId
      escrow == sender.escrowChannelId
      user == sender.userWallet
      from == CASE t.type \in {"home_deposit", "escrow_withdraw", "mutual_lock",
                               "escrow_lock"} -> home
                [] t.type = "escrow_deposit" -> escrow
                [] t.type \in {"home_withdrawal", "transfer_send", "commit",
                               "finalize"} -> user
                [] t.type = "release" -> t.accountId
      to == CASE t.type \in {"home_deposit", "escrow_deposit"} -> user
              [] t.type \in {"home_withdrawal", "finalize"} -> home
              [] t.type \in {"escrow_withdraw", "mutual_lock", "escrow_lock"} -> escrow
              [] t.type \in {"transfer_send", "commit"} -> t.accountId
              [] t.type = "release" -> receiver.userWallet
  IN  [id |-> IF receiver # Nil THEN getTransactionID(from, GetStateID(receiver))
                                ELSE getTransactionID(to, GetStateID(sender)),
       txType |-> IF t.type = "transfer_send" THEN "transfer" ELSE t.type,
       fromAccount |-> from, toAccount |-> to,
       senderState |-> IF sender = Nil THEN Nil ELSE GetStateID(sender),
       receiverState |-> IF receiver = Nil THEN Nil ELSE GetStateID(receiver),
       amount |-> t.amount]

TransitionToIntent(t) ==
  CASE t.type = "finalize"        -> "CLOSE"
    [] t.type = "home_deposit"    -> "DEPOSIT"
    [] t.type = "home_withdrawal" -> "WITHDRAW"
    [] t.type = "mutual_lock"     -> "INITIATE_ESCROW_DEPOSIT"
    [] t.type = "escrow_deposit"  -> "FINALIZE_ESCROW_DEPOSIT"
    [] t.type = "escrow_lock"     -> "INITIATE_ESCROW_WITHDRAWAL"
    [] t.type = "escrow_withdraw" -> "FINALIZE_ESCROW_WITHDRAWAL"
    [] t.type = "migrate"         -> "INITIATE_MIGRATION"
    [] OTHER                      -> "OPERATE"

\* coreLedgerToContractLedger, for a token whose smallest amount is unit, of
\* which the validated amounts are multiples.
DecimalToBigInt(amount, unit) == amount \div unit

coreLedgerToContractLedger(l, decimals, unit) ==
  [chainId |-> l.blockchainId, token |-> l.tokenAddress, decimals |-> decimals,
   userAllocation |-> DecimalToBigInt(l.userBalance, unit),
   userNetFlow |-> DecimalToBigInt(l.userNetFlow, unit),
   nodeAllocation |-> DecimalToBigInt(l.nodeBalance, unit),
   nodeNetFlow |-> DecimalToBigInt(l.nodeNetFlow, unit)]
===============================================================================
