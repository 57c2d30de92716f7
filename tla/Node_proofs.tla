------------------------------ MODULE Node_proofs ------------------------------
(***************************************************************************)
(* What Node guarantees for any number of users, channels, amounts and     *)
(* requests in flight: a user's states form one chain, balances move only  *)
(* as UserLedger allows, the tables agree with the chain once every event  *)
(* is handled, the contract accepts what the node has signed, and what is  *)
(* stored, queued and handled has its type.                                *)
(*                                                                         *)
(* The argument is about the row locks.  A request validates its state     *)
(* against the user's last one and stores it in the same transaction; a    *)
(* transfer waits for a second row in between, and nobody else can store a *)
(* state of the sender while its row is locked.  What the tables say of    *)
(* the chain is a second argument, on top of it: the pending events of a   *)
(* channel lead from what its row says to what the contract has.  A third  *)
(* one is about funds: a state is signed only once the chain has seen the  *)
(* deposit or withdrawal before it, so the user's flow on any signed state *)
(* differs from the contract's by that state's own transition.             *)
(***************************************************************************)
EXTENDS Node, Totals_proofs, SequenceTheorems

-------------------------------------------------------------------------------
(* The inductive invariant *)

StateFields == {"transition", "userWallet", "epoch", "version", "homeChannelId",
                "escrowChannelId", "homeLedger", "escrowLedger", "userSig", "nodeSig"}
LedgerFields == {"tokenAddress", "blockchainId", "userBalance", "userNetFlow",
                 "nodeBalance", "nodeNetFlow"}

\* A state of a user, without an escrow; a void one has no transition yet.
IsState(s) ==
  /\ DOMAIN s = StateFields /\ DOMAIN s.homeLedger = LedgerFields
  /\ s.userWallet \in Users /\ s.epoch \in Nat /\ s.version \in Nat
  /\ s.homeLedger.userBalance \in Int /\ s.homeLedger.userNetFlow \in Int
  /\ s.homeChannelId \in ChannelIds \cup {Nil}
  /\ s.escrowChannelId = Nil /\ s.escrowLedger = Nil
  /\ s.transition.type \in SubmitSupported \cup {"transfer_receive", "void"}
  /\ s.transition.amount \in Int

\* An amount without a fraction of the asset's unit.
Whole(a) == \E k \in Int : a = k * AssetUnit

\* A state that may be stored.
Storable(s) ==
  /\ IsState(s) /\ s.transition.type # "void"
  /\ s.homeLedger.userBalance >= 0 /\ s.transition.amount >= 0
  /\ Whole(s.transition.amount)
  /\ IsFinal(s) => s.homeLedger.userBalance = 0

Before(s, t) == s.epoch < t.epoch \/ (s.epoch = t.epoch /\ s.version < t.version)

Last(u) == GetLastUserState(u, FALSE)

\* What a transition adds to what the user has deposited.
FlowGain(t) ==
  CASE t.type = "home_deposit" -> t.amount
    [] t.type \in {"home_withdrawal", "finalize"} -> -t.amount
    [] OTHER -> 0

\* p is a successor of s, by its number and its amounts.
Extends(s, p) ==
  /\ p.userWallet = s.userWallet
  /\ p.epoch = IF IsFinal(s) THEN s.epoch + 1 ELSE s.epoch
  /\ p.version = IF IsFinal(s) THEN 0 ELSE s.version + 1
  /\ p.homeLedger.userBalance = s.homeLedger.userBalance + Gain(p.transition)
  /\ p.homeLedger.userNetFlow =
       (IF IsFinal(s) THEN 0 ELSE s.homeLedger.userNetFlow) + FlowGain(p.transition)

\* The amounts of p are those of e with p's transition applied.
Moves(e, p) ==
  /\ p.homeLedger.userBalance = e.homeLedger.userBalance + Gain(p.transition)
  /\ p.homeLedger.userNetFlow = e.homeLedger.userNetFlow + FlowGain(p.transition)
  /\ p.transition.type = "finalize" => p.homeLedger.userBalance = 0

\* t comes right before s in a user's history.
Precedes(t, s) ==
  /\ t.userWallet = s.userWallet
  /\ \/ t.epoch = s.epoch /\ t.version = s.version - 1
     \/ s.version = 0 /\ t.epoch = s.epoch - 1 /\ IsFinal(t)

\* Each state has a number of its own, and a user's last one is above the others.
Numbered ==
  /\ \A s \in channelStates : Storable(s) /\ (s.epoch > 0 \/ s.version > 0)
  /\ \A u \in Users :
       /\ IsFiniteSet(StatesOf(u))
       /\ \E n \in Nat : \A s \in StatesOf(u) : s.epoch <= n /\ s.version <= n
       /\ StatesOf(u) # {} => /\ Last(u) \in StatesOf(u)
                              /\ \A s \in StatesOf(u) \ {Last(u)} : Before(s, Last(u))
  /\ \A s, t \in channelStates :
       s.userWallet = t.userWallet /\ s.epoch = t.epoch /\ s.version = t.version => s = t
  /\ \A s, t \in channelStates :
       s.userWallet = t.userWallet /\ IsFinal(s) /\ s.epoch = t.epoch => t.version <= s.version

\* Each state follows another one and has its balance, with what was added.
Linked ==
  /\ \A s \in channelStates :
       s.epoch > 0 \/ s.version > 1 => \E t \in channelStates : Precedes(t, s)
  /\ \A s \in channelStates : s.epoch = 0 /\ s.version = 1 =>
       s.homeLedger.userBalance = Gain(s.transition)
  /\ \A s, t \in channelStates : Precedes(t, s) =>
       s.homeLedger.userBalance = t.homeLedger.userBalance + Gain(s.transition)

\* States that follow their users' last ones, no two of one user.
Successors(new) ==
  /\ \A s \in new : Storable(s) /\ Extends(GetLatestState(s.userWallet), s)
  /\ \A s, t \in new : s.userWallet = t.userWallet => s = t

\* Every channel that a state names has a row; all its states are of one user
\* and of one epoch.
ChannelsInv ==
  /\ DOMAIN channels = ChannelIds
  /\ \A c \in ChannelIds :
       channels[c] # Nil => channels[c] \in ChannelRow /\ channels[c].userWallet = c[1]
  /\ \A s \in channelStates :
       /\ s.nodeSig => s.homeChannelId # Nil
       /\ s.homeChannelId # Nil => /\ channels[s.homeChannelId] # Nil
                                   /\ s.homeChannelId[1] = s.userWallet
  /\ \A s, t \in channelStates :
       s.homeChannelId = t.homeChannelId /\ s.homeChannelId # Nil => s.epoch = t.epoch

\* A user's balance is that of the last state.
BalancesInv ==
  /\ DOMAIN userBalances = Users
  /\ \A u \in Users :
       /\ DOMAIN userBalances[u] = {"balance", "enforced"}
       /\ userBalances[u].balance = GetLatestState(u).homeLedger.userBalance

\* p was prepared on a state with the same channel.
Prepared(p) ==
  \E s \in channelStates :
    /\ s.userWallet = p.userWallet /\ s.homeChannelId = p.homeChannelId
    /\ s.epoch = p.epoch /\ s.version + 1 = p.version

\* What request q in slot r may rely on.  Between its two locks a transfer is
\* valid against the sender's last state.
RequestOK(r, q) ==
  \/ q = Idle
  \/ /\ DOMAIN q = {"pc", "kind", "state"} /\ q.pc \in {"gate", "lock", "receiver"}
     /\ q.kind \in {"submit", "create"}
     /\ IsState(q.state) /\ q.state.transition.type \in SubmitSupported
     /\ q.state.homeChannelId \in ChannelIds
     /\ q.state.homeChannelId[1] = q.state.userWallet
     /\ q.kind = "submit" => Prepared(q.state)
     /\ q.state.transition.type = "transfer_send" => q.state.transition.accountId \in Users
     /\ q.pc = "receiver" =>
          /\ rowLocks[q.state.userWallet] = r
          /\ q.state.transition.type = "transfer_send" /\ q.state.transition.amount > 0
          /\ Storable(q.state) /\ Extends(GetLatestState(q.state.userWallet), q.state)
          /\ q.kind = "create" => channels[q.state.homeChannelId] = Nil

RequestsInv ==
  /\ sent \in 0..MaxRequests
  /\ DOMAIN requests = Requests /\ \A r \in Requests : RequestOK(r, requests[r])
  /\ rowLocks \in [Users -> Requests \cup {Nil}]
  /\ \A u \in Users : rowLocks[u] # Nil =>
       /\ requests[rowLocks[u]].pc = "receiver"
       /\ requests[rowLocks[u]].state.userWallet = u

EventType == {"Created", "Deposited", "Withdrawn", "Checkpointed", "Challenged", "Closed"}
EventRecord == [type : EventType, channelId : ChannelIds, version : Nat]
ActionRecord == [stateId : Users \X Nat \X Nat, status : {"pending", "completed", "failed"},
                 retries : Nat]

\* The id of a co-signed state with a channel.
Known(id) ==
  \E s \in channelStates : GetStateID(s) = id /\ CoSigned(s)

\* The contract's record of a channel.
ChainRecord(m) ==
  /\ DOMAIN m = {"status", "lastState", "challengeExpireAt", "lockedFunds"}
  /\ m.status \in Hub!ChannelStatus /\ m.lastState.version \in Nat

\* The contract's records and its events.
OnchainInv ==
  /\ DOMAIN chain = ChannelIds
  /\ \A c \in ChannelIds :
       ChainRecord(chain[c]) /\ (chain[c].status # "VOID" => channels[c] # Nil)
  /\ events \in Seq(EventRecord)
  /\ \A i \in 1..Len(events) : channels[events[i].channelId] # Nil
  /\ handling # Nil =>
       /\ events # <<>> /\ handling.event = Head(events)
       /\ handling.checkpoint # Nil => Known(handling.checkpoint)

\* The worker's queue and its transactions.
WorkerInv ==
  /\ actions \in Seq(ActionRecord)
  /\ \A i \in 1..Len(actions) : Known(actions[i].stateId)
  /\ \A id \in mempool : Known(id)

Inv ==
  /\ Numbered /\ Linked /\ ChannelsInv /\ BalancesInv
  /\ RequestsInv /\ OnchainInv /\ WorkerInv

-------------------------------------------------------------------------------
(* Users' states *)

\* A new user's state.
LEMMA VoidIs ==
  ASSUME NEW u \in Users
  PROVE  LET s == NewVoidState(u) IN
         /\ IsState(s) /\ s.transition.type = "void" /\ s.userWallet = u
         /\ s.epoch = 0 /\ s.version = 0 /\ s.homeChannelId = Nil /\ ~s.userSig
         /\ s.homeLedger.userBalance = 0 /\ s.homeLedger.userNetFlow = 0
BY DEF NewVoidState, IsState, VoidTransition, ZeroLedger, StateFields, LedgerFields

\* The successor of a state, to which a transition is to be applied.
LEMMA NextIs ==
  ASSUME NEW s, IsState(s)
  PROVE  LET n == NextState(s) IN
         /\ IsState(n) /\ n.transition.type = "void" /\ n.userWallet = s.userWallet
         /\ n.epoch = IF IsFinal(s) THEN s.epoch + 1 ELSE s.epoch
         /\ n.version = IF IsFinal(s) THEN 0 ELSE s.version + 1
         /\ n.homeChannelId = IF IsFinal(s) THEN Nil ELSE s.homeChannelId
         /\ n.homeLedger = IF IsFinal(s) THEN ZeroLedger(0, NoToken) ELSE s.homeLedger
<1> DEFINE n == NextState(s)
           v == NewVoidState(s.userWallet)
<1>0. DOMAIN s = StateFields /\ s.escrowLedger = Nil /\ s.userWallet \in Users
  BY DEF IsState
<1>1. CASE IsFinal(s)
  <2>1. n = [v EXCEPT !.epoch = s.epoch + 1, !.escrowLedger = s.escrowLedger]
    BY <1>0, <1>1 DEF NextState
  <2>2. /\ IsState(v) /\ v.transition.type = "void" /\ v.userWallet = s.userWallet
        /\ v.version = 0 /\ v.homeChannelId = Nil
    BY <1>0, VoidIs
  <2>3. v.homeLedger = ZeroLedger(0, NoToken) /\ DOMAIN v = StateFields
    BY <2>2 DEF NewVoidState, IsState
  <2> HIDE DEF n, v
  <2>4. /\ DOMAIN n = StateFields /\ n.transition = v.transition /\ n.userWallet = v.userWallet
        /\ n.epoch = s.epoch + 1 /\ n.version = v.version
        /\ n.homeChannelId = v.homeChannelId /\ n.escrowChannelId = v.escrowChannelId
        /\ n.homeLedger = v.homeLedger /\ n.escrowLedger = s.escrowLedger
    BY <2>1, <2>3 DEF StateFields
  <2>5. IsState(n)
    BY <1>0, <2>2, <2>4 DEF IsState
  <2> QED
    BY <1>1, <2>2, <2>3, <2>4, <2>5 DEF n
<1>2. CASE ~IsFinal(s)
  <2>1. n = [s EXCEPT !.transition = VoidTransition, !.version = s.version + 1,
                      !.userSig = FALSE, !.nodeSig = FALSE]
    BY <1>0, <1>2 DEF NextState
  <2> HIDE DEF n
  <2>2. /\ DOMAIN n = StateFields /\ n.transition = VoidTransition
        /\ n.userWallet = s.userWallet /\ n.epoch = s.epoch /\ n.version = s.version + 1
        /\ n.homeChannelId = s.homeChannelId /\ n.escrowChannelId = s.escrowChannelId
        /\ n.homeLedger = s.homeLedger /\ n.escrowLedger = s.escrowLedger
    BY <1>0, <2>1 DEF StateFields
  <2>3. IsState(n)
    BY <2>2 DEF IsState, VoidTransition
  <2> QED
    BY <1>2, <2>2, <2>3 DEF n, VoidTransition
<1> QED
  BY <1>1, <1>2

\* A ledger whose user amounts are changed.
LEMMA LedgerChanged ==
  ASSUME NEW l, DOMAIN l = LedgerFields, NEW b \in Int, NEW f \in Int
  PROVE  LET m == [l EXCEPT !.userNetFlow = f, !.userBalance = b]
             k == [l EXCEPT !.userBalance = b, !.nodeNetFlow = @ + f]
         IN  /\ DOMAIN m = LedgerFields /\ m.userBalance = b /\ m.userNetFlow = f
             /\ m.blockchainId = l.blockchainId /\ m.tokenAddress = l.tokenAddress
             /\ DOMAIN k = LedgerFields /\ k.userBalance = b /\ k.userNetFlow = l.userNetFlow
             /\ k.blockchainId = l.blockchainId /\ k.tokenAddress = l.tokenAddress
BY DEF LedgerFields

\* What the client's and the node's Apply methods make of a state e.
LEMMA AppliedIs ==
  ASSUME NEW e, IsState(e), NEW t, t.type \in SubmitSupported, t.amount \in Int, NEW el
  PROVE  LET p == Applied(e, t, el) IN
         /\ IsState(p) /\ p.userWallet = e.userWallet /\ p.epoch = e.epoch
         /\ p.version = e.version /\ p.homeChannelId = e.homeChannelId
         /\ p.userSig = e.userSig /\ p.nodeSig = e.nodeSig
         /\ p.transition.type = t.type /\ Moves(e, p)
         /\ p.transition.amount \in {t.amount, e.homeLedger.userBalance, 0}
         /\ t.type = "transfer_send" => /\ p.transition.accountId = t.accountId
                                        /\ p.transition.amount = t.amount
         /\ p.homeLedger.blockchainId = e.homeLedger.blockchainId
         /\ p.homeLedger.tokenAddress = e.homeLedger.tokenAddress
<1> DEFINE p == Applied(e, t, el)
           h == e.homeLedger
           a == t.amount
<1>0. /\ DOMAIN e = StateFields /\ DOMAIN h = LedgerFields
      /\ h.userBalance \in Int /\ h.userNetFlow \in Int
  BY DEF IsState
<1>1. CASE t.type = "acknowledgement"
  <2> DEFINE x == [type |-> "acknowledgement", txId |-> 0, accountId |-> 0, amount |-> 0]
  <2>1. p = [e EXCEPT !.transition = x]
    BY <1>1 DEF Applied, ApplyAcknowledgementTransition
  <2>2. p = [e EXCEPT !.transition = x, !.homeLedger = h]
    BY <1>0, <2>1 DEF StateFields
  <2>3. x.type = "acknowledgement" /\ x.amount = 0
    OBVIOUS
  <2> HIDE DEF p, x, h
  <2>4. /\ IsState(p) /\ p.transition = x /\ p.homeLedger = h
        /\ p.userWallet = e.userWallet /\ p.epoch = e.epoch /\ p.version = e.version
        /\ p.homeChannelId = e.homeChannelId
        /\ p.userSig = e.userSig /\ p.nodeSig = e.nodeSig
    <3>1. /\ x.type \in SubmitSupported /\ x.amount \in Int
          /\ DOMAIN h = LedgerFields /\ h.userBalance \in Int /\ h.userNetFlow \in Int
      BY <1>0, <1>1, <2>3
    <3>2. /\ DOMAIN p = StateFields /\ p.transition = x /\ p.homeLedger = h
          /\ p.userWallet = e.userWallet /\ p.epoch = e.epoch /\ p.version = e.version
          /\ p.homeChannelId = e.homeChannelId /\ p.escrowChannelId = e.escrowChannelId
          /\ p.escrowLedger = e.escrowLedger
          /\ p.userSig = e.userSig /\ p.nodeSig = e.nodeSig
      BY <1>0, <2>2 DEF StateFields
    <3>3. IsState(p)
      BY <3>1, <3>2 DEF IsState
    <3> QED
      BY <3>2, <3>3
  <2>5. Moves(e, p)
    BY <1>0, <1>1, <2>3, <2>4 DEF Moves, Gain, FlowGain, h
  <2> QED
    BY <1>1, <2>3, <2>4, <2>5 DEF p, h
<1>2. CASE t.type = "home_deposit"
  <2> DEFINE x == SenderTransition(e, "home_deposit", e.homeChannelId, a)
             l == [h EXCEPT !.userNetFlow = h.userNetFlow + a, !.userBalance = h.userBalance + a]
  <2>1. p = [e EXCEPT !.transition = x, !.homeLedger.userNetFlow = @ + a,
                      !.homeLedger.userBalance = @ + a]
    BY <1>2 DEF Applied, ApplyHomeDepositTransition
  <2>2. p = [e EXCEPT !.transition = x, !.homeLedger = l]
    BY <1>0, <2>1 DEF StateFields, LedgerFields
  <2>3. x.type = "home_deposit" /\ x.amount = a
    BY DEF SenderTransition
  <2>4. /\ DOMAIN l = LedgerFields /\ l.userBalance = h.userBalance + a
        /\ l.userNetFlow = h.userNetFlow + a
        /\ l.blockchainId = h.blockchainId /\ l.tokenAddress = h.tokenAddress
    BY <1>0, LedgerChanged
  <2> HIDE DEF p, x, h, l
  <2>5. /\ IsState(p) /\ p.transition = x /\ p.homeLedger = l
        /\ p.userWallet = e.userWallet /\ p.epoch = e.epoch /\ p.version = e.version
        /\ p.homeChannelId = e.homeChannelId
        /\ p.userSig = e.userSig /\ p.nodeSig = e.nodeSig
    <3>1. /\ x.type \in SubmitSupported /\ x.amount \in Int
          /\ DOMAIN l = LedgerFields /\ l.userBalance \in Int /\ l.userNetFlow \in Int
      BY <1>0, <1>2, <2>3, <2>4
    <3>2. /\ DOMAIN p = StateFields /\ p.transition = x /\ p.homeLedger = l
          /\ p.userWallet = e.userWallet /\ p.epoch = e.epoch /\ p.version = e.version
          /\ p.homeChannelId = e.homeChannelId /\ p.escrowChannelId = e.escrowChannelId
          /\ p.escrowLedger = e.escrowLedger
          /\ p.userSig = e.userSig /\ p.nodeSig = e.nodeSig
      BY <1>0, <2>2 DEF StateFields
    <3>3. IsState(p)
      BY <3>1, <3>2 DEF IsState
    <3> QED
      BY <3>2, <3>3
  <2>6. Moves(e, p)
    BY <1>0, <1>2, <2>3, <2>4, <2>5 DEF Moves, Gain, FlowGain, h
  <2> QED
    BY <1>2, <2>3, <2>4, <2>5, <2>6 DEF p, h
<1>3. CASE t.type = "home_withdrawal"
  <2> DEFINE x == SenderTransition(e, "home_withdrawal", e.homeChannelId, a)
             l == [h EXCEPT !.userNetFlow = h.userNetFlow - a, !.userBalance = h.userBalance - a]
  <2>1. p = [e EXCEPT !.transition = x, !.homeLedger.userNetFlow = @ - a,
                      !.homeLedger.userBalance = @ - a]
    BY <1>3 DEF Applied, ApplyHomeWithdrawalTransition
  <2>2. p = [e EXCEPT !.transition = x, !.homeLedger = l]
    BY <1>0, <2>1 DEF StateFields, LedgerFields
  <2>3. x.type = "home_withdrawal" /\ x.amount = a
    BY DEF SenderTransition
  <2>4. /\ DOMAIN l = LedgerFields /\ l.userBalance = h.userBalance - a
        /\ l.userNetFlow = h.userNetFlow - a
        /\ l.blockchainId = h.blockchainId /\ l.tokenAddress = h.tokenAddress
    BY <1>0, LedgerChanged
  <2> HIDE DEF p, x, h, l
  <2>5. /\ IsState(p) /\ p.transition = x /\ p.homeLedger = l
        /\ p.userWallet = e.userWallet /\ p.epoch = e.epoch /\ p.version = e.version
        /\ p.homeChannelId = e.homeChannelId
        /\ p.userSig = e.userSig /\ p.nodeSig = e.nodeSig
    <3>1. /\ x.type \in SubmitSupported /\ x.amount \in Int
          /\ DOMAIN l = LedgerFields /\ l.userBalance \in Int /\ l.userNetFlow \in Int
      BY <1>0, <1>3, <2>3, <2>4
    <3>2. /\ DOMAIN p = StateFields /\ p.transition = x /\ p.homeLedger = l
          /\ p.userWallet = e.userWallet /\ p.epoch = e.epoch /\ p.version = e.version
          /\ p.homeChannelId = e.homeChannelId /\ p.escrowChannelId = e.escrowChannelId
          /\ p.escrowLedger = e.escrowLedger
          /\ p.userSig = e.userSig /\ p.nodeSig = e.nodeSig
      BY <1>0, <2>2 DEF StateFields
    <3>3. IsState(p)
      BY <3>1, <3>2 DEF IsState
    <3> QED
      BY <3>2, <3>3
  <2>6. Moves(e, p)
    BY <1>0, <1>3, <2>3, <2>4, <2>5 DEF Moves, Gain, FlowGain, h
  <2> QED
    BY <1>3, <2>3, <2>4, <2>5, <2>6 DEF p, h
<1>4. CASE t.type = "transfer_send"
  <2> DEFINE x == SenderTransition(e, "transfer_send", t.accountId, a)
             l == [h EXCEPT !.userBalance = h.userBalance - a, !.nodeNetFlow = @ + (-a)]
             m == [h EXCEPT !.userBalance = h.userBalance - a, !.nodeNetFlow = @ - a]
  <2>1. p = [e EXCEPT !.transition = x, !.homeLedger.userBalance = @ - a,
                      !.homeLedger.nodeNetFlow = @ - a]
    BY <1>4 DEF Applied, ApplyTransferSendTransition
  <2>2. p = [e EXCEPT !.transition = x, !.homeLedger = m]
    BY <1>0, <2>1 DEF StateFields, LedgerFields
  <2>3. x.type = "transfer_send" /\ x.amount = a /\ x.accountId = t.accountId
    BY DEF SenderTransition
  <2>4. /\ DOMAIN m = LedgerFields /\ m.userBalance = h.userBalance - a
        /\ m.userNetFlow = h.userNetFlow
        /\ m.blockchainId = h.blockchainId /\ m.tokenAddress = h.tokenAddress
    BY <1>0 DEF LedgerFields
  <2> HIDE DEF p, x, h, m
  <2>5. /\ IsState(p) /\ p.transition = x /\ p.homeLedger = m
        /\ p.userWallet = e.userWallet /\ p.epoch = e.epoch /\ p.version = e.version
        /\ p.homeChannelId = e.homeChannelId
        /\ p.userSig = e.userSig /\ p.nodeSig = e.nodeSig
    <3>1. /\ x.type \in SubmitSupported /\ x.amount \in Int
          /\ DOMAIN m = LedgerFields /\ m.userBalance \in Int /\ m.userNetFlow \in Int
      BY <1>0, <1>4, <2>3, <2>4
    <3>2. /\ DOMAIN p = StateFields /\ p.transition = x /\ p.homeLedger = m
          /\ p.userWallet = e.userWallet /\ p.epoch = e.epoch /\ p.version = e.version
          /\ p.homeChannelId = e.homeChannelId /\ p.escrowChannelId = e.escrowChannelId
          /\ p.escrowLedger = e.escrowLedger
          /\ p.userSig = e.userSig /\ p.nodeSig = e.nodeSig
      BY <1>0, <2>2 DEF StateFields
    <3>3. IsState(p)
      BY <3>1, <3>2 DEF IsState
    <3> QED
      BY <3>2, <3>3
  <2>6. Moves(e, p)
    BY <1>0, <1>4, <2>3, <2>4, <2>5 DEF Moves, Gain, FlowGain, h
  <2> QED
    BY <1>4, <2>3, <2>4, <2>5, <2>6 DEF p, h
<1>5. CASE t.type = "finalize"
  <2> DEFINE b == h.userBalance
             x == SenderTransition(e, "finalize", e.homeChannelId, b)
             l == [h EXCEPT !.userNetFlow = h.userNetFlow - b, !.userBalance = 0]
  <2>1. p = [e EXCEPT !.transition = x, !.homeLedger.userNetFlow = @ - b,
                      !.homeLedger.userBalance = 0]
    BY <1>5 DEF Applied, ApplyFinalizeTransition
  <2>2. p = [e EXCEPT !.transition = x, !.homeLedger = l]
    BY <1>0, <2>1 DEF StateFields, LedgerFields
  <2>3. x.type = "finalize" /\ x.amount = b
    BY DEF SenderTransition
  <2>4. /\ DOMAIN l = LedgerFields /\ l.userBalance = 0
        /\ l.userNetFlow = h.userNetFlow - b
        /\ l.blockchainId = h.blockchainId /\ l.tokenAddress = h.tokenAddress
    BY <1>0, LedgerChanged
  <2> HIDE DEF p, x, h, l
  <2>5. /\ IsState(p) /\ p.transition = x /\ p.homeLedger = l
        /\ p.userWallet = e.userWallet /\ p.epoch = e.epoch /\ p.version = e.version
        /\ p.homeChannelId = e.homeChannelId
        /\ p.userSig = e.userSig /\ p.nodeSig = e.nodeSig
    <3>1. /\ x.type \in SubmitSupported /\ x.amount \in Int
          /\ DOMAIN l = LedgerFields /\ l.userBalance \in Int /\ l.userNetFlow \in Int
      BY <1>0, <1>5, <2>3, <2>4
    <3>2. /\ DOMAIN p = StateFields /\ p.transition = x /\ p.homeLedger = l
          /\ p.userWallet = e.userWallet /\ p.epoch = e.epoch /\ p.version = e.version
          /\ p.homeChannelId = e.homeChannelId /\ p.escrowChannelId = e.escrowChannelId
          /\ p.escrowLedger = e.escrowLedger
          /\ p.userSig = e.userSig /\ p.nodeSig = e.nodeSig
      BY <1>0, <2>2 DEF StateFields
    <3>3. IsState(p)
      BY <3>1, <3>2 DEF IsState
    <3> QED
      BY <3>2, <3>3
  <2>6. Moves(e, p)
    BY <1>0, <1>5, <2>3, <2>4, <2>5 DEF Moves, Gain, FlowGain, h
  <2> QED
    BY <1>5, <2>3, <2>4, <2>5, <2>6 DEF p, h
<1> QED
  BY <1>1, <1>2, <1>3, <1>4, <1>5 DEF SubmitSupported

\* A state with another signature is the same state.
LEMMA SignedIs ==
  ASSUME NEW s, IsState(s), NEW p,
         p = [s EXCEPT !.userSig = TRUE] \/ p = [s EXCEPT !.nodeSig = TRUE]
  PROVE  /\ IsState(p) /\ p.userWallet = s.userWallet /\ p.epoch = s.epoch
         /\ p.version = s.version /\ p.homeChannelId = s.homeChannelId
         /\ p.transition = s.transition /\ p.homeLedger = s.homeLedger
<1>1. DOMAIN s = StateFields
  BY DEF IsState
<1>2. /\ DOMAIN p = StateFields /\ p.transition = s.transition
      /\ p.userWallet = s.userWallet /\ p.epoch = s.epoch /\ p.version = s.version
      /\ p.homeChannelId = s.homeChannelId /\ p.escrowChannelId = s.escrowChannelId
      /\ p.homeLedger = s.homeLedger /\ p.escrowLedger = s.escrowLedger
  <2>1. CASE p = [s EXCEPT !.userSig = TRUE]
    BY <1>1, <2>1 DEF StateFields
  <2>2. CASE p = [s EXCEPT !.nodeSig = TRUE]
    BY <1>1, <2>2 DEF StateFields
  <2> QED
    BY <2>1, <2>2
<1>3. IsState(p)
  BY <1>2 DEF IsState
<1> QED
  BY <1>2, <1>3

\* The state that a proposal must extend: the successor, with a channel.
LEMMA ExpectedIs ==
  ASSUME NEW s, IsState(s), NEW p, IsState(p)
  PROVE  LET e == ExpectedState(s, p)
             n == NextState(s)
         IN  /\ IsState(e) /\ e.userWallet = n.userWallet /\ e.epoch = n.epoch
             /\ e.version = n.version /\ e.transition.type = "void"
             /\ e.homeChannelId = IF n.homeChannelId = Nil THEN p.homeChannelId
                                                           ELSE n.homeChannelId
             /\ e.homeLedger.userBalance = n.homeLedger.userBalance
             /\ e.homeLedger.userNetFlow = n.homeLedger.userNetFlow
             /\ e.homeLedger.nodeBalance = n.homeLedger.nodeBalance
             /\ e.homeLedger.nodeNetFlow = n.homeLedger.nodeNetFlow
             /\ n.homeChannelId # Nil => e.homeLedger = n.homeLedger
             /\ n.homeChannelId = Nil =>
                  e.homeLedger = [n.homeLedger EXCEPT
                                    !.blockchainId = p.homeLedger.blockchainId,
                                    !.tokenAddress = p.homeLedger.tokenAddress]
<1> DEFINE n == NextState(s)
           e == ExpectedState(s, p)
           l == [n.homeLedger EXCEPT !.blockchainId = p.homeLedger.blockchainId,
                                     !.tokenAddress = p.homeLedger.tokenAddress]
<1>1. IsState(n) /\ n.transition.type = "void"
  BY NextIs
<1>2. /\ DOMAIN n = StateFields /\ DOMAIN n.homeLedger = LedgerFields
      /\ p.homeChannelId \in ChannelIds \cup {Nil}
  BY <1>1 DEF IsState
<1>3. CASE n.homeChannelId = Nil
  <2>1. e = [n EXCEPT !.homeChannelId = p.homeChannelId,
                      !.homeLedger.blockchainId = p.homeLedger.blockchainId,
                      !.homeLedger.tokenAddress = p.homeLedger.tokenAddress]
    BY <1>3 DEF ExpectedState
  <2> HIDE DEF n, e
  <2>2. /\ DOMAIN e = StateFields /\ e.transition = n.transition
        /\ e.userWallet = n.userWallet /\ e.epoch = n.epoch /\ e.version = n.version
        /\ e.homeChannelId = p.homeChannelId /\ e.escrowChannelId = n.escrowChannelId
        /\ e.escrowLedger = n.escrowLedger /\ e.homeLedger = l
    BY <1>2, <2>1 DEF StateFields
  <2>3. /\ DOMAIN l = LedgerFields /\ l.userBalance = n.homeLedger.userBalance
        /\ l.userNetFlow = n.homeLedger.userNetFlow
        /\ l.nodeBalance = n.homeLedger.nodeBalance
        /\ l.nodeNetFlow = n.homeLedger.nodeNetFlow
    BY <1>2 DEF LedgerFields
  <2> HIDE DEF l
  <2>4. IsState(e)
    BY <1>1, <1>2, <2>2, <2>3 DEF IsState
  <2> QED
    BY <1>1, <1>3, <2>2, <2>3, <2>4 DEF e, n, l
<1>4. CASE n.homeChannelId # Nil
  <2>1. e = n
    BY <1>4 DEF ExpectedState
  <2> QED
    BY <1>1, <1>4, <2>1
<1> QED
  BY <1>3, <1>4

\* What ValidateDecimalPrecision means.
LEMMA PreciseIsWhole ==
  ASSUME NEW a \in Int, ValidateDecimalPrecision(a)
  PROVE  Whole(a)
<1>1. PICK u : u = AssetUnit
  OBVIOUS
<1>2. u \in Int /\ u > 0 /\ a % u = 0
  BY <1>1, CoreAssumption DEF ValidateDecimalPrecision
<1>3. a \div u \in Int /\ a = u * (a \div u) + (a % u)
  BY <1>2
<1>4. PICK k \in Int : a = u * k + 0
  BY <1>2, <1>3
<1>5. a = k * u
  BY <1>2, <1>4
<1> QED
  BY <1>1, <1>5 DEF Whole

\* A proposal that is validated against a state extends it.
LEMMA Advance ==
  ASSUME NEW s, IsState(s), IsFinal(s) => s.homeLedger.userBalance = 0,
         NEW p, IsState(p), p.transition.type \in SubmitSupported, ValidateAdvancement(s, p)
  PROVE  /\ Storable(p) /\ Extends(s, p) /\ p.homeChannelId # Nil
         /\ p.homeChannelId = s.homeChannelId \/ s.homeChannelId = Nil \/ IsFinal(s)
         /\ p.transition.type \in {"home_deposit", "home_withdrawal", "transfer_send"} =>
              p.transition.amount > 0
<1> DEFINE n == NextState(s)
           e == ExpectedState(s, p)
           t == p.transition
           new == Applied(e, t, p.escrowLedger)
<1>1. /\ IsState(n) /\ n.transition.type = "void" /\ n.userWallet = s.userWallet
      /\ n.epoch = IF IsFinal(s) THEN s.epoch + 1 ELSE s.epoch
      /\ n.version = IF IsFinal(s) THEN 0 ELSE s.version + 1
      /\ n.homeChannelId = IF IsFinal(s) THEN Nil ELSE s.homeChannelId
      /\ n.homeLedger = IF IsFinal(s) THEN ZeroLedger(0, NoToken) ELSE s.homeLedger
  BY NextIs
<1>2. /\ IsState(e) /\ e.userWallet = n.userWallet /\ e.epoch = n.epoch
      /\ e.version = n.version
      /\ e.homeChannelId = IF n.homeChannelId = Nil THEN p.homeChannelId
                                                    ELSE n.homeChannelId
      /\ e.homeLedger.userBalance = n.homeLedger.userBalance
      /\ e.homeLedger.userNetFlow = n.homeLedger.userNetFlow
  BY ExpectedIs
<1>3. /\ p.homeChannelId # Nil /\ p.homeChannelId = e.homeChannelId
      /\ GetStateID(p) = GetStateID(e) /\ ValidAmount(t)
      /\ new.transition = t /\ new.homeLedger = p.homeLedger /\ ValidLedger(p.homeLedger)
  BY DEF ValidateAdvancement
<1>4. t.amount \in Int
  BY DEF IsState
<1> HIDE DEF e, n
<1>5. Moves(e, new)
  BY <1>2, <1>4, AppliedIs
<1> HIDE DEF new
<1>6. Moves(e, p)
  BY <1>3, <1>5 DEF Moves
<1>7. /\ n.homeLedger.userBalance = s.homeLedger.userBalance
      /\ n.homeLedger.userNetFlow = IF IsFinal(s) THEN 0 ELSE s.homeLedger.userNetFlow
  BY <1>1 DEF ZeroLedger
<1>8. /\ p.userWallet = e.userWallet /\ p.epoch = e.epoch /\ p.version = e.version
  BY <1>3 DEF GetStateID
<1>9. Extends(s, p)
  BY <1>1, <1>2, <1>6, <1>7, <1>8 DEF Extends, Moves
<1>10. /\ t.amount >= 0
       /\ t.type \in {"home_deposit", "home_withdrawal", "transfer_send"} => t.amount > 0
  BY <1>3, <1>4 DEF ValidAmount
<1>11. Storable(p)
  <2>1. Whole(t.amount)
    BY <1>3, <1>4, PreciseIsWhole DEF ValidAmount
  <2> QED
    BY <1>3, <1>6, <1>10, <2>1 DEF Storable, ValidLedger, Moves, IsFinal, SubmitSupported
<1> QED
  BY <1>1, <1>2, <1>3, <1>9, <1>10, <1>11

\* The state that a transfer issues for its receiver, whose last one is s.
Received(s, from, a, txId) ==
  LET r == ApplyTransferReceiveTransition(NextState(s), from, a, txId)
  IN  [r EXCEPT !.nodeSig = r.homeChannelId # Nil]

\* It extends the receiver's last.
LEMMA ReceiveIs ==
  ASSUME NEW s, IsState(s), IsFinal(s) => s.homeLedger.userBalance = 0,
         s.homeLedger.userBalance >= 0, NEW from, NEW a \in Nat, Whole(a), NEW txId
  PROVE  LET p == Received(s, from, a, txId)
         IN  /\ Storable(p) /\ Extends(s, p)
             /\ p.transition.type = "transfer_receive" /\ p.transition.amount = a
             /\ p.homeChannelId = IF IsFinal(s) THEN Nil ELSE s.homeChannelId
             /\ p.nodeSig = (p.homeChannelId # Nil)
<1> DEFINE n == NextState(s)
           h == n.homeLedger
           x == [type |-> "transfer_receive", txId |-> txId, accountId |-> from, amount |-> a]
           l == [h EXCEPT !.userBalance = @ + a, !.nodeNetFlow = @ + a]
           r == ApplyTransferReceiveTransition(n, from, a, txId)
           p == [r EXCEPT !.nodeSig = r.homeChannelId # Nil]
<1>0. Received(s, from, a, txId) = p
  BY DEF Received
<1>1. /\ IsState(n) /\ n.transition.type = "void" /\ n.userWallet = s.userWallet
      /\ n.epoch = IF IsFinal(s) THEN s.epoch + 1 ELSE s.epoch
      /\ n.version = IF IsFinal(s) THEN 0 ELSE s.version + 1
      /\ n.homeChannelId = IF IsFinal(s) THEN Nil ELSE s.homeChannelId
      /\ n.homeLedger = IF IsFinal(s) THEN ZeroLedger(0, NoToken) ELSE s.homeLedger
  BY NextIs
<1>2. /\ DOMAIN n = StateFields /\ DOMAIN h = LedgerFields
      /\ h.userBalance \in Int /\ h.userNetFlow \in Int
  BY <1>1 DEF IsState
<1>3. /\ h.userBalance = s.homeLedger.userBalance
      /\ h.userNetFlow = IF IsFinal(s) THEN 0 ELSE s.homeLedger.userNetFlow
  BY <1>1 DEF ZeroLedger
<1>4. r = [n EXCEPT !.transition = x, !.homeLedger.userBalance = @ + a,
                    !.homeLedger.nodeNetFlow = @ + a]
  BY DEF ApplyTransferReceiveTransition
<1> HIDE DEF n, r
<1>5. /\ DOMAIN r = StateFields /\ r.transition = x /\ r.homeLedger = l
      /\ r.userWallet = n.userWallet /\ r.epoch = n.epoch /\ r.version = n.version
      /\ r.homeChannelId = n.homeChannelId /\ r.escrowChannelId = n.escrowChannelId
      /\ r.escrowLedger = n.escrowLedger
  BY <1>2, <1>4 DEF StateFields
<1>6. /\ DOMAIN p = StateFields /\ p.transition = r.transition /\ p.homeLedger = r.homeLedger
      /\ p.userWallet = r.userWallet /\ p.epoch = r.epoch /\ p.version = r.version
      /\ p.homeChannelId = r.homeChannelId /\ p.escrowChannelId = r.escrowChannelId
      /\ p.escrowLedger = r.escrowLedger
  BY <1>5 DEF StateFields
<1>7. /\ DOMAIN l = LedgerFields /\ l.userBalance = h.userBalance + a
      /\ l.userNetFlow = h.userNetFlow
  BY <1>2 DEF LedgerFields
<1>13. p.nodeSig = (p.homeChannelId # Nil)
  BY <1>5 DEF StateFields
<1>8. x.type = "transfer_receive" /\ x.amount = a
  OBVIOUS
<1> HIDE DEF p, l, x, h
<1>9. IsState(p)
  BY <1>1, <1>2, <1>5, <1>6, <1>7, <1>8 DEF IsState
<1>10. Gain(x) = a /\ FlowGain(x) = 0
  BY <1>8 DEF Gain, FlowGain
<1>11. Extends(s, p)
  BY <1>1, <1>2, <1>3, <1>5, <1>6, <1>7, <1>10 DEF Extends
<1>12. Storable(p)
  BY <1>2, <1>3, <1>5, <1>6, <1>7, <1>8, <1>9 DEF Storable, IsFinal
<1> QED
  BY <1>0, <1>1, <1>5, <1>6, <1>8, <1>11, <1>12, <1>13

-------------------------------------------------------------------------------
(* Histories *)

\* A row that is above all others is the one a query returns.
LEMMA LatestIs ==
  ASSUME NEW rows, NEW l \in rows, \A s \in rows : IsState(s),
         \A s \in rows \ {l} : Before(s, l)
  PROVE  Latest(rows) = l
<1> DEFINE Newest(s) == \A t \in rows :
             s.epoch > t.epoch \/ (s.epoch = t.epoch /\ s.version >= t.version)
<1>1. \A s \in rows : s.epoch \in Nat /\ s.version \in Nat
  BY DEF IsState
<1>2. Newest(l)
  BY <1>1 DEF Before
<1>3. \A s \in rows : Newest(s) => s = l
  BY <1>1 DEF Before
<1>4. (CHOOSE s \in rows : Newest(s)) = l
  BY <1>2, <1>3
<1> QED
  BY <1>4 DEF Latest

\* The state that a request starts from.
LEMMA LatestStateIs ==
  ASSUME Numbered, NEW u \in Users
  PROVE  LET l == GetLatestState(u) IN
         /\ IsState(l) /\ l.userWallet = u /\ l.homeLedger.userBalance >= 0
         /\ IsFinal(l) => l.homeLedger.userBalance = 0
         /\ StatesOf(u) = {} => l = NewVoidState(u)
         /\ StatesOf(u) # {} => /\ l = Last(u) /\ l \in channelStates /\ Storable(l)
                                /\ \A s \in StatesOf(u) \ {l} : Before(s, l)
<1>1. CASE StatesOf(u) = {}
  <2>1. GetLatestState(u) = NewVoidState(u)
    BY <1>1 DEF GetLatestState
  <2> QED
    BY <1>1, <2>1, VoidIs
<1>2. CASE StatesOf(u) # {}
  <2>1. GetLatestState(u) = Last(u)
    BY <1>2 DEF GetLatestState, Last
  <2>2. /\ Last(u) \in StatesOf(u)
        /\ \A s \in StatesOf(u) \ {Last(u)} : Before(s, Last(u))
    BY <1>2 DEF Numbered
  <2>3. Last(u) \in channelStates /\ Last(u).userWallet = u
    BY <2>2 DEF StatesOf
  <2>4. Storable(Last(u))
    BY <2>3 DEF Numbered
  <2> QED
    BY <1>2, <2>1, <2>2, <2>3, <2>4 DEF Storable
<1> QED
  BY <1>1, <1>2

\* A successor is above all states of its user.
LEMMA SuccessorIsAbove ==
  ASSUME Numbered, NEW s, Storable(s), Extends(GetLatestState(s.userWallet), s)
  PROVE  /\ s.userWallet \in Users
         /\ \A t \in StatesOf(s.userWallet) : Before(t, s)
         /\ s.epoch > 0 \/ s.version > 0
<1> DEFINE u == s.userWallet
           l == GetLatestState(u)
<1>1. u \in Users
  BY DEF Storable, IsState
<1>2. /\ IsState(l)
      /\ StatesOf(u) = {} => l = NewVoidState(u)
      /\ StatesOf(u) # {} => \A t \in StatesOf(u) \ {l} : Before(t, l)
  BY <1>1, LatestStateIs
<1>3. \A t \in StatesOf(u) : t.epoch \in Nat /\ t.version \in Nat
  BY DEF Numbered, StatesOf, Storable, IsState
<1>4. l.epoch \in Nat /\ l.version \in Nat
  BY <1>2 DEF IsState
<1> HIDE DEF l
<1>5. /\ s.epoch = IF IsFinal(l) THEN l.epoch + 1 ELSE l.epoch
      /\ s.version = IF IsFinal(l) THEN 0 ELSE l.version + 1
  BY DEF Extends, l
<1>6. \A t \in StatesOf(u) : Before(t, s)
  BY <1>2, <1>3, <1>4, <1>5 DEF Before
<1> QED
  BY <1>1, <1>4, <1>5, <1>6

\* Storing them makes each its user's last state.
LEMMA StoredNumbered ==
  ASSUME Numbered, NEW new, Successors(new), channelStates' = channelStates \cup new
  PROVE  /\ Numbered'
         /\ \A s \in new : Last(s.userWallet)' = s /\ StatesOf(s.userWallet)'
                             = StatesOf(s.userWallet) \cup {s}
         /\ \A u \in Users : (\A s \in new : s.userWallet # u) => 
              StatesOf(u)' = StatesOf(u) /\ Last(u)' = Last(u)
<1>1. \A s \in new : /\ Storable(s) /\ s.userWallet \in Users
                     /\ (s.epoch > 0 \/ s.version > 0)
                     /\ \A t \in StatesOf(s.userWallet) : Before(t, s)
  BY SuccessorIsAbove DEF Successors
<1>2. \A s \in channelStates' : Storable(s) /\ (s.epoch > 0 \/ s.version > 0)
  BY <1>1 DEF Numbered
<1>3. \A s \in channelStates' : s.epoch \in Nat /\ s.version \in Nat
  BY <1>2 DEF Storable, IsState
<1>4. \A s \in new : \A t \in channelStates : t.userWallet = s.userWallet => Before(t, s)
  BY <1>1 DEF StatesOf
<1>5. \A s, t \in new : s.userWallet = t.userWallet => s = t
  BY DEF Successors
<1>6. ASSUME NEW s \in new
      PROVE  /\ StatesOf(s.userWallet)' = StatesOf(s.userWallet) \cup {s}
             /\ Last(s.userWallet)' = s
             /\ \A t \in StatesOf(s.userWallet)' \ {s} : Before(t, s)
  <2>1. StatesOf(s.userWallet)' = StatesOf(s.userWallet) \cup {s}
    BY <1>5 DEF StatesOf
  <2>2. PICK rows : rows = StatesOf(s.userWallet)'
    OBVIOUS
  <2>3. s \in rows /\ (\A t \in rows : IsState(t)) /\ \A t \in rows \ {s} : Before(t, s)
    <3>1. \A t \in StatesOf(s.userWallet) : IsState(t)
      BY DEF StatesOf, Numbered, Storable
    <3> QED
      BY <1>1, <2>1, <2>2, <3>1 DEF Storable
  <2>4. Latest(rows) = s
    BY <2>3, LatestIs
  <2>5. {t \in StatesOf(s.userWallet)' : FALSE => CoSigned(t)} = rows
    BY <2>2
  <2>6. Last(s.userWallet)' = s
    BY <2>4, <2>5 DEF Last, GetLastUserState
  <2> QED
    BY <2>1, <2>2, <2>3, <2>6
<1>7. ASSUME NEW u \in Users, \A s \in new : s.userWallet # u
      PROVE  StatesOf(u)' = StatesOf(u) /\ Last(u)' = Last(u)
  <2>1. StatesOf(u)' = StatesOf(u)
    BY <1>7 DEF StatesOf
  <2> QED
    BY <2>1 DEF Last, GetLastUserState
<1>8. ASSUME NEW u \in Users
      PROVE  /\ IsFiniteSet(StatesOf(u)')
             /\ \E n \in Nat : \A s \in StatesOf(u)' : s.epoch <= n /\ s.version <= n
             /\ StatesOf(u)' # {} => /\ Last(u)' \in StatesOf(u)'
                                     /\ \A s \in StatesOf(u)' \ {Last(u)'} : Before(s, Last(u)')
  <2>1. CASE \A s \in new : s.userWallet # u
    BY <1>7, <2>1 DEF Numbered
  <2>2. CASE \E s \in new : s.userWallet = u
    <3>1. PICK s \in new : s.userWallet = u
      BY <2>2
    <3>2. /\ StatesOf(u)' = StatesOf(u) \cup {s} /\ Last(u)' = s
          /\ \A t \in StatesOf(u)' \ {s} : Before(t, s)
      BY <1>6, <3>1
    <3>3. IsFiniteSet(StatesOf(u))
      BY DEF Numbered
    <3>4. IsFiniteSet(StatesOf(u) \cup {s})
      BY <3>3, FS_AddElement
    <3>5. PICK n \in Nat : \A t \in StatesOf(u) : t.epoch <= n /\ t.version <= n
      BY DEF Numbered
    <3>6. s.epoch \in Nat /\ s.version \in Nat
      BY <1>3
    <3>7. \A t \in StatesOf(u) : t.epoch \in Nat /\ t.version \in Nat
      BY <1>3 DEF StatesOf
    <3>8. /\ n + s.epoch + s.version \in Nat
          /\ \A t \in StatesOf(u)' : /\ t.epoch <= n + s.epoch + s.version
                                    /\ t.version <= n + s.epoch + s.version
      BY <3>2, <3>5, <3>6, <3>7
    <3> QED
      BY <3>2, <3>4, <3>8
  <2> QED
    BY <2>1, <2>2
<1>9. ASSUME NEW s \in channelStates', NEW t \in channelStates',
             s.userWallet = t.userWallet, s.epoch = t.epoch, s.version = t.version
      PROVE  s = t
  <2>1. CASE s \in new /\ t \in new
    BY <1>5, <1>9, <2>1
  <2>2. CASE s \in new /\ t \in channelStates
    BY <1>3, <1>4, <1>9, <2>2 DEF Before
  <2>3. CASE s \in channelStates /\ t \in new
    BY <1>3, <1>4, <1>9, <2>3 DEF Before
  <2>4. CASE s \in channelStates /\ t \in channelStates
    BY <1>9, <2>4 DEF Numbered
  <2> QED
    BY <2>1, <2>2, <2>3, <2>4
<1>10. ASSUME NEW s \in channelStates', NEW t \in channelStates',
              s.userWallet = t.userWallet, IsFinal(s), s.epoch = t.epoch
       PROVE  t.version <= s.version
  <2>1. CASE s \in new /\ t \in new
    BY <1>3, <1>5, <1>10, <2>1
  <2>2. CASE s \in new /\ t \in channelStates
    BY <1>3, <1>4, <1>10, <2>2 DEF Before
  <2>3. CASE s \in channelStates /\ t \in new
    <3> DEFINE u == s.userWallet
               l == GetLatestState(u)
    <3>1. u \in Users /\ s \in StatesOf(u)
      BY <1>1, <1>10, <2>3 DEF StatesOf
    <3>2. /\ l \in channelStates /\ l.userWallet = u
          /\ \A x \in StatesOf(u) \ {l} : Before(x, l)
      BY <3>1, LatestStateIs
    <3>3. /\ t.epoch = IF IsFinal(l) THEN l.epoch + 1 ELSE l.epoch
      BY <1>10, <2>3 DEF Successors, Extends
    <3> HIDE DEF l
    <3>4. s = l \/ Before(s, l)
      BY <3>1, <3>2
    <3>5. s.epoch \in Nat /\ l.epoch \in Nat /\ s.version \in Nat /\ l.version \in Nat
      BY <1>3, <2>3, <3>2
    <3>6. s.epoch = l.epoch => l.version <= s.version
      BY <1>10, <2>3, <3>2 DEF Numbered
    <3>7. FALSE
      BY <1>10, <3>3, <3>4, <3>5, <3>6 DEF Before
    <3> QED
      BY <3>7
  <2>4. CASE s \in channelStates /\ t \in channelStates
    BY <1>10, <2>4 DEF Numbered
  <2> QED
    BY <2>1, <2>2, <2>3, <2>4
<1>11. Numbered'
  BY <1>2, <1>8, <1>9, <1>10 DEF Numbered
<1> QED
  BY <1>6, <1>7, <1>11

\* And leaves every state linked to the one before.
LEMMA StoredLinked ==
  ASSUME Numbered, Linked, NEW new, Successors(new), channelStates' = channelStates \cup new
  PROVE  Linked'
<1>1. \A s \in new : /\ Storable(s) /\ s.userWallet \in Users
                     /\ (s.epoch > 0 \/ s.version > 0)
                     /\ \A t \in StatesOf(s.userWallet) : Before(t, s)
  BY SuccessorIsAbove DEF Successors
<1>2. \A s \in channelStates' : s.epoch \in Nat /\ s.version \in Nat
  BY <1>1 DEF Storable, IsState, Numbered
<1>3. \A s \in new : \A t \in channelStates : t.userWallet = s.userWallet => Before(t, s)
  BY <1>1 DEF StatesOf
<1>4. ASSUME NEW s \in new
      PROVE  LET l == GetLatestState(s.userWallet) IN
             \/ /\ StatesOf(s.userWallet) = {} /\ s.epoch = 0 /\ s.version = 1
                /\ s.homeLedger.userBalance = Gain(s.transition)
             \/ /\ l \in channelStates /\ Precedes(l, s)
                /\ s.homeLedger.userBalance = l.homeLedger.userBalance + Gain(s.transition)
  <2> DEFINE u == s.userWallet
             l == GetLatestState(u)
  <2>1. u \in Users /\ Extends(l, s)
    BY <1>1 DEF Successors
  <2>2. CASE StatesOf(u) = {}
    <3>1. l = NewVoidState(u)
      BY <2>1, <2>2, LatestStateIs
    <3>2. /\ l.epoch = 0 /\ l.version = 0 /\ l.transition.type = "void"
          /\ l.homeLedger.userBalance = 0
      BY <2>1, <3>1, VoidIs
    <3> HIDE DEF l
    <3>3. s.homeLedger.userBalance = 0 + Gain(s.transition) /\ s.epoch = 0 /\ s.version = 1
      BY <2>1, <3>2 DEF Extends, IsFinal
    <3>4. s.homeLedger.userBalance \in Int
      BY <1>1 DEF Storable, IsState
    <3>5. Gain(s.transition) \in Int
      <4>1. s.transition.amount \in Int
        BY <1>1 DEF Storable, IsState
      <4> QED
        BY <4>1 DEF Gain
    <3> QED
      BY <2>2, <3>3, <3>5
  <2>3. CASE StatesOf(u) # {}
    <3>1. l \in channelStates /\ l.userWallet = u
      BY <2>1, <2>3, LatestStateIs
    <3>2. l.epoch \in Nat /\ l.version \in Nat
      BY <1>2, <3>1
    <3> HIDE DEF l
    <3>3. Precedes(l, s)
      BY <2>1, <3>1, <3>2 DEF Precedes, Extends
    <3> QED
      BY <2>1, <3>1, <3>3 DEF l, Extends
  <2> QED
    BY <2>2, <2>3
<1>5. ASSUME NEW s \in channelStates', s.epoch > 0 \/ s.version > 1
      PROVE  \E t \in channelStates' : Precedes(t, s)
  <2>1. CASE s \in new
    BY <1>2, <1>4, <1>5, <2>1
  <2>2. CASE s \in channelStates
    BY <1>5, <2>2 DEF Linked
  <2> QED
    BY <2>1, <2>2
<1>6. ASSUME NEW s \in channelStates', s.epoch = 0, s.version = 1
      PROVE  s.homeLedger.userBalance = Gain(s.transition)
  <2>1. CASE s \in new
    <3> DEFINE l == GetLatestState(s.userWallet)
    <3>1. ~(l \in channelStates /\ Precedes(l, s))
      <4> HIDE DEF l
      <4>1. \A t \in channelStates : t.epoch \in Nat /\ t.version \in Nat
                                     /\ (t.epoch > 0 \/ t.version > 0)
        BY <1>2 DEF Numbered
      <4> QED
        BY <1>6, <4>1 DEF Precedes
    <3> QED
      BY <1>4, <2>1, <3>1
  <2>2. CASE s \in channelStates
    BY <1>6, <2>2 DEF Linked
  <2> QED
    BY <2>1, <2>2
<1>7. ASSUME NEW s \in channelStates', NEW t \in channelStates', Precedes(t, s)
      PROVE  s.homeLedger.userBalance = t.homeLedger.userBalance + Gain(s.transition)
  <2>0. /\ s.epoch \in Nat /\ s.version \in Nat /\ t.epoch \in Nat /\ t.version \in Nat
        /\ t.userWallet = s.userWallet
    BY <1>2, <1>7 DEF Precedes
  <2>1. CASE s \in new /\ t \in new
    <3>1. s = t
      BY <2>0, <2>1 DEF Successors
    <3> QED
      BY <1>7, <2>0, <3>1 DEF Precedes
  <2>2. CASE s \in channelStates /\ t \in new
    <3>1. Before(s, t)
      BY <1>3, <2>0, <2>2
    <3> QED
      BY <1>7, <2>0, <3>1 DEF Precedes, Before
  <2>3. CASE s \in new /\ t \in channelStates
    <3> DEFINE u == s.userWallet
               l == GetLatestState(u)
    <3>1. u \in Users /\ t \in StatesOf(u)
      BY <1>1, <2>0, <2>3 DEF StatesOf
    <3>2. /\ l \in channelStates /\ l.userWallet = u
          /\ \A x \in StatesOf(u) \ {l} : Before(x, l)
      BY <3>1, LatestStateIs
    <3>3. Extends(l, s)
      BY <2>3 DEF Successors
    <3> HIDE DEF l
    <3>4. l.epoch \in Nat /\ l.version \in Nat
      BY <1>2, <3>2
    <3>5. t = l \/ Before(t, l)
      BY <3>1, <3>2
    <3>6. IsFinal(t) /\ t.epoch = l.epoch => l.version <= t.version
      BY <2>0, <2>3, <3>2 DEF Numbered
    <3>7. t = l
      BY <1>7, <2>0, <3>3, <3>4, <3>5, <3>6 DEF Precedes, Extends, Before
    <3> QED
      BY <3>3, <3>7 DEF Extends
  <2>4. CASE s \in channelStates /\ t \in channelStates
    BY <1>7, <2>4 DEF Linked
  <2> QED
    BY <2>1, <2>2, <2>3, <2>4
<1> QED
  BY <1>5, <1>6, <1>7 DEF Linked

-------------------------------------------------------------------------------
(* What users have deposited *)

\* A stored state adds to its user's flow what its transition does.
LEMMA FlowStored ==
  ASSUME Numbered, NEW new, Successors(new), channelStates' = channelStates \cup new,
         NEW s \in new
  PROVE  /\ UserFlow(s.userWallet) \in Int
         /\ UserFlow(s.userWallet)' = UserFlow(s.userWallet) + FlowGain(s.transition)
<1> DEFINE u == s.userWallet
           l == GetLatestState(u)
           E == EpochEnds(u)
           T == StatesOf(u) \cup {s}
           F == [x \in T |-> x.homeLedger.userNetFlow]
<1>1. /\ u \in Users /\ Storable(s) /\ Extends(l, s)
      /\ \A t \in StatesOf(u) : Before(t, s)
  BY SuccessorIsAbove DEF Successors
<1>2. StatesOf(u)' = T
  BY StoredNumbered
<1>3. \A t \in T : /\ t.epoch \in Nat /\ t.version \in Nat
                   /\ t.homeLedger.userNetFlow \in Int
  BY <1>1 DEF Numbered, StatesOf, Storable, IsState
<1>4. \A x \in T : F[x] = x.homeLedger.userNetFlow /\ F[x] \in Int
  BY <1>3
<1>5. E \subseteq StatesOf(u) /\ IsFiniteSet(E)
  <2>1. E \subseteq StatesOf(u) /\ IsFiniteSet(StatesOf(u))
    BY <1>1 DEF EpochEnds, Numbered
  <2> QED
    BY <2>1, FS_Subset
<1>6. UserFlow(u) = SumOver(F, E)
  <2>1. PICK g : g = [x \in E |-> x.homeLedger.userNetFlow]
    OBVIOUS
  <2>2. \A x \in E : g[x] = F[x]
    BY <1>4, <1>5, <2>1
  <2> HIDE DEF F, E
  <2>3. SumOver(g, E) = SumOver(F, E)
    BY <2>2, SumSame
  <2> QED
    BY <2>1, <2>3 DEF UserFlow, E
<1>7. UserFlow(u)' = SumOver(F, E')
  <2>1. PICK D, g : D = E' /\ g = [x \in D |-> x.homeLedger.userNetFlow]
    OBVIOUS
  <2>2. D \subseteq T
    BY <1>2, <2>1 DEF EpochEnds
  <2>3. \A x \in D : g[x] = F[x]
    BY <1>4, <2>1, <2>2
  <2> HIDE DEF F
  <2>4. SumOver(g, D) = SumOver(F, D)
    BY <2>3, SumSame
  <2>5. UserFlow(u)' = SumOver(g, D)
    BY <2>1 DEF UserFlow
  <2> QED
    BY <2>1, <2>4, <2>5
<1>8. s \notin StatesOf(u) /\ s \notin E /\ F[s] = s.homeLedger.userNetFlow
  BY <1>1, <1>3, <1>5 DEF Before
<1>9. s.homeLedger.userNetFlow =
        (IF IsFinal(l) THEN 0 ELSE l.homeLedger.userNetFlow) + FlowGain(s.transition)
  BY <1>1 DEF Extends
<1>10. FlowGain(s.transition) \in Int
  <2>1. s.transition.amount \in Int
    BY <1>1 DEF Storable, IsState
  <2> QED
    BY <2>1 DEF FlowGain
<1>11. /\ s.epoch = IF IsFinal(l) THEN l.epoch + 1 ELSE l.epoch
       /\ s.version = IF IsFinal(l) THEN 0 ELSE l.version + 1
  BY <1>1 DEF Extends
<1>12. CASE StatesOf(u) = {} \/ IsFinal(l)
  <2>1. /\ (IF IsFinal(l) THEN 0 ELSE l.homeLedger.userNetFlow) = 0
        /\ \A t \in StatesOf(u) : t.epoch < s.epoch
    <3>1. CASE StatesOf(u) = {}
      <4>1. l = NewVoidState(u)
        BY <1>1, <3>1, LatestStateIs
      <4>2. l.homeLedger.userNetFlow = 0
        BY <1>1, <4>1, VoidIs
      <4> QED
        BY <3>1, <4>2
    <3>2. CASE StatesOf(u) # {}
      <4>1. l \in StatesOf(u) /\ \A x \in StatesOf(u) \ {l} : Before(x, l)
        BY <1>1, <3>2, LatestStateIs DEF StatesOf
      <4> HIDE DEF l
      <4> QED
        BY <1>3, <1>11, <1>12, <3>2, <4>1 DEF Before
    <3> QED
      BY <3>1, <3>2
  <2>2. E' = E \cup {s}
    <3> HIDE DEF l
    <3>1. E' = {x \in T : \A t \in T : t.epoch = x.epoch => t.version <= x.version}
      BY <1>2 DEF EpochEnds
    <3>2. E = {x \in StatesOf(u) : \A t \in StatesOf(u) :
                 t.epoch = x.epoch => t.version <= x.version}
      BY DEF EpochEnds
    <3> HIDE DEF E
    <3> QED
      BY <1>3, <2>1, <3>1, <3>2
  <2>3. \A y \in E \cup {s} : F[y] \in Int
    BY <1>4, <1>5
  <2> HIDE DEF E, F
  <2>4. SumOver(F, E) \in Int /\ SumOver(F, E \cup {s}) = SumOver(F, E) + F[s]
    BY <1>5, <1>8, <2>3, SumInsert
  <2> HIDE DEF l
  <2> QED
    BY <1>6, <1>7, <1>8, <1>9, <1>10, <2>1, <2>2, <2>4
<1>13. CASE StatesOf(u) # {} /\ ~IsFinal(l)
  <2> DEFINE R == E \ {l}
  <2>1. l \in StatesOf(u) /\ \A x \in StatesOf(u) \ {l} : Before(x, l)
    BY <1>1, <1>13, LatestStateIs DEF StatesOf
  <2> HIDE DEF l
  <2>2. E' = {x \in T : \A t \in T : t.epoch = x.epoch => t.version <= x.version}
    BY <1>2 DEF EpochEnds
  <2>3. E = {x \in StatesOf(u) : \A t \in StatesOf(u) :
               t.epoch = x.epoch => t.version <= x.version}
    BY DEF EpochEnds
  <2> HIDE DEF E
  <2>4. l \in E
    BY <1>3, <2>1, <2>3 DEF Before
  <2>5. /\ s.epoch = l.epoch /\ s.version = l.version + 1
        /\ l.epoch \in Nat /\ l.version \in Nat
    BY <1>3, <1>11, <1>13, <2>1
  <2>6. ASSUME NEW x \in E'
        PROVE  x \in R \cup {s}
    <3>1. CASE x = s
      BY <3>1
    <3>2. CASE x \in StatesOf(u)
      <4>1. x # l
        BY <1>3, <2>2, <2>5, <2>6
      <4>2. x \in E
        BY <2>2, <2>3, <2>6, <3>2
      <4> QED
        BY <4>1, <4>2
    <3> QED
      BY <2>2, <3>1, <3>2
  <2>7. ASSUME NEW x \in R \cup {s}
        PROVE  x \in E'
    <3>1. CASE x = s
      <4>1. \A t \in T : t.epoch = s.epoch => t.version <= s.version
        BY <1>1, <1>3 DEF Before
      <4> QED
        BY <2>2, <3>1, <4>1
    <3>2. CASE x \in E /\ x # l
      <4>1. x \in StatesOf(u) /\ Before(x, l)
        BY <2>1, <2>3, <3>2
      <4>2. x.epoch # s.epoch
        BY <1>3, <2>1, <2>3, <2>5, <3>2, <4>1 DEF Before
      <4> QED
        BY <2>2, <2>3, <3>2, <4>2
    <3> QED
      BY <3>1, <3>2
  <2>8. E' = R \cup {s} /\ E = R \cup {l}
    BY <2>4, <2>6, <2>7
  <2>9. /\ IsFiniteSet(R) /\ l \notin R /\ s \notin R
        /\ \A y \in R \cup {s} : F[y] \in Int
        /\ \A y \in R \cup {l} : F[y] \in Int
    <3>1. IsFiniteSet(R)
      BY <1>5, FS_Subset
    <3> QED
      BY <1>4, <1>5, <1>8, <2>1, <3>1
  <2>10. F[l] = l.homeLedger.userNetFlow /\ F[l] \in Int /\ F[s] \in Int
    BY <1>4, <2>1
  <2> HIDE DEF R, F
  <2>11. SumOver(F, R) \in Int /\ SumOver(F, R \cup {s}) = SumOver(F, R) + F[s]
    BY <2>9, SumInsert
  <2>12. SumOver(F, R \cup {l}) = SumOver(F, R) + F[l]
    BY <2>9, SumInsert
  <2>13. F[s] = F[l] + FlowGain(s.transition)
    BY <1>8, <1>9, <1>13, <2>10
  <2>14. UserFlow(u) = SumOver(F, R) + F[l] /\ UserFlow(u)' = SumOver(F, R) + F[s]
    BY <1>6, <1>7, <2>8, <2>11, <2>12
  <2> QED
    BY <1>10, <2>10, <2>11, <2>13, <2>14
<1> QED
  BY <1>12, <1>13

-------------------------------------------------------------------------------
(* What a step leaves to the others *)

\* The facts about states and channels, as long as no table changes.
LEMMA TablesKept ==
  ASSUME Inv, UNCHANGED tables
  PROVE  /\ Numbered' /\ Linked' /\ ChannelsInv' /\ BalancesInv'
         /\ \A u \in Users : GetLatestState(u)' = GetLatestState(u)
<1>1. /\ channelStates' = channelStates /\ channels' = channels
      /\ userBalances' = userBalances
  BY DEF tables
<1>2. \A u \in Users : StatesOf(u)' = StatesOf(u) /\ Last(u)' = Last(u)
                       /\ GetLatestState(u)' = GetLatestState(u)
  BY <1>1 DEF StatesOf, Last, GetLastUserState, GetLatestState
<1>3. Numbered'
  BY <1>1, <1>2 DEF Inv, Numbered
<1>4. Linked'
  BY <1>1 DEF Inv, Linked
<1>5. ChannelsInv'
  BY <1>1 DEF Inv, ChannelsInv
<1>6. BalancesInv'
  BY <1>1, <1>2 DEF Inv, BalancesInv
<1> QED
  BY <1>2, <1>3, <1>4, <1>5, <1>6

\* States are only added.
LEMMA StillKnown ==
  ASSUME channelStates \subseteq channelStates'
  PROVE  /\ \A id : Known(id) => Known(id)'
         /\ \A p : Prepared(p) => Prepared(p)'
BY DEF Known, Prepared

\* A step of request r, which becomes q, changes no lock of another one.
LocksKept(r, q) ==
  /\ rowLocks' \in [Users -> Requests \cup {Nil}]
  /\ \A u \in Users : rowLocks[u] \in Requests \ {r} => rowLocks'[u] = rowLocks[u]
  /\ \A u \in Users : rowLocks'[u] # Nil =>
       \/ rowLocks'[u] = rowLocks[u] /\ rowLocks[u] # r
       \/ rowLocks'[u] = r /\ q.pc = "receiver" /\ q.state.userWallet = u

\* No user whose row another one has locked gets a new state or a new channel.
Undisturbed(r) ==
  /\ channelStates \subseteq channelStates'
  /\ \A u \in Users : rowLocks[u] \in Requests \ {r} =>
       /\ GetLatestState(u)' = GetLatestState(u)
       /\ \A c \in ChannelIds : c[1] = u /\ channels[c] = Nil => channels'[c] = Nil

\* Such a step disturbs no other request.
LEMMA RequestsKept ==
  ASSUME RequestsInv, NEW r \in Requests, NEW q, RequestOK(r, q)',
         requests' = [requests EXCEPT ![r] = q], sent' \in 0..MaxRequests,
         LocksKept(r, q), Undisturbed(r)
  PROVE  RequestsInv'
<1>1. /\ DOMAIN requests' = Requests /\ requests'[r] = q
      /\ \A o \in Requests \ {r} : requests'[o] = requests[o]
  BY DEF RequestsInv
<1>2. ASSUME NEW o \in Requests \ {r}
      PROVE  RequestOK(o, requests[o])'
  <2>1. PICK x : x = requests[o]
    OBVIOUS
  <2>2. RequestOK(o, x)
    BY <2>1 DEF RequestsInv
  <2>3. RequestOK(o, x)'
    <3>1. CASE x = Idle
      BY <3>1 DEF RequestOK, Idle
    <3>2. CASE x # Idle
      <4>1. x.kind = "submit" => Prepared(x.state)'
        BY <2>2, <3>2, StillKnown DEF RequestOK, Undisturbed
      <4>2. ASSUME x.pc = "receiver"
            PROVE  LET u == x.state.userWallet IN
                   /\ rowLocks'[u] = o /\ GetLatestState(u)' = GetLatestState(u)
                   /\ x.kind = "create" => channels'[x.state.homeChannelId] = Nil
        <5>1. /\ rowLocks[x.state.userWallet] = o /\ x.state.userWallet \in Users
              /\ x.state.homeChannelId \in ChannelIds
              /\ x.state.homeChannelId[1] = x.state.userWallet
              /\ x.kind = "create" => channels[x.state.homeChannelId] = Nil
          BY <2>2, <3>2, <4>2 DEF RequestOK, IsState
        <5> QED
          BY <5>1 DEF LocksKept, Undisturbed
      <4>3. /\ DOMAIN x = {"pc", "kind", "state"} /\ x.pc \in {"gate", "lock", "receiver"}
            /\ x.kind \in {"submit", "create"}
            /\ IsState(x.state) /\ x.state.transition.type \in SubmitSupported
            /\ x.state.homeChannelId \in ChannelIds
            /\ x.state.homeChannelId[1] = x.state.userWallet
            /\ x.state.transition.type = "transfer_send" =>
                 x.state.transition.accountId \in Users
            /\ x.pc = "receiver" =>
                 /\ x.state.transition.type = "transfer_send"
                 /\ x.state.transition.amount > 0 /\ Storable(x.state)
                 /\ Extends(GetLatestState(x.state.userWallet), x.state)
        BY <2>2, <3>2 DEF RequestOK
      <4>4. x.pc = "receiver" => Extends(GetLatestState(x.state.userWallet)', x.state)
        BY <4>2, <4>3
      <4> QED
        BY <4>1, <4>2, <4>3, <4>4 DEF RequestOK
    <3> QED
      BY <3>1, <3>2
  <2> QED
    BY <1>1, <2>1, <2>3
<1>3. \A o \in Requests : RequestOK(o, requests[o])'
  BY <1>1, <1>2
<1>4. ASSUME NEW u \in Users, rowLocks'[u] # Nil
      PROVE  /\ requests'[rowLocks'[u]].pc = "receiver"
             /\ requests'[rowLocks'[u]].state.userWallet = u
  <2>1. CASE rowLocks'[u] = rowLocks[u] /\ rowLocks[u] # r
    BY <1>1, <1>4, <2>1 DEF RequestsInv
  <2>2. CASE rowLocks'[u] = r /\ q.pc = "receiver" /\ q.state.userWallet = u
    BY <1>1, <2>2
  <2> QED
    BY <1>4, <2>1, <2>2 DEF LocksKept
<1> QED
  BY <1>1, <1>3, <1>4 DEF RequestsInv, LocksKept

\* The chain, its events and the worker, when states and channels are added.
LEMMA OutsideKept ==
  ASSUME Inv, UNCHANGED <<onchain, handling, worker>>, channelStates \subseteq channelStates',
         \A c \in ChannelIds : channels[c] # Nil => channels'[c] # Nil
  PROVE  OnchainInv' /\ WorkerInv'
<1>1. /\ chain' = chain /\ events' = events /\ handling' = handling
      /\ actions' = actions /\ mempool' = mempool
  BY DEF onchain, worker
<1>2. \A id : Known(id) => Known(id)'
  BY StillKnown
<1>3. \A i \in 1..Len(events) : events[i].channelId \in ChannelIds
  <2>1. events \in Seq(EventRecord)
    BY DEF Inv, OnchainInv
  <2>2. \A i \in 1..Len(events) : events[i] \in EventRecord
    BY <2>1, ElementOfSeq
  <2> QED
    BY <2>2 DEF EventRecord
<1>4. OnchainInv'
  BY <1>1, <1>2, <1>3 DEF Inv, OnchainInv
<1>5. WorkerInv'
  BY <1>1, <1>2 DEF Inv, WorkerInv
<1> QED
  BY <1>4, <1>5

\* A step of request r that writes nothing.
LEMMA QuietStep ==
  ASSUME Inv, NEW r \in Requests, NEW q, RequestOK(r, q)',
         requests' = [requests EXCEPT ![r] = q], sent' \in 0..MaxRequests,
         UNCHANGED <<tables, onchain, handling, worker>>, LocksKept(r, q)
  PROVE  Inv'
<1>1. /\ Numbered' /\ Linked' /\ ChannelsInv' /\ BalancesInv'
      /\ \A u \in Users : GetLatestState(u)' = GetLatestState(u)
  BY TablesKept
<1>2. channelStates' = channelStates /\ channels' = channels
  BY DEF tables
<1>3. Undisturbed(r)
  BY <1>1, <1>2 DEF Undisturbed
<1>4. RequestsInv'
  BY <1>3, RequestsKept DEF Inv
<1>5. OnchainInv' /\ WorkerInv'
  BY <1>2, OutsideKept
<1> QED
  BY <1>1, <1>4, <1>5 DEF Inv

-------------------------------------------------------------------------------
(* Clients *)

\* The operations of a client and their amounts.
LEMMA OperationIs ==
  ASSUME NEW u \in Users, NEW op \in Operations(u)
  PROVE  /\ op.type \in SubmitSupported /\ op.amount \in Int
         /\ op.type = "transfer_send" => op.accountId \in Users
<1>1. Amounts \subseteq Nat
  BY NodeAssumption
<1>2. /\ op \in Deposit => op.type = "home_deposit" /\ op.amount \in Amounts
      /\ op \in Withdraw => op.type = "home_withdrawal" /\ op.amount \in Amounts
  BY DEF Deposit, Withdraw
<1>3. op \in Transfer(u) =>
        /\ op.type = "transfer_send" /\ op.accountId \in Users /\ op.amount \in Amounts
  BY DEF Transfer
<1>4. /\ op \in Acknowledge => op.type = "acknowledgement" /\ op.amount = 0
      /\ op \in CloseHomeChannel => op.type = "finalize" /\ op.amount = 0
  BY DEF Acknowledge, CloseHomeChannel
<1>5. \/ op \in Deposit \/ op \in Withdraw \/ op \in Transfer(u)
      \/ op \in Acknowledge \/ op \in CloseHomeChannel
  BY DEF Operations
<1>6. \A a \in Amounts : a \in Int
  BY <1>1
<1> QED
  BY <1>2, <1>3, <1>4, <1>5, <1>6 DEF SubmitSupported

\* A state that gets its channel.
LEMMA CreationIs ==
  ASSUME NEW s, IsState(s), NEW n \in Nonces
  PROVE  LET e == ApplyChannelCreation(s, Chain, Token, n) IN
         /\ IsState(e) /\ e.userWallet = s.userWallet /\ e.epoch = s.epoch
         /\ e.version = s.version /\ e.homeChannelId = <<s.userWallet, n>>
         /\ <<s.userWallet, n>> \in ChannelIds
         /\ e.homeLedger.userBalance = s.homeLedger.userBalance
         /\ e.homeLedger.userNetFlow = s.homeLedger.userNetFlow
         /\ e.homeLedger.blockchainId = Chain /\ e.homeLedger.tokenAddress = Token
         /\ e.homeLedger.nodeBalance = s.homeLedger.nodeBalance
         /\ e.homeLedger.nodeNetFlow = s.homeLedger.nodeNetFlow
<1> DEFINE e == ApplyChannelCreation(s, Chain, Token, n)
           l == [s.homeLedger EXCEPT !.tokenAddress = Token, !.blockchainId = Chain]
<1>1. /\ DOMAIN s = StateFields /\ DOMAIN s.homeLedger = LedgerFields /\ s.userWallet \in Users
  BY DEF IsState
<1>2. e = [s EXCEPT !.homeLedger.tokenAddress = Token, !.homeLedger.blockchainId = Chain,
                    !.homeChannelId = <<s.userWallet, n>>]
  BY DEF ApplyChannelCreation, GetHomeChannelID
<1> HIDE DEF e
<1>3. /\ DOMAIN e = StateFields /\ e.transition = s.transition
      /\ e.userWallet = s.userWallet /\ e.epoch = s.epoch /\ e.version = s.version
      /\ e.homeChannelId = <<s.userWallet, n>> /\ e.escrowChannelId = s.escrowChannelId
      /\ e.escrowLedger = s.escrowLedger /\ e.homeLedger = l
  BY <1>1, <1>2 DEF StateFields
<1>4. /\ DOMAIN l = LedgerFields /\ l.userBalance = s.homeLedger.userBalance
      /\ l.userNetFlow = s.homeLedger.userNetFlow
      /\ l.blockchainId = Chain /\ l.tokenAddress = Token
      /\ l.nodeBalance = s.homeLedger.nodeBalance /\ l.nodeNetFlow = s.homeLedger.nodeNetFlow
  BY <1>1 DEF LedgerFields
<1>5. <<s.userWallet, n>> \in ChannelIds
  BY <1>1 DEF ChannelIds
<1> HIDE DEF l
<1>6. IsState(e)
  BY <1>3, <1>4, <1>5 DEF IsState
<1> QED
  BY <1>3, <1>4, <1>5, <1>6 DEF e

\* No row is locked by a request that does not wait for its receiver.
LEMMA NoLocks ==
  ASSUME RequestsInv, NEW r \in Requests, requests[r].pc # "receiver", NEW u \in Users
  PROVE  rowLocks[u] # r
<1>1. Nil \notin Requests
  BY NodeAssumption DEF Requests
<1> QED
  BY <1>1 DEF RequestsInv

\* A request is sent.
LEMMA SendStep ==
  ASSUME Inv, NEW r \in Requests, MaySend(r), NEW kind \in {"submit", "create"}, NEW p,
         Send(r, kind, p), IsState(p), p.transition.type \in SubmitSupported,
         p.homeChannelId \in ChannelIds, p.homeChannelId[1] = p.userWallet,
         kind = "submit" => Prepared(p),
         p.transition.type = "transfer_send" => p.transition.accountId \in Users
  PROVE  Inv'
<1> DEFINE x == [p EXCEPT !.userSig = TRUE]
           g == Gated([kind |-> kind, state |-> x])
           q == [pc |-> IF g THEN "gate" ELSE "lock", kind |-> kind, state |-> x]
<1>1. /\ requests' = [requests EXCEPT ![r] = q] /\ sent' = sent + 1
      /\ UNCHANGED <<tables, rowLocks, onchain, handling, worker>>
  BY DEF Send
<1>2. /\ IsState(x) /\ x.userWallet = p.userWallet /\ x.epoch = p.epoch
      /\ x.version = p.version /\ x.homeChannelId = p.homeChannelId
      /\ x.transition = p.transition
  BY SignedIs
<1> HIDE DEF x, g
<1>3. /\ DOMAIN q = {"pc", "kind", "state"} /\ q.pc \in {"gate", "lock"}
      /\ q.kind = kind /\ q.state = x
  OBVIOUS
<1> HIDE DEF q
<1>4. channelStates' = channelStates
  BY <1>1 DEF tables
<1>5. kind = "submit" => Prepared(x)'
  BY <1>2, <1>4 DEF Prepared
<1>6. RequestOK(r, q)'
  BY <1>2, <1>3, <1>5 DEF RequestOK
<1>7. sent' \in 0..MaxRequests
  BY <1>1, NodeAssumption DEF Inv, RequestsInv, MaySend
<1>8. LocksKept(r, q)
  <2>1. \A u \in Users : rowLocks[u] # r
    BY NoLocks DEF Inv, MaySend
  <2> QED
    BY <1>1, <2>1 DEF LocksKept, Inv, RequestsInv
<1> QED
  BY <1>1, <1>6, <1>7, <1>8, QuietStep

\* The clients' calls.
LEMMA ClientSubmitStep ==
  ASSUME Inv, NEW r \in Requests, NEW u \in Users, ClientSubmit(r, u)
  PROVE  Inv'
<1>1. PICK s \in StatesOf(u), op \in Operations(u) :
        /\ s.homeChannelId # Nil /\ ~IsFinal(s)
        /\ Send(r, "submit", Applied(NextState(s), op, Nil))
  BY DEF ClientSubmit
<1>2. s \in channelStates /\ IsState(s) /\ s.userWallet = u
  BY DEF StatesOf, Inv, Numbered, Storable
<1> DEFINE n == NextState(s)
<1>3. /\ IsState(n) /\ n.userWallet = s.userWallet
      /\ n.epoch = s.epoch /\ n.version = s.version + 1
      /\ n.homeChannelId = s.homeChannelId
  BY <1>1, <1>2, NextIs
<1> DEFINE p == Applied(n, op, Nil)
<1>4. Send(r, "submit", p)
  BY <1>1
<1> HIDE DEF n
<1>5. /\ op.type \in SubmitSupported /\ op.amount \in Int
      /\ op.type = "transfer_send" => op.accountId \in Users
  BY OperationIs
<1>6. /\ IsState(p) /\ p.userWallet = n.userWallet /\ p.epoch = n.epoch
      /\ p.version = n.version /\ p.homeChannelId = n.homeChannelId
      /\ p.transition.type = op.type
      /\ op.type = "transfer_send" => p.transition.accountId = op.accountId
  BY <1>3, <1>5, AppliedIs
<1> HIDE DEF p
<1>7. /\ p.homeChannelId \in ChannelIds /\ p.homeChannelId[1] = p.userWallet
  <2>1. s.homeChannelId[1] = s.userWallet
    BY <1>1, <1>2 DEF Inv, ChannelsInv
  <2> QED
    BY <1>1, <1>3, <1>6, <2>1 DEF IsState
<1>8. Prepared(p)
  BY <1>1, <1>2, <1>3, <1>6 DEF Prepared
<1>9. MaySend(r)
  BY DEF ClientSubmit
<1> QED
  BY <1>4, <1>5, <1>6, <1>7, <1>8, <1>9, SendStep

LEMMA ClientCreateStep ==
  ASSUME Inv, NEW r \in Requests, NEW u \in Users, ClientCreate(r, u)
  PROVE  Inv'
<1> DEFINE s == GetLatestState(u)
           n == NextState(s)
           e(m) == ApplyChannelCreation(n, Chain, Token, m)
<1>1. PICK op \in Operations(u), m \in Nonces :
        Send(r, "create", Applied(e(m), op, Nil))
  BY DEF ClientCreate
<1>2. IsState(s) /\ s.userWallet = u
  BY LatestStateIs DEF Inv
<1>3. IsState(n) /\ n.userWallet = u
  BY <1>2, NextIs
<1>4. m \in Nonces
  OBVIOUS
<1> HIDE DEF n
<1>5. /\ IsState(e(m)) /\ e(m).userWallet = u /\ e(m).homeChannelId = <<u, m>>
      /\ <<u, m>> \in ChannelIds
  BY <1>3, <1>4, CreationIs
<1> HIDE DEF e
<1> DEFINE p == Applied(e(m), op, Nil)
<1>6. /\ op.type \in SubmitSupported /\ op.amount \in Int
      /\ op.type = "transfer_send" => op.accountId \in Users
  BY OperationIs
<1>7. /\ IsState(p) /\ p.userWallet = e(m).userWallet
      /\ p.homeChannelId = e(m).homeChannelId /\ p.transition.type = op.type
      /\ op.type = "transfer_send" => p.transition.accountId = op.accountId
  BY <1>5, <1>6, AppliedIs
<1>8. Send(r, "create", p)
  BY <1>1
<1> HIDE DEF p
<1>9. p.homeChannelId \in ChannelIds /\ p.homeChannelId[1] = p.userWallet
  BY <1>5, <1>7
<1>10. MaySend(r)
  BY DEF ClientCreate
<1> QED
  BY <1>6, <1>7, <1>8, <1>9, <1>10, SendStep

-------------------------------------------------------------------------------
(* The channel API *)

\* A request that fails gives its locks back.
LEMMA RollbackStep ==
  ASSUME Inv, NEW r \in Requests, Rollback(r), UNCHANGED <<sent, onchain, handling, worker>>
  PROVE  Inv'
<1>1. PICK q : q = Idle
  OBVIOUS
<1>2. /\ requests' = [requests EXCEPT ![r] = q] /\ UNCHANGED tables
      /\ rowLocks' = [u \in Users |-> IF rowLocks[u] = r THEN Nil ELSE rowLocks[u]]
  BY <1>1 DEF Rollback, Finish
<1>3. RequestOK(r, q)'
  BY <1>1 DEF RequestOK, Idle
<1>4. LocksKept(r, q)
  <2>1. Nil \notin Requests /\ rowLocks \in [Users -> Requests \cup {Nil}]
    BY NodeAssumption DEF Requests, Inv, RequestsInv
  <2> QED
    BY <1>2, <2>1 DEF LocksKept
<1>5. sent' \in 0..MaxRequests
  BY DEF Inv, RequestsInv
<1> QED
  BY <1>2, <1>3, <1>4, <1>5, QuietStep

\* The gateway lets a request through or not.
LEMMA GateStep ==
  ASSUME Inv, NEW r \in Requests, SubmitStateGate(r)
  PROVE  Inv'
<1>1. /\ requests[r].pc = "gate" /\ RequestOK(r, requests[r])
      /\ UNCHANGED <<tables, rowLocks, sent, onchain, handling, worker>>
  BY DEF SubmitStateGate, Inv, RequestsInv
<1>2. sent' \in 0..MaxRequests
  BY <1>1 DEF Inv, RequestsInv
<1>3. \A u \in Users : rowLocks[u] # r
  BY <1>1, NoLocks DEF Inv
<1>4. \A q : LocksKept(r, q)
  BY <1>1, <1>3 DEF LocksKept, Inv, RequestsInv
<1>5. CASE requests' = [requests EXCEPT ![r] = Idle]
  <2>1. PICK q : q = Idle
    OBVIOUS
  <2>2. RequestOK(r, q)' /\ requests' = [requests EXCEPT ![r] = q]
    BY <1>5, <2>1 DEF RequestOK, Idle
  <2> QED
    BY <1>1, <1>2, <1>4, <2>2, QuietStep
<1>6. CASE requests' = [requests EXCEPT ![r].pc = "lock"]
  <2>1. PICK q : q = [requests[r] EXCEPT !.pc = "lock"]
    OBVIOUS
  <2>2. requests' = [requests EXCEPT ![r] = q]
    BY <1>6, <2>1 DEF Inv, RequestsInv
  <2>3. PICK x : x = requests[r]
    OBVIOUS
  <2>4. x.pc = "gate" /\ RequestOK(r, x) /\ q = [x EXCEPT !.pc = "lock"] /\ x # Idle
    BY <1>1, <2>1, <2>3 DEF Idle
  <2>5. DOMAIN x = {"pc", "kind", "state"}
    BY <2>4 DEF RequestOK
  <2>6. /\ DOMAIN q = {"pc", "kind", "state"} /\ q.pc = "lock" /\ q.kind = x.kind
        /\ q.state = x.state
    BY <2>4, <2>5
  <2>7. x.kind = "submit" => Prepared(x.state)'
    <3>1. channelStates \subseteq channelStates'
      BY <1>1 DEF tables
    <3> QED
      BY <2>4, <3>1, StillKnown DEF RequestOK
  <2>8. RequestOK(r, q)'
    BY <2>4, <2>6, <2>7 DEF RequestOK
  <2> QED
    BY <1>1, <1>2, <1>4, <2>2, <2>8, QuietStep
<1> QED
  BY <1>5, <1>6 DEF SubmitStateGate, Finish

\* A state that is stored has the channel of the one before, or the one that
\* the request creates.
Housed(s, q) ==
  /\ s.nodeSig => s.homeChannelId # Nil
  /\ s.homeChannelId # Nil =>
       /\ s.homeChannelId \in ChannelIds /\ s.homeChannelId[1] = s.userWallet
       /\ \/ /\ GetLatestState(s.userWallet) \in channelStates
             /\ s.homeChannelId = GetLatestState(s.userWallet).homeChannelId
             /\ s.epoch = GetLatestState(s.userWallet).epoch
          \/ q.kind = "create" /\ s.homeChannelId = q.state.homeChannelId

\* The rows of channels after a commit.
LEMMA CommitChannels ==
  ASSUME ChannelsInv, Numbered, NEW new, Successors(new), NEW q, \A s \in new : Housed(s, q),
         channelStates' = channelStates \cup new,
         q.kind = "create" => /\ q.state.homeChannelId \in ChannelIds
                              /\ channels[q.state.homeChannelId] = Nil
                              /\ q.state.homeChannelId[1] = q.state.userWallet
                              /\ q.state.userWallet \in Users,
         channels' = IF q.kind = "create"
                     THEN [channels EXCEPT ![q.state.homeChannelId] =
                             NewChannel(q.state.userWallet)]
                     ELSE channels
  PROVE  /\ ChannelsInv'
         /\ \A c \in ChannelIds : channels[c] # Nil => channels'[c] # Nil
         /\ \A c \in ChannelIds : channels[c] = Nil /\ channels'[c] # Nil =>
              q.kind = "create" /\ c = q.state.homeChannelId
<1> DEFINE c == q.state.homeChannelId
           row == NewChannel(q.state.userWallet)
<1>1. q.kind = "create" => row \in ChannelRow /\ row.userWallet = c[1] /\ row # Nil
  <2>1. q.kind = "create" => row \in ChannelRow /\ row.userWallet = c[1]
    BY DEF NewChannel, ChannelRow, ChannelStatus
  <2> QED
    BY <2>1, NodeAssumption
<1> HIDE DEF row
<1>2. /\ DOMAIN channels' = ChannelIds
      /\ q.kind = "create" => channels'[c] = row
      /\ \A d \in ChannelIds : d # c \/ q.kind # "create" => channels'[d] = channels[d]
  BY DEF ChannelsInv, row
<1>3. ASSUME NEW d \in ChannelIds, channels'[d] # Nil
      PROVE  channels'[d] \in ChannelRow /\ channels'[d].userWallet = d[1]
  BY <1>1, <1>2, <1>3 DEF ChannelsInv
<1>4. \A d \in ChannelIds : channels[d] # Nil => channels'[d] # Nil
  BY <1>1, <1>2
<1>5. \A s \in channelStates : IsState(s)
  BY DEF Numbered, Storable
<1>6. \A s \in channelStates' : s.nodeSig => s.homeChannelId # Nil
  BY DEF ChannelsInv, Housed
<1>7. ASSUME NEW s \in channelStates', s.homeChannelId # Nil
      PROVE  channels'[s.homeChannelId] # Nil /\ s.homeChannelId[1] = s.userWallet
  <2>1. CASE s \in channelStates
    <3>1. s.homeChannelId \in ChannelIds
      BY <1>5, <1>7, <2>1 DEF IsState
    <3> QED
      BY <1>4, <1>7, <2>1, <3>1 DEF ChannelsInv
  <2>2. CASE s \in new
    <3>1. s.homeChannelId \in ChannelIds /\ s.homeChannelId[1] = s.userWallet
      BY <1>7, <2>2 DEF Housed
    <3> DEFINE l == GetLatestState(s.userWallet)
    <3>2. CASE l \in channelStates /\ s.homeChannelId = l.homeChannelId
      <4> HIDE DEF l
      <4>1. channels[s.homeChannelId] # Nil
        BY <1>7, <3>2 DEF ChannelsInv
      <4> QED
        BY <1>4, <3>1, <4>1
    <3>3. CASE q.kind = "create" /\ s.homeChannelId = c
      BY <1>1, <1>2, <3>1, <3>3
    <3> QED
      BY <1>7, <2>2, <3>2, <3>3 DEF Housed
  <2> QED
    BY <2>1, <2>2
<1>8. ASSUME NEW s \in new, NEW t \in channelStates, s.homeChannelId = t.homeChannelId,
             s.homeChannelId # Nil
      PROVE  s.epoch = t.epoch
  <2> DEFINE l == GetLatestState(s.userWallet)
  <2>1. CASE l \in channelStates /\ s.homeChannelId = l.homeChannelId /\ s.epoch = l.epoch
    <3> HIDE DEF l
    <3> QED
      BY <1>8, <2>1 DEF ChannelsInv
  <2>2. CASE q.kind = "create" /\ s.homeChannelId = c
    BY <1>8, <2>2 DEF ChannelsInv
  <2> QED
    BY <1>8, <2>1, <2>2 DEF Housed
<1>9. ASSUME NEW s \in channelStates', NEW t \in channelStates',
             s.homeChannelId = t.homeChannelId, s.homeChannelId # Nil
      PROVE  s.epoch = t.epoch
  <2>1. CASE s \in new /\ t \in new
    <3>1. s.userWallet = t.userWallet
      BY <1>7, <1>9
    <3> QED
      BY <2>1, <3>1 DEF Successors
  <2>2. CASE s \in new /\ t \in channelStates
    BY <1>8, <1>9, <2>2
  <2>3. CASE s \in channelStates /\ t \in new
    BY <1>8, <1>9, <2>3
  <2>4. CASE s \in channelStates /\ t \in channelStates
    BY <1>9, <2>4 DEF ChannelsInv
  <2> QED
    BY <2>1, <2>2, <2>3, <2>4
<1>10. ChannelsInv'
  BY <1>2, <1>3, <1>6, <1>7, <1>9 DEF ChannelsInv
<1> QED
  BY <1>2, <1>4, <1>10

\* The balances after a commit.
LEMMA CommitBalances ==
  ASSUME BalancesInv, Numbered, NEW new, Successors(new), StoreUserState(new)
  PROVE  /\ BalancesInv'
         /\ \A s \in new : /\ GetLatestState(s.userWallet)' = s
                           /\ userBalances'[s.userWallet].balance = s.homeLedger.userBalance
         /\ \A u \in Users : (\A s \in new : s.userWallet # u) =>
              /\ GetLatestState(u)' = GetLatestState(u)
              /\ userBalances'[u] = userBalances[u]
<1>1. /\ channelStates' = channelStates \cup new
      /\ \A u \in Users : userBalances'[u] =
           LET own == {s \in new : s.userWallet = u} IN
           IF own = {} THEN userBalances[u]
           ELSE [userBalances[u] EXCEPT !.balance = Latest(own).homeLedger.userBalance]
      /\ DOMAIN userBalances' = Users
  BY DEF StoreUserState
<1>2. /\ \A s \in new : Last(s.userWallet)' = s /\ StatesOf(s.userWallet)'
                          = StatesOf(s.userWallet) \cup {s}
      /\ \A u \in Users : (\A s \in new : s.userWallet # u) =>
           StatesOf(u)' = StatesOf(u) /\ Last(u)' = Last(u)
  BY <1>1, StoredNumbered
<1>3. ASSUME NEW s \in new
      PROVE  LET u == s.userWallet IN
             /\ u \in Users /\ GetLatestState(u)' = s
             /\ DOMAIN userBalances'[u] = {"balance", "enforced"}
             /\ userBalances'[u].balance = s.homeLedger.userBalance
  <2> DEFINE u == s.userWallet
             b == userBalances[u]
             d == userBalances'[u]
  <2>1. u \in Users /\ IsState(s)
    BY DEF Successors, Storable, IsState
  <2>2. GetLatestState(u)' = s
    <3>1. Last(u)' = s /\ StatesOf(u)' # {}
      BY <1>2
    <3> QED
      BY <3>1 DEF GetLatestState, Last
  <2>3. Latest({t \in new : t.userWallet = u}) = s
    <3>1. {t \in new : t.userWallet = u} = {s}
      BY DEF Successors
    <3>2. PICK one : one = {s}
      OBVIOUS
    <3>3. /\ s \in one /\ (\A t \in one : IsState(t)) /\ \A t \in one \ {s} : Before(t, s)
      BY <2>1, <3>2
    <3>4. Latest(one) = s
      BY <3>3, LatestIs
    <3> QED
      BY <3>1, <3>2, <3>4
  <2>4. {t \in new : t.userWallet = u} # {}
    OBVIOUS
  <2>5. d = [b EXCEPT !.balance = s.homeLedger.userBalance]
    BY <1>1, <2>1, <2>3, <2>4
  <2>6. DOMAIN b = {"balance", "enforced"}
    BY <2>1 DEF BalancesInv
  <2> HIDE DEF b, d
  <2>7. DOMAIN d = {"balance", "enforced"} /\ d.balance = s.homeLedger.userBalance
    BY <2>5, <2>6
  <2> QED
    BY <2>1, <2>2, <2>7 DEF d
<1>4. ASSUME NEW u \in Users, \A s \in new : s.userWallet # u
      PROVE  GetLatestState(u)' = GetLatestState(u) /\ userBalances'[u] = userBalances[u]
  <2>1. {s \in new : s.userWallet = u} = {}
    BY <1>4
  <2>2. StatesOf(u)' = StatesOf(u) /\ Last(u)' = Last(u)
    BY <1>2, <1>4
  <2>3. userBalances'[u] = userBalances[u]
    BY <1>1, <2>1
  <2> QED
    BY <2>2, <2>3 DEF GetLatestState, Last
<1>5. ASSUME NEW u \in Users
      PROVE  /\ DOMAIN userBalances'[u] = {"balance", "enforced"}
             /\ userBalances'[u].balance = GetLatestState(u)'.homeLedger.userBalance
  <2>1. CASE \A s \in new : s.userWallet # u
    BY <1>4, <2>1 DEF BalancesInv
  <2>2. CASE \E s \in new : s.userWallet = u
    BY <1>3, <2>2
  <2> QED
    BY <2>1, <2>2
<1>6. BalancesInv'
  BY <1>1, <1>5 DEF BalancesInv
<1> QED
  BY <1>3, <1>4, <1>6

\* A transaction commits.
LEMMA CommitStep ==
  ASSUME Inv, NEW r \in Requests, NEW q, requests[r] = q, NEW new, NEW rows,
         Commit(r, new, rows), UNCHANGED <<sent, onchain, handling, worker>>,
         Successors(new), \A s \in new : Housed(s, q) /\ rowLocks[s.userWallet] \in {Nil, r},
         q.kind = "create" => /\ q.state.homeChannelId \in ChannelIds
                              /\ channels[q.state.homeChannelId] = Nil
                              /\ q.state.homeChannelId[1] = q.state.userWallet
                              /\ q.state.userWallet \in Users
                              /\ rowLocks[q.state.userWallet] \in {Nil, r}
  PROVE  Inv'
<1>1. /\ StoreUserState(new) /\ channelStates' = channelStates \cup new
      /\ requests' = [requests EXCEPT ![r] = Idle]
      /\ rowLocks' = [u \in Users |-> IF rowLocks[u] = r THEN Nil ELSE rowLocks[u]]
  BY DEF Commit, StoreUserState, Finish
<1>2. channels' = IF q.kind = "create"
                  THEN [channels EXCEPT ![q.state.homeChannelId] =
                          NewChannel(q.state.userWallet)]
                  ELSE channels
  BY DEF Commit
<1>3. Numbered' /\ Linked'
  BY <1>1, StoredNumbered, StoredLinked DEF Inv
<1>4. /\ ChannelsInv'
      /\ \A c \in ChannelIds : channels[c] # Nil => channels'[c] # Nil
      /\ \A c \in ChannelIds : channels[c] = Nil /\ channels'[c] # Nil =>
           q.kind = "create" /\ c = q.state.homeChannelId
  BY <1>1, <1>2, CommitChannels DEF Inv
<1>5. /\ BalancesInv'
      /\ \A u \in Users : (\A s \in new : s.userWallet # u) =>
           GetLatestState(u)' = GetLatestState(u)
  BY <1>1, CommitBalances DEF Inv
<1>6. Nil \notin Requests /\ rowLocks \in [Users -> Requests \cup {Nil}]
  BY NodeAssumption DEF Requests, Inv, RequestsInv
<1>7. Undisturbed(r)
  <2>1. ASSUME NEW u \in Users, rowLocks[u] \in Requests \ {r}
        PROVE  /\ GetLatestState(u)' = GetLatestState(u)
               /\ \A c \in ChannelIds : c[1] = u /\ channels[c] = Nil => channels'[c] = Nil
    <3>1. \A s \in new : s.userWallet # u
      BY <1>6, <2>1
    <3>2. q.kind = "create" => q.state.homeChannelId[1] # u
      BY <1>6, <2>1
    <3> QED
      BY <1>4, <1>5, <3>1, <3>2
  <2> QED
    BY <1>1, <2>1 DEF Undisturbed
<1>8. PICK x : x = Idle
  OBVIOUS
<1>9. RequestOK(r, x)' /\ LocksKept(r, x) /\ requests' = [requests EXCEPT ![r] = x]
  BY <1>1, <1>6, <1>8 DEF RequestOK, Idle, LocksKept
<1>10. sent' \in 0..MaxRequests
  BY DEF Inv, RequestsInv
<1>11. RequestsInv'
  BY <1>7, <1>9, <1>10, RequestsKept DEF Inv
<1>12. OnchainInv' /\ WorkerInv'
  BY <1>1, <1>4, OutsideKept
<1> QED
  BY <1>3, <1>4, <1>5, <1>11, <1>12 DEF Inv

\* A state prepared on an older one is accepted only if that is the last one.
LEMMA PreparedIs ==
  ASSUME Numbered, NEW p, IsState(p), Prepared(p), Extends(GetLatestState(p.userWallet), p)
  PROVE  LET l == GetLatestState(p.userWallet) IN
         /\ l \in channelStates /\ p.homeChannelId = l.homeChannelId /\ p.epoch = l.epoch
<1> DEFINE u == p.userWallet
           l == GetLatestState(u)
<1>1. u \in Users
  BY DEF IsState
<1>2. PICK s \in channelStates :
        /\ s.userWallet = u /\ s.homeChannelId = p.homeChannelId
        /\ s.epoch = p.epoch /\ s.version + 1 = p.version
  BY DEF Prepared
<1>3. l \in channelStates /\ l.userWallet = u
  <2>1. StatesOf(u) # {}
    BY <1>2 DEF StatesOf
  <2> QED
    BY <1>1, <2>1, LatestStateIs
<1> HIDE DEF l
<1>4. s.version \in Nat /\ l.version \in Nat
  BY <1>3 DEF Numbered, Storable, IsState
<1>5. /\ p.epoch = IF IsFinal(l) THEN l.epoch + 1 ELSE l.epoch
      /\ p.version = IF IsFinal(l) THEN 0 ELSE l.version + 1
  BY DEF Extends, l
<1>6. s.epoch = l.epoch /\ s.version = l.version
  BY <1>2, <1>4, <1>5
<1>7. s = l
  BY <1>2, <1>3, <1>6 DEF Numbered
<1> QED
  BY <1>2, <1>3, <1>7 DEF l

\* The node's signature changes neither.
LEMMA SignedExtends ==
  ASSUME NEW s, Storable(s), NEW l, Extends(l, s)
  PROVE  LET p == SignedByNode(s) IN
         /\ Storable(p) /\ Extends(l, p) /\ p.userWallet = s.userWallet
         /\ p.homeChannelId = s.homeChannelId /\ p.transition = s.transition
         /\ p.epoch = s.epoch /\ p.homeLedger = s.homeLedger
<1> DEFINE p == SignedByNode(s)
<1>1. p = [s EXCEPT !.nodeSig = TRUE] /\ IsState(s)
  BY DEF SignedByNode, Storable
<1> HIDE DEF p
<1>2. /\ IsState(p) /\ p.userWallet = s.userWallet /\ p.epoch = s.epoch
      /\ p.version = s.version /\ p.homeChannelId = s.homeChannelId
      /\ p.transition = s.transition /\ p.homeLedger = s.homeLedger
  BY <1>1, SignedIs
<1>3. Storable(p) /\ Extends(l, p)
  BY <1>2 DEF Storable, Extends, IsFinal
<1> QED
  BY <1>2, <1>3 DEF p

\* A request that is validated extends the user's last state; one that creates
\* a channel names a new one.
LEMMA ValidIs ==
  ASSUME Inv, NEW r \in Requests, NEW q, RequestOK(r, q), q # Idle, Valid(q)
  PROVE  LET s == q.state
             l == GetLatestState(s.userWallet)
         IN  /\ s.userWallet \in Users /\ Storable(s) /\ Extends(l, s)
             /\ s.transition.type = "transfer_send" => s.transition.amount > 0
             /\ q.kind = "create" => channels[s.homeChannelId] = Nil
             /\ q.kind = "submit" => /\ l \in channelStates
                                     /\ s.homeChannelId = l.homeChannelId
                                     /\ s.epoch = l.epoch
             /\ s.homeChannelId \in ChannelIds /\ s.homeChannelId[1] = s.userWallet
<1> DEFINE s == q.state
           l == GetLatestState(s.userWallet)
<1>1. /\ IsState(s) /\ s.transition.type \in SubmitSupported /\ s.userWallet \in Users
      /\ q.kind \in {"submit", "create"} /\ (q.kind = "submit" => Prepared(s))
      /\ s.homeChannelId \in ChannelIds /\ s.homeChannelId[1] = s.userWallet
  BY DEF RequestOK, IsState
<1>2. IsState(l) /\ (IsFinal(l) => l.homeLedger.userBalance = 0)
  BY <1>1, LatestStateIs DEF Inv
<1>3. /\ ValidateAdvancement(l, s)
      /\ q.kind = "create" => channels[s.homeChannelId] = Nil
  BY <1>1 DEF Valid, SubmitStateValid, RequestCreationValid
<1>4. /\ Storable(s) /\ Extends(l, s)
      /\ s.transition.type = "transfer_send" => s.transition.amount > 0
  <2> HIDE DEF l, s
  <2> QED
    BY <1>1, <1>2, <1>3, Advance
<1>5. q.kind = "submit" => /\ l \in channelStates /\ s.homeChannelId = l.homeChannelId
                           /\ s.epoch = l.epoch
  BY <1>1, <1>4, PreparedIs DEF Inv
<1> QED
  BY <1>1, <1>3, <1>4, <1>5

\* The sender's row is locked.
LEMMA LockAndValidateStep ==
  ASSUME Inv, NEW r \in Requests, LockAndValidate(r)
  PROVE  Inv'
<1>0. PICK q : q = requests[r]
  OBVIOUS
<1> DEFINE s == q.state
           u == s.userWallet
           l == GetLatestState(u)
           p == SignedByNode(s)
<1>1. /\ q.pc = "lock" /\ rowLocks[u] = Nil /\ RequestOK(r, q) /\ q # Idle
      /\ UNCHANGED <<sent, onchain, handling, worker>>
  BY <1>0 DEF LockAndValidate, Inv, RequestsInv, Idle
<1>2. CASE ~Valid(q)
  <2>1. Rollback(r)
    BY <1>0, <1>2 DEF LockAndValidate
  <2> QED
    BY <1>1, <2>1, RollbackStep
<1>3. CASE Valid(q)
  <2>1. /\ u \in Users /\ Storable(s) /\ Extends(l, s)
        /\ s.transition.type = "transfer_send" => s.transition.amount > 0
        /\ q.kind = "create" => channels[s.homeChannelId] = Nil
        /\ q.kind = "submit" => /\ l \in channelStates /\ s.homeChannelId = l.homeChannelId
                                /\ s.epoch = l.epoch
        /\ s.homeChannelId \in ChannelIds /\ s.homeChannelId[1] = s.userWallet
    BY <1>1, <1>3, ValidIs
  <2>2. /\ Storable(p) /\ Extends(l, p) /\ p.userWallet = u
        /\ p.homeChannelId = s.homeChannelId /\ p.transition = s.transition
        /\ p.epoch = s.epoch
    BY <2>1, SignedExtends
  <2>3. CASE s.transition.type = "transfer_send"
    <3>1. /\ rowLocks' = [rowLocks EXCEPT ![u] = r]
          /\ requests' = [requests EXCEPT ![r].pc = "receiver"]
          /\ UNCHANGED tables
      BY <1>0, <1>3, <2>2, <2>3 DEF LockAndValidate
    <3>2. PICK x : x = [q EXCEPT !.pc = "receiver"]
      OBVIOUS
    <3>3. requests' = [requests EXCEPT ![r] = x]
      BY <1>0, <3>1, <3>2 DEF Inv, RequestsInv
    <3>4. DOMAIN q = {"pc", "kind", "state"}
      BY <1>1 DEF RequestOK
    <3>5. /\ DOMAIN x = {"pc", "kind", "state"} /\ x.pc = "receiver" /\ x.kind = q.kind
          /\ x.state = s
      BY <3>2, <3>4
    <3>6. rowLocks \in [Users -> Requests \cup {Nil}] /\ \A v \in Users : rowLocks[v] # r
      BY <1>0, <1>1, NoLocks DEF Inv, RequestsInv
    <3>7. LocksKept(r, x)
      <4>1. /\ rowLocks' \in [Users -> Requests \cup {Nil}] /\ rowLocks'[u] = r
            /\ \A v \in Users \ {u} : rowLocks'[v] = rowLocks[v]
        BY <2>1, <3>1, <3>6
      <4>2. Nil \notin Requests
        BY NodeAssumption DEF Requests
      <4> HIDE DEF u
      <4>3. x.state.userWallet = u
        BY <3>5 DEF u
      <4> QED
        BY <1>1, <3>5, <3>6, <4>1, <4>2, <4>3 DEF LocksKept
    <3>8. /\ channelStates \subseteq channelStates' /\ channels' = channels
          /\ GetLatestState(u)' = l
      BY <2>1, <3>1, TablesKept DEF tables
    <3>9. q.kind = "submit" => Prepared(s)'
      BY <1>1, <3>8, StillKnown DEF RequestOK
    <3>10. Extends(GetLatestState(u)', s)
      BY <2>1, <3>8
    <3>11. rowLocks'[u] = r
      BY <2>1, <3>1, <3>6
    <3>12. RequestOK(r, x)'
      <4>1. /\ q.kind \in {"submit", "create"} /\ IsState(s)
            /\ s.transition.type \in SubmitSupported
            /\ s.transition.type = "transfer_send" => s.transition.accountId \in Users
        BY <1>1 DEF RequestOK
      <4> QED
        BY <2>1, <2>3, <3>5, <3>8, <3>9, <3>10, <3>11, <4>1 DEF RequestOK
    <3>13. sent' \in 0..MaxRequests
      BY <1>1 DEF Inv, RequestsInv
    <3> QED
      BY <1>1, <3>1, <3>3, <3>7, <3>12, <3>13, QuietStep
  <2>4. CASE s.transition.type # "transfer_send"
    <3>1. PICK rows : Commit(r, {p}, rows)
      BY <1>0, <1>3, <2>2, <2>4 DEF LockAndValidate
    <3>2. Successors({p})
      BY <2>2 DEF Successors
    <3>3. Housed(p, q)
      <4>1. q.kind \in {"submit", "create"}
        BY <1>1 DEF RequestOK
      <4>2. p.homeChannelId # Nil
        BY <2>1, <2>2, NodeAssumption
      <4> HIDE DEF p
      <4> QED
        BY <2>1, <2>2, <4>1, <4>2 DEF Housed
    <3> HIDE DEF p
    <3>4. \A x \in {p} : Housed(x, q) /\ rowLocks[x.userWallet] \in {Nil, r}
      BY <1>1, <2>2, <3>3
    <3>5. requests[r] = q
      BY <1>0
    <3> QED
      BY <1>1, <2>1, <3>1, <3>2, <3>4, <3>5, CommitStep
  <2> QED
    BY <2>3, <2>4
<1> QED
  BY <1>2, <1>3

\* What a transfer stores: the sender's state and the receiver's.
LEMMA TransferIs ==
  ASSUME Inv, NEW r \in Requests, NEW q, requests[r] = q, q.pc = "receiver",
         NEW v, v = q.state.transition.accountId, v # q.state.userWallet
  PROVE  LET p == SignedByNode(q.state)
             new == TransferReceiverState(p)
         IN  /\ Successors({p, new}) /\ Housed(p, q) /\ Housed(new, q)
             /\ v \in Users /\ p.userWallet = q.state.userWallet /\ new.userWallet = v
             /\ p.transition = q.state.transition /\ p.transition.type = "transfer_send"
             /\ new.transition.type = "transfer_receive"
             /\ p.transition.amount = new.transition.amount /\ p.transition.amount > 0
<1> DEFINE s == q.state
           u == s.userWallet
           p == SignedByNode(s)
           m == GetLatestState(v)
           new == Received(m, u, s.transition.amount, s.transition.txId)
<1>1. /\ RequestOK(r, q) /\ q # Idle
  BY DEF Inv, RequestsInv, Idle
<1>2. /\ Storable(s) /\ Extends(GetLatestState(u), s) /\ u \in Users /\ v \in Users
      /\ s.transition.type = "transfer_send" /\ s.transition.amount > 0
      /\ s.homeChannelId \in ChannelIds /\ s.homeChannelId[1] = u
      /\ q.kind \in {"submit", "create"} /\ (q.kind = "submit" => Prepared(s))
  BY <1>1 DEF RequestOK, IsState
<1>3. /\ Storable(p) /\ Extends(GetLatestState(u), p) /\ p.userWallet = u
      /\ p.homeChannelId = s.homeChannelId /\ p.transition = s.transition
      /\ p.epoch = s.epoch
  BY <1>2, SignedExtends
<1>4. TransferReceiverState(p) = new
  BY <1>3 DEF TransferReceiverState, Received
<1>5. /\ IsState(m) /\ m.userWallet = v /\ m.homeLedger.userBalance >= 0
      /\ IsFinal(m) => m.homeLedger.userBalance = 0
      /\ StatesOf(v) = {} => m = NewVoidState(v)
      /\ StatesOf(v) # {} => m \in channelStates
  BY <1>2, LatestStateIs DEF Inv
<1>6. s.transition.amount \in Nat /\ Whole(s.transition.amount)
  BY <1>2 DEF Storable, IsState
<1> HIDE DEF m
<1>7. /\ Storable(new) /\ Extends(m, new)
      /\ new.transition.type = "transfer_receive" /\ new.transition.amount = s.transition.amount
      /\ new.homeChannelId = IF IsFinal(m) THEN Nil ELSE m.homeChannelId
      /\ new.nodeSig = (new.homeChannelId # Nil)
  BY <1>5, <1>6, ReceiveIs
<1> HIDE DEF new, p
<1>8. /\ new.userWallet = v
      /\ ~IsFinal(m) => new.epoch = m.epoch
  BY <1>5, <1>7 DEF Extends
<1>9. Successors({p, new})
  BY <1>3, <1>7, <1>8 DEF Successors, m
<1>10. Housed(p, q)
  <2>1. q.kind = "submit" =>
          /\ GetLatestState(u) \in channelStates
          /\ s.homeChannelId = GetLatestState(u).homeChannelId
          /\ s.epoch = GetLatestState(u).epoch
    BY <1>2, PreparedIs DEF Inv, Storable
  <2>2. p.homeChannelId # Nil
    BY <1>2, <1>3, NodeAssumption
  <2> QED
    BY <1>2, <1>3, <2>1, <2>2 DEF Housed
<1>11. Housed(new, q)
  <2>1. ASSUME new.homeChannelId # Nil
        PROVE  /\ new.homeChannelId \in ChannelIds /\ new.homeChannelId[1] = v
               /\ m \in channelStates /\ new.homeChannelId = m.homeChannelId
               /\ new.epoch = m.epoch
    <3>1. ~IsFinal(m) /\ new.homeChannelId = m.homeChannelId
      BY <1>7, <2>1
    <3>2. m \in channelStates
      <4>1. StatesOf(v) # {}
        BY <1>2, <1>5, <2>1, <3>1, VoidIs
      <4> QED
        BY <1>5, <4>1
    <3>3. m.homeChannelId[1] = v /\ m.homeChannelId \in ChannelIds
      BY <1>5, <2>1, <3>1, <3>2 DEF Inv, ChannelsInv, IsState
    <3> QED
      BY <1>8, <3>1, <3>2, <3>3
  <2>2. new.nodeSig => new.homeChannelId # Nil
    BY <1>7
  <2> QED
    BY <1>8, <2>1, <2>2 DEF Housed, m
<1> QED
  BY <1>2, <1>3, <1>4, <1>7, <1>8, <1>9, <1>10, <1>11 DEF p, new

\* The receiver's row is locked, and both states are stored.
LEMMA IssueStep ==
  ASSUME Inv, NEW r \in Requests, IssueTransferReceiverState(r)
  PROVE  Inv'
<1>0. PICK q : requests[r] = q
  OBVIOUS
<1>1. PICK v : v = q.state.transition.accountId
  OBVIOUS
<1> DEFINE p == SignedByNode(q.state)
           new == TransferReceiverState(p)
<1>2. /\ q.pc = "receiver" /\ RequestOK(r, q) /\ q # Idle
      /\ UNCHANGED <<sent, onchain, handling, worker>>
  BY <1>0 DEF IssueTransferReceiverState, Inv, RequestsInv, Idle
<1>3. p.transition.accountId = v /\ p.userWallet = q.state.userWallet
  <2>1. IsState(q.state)
    BY <1>2 DEF RequestOK
  <2>2. p.transition = q.state.transition /\ p.userWallet = q.state.userWallet
    BY <2>1, SignedIs DEF SignedByNode
  <2> QED
    BY <1>1, <2>2
<1>4. rowLocks[v] = Nil
  BY <1>0, <1>2, <1>3 DEF IssueTransferReceiverState
<1>5. CASE Rollback(r)
  BY <1>2, <1>5, RollbackStep
<1>6. CASE v # q.state.userWallet /\ \E rows : Commit(r, {p, new}, rows)
  <2>1. /\ Successors({p, new}) /\ Housed(p, q) /\ Housed(new, q)
        /\ p.userWallet = q.state.userWallet /\ new.userWallet = v
    BY <1>0, <1>1, <1>2, <1>6, TransferIs
  <2>2. PICK rows : Commit(r, {p, new}, rows)
    BY <1>6
  <2>3. /\ rowLocks[q.state.userWallet] = r /\ q.state.userWallet \in Users
        /\ q.state.homeChannelId \in ChannelIds
        /\ q.state.homeChannelId[1] = q.state.userWallet
        /\ q.kind = "create" => channels[q.state.homeChannelId] = Nil
    BY <1>2 DEF RequestOK, IsState
  <2> HIDE DEF p, new
  <2>4. \A s \in {p, new} : Housed(s, q) /\ rowLocks[s.userWallet] \in {Nil, r}
    BY <1>4, <2>1, <2>3
  <2> QED
    BY <1>0, <1>2, <2>1, <2>2, <2>3, <2>4, CommitStep
<1>7. Rollback(r) \/ (v # q.state.userWallet /\ \E rows : Commit(r, {p, new}, rows))
  <2>1. v # q.state.userWallet <=> p.transition.accountId # p.userWallet
    BY <1>3
  <2> QED
    BY <1>0, <1>1, <1>3, <2>1 DEF IssueTransferReceiverState
<1> QED
  BY <1>5, <1>6, <1>7

\* A deadlocked request is aborted.
LEMMA AbortStep ==
  ASSUME Inv, NEW r \in Requests, AbortDeadlocked(r)
  PROVE  Inv'
BY RollbackStep DEF AbortDeadlocked


-------------------------------------------------------------------------------
(* The chain *)

\* A query that finds states of a user returns the last of them.
LEMMA LatestExists ==
  ASSUME Numbered, NEW u \in Users, NEW rows, rows \subseteq StatesOf(u),
         rows # {} \/ Latest(rows) # Nil
  PROVE  /\ Latest(rows) \in rows
         /\ \A t \in rows : \/ Latest(rows).epoch > t.epoch
                            \/ Latest(rows).epoch = t.epoch /\ Latest(rows).version >= t.version
<1>0. rows # {}
  BY DEF Latest
<1>1. PICK n \in Nat : \A s \in StatesOf(u) : s.epoch <= n /\ s.version <= n
  BY DEF Numbered
<1>2. \A s \in rows : s.epoch \in 0..n /\ s.version \in 0..n
  BY <1>1 DEF Numbered, StatesOf, Storable, IsState
<1> DEFINE E == {s.epoch : s \in rows}
<1>3. E \subseteq 0..n /\ E # {}
  BY <1>0, <1>2
<1>4. PICK e \in E : \A x \in E : x <= e
  <2> HIDE DEF E
  <2> QED
    BY <1>3, GreatestNatural
<1> DEFINE ends == {s \in rows : s.epoch = e}
           V == {s.version : s \in ends}
<1>5. V \subseteq 0..n /\ V # {}
  BY <1>2, <1>4
<1>6. PICK v \in V : \A x \in V : x <= v
  <2> HIDE DEF V
  <2> QED
    BY <1>5, GreatestNatural
<1>7. PICK l \in rows : l.epoch = e /\ l.version = v
  BY <1>6
<1>8. \A t \in rows : l.epoch > t.epoch \/ (l.epoch = t.epoch /\ l.version >= t.version)
  <2>1. SUFFICES ASSUME NEW t \in rows
                 PROVE  l.epoch > t.epoch \/ (l.epoch = t.epoch /\ l.version >= t.version)
    OBVIOUS
  <2>2. t.epoch <= e /\ t.epoch \in Nat /\ t.version \in Nat /\ e \in Nat /\ v \in Nat
    BY <1>2, <1>3, <1>4, <1>7
  <2>3. t.epoch = e => t.version <= v
    BY <1>6
  <2> HIDE DEF E, V
  <2> QED
    BY <1>7, <2>2, <2>3
<1> QED
  BY <1>0, <1>7, <1>8 DEF Latest

\* A co-signed state has a channel, and its row.
LEMMA SignedHasChannel ==
  ASSUME Inv, NEW s \in channelStates, CoSigned(s)
  PROVE  /\ s.homeChannelId \in ChannelIds /\ channels[s.homeChannelId] # Nil
         /\ s.version \in Nat /\ s.epoch \in Nat /\ s.userWallet \in Users
<1>1. IsState(s)
  BY DEF Inv, Numbered, Storable
<1>2. s.homeChannelId # Nil
  BY DEF Inv, ChannelsInv, CoSigned
<1> QED
  BY <1>1, <1>2 DEF Inv, ChannelsInv, IsState

\* A user's last co-signed state.
LEMMA LastSignedIs ==
  ASSUME Inv, NEW u \in Users, GetLastUserState(u, TRUE) # Nil
  PROVE  /\ GetLastUserState(u, TRUE) \in channelStates
         /\ CoSigned(GetLastUserState(u, TRUE))
<1> DEFINE rows == {s \in StatesOf(u) : CoSigned(s)}
<1>1. GetLastUserState(u, TRUE) = Latest(rows)
  BY DEF GetLastUserState
<1>2. rows \subseteq StatesOf(u)
  OBVIOUS
<1>3. Latest(rows) \in rows
  <2> HIDE DEF rows
  <2> QED
    BY <1>1, <1>2, LatestExists DEF Inv
<1> QED
  BY <1>1, <1>3 DEF StatesOf

\* A channel's last co-signed state.
LEMMA LastOfChannelIs ==
  ASSUME Inv, NEW c \in ChannelIds, GetLastStateByChannelID(c, TRUE) # Nil
  PROVE  LET s == GetLastStateByChannelID(c, TRUE) IN
         s \in channelStates /\ CoSigned(s) /\ s.homeChannelId = c
<1> DEFINE rows == {s \in channelStates : /\ c \in {s.homeChannelId, s.escrowChannelId}
                                          /\ CoSigned(s)}
           u == c[1]
<1>1. GetLastStateByChannelID(c, TRUE) = Latest(rows)
  BY DEF GetLastStateByChannelID
<1>2. u \in Users /\ c # Nil
  BY NodeAssumption DEF ChannelIds
<1>3. \A s \in rows : s.homeChannelId = c /\ s.userWallet = u
  <2>1. \A s \in channelStates : s.escrowChannelId = Nil
    BY DEF Inv, Numbered, Storable, IsState
  <2> QED
    BY <1>2, <2>1 DEF Inv, ChannelsInv
<1>4. rows \subseteq StatesOf(u)
  BY <1>3 DEF StatesOf
<1>5. Latest(rows) \in rows
  <2> HIDE DEF rows, u
  <2> QED
    BY <1>1, <1>2, <1>4, LatestExists DEF Inv
<1> QED
  BY <1>1, <1>3, <1>5

\* A state id that the node has kept names one co-signed state.
LEMMA KnownIs ==
  ASSUME Inv, NEW id, Known(id)
  PROVE  /\ GetStateByID(id) \in channelStates /\ CoSigned(GetStateByID(id))
         /\ GetStateID(GetStateByID(id)) = id
<1>1. PICK s \in channelStates : GetStateID(s) = id /\ CoSigned(s)
  BY DEF Known
<1>2. PICK t : t = GetStateByID(id)
  OBVIOUS
<1>3. t \in channelStates /\ GetStateID(t) = id
  BY <1>1, <1>2 DEF GetStateByID
<1>4. t.userWallet = s.userWallet /\ t.epoch = s.epoch /\ t.version = s.version
  BY <1>1, <1>3 DEF GetStateID
<1>5. t = s
  BY <1>1, <1>3, <1>4 DEF Inv, Numbered
<1> QED
  BY <1>1, <1>2, <1>3, <1>5

\* Events are only added, after the ones there are.
EventsKept ==
  /\ events' \in Seq(EventRecord)
  /\ \A i \in 1..Len(events') : channels[events'[i].channelId] # Nil
  /\ events # <<>> => events' # <<>> /\ Head(events') = Head(events)

\* The first events of ev2 are those of ev; the others are of channel c.
Appended(ev, ev2, c, types, v) ==
  /\ ev2 \in Seq(EventRecord) /\ Len(ev2) = Len(ev) + Len(types)
  /\ \A i \in 1..Len(ev) : ev2[i] = ev[i]
  /\ \A i \in 1..Len(types) :
       ev2[Len(ev) + i] = [type |-> types[i], channelId |-> c, version |-> v]

\* The contract emits events of a channel.
LEMMA EmitIs ==
  ASSUME Inv, NEW c \in ChannelIds, NEW types \in Seq(EventType), NEW v \in Nat,
         Emit(c, types, v)
  PROVE  Appended(events, events', c, types, v)
<1> DEFINE new == [i \in DOMAIN types |-> [type |-> types[i], channelId |-> c, version |-> v]]
<1>1. /\ DOMAIN types = 1..Len(types) /\ Len(types) \in Nat
      /\ \A i \in 1..Len(types) : types[i] \in EventType
  BY ElementOfSeq, LenProperties
<1>2. new \in Seq(EventRecord) /\ Len(new) = Len(types)
  <2>1. \A i \in 1..Len(types) : new[i] \in EventRecord
    BY <1>1 DEF EventRecord
  <2>2. DOMAIN new = 1..Len(types)
    BY <1>1
  <2> HIDE DEF new
  <2>3. new \in [1..Len(types) -> EventRecord]
    <3>1. new = [i \in 1..Len(types) |-> new[i]]
      BY <2>2 DEF new
    <3> QED
      BY <2>1, <3>1
  <2> QED
    BY <1>1, <2>1, <2>3, IsASeq
<1>3. \A i \in 1..Len(types) : new[i] = [type |-> types[i], channelId |-> c, version |-> v]
  BY <1>1
<1>4. events' = events \o new /\ events \in Seq(EventRecord)
  BY DEF Emit, Inv, OnchainInv
<1> HIDE DEF new
<1>5. /\ events' \in Seq(EventRecord) /\ Len(events') = Len(events) + Len(new)
      /\ \A i \in 1..(Len(events) + Len(new)) :
           events'[i] = IF i <= Len(events) THEN events[i] ELSE new[i - Len(events)]
  <2>1. /\ events \o new \in Seq(EventRecord) /\ Len(events \o new) = Len(events) + Len(new)
        /\ \A i \in 1..(Len(events) + Len(new)) :
             (events \o new)[i] = IF i <= Len(events) THEN events[i] ELSE new[i - Len(events)]
    BY <1>2, <1>4, ConcatProperties, Zenon
  <2> QED
    BY <1>4, <2>1, Zenon
<1>6. Len(events) \in Nat
  BY <1>4, LenProperties
<1>7. \A i \in 1..Len(events) : events'[i] = events[i]
  BY <1>1, <1>2, <1>5, <1>6
<1>8. ASSUME NEW i \in 1..Len(types)
      PROVE  events'[Len(events) + i] = [type |-> types[i], channelId |-> c, version |-> v]
  <2>1. PICK k, n : k = Len(events) + i /\ n = Len(events)
    OBVIOUS
  <2>2. /\ k \in 1..(Len(events) + Len(new)) /\ ~(k <= Len(events)) /\ k - Len(events) = i
    BY <1>1, <1>2, <1>6, <2>1
  <2>3. events'[k] = new[i]
    BY <1>5, <2>2
  <2> QED
    BY <1>3, <2>1, <2>3
<1> QED
  BY <1>2, <1>5, <1>7, <1>8 DEF Appended

LEMMA EmitKeeps ==
  ASSUME Inv, NEW c \in ChannelIds, channels[c] # Nil, NEW types \in Seq(EventType),
         NEW v \in Nat, Emit(c, types, v)
  PROVE  EventsKept
<1>1. Appended(events, events', c, types, v)
  BY EmitIs
<1>2. /\ events \in Seq(EventRecord) /\ Len(events) \in Nat /\ Len(types) \in Nat
      /\ \A i \in 1..Len(events) : channels[events[i].channelId] # Nil
  BY LenProperties DEF Inv, OnchainInv
<1>3. ASSUME NEW i \in 1..Len(events')
      PROVE  channels[events'[i].channelId] # Nil
  <2>1. CASE i <= Len(events)
    BY <1>1, <1>2, <2>1 DEF Appended
  <2>2. CASE i > Len(events)
    <3>1. PICK k : k = i - Len(events)
      OBVIOUS
    <3>2. k \in 1..Len(types) /\ Len(events) + k = i
      BY <1>1, <1>2, <2>2, <3>1 DEF Appended
    <3>3. events'[Len(events) + k] = [type |-> types[k], channelId |-> c, version |-> v]
      BY <1>1, <3>2 DEF Appended
    <3> QED
      BY <3>2, <3>3
  <2> QED
    BY <1>1, <1>2, <2>1, <2>2 DEF Appended
<1>4. ASSUME events # <<>> PROVE events' # <<>> /\ Head(events') = Head(events)
  <2>1. Len(events) > 0
    BY <1>2, <1>4, EmptySeq
  <2>2. /\ events' \in Seq(EventRecord) /\ Len(events') > 0 /\ events'[1] = events[1]
    BY <1>1, <1>2, <2>1 DEF Appended
  <2>3. events' # <<>>
    BY <2>2
  <2> QED
    BY <1>2, <1>4, <2>2, <2>3
<1> QED
  BY <1>1, <1>3, <1>4 DEF Appended, EventsKept

\* Requests are left alone.
LEMMA RequestsAlone ==
  ASSUME RequestsInv, UNCHANGED <<rowLocks, api>>, channelStates' = channelStates,
         \A u \in Users : GetLatestState(u)' = GetLatestState(u),
         \A c \in ChannelIds : channels[c] = Nil => channels'[c] = Nil
  PROVE  RequestsInv'
<1>1. requests' = requests /\ sent' = sent /\ rowLocks' = rowLocks
  BY DEF api
<1>2. ASSUME NEW r \in Requests, NEW q, RequestOK(r, q)
      PROVE  RequestOK(r, q)'
  <2>1. CASE q = Idle
    BY <2>1 DEF RequestOK, Idle
  <2>2. CASE q # Idle
    <3>1. q.kind = "submit" => Prepared(q.state)'
      BY <1>2, <2>2, StillKnown DEF RequestOK
    <3>2. q.state.userWallet \in Users
      BY <1>2, <2>2 DEF RequestOK, IsState
    <3>3. q.pc = "receiver" => Extends(GetLatestState(q.state.userWallet)', q.state)
      BY <1>2, <2>2, <3>2 DEF RequestOK
    <3> QED
      BY <1>1, <1>2, <2>2, <3>1, <3>3 DEF RequestOK
  <2> QED
    BY <2>1, <2>2
<1> QED
  BY <1>1, <1>2 DEF RequestsInv

\* The contract's records after a step.
ChainKept ==
  /\ DOMAIN chain' = ChannelIds
  /\ \A c \in ChannelIds :
       ChainRecord(chain'[c]) /\ (chain'[c].status # "VOID" => channels[c] # Nil)

\* A step that changes the record of a channel the node knows.
LEMMA ChannelChanged ==
  ASSUME Inv, NEW c \in ChannelIds, channels[c] # Nil, NEW m, ChainRecord(m),
         chain' = [chain EXCEPT ![c] = m]
  PROVE  ChainKept
BY DEF Inv, OnchainInv, ChainKept

\* A step of the chain.
LEMMA OnchainStep ==
  ASSUME Inv, UNCHANGED <<tables, rowLocks, api, handling, actions>>, mempool' \subseteq mempool,
         EventsKept, ChainKept
  PROVE  Inv'
<1>1. Numbered' /\ Linked' /\ ChannelsInv' /\ BalancesInv'
  BY TablesKept
<1>2. channelStates' = channelStates /\ channels' = channels
  BY DEF tables
<1>3. \A u \in Users : GetLatestState(u)' = GetLatestState(u)
  BY TablesKept
<1>4. RequestsInv'
  BY <1>2, <1>3, RequestsAlone DEF Inv
<1>5. \A id : Known(id) => Known(id)'
  BY <1>2, StillKnown
<1>6. OnchainInv'
  BY <1>2, <1>5 DEF Inv, OnchainInv, EventsKept, ChainKept
<1>7. WorkerInv'
  BY <1>5 DEF Inv, WorkerInv
<1> QED
  BY <1>1, <1>4, <1>6, <1>7 DEF Inv

\* The record of a channel that a state is enforced on, and one that changes
\* its status or its expiry.
LEMMA EnforcedIs ==
  ASSUME Inv, NEW c \in ChannelIds, channels[c] # Nil, NEW s \in channelStates,
         NEW status \in Hub!ChannelStatus, chain' = Enforced(c, s, status)
  PROVE  ChainKept
<1> DEFINE locked == IF status = "CLOSED" THEN 0
                     ELSE Hub!expectedLocked(chain[c], ContractState(s))
           m == [status |-> status, lastState |-> ContractState(s), challengeExpireAt |-> 0,
                 lockedFunds |-> locked]
<1>1. Enforced(c, s, status) = [chain EXCEPT ![c] = m]
  BY DEF Enforced
<1>2. s.version \in Nat
  BY DEF Inv, Numbered, Storable, IsState
<1>3. ContractState(s).version = s.version
  BY DEF ContractState
<1> HIDE DEF locked
<1>4. ChainRecord(m)
  BY <1>2, <1>3 DEF ChainRecord
<1> HIDE DEF m
<1> QED
  BY <1>1, <1>4, ChannelChanged

\* A channel that a state is brought to.
LEMMA EnforceStep ==
  ASSUME Inv, UNCHANGED <<tables, rowLocks, api, handling, actions>>, mempool' \subseteq mempool,
         NEW s \in channelStates, CoSigned(s),
         \/ CreateOnChain(s.homeChannelId, s) \/ CheckpointOnChain(s.homeChannelId, s)
         \/ CloseOnChain(s.homeChannelId, s)
  PROVE  Inv'
<1> DEFINE c == s.homeChannelId
<1>1. c \in ChannelIds /\ channels[c] # Nil /\ s.version \in Nat
  BY SignedHasChannel
<1>2. PICK status \in {"OPERATING", "CLOSED"} : chain' = Enforced(c, s, status)
  BY DEF CreateOnChain, CheckpointOnChain, CloseOnChain
<1>3. \A i : EventOf(i) \in EventType
  BY DEF EventOf, EventType
<1>4. EventsKept
  <2>1. \E types \in Seq(EventType) : Emit(c, types, s.version)
    <3>1. \A x, y \in EventType : <<x>> \in Seq(EventType) /\ <<x, y>> \in Seq(EventType)
      OBVIOUS
    <3>2. "Created" \in EventType /\ "Closed" \in EventType
      BY DEF EventType
    <3> DEFINE i == ContractState(s).intent
    <3>3. \/ Emit(c, <<EventOf(i), "Created">>, s.version)
          \/ Emit(c, <<EventOf(i)>>, s.version) \/ Emit(c, <<"Closed">>, s.version)
      BY DEF CreateOnChain, CheckpointOnChain, CloseOnChain
    <3> HIDE DEF i
    <3> QED
      BY <1>3, <3>1, <3>2, <3>3
  <2> HIDE DEF c
  <2> QED
    BY <1>1, <2>1, EmitKeeps
<1>5. status \in Hub!ChannelStatus
  BY DEF Hub!ChannelStatus
<1> HIDE DEF c
<1>6. ChainKept
  BY <1>1, <1>2, <1>5, EnforcedIs
<1> QED
  BY <1>4, <1>6, OnchainStep

\* Client.Checkpoint.
LEMMA UserCheckpointStep ==
  ASSUME Inv, NEW u \in Users, UserCheckpoint(u)
  PROVE  Inv'
<1>1. PICK s : s = GetLastUserState(u, TRUE)
  OBVIOUS
<1>2. /\ s # Nil
      /\ \/ CloseOnChain(s.homeChannelId, s) \/ CreateOnChain(s.homeChannelId, s)
         \/ CheckpointOnChain(s.homeChannelId, s)
      /\ UNCHANGED <<tables, rowLocks, api, handling, worker>>
  BY <1>1 DEF UserCheckpoint
<1>3. s \in channelStates /\ CoSigned(s)
  BY <1>1, <1>2, LastSignedIs
<1>4. UNCHANGED <<tables, rowLocks, api, handling, actions>> /\ mempool' \subseteq mempool
  BY <1>2 DEF worker
<1> QED
  BY <1>2, <1>3, <1>4, EnforceStep

\* A record under EXCEPT.
LEMMA RecordChanged ==
  ASSUME NEW m, ChainRecord(m), NEW status \in Hub!ChannelStatus, NEW f, NEW x
  PROVE  /\ ChainRecord([m EXCEPT !.status = status])
         /\ ChainRecord([m EXCEPT !.challengeExpireAt = x])
         /\ ChainRecord([m EXCEPT !.status = status, !.lockedFunds = f, !.challengeExpireAt = x])
BY DEF ChainRecord

\* Client.Challenge.
LEMMA UserChallengeStep ==
  ASSUME Inv, NEW s \in channelStates, UserChallenge(s)
  PROVE  Inv'
<1> DEFINE c == s.homeChannelId
<1>1. CoSigned(s) /\ ChallengeOnChain(s) /\ UNCHANGED <<tables, rowLocks, api, handling, worker>>
  BY DEF UserChallenge
<1>2. c \in ChannelIds /\ channels[c] # Nil /\ s.version \in Nat
  BY <1>1, SignedHasChannel
<1>3. EventsKept
  <2>1. <<"Challenged">> \in Seq(EventType)
    BY DEF EventType
  <2>2. Emit(c, <<"Challenged">>, s.version)
    BY <1>1 DEF ChallengeOnChain
  <2> HIDE DEF c
  <2> QED
    BY <1>2, <2>1, <2>2, EmitKeeps
<1>4. DOMAIN chain = ChannelIds /\ \A d \in ChannelIds : ChainRecord(chain[d])
  BY DEF Inv, OnchainInv
<1>5. "DISPUTED" \in Hub!ChannelStatus
  BY DEF Hub!ChannelStatus
<1>6. ChainKept
  <2>1. CASE chain' = Enforced(c, s, "DISPUTED")
    <3> HIDE DEF c
    <3> QED
      BY <1>2, <1>5, <2>1, EnforcedIs
  <2>2. CASE chain' = [chain EXCEPT ![c].status = "DISPUTED"]
    <3>1. PICK m : m = [chain[c] EXCEPT !.status = "DISPUTED"]
      OBVIOUS
    <3>2. ChainRecord(m)
      BY <1>2, <1>4, <1>5, <3>1, RecordChanged
    <3> HIDE DEF c
    <3>3. chain' = [chain EXCEPT ![c] = m]
      BY <2>2, <3>1
    <3> QED
      BY <1>2, <3>2, <3>3, ChannelChanged
  <2> QED
    BY <1>1, <2>1, <2>2 DEF ChallengeOnChain
<1>7. UNCHANGED <<tables, rowLocks, api, handling, actions>> /\ mempool' \subseteq mempool
  BY <1>1 DEF worker
<1> QED
  BY <1>3, <1>6, <1>7, OnchainStep

\* A challenge expires.
LEMMA ExpireStep ==
  ASSUME Inv, NEW c \in ChannelIds, ExpireChallenge(c)
  PROVE  Inv'
<1>1. DOMAIN chain = ChannelIds /\ \A d \in ChannelIds : ChainRecord(chain[d])
  BY DEF Inv, OnchainInv
<1>2. PICK m : m = [chain[c] EXCEPT !.challengeExpireAt = -1]
  OBVIOUS
<1>3. ChainRecord(m)
  BY <1>1, <1>2, RecordChanged DEF ChainRecord
<1>4. chain' = [chain EXCEPT ![c] = m] /\ UNCHANGED <<tables, rowLocks, api, events, handling, worker>>
  BY <1>2 DEF ExpireChallenge
<1>5. ChainKept
  <2>1. channels[c] # Nil
    BY DEF Inv, OnchainInv, ExpireChallenge
  <2> QED
    BY <1>3, <1>4, <2>1, ChannelChanged
<1>6. EventsKept
  BY <1>4 DEF EventsKept, Inv, OnchainInv
<1>7. UNCHANGED <<tables, rowLocks, api, handling, actions>> /\ mempool' \subseteq mempool
  BY <1>4 DEF worker
<1> QED
  BY <1>5, <1>6, <1>7, OnchainStep

\* A channel is closed after that.
LEMMA CloseExpiredStep ==
  ASSUME Inv, NEW c \in ChannelIds, CloseExpired(c)
  PROVE  Inv'
<1>1. DOMAIN chain = ChannelIds /\ ChainRecord(chain[c])
  BY DEF Inv, OnchainInv
<1>2. PICK m : m = [chain[c] EXCEPT !.status = "CLOSED", !.lockedFunds = 0,
                                    !.challengeExpireAt = 0]
  OBVIOUS
<1>3. ChainRecord(m)
  <2>1. "CLOSED" \in Hub!ChannelStatus
    BY DEF Hub!ChannelStatus
  <2> QED
    BY <1>1, <1>2, <2>1, RecordChanged
<1>4. /\ chain' = [chain EXCEPT ![c] = m] /\ UNCHANGED <<tables, rowLocks, api, handling, worker>>
      /\ Emit(c, <<"Closed">>, chain[c].lastState.version)
  BY <1>1, <1>2 DEF CloseExpired
<1>5. channels[c] # Nil
  BY DEF Inv, OnchainInv, CloseExpired
<1>6. EventsKept
  <2>1. <<"Closed">> \in Seq(EventType)
    BY DEF EventType
  <2>2. chain[c].lastState.version \in Nat
    BY <1>1 DEF ChainRecord
  <2> QED
    BY <1>4, <1>5, <2>1, <2>2, EmitKeeps
<1>7. ChainKept
  BY <1>3, <1>4, <1>5, ChannelChanged
<1>8. UNCHANGED <<tables, rowLocks, api, handling, actions>> /\ mempool' \subseteq mempool
  BY <1>4 DEF worker
<1> QED
  BY <1>6, <1>7, <1>8, OnchainStep

\* A transaction of the worker is mined.
LEMMA MineStep ==
  ASSUME Inv, NEW id \in mempool, Mine(id)
  PROVE  Inv'
<1>1. PICK s : s = GetStateByID(id)
  OBVIOUS
<1>2. Known(id)
  BY DEF Inv, WorkerInv
<1>3. s \in channelStates /\ CoSigned(s)
  BY <1>1, <1>2, KnownIs
<1>4. UNCHANGED <<tables, rowLocks, api, handling, actions>> /\ mempool' \subseteq mempool
  BY DEF Mine
<1>5. CASE CheckpointOnChain(s.homeChannelId, s)
  BY <1>3, <1>4, <1>5, EnforceStep
<1>6. CASE UNCHANGED onchain
  <2>1. EventsKept
    BY <1>6 DEF EventsKept, Inv, OnchainInv, onchain
  <2>2. ChainKept
    BY <1>6 DEF ChainKept, Inv, OnchainInv, onchain
  <2> QED
    BY <1>4, <2>1, <2>2, OnchainStep
<1> QED
  BY <1>1, <1>5, <1>6 DEF Mine

-------------------------------------------------------------------------------
(* The event handlers and the worker *)

\* The handler has run up to the lock.
LEMMA BeginEventStep ==
  ASSUME Inv, BeginEvent
  PROVE  Inv'
<1> DEFINE e == Head(events)
<1>1. /\ handling = Nil /\ events # <<>> /\ UNCHANGED <<tables, rowLocks, api, chain, worker>>
  BY DEF BeginEvent
<1>2. events \in Seq(EventRecord) /\ \A i \in 1..Len(events) : channels[events[i].channelId] # Nil
  BY DEF Inv, OnchainInv
<1>3. /\ e \in EventRecord /\ Tail(events) \in Seq(EventRecord)
      /\ Len(Tail(events)) = Len(events) - 1
      /\ \A i \in 1..Len(Tail(events)) : Tail(events)[i] = events[i + 1]
      /\ Len(events) \in Nat
  BY <1>1, <1>2, HeadTailProperties, LenProperties
<1>4. \A i \in 1..Len(Tail(events)) : channels[Tail(events)[i].channelId] # Nil
  BY <1>2, <1>3
<1>5. Numbered' /\ Linked' /\ ChannelsInv' /\ BalancesInv'
  BY <1>1, TablesKept
<1>6. channelStates' = channelStates /\ channels' = channels
  BY <1>1 DEF tables
<1>7. RequestsInv'
  <2>1. \A u \in Users : GetLatestState(u)' = GetLatestState(u)
    BY <1>1, TablesKept
  <2> QED
    BY <1>1, <1>6, <2>1, RequestsAlone DEF Inv
<1>8. \A id : Known(id) => Known(id)'
  BY <1>6, StillKnown
<1>9. OnchainInv'
  <2>1. CASE Ignored(e)
    <3>1. handling' = Nil /\ events' = Tail(events)
      BY <2>1 DEF BeginEvent
    <3> QED
      BY <1>1, <1>3, <1>4, <1>6, <3>1 DEF Inv, OnchainInv
  <2>2. CASE ~Ignored(e)
    <3>1. /\ handling' = [event |-> e, checkpoint |-> ScheduledCheckpoint(e)]
          /\ events' = events
      BY <2>2 DEF BeginEvent
    <3>2. ScheduledCheckpoint(e) # Nil => Known(ScheduledCheckpoint(e))
      <4>1. e.channelId \in ChannelIds
        BY <1>3 DEF EventRecord
      <4> QED
        BY <4>1, LastOfChannelIs DEF ScheduledCheckpoint, Known
    <3>3. PICK k : k = ScheduledCheckpoint(e)
      OBVIOUS
    <3>4. (handling.event = Head(events))' /\ handling'.checkpoint = k
      BY <3>1, <3>3
    <3>5. k # Nil => Known(k)'
      BY <1>8, <3>2, <3>3
    <3>6. (handling.checkpoint # Nil => Known(handling.checkpoint))'
      BY <3>4, <3>5 DEF Known
    <3> QED
      BY <1>1, <1>2, <1>6, <3>1, <3>4, <3>6 DEF Inv, OnchainInv
  <2> QED
    BY <2>1, <2>2
<1>10. WorkerInv'
  BY <1>1, <1>8 DEF Inv, WorkerInv, worker
<1> QED
  BY <1>5, <1>7, <1>9, <1>10 DEF Inv


\* The row a handler writes.
LEMMA HandledIs ==
  ASSUME NEW e \in EventRecord, channels[e.channelId] \in ChannelRow
  PROVE  /\ HandledRow(e) \in ChannelRow
         /\ HandledRow(e).userWallet = channels[e.channelId].userWallet
<1> DEFINE row == channels[e.channelId]
           h == HandledRow(e)
<1>1. e.type \in EventType /\ e.version \in Nat
  BY DEF EventRecord
<1>2. /\ row = [userWallet |-> row.userWallet, status |-> row.status,
                stateVersion |-> row.stateVersion]
      /\ row.userWallet \in Users /\ row.status \in ChannelStatus
  BY DEF ChannelRow
<1>3. \E s \in ChannelStatus : h = [row EXCEPT !.stateVersion = e.version, !.status = s]
  <2>1. CASE e.type = "Created"
    BY <2>1 DEF HandledRow, HandleHomeChannelCreated, ChannelStatus
  <2>2. CASE e.type \in {"Deposited", "Withdrawn", "Checkpointed"}
    <3>1. h = HandleHomeChannelCheckpointed(row, e)
      BY <2>2 DEF HandledRow
    <3>2. h = [row EXCEPT !.stateVersion = e.version,
                          !.status = IF row.status = "challenged" THEN "open" ELSE row.status]
      BY <1>2, <3>1 DEF HandleHomeChannelCheckpointed
    <3>3. (IF row.status = "challenged" THEN "open" ELSE row.status) \in ChannelStatus
      BY <1>2 DEF ChannelStatus
    <3> QED
      BY <3>2, <3>3
  <2>3. CASE e.type = "Challenged"
    BY <2>3 DEF HandledRow, HandleHomeChannelChallenged, ChannelStatus
  <2>4. CASE e.type = "Closed"
    BY <2>4 DEF HandledRow, HandleHomeChannelClosed, ChannelStatus
  <2> QED
    BY <1>1, <2>1, <2>2, <2>3, <2>4 DEF EventType
<1>4. PICK s \in ChannelStatus : h = [row EXCEPT !.stateVersion = e.version, !.status = s]
  BY <1>3
<1> HIDE DEF h
<1>5. h = [userWallet |-> row.userWallet, status |-> s, stateVersion |-> e.version]
  BY <1>2, <1>4
<1> QED
  BY <1>1, <1>2, <1>5 DEF ChannelRow, h

\* The handler commits.
LEMMA CommitEventStep ==
  ASSUME Inv, CommitEvent
  PROVE  Inv'
<1>0. PICK e : e = Head(events)
  OBVIOUS
<1>1. /\ handling # Nil /\ handling.event = e /\ events # <<>>
      /\ handling.checkpoint # Nil => Known(handling.checkpoint)
  BY <1>0 DEF CommitEvent, Inv, OnchainInv
<1>2. /\ UpdateChannelAndRefresh(e.channelId, HandledRow(e))
      /\ actions' = IF handling.checkpoint = Nil THEN actions
                    ELSE Append(actions, PendingAction(handling.checkpoint))
      /\ events' = Tail(events) /\ handling' = Nil
      /\ UNCHANGED <<channelStates, transactions, actionLog, rowLocks, api, chain, mempool>>
  BY <1>1 DEF CommitEvent
<1>3. events \in Seq(EventRecord) /\ \A i \in 1..Len(events) : channels[events[i].channelId] # Nil
  BY DEF Inv, OnchainInv
<1>4. /\ e \in EventRecord /\ Tail(events) \in Seq(EventRecord)
      /\ Len(Tail(events)) = Len(events) - 1
      /\ \A i \in 1..Len(Tail(events)) : Tail(events)[i] = events[i + 1]
      /\ Len(events) \in Nat /\ Len(events) > 0 /\ e = events[1]
  <2>1. Len(events) \in Nat \ {0}
    BY <1>1, <1>3, EmptySeq
  <2> QED
    BY <1>0, <1>1, <1>3, <2>1, HeadTailProperties
<1>5. e.channelId \in ChannelIds /\ channels[e.channelId] # Nil
  BY <1>3, <1>4 DEF EventRecord
<1>6. PICK c, row : c = e.channelId /\ row = HandledRow(e)
  OBVIOUS
<1>7. row \in ChannelRow /\ row.userWallet = channels[c].userWallet /\ row.userWallet = c[1]
  BY <1>4, <1>5, <1>6, HandledIs DEF Inv, ChannelsInv
<1>8. /\ channels' = [channels EXCEPT ![c] = row]
      /\ userBalances' = [userBalances EXCEPT ![row.userWallet].enforced =
                            EnforcedBalance([channels EXCEPT ![c] = row], c)]
  BY <1>2, <1>6 DEF UpdateChannelAndRefresh
<1>9. row # Nil
  BY <1>7, NodeAssumption
<1>10. /\ DOMAIN channels' = ChannelIds /\ channels'[c] = row
       /\ \A d \in ChannelIds \ {c} : channels'[d] = channels[d]
  BY <1>5, <1>6, <1>8 DEF Inv, ChannelsInv
<1>11. \A d \in ChannelIds : channels[d] = Nil <=> channels'[d] = Nil
  BY <1>5, <1>6, <1>9, <1>10
<1>12. channelStates' = channelStates
  BY <1>2
<1>13. \A u \in Users : /\ StatesOf(u)' = StatesOf(u) /\ Last(u)' = Last(u)
                        /\ GetLatestState(u)' = GetLatestState(u)
  BY <1>12 DEF StatesOf, Last, GetLastUserState, GetLatestState
<1>14. Numbered'
  BY <1>12, <1>13 DEF Inv, Numbered
<1>15. Linked'
  BY <1>12 DEF Inv, Linked
<1>16. ChannelsInv'
  <2>1. \A s \in channelStates : s.homeChannelId # Nil => s.homeChannelId \in ChannelIds
    BY DEF Inv, Numbered, Storable, IsState
  <2> QED
    BY <1>7, <1>10, <1>11, <1>12, <2>1 DEF Inv, ChannelsInv
<1>17. BalancesInv'
  <2>1. PICK f : f = EnforcedBalance([channels EXCEPT ![c] = row], c)
    OBVIOUS
  <2>2. userBalances' = [userBalances EXCEPT ![row.userWallet].enforced = f]
    BY <1>8, <2>1
  <2>3. DOMAIN userBalances = Users /\ row.userWallet \in Users
    BY <1>7 DEF Inv, BalancesInv, ChannelRow
  <2>4. ASSUME NEW u \in Users
        PROVE  /\ DOMAIN userBalances'[u] = {"balance", "enforced"}
               /\ userBalances'[u].balance = userBalances[u].balance
    <3>1. DOMAIN userBalances[u] = {"balance", "enforced"}
      BY DEF Inv, BalancesInv
    <3> QED
      BY <2>2, <2>3, <3>1
  <2>5. DOMAIN userBalances' = Users
    BY <2>2, <2>3
  <2> QED
    BY <1>13, <2>4, <2>5 DEF Inv, BalancesInv
<1>18. RequestsInv'
  BY <1>2, <1>11, <1>12, <1>13, RequestsAlone DEF Inv
<1>19. \A id : Known(id) => Known(id)'
  BY <1>12, StillKnown
<1>20. OnchainInv'
  <2>1. \A i \in 1..Len(Tail(events)) : channels'[Tail(events)[i].channelId] # Nil
    <3>1. \A i \in 1..Len(events) : events[i] \in EventRecord
      BY <1>3, ElementOfSeq
    <3>2. \A i \in 1..Len(events) : events[i].channelId \in ChannelIds
      BY <3>1 DEF EventRecord
    <3> QED
      BY <1>3, <1>4, <1>11, <3>2
  <2>2. \A d \in ChannelIds : /\ ChainRecord(chain[d])
                              /\ chain[d].status # "VOID" => channels'[d] # Nil
    BY <1>11 DEF Inv, OnchainInv
  <2> QED
    BY <1>2, <1>4, <2>1, <2>2 DEF Inv, OnchainInv
<1>21. WorkerInv'
  <2>1. CASE handling.checkpoint = Nil
    BY <1>2, <1>19, <2>1 DEF Inv, WorkerInv
  <2>2. CASE handling.checkpoint # Nil
    <3>1. PICK id : id = handling.checkpoint
      OBVIOUS
    <3>2. Known(id)
      BY <1>1, <2>2, <3>1
    <3>3. id \in Users \X Nat \X Nat
      BY <3>2 DEF Known, GetStateID, Inv, Numbered, Storable, IsState
    <3>4. PICK a : a = PendingAction(id)
      OBVIOUS
    <3>5. a \in ActionRecord /\ a.stateId = id
      BY <3>3, <3>4 DEF PendingAction, ActionRecord
    <3>6. actions \in Seq(ActionRecord) /\ \A i \in 1..Len(actions) : Known(actions[i].stateId)
      BY DEF Inv, WorkerInv
    <3>7. actions' = Append(actions, a)
      BY <1>2, <2>2, <3>1, <3>4
    <3>8. /\ actions' \in Seq(ActionRecord) /\ Len(actions') = Len(actions) + 1
          /\ \A i \in 1..Len(actions) : actions'[i] = actions[i]
          /\ actions'[Len(actions) + 1] = a /\ Len(actions) \in Nat
      BY <3>5, <3>6, <3>7, AppendProperties, LenProperties
    <3>9. ASSUME NEW i \in 1..Len(actions')
          PROVE  Known(actions'[i].stateId)
      <4>1. CASE i \in 1..Len(actions)
        BY <3>6, <3>8, <4>1
      <4>2. CASE i = Len(actions) + 1
        BY <3>2, <3>5, <3>8, <4>2
      <4> QED
        BY <3>8, <4>1, <4>2
    <3>10. \A i \in 1..Len(actions') : Known(actions[i].stateId)'
      BY <1>12, <3>9 DEF Known
    <3>11. mempool' = mempool
      BY <1>2
    <3> QED
      BY <1>19, <3>8, <3>10, <3>11 DEF Inv, WorkerInv
  <2> QED
    BY <2>1, <2>2
<1> QED
  BY <1>14, <1>15, <1>16, <1>17, <1>18, <1>20, <1>21 DEF Inv

\* A step of the worker.
LEMMA WorkerKept ==
  ASSUME Inv, WorkerStep
  PROVE  Inv'
<1>1. PICK i \in DOMAIN actions :
        (\E recorded \in BOOLEAN : ProcessActionSent(i, recorded)) \/ ProcessActionFailed(i)
  BY DEF WorkerStep
<1>2. UNCHANGED <<tables, rowLocks, api, onchain, handling>>
  BY <1>1 DEF ProcessActionSent, ProcessActionFailed
<1>3. /\ actions \in Seq(ActionRecord) /\ \A j \in 1..Len(actions) : Known(actions[j].stateId)
      /\ \A id \in mempool : Known(id)
  BY DEF Inv, WorkerInv
<1>4. i \in 1..Len(actions) /\ actions[i] \in ActionRecord /\ Len(actions) \in Nat
  BY <1>3, LenProperties, ElementOfSeq
<1>5. PICK a : a = actions[i]
  OBVIOUS
<1>6. /\ a = [stateId |-> a.stateId, status |-> a.status, retries |-> a.retries]
      /\ a.stateId \in Users \X Nat \X Nat /\ a.retries \in Nat /\ Known(a.stateId)
  BY <1>3, <1>4, <1>5 DEF ActionRecord
<1>7. mempool' \subseteq mempool \cup {a.stateId}
  BY <1>1, <1>5 DEF ProcessActionSent, ProcessActionFailed
<1>8. \E b \in ActionRecord : b.stateId = a.stateId /\ actions' = [actions EXCEPT ![i] = b]
  <2>1. CASE actions' = actions
    <3>1. actions' = [actions EXCEPT ![i] = a]
      <4>1. actions = [j \in DOMAIN actions |-> actions[j]]
        BY <1>3, LenProperties
      <4> QED
        BY <1>5, <2>1, <4>1
    <3> QED
      BY <1>4, <1>5, <3>1
  <2>2. CASE actions' = [actions EXCEPT ![i].status = "completed"]
    <3>1. PICK b : b = [a EXCEPT !.status = "completed"]
      OBVIOUS
    <3>2. b = [stateId |-> a.stateId, status |-> "completed", retries |-> a.retries]
      BY <1>6, <3>1
    <3>3. b \in ActionRecord /\ b.stateId = a.stateId
      BY <1>6, <3>2 DEF ActionRecord
    <3>4. actions' = [actions EXCEPT ![i] = b]
      BY <1>5, <2>2, <3>1
    <3> QED
      BY <3>3, <3>4
  <2>3. CASE ProcessActionFailed(i)
    <3>1. PICK b : b = HandledActionError(a)
      OBVIOUS
    <3>2. \/ b = [stateId |-> a.stateId, status |-> "failed", retries |-> a.retries]
          \/ b = [stateId |-> a.stateId, status |-> a.status, retries |-> a.retries + 1]
      BY <1>6, <3>1 DEF HandledActionError
    <3>3. b \in ActionRecord /\ b.stateId = a.stateId
      BY <1>4, <1>5, <1>6, <3>2 DEF ActionRecord
    <3>4. actions' = [actions EXCEPT ![i] = b]
      BY <1>5, <2>3, <3>1 DEF ProcessActionFailed
    <3> QED
      BY <3>3, <3>4
  <2> QED
    BY <1>1, <2>1, <2>2, <2>3 DEF ProcessActionSent
<1>9. PICK b \in ActionRecord : b.stateId = a.stateId /\ actions' = [actions EXCEPT ![i] = b]
  BY <1>8
<1>10. /\ actions' \in Seq(ActionRecord) /\ Len(actions') = Len(actions)
       /\ \A j \in 1..Len(actions) : actions'[j] = IF j = i THEN b ELSE actions[j]
  BY <1>3, <1>4, <1>9, ExceptSeq
<1>11. channelStates' = channelStates /\ channels' = channels
  BY <1>2 DEF tables
<1>12. Numbered' /\ Linked' /\ ChannelsInv' /\ BalancesInv'
  BY <1>2, TablesKept
<1>13. RequestsInv'
  <2>1. \A u \in Users : GetLatestState(u)' = GetLatestState(u)
    BY <1>2, TablesKept
  <2> QED
    BY <1>2, <1>11, <2>1, RequestsAlone DEF Inv
<1>14. \A id : Known(id) => Known(id)'
  BY <1>11, StillKnown
<1>15. OnchainInv'
  BY <1>2, <1>11, <1>14 DEF Inv, OnchainInv, onchain
<1>16. WorkerInv'
  <2>1. \A j \in 1..Len(actions') : Known(actions'[j].stateId)
    BY <1>3, <1>6, <1>9, <1>10
  <2>2. \A id \in mempool' : Known(id)
    BY <1>3, <1>6, <1>7
  <2> QED
    BY <1>10, <1>11, <2>1, <2>2 DEF WorkerInv, Known
<1> QED
  BY <1>12, <1>13, <1>15, <1>16 DEF Inv


-------------------------------------------------------------------------------
(* Where a behaviour starts *)

\* A state that both sides have signed is the same state.
LEMMA BothSigned ==
  ASSUME NEW s, IsState(s), NEW p, p = [s EXCEPT !.userSig = TRUE, !.nodeSig = TRUE]
  PROVE  /\ IsState(p) /\ p.userWallet = s.userWallet /\ p.epoch = s.epoch
         /\ p.version = s.version /\ p.homeChannelId = s.homeChannelId
         /\ p.transition = s.transition /\ p.homeLedger = s.homeLedger
<1>1. DOMAIN s = StateFields
  BY DEF IsState
<1>2. /\ DOMAIN p = StateFields /\ p.transition = s.transition
      /\ p.userWallet = s.userWallet /\ p.epoch = s.epoch /\ p.version = s.version
      /\ p.homeChannelId = s.homeChannelId /\ p.escrowChannelId = s.escrowChannelId
      /\ p.homeLedger = s.homeLedger /\ p.escrowLedger = s.escrowLedger
  BY <1>1 DEF StateFields
<1>3. IsState(p)
  BY <1>2 DEF IsState
<1> QED
  BY <1>2, <1>3

\* A past deposit of two units.
LEMMA FirstDepositIs ==
  ASSUME NEW u \in Users
  PROVE  LET d == FirstDeposit(u) IN
         /\ Storable(d) /\ d.userWallet = u /\ d.epoch = 0 /\ d.version = 1
         /\ d.homeChannelId = <<u, 1>> /\ <<u, 1>> \in ChannelIds /\ ~IsFinal(d)
         /\ d.homeLedger.userBalance = 2 * AssetUnit
         /\ d.homeLedger.userNetFlow = 2 * AssetUnit
         /\ d.homeLedger.blockchainId = Chain
         /\ Gain(d.transition) = 2 * AssetUnit
<1> DEFINE v == NewVoidState(u)
           n == NextState(v)
           e == ApplyChannelCreation(n, Chain, Token, 1)
           t == [type |-> "home_deposit", accountId |-> Nil, amount |-> 2 * AssetUnit]
           p == Applied(e, t, Nil)
           d == FirstDeposit(u)
<1>1. /\ IsState(v) /\ v.transition.type = "void" /\ v.userWallet = u
      /\ v.epoch = 0 /\ v.version = 0
      /\ v.homeLedger.userBalance = 0 /\ v.homeLedger.userNetFlow = 0
  BY VoidIs
<1> HIDE DEF v
<1>2. /\ IsState(n) /\ n.userWallet = u /\ n.epoch = 0 /\ n.version = 1
      /\ n.homeLedger = v.homeLedger
  BY <1>1, NextIs DEF IsFinal
<1> HIDE DEF n
<1>3. /\ IsState(e) /\ e.userWallet = u /\ e.epoch = 0
      /\ e.version = 1 /\ e.homeChannelId = <<u, 1>> /\ <<u, 1>> \in ChannelIds
      /\ e.homeLedger.userBalance = 0 /\ e.homeLedger.userNetFlow = 0
      /\ e.homeLedger.blockchainId = Chain
  BY <1>1, <1>2, CreationIs, NodeAssumption
<1> HIDE DEF e
<1>4. /\ t.type = "home_deposit" /\ t.amount = 2 * AssetUnit
      /\ t.type \in SubmitSupported /\ t.amount \in Int
  BY CoreAssumption DEF SubmitSupported
<1>5. p = ApplyHomeDepositTransition(e, 2 * AssetUnit)
  BY DEF Applied
<1> HIDE DEF t
<1>6. /\ IsState(p) /\ p.userWallet = u /\ p.epoch = 0 /\ p.version = 1
      /\ p.homeChannelId = <<u, 1>> /\ p.transition.type = "home_deposit" /\ Moves(e, p)
      /\ p.homeLedger.blockchainId = Chain
  BY <1>3, <1>4, AppliedIs
<1>7. p.transition.amount = 2 * AssetUnit
  <2>1. DOMAIN e = StateFields
    BY <1>3 DEF IsState
  <2>2. p.transition = SenderTransition(e, "home_deposit", e.homeChannelId, 2 * AssetUnit)
    BY <1>5, <2>1 DEF ApplyHomeDepositTransition, StateFields
  <2> QED
    BY <2>2 DEF SenderTransition
<1>8. d = [p EXCEPT !.userSig = TRUE, !.nodeSig = TRUE]
  BY <1>5 DEF FirstDeposit, e, n, v
<1> HIDE DEF p, d
<1>9. /\ IsState(d) /\ d.userWallet = u /\ d.epoch = 0 /\ d.version = 1
      /\ d.homeChannelId = <<u, 1>> /\ d.transition = p.transition /\ d.homeLedger = p.homeLedger
  BY <1>6, <1>8, BothSigned
<1>10. /\ Gain(p.transition) = 2 * AssetUnit /\ FlowGain(p.transition) = 2 * AssetUnit
       /\ 2 * AssetUnit \in Nat
  BY <1>6, <1>7, CoreAssumption DEF Gain, FlowGain
<1>11. p.homeLedger.userBalance = 2 * AssetUnit /\ p.homeLedger.userNetFlow = 2 * AssetUnit
  BY <1>3, <1>6, <1>10 DEF Moves
<1>12. Storable(d) /\ ~IsFinal(d)
  <2>1. Whole(2 * AssetUnit)
    BY DEF Whole
  <2> QED
    BY <1>6, <1>7, <1>9, <1>10, <1>11, <2>1 DEF Storable, IsFinal
<1> QED
  BY <1>3, <1>6, <1>9, <1>10, <1>11, <1>12 DEF d

\* A channel closed after it.
LEMMA ClosingIs ==
  ASSUME NEW u \in Users
  PROVE  LET d == Closing(u) IN
         /\ Storable(d) /\ d.userWallet = u /\ d.epoch = 0 /\ d.version = 2
         /\ d.homeChannelId = <<u, 1>> /\ IsFinal(d)
         /\ d.homeLedger.userBalance = 0 /\ d.homeLedger.userNetFlow = 0
         /\ d.homeLedger.blockchainId = Chain
         /\ Gain(d.transition) = -(2 * AssetUnit)
<1> DEFINE f == FirstDeposit(u)
           e == NextState(f)
           t == [type |-> "finalize", accountId |-> Nil, amount |-> 0]
           p == Applied(e, t, Nil)
           d == Closing(u)
<1>1. /\ Storable(f) /\ f.userWallet = u /\ f.epoch = 0 /\ f.version = 1
      /\ f.homeChannelId = <<u, 1>> /\ <<u, 1>> \in ChannelIds /\ ~IsFinal(f)
      /\ f.homeLedger.userBalance = 2 * AssetUnit /\ f.homeLedger.userNetFlow = 2 * AssetUnit
      /\ f.homeLedger.blockchainId = Chain
  BY FirstDepositIs
<1> HIDE DEF f
<1>2. IsState(f)
  BY <1>1 DEF Storable
<1>3. /\ IsState(e) /\ e.userWallet = u /\ e.epoch = 0 /\ e.version = 2
      /\ e.homeChannelId = <<u, 1>> /\ e.homeLedger = f.homeLedger
  BY <1>1, <1>2, NextIs
<1> HIDE DEF e
<1>4. /\ t.type = "finalize" /\ t.amount = 0
      /\ t.type \in SubmitSupported /\ t.amount \in Int
  BY DEF SubmitSupported
<1>5. p = ApplyFinalizeTransition(e)
  BY DEF Applied
<1> HIDE DEF t
<1>6. /\ IsState(p) /\ p.userWallet = u /\ p.epoch = 0 /\ p.version = 2
      /\ p.homeChannelId = <<u, 1>> /\ p.transition.type = "finalize" /\ Moves(e, p)
      /\ p.homeLedger.blockchainId = Chain
  BY <1>1, <1>3, <1>4, AppliedIs
<1>8. d = [p EXCEPT !.userSig = TRUE, !.nodeSig = TRUE]
  BY <1>5 DEF Closing, e, f
<1> HIDE DEF p, d
<1>9. /\ IsState(d) /\ d.userWallet = u /\ d.epoch = 0 /\ d.version = 2
      /\ d.homeChannelId = <<u, 1>> /\ d.transition = p.transition /\ d.homeLedger = p.homeLedger
  BY <1>6, <1>8, BothSigned
<1>10. /\ Gain(p.transition) = -p.transition.amount
       /\ FlowGain(p.transition) = -p.transition.amount
       /\ p.transition.amount \in Int /\ 2 * AssetUnit \in Nat
  BY <1>6, CoreAssumption DEF Gain, FlowGain, IsState
<1>11. /\ p.homeLedger.userBalance = 0 /\ p.homeLedger.userNetFlow = 0
       /\ p.transition.amount = 2 * AssetUnit
  BY <1>1, <1>3, <1>6, <1>10 DEF Moves
<1>12. Storable(d) /\ IsFinal(d)
  <2>1. Whole(2 * AssetUnit)
    BY DEF Whole
  <2> QED
    BY <1>6, <1>9, <1>10, <1>11, <2>1 DEF Storable, IsFinal
<1> QED
  BY <1>3, <1>6, <1>9, <1>10, <1>11, <1>12 DEF d

\* The states of a user's past.
PastSet(past, u) ==
  CASE past = "new"    -> {}
    [] past = "funded" -> {FirstDeposit(u)}
    [] past = "closed" -> {FirstDeposit(u), Closing(u)}

PastLast(past, u) == IF past = "funded" THEN FirstDeposit(u) ELSE Closing(u)

\* As a sequence.
LEMMA PastIs ==
  ASSUME NEW past \in Past, NEW u \in Users
  PROVE  LET st == PastStates(past, u) IN
         /\ Range(st) = PastSet(past, u)
         /\ st = <<>> <=> past = "new"
         /\ past # "new" => st[Len(st)] = PastLast(past, u)
<1>1. CASE past = "new"
  <2>1. PastStates(past, u) = <<>> /\ PastSet(past, u) = {}
    BY <1>1 DEF PastStates, PastSet
  <2> QED
    BY <1>1, <2>1 DEF Range
<1>2. CASE past = "funded"
  <2>1. /\ PastStates(past, u) = <<FirstDeposit(u)>> /\ PastSet(past, u) = {FirstDeposit(u)}
        /\ PastLast(past, u) = FirstDeposit(u)
    BY <1>2 DEF PastStates, PastSet, PastLast
  <2> QED
    BY <1>2, <2>1 DEF Range
<1>3. CASE past = "closed"
  <2>1. /\ PastStates(past, u) = <<FirstDeposit(u), Closing(u)>>
        /\ PastSet(past, u) = {FirstDeposit(u), Closing(u)}
        /\ PastLast(past, u) = Closing(u)
    BY <1>3 DEF PastStates, PastSet, PastLast
  <2> QED
    BY <1>3, <2>1 DEF Range
<1> QED
  BY <1>1, <1>2, <1>3 DEF Past


\* Channel c of a user with that past.
Beginning(past, c) ==
  \/ channels[c] = Nil /\ chain[c] = VoidMeta
  \/ LET l == PastLast(past, c[1]) IN
     /\ past # "new" /\ l.homeChannelId = c
     /\ channels[c].stateVersion = l.version /\ chain[c].lastState = ContractState(l)
     /\ channels[c].status = IF IsFinal(l) THEN "closed" ELSE "open"
     /\ chain[c].status = IF IsFinal(l) THEN "CLOSED" ELSE "OPERATING"
     /\ chain[c].lockedFunds = IF IsFinal(l) THEN 0 ELSE 2

\* The tables and the chain of such pasts.
LEMMA InitIs ==
  ASSUME Init
  PROVE  \E past \in [Users -> Past] :
         /\ \A u \in Users : StatesOf(u) = PastSet(past[u], u)
         /\ \A s \in channelStates : s.userWallet \in Users
         /\ DOMAIN channels = ChannelIds /\ DOMAIN chain = ChannelIds
         /\ \A c \in ChannelIds : channels[c] # Nil =>
              channels[c] \in ChannelRow /\ channels[c].userWallet = c[1]
         /\ \A u \in Users : past[u] # "new" => channels[<<u, 1>>] # Nil
         /\ \A c \in ChannelIds :
              ChainRecord(chain[c]) /\ (chain[c].status # "VOID" => channels[c] # Nil)
         /\ userBalances = [u \in Users |->
              [balance |-> IF past[u] = "funded" THEN 2 * AssetUnit ELSE 0,
               enforced |-> IF past[u] = "funded" THEN 2 * AssetUnit ELSE 0]]
         /\ \A c \in ChannelIds : Beginning(past[c[1]], c)
<1>1. PICK past \in Pasts : PastStore(past)
  BY DEF Init
<1>2. past \in [Users -> Past]
  BY NodeAssumption
<1> DEFINE states == [u \in Users |-> PastStates(past[u], u)]
           L(u) == states[u][Len(states[u])]
           Row(u) == [userWallet |-> u, stateVersion |-> L(u).version,
                      status |-> IF IsFinal(L(u)) THEN "closed" ELSE "open"]
           Meta(u) == [status |-> IF IsFinal(L(u)) THEN "CLOSED" ELSE "OPERATING",
                       lastState |-> ContractState(L(u)), challengeExpireAt |-> 0,
                       lockedFunds |-> IF IsFinal(L(u)) THEN 0 ELSE 2]
           Used(c) == states[c[1]] # <<>> /\ L(c[1]).homeChannelId = c
           Balance(u) == IF states[u] = <<>> THEN 0 ELSE L(u).homeLedger.userBalance
<1>3. /\ channelStates = UNION {Range(states[u]) : u \in Users}
      /\ channels = [c \in ChannelIds |-> IF Used(c) THEN Row(c[1]) ELSE Nil]
      /\ userBalances = [u \in Users |-> [balance |-> Balance(u), enforced |-> Balance(u)]]
      /\ chain = [c \in ChannelIds |-> IF Used(c) THEN Meta(c[1]) ELSE VoidMeta]
  BY <1>1, Zenon DEF PastStore
<1>4. \A u \in Users : /\ Range(states[u]) = PastSet(past[u], u)
                       /\ states[u] = <<>> <=> past[u] = "new"
                       /\ past[u] # "new" => L(u) = PastLast(past[u], u)
  BY <1>2, PastIs
<1> HIDE DEF states
<1>5. \A u \in Users : \A s \in PastSet(past[u], u) : s.userWallet = u
  <2>1. \A u \in Users : FirstDeposit(u).userWallet = u /\ Closing(u).userWallet = u
    BY FirstDepositIs, ClosingIs
  <2> QED
    BY <1>2, <2>1 DEF PastSet, Past
<1>6. ASSUME NEW u \in Users
      PROVE  StatesOf(u) = PastSet(past[u], u)
  BY <1>3, <1>4, <1>5 DEF StatesOf
<1>7. \A s \in channelStates : s.userWallet \in Users
  BY <1>3, <1>4, <1>5
<1>8. \A u \in Users : past[u] # "new" =>
        /\ L(u).homeChannelId = <<u, 1>> /\ L(u).version \in Nat /\ <<u, 1>> \in ChannelIds
  <2>1. SUFFICES ASSUME NEW u \in Users, past[u] # "new"
                 PROVE  /\ L(u).homeChannelId = <<u, 1>> /\ L(u).version \in Nat
                        /\ <<u, 1>> \in ChannelIds
    OBVIOUS
  <2>2. L(u) = FirstDeposit(u) \/ L(u) = Closing(u)
    BY <1>4, <2>1 DEF PastLast
  <2> HIDE DEF L
  <2> QED
    BY <2>2, FirstDepositIs, ClosingIs
<1>9. \A u \in Users : Balance(u) = IF past[u] = "funded" THEN 2 * AssetUnit ELSE 0
  <2>1. SUFFICES ASSUME NEW u \in Users
                 PROVE  Balance(u) = IF past[u] = "funded" THEN 2 * AssetUnit ELSE 0
    OBVIOUS
  <2>2. CASE past[u] = "new"
    BY <1>4, <2>2
  <2>3. CASE past[u] = "funded"
    <3>1. states[u] # <<>> /\ L(u) = FirstDeposit(u)
      BY <1>4, <2>3 DEF PastLast
    <3> HIDE DEF L
    <3> QED
      BY <2>3, <3>1, FirstDepositIs
  <2>4. CASE past[u] = "closed"
    <3>1. states[u] # <<>> /\ L(u) = Closing(u)
      BY <1>4, <2>4 DEF PastLast
    <3> HIDE DEF L
    <3> QED
      BY <2>4, <3>1, ClosingIs
  <2> QED
    BY <1>2, <2>2, <2>3, <2>4 DEF Past
<1>10. userBalances = [u \in Users |->
         [balance |-> IF past[u] = "funded" THEN 2 * AssetUnit ELSE 0,
          enforced |-> IF past[u] = "funded" THEN 2 * AssetUnit ELSE 0]]
  <2> HIDE DEF Balance
  <2> QED
    BY <1>3, <1>9
<1> HIDE DEF L
<1>11. ASSUME NEW c \in ChannelIds, Used(c)
       PROVE  /\ channels[c] = Row(c[1]) /\ Row(c[1]) \in ChannelRow /\ Row(c[1]) # Nil
              /\ Row(c[1]).userWallet = c[1]
              /\ chain[c] = Meta(c[1]) /\ ChainRecord(Meta(c[1]))
  <2>1. c[1] \in Users /\ past[c[1]] # "new"
    BY <1>4, <1>11 DEF ChannelIds
  <2>2. L(c[1]).version \in Nat
    BY <1>8, <2>1
  <2>3. Row(c[1]) \in ChannelRow
    BY <2>1, <2>2 DEF ChannelRow, ChannelStatus
  <2>4. ContractState(L(c[1])).version \in Nat
    BY <2>2 DEF ContractState
  <2>5. ChainRecord(Meta(c[1]))
    BY <2>4 DEF ChainRecord, Hub!ChannelStatus
  <2>6. Row(c[1]).userWallet = c[1]
    OBVIOUS
  <2> HIDE DEF Row, Meta, Used
  <2> QED
    BY <1>3, <1>11, <2>3, <2>5, <2>6, NodeAssumption
<1>12. ASSUME NEW c \in ChannelIds, ~Used(c)
       PROVE  channels[c] = Nil /\ chain[c] = VoidMeta /\ ChainRecord(VoidMeta)
  <2>1. ChainRecord(VoidMeta)
    BY DEF ChainRecord, VoidMeta, Hub!ChannelStatus, Hub!EmptyState
  <2> HIDE DEF Row, Meta, Used
  <2> QED
    BY <1>3, <1>12, <2>1
<1>13. \A u \in Users : past[u] # "new" => channels[<<u, 1>>] # Nil
  <2>1. SUFFICES ASSUME NEW u \in Users, past[u] # "new" PROVE channels[<<u, 1>>] # Nil
    OBVIOUS
  <2>2. <<u, 1>> \in ChannelIds /\ Used(<<u, 1>>)
    BY <1>4, <1>8, <2>1
  <2> HIDE DEF Used, Row, Meta
  <2> QED
    BY <1>11, <2>2
<1>14. \A c \in ChannelIds : /\ channels[c] # Nil =>
                                  channels[c] \in ChannelRow /\ channels[c].userWallet = c[1]
                             /\ ChainRecord(chain[c])
                             /\ chain[c].status # "VOID" => channels[c] # Nil
  <2>1. VoidMeta.status = "VOID"
    BY DEF VoidMeta
  <2> HIDE DEF Used, Row, Meta
  <2> QED
    BY <1>11, <1>12, <2>1
<1>15. DOMAIN channels = ChannelIds /\ DOMAIN chain = ChannelIds
  BY <1>3
<1>16. ASSUME NEW c \in ChannelIds
       PROVE  Beginning(past[c[1]], c)
  <2>1. CASE ~Used(c)
    <3> HIDE DEF Used
    <3> QED
      BY <1>12, <2>1 DEF Beginning
  <2>2. CASE Used(c)
    <3>1. /\ c[1] \in Users /\ past[c[1]] # "new" /\ L(c[1]) = PastLast(past[c[1]], c[1])
          /\ L(c[1]).homeChannelId = c
      BY <1>4, <2>2 DEF ChannelIds
    <3>2. channels[c] = Row(c[1]) /\ chain[c] = Meta(c[1])
      <4> HIDE DEF Used, Row, Meta
      <4> QED
        BY <1>11, <2>2
    <3> QED
      BY <3>1, <3>2 DEF Beginning
  <2> QED
    BY <2>1, <2>2
<1> QED
  BY <1>2, <1>6, <1>7, <1>10, <1>13, <1>14, <1>15, <1>16

\* The invariant holds then.
LEMMA InitInv ==
  ASSUME Init
  PROVE  Inv
<1>1. PICK past \in [Users -> Past] :
         /\ \A u \in Users : StatesOf(u) = PastSet(past[u], u)
         /\ \A s \in channelStates : s.userWallet \in Users
         /\ DOMAIN channels = ChannelIds /\ DOMAIN chain = ChannelIds
         /\ \A c \in ChannelIds : channels[c] # Nil =>
              channels[c] \in ChannelRow /\ channels[c].userWallet = c[1]
         /\ \A u \in Users : past[u] # "new" => channels[<<u, 1>>] # Nil
         /\ \A c \in ChannelIds :
              ChainRecord(chain[c]) /\ (chain[c].status # "VOID" => channels[c] # Nil)
         /\ userBalances = [u \in Users |->
              [balance |-> IF past[u] = "funded" THEN 2 * AssetUnit ELSE 0,
               enforced |-> IF past[u] = "funded" THEN 2 * AssetUnit ELSE 0]]
  BY InitIs
<1>2. /\ rowLocks = [u \in Users |-> Nil] /\ requests = [r \in Requests |-> Idle] /\ sent = 0
      /\ events = <<>> /\ handling = Nil /\ actions = <<>> /\ mempool = {}
  BY DEF Init
<1> DEFINE Funding(s) == /\ s = FirstDeposit(s.userWallet) /\ s.version = 1 /\ ~IsFinal(s)
                         /\ s.homeLedger.userBalance = 2 * AssetUnit
                         /\ Gain(s.transition) = 2 * AssetUnit
           Closed(s) == /\ s = Closing(s.userWallet) /\ s.version = 2 /\ IsFinal(s)
                        /\ s.homeLedger.userBalance = 0 /\ past[s.userWallet] = "closed"
                        /\ Gain(s.transition) = -(2 * AssetUnit)
<1>3. \A s \in channelStates :
        /\ s.userWallet \in Users /\ past[s.userWallet] # "new"
        /\ Storable(s) /\ s.epoch = 0 /\ s.version \in Nat
        /\ s.homeChannelId = <<s.userWallet, 1>> /\ s.homeChannelId \in ChannelIds
        /\ Funding(s) \/ Closed(s)
  <2>1. SUFFICES ASSUME NEW s \in channelStates, NEW u, u = s.userWallet
                 PROVE  /\ u \in Users /\ past[u] # "new"
                        /\ Storable(s) /\ s.epoch = 0 /\ s.version \in Nat
                        /\ s.homeChannelId = <<u, 1>> /\ s.homeChannelId \in ChannelIds
                        /\ Funding(s) \/ Closed(s)
    OBVIOUS
  <2>2. u \in Users /\ s \in PastSet(past[u], u)
    BY <1>1, <2>1 DEF StatesOf
  <2>3. /\ past[u] # "new"
        /\ s = FirstDeposit(u) \/ (s = Closing(u) /\ past[u] = "closed")
    BY <1>1, <2>2 DEF PastSet, Past
  <2>4. CASE s = FirstDeposit(u)
    <3>1. /\ Storable(s) /\ s.userWallet = u /\ s.epoch = 0 /\ s.version = 1
          /\ s.homeChannelId = <<u, 1>> /\ s.homeChannelId \in ChannelIds /\ ~IsFinal(s)
          /\ s.homeLedger.userBalance = 2 * AssetUnit /\ Gain(s.transition) = 2 * AssetUnit
      BY <2>2, <2>4, FirstDepositIs
    <3> QED
      BY <2>1, <2>2, <2>3, <2>4, <3>1
  <2>5. CASE s = Closing(u) /\ past[u] = "closed"
    <3>1. /\ Storable(s) /\ s.userWallet = u /\ s.epoch = 0 /\ s.version = 2
          /\ s.homeChannelId = <<u, 1>> /\ IsFinal(s)
          /\ s.homeLedger.userBalance = 0 /\ Gain(s.transition) = -(2 * AssetUnit)
      BY <2>2, <2>5, ClosingIs
    <3>2. <<u, 1>> \in ChannelIds
      BY <2>2, FirstDepositIs
    <3> QED
      BY <2>1, <2>2, <2>3, <2>5, <3>1, <3>2
  <2> QED
    BY <2>3, <2>4, <2>5
<1>4. \A s, t \in channelStates : s.userWallet = t.userWallet /\ s.version = t.version => s = t
  BY <1>3
<1>5. ASSUME NEW u \in Users
      PROVE  /\ IsFiniteSet(StatesOf(u))
             /\ \A s \in StatesOf(u) : s.epoch <= 2 /\ s.version <= 2
             /\ StatesOf(u) # {} => /\ Last(u) = PastLast(past[u], u)
                                    /\ Last(u) \in StatesOf(u)
                                    /\ \A s \in StatesOf(u) \ {Last(u)} : Before(s, Last(u))
  <2> DEFINE d == FirstDeposit(u)
             cl == Closing(u)
             S == StatesOf(u)
  <2>0. Last(u) = Latest(S)
    BY DEF Last, GetLastUserState
  <2>1. /\ IsState(d) /\ IsState(cl) /\ d.epoch = 0 /\ cl.epoch = 0
        /\ d.version = 1 /\ cl.version = 2
    BY FirstDepositIs, ClosingIs DEF Storable
  <2>2. CASE past[u] = "new"
    <3>1. S = {}
      BY <1>1, <2>2 DEF PastSet
    <3> QED
      BY <3>1, FS_EmptySet
  <2>3. CASE past[u] = "funded"
    <3>1. S = {d} /\ PastLast(past[u], u) = d
      BY <1>1, <2>3 DEF PastSet, PastLast
    <3>2. IsFiniteSet(S)
      BY <3>1, FS_Singleton
    <3> HIDE DEF d, S
    <3>3. d \in S /\ (\A s \in S : IsState(s)) /\ \A s \in S \ {d} : Before(s, d)
      BY <2>1, <3>1
    <3>4. Latest(S) = d
      BY <3>3, LatestIs
    <3>5. \A s \in S : s.epoch <= 2 /\ s.version <= 2
      BY <2>1, <3>1
    <3> QED
      BY <2>0, <3>1, <3>2, <3>3, <3>4, <3>5 DEF S
  <2>4. CASE past[u] = "closed"
    <3>1. S = {d, cl} /\ PastLast(past[u], u) = cl
      BY <1>1, <2>4 DEF PastSet, PastLast
    <3>2. IsFiniteSet(S)
      <4>1. S = {d} \cup {cl} /\ IsFiniteSet({d})
        BY <3>1, FS_Singleton
      <4> QED
        BY <4>1, FS_AddElement
    <3> HIDE DEF d, cl, S
    <3>3. cl \in S /\ (\A s \in S : IsState(s)) /\ \A s \in S \ {cl} : Before(s, cl)
      BY <2>1, <3>1 DEF Before
    <3>4. Latest(S) = cl
      BY <3>3, LatestIs
    <3>5. \A s \in S : s.epoch <= 2 /\ s.version <= 2
      BY <2>1, <3>1
    <3> QED
      BY <2>0, <3>1, <3>2, <3>3, <3>4, <3>5 DEF S
  <2> QED
    BY <1>1, <2>2, <2>3, <2>4 DEF Past
<1>6. Numbered
  <2>1. \A s \in channelStates : Storable(s) /\ (s.epoch > 0 \/ s.version > 0)
    BY <1>3
  <2>2. \A s, t \in channelStates :
          s.userWallet = t.userWallet /\ s.epoch = t.epoch /\ s.version = t.version => s = t
    BY <1>4
  <2>3. \A s, t \in channelStates : s.userWallet = t.userWallet /\ IsFinal(s) /\ s.epoch = t.epoch
          => t.version <= s.version
    BY <1>3
  <2>4. \A u \in Users : \E n \in Nat : \A s \in StatesOf(u) : s.epoch <= n /\ s.version <= n
    BY <1>5
  <2>5. \A u \in Users :
          /\ IsFiniteSet(StatesOf(u))
          /\ StatesOf(u) # {} => /\ Last(u) \in StatesOf(u)
                                 /\ \A s \in StatesOf(u) \ {Last(u)} : Before(s, Last(u))
    BY <1>5
  <2> QED
    BY <2>1, <2>2, <2>3, <2>4, <2>5 DEF Numbered
<1>7. Linked
  <2>1. ASSUME NEW s \in channelStates, s.epoch > 0 \/ s.version > 1
        PROVE  \E t \in channelStates : Precedes(t, s)
    <3>1. PICK u : u = s.userWallet
      OBVIOUS
    <3>2. Closed(s) /\ u \in Users /\ s.epoch = 0
      BY <1>3, <2>1, <3>1
    <3>3. PICK d : d = FirstDeposit(u)
      OBVIOUS
    <3>4. d \in channelStates
      BY <1>1, <3>1, <3>2, <3>3 DEF PastSet, StatesOf
    <3>5. d.userWallet = u /\ d.epoch = 0 /\ d.version = 1
      BY <3>2, <3>3, FirstDepositIs
    <3>6. Precedes(d, s)
      BY <3>1, <3>2, <3>5 DEF Precedes
    <3> QED
      BY <3>4, <3>6
  <2>2. ASSUME NEW s \in channelStates, s.epoch = 0 /\ s.version = 1
        PROVE  s.homeLedger.userBalance = Gain(s.transition)
    BY <1>3, <2>2
  <2>3. ASSUME NEW s \in channelStates, NEW t \in channelStates, Precedes(t, s)
        PROVE  s.homeLedger.userBalance = t.homeLedger.userBalance + Gain(s.transition)
    <3>1. t.version = 1 /\ s.version = 2
      BY <1>3, <2>3 DEF Precedes
    <3>2. Funding(t) /\ Closed(s)
      BY <1>3, <3>1
    <3>3. 2 * AssetUnit \in Int
      BY CoreAssumption
    <3> QED
      BY <3>2, <3>3
  <2> QED
    BY <2>1, <2>2, <2>3 DEF Linked
<1>8. ChannelsInv
  <2>1. \A s \in channelStates : s.homeChannelId # Nil /\ s.homeChannelId[1] = s.userWallet
                                 /\ channels[s.homeChannelId] # Nil
    <3>1. SUFFICES ASSUME NEW s \in channelStates, NEW u, u = s.userWallet
                   PROVE  s.homeChannelId # Nil /\ s.homeChannelId[1] = u
                          /\ channels[s.homeChannelId] # Nil
      OBVIOUS
    <3> HIDE DEF Funding, Closed
    <3>2. u \in Users /\ past[u] # "new" /\ s.homeChannelId = <<u, 1>>
          /\ s.homeChannelId \in ChannelIds
      BY <1>3, <3>1
    <3>3. channels[<<u, 1>>] # Nil
      BY <1>1, <3>2
    <3> QED
      BY <3>2, <3>3, NodeAssumption
  <2>2. \A s, t \in channelStates : s.epoch = t.epoch
    BY <1>3
  <2> QED
    BY <1>1, <2>1, <2>2 DEF ChannelsInv
<1>9. BalancesInv
  <2>1. ASSUME NEW u \in Users
        PROVE  GetLatestState(u).homeLedger.userBalance =
                 IF past[u] = "funded" THEN 2 * AssetUnit ELSE 0
    <3>1. CASE past[u] = "new"
      <4>1. StatesOf(u) = {}
        BY <1>1, <3>1 DEF PastSet
      <4> QED
        BY <3>1, <4>1, VoidIs DEF GetLatestState
    <3>2. CASE past[u] # "new"
      <4>1. StatesOf(u) # {}
        BY <1>1, <3>2 DEF PastSet, Past
      <4>2. GetLatestState(u) = PastLast(past[u], u)
        BY <1>5, <4>1 DEF GetLatestState, Last
      <4> QED
        <5>1. CASE past[u] = "funded"
          <6>1. GetLatestState(u) = FirstDeposit(u)
            BY <4>2, <5>1 DEF PastLast
          <6> QED
            BY <5>1, <6>1, FirstDepositIs
        <5>2. CASE past[u] # "funded"
          <6>1. GetLatestState(u) = Closing(u)
            BY <4>2, <5>2 DEF PastLast
          <6> QED
            BY <5>2, <6>1, ClosingIs
        <5> QED
          BY <5>1, <5>2
    <3> QED
      BY <3>1, <3>2
  <2> QED
    BY <1>1, <2>1 DEF BalancesInv
<1>10. RequestsInv
  <2>1. Nil \notin Requests /\ 0 \in 0..MaxRequests
    BY NodeAssumption DEF Requests
  <2> QED
    BY <1>2, <2>1 DEF RequestsInv, RequestOK
<1>11. OnchainInv
  <2>1. events \in Seq(EventRecord) /\ Len(events) = 0
    BY <1>2, EmptySeq
  <2> QED
    BY <1>1, <1>2, <2>1 DEF OnchainInv
<1>12. WorkerInv
  <2>1. actions \in Seq(ActionRecord) /\ Len(actions) = 0
    BY <1>2, EmptySeq
  <2> QED
    BY <1>2, <2>1 DEF WorkerInv
<1> QED
  BY <1>6, <1>7, <1>8, <1>9, <1>10, <1>11, <1>12 DEF Inv


-------------------------------------------------------------------------------
(* The invariant, and what follows from it *)

\* Every step keeps it.
LEMMA InvStep ==
  ASSUME Inv, [Next]_vars
  PROVE  Inv'
<1>1. CASE UNCHANGED vars
  <2>1. /\ UNCHANGED <<tables, rowLocks, api, handling, actions>> /\ mempool' \subseteq mempool
        /\ UNCHANGED onchain
    BY <1>1 DEF vars, worker
  <2>2. EventsKept
    BY <2>1 DEF EventsKept, Inv, OnchainInv, onchain
  <2>3. ChainKept
    BY <2>1 DEF ChainKept, Inv, OnchainInv, onchain
  <2> QED
    BY <2>1, <2>2, <2>3, OnchainStep
<1>2. CASE ClientStep
  BY <1>2, ClientSubmitStep, ClientCreateStep, UserCheckpointStep, UserChallengeStep
  DEF ClientStep
<1>3. CASE \E r \in Requests : ApiStep(r)
  BY <1>3, GateStep, LockAndValidateStep, IssueStep, AbortStep DEF ApiStep
<1>4. CASE EventStep
  BY <1>4, BeginEventStep, CommitEventStep DEF EventStep
<1>5. CASE WorkerStep
  BY <1>5, WorkerKept
<1>6. CASE ChainStep
  BY <1>6, ExpireStep, CloseExpiredStep, MineStep DEF ChainStep
<1> QED
  BY <1>1, <1>2, <1>3, <1>4, <1>5, <1>6 DEF Next

\* So it holds always.
LEMMA Invariance == Spec => []Inv
<1>1. Init => Inv
  BY InitInv
<1>2. Inv /\ [Next]_vars => Inv'
  BY InvStep
<1> QED
  BY <1>1, <1>2, PTL DEF Spec

\* The tables, the requests, the chain's records and the actions always have
\* their types, and only requests hold locks.
THEOREM TypeCorrect == Spec => []TypeOK
<1>1. Inv => TypeOK
  <2>1. SUFFICES ASSUME Inv PROVE TypeOK
    OBVIOUS
  <2>2. \A s \in channelStates : /\ s.userWallet \in Users
                                 /\ s.transition.type \in TransitionType
                                 /\ s.homeChannelId \in ChannelIds \cup {Nil}
    BY <2>1 DEF Inv, Numbered, Storable, IsState, SubmitSupported, TransitionType
  <2>3. \A c \in ChannelIds : channels[c] = Nil \/ channels[c].status \in ChannelStatus
    BY <2>1 DEF Inv, ChannelsInv, ChannelRow
  <2>4. \A r \in Requests : requests[r].pc \in {"idle", "gate", "lock", "receiver"}
    BY <2>1 DEF Inv, RequestsInv, RequestOK, Idle
  <2>5. rowLocks \in [Users -> Requests \cup {Nil}] /\ sent \in 0..MaxRequests
    BY <2>1 DEF Inv, RequestsInv
  <2>6. \A c \in ChannelIds : chain[c].status \in Hub!ChannelStatus
    BY <2>1 DEF Inv, OnchainInv, ChainRecord
  <2>7. \A i \in DOMAIN actions : actions[i].status \in {"pending", "completed", "failed"}
    <3>1. actions \in Seq(ActionRecord)
      BY <2>1 DEF Inv, WorkerInv
    <3>2. \A i \in DOMAIN actions : actions[i] \in ActionRecord
      BY <3>1, ElementOfSeq, LenProperties
    <3> QED
      BY <3>2 DEF ActionRecord
  <2> QED
    BY <2>2, <2>3, <2>4, <2>5, <2>6, <2>7 DEF TypeOK
<1> QED
  BY <1>1, Invariance, PTL

\* A user's states are always one chain, however requests, transfers received
\* unasked and closings interleave: no state is missing, none forks, and each
\* balance follows from the one before.
THEOREM HistoryIsAChain == Spec => []HistoryIsOneChain
<1>1. Inv => HistoryIsOneChain
  <2>1. SUFFICES ASSUME Inv, NEW s \in channelStates
                 PROVE  LET before == Predecessors(s) IN
                        /\ s.epoch > 0 \/ s.version > 1 => Cardinality(before) = 1
                        /\ \A t \in StatesOf(s.userWallet) : GetStateID(t) = GetStateID(s) => t = s
                        /\ s.homeLedger.userBalance =
                             Gain(s.transition)
                               + (IF before = {} THEN 0
                                  ELSE (CHOOSE t \in before : TRUE).homeLedger.userBalance)
    BY DEF HistoryIsOneChain
  <2> DEFINE before == Predecessors(s)
  <2>2. \A t : t \in before <=> t \in channelStates /\ Precedes(t, s)
    BY DEF Predecessors, StatesOf, Precedes
  <2>3. \A t \in channelStates : t.epoch \in Nat /\ t.version \in Nat
    BY <2>1 DEF Inv, Numbered, Storable, IsState
  <2>4. \A t, o \in before : t = o
    <3>1. SUFFICES ASSUME NEW t \in channelStates, NEW o \in channelStates,
                          Precedes(t, s), Precedes(o, s)
                   PROVE  t = o
      BY <2>2
    <3>2. t.userWallet = o.userWallet /\ t.epoch = o.epoch
      BY <2>3, <3>1 DEF Precedes
    <3>3. t.version = o.version
      <4>1. CASE s.version # 0
        BY <2>3, <3>1, <4>1 DEF Precedes
      <4>2. CASE s.version = 0
        <5>1. IsFinal(t) /\ IsFinal(o)
          BY <2>3, <3>1, <4>2 DEF Precedes
        <5>2. o.version <= t.version /\ t.version <= o.version
          BY <2>1, <3>2, <5>1 DEF Inv, Numbered
        <5> QED
          BY <2>3, <5>2
      <4> QED
        BY <4>1, <4>2
    <3> QED
      BY <2>1, <3>2, <3>3 DEF Inv, Numbered
  <2>5. ASSUME s.epoch > 0 \/ s.version > 1
        PROVE  Cardinality(before) = 1
    <3>1. PICK t \in channelStates : Precedes(t, s)
      BY <2>1, <2>5 DEF Inv, Linked
    <3>2. before = {t}
      BY <2>2, <2>4, <3>1
    <3> QED
      BY <3>2, FS_Singleton
  <2>6. \A t \in StatesOf(s.userWallet) : GetStateID(t) = GetStateID(s) => t = s
    BY <2>1 DEF Inv, Numbered, StatesOf, GetStateID
  <2>7. Gain(s.transition) \in Int
    <3>1. s.transition.amount \in Int
      BY <2>1 DEF Inv, Numbered, Storable, IsState
    <3> QED
      BY <3>1 DEF Gain
  <2>8. \A t \in channelStates : t.homeLedger.userBalance \in Int
    BY <2>1 DEF Inv, Numbered, Storable, IsState
  <2>9. CASE before = {}
    <3>1. s.epoch = 0 /\ s.version = 1
      <4>1. ~(s.epoch > 0 \/ s.version > 1)
        BY <2>1, <2>2, <2>9 DEF Inv, Linked
      <4>2. s.epoch > 0 \/ s.version > 0
        BY <2>1 DEF Inv, Numbered
      <4> QED
        BY <2>3, <4>1, <4>2
    <3>2. s.homeLedger.userBalance = Gain(s.transition)
      BY <2>1, <3>1 DEF Inv, Linked
    <3> HIDE DEF before
    <3> QED
      BY <2>5, <2>6, <2>7, <2>9, <3>2 DEF before
  <2>10. CASE before # {}
    <3>1. PICK t : t = CHOOSE o \in before : TRUE
      OBVIOUS
    <3>2. t \in channelStates /\ Precedes(t, s)
      BY <2>2, <2>10, <3>1
    <3>3. s.homeLedger.userBalance = t.homeLedger.userBalance + Gain(s.transition)
      BY <2>1, <3>2 DEF Inv, Linked
    <3> HIDE DEF before
    <3> QED
      BY <2>5, <2>6, <2>7, <2>8, <2>10, <3>1, <3>2, <3>3 DEF before
  <2> QED
    BY <2>9, <2>10
<1> QED
  BY <1>1, Invariance, PTL

-------------------------------------------------------------------------------
(* The ledger *)

\* The amounts a ledger records.
LEMMA AmountsAre ==
  ASSUME Inv
  PROVE  /\ Balances \in [Users -> Nat] /\ Flows \in [Users -> Int]
         /\ \A u \in Users : /\ Balances[u] = userBalances[u].balance
                             /\ Flows[u] = UserFlow(u)
<1>1. ASSUME NEW u \in Users
      PROVE  userBalances[u].balance \in Nat
  <2>1. IsState(GetLatestState(u)) /\ GetLatestState(u).homeLedger.userBalance >= 0
    BY LatestStateIs DEF Inv
  <2> QED
    BY <2>1 DEF Inv, BalancesInv, IsState
<1>2. ASSUME NEW u \in Users
      PROVE  UserFlow(u) \in Int
  <2> DEFINE E == EpochEnds(u)
             f == [s \in E |-> s.homeLedger.userNetFlow]
  <2>1. E \subseteq StatesOf(u) /\ IsFiniteSet(StatesOf(u))
    BY DEF EpochEnds, Inv, Numbered
  <2>2. IsFiniteSet(E)
    BY <2>1, FS_Subset
  <2>3. \A s \in E : f[s] \in Int
    BY <2>1 DEF StatesOf, Inv, Numbered, Storable, IsState
  <2>4. UserFlow(u) = SumOver(f, E)
    BY DEF UserFlow
  <2> HIDE DEF E, f
  <2>5. SumOver(f, E) \in Int
    <3>1. /\ SumOver(f, E) = Total(Pos(f, E), E) - Total(Neg(f, E), E)
          /\ Total(Pos(f, E), E) \in Nat /\ Total(Neg(f, E), E) \in Nat
      BY <2>2, <2>3, SumParts
    <3> QED
      BY <3>1
  <2> QED
    BY <2>4, <2>5
<1> QED
  BY <1>1, <1>2 DEF Balances, Flows


\* One user's balance and flow change by d: a deposit, a withdrawal or nothing.
LEMMA LedgerMoves ==
  ASSUME Inv, Inv', NEW u \in Users, NEW d \in Int,
         Balances'[u] = Balances[u] + d, Flows'[u] = Flows[u] + d,
         \A v \in Users \ {u} : Balances'[v] = Balances[v] /\ Flows'[v] = Flows[v]
  PROVE  [Ledger!Next]_<<Balances, Flows>>
<1>1. Balances \in [Users -> Nat] /\ Flows \in [Users -> Int]
  BY AmountsAre
<1>2. Balances' \in [Users -> Nat] /\ Flows' \in [Users -> Int]
  <2>1. (Balances \in [Users -> Nat] /\ Flows \in [Users -> Int])'
    BY AmountsAre, PTL
  <2> QED
    BY <2>1
<1>3. PICK b : b = Balances'[u]
  OBVIOUS
<1>4. Balances' = [Balances EXCEPT ![u] = b]
  BY <1>1, <1>2, <1>3
<1>5. Flows' = [Flows EXCEPT ![u] = Flows[u] + d]
  BY <1>1, <1>2
<1>6. Balances[u] \in Nat /\ b \in Nat /\ Flows[u] \in Int /\ b = Balances[u] + d
  BY <1>1, <1>2, <1>3
<1>7. CASE d > 0
  <2>1. b > Balances[u] /\ b - Balances[u] = d
    BY <1>6, <1>7
  <2>2. Ledger!Deposit(u, b)
    BY <1>4, <1>5, <2>1 DEF Ledger!Deposit
  <2> QED
    BY <1>3, <2>2 DEF Ledger!Next
<1>8. CASE d < 0
  <2>1. 0 <= b /\ b < Balances[u] /\ Flows[u] - (Balances[u] - b) = Flows[u] + d
    <3>1. PICK x, y : x = Flows[u] /\ y = Balances[u]
      OBVIOUS
    <3>2. x \in Int /\ y \in Int /\ b \in Nat /\ d \in Int /\ b = y + d
      BY <1>6, <3>1
    <3>3. y - b = 0 - d
      BY <3>2
    <3>4. x - (0 - d) = x + d
      BY <3>2
    <3> QED
      BY <1>6, <1>8, <3>1, <3>2, <3>3, <3>4
  <2>2. Ledger!Withdraw(u, b)
    BY <1>4, <1>5, <2>1 DEF Ledger!Withdraw
  <2> QED
    BY <1>3, <2>2 DEF Ledger!Next
<1>9. CASE d = 0
  <2>1. Flows[u] + d = Flows[u] /\ b = Balances[u]
    BY <1>6, <1>9
  <2>2. Balances' = Balances /\ Flows' = Flows
    BY <1>1, <1>4, <1>5, <2>1
  <2> QED
    BY <2>2
<1> QED
  BY <1>7, <1>8, <1>9

\* The amount a goes from u to v.
LEMMA LedgerTransfers ==
  ASSUME Inv, Inv', NEW u \in Users, NEW v \in Users, u # v, NEW a \in Int, a > 0,
         Balances'[u] = Balances[u] - a, Balances'[v] = Balances[v] + a,
         \A w \in Users \ {u, v} : Balances'[w] = Balances[w], Flows' = Flows
  PROVE  [Ledger!Next]_<<Balances, Flows>>
<1>1. Balances \in [Users -> Nat]
  BY AmountsAre
<1>2. Balances' \in [Users -> Nat]
  <2>1. (Balances \in [Users -> Nat])'
    BY AmountsAre, PTL
  <2> QED
    BY <2>1
<1>3. PICK b : b = Balances'[u]
  OBVIOUS
<1>4. Balances[u] \in Nat /\ Balances[v] \in Nat /\ b \in Nat /\ b = Balances[u] - a
  BY <1>1, <1>2, <1>3
<1>5. 0 <= b /\ b < Balances[u] /\ Balances[v] + (Balances[u] - b) = Balances[v] + a
  BY <1>4
<1>6. Balances' = [Balances EXCEPT ![u] = b, ![v] = @ + (Balances[u] - b)]
  <2>1. Balances' = [Balances EXCEPT ![u] = b, ![v] = Balances[v] + a]
    BY <1>1, <1>2, <1>3
  <2> QED
    BY <1>1, <1>5, <2>1
<1>7. Ledger!Transfer(u, v, b)
  BY <1>5, <1>6 DEF Ledger!Transfer
<1> QED
  BY <1>3, <1>7 DEF Ledger!Next

\* What a stored state does to its user's balance.
LEMMA StoredMoves ==
  ASSUME Inv, Inv', NEW new, Successors(new), StoreUserState(new)
  PROVE  /\ \A s \in new :
              /\ s.userWallet \in Users
              /\ Balances'[s.userWallet] = Balances[s.userWallet] + Gain(s.transition)
              /\ Flows'[s.userWallet] = Flows[s.userWallet] + FlowGain(s.transition)
         /\ \A u \in Users : (\A s \in new : s.userWallet # u) =>
              Balances'[u] = Balances[u] /\ Flows'[u] = Flows[u]
<1>0. channelStates' = channelStates \cup new
  BY DEF StoreUserState
<1>1. \A u \in Users : /\ Balances[u] = userBalances[u].balance /\ Flows[u] = UserFlow(u)
                       /\ Balances'[u] = userBalances'[u].balance /\ Flows'[u] = UserFlow(u)'
  BY DEF Balances, Flows
<1>2. ASSUME NEW s \in new
      PROVE  /\ s.userWallet \in Users
             /\ Balances'[s.userWallet] = Balances[s.userWallet] + Gain(s.transition)
             /\ Flows'[s.userWallet] = Flows[s.userWallet] + FlowGain(s.transition)
  <2>1. PICK u : u = s.userWallet
    OBVIOUS
  <2>2. Storable(s) /\ Extends(GetLatestState(u), s)
    BY <2>1 DEF Successors
  <2>3. u \in Users
    BY <2>1, <2>2 DEF Storable, IsState
  <2>4. userBalances'[u].balance = s.homeLedger.userBalance
    BY <2>1, CommitBalances DEF Inv
  <2>5. userBalances[u].balance = GetLatestState(u).homeLedger.userBalance
    BY <2>3 DEF Inv, BalancesInv
  <2>6. s.homeLedger.userBalance = GetLatestState(u).homeLedger.userBalance + Gain(s.transition)
    BY <2>2 DEF Extends
  <2>7. UserFlow(u)' = UserFlow(u) + FlowGain(s.transition)
    BY <1>0, <2>1, FlowStored DEF Inv
  <2> QED
    BY <1>1, <2>1, <2>3, <2>4, <2>5, <2>6, <2>7
<1>3. ASSUME NEW u \in Users, \A s \in new : s.userWallet # u
      PROVE  Balances'[u] = Balances[u] /\ Flows'[u] = Flows[u]
  <2>1. userBalances'[u] = userBalances[u]
    BY <1>3, CommitBalances DEF Inv
  <2>2. StatesOf(u)' = StatesOf(u)
    BY <1>0, <1>3, StoredNumbered DEF Inv
  <2>3. UserFlow(u)' = UserFlow(u)
    BY <2>2 DEF UserFlow, EpochEnds
  <2> QED
    BY <1>1, <2>1, <2>3
<1> QED
  BY <1>2, <1>3

\* What LockAndValidate stores.
LEMMA LockStores ==
  ASSUME Inv, NEW r \in Requests, LockAndValidate(r)
  PROVE  \/ UNCHANGED tables
         \/ \E p : /\ Successors({p}) /\ StoreUserState({p})
                   /\ p.transition.type \in SubmitSupported \ {"transfer_send"}
<1>0. PICK q : q = requests[r]
  OBVIOUS
<1> DEFINE s == q.state
           p == SignedByNode(s)
<1>1. q.pc = "lock" /\ RequestOK(r, q) /\ q # Idle
  BY <1>0 DEF LockAndValidate, Inv, RequestsInv, Idle
<1>2. CASE ~Valid(q)
  BY <1>0, <1>2 DEF LockAndValidate, Rollback
<1>3. CASE Valid(q)
  <2>1. s.userWallet \in Users /\ Storable(s) /\ Extends(GetLatestState(s.userWallet), s)
    BY <1>1, <1>3, ValidIs
  <2>2. /\ Storable(p) /\ Extends(GetLatestState(s.userWallet), p)
        /\ p.userWallet = s.userWallet /\ p.transition = s.transition
    BY <2>1, SignedExtends
  <2>3. s.transition.type \in SubmitSupported
    BY <1>1 DEF RequestOK
  <2>4. CASE s.transition.type = "transfer_send"
    BY <1>0, <1>3, <2>2, <2>4 DEF LockAndValidate
  <2>5. CASE s.transition.type # "transfer_send"
    <3>1. PICK rows : Commit(r, {p}, rows)
      BY <1>0, <1>3, <2>2, <2>5 DEF LockAndValidate
    <3>2. StoreUserState({p})
      BY <3>1 DEF Commit
    <3> HIDE DEF p
    <3>3. Successors({p})
      BY <2>2 DEF Successors
    <3> QED
      BY <2>2, <2>3, <2>5, <3>2, <3>3
  <2> QED
    BY <2>4, <2>5
<1> QED
  BY <1>2, <1>3

\* What IssueTransferReceiverState stores.
LEMMA IssueStores ==
  ASSUME Inv, NEW r \in Requests, IssueTransferReceiverState(r)
  PROVE  \/ UNCHANGED tables
         \/ \E p, new : /\ Successors({p, new}) /\ StoreUserState({p, new})
                        /\ p.userWallet # new.userWallet
                        /\ p.transition.type = "transfer_send"
                        /\ new.transition.type = "transfer_receive"
                        /\ p.transition.amount = new.transition.amount
                        /\ p.transition.amount > 0
<1>0. PICK q : requests[r] = q
  OBVIOUS
<1>1. PICK v : v = q.state.transition.accountId
  OBVIOUS
<1> DEFINE p == SignedByNode(q.state)
           new == TransferReceiverState(p)
<1>2. q.pc = "receiver" /\ RequestOK(r, q) /\ q # Idle
  BY <1>0 DEF IssueTransferReceiverState, Inv, RequestsInv, Idle
<1>3. p.transition.accountId = v /\ p.userWallet = q.state.userWallet
  <2>1. IsState(q.state)
    BY <1>2 DEF RequestOK
  <2>2. p.transition = q.state.transition /\ p.userWallet = q.state.userWallet
    BY <2>1, SignedIs DEF SignedByNode
  <2> QED
    BY <1>1, <2>2
<1>4. CASE Rollback(r)
  BY <1>4 DEF Rollback
<1>5. CASE v # q.state.userWallet /\ \E rows : Commit(r, {p, new}, rows)
  <2>1. /\ Successors({p, new}) /\ p.userWallet = q.state.userWallet /\ new.userWallet = v
        /\ p.transition.type = "transfer_send" /\ new.transition.type = "transfer_receive"
        /\ p.transition.amount = new.transition.amount /\ p.transition.amount > 0
    BY <1>0, <1>1, <1>2, <1>5, TransferIs
  <2>2. StoreUserState({p, new})
    BY <1>5 DEF Commit
  <2> HIDE DEF p, new
  <2> QED
    BY <1>5, <2>1, <2>2
<1>6. Rollback(r) \/ (v # q.state.userWallet /\ \E rows : Commit(r, {p, new}, rows))
  BY <1>0, <1>1, <1>3 DEF IssueTransferReceiverState
<1> QED
  BY <1>4, <1>5, <1>6

\* A step that stores no state and moves no balance.
LEMMA LedgerStutters ==
  ASSUME channelStates' = channelStates,
         \A u \in Users : userBalances'[u].balance = userBalances[u].balance
  PROVE  [Ledger!Next]_<<Balances, Flows>>
<1>1. Balances' = Balances
  BY DEF Balances
<1>2. \A u \in Users : UserFlow(u)' = UserFlow(u)
  BY DEF UserFlow, EpochEnds, StatesOf
<1>3. Flows' = Flows
  BY <1>2 DEF Flows
<1> QED
  BY <1>1, <1>3

\* An event handler moves no balance.
LEMMA EventMovesNothing ==
  ASSUME Inv, CommitEvent
  PROVE  /\ channelStates' = channelStates
         /\ \A u \in Users : userBalances'[u].balance = userBalances[u].balance
<1>1. PICK w, f : userBalances' = [userBalances EXCEPT ![w].enforced = f]
  BY DEF CommitEvent, UpdateChannelAndRefresh
<1>2. ASSUME NEW u \in Users
      PROVE  userBalances'[u].balance = userBalances[u].balance
  <2>1. DOMAIN userBalances = Users /\ DOMAIN userBalances[u] = {"balance", "enforced"}
    BY DEF Inv, BalancesInv
  <2> QED
    BY <1>1, <2>1
<1> QED
  BY <1>2 DEF CommitEvent

\* Every step of the node is one of the ledger, or none.
LEMMA LedgerStep ==
  ASSUME Inv, Inv', [Next]_vars
  PROVE  [Ledger!Next]_<<Balances, Flows>>
<1>1. CASE UNCHANGED tables
  BY <1>1, LedgerStutters DEF tables
<1>2. CASE CommitEvent
  BY <1>2, EventMovesNothing, LedgerStutters
<1>3. ASSUME NEW p, Successors({p}), StoreUserState({p}),
             p.transition.type \in SubmitSupported \ {"transfer_send"}
      PROVE  [Ledger!Next]_<<Balances, Flows>>
  <2> DEFINE u == p.userWallet
             d == Gain(p.transition)
             S == {p}
  <2>1. p.transition.amount \in Int
    BY <1>3 DEF Successors, Storable, IsState
  <2>2. d \in Int /\ FlowGain(p.transition) = d
    BY <1>3, <2>1 DEF Gain, FlowGain, SubmitSupported
  <2>3. /\ u \in Users /\ Balances'[u] = Balances[u] + d /\ Flows'[u] = Flows[u] + d
        /\ \A v \in Users \ {u} : Balances'[v] = Balances[v] /\ Flows'[v] = Flows[v]
    <3>1. /\ u \in Users /\ Balances'[u] = Balances[u] + Gain(p.transition)
          /\ Flows'[u] = Flows[u] + FlowGain(p.transition)
      BY <1>3, StoredMoves
    <3>2. \A v \in Users : (\A s \in S : s.userWallet # v) =>
            Balances'[v] = Balances[v] /\ Flows'[v] = Flows[v]
      BY <1>3, StoredMoves
    <3> QED
      BY <2>2, <3>1, <3>2
  <2> HIDE DEF u, d
  <2> QED
    BY <2>2, <2>3, LedgerMoves
<1>4. ASSUME NEW p, NEW new, Successors({p, new}), StoreUserState({p, new}),
             p.userWallet # new.userWallet, p.transition.type = "transfer_send",
             new.transition.type = "transfer_receive",
             p.transition.amount = new.transition.amount, p.transition.amount > 0
      PROVE  [Ledger!Next]_<<Balances, Flows>>
  <2> DEFINE u == p.userWallet
             v == new.userWallet
             a == p.transition.amount
             S == {p, new}
  <2>1. a \in Int
    BY <1>4 DEF Successors, Storable, IsState
  <2>2. /\ Gain(p.transition) = -a /\ Gain(new.transition) = a
        /\ FlowGain(p.transition) = 0 /\ FlowGain(new.transition) = 0
    BY <1>4 DEF Gain, FlowGain
  <2>3. /\ u \in Users /\ v \in Users
        /\ Balances'[u] = Balances[u] + Gain(p.transition)
        /\ Flows'[u] = Flows[u] + FlowGain(p.transition)
        /\ Balances'[v] = Balances[v] + Gain(new.transition)
        /\ Flows'[v] = Flows[v] + FlowGain(new.transition)
    BY <1>4, StoredMoves
  <2>4. \A w \in Users \ {u, v} : Balances'[w] = Balances[w] /\ Flows'[w] = Flows[w]
    <3>1. \A w \in Users : (\A s \in S : s.userWallet # w) =>
            Balances'[w] = Balances[w] /\ Flows'[w] = Flows[w]
      BY <1>4, StoredMoves
    <3> QED
      BY <3>1
  <2>5. Balances \in [Users -> Nat] /\ Flows \in [Users -> Int]
    BY AmountsAre
  <2>6. DOMAIN Flows' = Users
    BY DEF Flows
  <2> HIDE DEF u, v, a, S
  <2>7. /\ Balances'[u] = Balances[u] - a /\ Balances'[v] = Balances[v] + a
        /\ Flows'[u] = Flows[u] /\ Flows'[v] = Flows[v]
    BY <2>1, <2>2, <2>3, <2>5
  <2>8. Flows' = Flows
    <3>1. \A w \in Users : Flows'[w] = Flows[w]
      BY <2>4, <2>7
    <3>2. Flows' = [w \in Users |-> Flows'[w]] /\ Flows = [w \in Users |-> Flows[w]]
      BY <2>5 DEF Flows
    <3> QED
      BY <3>1, <3>2
  <2>9. u # v /\ a > 0
    BY <1>4 DEF u, v, a
  <2> QED
    BY <2>1, <2>3, <2>4, <2>7, <2>8, <2>9, LedgerTransfers
<1>5. CASE \E r \in Requests : LockAndValidate(r)
  BY <1>1, <1>3, <1>5, LockStores
<1>6. CASE \E r \in Requests : IssueTransferReceiverState(r)
  BY <1>1, <1>4, <1>6, IssueStores
<1>7. \/ UNCHANGED tables \/ CommitEvent
      \/ \E r \in Requests : LockAndValidate(r) \/ IssueTransferReceiverState(r)
  <2>1. CASE UNCHANGED vars
    BY <2>1 DEF vars
  <2>2. CASE ClientStep
    BY <2>2 DEF ClientStep, ClientSubmit, ClientCreate, Send, UserCheckpoint, UserChallenge
  <2>3. CASE \E r \in Requests : ApiStep(r)
    BY <2>3 DEF ApiStep, SubmitStateGate, AbortDeadlocked, Rollback
  <2>4. CASE EventStep
    BY <2>4 DEF EventStep, BeginEvent
  <2>5. CASE WorkerStep
    BY <2>5 DEF WorkerStep, ProcessActionSent, ProcessActionFailed
  <2>6. CASE ChainStep
    BY <2>6 DEF ChainStep, ExpireChallenge, CloseExpired, Mine
  <2> QED
    BY <2>1, <2>2, <2>3, <2>4, <2>5, <2>6 DEF Next
<1> QED
  BY <1>1, <1>2, <1>5, <1>6, <1>7

\* A behaviour starts with what users have deposited.
LEMMA LedgerInit ==
  ASSUME Init
  PROVE  Ledger!Init
<1>1. PICK past \in [Users -> Past] :
        /\ \A u \in Users : StatesOf(u) = PastSet(past[u], u)
        /\ userBalances = [u \in Users |->
              [balance |-> IF past[u] = "funded" THEN 2 * AssetUnit ELSE 0,
               enforced |-> IF past[u] = "funded" THEN 2 * AssetUnit ELSE 0]]
  BY InitIs
<1>2. ASSUME NEW u \in Users
      PROVE  /\ userBalances[u].balance = IF past[u] = "funded" THEN 2 * AssetUnit ELSE 0
             /\ UserFlow(u) = IF past[u] = "funded" THEN 2 * AssetUnit ELSE 0
  <2> DEFINE d == FirstDeposit(u)
             cl == Closing(u)
             E == EpochEnds(u)
             f == [s \in E |-> s.homeLedger.userNetFlow]
  <2>0. userBalances[u].balance = IF past[u] = "funded" THEN 2 * AssetUnit ELSE 0
    BY <1>1
  <2>1. /\ d.epoch = 0 /\ cl.epoch = 0 /\ d.version = 1 /\ cl.version = 2
        /\ d.homeLedger.userNetFlow = 2 * AssetUnit /\ cl.homeLedger.userNetFlow = 0
    BY FirstDepositIs, ClosingIs
  <2>2. UserFlow(u) = SumOver(f, E)
    BY DEF UserFlow
  <2>3. E = {s \in StatesOf(u) : \A t \in StatesOf(u) :
               t.epoch = s.epoch => t.version <= s.version}
    BY DEF EpochEnds
  <2>4. 2 * AssetUnit \in Int
    BY CoreAssumption
  <2>5. \A s \in E : f[s] = s.homeLedger.userNetFlow
    OBVIOUS
  <2> HIDE DEF d, cl, E, f
  <2>6. CASE past[u] = "new"
    <3>1. E = {}
      BY <1>1, <2>3, <2>6 DEF PastSet
    <3>2. IsFiniteSet(E) /\ \A s \in E : f[s] = 0
      BY <3>1, FS_EmptySet
    <3>3. SumOver(f, E) = 0
      BY <3>2, SumZero
    <3> QED
      BY <2>0, <2>2, <2>6, <3>3
  <2>7. CASE past[u] = "funded"
    <3>1. StatesOf(u) = {d}
      BY <1>1, <2>7 DEF PastSet, d
    <3>2. E = {d}
      BY <2>1, <2>3, <3>1
    <3>3. f[d] = 2 * AssetUnit
      BY <2>1, <2>5, <3>2
    <3>4. SumOver(f, {d}) = f[d]
      BY <2>4, <3>3, SumOne
    <3> QED
      BY <2>0, <2>2, <2>7, <3>2, <3>3, <3>4
  <2>8. CASE past[u] = "closed"
    <3>1. StatesOf(u) = {d, cl}
      BY <1>1, <2>8 DEF PastSet, d, cl
    <3>2. E = {cl}
      BY <2>1, <2>3, <3>1
    <3>3. f[cl] = 0
      BY <2>1, <2>5, <3>2
    <3>4. SumOver(f, {cl}) = f[cl]
      BY <3>3, SumOne
    <3> QED
      BY <2>0, <2>2, <2>8, <3>2, <3>3, <3>4
  <2> QED
    BY <1>1, <2>6, <2>7, <2>8 DEF Past
<1>3. Balances \in [Users -> Nat]
  <2>1. 2 * AssetUnit \in Nat
    BY CoreAssumption
  <2> QED
    BY <1>2, <2>1 DEF Balances
<1>4. Flows = Balances
  BY <1>2 DEF Flows, Balances
<1> QED
  BY <1>3, <1>4 DEF Ledger!Init

\* The node implements UserLedger: whatever channels, epochs, locks and chains
\* are behind them, balances move only by whole deposits, withdrawals and
\* transfers, and none is ever overdrawn.
THEOREM ImplementsTheLedger == Spec => ImplementsLedger
<1>1. Init => Ledger!Init
  BY LedgerInit
<1>2. Inv /\ Inv' /\ [Next]_vars => [Ledger!Next]_<<Balances, Flows>>
  BY LedgerStep
<1> QED
  BY <1>1, <1>2, Invariance, PTL DEF Spec, ImplementsLedger, Ledger!Spec

-------------------------------------------------------------------------------
(* The tables follow the chain *)

\* Balances have no fraction of the asset's unit.
WholeInv == \A s \in channelStates : Whole(s.homeLedger.userBalance)

\* The contract's record of a channel: nothing, or a state that is stored.
RecordsInv ==
  \A c \in ChannelIds :
    /\ chain[c].status \in {"VOID", "OPERATING", "DISPUTED", "CLOSED"}
    /\ chain[c].status = "VOID" => chain[c].lastState = Hub!EmptyState
    /\ chain[c].status # "VOID" =>
         \E s \in channelStates : /\ s.homeChannelId = c /\ s.homeLedger.blockchainId = Chain
                                  /\ chain[c].lastState = ContractState(s)

\* The status of a channel when it emits an event.
StatusAfter(type) ==
  CASE type = "Closed" -> "CLOSED" [] type = "Challenged" -> "DISPUTED"
    [] OTHER -> "OPERATING"

EventsIn(ev, c) == {i \in 1..Len(ev) : ev[i].channelId = c}

StateAt(S, c, v) == \E s \in S : s.homeChannelId = c /\ s.version = v

\* What the events of a channel that are still to be handled say of it: the
\* last of them is what its record m is, and without one its row is up to date.
Follows(c, ev, row, m, S) ==
  /\ \A i \in EventsIn(ev, c) :
       /\ row.stateVersion <= ev[i].version /\ ev[i].version <= m.lastState.version
       /\ StateAt(S, c, ev[i].version)
       /\ \A j \in EventsIn(ev, c) : i < j => ev[i].version <= ev[j].version
       /\ (\A j \in EventsIn(ev, c) : j <= i) =>
            ev[i].version = m.lastState.version /\ m.status = StatusAfter(ev[i].type)
       /\ ev[i].type = "Closed" => \A j \in EventsIn(ev, c) : j <= i
  /\ EventsIn(ev, c) = {} =>
       row.status = RowStatus(m.status) /\ row.stateVersion = m.lastState.version
  /\ row.status = "void" /\ m.status \in {"OPERATING", "DISPUTED"} =>
       \E i \in EventsIn(ev, c) : ev[i].type = "Created"
  /\ row.status = "closed" => EventsIn(ev, c) = {}
  /\ row.stateVersion > 0 => StateAt(S, c, row.stateVersion)

FollowsInv ==
  \A c \in ChannelIds :
    channels[c] # Nil => Follows(c, events, channels[c], chain[c], channelStates)

\* b is the balance of the state that the only channel in active is at.
EnforcedIn(rows, active, b) ==
  /\ active = {} => b = 0
  /\ \A d \in ChannelIds : active = {d} =>
       /\ rows[d].stateVersion = 0 => b = 0
       /\ \A s \in channelStates :
            /\ s.homeChannelId = d /\ s.version = rows[d].stateVersion /\ s.version > 0
            => b = s.homeLedger.userBalance

\* The enforced balance of a user who has one channel.
EnforcedOf(u) == EnforcedIn(channels, ActiveHomeChannels(u), userBalances[u].enforced)

EnforcedInv == \A u \in Users : EnforcedOf(u)

Mirror == WholeInv /\ RecordsInv /\ FollowsInv /\ EnforcedInv

\* A channel has one state of each version.
LEMMA OneOfVersion ==
  ASSUME Inv, NEW s \in channelStates, NEW t \in channelStates, s.version = t.version,
         s.homeChannelId = t.homeChannelId, s.homeChannelId # Nil
  PROVE  s = t
<1>1. s.epoch = t.epoch /\ s.userWallet = t.userWallet
  BY DEF Inv, ChannelsInv
<1> QED
  BY <1>1 DEF Inv, Numbered

\* States are only added.
LEMMA FollowsMore ==
  ASSUME NEW c, NEW ev, NEW row, NEW m, NEW S, NEW T, S \subseteq T, Follows(c, ev, row, m, S)
  PROVE  Follows(c, ev, row, m, T)
<1>1. \A v : StateAt(S, c, v) => StateAt(T, c, v)
  BY DEF StateAt
<1> QED
  BY <1>1 DEF Follows

\* Events of another channel.
LEMMA FollowsElsewhere ==
  ASSUME NEW ev \in Seq(EventRecord), NEW ev2, NEW c, NEW types, Len(types) \in Nat, NEW v,
         Appended(ev, ev2, c, types, v),
         NEW d, d # c, NEW row, NEW m, NEW S, Follows(d, ev, row, m, S)
  PROVE  Follows(d, ev2, row, m, S)
<1>1. Len(ev) \in Nat /\ Len(ev2) = Len(ev) + Len(types)
  BY LenProperties DEF Appended
<1>2. ASSUME NEW i \in 1..Len(ev2), i > Len(ev)
      PROVE  ev2[i].channelId = c
  <2>1. i - Len(ev) \in 1..Len(types) /\ i = Len(ev) + (i - Len(ev))
    BY <1>1, <1>2
  <2>2. ev2[Len(ev) + (i - Len(ev))] =
          [type |-> types[i - Len(ev)], channelId |-> c, version |-> v]
    BY <2>1 DEF Appended
  <2> QED
    BY <2>1, <2>2
<1>3. \A i \in 1..Len(ev) : i \in 1..Len(ev2) /\ ev2[i] = ev[i]
  BY <1>1 DEF Appended
<1>4. EventsIn(ev2, d) = EventsIn(ev, d)
  BY <1>1, <1>2, <1>3 DEF EventsIn
<1>5. \A i \in EventsIn(ev, d) : ev2[i] = ev[i]
  BY <1>3 DEF EventsIn
<1> QED
  BY <1>4, <1>5 DEF Follows

\* The channel itself emits events, with a new record.
LEMMA FollowsEmitted ==
  ASSUME NEW ev \in Seq(EventRecord), NEW ev2, NEW c, NEW types, Len(types) \in Nat \ {0},
         NEW v \in Nat, Appended(ev, ev2, c, types, v),
         NEW row \in ChannelRow, NEW m, NEW S, Follows(c, ev, row, m, S),
         m.lastState.version \in Nat, m.status \in {"VOID", "OPERATING", "DISPUTED"},
         NEW m2, m2.lastState.version = v, m2.status = StatusAfter(types[Len(types)]),
         m.lastState.version <= v, StateAt(S, c, v),
         m.status = "VOID" => \E i \in 1..Len(types) : types[i] = "Created",
         \A i \in 1..Len(types) : types[i] = "Closed" => i = Len(types)
  PROVE  Follows(c, ev2, row, m2, S)
<1> DEFINE n == Len(ev)
           E == EventsIn(ev, c)
           E2 == EventsIn(ev2, c)
<1>1. /\ n \in Nat /\ Len(ev2) = n + Len(types) /\ row.stateVersion \in Nat
      /\ Len(types) \in Nat /\ Len(types) > 0 /\ Len(ev2) \in Nat
      /\ \A i \in 1..n : ev[i].version \in Nat
  <2>1. n \in Nat /\ Len(ev2) = n + Len(types)
    BY LenProperties DEF Appended
  <2>2. row.stateVersion \in Nat
    BY DEF ChannelRow
  <2>3. \A i \in 1..n : ev[i] \in EventRecord
    BY ElementOfSeq
  <2> QED
    BY <2>1, <2>2, <2>3 DEF EventRecord
<1>2. ASSUME NEW i \in 1..Len(ev2), i > n
      PROVE  /\ ev2[i].channelId = c /\ ev2[i].version = v
             /\ i - n \in 1..Len(types) /\ ev2[i].type = types[i - n]
  <2>1. i - n \in 1..Len(types) /\ i = n + (i - n)
    BY <1>1, <1>2
  <2>2. ev2[n + (i - n)] = [type |-> types[i - n], channelId |-> c, version |-> v]
    BY <2>1 DEF Appended
  <2> QED
    BY <2>1, <2>2
<1>3. \A i \in 1..n : i \in 1..Len(ev2) /\ ev2[i] = ev[i]
  BY <1>1 DEF Appended
<1>4. /\ \A i \in E : i \in 1..n /\ i \in E2 /\ ev2[i] = ev[i]
      /\ \A i \in E2 : i \in E \/ (i \in 1..Len(ev2) /\ i > n)
      /\ \A i \in 1..Len(ev2) : i > n => i \in E2
  BY <1>1, <1>2, <1>3 DEF EventsIn
<1>5. Len(ev2) \in E2 /\ Len(ev2) > n
  BY <1>1, <1>4
<1> HIDE DEF E, E2
<1>6. row.stateVersion <= v /\ row.status # "closed"
  <2>1. CASE E = {}
    <3>1. row.status = RowStatus(m.status) /\ row.stateVersion = m.lastState.version
      BY <2>1 DEF Follows, E
    <3> QED
      BY <3>1 DEF RowStatus
  <2>2. CASE E # {}
    <3>1. PICK i \in E : TRUE
      BY <2>2
    <3>2. row.stateVersion <= ev[i].version /\ ev[i].version <= m.lastState.version
      BY <3>1 DEF Follows, E
    <3>3. row.status # "closed"
      BY <2>2 DEF Follows, E
    <3> QED
      BY <1>1, <1>4, <3>1, <3>2, <3>3
  <2> QED
    BY <2>1, <2>2
<1>7. \A i \in E : ev[i].type # "Closed"
  <2>1. SUFFICES ASSUME NEW i \in E, ev[i].type = "Closed" PROVE FALSE
    OBVIOUS
  <2>2. m.status = StatusAfter(ev[i].type)
    BY <2>1 DEF Follows, E
  <2> QED
    BY <2>1, <2>2 DEF StatusAfter
<1>8. ASSUME NEW i \in E2
      PROVE  /\ row.stateVersion <= ev2[i].version /\ ev2[i].version <= v
             /\ StateAt(S, c, ev2[i].version)
             /\ \A j \in E2 : i < j => ev2[i].version <= ev2[j].version
             /\ (\A j \in E2 : j <= i) =>
                  ev2[i].version = v /\ m2.status = StatusAfter(ev2[i].type)
             /\ ev2[i].type = "Closed" => \A j \in E2 : j <= i
  <2>1. CASE i \in E
    <3>1. /\ row.stateVersion <= ev[i].version /\ ev[i].version <= m.lastState.version
          /\ StateAt(S, c, ev[i].version)
          /\ \A j \in E : i < j => ev[i].version <= ev[j].version
      BY <2>1 DEF Follows, E
    <3>2. i \in 1..n /\ ev2[i] = ev[i] /\ ev[i].version \in Nat /\ ev[i].version <= v
      BY <1>1, <1>4, <2>1, <3>1
    <3>3. \A j \in E2 : i < j => ev2[i].version <= ev2[j].version
      BY <1>2, <1>4, <3>1, <3>2
    <3>4. ~(\A j \in E2 : j <= i)
      BY <1>1, <1>5, <3>2
    <3> QED
      BY <1>7, <2>1, <3>1, <3>2, <3>3, <3>4
  <2>2. CASE i \in 1..Len(ev2) /\ i > n
    <3>1. ev2[i].version = v /\ i - n \in 1..Len(types) /\ ev2[i].type = types[i - n]
      BY <1>2, <2>2
    <3>2. \A j \in E2 : i < j => ev2[j].version = v
      BY <1>1, <1>2, <1>4, <2>2
    <3>3. (\A j \in E2 : j <= i) => i - n = Len(types)
      <4>1. PICK k, l : k = Len(types) /\ l = Len(ev2)
        OBVIOUS
      <4>2. k \in Nat /\ l = n + k /\ n \in Nat /\ i \in 1..l
        BY <1>1, <2>2, <4>1
      <4>3. (\A j \in E2 : j <= i) => l <= i
        BY <1>5, <4>1
      <4> HIDE DEF n
      <4> QED
        BY <4>1, <4>2, <4>3
    <3>4. \A j \in E2 : j <= Len(ev2)
      BY <1>1, <1>4
    <3>5. ev2[i].type = "Closed" => i = Len(ev2)
      <4>1. ev2[i].type = "Closed" => i - n = Len(types)
        BY <3>1
      <4> QED
        BY <1>1, <2>2, <4>1
    <3> QED
      BY <1>6, <3>1, <3>2, <3>3, <3>4, <3>5
  <2> QED
    BY <1>4, <2>1, <2>2
<1>9. ASSUME row.status = "void"
      PROVE  \E i \in E2 : ev2[i].type = "Created"
  <2>1. CASE m.status = "VOID"
    <3>1. PICK i \in 1..Len(types) : types[i] = "Created"
      BY <2>1
    <3>2. n + i \in 1..Len(ev2) /\ n + i > n
      BY <1>1
    <3>3. ev2[n + i] = [type |-> types[i], channelId |-> c, version |-> v]
      BY DEF Appended
    <3> QED
      BY <1>4, <3>1, <3>2, <3>3
  <2>2. CASE m.status \in {"OPERATING", "DISPUTED"}
    <3>1. PICK i \in E : ev[i].type = "Created"
      BY <1>9, <2>2 DEF Follows, E
    <3> QED
      BY <1>4, <3>1
  <2> QED
    BY <2>1, <2>2
<1>10. row.stateVersion > 0 => StateAt(S, c, row.stateVersion)
  BY DEF Follows
<1> QED
  BY <1>5, <1>6, <1>8, <1>9, <1>10 DEF Follows, E2

\* The first event is of another channel.
LEMMA FollowsTail ==
  ASSUME NEW ev \in Seq(EventRecord), ev # <<>>, NEW c, Head(ev).channelId # c,
         NEW row \in ChannelRow, NEW m, NEW S, Follows(c, ev, row, m, S)
  PROVE  Follows(c, Tail(ev), row, m, S)
<1> DEFINE E == EventsIn(ev, c)
           t == Tail(ev)
           T == EventsIn(t, c)
<1>1. /\ Len(ev) \in Nat /\ Len(t) = Len(ev) - 1 /\ Head(ev) = ev[1]
      /\ \A i \in 1..Len(t) : t[i] = ev[i + 1]
  BY HeadTailProperties, LenProperties
<1>2. \A i \in T : i \in Int /\ i + 1 \in E /\ t[i] = ev[i + 1]
  BY <1>1 DEF EventsIn
<1>3. \A i \in E : i \in Int /\ i - 1 \in T /\ t[i - 1] = ev[i]
  BY <1>1 DEF EventsIn
<1> HIDE DEF E, T, t
<1>4. (\A j \in T : j \in Int) /\ (\A j \in E : j \in Int)
  BY <1>2, <1>3
<1>5. ASSUME NEW i \in T
      PROVE  /\ row.stateVersion <= t[i].version /\ t[i].version <= m.lastState.version
             /\ StateAt(S, c, t[i].version)
             /\ \A j \in T : i < j => t[i].version <= t[j].version
             /\ (\A j \in T : j <= i) =>
                  t[i].version = m.lastState.version /\ m.status = StatusAfter(t[i].type)
             /\ t[i].type = "Closed" => \A j \in T : j <= i
  <2>1. PICK k : k = i + 1
    OBVIOUS
  <2>2. k \in E /\ t[i] = ev[k] /\ k \in Int /\ i \in Int
    BY <1>2, <1>4, <2>1
  <2>3. /\ row.stateVersion <= ev[k].version /\ ev[k].version <= m.lastState.version
        /\ StateAt(S, c, ev[k].version)
        /\ \A j \in E : k < j => ev[k].version <= ev[j].version
        /\ (\A j \in E : j <= k) =>
             ev[k].version = m.lastState.version /\ m.status = StatusAfter(ev[k].type)
        /\ ev[k].type = "Closed" => \A j \in E : j <= k
    BY <2>2 DEF Follows, E
  <2>4. ASSUME NEW j \in T, i < j PROVE t[i].version <= t[j].version
    <3>1. j + 1 \in E /\ t[j] = ev[j + 1] /\ k < j + 1
      BY <1>2, <1>4, <2>1, <2>4
    <3> QED
      BY <2>2, <2>3, <3>1
  <2>5. ASSUME \A j \in T : j <= i PROVE \A j \in E : j <= k
    BY <1>3, <1>4, <2>1, <2>2, <2>5
  <2>6. ASSUME \A j \in E : j <= k PROVE \A j \in T : j <= i
    BY <1>2, <1>4, <2>1, <2>2, <2>6
  <2> QED
    BY <2>2, <2>3, <2>4, <2>5, <2>6
<1>6. E = {} <=> T = {}
  BY <1>2, <1>3
<1>7. (\E i \in E : ev[i].type = "Created") => \E i \in T : t[i].type = "Created"
  BY <1>3
<1> QED
  BY <1>5, <1>6, <1>7 DEF Follows, E, T, t

\* The status of a row after its handler.
HandledStatus(status, type) ==
  CASE type = "Created" -> "open" [] type = "Challenged" -> "challenged"
    [] type = "Closed" -> "closed"
    [] OTHER -> IF status = "challenged" THEN "open" ELSE status

\* The first event is of the channel, and is handled.
LEMMA FollowsHandled ==
  ASSUME NEW ev \in Seq(EventRecord), ev # <<>>, NEW c, Head(ev).channelId = c,
         NEW row \in ChannelRow, NEW m, NEW S, Follows(c, ev, row, m, S),
         NEW row2 \in ChannelRow, row2.stateVersion = Head(ev).version,
         row2.status = HandledStatus(row.status, Head(ev).type)
  PROVE  Follows(c, Tail(ev), row2, m, S)
<1> DEFINE E == EventsIn(ev, c)
           t == Tail(ev)
           T == EventsIn(t, c)
<1>1. /\ Len(ev) \in Nat /\ Len(ev) > 0 /\ Len(t) = Len(ev) - 1 /\ Head(ev) = ev[1]
      /\ Head(ev) \in EventRecord
      /\ \A i \in 1..Len(t) : t[i] = ev[i + 1]
  <2>1. Len(ev) \in Nat /\ Len(ev) # 0
    BY LenProperties, EmptySeq
  <2> QED
    BY <2>1, HeadTailProperties
<1>2. \A i \in T : i \in Int /\ i >= 1 /\ i + 1 \in E /\ t[i] = ev[i + 1]
  BY <1>1 DEF EventsIn
<1>3. \A i \in E : i \in Int /\ i >= 1 /\ (i # 1 => i - 1 \in T /\ t[i - 1] = ev[i])
  BY <1>1 DEF EventsIn
<1>4. 1 \in E
  BY <1>1 DEF EventsIn
<1>5. /\ Head(ev).type \in EventType /\ row.status \in ChannelStatus
      /\ row.stateVersion \in Nat /\ Head(ev).version \in Nat
  BY <1>1 DEF EventRecord, ChannelRow
<1> HIDE DEF E, T, t
<1>6. /\ StateAt(S, c, ev[1].version)
      /\ \A j \in E : 1 < j => ev[1].version <= ev[j].version
      /\ (\A j \in E : j <= 1) =>
           ev[1].version = m.lastState.version /\ m.status = StatusAfter(ev[1].type)
      /\ ev[1].type = "Closed" => \A j \in E : j <= 1
      /\ row.status # "closed"
  BY <1>4 DEF Follows, E
<1>7. ASSUME NEW i \in T
      PROVE  /\ row2.stateVersion <= t[i].version /\ t[i].version <= m.lastState.version
             /\ StateAt(S, c, t[i].version)
             /\ \A j \in T : i < j => t[i].version <= t[j].version
             /\ (\A j \in T : j <= i) =>
                  t[i].version = m.lastState.version /\ m.status = StatusAfter(t[i].type)
             /\ t[i].type = "Closed" => \A j \in T : j <= i
  <2>1. PICK k : k = i + 1
    OBVIOUS
  <2>2. k \in E /\ t[i] = ev[k] /\ k \in Int /\ i \in Int /\ 1 < k
    BY <1>2, <2>1
  <2>3. /\ ev[k].version <= m.lastState.version
        /\ StateAt(S, c, ev[k].version)
        /\ \A j \in E : k < j => ev[k].version <= ev[j].version
        /\ (\A j \in E : j <= k) =>
             ev[k].version = m.lastState.version /\ m.status = StatusAfter(ev[k].type)
        /\ ev[k].type = "Closed" => \A j \in E : j <= k
    BY <2>2 DEF Follows, E
  <2>4. ASSUME NEW j \in T, i < j PROVE t[i].version <= t[j].version
    <3>1. j + 1 \in E /\ t[j] = ev[j + 1] /\ k < j + 1
      BY <1>2, <2>1, <2>2, <2>4
    <3> QED
      BY <2>2, <2>3, <3>1
  <2>5. ASSUME \A j \in T : j <= i PROVE \A j \in E : j <= k
    <3>1. ASSUME NEW j \in E PROVE j <= k
      <4>1. j \in Int /\ (j # 1 => j - 1 \in T)
        BY <1>3
      <4> QED
        BY <2>1, <2>2, <2>5, <4>1
    <3> QED
      BY <3>1
  <2>6. ASSUME \A j \in E : j <= k PROVE \A j \in T : j <= i
    BY <1>2, <2>1, <2>2, <2>6
  <2>7. row2.stateVersion <= ev[k].version
    BY <1>1, <1>6, <2>2
  <2> QED
    BY <2>2, <2>3, <2>4, <2>5, <2>6, <2>7
<1>8. ASSUME row2.status = "void"
      PROVE  row.status = "void" /\ ev[1].type # "Created"
  BY <1>1, <1>8 DEF HandledStatus
<1>9. ASSUME row2.status = "void", m.status \in {"OPERATING", "DISPUTED"}
      PROVE  \E i \in T : t[i].type = "Created"
  <2>1. PICK i \in E : ev[i].type = "Created"
    BY <1>8, <1>9 DEF Follows, E
  <2> QED
    BY <1>3, <1>8, <1>9, <2>1
<1>10. ASSUME T = {}
       PROVE  row2.status = RowStatus(m.status) /\ row2.stateVersion = m.lastState.version
  <2>1. \A j \in E : j = 1
    BY <1>3, <1>10
  <2>2. ev[1].version = m.lastState.version /\ m.status = StatusAfter(ev[1].type)
    BY <1>6, <2>1
  <2>3. CASE ev[1].type \in {"Created", "Challenged", "Closed"}
    BY <1>1, <2>2, <2>3 DEF StatusAfter, HandledStatus, RowStatus
  <2>4. CASE ev[1].type \notin {"Created", "Challenged", "Closed"}
    <3>1. m.status = "OPERATING"
      BY <2>2, <2>4 DEF StatusAfter
    <3>2. row.status # "void"
      BY <2>1, <2>4, <3>1 DEF Follows, E
    <3>3. row.status \in {"open", "challenged"}
      BY <1>5, <1>6, <3>2 DEF ChannelStatus
    <3>4. row2.status = "open"
      BY <1>1, <2>4, <3>3 DEF HandledStatus
    <3> QED
      BY <1>1, <2>2, <3>1, <3>4 DEF RowStatus
  <2> QED
    BY <2>3, <2>4
<1>11. ASSUME row2.status = "closed"
       PROVE  T = {}
  <2>1. ev[1].type = "Closed"
    BY <1>1, <1>6, <1>11 DEF HandledStatus
  <2>2. \A j \in E : j <= 1
    BY <1>6, <2>1
  <2> QED
    BY <1>2, <2>2
<1>12. StateAt(S, c, row2.stateVersion)
  BY <1>1, <1>6
<1> QED
  BY <1>7, <1>9, <1>10, <1>11, <1>12 DEF Follows, T, t

\* A channel that is created.
LEMMA FollowsNew ==
  ASSUME NEW ev, NEW c, EventsIn(ev, c) = {}, NEW u, NEW m, NEW S, m.status = "VOID",
         m.lastState = Hub!EmptyState
  PROVE  Follows(c, ev, NewChannel(u), m, S)
<1>1. m.lastState.version = 0
  BY DEF Hub!EmptyState
<1>2. NewChannel(u).status = "void" /\ NewChannel(u).stateVersion = 0
  BY DEF NewChannel
<1> QED
  BY <1>1, <1>2 DEF Follows, RowStatus

\* Enforced balances depend on the tables alone.
LEMMA EnforcedKept ==
  ASSUME EnforcedInv, UNCHANGED tables
  PROVE  EnforcedInv'
<1>1. channelStates' = channelStates /\ channels' = channels /\ userBalances' = userBalances
  BY DEF tables
<1> QED
  BY <1>1 DEF EnforcedInv, EnforcedOf, EnforcedIn, ActiveHomeChannels, ChannelsOf

\* The record m2 that a step leaves on the chain is of a stored state, its
\* version v is not below that of m, and the events emitted say so.
Emitted(c, types, v, m, m2) ==
  /\ types # <<>> /\ m.status \in {"VOID", "OPERATING", "DISPUTED"}
  /\ m2.lastState.version = v /\ m.lastState.version <= v
  /\ m2.status = StatusAfter(types[Len(types)])
  /\ m.status = "VOID" => \E i \in 1..Len(types) : types[i] = "Created"
  /\ \A i \in 1..Len(types) : types[i] = "Closed" => i = Len(types)
  /\ \E s \in channelStates : /\ s.homeChannelId = c /\ s.homeLedger.blockchainId = Chain
                              /\ m2.lastState = ContractState(s)

\* A step of the chain that emits events of channel c.
LEMMA ChainMirror ==
  ASSUME Inv, Mirror, UNCHANGED tables, NEW c \in ChannelIds, channels[c] # Nil,
         NEW types \in Seq(EventType), NEW v \in Nat, Emit(c, types, v),
         NEW m2, chain' = [chain EXCEPT ![c] = m2], Emitted(c, types, v, chain[c], m2)
  PROVE  Mirror'
<1>1. channelStates' = channelStates /\ channels' = channels
  BY DEF tables
<1>2. /\ DOMAIN chain = ChannelIds /\ chain'[c] = m2
      /\ \A d \in ChannelIds \ {c} : chain'[d] = chain[d]
      /\ ChainRecord(chain[c]) /\ events \in Seq(EventRecord)
  BY DEF Inv, OnchainInv
<1>3. WholeInv'
  BY <1>1 DEF Mirror, WholeInv
<1>4. Len(types) \in Nat \ {0} /\ types[Len(types)] \in EventType
  <2>1. Len(types) \in Nat /\ Len(types) # 0
    BY LenProperties, EmptySeq DEF Emitted
  <2> QED
    BY <2>1, ElementOfSeq
<1>5. RecordsInv'
  <2>1. ASSUME NEW d \in ChannelIds
        PROVE  /\ chain'[d].status \in {"VOID", "OPERATING", "DISPUTED", "CLOSED"}
               /\ chain'[d].status = "VOID" => chain'[d].lastState = Hub!EmptyState
               /\ chain'[d].status # "VOID" =>
                    \E s \in channelStates :
                      /\ s.homeChannelId = d /\ s.homeLedger.blockchainId = Chain
                      /\ chain'[d].lastState = ContractState(s)
    <3>1. CASE d = c
      <4>1. m2.status \in {"OPERATING", "DISPUTED", "CLOSED"}
        BY DEF Emitted, StatusAfter
      <4> QED
        BY <1>2, <3>1, <4>1 DEF Emitted
    <3>2. CASE d # c
      BY <1>2, <3>2 DEF Mirror, RecordsInv
    <3> QED
      BY <3>1, <3>2
  <2> QED
    BY <1>1, <2>1 DEF RecordsInv
<1>6. FollowsInv'
  <2>1. Appended(events, events', c, types, v)
    BY EmitIs
  <2>2. ASSUME NEW d \in ChannelIds, channels[d] # Nil
        PROVE  Follows(d, events', channels[d], chain'[d], channelStates)
    <3>1. Follows(d, events, channels[d], chain[d], channelStates)
      BY <2>2 DEF Mirror, FollowsInv
    <3>2. CASE d # c
      BY <1>2, <1>4, <2>1, <3>1, <3>2, FollowsElsewhere
    <3>3. CASE d = c
      <4>1. channels[c] \in ChannelRow /\ chain[c].lastState.version \in Nat
        BY <1>2 DEF Inv, ChannelsInv, ChainRecord
      <4>2. StateAt(channelStates, c, v)
        <5>1. PICK s \in channelStates : s.homeChannelId = c /\ m2.lastState = ContractState(s)
          BY DEF Emitted
        <5>2. s.version = v
          BY <5>1 DEF Emitted, ContractState
        <5> QED
          BY <5>1, <5>2 DEF StateAt
      <4>3. Follows(c, events', channels[c], m2, channelStates)
        <5>1. PICK row, m, ev, ev2, S : row = channels[c] /\ m = chain[c] /\ ev = events
                /\ ev2 = events' /\ S = channelStates
          OBVIOUS
        <5>2. Emitted(c, types, v, m, m2) /\ Follows(c, ev, row, m, S)
          BY <3>1, <3>3, <5>1
        <5> QED
          BY <1>2, <1>4, <2>1, <4>1, <4>2, <5>1, <5>2, FollowsEmitted DEF Emitted
      <4> QED
        BY <1>2, <3>3, <4>3
    <3> QED
      BY <3>2, <3>3
  <2> QED
    BY <1>1, <2>2 DEF FollowsInv
<1> QED
  BY <1>3, <1>5, <1>6, EnforcedKept DEF Mirror

\* What the contract's checks say of a state that is stored.
LEMMA AcceptedIs ==
  ASSUME Inv, Mirror, NEW s \in channelStates, NEW c \in ChannelIds, Accepts(c, s)
  PROVE  /\ chain[c].status \in {"VOID", "OPERATING", "DISPUTED"}
         /\ chain[c].status = "VOID" => ContractState(s).intent # "CLOSE"
         /\ s.homeLedger.blockchainId = Chain
         /\ chain[c].lastState.version <= s.version
<1> DEFINE m == chain[c]
           cs == ContractState(s)
<1>1. /\ cs.version = s.version /\ cs.intent = TransitionToIntent(s.transition)
      /\ cs.homeLedger.chainId = s.homeLedger.blockchainId
  BY DEF ContractState, coreLedgerToContractLedger
<1>2. s.transition.type \in SubmitSupported \cup {"transfer_receive"} /\ s.version \in Nat
  BY DEF Inv, Numbered, Storable, IsState
<1>3. cs.intent \in {"CLOSE", "DEPOSIT", "WITHDRAW", "OPERATE"}
  BY <1>1, <1>2 DEF TransitionToIntent, SubmitSupported
<1> HIDE DEF cs
<1>4. Hub!validateUniversal(m, cs, 0) /\ Hub!intentAllowed(m, cs)
  BY DEF Accepts, Hub!validateTransition, cs
<1>5. /\ m.status \in {"VOID", "OPERATING", "DISPUTED", "CLOSED"}
      /\ m.status = "VOID" => m.lastState = Hub!EmptyState
      /\ m.status # "VOID" =>
           \E t \in channelStates : /\ t.homeChannelId = c /\ t.homeLedger.blockchainId = Chain
                                    /\ m.lastState = ContractState(t)
  BY DEF Mirror, RecordsInv
<1>6. /\ m.status \in {"VOID"} \cup Hub!LiveStatus
      /\ cs.intent = "CLOSE" => m.status \in Hub!LiveStatus
  BY <1>3, <1>4 DEF Hub!intentAllowed, Hub!depositAllowed, Hub!withdrawAllowed,
                    Hub!operateAllowed, Hub!closeAllowed
<1>7. cs.homeLedger.chainId = Chain
  BY <1>4 DEF Hub!validateUniversal
<1>8. m.lastState.version <= cs.version
  <2>1. cs.version > m.lastState.version \/ Hub!IsEmptyState(m.lastState)
    BY <1>4 DEF Hub!validateUniversal
  <2>2. m.lastState.version \in Nat
    BY DEF Inv, OnchainInv, ChainRecord
  <2>3. CASE m.status = "VOID"
    BY <1>1, <1>2, <1>5, <2>3 DEF Hub!EmptyState
  <2>4. CASE m.status # "VOID"
    <3>1. PICK t \in channelStates : /\ t.homeLedger.blockchainId = Chain
                                     /\ m.lastState = ContractState(t)
      BY <1>5, <2>4
    <3>2. m.lastState.homeLedger.chainId = Chain
      BY <3>1 DEF ContractState, coreLedgerToContractLedger
    <3>3. ~Hub!IsEmptyState(m.lastState)
      BY <3>2, NodeAssumption DEF Hub!IsEmptyState, Hub!IsEmptyLedger
    <3> QED
      BY <1>1, <1>2, <2>1, <2>2, <3>3
  <2> QED
    BY <2>3, <2>4
<1> QED
  BY <1>1, <1>5, <1>6, <1>7, <1>8 DEF cs, Hub!LiveStatus

\* A step that leaves the tables, the chain and its events alone.
LEMMA MirrorKept ==
  ASSUME Mirror, UNCHANGED <<tables, onchain>>
  PROVE  Mirror'
<1>1. /\ channelStates' = channelStates /\ channels' = channels
      /\ chain' = chain /\ events' = events /\ UNCHANGED tables
  BY DEF tables, onchain
<1>2. WholeInv' /\ RecordsInv' /\ FollowsInv'
  BY <1>1 DEF Mirror, WholeInv, RecordsInv, FollowsInv
<1> QED
  BY <1>1, <1>2, EnforcedKept DEF Mirror

\* The record m2 is what a state leaves when it is enforced.
RecordOf(c, s, status, m2) ==
  /\ Enforced(c, s, status) = [chain EXCEPT ![c] = m2]
  /\ m2.status = status /\ m2.lastState = ContractState(s)
  /\ m2.lastState.version = s.version

LEMMA EnforcedRecord ==
  ASSUME NEW c \in ChannelIds, NEW s, NEW status
  PROVE  \E m2 : RecordOf(c, s, status, m2)
<1> DEFINE locked == IF status = "CLOSED" THEN 0
                     ELSE Hub!expectedLocked(chain[c], ContractState(s))
           m2 == [status |-> status, lastState |-> ContractState(s), challengeExpireAt |-> 0,
                  lockedFunds |-> locked]
<1>1. Enforced(c, s, status) = [chain EXCEPT ![c] = m2]
  BY DEF Enforced
<1>2. m2.status = status /\ m2.lastState = ContractState(s)
  OBVIOUS
<1>3. ContractState(s).version = s.version
  BY DEF ContractState
<1> HIDE DEF m2
<1>4. RecordOf(c, s, status, m2)
  BY <1>1, <1>2, <1>3 DEF RecordOf
<1> QED
  BY <1>4

\* A state is enforced by one of the contract's functions.
LEMMA EnforceMirror ==
  ASSUME Inv, Mirror, UNCHANGED tables, NEW s \in channelStates, CoSigned(s),
         \/ CreateOnChain(s.homeChannelId, s) \/ CheckpointOnChain(s.homeChannelId, s)
         \/ CloseOnChain(s.homeChannelId, s)
         \/ /\ ChallengeOnChain(s) /\ s.version > chain[s.homeChannelId].lastState.version
  PROVE  Mirror'
<1>0. PICK c : c = s.homeChannelId
  OBVIOUS
<1>1. c \in ChannelIds /\ channels[c] # Nil /\ s.version \in Nat
  BY <1>0, SignedHasChannel
<1>2. Accepts(c, s)
  BY <1>0 DEF CreateOnChain, CheckpointOnChain, CloseOnChain, ChallengeOnChain
<1>3. /\ chain[c].status \in {"VOID", "OPERATING", "DISPUTED"}
      /\ chain[c].status = "VOID" => ContractState(s).intent # "CLOSE"
      /\ s.homeLedger.blockchainId = Chain
      /\ chain[c].lastState.version <= s.version
  BY <1>1, <1>2, AcceptedIs
<1>4. PICK k : k = EventOf(ContractState(s).intent)
  OBVIOUS
<1>5. k \in {"Deposited", "Withdrawn", "Checkpointed"}
  BY <1>4 DEF EventOf
<1>6. ASSUME NEW types \in Seq(EventType), NEW status, types # <<>>,
             chain' = Enforced(c, s, status), Emit(c, types, s.version),
             status = StatusAfter(types[Len(types)]),
             chain[c].status = "VOID" => \E i \in 1..Len(types) : types[i] = "Created",
             \A i \in 1..Len(types) : types[i] = "Closed" => i = Len(types)
      PROVE  Mirror'
  <2>0. PICK m2 : RecordOf(c, s, status, m2)
    BY <1>1, EnforcedRecord, Zenon
  <2>1. /\ chain' = [chain EXCEPT ![c] = m2]
        /\ m2.status = status /\ m2.lastState = ContractState(s)
        /\ m2.lastState.version = s.version
    BY <1>6, <2>0 DEF RecordOf
  <2>2. Emitted(c, types, s.version, chain[c], m2)
    BY <1>0, <1>3, <1>6, <2>1 DEF Emitted
  <2> QED
    BY <1>1, <1>6, <2>1, <2>2, ChainMirror
<1>7. CASE CreateOnChain(c, s)
  <2> DEFINE types == <<k, "Created">>
  <2>1. /\ types \in Seq(EventType) /\ Len(types) = 2 /\ types # <<>>
        /\ types[1] = k /\ types[2] = "Created"
    BY <1>5 DEF EventType
  <2>2. chain' = Enforced(c, s, "OPERATING") /\ Emit(c, types, s.version)
    BY <1>4, <1>7 DEF CreateOnChain
  <2> HIDE DEF types
  <2>3. "OPERATING" = StatusAfter(types[Len(types)])
    BY <2>1 DEF StatusAfter
  <2>4. /\ \E i \in 1..Len(types) : types[i] = "Created"
        /\ \A i \in 1..Len(types) : types[i] = "Closed" => i = Len(types)
    BY <1>5, <2>1
  <2> QED
    BY <1>6, <2>1, <2>2, <2>3, <2>4
<1>8. ASSUME NEW t \in EventType, NEW status, chain' = Enforced(c, s, status),
             Emit(c, <<t>>, s.version), status = StatusAfter(t), chain[c].status # "VOID"
      PROVE  Mirror'
  <2> DEFINE types == <<t>>
  <2>1. types \in Seq(EventType) /\ Len(types) = 1 /\ types # <<>> /\ types[1] = t
    OBVIOUS
  <2> HIDE DEF types
  <2>2. \A i \in 1..Len(types) : types[i] = "Closed" => i = Len(types)
    BY <2>1
  <2>3. Emit(c, types, s.version)
    BY <1>8 DEF types
  <2> QED
    BY <1>6, <1>8, <2>1, <2>2, <2>3
<1>9. CASE CheckpointOnChain(c, s)
  <2>1. /\ chain' = Enforced(c, s, "OPERATING") /\ Emit(c, <<k>>, s.version)
        /\ chain[c].status # "VOID"
    BY <1>4, <1>9 DEF CheckpointOnChain
  <2> QED
    BY <1>5, <1>8, <2>1 DEF EventType, StatusAfter
<1>10. CASE CloseOnChain(c, s)
  <2>1. /\ chain' = Enforced(c, s, "CLOSED") /\ Emit(c, <<"Closed">>, s.version)
        /\ chain[c].status # "VOID"
    BY <1>3, <1>10 DEF CloseOnChain
  <2> QED
    BY <1>8, <2>1 DEF EventType, StatusAfter
<1>11. CASE ChallengeOnChain(s) /\ s.version > chain[c].lastState.version
  <2>1. /\ chain' = Enforced(c, s, "DISPUTED") /\ Emit(c, <<"Challenged">>, s.version)
        /\ chain[c].status # "VOID"
    BY <1>0, <1>11 DEF ChallengeOnChain
  <2> QED
    BY <1>8, <2>1 DEF EventType, StatusAfter
<1> QED
  BY <1>0, <1>7, <1>9, <1>10, <1>11

\* The status of a channel changes, and not its state.
LEMMA StatusMirror ==
  ASSUME Inv, Mirror, UNCHANGED tables, NEW c \in ChannelIds, channels[c] # Nil,
         chain[c].status \in {"OPERATING", "DISPUTED"}, NEW m2,
         chain' = [chain EXCEPT ![c] = m2], m2.lastState = chain[c].lastState,
         NEW t \in EventType, m2.status = StatusAfter(t),
         Emit(c, <<t>>, chain[c].lastState.version)
  PROVE  Mirror'
<1> DEFINE types == <<t>>
           v == chain[c].lastState.version
<1>1. types \in Seq(EventType) /\ Len(types) = 1 /\ types # <<>> /\ types[1] = t
  OBVIOUS
<1>2. v \in Nat /\ Emit(c, types, v)
  BY DEF Inv, OnchainInv, ChainRecord
<1>3. \E s \in channelStates : /\ s.homeChannelId = c /\ s.homeLedger.blockchainId = Chain
                               /\ m2.lastState = ContractState(s)
  BY DEF Mirror, RecordsInv
<1> HIDE DEF types
<1>4. Emitted(c, types, v, chain[c], m2)
  BY <1>1, <1>2, <1>3 DEF Emitted
<1> HIDE DEF v
<1> QED
  BY <1>1, <1>2, <1>4, ChainMirror

\* The steps of the chain.
LEMMA UserCheckpointMirror ==
  ASSUME Inv, Mirror, NEW u \in Users, UserCheckpoint(u)
  PROVE  Mirror'
<1>1. PICK s : s = GetLastUserState(u, TRUE)
  OBVIOUS
<1>2. /\ s # Nil
      /\ \/ CloseOnChain(s.homeChannelId, s) \/ CreateOnChain(s.homeChannelId, s)
         \/ CheckpointOnChain(s.homeChannelId, s)
      /\ UNCHANGED tables
  BY <1>1 DEF UserCheckpoint
<1>3. s \in channelStates /\ CoSigned(s)
  BY <1>1, <1>2, LastSignedIs
<1> QED
  BY <1>2, <1>3, EnforceMirror

LEMMA UserChallengeMirror ==
  ASSUME Inv, Mirror, NEW s \in channelStates, UserChallenge(s)
  PROVE  Mirror'
<1>0. PICK c : c = s.homeChannelId
  OBVIOUS
<1>1. CoSigned(s) /\ ChallengeOnChain(s) /\ UNCHANGED tables
  BY DEF UserChallenge
<1>2. c \in ChannelIds /\ channels[c] # Nil /\ s.version \in Nat
  BY <1>0, <1>1, SignedHasChannel
<1>3. CASE s.version > chain[c].lastState.version
  BY <1>0, <1>1, <1>3, EnforceMirror
<1>4. CASE ~(s.version > chain[c].lastState.version)
  <2>1. /\ chain[c].status = "OPERATING" /\ chain' = [chain EXCEPT ![c].status = "DISPUTED"]
        /\ s.version >= chain[c].lastState.version
        /\ Emit(c, <<"Challenged">>, s.version)
    BY <1>0, <1>1, <1>4 DEF ChallengeOnChain
  <2>2. ChainRecord(chain[c]) /\ DOMAIN chain = ChannelIds
    BY <1>2 DEF Inv, OnchainInv
  <2>3. s.version = chain[c].lastState.version
    BY <1>2, <1>4, <2>1, <2>2 DEF ChainRecord
  <2>4. PICK m2 : m2 = [chain[c] EXCEPT !.status = "DISPUTED"]
    OBVIOUS
  <2>5. /\ chain' = [chain EXCEPT ![c] = m2] /\ m2.lastState = chain[c].lastState
        /\ m2.status = StatusAfter("Challenged") /\ "Challenged" \in EventType
    BY <2>1, <2>2, <2>4 DEF ChainRecord, StatusAfter, EventType
  <2> QED
    BY <1>1, <1>2, <2>1, <2>3, <2>5, StatusMirror
<1> QED
  BY <1>3, <1>4

LEMMA ExpireMirror ==
  ASSUME Inv, Mirror, NEW c \in ChannelIds, ExpireChallenge(c)
  PROVE  Mirror'
<1>1. /\ chain' = [chain EXCEPT ![c].challengeExpireAt = -1]
      /\ events' = events /\ UNCHANGED tables
  BY DEF ExpireChallenge
<1>2. channelStates' = channelStates /\ channels' = channels
  BY <1>1 DEF tables
<1>3. DOMAIN chain = ChannelIds /\ ChainRecord(chain[c])
  BY DEF Inv, OnchainInv
<1>4. ASSUME NEW d \in ChannelIds
      PROVE  chain'[d].status = chain[d].status /\ chain'[d].lastState = chain[d].lastState
  BY <1>1, <1>3 DEF ChainRecord
<1>5. WholeInv'
  BY <1>2 DEF Mirror, WholeInv
<1>6. RecordsInv'
  BY <1>2, <1>4 DEF Mirror, RecordsInv
<1>7. FollowsInv'
  <2>1. ASSUME NEW d \in ChannelIds, channels[d] # Nil
        PROVE  Follows(d, events, channels[d], chain'[d], channelStates)
    <3>1. Follows(d, events, channels[d], chain[d], channelStates)
      BY <2>1 DEF Mirror, FollowsInv
    <3> QED
      BY <1>4, <3>1 DEF Follows
  <2> QED
    BY <1>1, <1>2, <2>1 DEF FollowsInv
<1> QED
  BY <1>1, <1>5, <1>6, <1>7, EnforcedKept DEF Mirror

LEMMA CloseExpiredMirror ==
  ASSUME Inv, Mirror, NEW c \in ChannelIds, CloseExpired(c)
  PROVE  Mirror'
<1>1. DOMAIN chain = ChannelIds /\ ChainRecord(chain[c])
  BY DEF Inv, OnchainInv
<1>2. PICK m2 : m2 = [chain[c] EXCEPT !.status = "CLOSED", !.lockedFunds = 0,
                                     !.challengeExpireAt = 0]
  OBVIOUS
<1>3. /\ chain' = [chain EXCEPT ![c] = m2] /\ UNCHANGED tables
      /\ Emit(c, <<"Closed">>, chain[c].lastState.version)
      /\ chain[c].status = "DISPUTED"
  BY <1>1, <1>2 DEF CloseExpired
<1>4. channels[c] # Nil
  BY <1>3 DEF Inv, OnchainInv
<1>5. m2.lastState = chain[c].lastState /\ m2.status = "CLOSED"
  BY <1>1, <1>2 DEF ChainRecord
<1>6. "Closed" \in EventType /\ StatusAfter("Closed") = "CLOSED"
  BY DEF EventType, StatusAfter
<1> QED
  BY <1>3, <1>4, <1>5, <1>6, StatusMirror

LEMMA MineMirror ==
  ASSUME Inv, Mirror, NEW id \in mempool, Mine(id)
  PROVE  Mirror'
<1>1. PICK s : s = GetStateByID(id)
  OBVIOUS
<1>2. Known(id)
  BY DEF Inv, WorkerInv
<1>3. s \in channelStates /\ CoSigned(s)
  BY <1>1, <1>2, KnownIs
<1>4. CASE CheckpointOnChain(s.homeChannelId, s)
  BY <1>3, <1>4, EnforceMirror DEF Mine
<1>5. CASE UNCHANGED onchain
  BY <1>5, MirrorKept DEF Mine
<1> QED
  BY <1>1, <1>4, <1>5 DEF Mine

\* The row a handler writes, in detail.
LEMMA HandledRowIs ==
  ASSUME NEW e \in EventRecord, channels[e.channelId] \in ChannelRow
  PROVE  /\ HandledRow(e).stateVersion = e.version
         /\ HandledRow(e).status = HandledStatus(channels[e.channelId].status, e.type)
<1> DEFINE row == channels[e.channelId]
           h == HandledRow(e)
<1>1. DOMAIN row = {"userWallet", "status", "stateVersion"} /\ e.type \in EventType
  BY DEF ChannelRow, EventRecord
<1>2. CASE e.type = "Created"
  <2>1. h = [row EXCEPT !.stateVersion = e.version, !.status = "open"]
    BY <1>2 DEF HandledRow, HandleHomeChannelCreated
  <2> QED
    BY <1>1, <1>2, <2>1 DEF HandledStatus
<1>3. CASE e.type \in {"Deposited", "Withdrawn", "Checkpointed"}
  <2>1. h = [row EXCEPT !.stateVersion = e.version,
                        !.status = IF row.status = "challenged" THEN "open" ELSE row.status]
    BY <1>1, <1>3 DEF HandledRow, HandleHomeChannelCheckpointed
  <2>2. HandledStatus(row.status, e.type) =
          IF row.status = "challenged" THEN "open" ELSE row.status
    BY <1>3 DEF HandledStatus
  <2>3. PICK x : x = IF row.status = "challenged" THEN "open" ELSE row.status
    OBVIOUS
  <2>4. h = [row EXCEPT !.stateVersion = e.version, !.status = x]
    BY <2>1, <2>3
  <2> QED
    BY <1>1, <2>2, <2>3, <2>4
<1>4. CASE e.type = "Challenged"
  <2>1. h = [row EXCEPT !.stateVersion = e.version, !.status = "challenged"]
    BY <1>4 DEF HandledRow, HandleHomeChannelChallenged
  <2> QED
    BY <1>1, <1>4, <2>1 DEF HandledStatus
<1>5. CASE e.type = "Closed"
  <2>1. h = [row EXCEPT !.stateVersion = e.version, !.status = "closed"]
    BY <1>5 DEF HandledRow, HandleHomeChannelClosed
  <2> QED
    BY <1>1, <1>5, <2>1 DEF HandledStatus
<1> QED
  BY <1>1, <1>2, <1>3, <1>4, <1>5 DEF EventType

\* No event that is pending is outdated, so none is ignored.
LEMMA NoneIgnored ==
  ASSUME Inv, Mirror, events # <<>>
  PROVE  ~Ignored(Head(events))
<1>1. PICK c, e : e = Head(events) /\ c = e.channelId
  OBVIOUS
<1>2. /\ events \in Seq(EventRecord) /\ channels[c] # Nil /\ e = events[1]
      /\ e \in EventRecord /\ Len(events) \in Nat /\ Len(events) # 0
  <2>1. events \in Seq(EventRecord) /\ \A i \in 1..Len(events) : channels[events[i].channelId] # Nil
    BY DEF Inv, OnchainInv
  <2>2. Len(events) \in Nat /\ Len(events) # 0 /\ e = events[1] /\ e \in EventRecord
    BY <1>1, <2>1, LenProperties, EmptySeq, HeadTailProperties
  <2> QED
    BY <1>1, <2>1, <2>2
<1>3. c \in ChannelIds /\ e.version \in Nat
  BY <1>1, <1>2 DEF EventRecord
<1>4. 1 \in EventsIn(events, c)
  BY <1>1, <1>2 DEF EventsIn
<1>5. channels[c].stateVersion <= e.version
  BY <1>2, <1>3, <1>4 DEF Mirror, FollowsInv, Follows
<1>6. channels[c].stateVersion \in Nat
  BY <1>2, <1>3 DEF Inv, ChannelsInv, ChannelRow
<1> QED
  BY <1>1, <1>3, <1>5, <1>6 DEF Ignored

LEMMA BeginEventMirror ==
  ASSUME Inv, Mirror, BeginEvent
  PROVE  Mirror'
<1>1. ~Ignored(Head(events))
  BY NoneIgnored DEF BeginEvent
<1>2. UNCHANGED <<tables, onchain>>
  BY <1>1 DEF BeginEvent, onchain
<1> QED
  BY <1>2, MirrorKept

\* The tables after a handler.
Rows(e) == [channels EXCEPT ![e.channelId] = HandledRow(e)]

LEMMA HandledTables ==
  ASSUME Inv, CommitEvent
  PROVE  LET e == Head(events)
             c == e.channelId
         IN  /\ events # <<>> /\ events \in Seq(EventRecord) /\ e \in EventRecord
             /\ c \in ChannelIds /\ channels[c] # Nil /\ channels[c] \in ChannelRow
             /\ HandledRow(e) \in ChannelRow /\ HandledRow(e).userWallet = c[1]
             /\ channels[c].userWallet = c[1] /\ c[1] \in Users
             /\ channels' = Rows(e)
             /\ userBalances' = [userBalances EXCEPT ![c[1]].enforced =
                                   EnforcedBalance(Rows(e), c)]
             /\ events' = Tail(events) /\ channelStates' = channelStates /\ chain' = chain
<1>0. PICK e : e = Head(events)
  OBVIOUS
<1>1. PICK c : c = e.channelId
  OBVIOUS
<1>2. handling # Nil /\ handling.event = e /\ events # <<>>
  BY <1>0 DEF CommitEvent, Inv, OnchainInv
<1>3. /\ UpdateChannelAndRefresh(c, HandledRow(e)) /\ events' = Tail(events)
      /\ channelStates' = channelStates /\ chain' = chain
  BY <1>1, <1>2 DEF CommitEvent
<1>4. events \in Seq(EventRecord) /\ \A i \in 1..Len(events) : channels[events[i].channelId] # Nil
  BY DEF Inv, OnchainInv
<1>5. Len(events) \in Nat /\ Len(events) # 0 /\ e = events[1] /\ e \in EventRecord
  BY <1>0, <1>2, <1>4, LenProperties, EmptySeq, HeadTailProperties
<1>6. c \in ChannelIds /\ channels[c] # Nil
  BY <1>1, <1>4, <1>5 DEF EventRecord
<1>7. channels[c] \in ChannelRow /\ channels[c].userWallet = c[1]
  BY <1>6 DEF Inv, ChannelsInv
<1>8. HandledRow(e) \in ChannelRow /\ HandledRow(e).userWallet = c[1]
  BY <1>1, <1>5, <1>7, HandledIs
<1>9. c[1] \in Users
  BY <1>7 DEF ChannelRow
<1>10. /\ channels' = Rows(e)
       /\ userBalances' = [userBalances EXCEPT ![c[1]].enforced = EnforcedBalance(Rows(e), c)]
  BY <1>1, <1>3, <1>8 DEF UpdateChannelAndRefresh, Rows
<1> QED
  BY <1>0, <1>1, <1>2, <1>3, <1>4, <1>5, <1>6, <1>7, <1>8, <1>9, <1>10

\* The rows still follow the chain.
LEMMA HandledFollows ==
  ASSUME Inv, Mirror, CommitEvent
  PROVE  FollowsInv'
<1>0. PICK e : e = Head(events)
  OBVIOUS
<1>1. PICK c : c = e.channelId
  OBVIOUS
<1>2. /\ events # <<>> /\ events \in Seq(EventRecord) /\ e \in EventRecord
      /\ c \in ChannelIds /\ channels[c] # Nil /\ channels[c] \in ChannelRow
      /\ HandledRow(e) \in ChannelRow /\ channels' = Rows(e)
      /\ events' = Tail(events) /\ channelStates' = channelStates /\ chain' = chain
  BY <1>0, <1>1, HandledTables
<1>3. /\ channels'[c] = HandledRow(e)
      /\ \A d \in ChannelIds \ {c} : channels'[d] = channels[d]
  BY <1>1, <1>2 DEF Rows, Inv, ChannelsInv
<1>4. ASSUME NEW d \in ChannelIds, channels'[d] # Nil
      PROVE  Follows(d, events', channels'[d], chain[d], channelStates)
  <2>1. channels[d] # Nil
    BY <1>2, <1>3, <1>4
  <2>2. /\ Follows(d, events, channels[d], chain[d], channelStates)
        /\ channels[d] \in ChannelRow
    BY <2>1 DEF Mirror, FollowsInv, Inv, ChannelsInv
  <2>3. CASE d = c
    <3>1. /\ HandledRow(e).stateVersion = e.version
          /\ HandledRow(e).status = HandledStatus(channels[c].status, e.type)
      BY <1>1, <1>2, HandledRowIs
    <3>2. PICK row, row2, m, ev, S : row = channels[c] /\ row2 = HandledRow(e) /\ m = chain[c]
            /\ ev = events /\ S = channelStates
      OBVIOUS
    <3>3. Follows(c, Tail(ev), row2, m, S)
      BY <1>0, <1>1, <1>2, <2>2, <2>3, <3>1, <3>2, FollowsHandled
    <3> QED
      BY <1>2, <1>3, <2>3, <3>2, <3>3
  <2>4. CASE d # c
    <3>1. PICK row, m, ev, S : row = channels[d] /\ m = chain[d] /\ ev = events
            /\ S = channelStates
      OBVIOUS
    <3>2. Follows(d, Tail(ev), row, m, S)
      BY <1>0, <1>1, <1>2, <2>2, <2>4, <3>1, FollowsTail
    <3> QED
      BY <1>2, <1>3, <2>4, <3>1, <3>2
  <2> QED
    BY <2>3, <2>4
<1> QED
  BY <1>2, <1>4 DEF FollowsInv

\* The balance a handler refreshes.
LEMMA RefreshedIs ==
  ASSUME Inv, NEW rows, NEW c, NEW u, rows[c].userWallet = u, Nil \notin ChannelIds,
         NEW active, active = {d \in ChannelIds : /\ rows[d] # Nil /\ rows[d].userWallet = u
                                                  /\ rows[d].status \in {"void", "open"}}
  PROVE  EnforcedIn(rows, active, EnforcedBalance(rows, c))
<1> DEFINE Joined(d) == {s \in channelStates : /\ s.homeChannelId = d
                                               /\ s.version = rows[d].stateVersion}
           qualify == {d \in ChannelIds : /\ rows[d] # Nil /\ rows[d].userWallet = u
                                          /\ rows[d].status \in {"void", "open"}
                                          /\ rows[d].stateVersion > 0
                                          /\ Joined(d) # {}}
           first == IF c \in qualify THEN c ELSE CHOOSE d \in qualify : TRUE
<1>1. EnforcedBalance(rows, c) =
        IF qualify = {} THEN 0 ELSE (CHOOSE s \in Joined(first) : TRUE).homeLedger.userBalance
  BY DEF EnforcedBalance
<1>2. \A d \in qualify : d \in active /\ rows[d].stateVersion > 0
  OBVIOUS
<1>3. ASSUME NEW d \in ChannelIds, active = {d}, NEW s \in channelStates,
             s.homeChannelId = d, s.version = rows[d].stateVersion, s.version > 0
      PROVE  EnforcedBalance(rows, c) = s.homeLedger.userBalance
  <2>1. s \in Joined(d) /\ \A t \in Joined(d) : t = s
    BY <1>3, OneOfVersion
  <2>2. d \in qualify
    BY <1>3, <2>1
  <2> HIDE DEF qualify, Joined
  <2>3. qualify = {d}
    BY <1>2, <1>3, <2>2
  <2>4. first = d
    BY <2>3
  <2> HIDE DEF first
  <2>5. (CHOOSE x \in Joined(first) : TRUE) = s
    BY <2>1, <2>4
  <2> QED
    BY <1>1, <2>3, <2>5
<1>4. ASSUME \A d \in active : rows[d].stateVersion = 0
      PROVE  EnforcedBalance(rows, c) = 0
  <2>1. qualify = {}
    BY <1>2, <1>4
  <2> HIDE DEF qualify
  <2> QED
    BY <1>1, <2>1
<1> HIDE DEF qualify, Joined, first
<1> QED
  BY <1>3, <1>4 DEF EnforcedIn

LEMMA HandledEnforced ==
  ASSUME Inv, Mirror, CommitEvent
  PROVE  EnforcedInv'
<1>0. PICK e : e = Head(events)
  OBVIOUS
<1>1. PICK c : c = e.channelId
  OBVIOUS
<1>2. PICK rows, b : rows = Rows(e) /\ b = EnforcedBalance(rows, c)
  OBVIOUS
<1>3. /\ c \in ChannelIds /\ channels[c] # Nil
      /\ HandledRow(e) \in ChannelRow /\ HandledRow(e).userWallet = c[1]
      /\ channels[c].userWallet = c[1] /\ c[1] \in Users
      /\ channels' = rows /\ channelStates' = channelStates
      /\ userBalances' = [userBalances EXCEPT ![c[1]].enforced = b]
  BY <1>0, <1>1, <1>2, HandledTables
<1>4. /\ rows[c] = HandledRow(e) /\ DOMAIN rows = ChannelIds
      /\ \A d \in ChannelIds \ {c} : rows[d] = channels[d]
  BY <1>1, <1>2, <1>3 DEF Rows, Inv, ChannelsInv
<1>5. ASSUME NEW u \in Users
      PROVE  EnforcedOf(u)'
  <2>1. PICK A : A = {d \in ChannelIds : /\ rows[d] # Nil /\ rows[d].userWallet = u
                                         /\ rows[d].status \in {"void", "open"}}
    OBVIOUS
  <2>2. ActiveHomeChannels(u)' = A
    BY <1>3, <2>1 DEF ActiveHomeChannels, ChannelsOf
  <2>3. DOMAIN userBalances = Users /\ DOMAIN userBalances[u] = {"balance", "enforced"}
    BY DEF Inv, BalancesInv
  <2>4. CASE u = c[1]
    <3>1. userBalances'[u].enforced = b
      BY <1>3, <2>3, <2>4
    <3>2. rows[c].userWallet = u /\ Nil \notin ChannelIds
      BY <1>3, <1>4, <2>4, NodeAssumption
    <3>3. EnforcedIn(rows, A, b)
      BY <1>2, <2>1, <3>2, RefreshedIs
    <3> QED
      BY <1>3, <2>2, <3>1, <3>3 DEF EnforcedOf, EnforcedIn
  <2>5. CASE u # c[1]
    <3>1. userBalances'[u] = userBalances[u]
      BY <1>3, <2>3, <2>5
    <3>2. c \notin A /\ c \notin ActiveHomeChannels(u)
      BY <1>3, <1>4, <2>1, <2>5 DEF ActiveHomeChannels, ChannelsOf
    <3>3. A = ActiveHomeChannels(u)
      BY <1>4, <2>1, <3>2 DEF ActiveHomeChannels, ChannelsOf
    <3>4. EnforcedOf(u)
      BY DEF Mirror, EnforcedInv
    <3>5. \A d \in A : channels'[d] = channels[d]
      BY <1>3, <1>4, <2>1, <3>2
    <3> QED
      BY <1>3, <2>2, <3>1, <3>3, <3>4, <3>5 DEF EnforcedOf, EnforcedIn
  <2> QED
    BY <2>4, <2>5
<1> QED
  BY <1>5 DEF EnforcedInv

LEMMA CommitEventMirror ==
  ASSUME Inv, Mirror, CommitEvent
  PROVE  Mirror'
<1>1. channelStates' = channelStates /\ chain' = chain
  BY DEF CommitEvent
<1>2. WholeInv' /\ RecordsInv'
  BY <1>1 DEF Mirror, WholeInv, RecordsInv
<1> QED
  BY <1>2, HandledFollows, HandledEnforced DEF Mirror

\* What a state adds to a whole balance.
LEMMA WholeSum ==
  ASSUME NEW a \in Int, NEW t, t.amount \in Int, Whole(a), Whole(t.amount)
  PROVE  Whole(a + Gain(t))
<1>1. PICK k \in Int : a = k * AssetUnit
  BY DEF Whole
<1>2. PICK l \in Int : t.amount = l * AssetUnit
  BY DEF Whole
<1>3. PICK u, x : u = AssetUnit /\ x = t.amount
  OBVIOUS
<1>4. u \in Int /\ a = k * u /\ x = l * u /\ x \in Int
  BY <1>1, <1>2, <1>3, CoreAssumption
<1>5. a + x = (k + l) * u /\ a + (-x) = (k - l) * u /\ a + 0 = k * u
  BY <1>4
<1>6. Gain(t) \in {x, -x, 0}
  BY <1>3 DEF Gain
<1>7. \A y \in {x, -x, 0} : \E n \in Int : a + y = n * u
  BY <1>5
<1> QED
  BY <1>3, <1>6, <1>7 DEF Whole

\* A channel gets its row.
Opens(c, u) ==
  /\ c \in ChannelIds /\ channels[c] = Nil
  /\ channels' = [channels EXCEPT ![c] = NewChannel(u)]

RowsKept == channels' = channels \/ \E c, u : Opens(c, u)

\* A request gives a row only to a channel that has none.
LEMMA LockRows ==
  ASSUME Inv, NEW r \in Requests, LockAndValidate(r)
  PROVE  RowsKept
<1>0. PICK q : q = requests[r]
  OBVIOUS
<1> DEFINE s == q.state
           p == SignedByNode(s)
<1>1. q.pc = "lock" /\ RequestOK(r, q) /\ q # Idle
  BY <1>0 DEF LockAndValidate, Inv, RequestsInv, Idle
<1>2. CASE UNCHANGED tables
  BY <1>2 DEF RowsKept, tables
<1>3. CASE Valid(q) /\ \E rows : Commit(r, {p}, rows)
  <2>1. s.homeChannelId \in ChannelIds /\ (q.kind = "create" => channels[s.homeChannelId] = Nil)
    BY <1>1, <1>3, ValidIs
  <2>2. channels' = IF q.kind = "create"
                    THEN [channels EXCEPT ![s.homeChannelId] = NewChannel(s.userWallet)]
                    ELSE channels
    BY <1>0, <1>3 DEF Commit
  <2> QED
    BY <2>1, <2>2 DEF RowsKept, Opens
<1>4. UNCHANGED tables \/ (Valid(q) /\ \E rows : Commit(r, {p}, rows))
  <2>1. CASE ~Valid(q)
    BY <1>0, <2>1 DEF LockAndValidate, Rollback
  <2>2. CASE Valid(q) /\ p.transition.type = "transfer_send"
    BY <1>0, <2>2 DEF LockAndValidate
  <2>3. CASE Valid(q) /\ p.transition.type # "transfer_send"
    <3>1. PICK rows : Commit(r, {p}, rows)
      BY <1>0, <2>3 DEF LockAndValidate
    <3> QED
      BY <2>3, <3>1
  <2> QED
    BY <2>1, <2>2, <2>3
<1> QED
  BY <1>2, <1>3, <1>4

LEMMA IssueRows ==
  ASSUME Inv, NEW r \in Requests, IssueTransferReceiverState(r)
  PROVE  RowsKept
<1>0. PICK q : q = requests[r]
  OBVIOUS
<1> DEFINE s == q.state
<1>1. q.pc = "receiver" /\ RequestOK(r, q) /\ q # Idle
  BY <1>0 DEF IssueTransferReceiverState, Inv, RequestsInv, Idle
<1>2. s.homeChannelId \in ChannelIds /\ (q.kind = "create" => channels[s.homeChannelId] = Nil)
  BY <1>1 DEF RequestOK
<1>3. CASE Rollback(r)
  BY <1>3 DEF RowsKept, Rollback, tables
<1>4. CASE \E new, rows : Commit(r, new, rows)
  <2>1. channels' = IF q.kind = "create"
                    THEN [channels EXCEPT ![s.homeChannelId] = NewChannel(s.userWallet)]
                    ELSE channels
    BY <1>0, <1>4 DEF Commit
  <2> QED
    BY <1>2, <2>1 DEF RowsKept, Opens
<1> QED
  BY <1>3, <1>4 DEF IssueTransferReceiverState

\* The rows after a step that stores states.
LEMMA StoreFollows ==
  ASSUME Inv, Mirror, channelStates \subseteq channelStates', UNCHANGED onchain, RowsKept
  PROVE  FollowsInv'
<1>1. chain' = chain /\ events' = events
  BY DEF onchain
<1>2. ASSUME NEW d \in ChannelIds, channels[d] # Nil
      PROVE  Follows(d, events, channels[d], chain[d], channelStates')
  <2>1. Follows(d, events, channels[d], chain[d], channelStates)
    BY <1>2 DEF Mirror, FollowsInv
  <2>2. PICK ev, row, m, S, T : ev = events /\ row = channels[d] /\ m = chain[d]
          /\ S = channelStates /\ T = channelStates'
    OBVIOUS
  <2>3. Follows(d, ev, row, m, T)
    BY <2>1, <2>2, FollowsMore
  <2> QED
    BY <2>2, <2>3
<1>3. CASE channels' = channels
  BY <1>1, <1>2, <1>3 DEF FollowsInv
<1>4. ASSUME NEW c, NEW u, Opens(c, u)
      PROVE  FollowsInv'
  <2>1. /\ c \in ChannelIds /\ channels[c] = Nil /\ channels'[c] = NewChannel(u)
        /\ \A d \in ChannelIds \ {c} : channels'[d] = channels[d]
    BY <1>4 DEF Opens, Inv, ChannelsInv
  <2>2. EventsIn(events, c) = {}
    BY <2>1 DEF EventsIn, Inv, OnchainInv
  <2>3. chain[c].status = "VOID" /\ chain[c].lastState = Hub!EmptyState
    BY <2>1 DEF Inv, OnchainInv, Mirror, RecordsInv
  <2>4. Follows(c, events, NewChannel(u), chain[c], channelStates')
    <3>1. PICK ev, m, T : ev = events /\ m = chain[c] /\ T = channelStates'
      OBVIOUS
    <3>2. Follows(c, ev, NewChannel(u), m, T)
      BY <2>2, <2>3, <3>1, FollowsNew
    <3> QED
      BY <3>1, <3>2
  <2>5. ASSUME NEW d \in ChannelIds, channels'[d] # Nil
        PROVE  Follows(d, events, channels'[d], chain[d], channelStates')
    <3>1. CASE d = c
      BY <2>1, <2>4, <3>1
    <3>2. CASE d # c
      BY <1>2, <2>1, <2>5, <3>2
    <3> QED
      BY <3>1, <3>2
  <2> QED
    BY <1>1, <2>5 DEF FollowsInv
<1> QED
  BY <1>3, <1>4 DEF RowsKept

\* Storing states moves no enforced balance.
LEMMA StoreEnforces ==
  ASSUME Inv, NEW new, StoreUserState(new), NEW u \in Users
  PROVE  userBalances'[u].enforced = userBalances[u].enforced
<1> DEFINE own == {s \in new : s.userWallet = u}
<1>1. userBalances'[u] =
        IF own = {} THEN userBalances[u]
        ELSE [userBalances[u] EXCEPT !.balance = Latest(own).homeLedger.userBalance]
  BY DEF StoreUserState
<1>2. DOMAIN userBalances[u] = {"balance", "enforced"}
  BY DEF Inv, BalancesInv
<1> HIDE DEF own
<1> QED
  BY <1>1, <1>2

LEMMA StoreEnforced ==
  ASSUME Inv, Inv', Mirror, NEW new, StoreUserState(new), RowsKept
  PROVE  EnforcedInv'
<1>1. channelStates' = channelStates \cup new
  BY DEF StoreUserState
<1>2. ASSUME NEW d \in ChannelIds, channels[d] # Nil, channels'[d] = channels[d],
             NEW s \in channelStates', s.homeChannelId = d,
             s.version = channels[d].stateVersion, s.version > 0
      PROVE  s \in channelStates
  <2>1. StateAt(channelStates, d, channels[d].stateVersion)
    BY <1>2 DEF Mirror, FollowsInv, Follows
  <2>2. PICK t \in channelStates : t.homeChannelId = d /\ t.version = s.version
    BY <1>2, <2>1 DEF StateAt
  <2>3. t \in channelStates' /\ d # Nil
    BY <1>1, NodeAssumption
  <2>4. s.epoch = t.epoch /\ s.userWallet = t.userWallet
    BY <1>2, <2>2, <2>3 DEF Inv, ChannelsInv
  <2>5. s = t
    BY <1>2, <2>2, <2>3, <2>4 DEF Inv, Numbered
  <2> QED
    BY <2>5
<1>3. \A d \in ChannelIds : channels[d] # Nil => channels'[d] = channels[d]
  BY DEF RowsKept, Opens, Inv, ChannelsInv
<1>4. \A d \in ChannelIds : channels[d] = Nil /\ channels'[d] # Nil =>
        channels'[d].status = "void" /\ channels'[d].stateVersion = 0
  BY DEF RowsKept, Opens, Inv, ChannelsInv, NewChannel
<1>5. ASSUME NEW u \in Users
      PROVE  EnforcedOf(u)'
  <2>1. PICK b : b = userBalances[u].enforced /\ b = userBalances'[u].enforced
    BY StoreEnforces
  <2>2. PICK A, B : A = ActiveHomeChannels(u) /\ B = ActiveHomeChannels(u)'
    OBVIOUS
  <2>3. /\ A \subseteq ChannelIds /\ B \subseteq ChannelIds
        /\ \A d \in ChannelIds : channels[d] # Nil => (d \in A <=> d \in B)
        /\ \A d \in A : channels[d] # Nil
        /\ \A d \in B : channels'[d] # Nil
    <3>1. A = {d \in ChannelIds : channels[d] # Nil /\ channels[d].userWallet = u
                                  /\ channels[d].status \in {"void", "open"}}
      BY <2>2 DEF ActiveHomeChannels, ChannelsOf
    <3>2. B = {d \in ChannelIds : channels'[d] # Nil /\ channels'[d].userWallet = u
                                  /\ channels'[d].status \in {"void", "open"}}
      BY <2>2 DEF ActiveHomeChannels, ChannelsOf
    <3> QED
      BY <1>3, <3>1, <3>2
  <2>4. EnforcedIn(channels, A, b)
    BY <2>1, <2>2 DEF Mirror, EnforcedInv, EnforcedOf
  <2>5. B = {} => b = 0
    BY <2>3, <2>4 DEF EnforcedIn
  <2>6. ASSUME NEW d \in ChannelIds, B = {d}
        PROVE  /\ channels'[d].stateVersion = 0 => b = 0
               /\ \A s \in channelStates' :
                    /\ s.homeChannelId = d /\ s.version = channels'[d].stateVersion
                    /\ s.version > 0
                    => b = s.homeLedger.userBalance
    <3>1. CASE channels[d] = Nil
      <4>1. A = {} /\ channels'[d].stateVersion = 0
        BY <1>4, <2>3, <2>6, <3>1
      <4> QED
        BY <2>4, <4>1 DEF EnforcedIn
    <3>2. CASE channels[d] # Nil
      <4>1. A = {d} /\ channels'[d] = channels[d]
        BY <1>3, <2>3, <2>6, <3>2
      <4>2. channels[d].stateVersion = 0 => b = 0
        BY <2>4, <4>1 DEF EnforcedIn
      <4>3. ASSUME NEW s \in channelStates', s.homeChannelId = d,
                   s.version = channels'[d].stateVersion, s.version > 0
            PROVE  b = s.homeLedger.userBalance
        <5>1. s \in channelStates /\ s.version = channels[d].stateVersion
          BY <1>2, <3>2, <4>1, <4>3
        <5> QED
          BY <2>4, <4>1, <4>3, <5>1 DEF EnforcedIn
      <4> QED
        BY <4>1, <4>2, <4>3
    <3> QED
      BY <3>1, <3>2
  <2> QED
    BY <2>1, <2>2, <2>5, <2>6 DEF EnforcedOf, EnforcedIn
<1> QED
  BY <1>5 DEF EnforcedInv

\* New balances are whole.
LEMMA StoreWhole ==
  ASSUME Inv, WholeInv, NEW new, Successors(new), StoreUserState(new)
  PROVE  WholeInv'
<1>1. channelStates' = channelStates \cup new
  BY DEF StoreUserState
<1>2. ASSUME NEW s \in new
      PROVE  Whole(s.homeLedger.userBalance)
  <2>1. PICK l : l = GetLatestState(s.userWallet)
    OBVIOUS
  <2>2. /\ Storable(s) /\ Extends(l, s) /\ s.userWallet \in Users
    BY <2>1 DEF Successors, Storable, IsState
  <2>3. IsState(l) /\ Whole(l.homeLedger.userBalance)
    <3>1. /\ IsState(l)
          /\ StatesOf(s.userWallet) = {} => l = NewVoidState(s.userWallet)
          /\ StatesOf(s.userWallet) # {} => l \in channelStates
      BY <2>1, <2>2, LatestStateIs DEF Inv
    <3>2. CASE StatesOf(s.userWallet) = {}
      <4>1. l.homeLedger.userBalance = 0
        BY <2>2, <3>1, <3>2, VoidIs
      <4>2. 0 = 0 * AssetUnit
        BY CoreAssumption
      <4> QED
        BY <3>1, <4>1, <4>2 DEF Whole
    <3>3. CASE StatesOf(s.userWallet) # {}
      BY <3>1, <3>3 DEF WholeInv
    <3> QED
      BY <3>2, <3>3
  <2>4. PICK a, t : a = l.homeLedger.userBalance /\ t = s.transition
    OBVIOUS
  <2>5. a \in Int /\ t.amount \in Int /\ Whole(a) /\ Whole(t.amount)
    BY <2>2, <2>3, <2>4 DEF IsState, Storable
  <2>6. Whole(a + Gain(t))
    BY <2>5, WholeSum
  <2> QED
    BY <2>2, <2>4, <2>6 DEF Extends
<1> QED
  BY <1>1, <1>2 DEF WholeInv

\* A step that stores states.
LEMMA StoreMirror ==
  ASSUME Inv, Inv', Mirror, NEW new, Successors(new), StoreUserState(new), RowsKept,
         UNCHANGED onchain
  PROVE  Mirror'
<1>1. channelStates \subseteq channelStates' /\ chain' = chain
  BY DEF StoreUserState, onchain
<1>2. RecordsInv'
  BY <1>1 DEF Mirror, RecordsInv
<1> QED
  BY <1>1, <1>2, StoreWhole, StoreFollows, StoreEnforced DEF Mirror

\* Every step keeps it.
LEMMA MirrorStep ==
  ASSUME Inv, Inv', Mirror, [Next]_vars
  PROVE  Mirror'
<1>1. CASE UNCHANGED <<tables, onchain>>
  BY <1>1, MirrorKept
<1>2. ASSUME NEW r \in Requests, LockAndValidate(r)
      PROVE  Mirror'
  <2>1. UNCHANGED onchain
    BY <1>2 DEF LockAndValidate
  <2>2. CASE UNCHANGED tables
    BY <1>1, <2>1, <2>2
  <2>3. ASSUME NEW p, Successors({p}), StoreUserState({p})
        PROVE  Mirror'
    BY <1>2, <2>1, <2>3, LockRows, StoreMirror
  <2> QED
    BY <1>2, <2>2, <2>3, LockStores
<1>3. ASSUME NEW r \in Requests, IssueTransferReceiverState(r)
      PROVE  Mirror'
  <2>1. UNCHANGED onchain
    BY <1>3 DEF IssueTransferReceiverState
  <2>2. CASE UNCHANGED tables
    BY <1>1, <2>1, <2>2
  <2>3. ASSUME NEW p, NEW new, Successors({p, new}), StoreUserState({p, new})
        PROVE  Mirror'
    BY <1>3, <2>1, <2>3, IssueRows, StoreMirror
  <2> QED
    BY <1>3, <2>2, <2>3, IssueStores
<1>4. CASE UNCHANGED vars
  BY <1>1, <1>4 DEF vars
<1>5. CASE ClientStep
  <2>1. CASE UNCHANGED <<tables, onchain>>
    BY <1>1, <2>1
  <2> QED
    BY <1>5, <2>1, UserCheckpointMirror, UserChallengeMirror
    DEF ClientStep, ClientSubmit, ClientCreate, Send
<1>6. CASE \E r \in Requests : ApiStep(r)
  BY <1>1, <1>2, <1>3, <1>6 DEF ApiStep, SubmitStateGate, AbortDeadlocked, Rollback
<1>7. CASE EventStep
  BY <1>7, BeginEventMirror, CommitEventMirror DEF EventStep
<1>8. CASE WorkerStep
  BY <1>1, <1>8 DEF WorkerStep, ProcessActionSent, ProcessActionFailed
<1>9. CASE ChainStep
  BY <1>9, ExpireMirror, CloseExpiredMirror, MineMirror DEF ChainStep
<1> QED
  BY <1>4, <1>5, <1>6, <1>7, <1>8, <1>9 DEF Next

\* Where a behaviour starts.
LEMMA PastLastIs ==
  ASSUME NEW p \in Past, p # "new", NEW u \in Users
  PROVE  LET l == PastLast(p, u) IN
         /\ l \in PastSet(p, u) /\ l.homeLedger.blockchainId = Chain
         /\ l.homeChannelId = <<u, 1>> /\ l.version > 0 /\ (IsFinal(l) <=> p = "closed")
<1>1. CASE p = "funded"
  <2>1. PastLast(p, u) = FirstDeposit(u) /\ FirstDeposit(u) \in PastSet(p, u)
    BY <1>1 DEF PastLast, PastSet
  <2>2. LET d == FirstDeposit(u) IN
        /\ d.homeLedger.blockchainId = Chain /\ d.homeChannelId = <<u, 1>>
        /\ d.version = 1 /\ ~IsFinal(d)
    BY FirstDepositIs
  <2> QED
    BY <1>1, <2>1, <2>2
<1>2. CASE p = "closed"
  <2>1. PastLast(p, u) = Closing(u) /\ Closing(u) \in PastSet(p, u)
    BY <1>2 DEF PastLast, PastSet
  <2> QED
    BY <1>2, <2>1, ClosingIs
<1> QED
  BY <1>1, <1>2 DEF Past

LEMMA InitMirror ==
  ASSUME Init
  PROVE  Mirror
<1>1. PICK past \in [Users -> Past] :
         /\ \A u \in Users : StatesOf(u) = PastSet(past[u], u)
         /\ \A s \in channelStates : s.userWallet \in Users
         /\ \A c \in ChannelIds : channels[c] # Nil =>
              channels[c] \in ChannelRow /\ channels[c].userWallet = c[1]
         /\ \A u \in Users : past[u] # "new" => channels[<<u, 1>>] # Nil
         /\ userBalances = [u \in Users |->
              [balance |-> IF past[u] = "funded" THEN 2 * AssetUnit ELSE 0,
               enforced |-> IF past[u] = "funded" THEN 2 * AssetUnit ELSE 0]]
         /\ \A c \in ChannelIds : Beginning(past[c[1]], c)
  BY InitIs
<1>2. events = <<>>
  BY DEF Init
<1>3. WholeInv
  <2>1. SUFFICES ASSUME NEW s \in channelStates PROVE Whole(s.homeLedger.userBalance)
    BY DEF WholeInv
  <2>2. PICK u \in Users : s \in PastSet(past[u], u)
    BY <1>1, <2>1 DEF StatesOf
  <2>3. s = FirstDeposit(u) \/ s = Closing(u)
    BY <1>1, <2>2 DEF PastSet, Past
  <2>4. s.homeLedger.userBalance = 2 * AssetUnit \/ s.homeLedger.userBalance = 0
    <3>1. FirstDeposit(u).homeLedger.userBalance = 2 * AssetUnit
      BY FirstDepositIs
    <3>2. Closing(u).homeLedger.userBalance = 0
      BY ClosingIs
    <3> QED
      BY <2>3, <3>1, <3>2
  <2>5. 0 = 0 * AssetUnit
    BY CoreAssumption
  <2> QED
    BY <2>4, <2>5 DEF Whole
<1>4. ASSUME NEW c \in ChannelIds
      PROVE  \/ channels[c] = Nil /\ chain[c] = VoidMeta
             \/ \E s \in channelStates :
                  /\ past[c[1]] # "new" /\ s.homeChannelId = c /\ c = <<c[1], 1>>
                  /\ s.version > 0 /\ s.homeLedger.blockchainId = Chain
                  /\ channels[c].stateVersion = s.version
                  /\ chain[c].lastState = ContractState(s)
                  /\ \/ /\ past[c[1]] = "closed" /\ channels[c].status = "closed"
                        /\ chain[c].status = "CLOSED"
                     \/ /\ past[c[1]] = "funded" /\ channels[c].status = "open"
                        /\ chain[c].status = "OPERATING"
  <2>0. PICK u \in Users : u = c[1]
    BY DEF ChannelIds
  <2>1. CASE channels[c] = Nil /\ chain[c] = VoidMeta
    BY <2>1
  <2>2. CASE ~(channels[c] = Nil /\ chain[c] = VoidMeta)
    <3>1. PICK l : l = PastLast(past[u], u)
      OBVIOUS
    <3>2. /\ past[u] # "new" /\ l.homeChannelId = c
          /\ channels[c].stateVersion = l.version /\ chain[c].lastState = ContractState(l)
          /\ channels[c].status = IF IsFinal(l) THEN "closed" ELSE "open"
          /\ chain[c].status = IF IsFinal(l) THEN "CLOSED" ELSE "OPERATING"
      BY <1>1, <2>0, <2>2, <3>1 DEF Beginning
    <3>3. /\ l \in PastSet(past[u], u) /\ l.homeLedger.blockchainId = Chain
          /\ l.homeChannelId = <<u, 1>> /\ l.version > 0 /\ (IsFinal(l) <=> past[u] = "closed")
      BY <1>1, <3>1, <3>2, PastLastIs
    <3>4. l \in channelStates
      BY <1>1, <3>3 DEF StatesOf
    <3>5. past[u] \in {"funded", "closed"}
      BY <1>1, <3>2 DEF Past
    <3> QED
      BY <2>0, <3>2, <3>3, <3>4, <3>5
  <2> QED
    BY <2>1, <2>2
<1>5. VoidMeta.status = "VOID" /\ VoidMeta.lastState = Hub!EmptyState
  BY DEF VoidMeta
<1>6. RecordsInv
  BY <1>4, <1>5 DEF RecordsInv
<1>7. FollowsInv
  <2>1. SUFFICES ASSUME NEW c \in ChannelIds, channels[c] # Nil
                 PROVE  Follows(c, events, channels[c], chain[c], channelStates)
    BY DEF FollowsInv
  <2>2. EventsIn(events, c) = {}
    <3>1. Len(events) = 0
      BY <1>2
    <3> QED
      BY <3>1 DEF EventsIn
  <2>3. PICK s \in channelStates :
          /\ s.homeChannelId = c /\ s.version > 0
          /\ channels[c].stateVersion = s.version
          /\ chain[c].lastState = ContractState(s)
          /\ \/ channels[c].status = "closed" /\ chain[c].status = "CLOSED"
             \/ channels[c].status = "open" /\ chain[c].status = "OPERATING"
    BY <1>4, <2>1
  <2>4. chain[c].lastState.version = s.version
    BY <2>3 DEF ContractState
  <2>5. StateAt(channelStates, c, channels[c].stateVersion)
    BY <2>3 DEF StateAt
  <2>6. channels[c].status = RowStatus(chain[c].status) /\ channels[c].status # "void"
    BY <2>3 DEF RowStatus
  <2> QED
    BY <2>2, <2>3, <2>4, <2>5, <2>6 DEF Follows
<1>8. EnforcedInv
  <2>1. SUFFICES ASSUME NEW u \in Users PROVE EnforcedOf(u)
    BY DEF EnforcedInv
  <2>2. PICK b : b = userBalances[u].enforced /\ b = IF past[u] = "funded" THEN 2 * AssetUnit ELSE 0
    BY <1>1
  <2>3. PICK A : A = ActiveHomeChannels(u)
    OBVIOUS
  <2>4. A = {c \in ChannelIds : channels[c] # Nil /\ channels[c].userWallet = u
                                /\ channels[c].status \in {"void", "open"}}
    BY <2>3 DEF ActiveHomeChannels, ChannelsOf
  <2>5. \A c \in A : c[1] = u /\ past[u] = "funded" /\ c = <<u, 1>>
                     /\ channels[c].stateVersion > 0
    BY <1>1, <1>4, <2>4
  <2>6. past[u] = "funded" => A # {}
    <3>1. SUFFICES ASSUME past[u] = "funded" PROVE A # {}
      OBVIOUS
    <3>2. PICK c : c = <<u, 1>>
      OBVIOUS
    <3>3. c \in ChannelIds /\ c[1] = u
      BY <3>2, NodeAssumption DEF ChannelIds
    <3>4. channels[c] # Nil
      BY <1>1, <3>1, <3>2
    <3>5. channels[c].userWallet = u /\ channels[c].status = "open"
      BY <1>1, <1>4, <3>1, <3>3, <3>4
    <3> QED
      BY <2>4, <3>3, <3>4, <3>5
  <2>7. A = {} => b = 0
    BY <2>2, <2>6
  <2>8. ASSUME NEW d \in ChannelIds, A = {d}
        PROVE  /\ channels[d].stateVersion # 0
               /\ \A s \in channelStates :
                    s.homeChannelId = d /\ s.version = channels[d].stateVersion
                    => b = s.homeLedger.userBalance
    <3>1. d[1] = u /\ past[u] = "funded" /\ d = <<u, 1>> /\ channels[d].stateVersion > 0
      BY <2>5, <2>8
    <3>2. StatesOf(u) = {FirstDeposit(u)} /\ FirstDeposit(u).homeLedger.userBalance = b
      BY <1>1, <2>2, <3>1, FirstDepositIs DEF PastSet
    <3>3. ASSUME NEW s \in channelStates, s.homeChannelId = d
          PROVE  s.userWallet = u
      <4>1. s.userWallet \in Users /\ s \in PastSet(past[s.userWallet], s.userWallet)
        BY <1>1 DEF StatesOf
      <4>2. s = FirstDeposit(s.userWallet) \/ s = Closing(s.userWallet)
        BY <1>1, <4>1 DEF PastSet, Past
      <4>3. s.homeChannelId = <<s.userWallet, 1>>
        BY <4>1, <4>2, FirstDepositIs, ClosingIs
      <4> QED
        BY <3>1, <3>3, <4>3
    <3>4. \A s \in channelStates : s.homeChannelId = d => s = FirstDeposit(u)
      BY <3>2, <3>3 DEF StatesOf
    <3>5. channels[d].stateVersion # 0
      BY <3>1
    <3> QED
      BY <3>2, <3>4, <3>5
  <2> QED
    BY <2>2, <2>3, <2>7, <2>8 DEF EnforcedOf, EnforcedIn
<1> QED
  BY <1>3, <1>6, <1>7, <1>8 DEF Mirror

\* What the contract has of a whole balance.
LEMMA WholeOnChain ==
  ASSUME NEW a, Whole(a)
  PROVE  DecimalToBigInt(a, AssetUnit) * AssetUnit = a
<1>1. PICK u : u = AssetUnit
  OBVIOUS
<1>2. PICK k \in Int : a = k * u
  BY <1>1 DEF Whole
<1>3. u \in Nat /\ u > 0
  BY <1>1, CoreAssumption
<1>4. (k * u) \div u = k
  BY <1>2, <1>3
<1> QED
  BY <1>1, <1>2, <1>4 DEF DecimalToBigInt

\* When no event is pending the tables agree with the chain.
LEMMA MirrorIs ==
  ASSUME Inv, Mirror
  PROVE  DBMirrorsChain
<1>1. SUFFICES ASSUME events = <<>>
               PROVE  /\ \A c \in ChannelIds : channels[c] # Nil =>
                           /\ channels[c].status = RowStatus(chain[c].status)
                           /\ channels[c].stateVersion = chain[c].lastState.version
                      /\ \A u \in Users : \A c \in ActiveHomeChannels(u) :
                           ActiveHomeChannels(u) = {c} /\ ~OpenedAtZero(c) =>
                             userBalances[u].enforced =
                               chain[c].lastState.homeLedger.userAllocation * AssetUnit
  BY DEF DBMirrorsChain
<1>2. ASSUME NEW c \in ChannelIds, channels[c] # Nil
      PROVE  /\ channels[c].status = RowStatus(chain[c].status)
             /\ channels[c].stateVersion = chain[c].lastState.version
  <2>1. EventsIn(events, c) = {}
    <3>1. Len(events) = 0
      BY <1>1
    <3> QED
      BY <3>1 DEF EventsIn
  <2>2. Follows(c, events, channels[c], chain[c], channelStates)
    BY <1>2 DEF Mirror, FollowsInv
  <2> QED
    BY <2>1, <2>2 DEF Follows
<1>3. ASSUME NEW u \in Users, NEW c \in ActiveHomeChannels(u), ActiveHomeChannels(u) = {c},
             ~OpenedAtZero(c)
      PROVE  userBalances[u].enforced = chain[c].lastState.homeLedger.userAllocation * AssetUnit
  <2>1. /\ c \in ChannelIds /\ channels[c] # Nil /\ channels[c].status \in {"void", "open"}
    BY DEF ActiveHomeChannels, ChannelsOf
  <2>2. /\ channels[c].status = RowStatus(chain[c].status)
        /\ channels[c].stateVersion = chain[c].lastState.version
    BY <1>2, <2>1
  <2>3. PICK b : b = userBalances[u].enforced
    OBVIOUS
  <2>4. /\ channels[c].stateVersion = 0 => b = 0
        /\ \A s \in channelStates :
             s.homeChannelId = c /\ s.version = channels[c].stateVersion /\ s.version > 0
             => b = s.homeLedger.userBalance
    BY <1>3, <2>1, <2>3 DEF Mirror, EnforcedInv, EnforcedOf, EnforcedIn
  <2>5. CASE chain[c].status = "VOID"
    <3>1. chain[c].lastState = Hub!EmptyState
      BY <2>1, <2>5 DEF Mirror, RecordsInv
    <3>2. /\ chain[c].lastState.version = 0
          /\ chain[c].lastState.homeLedger.userAllocation = 0
      BY <3>1 DEF Hub!EmptyState, Hub!EmptyLedger
    <3>3. 0 * AssetUnit = 0
      BY CoreAssumption
    <3> QED
      BY <2>2, <2>3, <2>4, <3>2, <3>3
  <2>6. CASE chain[c].status # "VOID"
    <3>1. PICK s \in channelStates :
            s.homeChannelId = c /\ chain[c].lastState = ContractState(s)
      BY <2>1, <2>6 DEF Mirror, RecordsInv
    <3>2. /\ chain[c].lastState.version = s.version
          /\ chain[c].lastState.homeLedger.userAllocation =
               DecimalToBigInt(s.homeLedger.userBalance, AssetUnit)
      BY <3>1 DEF ContractState, coreLedgerToContractLedger
    <3>3. s.version \in Nat /\ s.version # 0
      BY <1>3, <3>1 DEF OpenedAtZero, Inv, Numbered, Storable, IsState
    <3>4. b = s.homeLedger.userBalance
      BY <2>2, <2>4, <3>1, <3>2, <3>3
    <3>5. Whole(s.homeLedger.userBalance)
      BY DEF Mirror, WholeInv
    <3> QED
      BY <2>3, <3>2, <3>4, <3>5, WholeOnChain
  <2> QED
    BY <2>5, <2>6
<1> QED
  BY <1>2, <1>3

\* Once every event is handled the tables agree with the chain, however
\* requests, handlers, challenges and the worker's transactions interleaved:
\* each row has its channel's status and version, and the enforced balance of
\* a user with one open channel is what the contract holds for the user.
THEOREM DatabaseMirrorsChain == Spec => []DBMirrorsChain
<1>1. Init => Mirror
  BY InitMirror
<1>2. Inv /\ Inv' /\ Mirror /\ [Next]_vars => Mirror'
  BY MirrorStep
<1>3. Inv /\ Mirror => DBMirrorsChain
  BY MirrorIs
<1> QED
  BY <1>1, <1>2, <1>3, Invariance, PTL DEF Spec

-------------------------------------------------------------------------------
(* What makes the node's signatures enforceable *)

Flow(s) == s.homeLedger.userNetFlow

\* A state's books balance: the user's funds are what the two parties put in,
\* the node holds none of its own, and the channel's ledger is on the chain.
Balanced(s) ==
  /\ s.homeLedger \in LedgerRow /\ s.homeLedger.nodeBalance = 0
  /\ s.homeLedger.userBalance = Flow(s) + s.homeLedger.nodeNetFlow
  /\ Whole(Flow(s))
  /\ s.homeChannelId = Nil => Flow(s) = 0
  /\ s.homeChannelId # Nil => /\ s.homeLedger.blockchainId = Chain
                              /\ s.homeLedger.tokenAddress = Token

\* The transitions that the chain must see before the next state is signed.
OverChain(s) == s.transition.type \in {"home_deposit", "home_withdrawal"}

Signed(u) == GetLastUserState(u, TRUE)

\* A state that has not been used has balanced books.
LEMMA VoidBalanced ==
  ASSUME NEW u \in Users
  PROVE  Balanced(NewVoidState(u))
<1>1. Whole(0)
  BY CoreAssumption DEF Whole
<1> QED
  BY <1>1 DEF Balanced, Flow, NewVoidState, ZeroLedger, LedgerRow

\* The ledger after a transition a user may propose is a ledger, and the node
\* still holds nothing of its own.
LEMMA AppliedLedger ==
  ASSUME NEW e, IsState(e), NEW t, t.type \in SubmitSupported, t.amount \in Int, NEW el,
         e.homeLedger \in LedgerRow, e.homeLedger.nodeBalance = 0
  PROVE  LET p == Applied(e, t, el) IN
         /\ p.homeLedger \in LedgerRow /\ p.homeLedger.nodeBalance = 0
         /\ t.type # "transfer_send" => p.homeLedger.nodeNetFlow = e.homeLedger.nodeNetFlow
<1> DEFINE p == Applied(e, t, el)
           h == e.homeLedger
           a == t.amount
<1>0. /\ DOMAIN e = StateFields /\ h \in LedgerRow /\ DOMAIN h = LedgerFields
      /\ h.userBalance \in Int /\ h.userNetFlow \in Int /\ h.nodeNetFlow \in Int
      /\ h.nodeBalance = 0 /\ a \in Int
  BY DEF IsState, LedgerRow
<1>1. CASE t.type = "acknowledgement"
  <2>1. p = ApplyAcknowledgementTransition(e)
    BY <1>1 DEF Applied
  <2>2. p.homeLedger = h
    BY <1>0, <2>1 DEF StateFields, ApplyAcknowledgementTransition
  <2> QED
    BY <1>1, <2>2
<1>2. CASE t.type = "home_deposit"
  <2>1. p = ApplyHomeDepositTransition(e, a)
    BY <1>2 DEF Applied
  <2>2. p.homeLedger = [h EXCEPT !.userNetFlow = h.userNetFlow + a, !.userBalance = h.userBalance + a]
    BY <1>0, <2>1 DEF StateFields, LedgerFields, ApplyHomeDepositTransition
  <2> HIDE DEF p, h
  <2>3. h.userNetFlow + a \in Int /\ h.userBalance + a \in Int
    BY <1>0
  <2>4. PICK f \in Int, b \in Int : p.homeLedger = [h EXCEPT !.userNetFlow = f, !.userBalance = b]
    BY <2>2, <2>3
  <2>5. PICK g, l : g = h /\ l = p.homeLedger
    OBVIOUS
  <2>6. g \in LedgerRow /\ l = [g EXCEPT !.userNetFlow = f, !.userBalance = b]
    BY <1>0, <2>4, <2>5
  <2>7. l \in LedgerRow /\ l.nodeBalance = g.nodeBalance /\ l.nodeNetFlow = g.nodeNetFlow
    BY <2>6 DEF LedgerRow
  <2> QED
    BY <1>0, <1>2, <2>5, <2>7 DEF p, h
<1>3. CASE t.type = "home_withdrawal"
  <2>1. p = ApplyHomeWithdrawalTransition(e, a)
    BY <1>3 DEF Applied
  <2>2. p.homeLedger = [h EXCEPT !.userNetFlow = h.userNetFlow - a, !.userBalance = h.userBalance - a]
    BY <1>0, <2>1 DEF StateFields, LedgerFields, ApplyHomeWithdrawalTransition
  <2> HIDE DEF p, h
  <2>3. h.userNetFlow - a \in Int /\ h.userBalance - a \in Int
    BY <1>0
  <2>4. PICK f \in Int, b \in Int : p.homeLedger = [h EXCEPT !.userNetFlow = f, !.userBalance = b]
    BY <2>2, <2>3
  <2>5. PICK g, l : g = h /\ l = p.homeLedger
    OBVIOUS
  <2>6. g \in LedgerRow /\ l = [g EXCEPT !.userNetFlow = f, !.userBalance = b]
    BY <1>0, <2>4, <2>5
  <2>7. l \in LedgerRow /\ l.nodeBalance = g.nodeBalance /\ l.nodeNetFlow = g.nodeNetFlow
    BY <2>6 DEF LedgerRow
  <2> QED
    BY <1>0, <1>3, <2>5, <2>7 DEF p, h
<1>4. CASE t.type = "transfer_send"
  <2>1. p = ApplyTransferSendTransition(e, t.accountId, a)
    BY <1>4 DEF Applied
  <2>2. p.homeLedger = [h EXCEPT !.userBalance = h.userBalance - a,
                                 !.nodeNetFlow = h.nodeNetFlow - a]
    BY <1>0, <2>1 DEF StateFields, LedgerFields, ApplyTransferSendTransition
  <2> HIDE DEF p, h
  <2>3. h.userBalance - a \in Int /\ h.nodeNetFlow - a \in Int
    BY <1>0
  <2>4. PICK b \in Int, n \in Int : p.homeLedger = [h EXCEPT !.userBalance = b, !.nodeNetFlow = n]
    BY <2>2, <2>3
  <2>5. PICK g, l : g = h /\ l = p.homeLedger
    OBVIOUS
  <2>6. g \in LedgerRow /\ l = [g EXCEPT !.userBalance = b, !.nodeNetFlow = n]
    BY <1>0, <2>4, <2>5
  <2>7. l \in LedgerRow /\ l.nodeBalance = g.nodeBalance
    BY <2>6 DEF LedgerRow
  <2> QED
    BY <1>0, <1>4, <2>5, <2>7 DEF p, h
<1>5. CASE t.type = "finalize"
  <2>1. p = ApplyFinalizeTransition(e)
    BY <1>5 DEF Applied
  <2>2. p.homeLedger = [h EXCEPT !.userNetFlow = h.userNetFlow - h.userBalance, !.userBalance = 0]
    BY <1>0, <2>1 DEF StateFields, LedgerFields, ApplyFinalizeTransition
  <2> HIDE DEF p, h
  <2>3. h.userNetFlow - h.userBalance \in Int /\ 0 \in Int
    BY <1>0
  <2>4. PICK f \in Int, b \in Int : p.homeLedger = [h EXCEPT !.userNetFlow = f, !.userBalance = b]
    BY <2>2, <2>3
  <2>5. PICK g, l : g = h /\ l = p.homeLedger
    OBVIOUS
  <2>6. g \in LedgerRow /\ l = [g EXCEPT !.userNetFlow = f, !.userBalance = b]
    BY <1>0, <2>4, <2>5
  <2>7. l \in LedgerRow /\ l.nodeBalance = g.nodeBalance /\ l.nodeNetFlow = g.nodeNetFlow
    BY <2>6 DEF LedgerRow
  <2> QED
    BY <1>0, <1>5, <2>5, <2>7 DEF p, h
<1> HIDE DEF p
<1> QED
  BY <1>1, <1>2, <1>3, <1>4, <1>5 DEF SubmitSupported, p

\* The transition itself.
LEMMA AppliedTransition ==
  ASSUME NEW e, IsState(e), NEW t, t.type \in SubmitSupported, t.amount \in Int, NEW el,
         e.homeChannelId \in ChannelIds, t.type = "transfer_send" => t.accountId \in Users
  PROVE  Applied(e, t, el).transition \in TransitionRow
<1> DEFINE p == Applied(e, t, el)
           b == e.homeLedger.userBalance
<1>0. /\ DOMAIN e = StateFields /\ e.userWallet \in Users /\ e.epoch \in Nat
      /\ e.version \in Nat /\ b \in Int
  BY DEF IsState
<1>1. ASSUME NEW type \in SubmitSupported, NEW account \in Users \cup ChannelIds, NEW a \in Int
      PROVE  SenderTransition(e, type, account, a) \in TransitionRow
  <2>1. type \in TransitionType
    BY DEF SubmitSupported, TransitionType
  <2>2. GetStateID(e) \in Users \X Nat \X Nat
    BY <1>0 DEF GetStateID
  <2>3. PICK id \in Users \X Nat \X Nat : id = GetStateID(e)
    BY <2>2
  <2> QED
    BY <2>1, <2>3 DEF SenderTransition, getTransactionID, TransitionRow
<1>2. CASE t.type = "acknowledgement"
  <2>1. p = ApplyAcknowledgementTransition(e)
    BY <1>2 DEF Applied
  <2>2. p.transition = [type |-> "acknowledgement", txId |-> 0, accountId |-> 0, amount |-> 0]
    BY <1>0, <2>1 DEF StateFields, ApplyAcknowledgementTransition
  <2> QED
    BY <2>2 DEF TransitionRow, TransitionType
<1>3. CASE t.type = "home_deposit"
  <2>1. p = ApplyHomeDepositTransition(e, t.amount)
    BY <1>3 DEF Applied
  <2>2. p.transition = SenderTransition(e, "home_deposit", e.homeChannelId, t.amount)
    BY <1>0, <2>1 DEF StateFields, ApplyHomeDepositTransition
  <2> QED
    BY <1>1, <1>3, <2>2
<1>4. CASE t.type = "home_withdrawal"
  <2>1. p = ApplyHomeWithdrawalTransition(e, t.amount)
    BY <1>4 DEF Applied
  <2>2. p.transition = SenderTransition(e, "home_withdrawal", e.homeChannelId, t.amount)
    BY <1>0, <2>1 DEF StateFields, ApplyHomeWithdrawalTransition
  <2> QED
    BY <1>1, <1>4, <2>2
<1>5. CASE t.type = "transfer_send"
  <2>1. p = ApplyTransferSendTransition(e, t.accountId, t.amount)
    BY <1>5 DEF Applied
  <2>2. p.transition = SenderTransition(e, "transfer_send", t.accountId, t.amount)
    BY <1>0, <2>1 DEF StateFields, ApplyTransferSendTransition
  <2> QED
    BY <1>1, <1>5, <2>2
<1>6. CASE t.type = "finalize"
  <2>1. p = ApplyFinalizeTransition(e)
    BY <1>6 DEF Applied
  <2>2. p.transition = SenderTransition(e, "finalize", e.homeChannelId, b)
    BY <1>0, <2>1 DEF StateFields, ApplyFinalizeTransition
  <2> QED
    BY <1>0, <1>1, <1>6, <2>2
<1> QED
  BY <1>2, <1>3, <1>4, <1>5, <1>6 DEF SubmitSupported

\* A state of balanced books is a row of its table.
LEMMA RowIs ==
  ASSUME NEW s, IsState(s), Balanced(s), s.transition \in TransitionRow,
         s.userSig \in BOOLEAN, s.nodeSig \in BOOLEAN,
         NEW q, NEW x, s = [q EXCEPT !.nodeSig = x]
  PROVE  s \in StateRow /\ s # Nil
<1>1. DOMAIN s = StateFields /\ s.homeLedger \in LedgerRow
  BY DEF IsState, Balanced
<1>2. s = [f \in StateFields |-> s[f]]
  <2>1. s = [f \in DOMAIN s |-> s[f]]
    BY Zenon
  <2> QED
    BY <1>1, <2>1
<1>3. s = [transition |-> s.transition, userWallet |-> s.userWallet, epoch |-> s.epoch,
           version |-> s.version, homeChannelId |-> s.homeChannelId,
           escrowChannelId |-> s.escrowChannelId, homeLedger |-> s.homeLedger,
           escrowLedger |-> s.escrowLedger, userSig |-> s.userSig, nodeSig |-> s.nodeSig]
  BY <1>2 DEF StateFields
<1>4. /\ s.userWallet \in Users /\ s.epoch \in Nat /\ s.version \in Nat
      /\ s.homeChannelId \in ChannelIds \cup {Nil}
      /\ s.escrowChannelId = Nil /\ s.escrowLedger = Nil
  BY DEF IsState
<1>5. s \in StateRow
  BY <1>1, <1>3, <1>4, Zenon DEF StateRow
<1> QED
  BY <1>5, NodeAssumption

\* Sums of whole amounts are whole.
LEMMA WholeAdded ==
  ASSUME NEW a \in Int, NEW b \in Int, Whole(a), Whole(b)
  PROVE  Whole(a + b) /\ Whole(a - b) /\ Whole(-b) /\ Whole(0)
<1>1. PICK u : u = AssetUnit
  OBVIOUS
<1>2. u \in Int
  BY <1>1, CoreAssumption
<1>3. PICK k \in Int : a = k * u
  BY <1>1 DEF Whole
<1>4. PICK m \in Int : b = m * u
  BY <1>1 DEF Whole
<1>5. /\ a + b = (k + m) * u /\ a - b = (k - m) * u /\ -b = (-m) * u /\ 0 = 0 * u
      /\ k + m \in Int /\ k - m \in Int /\ -m \in Int
  BY <1>2, <1>3, <1>4
<1> QED
  BY <1>1, <1>5 DEF Whole

\* The user's flow after a transition of a whole amount is whole.
LEMMA WholeFlow ==
  ASSUME NEW f \in Int, Whole(f), NEW t, t.amount \in Int, Whole(t.amount)
  PROVE  Whole(f + FlowGain(t)) /\ FlowGain(t) \in Int
<1>1. FlowGain(t) \in {t.amount, -t.amount, 0}
  BY DEF FlowGain
<1>2. Whole(f + t.amount) /\ Whole(f - t.amount)
  BY WholeAdded
<1>3. CASE FlowGain(t) = t.amount
  BY <1>2, <1>3
<1>4. CASE FlowGain(t) = -t.amount
  <2>1. f + FlowGain(t) = f - t.amount
    BY <1>4
  <2> QED
    BY <1>2, <1>4, <2>1
<1>5. CASE FlowGain(t) = 0
  BY <1>5
<1> QED
  BY <1>1, <1>3, <1>4, <1>5

\* A proposal that is validated against balanced books has balanced books.
LEMMA AdvanceBalanced ==
  ASSUME NEW s, IsState(s), IsFinal(s) => s.homeLedger.userBalance = 0, Balanced(s),
         NEW p, IsState(p), p.transition.type \in SubmitSupported, ValidateAdvancement(s, p),
         \/ s.homeChannelId # Nil /\ ~IsFinal(s)
         \/ p.homeLedger.blockchainId = Chain /\ p.homeLedger.tokenAddress = Token
  PROVE  Balanced(p)
<1> DEFINE n == NextState(s)
           e == ExpectedState(s, p)
           t == p.transition
           new == Applied(e, t, p.escrowLedger)
<1>1. /\ IsState(n) /\ n.homeChannelId = IF IsFinal(s) THEN Nil ELSE s.homeChannelId
      /\ n.homeLedger = IF IsFinal(s) THEN ZeroLedger(0, NoToken) ELSE s.homeLedger
  BY NextIs
<1>2. /\ IsState(e) /\ e.homeLedger.nodeBalance = n.homeLedger.nodeBalance
      /\ e.homeLedger.nodeNetFlow = n.homeLedger.nodeNetFlow
      /\ n.homeChannelId # Nil => e.homeLedger = n.homeLedger
      /\ n.homeChannelId = Nil =>
           e.homeLedger = [n.homeLedger EXCEPT !.blockchainId = p.homeLedger.blockchainId,
                                               !.tokenAddress = p.homeLedger.tokenAddress]
  BY ExpectedIs
<1>3. p.homeChannelId # Nil /\ new.homeLedger = p.homeLedger /\ ValidLedger(p.homeLedger)
  BY DEF ValidateAdvancement
<1>4. /\ t.amount \in Int /\ p.homeLedger.userBalance \in Int /\ Flow(p) \in Int
      /\ Flow(s) \in Int
  BY DEF IsState, Flow
<1> HIDE DEF e, n
<1>5. e.homeLedger \in LedgerRow /\ e.homeLedger.nodeBalance = 0
  <2>1. n.homeLedger \in LedgerRow /\ n.homeLedger.nodeBalance = 0
    BY <1>1 DEF Balanced, ZeroLedger, LedgerRow
  <2>2. CASE n.homeChannelId # Nil
    BY <1>2, <2>1, <2>2
  <2>3. CASE n.homeChannelId = Nil
    <3>1. p.homeLedger.blockchainId = Chain /\ p.homeLedger.tokenAddress = Token /\ Chain \in Nat
      BY <1>1, <2>3, NodeAssumption
    <3> QED
      BY <1>2, <2>1, <2>3, <3>1 DEF LedgerRow
  <2> QED
    BY <2>2, <2>3
<1>6. /\ new.homeLedger.nodeBalance = 0 /\ new.homeLedger \in LedgerRow
  BY <1>2, <1>4, <1>5, AppliedLedger
<1>7. /\ new.homeLedger.blockchainId = e.homeLedger.blockchainId
      /\ new.homeLedger.tokenAddress = e.homeLedger.tokenAddress
  BY <1>2, <1>4, AppliedIs
<1> HIDE DEF new
<1>8. p.homeLedger.blockchainId = Chain /\ p.homeLedger.tokenAddress = Token
  <2>1. CASE s.homeChannelId # Nil /\ ~IsFinal(s)
    BY <1>1, <1>2, <1>3, <1>7, <2>1 DEF Balanced
  <2> QED
    BY <2>1
<1>9. p.homeLedger.userBalance = Flow(p) + p.homeLedger.nodeNetFlow
  BY <1>3, <1>4, <1>6 DEF ValidLedger, Flow, LedgerRow
<1>10. Storable(p) /\ Extends(s, p)
  BY Advance
<1>11. Whole(Flow(p))
  <2>1. Whole(IF IsFinal(s) THEN 0 ELSE Flow(s)) /\ Whole(t.amount)
    <3>1. Whole(0)
      BY CoreAssumption DEF Whole
    <3> QED
      BY <1>10, <3>1 DEF Balanced, Storable
  <2>2. Flow(p) = (IF IsFinal(s) THEN 0 ELSE Flow(s)) + FlowGain(t)
    BY <1>10 DEF Extends, Flow
  <2>3. PICK f : f = IF IsFinal(s) THEN 0 ELSE Flow(s)
    OBVIOUS
  <2>4. f \in Int /\ Whole(f)
    BY <1>4, <2>1, <2>3
  <2> QED
    BY <1>4, <2>1, <2>2, <2>3, <2>4, WholeFlow
<1> QED
  BY <1>3, <1>6, <1>8, <1>9, <1>11 DEF Balanced

\* The state a transfer issues has balanced books, and the user's flow stays.
LEMMA ReceiveBalanced ==
  ASSUME NEW s, IsState(s), IsFinal(s) => s.homeLedger.userBalance = 0, Balanced(s),
         NEW from, NEW a \in Nat, NEW txId
  PROVE  LET p == Received(s, from, a, txId) IN Balanced(p) /\ p.userSig = FALSE
<1> DEFINE n == NextState(s)
           h == n.homeLedger
           r == ApplyTransferReceiveTransition(n, from, a, txId)
           p == Received(s, from, a, txId)
<1>1. /\ IsState(n) /\ n.homeChannelId = IF IsFinal(s) THEN Nil ELSE s.homeChannelId
      /\ h = IF IsFinal(s) THEN ZeroLedger(0, NoToken) ELSE s.homeLedger
  BY NextIs
<1>2. n.userSig = FALSE
  <2>1. DOMAIN s = StateFields /\ s.escrowLedger = Nil
    BY DEF IsState
  <2>2. n = IF IsFinal(s)
            THEN [NewVoidState(s.userWallet) EXCEPT !.epoch = s.epoch + 1,
                                                    !.escrowLedger = s.escrowLedger]
            ELSE [s EXCEPT !.transition = VoidTransition,
                           !.version = s.version + 1, !.userSig = FALSE, !.nodeSig = FALSE]
    BY <2>1 DEF NextState
  <2>3. CASE IsFinal(s)
    BY <2>2, <2>3 DEF NewVoidState
  <2>4. CASE ~IsFinal(s)
    BY <2>1, <2>2, <2>4 DEF StateFields
  <2> QED
    BY <2>3, <2>4
<1>3. /\ h.nodeBalance = 0 /\ h \in LedgerRow
      /\ h.userBalance = h.userNetFlow + h.nodeNetFlow
      /\ Whole(h.userNetFlow) /\ (n.homeChannelId = Nil => h.userNetFlow = 0)
      /\ n.homeChannelId # Nil => h.blockchainId = Chain /\ h.tokenAddress = Token
  <2>1. CASE IsFinal(s)
    <3>1. Whole(0)
      BY CoreAssumption DEF Whole
    <3> QED
      BY <1>1, <2>1, <3>1 DEF ZeroLedger, LedgerRow
  <2>2. CASE ~IsFinal(s)
    BY <1>1, <2>2 DEF Balanced, Flow, IsState
  <2> QED
    BY <2>1, <2>2
<1>4. DOMAIN n = StateFields
  BY <1>1 DEF IsState
<1> HIDE DEF n
<1>5. /\ DOMAIN r = StateFields /\ r.homeChannelId = n.homeChannelId
      /\ r.homeLedger = [h EXCEPT !.userBalance = @ + a, !.nodeNetFlow = @ + a]
  BY <1>3, <1>4 DEF ApplyTransferReceiveTransition, StateFields, LedgerRow
<1>6. r.userSig = n.userSig
  BY <1>4 DEF ApplyTransferReceiveTransition, StateFields
<1>7. p = [r EXCEPT !.nodeSig = r.homeChannelId # Nil]
  BY DEF Received, n
<1> HIDE DEF r, p
<1>8. /\ p.homeChannelId = n.homeChannelId /\ p.homeLedger = r.homeLedger
  BY <1>5, <1>7 DEF StateFields
<1>9. p.userSig = r.userSig
  BY <1>5, <1>7 DEF StateFields
<1>10. /\ r.homeLedger.userBalance = h.userBalance + a
       /\ r.homeLedger.nodeNetFlow = h.nodeNetFlow + a
       /\ r.homeLedger.nodeBalance = h.nodeBalance
       /\ r.homeLedger.userNetFlow = h.userNetFlow
       /\ r.homeLedger.blockchainId = h.blockchainId
       /\ r.homeLedger.tokenAddress = h.tokenAddress
       /\ r.homeLedger \in LedgerRow
  <2>1. h \in LedgerRow /\ h.userBalance \in Int /\ h.nodeNetFlow \in Int
    BY <1>3 DEF LedgerRow
  <2>2. PICK b \in Int, x \in Int : b = h.userBalance + a /\ x = h.nodeNetFlow + a
    BY <2>1
  <2>3. r.homeLedger = [h EXCEPT !.userBalance = b, !.nodeNetFlow = x]
    BY <1>5, <2>2
  <2>4. PICK g, l : g = h /\ l = r.homeLedger
    OBVIOUS
  <2>5. g \in LedgerRow /\ l = [g EXCEPT !.userBalance = b, !.nodeNetFlow = x]
    BY <2>1, <2>3, <2>4
  <2>6. /\ l \in LedgerRow /\ l.nodeBalance = g.nodeBalance /\ l.nodeNetFlow = x
        /\ l.userNetFlow = g.userNetFlow /\ l.userBalance = b
        /\ l.blockchainId = g.blockchainId /\ l.tokenAddress = g.tokenAddress
    BY <2>5 DEF LedgerRow
  <2> HIDE DEF h
  <2> QED
    BY <2>2, <2>4, <2>6
<1>11. Balanced(p)
  <2>1. h.userBalance \in Int /\ h.nodeNetFlow \in Int /\ h.userNetFlow \in Int
    BY <1>3 DEF LedgerRow
  <2> HIDE DEF h
  <2> QED
    BY <1>3, <1>8, <1>10, <2>1 DEF Balanced, Flow
<1> QED
  BY <1>2, <1>6, <1>9, <1>11 DEF p

-------------------------------------------------------------------------------
\* The co-signed states of a channel.
SignedIn(c) == {s \in channelStates : s.homeChannelId = c /\ CoSigned(s)}

LedgersInv ==
  \A s \in channelStates :
    s # Nil /\ Balanced(s) /\ (OverChain(s) => s.transition.amount > 0)

\* The last co-signed state g of a user whose last state is l.
Backed(l, g) ==
  l.homeChannelId # Nil =>
    g # Nil /\ g.homeChannelId = l.homeChannelId /\ Flow(g) = Flow(l)

LastInv == \A u \in Users : Backed(GetLatestState(u), Signed(u))

\* From the version the chain holds, the user's flow moves by one transition.
FlowsInv ==
  \A c \in ChannelIds : \A s, t \in SignedIn(c) :
    chain[c].lastState.version <= s.version /\ s.version < t.version =>
      Flow(t) = Flow(s) + FlowGain(t.transition)

\* So it does from nothing, before the channel is on the chain.
VoidFlows ==
  \A c \in ChannelIds : chain[c].status = "VOID" /\ ~OpenedAtZero(c) =>
    \A t \in SignedIn(c) : Flow(t) = FlowGain(t.transition)

\* What the contract m of channel c holds belongs to a co-signed state.
Settled(c, m) ==
  /\ m.status = "VOID" => m.lockedFunds = 0
  /\ m.status # "VOID" => \E s \in SignedIn(c) : m.lastState = ContractState(s)
  /\ m.status \in {"OPERATING", "DISPUTED"} =>
       /\ m.lockedFunds = m.lastState.homeLedger.userAllocation
       /\ m.lastState.intent # "CLOSE"

SettledInv == \A c \in ChannelIds : Settled(c, chain[c])

\* No deposit or withdrawal that u has signed is still to come on the chain.
Calm(u) ==
  Signed(u) # Nil /\ OverChain(Signed(u)) =>
    Signed(u).version <= chain[Signed(u).homeChannelId].lastState.version

\* The user has no channel that the new one would leave behind.
Free(u) == GetLatestState(u).homeChannelId # Nil => IsFinal(GetLatestState(u))

\* What is known of a request, more so once its state is validated.
Ready(q) ==
  q # Idle =>
    /\ q.state.userSig = TRUE
    /\ q.kind = "create" => /\ q.state.homeLedger.blockchainId = Chain
                            /\ q.state.homeLedger.tokenAddress = Token
    /\ q.pc = "receiver" => /\ Balanced(q.state) /\ q.state.transition \in TransitionRow
                            /\ q.kind = "submit" => Calm(q.state.userWallet)
                            /\ q.kind = "create" => Free(q.state.userWallet)

ReadyInv == \A r \in Requests : Ready(requests[r])

Sound == LedgersInv /\ LastInv /\ FlowsInv /\ VoidFlows /\ SettledInv /\ ReadyInv

\* The last co-signed state of a user.
LEMMA LastSigned ==
  ASSUME Inv, LedgersInv, NEW u \in Users
  PROVE  /\ \A s \in StatesOf(u) : CoSigned(s) =>
              /\ Signed(u) # Nil
              /\ s = Signed(u) \/ Before(s, Signed(u))
         /\ Signed(u) # Nil => /\ Signed(u) \in StatesOf(u) /\ Signed(u) \in channelStates
                               /\ CoSigned(Signed(u)) /\ Signed(u).userWallet = u
<1> DEFINE rows == {s \in StatesOf(u) : CoSigned(s)}
           g == Latest(rows)
<1>1. Signed(u) = g
  BY DEF GetLastUserState, Signed
<1>2. rows \subseteq StatesOf(u)
  OBVIOUS
<1>3. ASSUME rows # {} \/ g # Nil
      PROVE  /\ g \in rows
             /\ \A t \in rows : \/ g.epoch > t.epoch
                                \/ g.epoch = t.epoch /\ g.version >= t.version
  <2> HIDE DEF rows
  <2> QED
    BY <1>2, <1>3, LatestExists DEF Inv
<1>4. ASSUME NEW s \in StatesOf(u), CoSigned(s)
      PROVE  g # Nil /\ (s = g \/ Before(s, g))
  <2>1. s \in rows
    BY <1>4
  <2>2. /\ g \in rows /\ \/ g.epoch > s.epoch
                         \/ g.epoch = s.epoch /\ g.version >= s.version
    BY <1>3, <2>1
  <2>3. g \in StatesOf(u)
    BY <2>2
  <2> HIDE DEF g
  <2>4. g \in channelStates /\ s \in channelStates /\ g.userWallet = u /\ s.userWallet = u
    BY <2>3 DEF StatesOf
  <2>5. /\ g.epoch \in Nat /\ s.epoch \in Nat /\ g.version \in Nat /\ s.version \in Nat
    BY <2>4 DEF Inv, Numbered, Storable, IsState
  <2>6. g.epoch = s.epoch /\ g.version = s.version => s = g
    BY <2>4 DEF Inv, Numbered
  <2> QED
    BY <2>2, <2>4, <2>5, <2>6 DEF Before, LedgersInv
<1>5. ASSUME g # Nil
      PROVE  g \in StatesOf(u) /\ g \in channelStates /\ CoSigned(g) /\ g.userWallet = u
  <2>1. g \in rows
    BY <1>3, <1>5
  <2> HIDE DEF g
  <2> QED
    BY <2>1 DEF StatesOf
<1> HIDE DEF g
<1> QED
  BY <1>1, <1>4, <1>5

\* The channel's co-signed states, and the last of them.
LEMMA SignedInIs ==
  ASSUME Inv, LedgersInv, NEW c \in ChannelIds, NEW s \in SignedIn(c), NEW g,
         g = Signed(s.userWallet), g.homeChannelId = c
  PROVE  /\ g \in SignedIn(c) /\ (s = g \/ s.version < g.version)
         /\ s.version \in Nat /\ g.version \in Nat /\ Flow(s) \in Int /\ Flow(g) \in Int
<1>1. s \in channelStates /\ CoSigned(s) /\ s.homeChannelId = c
  BY DEF SignedIn
<1>2. s.userWallet \in Users /\ s \in StatesOf(s.userWallet) /\ c # Nil
  BY <1>1, NodeAssumption DEF Inv, Numbered, Storable, IsState, StatesOf
<1>3. g # Nil /\ (s = g \/ Before(s, g)) /\ g \in channelStates /\ CoSigned(g)
  BY <1>1, <1>2, LastSigned
<1>4. g.epoch = s.epoch
  BY <1>1, <1>2, <1>3 DEF Inv, ChannelsInv
<1>5. /\ g.epoch \in Nat /\ s.version \in Nat /\ g.version \in Nat
      /\ Flow(s) \in Int /\ Flow(g) \in Int
  BY <1>1, <1>3 DEF Inv, Numbered, Storable, IsState, Flow
<1> QED
  BY <1>1, <1>3, <1>4, <1>5 DEF SignedIn, Before

\* Queries of states that have not changed.
LEMMA SameStates ==
  ASSUME channelStates' = channelStates
  PROVE  /\ \A u : Signed(u)' = Signed(u) /\ GetLatestState(u)' = GetLatestState(u)
         /\ \A c : SignedIn(c)' = SignedIn(c) /\ OpenedAtZero(c)' = OpenedAtZero(c)
BY DEF Signed, GetLatestState, GetLastUserState, StatesOf, SignedIn, OpenedAtZero

\* The chain only moves on.
ChainGrows ==
  \A c \in ChannelIds :
    /\ chain[c].lastState.version \in Nat /\ chain'[c].lastState.version \in Nat
    /\ chain[c].lastState.version <= chain'[c].lastState.version
    /\ chain'[c].status = "VOID" => chain[c].status = "VOID"

\* A request stays ready when its user's states do.
LEMMA ReadyKept ==
  ASSUME Inv, LedgersInv, NEW q, Ready(q), ChainGrows,
         q # Idle => q.state.userWallet \in Users,
         q # Idle /\ q.pc = "receiver" =>
           LET u == q.state.userWallet IN
           Signed(u)' = Signed(u) /\ GetLatestState(u)' = GetLatestState(u)
  PROVE  Ready(q)'
<1>1. SUFFICES ASSUME q # Idle PROVE Ready(q)'
  BY DEF Ready
<1>2. SUFFICES ASSUME q.pc = "receiver" PROVE Ready(q)'
  BY <1>1 DEF Ready
<1> DEFINE u == q.state.userWallet
           g == Signed(u)
<1>3. u \in Users /\ Signed(u)' = g /\ GetLatestState(u)' = GetLatestState(u)
  BY <1>1, <1>2
<1>4. ASSUME Calm(u)
      PROVE  Calm(u)'
  <2>1. SUFFICES ASSUME g # Nil, OverChain(g)
                 PROVE  g.version <= chain'[g.homeChannelId].lastState.version
    BY <1>3 DEF Calm, OverChain
  <2>2. g \in channelStates /\ CoSigned(g)
    BY <1>3, <2>1, LastSigned
  <2>3. g.homeChannelId \in ChannelIds /\ g.version \in Nat
    BY <2>2, SignedHasChannel
  <2>4. g.version <= chain[g.homeChannelId].lastState.version
    BY <1>4, <2>1 DEF Calm
  <2> HIDE DEF g
  <2> QED
    BY <2>3, <2>4 DEF ChainGrows
<1>5. Free(u) => Free(u)'
  BY <1>3 DEF Free
<1> HIDE DEF u
<1>6. q.kind = "submit" => Calm(u)'
  BY <1>1, <1>2, <1>4 DEF Ready, u
<1>7. q.kind = "create" => Free(u)'
  BY <1>1, <1>2, <1>5 DEF Ready, u
<1> QED
  BY <1>1, <1>2, <1>6, <1>7 DEF Ready, u

\* A step of the chain to a record that settles a co-signed state.
LEMMA ChainSound ==
  ASSUME Inv, Sound, UNCHANGED <<channelStates, requests>>, NEW c \in ChannelIds, NEW m2,
         chain' = [chain EXCEPT ![c] = m2], Settled(c, m2), m2.lastState.version \in Nat,
         chain[c].lastState.version <= m2.lastState.version,
         m2.status = "VOID" => chain[c].status = "VOID"
  PROVE  Sound'
<1>1. /\ DOMAIN chain = ChannelIds
      /\ \A d \in ChannelIds : chain[d].lastState.version \in Nat
  BY DEF Inv, OnchainInv, ChainRecord
<1>2. \A d \in ChannelIds : chain'[d] = IF d = c THEN m2 ELSE chain[d]
  BY <1>1
<1>3. ChainGrows
  BY <1>1, <1>2 DEF ChainGrows
<1>4. LedgersInv' /\ LastInv'
  BY SameStates DEF Sound, LedgersInv, LastInv
<1>5. FlowsInv'
  <2>1. SUFFICES ASSUME NEW d \in ChannelIds, NEW s \in SignedIn(d), NEW t \in SignedIn(d),
                        chain'[d].lastState.version <= s.version, s.version < t.version
                 PROVE  Flow(t) = Flow(s) + FlowGain(t.transition)
    BY SameStates DEF FlowsInv
  <2>2. s.version \in Nat
    BY DEF SignedIn, Inv, Numbered, Storable, IsState
  <2>3. chain[d].lastState.version <= s.version
    BY <1>3, <2>1, <2>2 DEF ChainGrows
  <2> QED
    BY <2>1, <2>3 DEF Sound, FlowsInv
<1>6. VoidFlows'
  BY <1>3, SameStates DEF Sound, VoidFlows, ChainGrows
<1>7. SettledInv'
  <2>1. SUFFICES ASSUME NEW d \in ChannelIds PROVE Settled(d, chain[d])'
    BY DEF SettledInv
  <2>2. PICK m : m = chain'[d]
    OBVIOUS
  <2>3. Settled(d, m)
    BY <1>2, <2>2 DEF Sound, SettledInv
  <2>4. SignedIn(d)' = SignedIn(d)
    BY SameStates
  <2>5. Settled(d, m)'
    BY <2>3, <2>4 DEF Settled
  <2> QED
    BY <2>2, <2>5 DEF Settled
<1>8. ReadyInv'
  <2>1. SUFFICES ASSUME NEW r \in Requests PROVE Ready(requests[r])'
    BY DEF ReadyInv
  <2>2. PICK q : q = requests[r]
    OBVIOUS
  <2>3. Ready(q) /\ (q # Idle => q.state.userWallet \in Users)
    BY <2>2 DEF Sound, ReadyInv, Inv, RequestsInv, RequestOK, IsState
  <2>4. Ready(q)'
    BY <1>3, <2>3, SameStates, ReadyKept DEF Sound
  <2> QED
    BY <2>2, <2>4
<1> QED
  BY <1>4, <1>5, <1>6, <1>7, <1>8 DEF Sound

-------------------------------------------------------------------------------
\* An amount of k units.
LEMMA UnitsIs ==
  ASSUME NEW k \in Int
  PROVE  DecimalToBigInt(k * AssetUnit, AssetUnit) = k
<1>1. PICK u : u = AssetUnit
  OBVIOUS
<1>2. u \in Nat /\ u > 0
  BY <1>1, CoreAssumption
<1>3. (k * u) \div u = k
  BY <1>2
<1> QED
  BY <1>1, <1>3 DEF DecimalToBigInt

\* What the contract sees of s: the user's flow f and the node's flow n, in
\* units of the token.
Priced(s, f, n) ==
  LET cs == ContractState(s)
      h == cs.homeLedger
  IN  /\ f \in Int /\ n \in Int /\ f + n >= 0 /\ Flow(s) = f * AssetUnit
      /\ cs.version = s.version /\ cs.intent = TransitionToIntent(s.transition)
      /\ cs.nonHomeLedger = Hub!EmptyLedger
      /\ h.chainId = Chain /\ h.token = Token /\ h.decimals = 0
      /\ h.userNetFlow = f /\ h.nodeNetFlow = n
      /\ h.userAllocation = f + n /\ h.nodeAllocation = 0
      /\ IsFinal(s) => f + n = 0

\* The intents of the states users sign.
IntentOf(s) ==
  CASE s.transition.type = "finalize"        -> "CLOSE"
    [] s.transition.type = "home_deposit"    -> "DEPOSIT"
    [] s.transition.type = "home_withdrawal" -> "WITHDRAW"
    [] OTHER                                 -> "OPERATE"

LEMMA IntentIs ==
  ASSUME NEW s, Storable(s)
  PROVE  TransitionToIntent(s.transition) = IntentOf(s)
<1>1. s.transition.type \in SubmitSupported \cup {"transfer_receive"}
  BY DEF Storable, IsState
<1> QED
  BY <1>1 DEF TransitionToIntent, IntentOf, SubmitSupported

LEMMA PricedIs ==
  ASSUME Inv, Mirror, LedgersInv, NEW s \in channelStates, s.homeChannelId # Nil
  PROVE  \E f, n : Priced(s, f, n)
<1> DEFINE h == s.homeLedger
           cs == ContractState(s)
<1>1. /\ h.nodeBalance = 0 /\ h.userBalance = h.userNetFlow + h.nodeNetFlow
      /\ Whole(h.userNetFlow) /\ h.blockchainId = Chain /\ h.tokenAddress = Token
      /\ h.nodeNetFlow \in Int
  BY DEF LedgersInv, Balanced, Flow, LedgerRow
<1>2. /\ h.userBalance \in Int /\ h.userNetFlow \in Int /\ s.escrowLedger = Nil
      /\ h.userBalance >= 0 /\ (IsFinal(s) => h.userBalance = 0)
  BY DEF Inv, Numbered, Storable, IsState
<1>3. Whole(h.userBalance)
  BY DEF Mirror, WholeInv
<1>4. PICK u : u = AssetUnit
  OBVIOUS
<1>5. u \in Int /\ u > 0
  BY <1>4, CoreAssumption
<1>6. PICK f \in Int : h.userNetFlow = f * u
  BY <1>1, <1>4 DEF Whole
<1>7. PICK b \in Int : h.userBalance = b * u
  BY <1>3, <1>4 DEF Whole
<1> DEFINE n == b - f
<1>8. n \in Int /\ h.nodeNetFlow = n * u /\ f + n = b /\ 0 = 0 * u
  <2>1. h.nodeNetFlow = b * u - f * u
    BY <1>1, <1>2, <1>6, <1>7
  <2>2. b * u - f * u = (b - f) * u /\ b - f \in Int /\ f + (b - f) = b /\ 0 = 0 * u
    BY <1>5
  <2> QED
    BY <2>1, <2>2
<1>9. b >= 0 /\ (IsFinal(s) => b = 0)
  <2>1. b * u >= 0 /\ (IsFinal(s) => b * u = 0)
    BY <1>2, <1>7
  <2> QED
    BY <1>5, <2>1
<1>10. /\ DecimalToBigInt(h.userNetFlow, AssetUnit) = f
       /\ DecimalToBigInt(h.userBalance, AssetUnit) = b
       /\ DecimalToBigInt(h.nodeNetFlow, AssetUnit) = n
       /\ DecimalToBigInt(h.nodeBalance, AssetUnit) = 0
  <2>1. DecimalToBigInt(f * u, AssetUnit) = f
    BY <1>4, UnitsIs
  <2>2. DecimalToBigInt(b * u, AssetUnit) = b
    BY <1>4, UnitsIs
  <2>3. DecimalToBigInt(n * u, AssetUnit) = n
    <3> HIDE DEF n
    <3> QED
      BY <1>4, <1>8, UnitsIs
  <2>4. DecimalToBigInt(0 * u, AssetUnit) = 0
    BY <1>4, UnitsIs
  <2> HIDE DEF n, h
  <2> QED
    BY <1>1, <1>6, <1>7, <1>8, <2>1, <2>2, <2>3, <2>4
<1> HIDE DEF n
<1>11. /\ cs.version = s.version /\ cs.intent = TransitionToIntent(s.transition)
       /\ cs.nonHomeLedger = Hub!EmptyLedger
       /\ cs.homeLedger = coreLedgerToContractLedger(h, 0, AssetUnit)
  BY <1>2 DEF ContractState
<1> HIDE DEF cs
<1>12. /\ cs.homeLedger.chainId = Chain /\ cs.homeLedger.token = Token
       /\ cs.homeLedger.decimals = 0 /\ cs.homeLedger.userNetFlow = f
       /\ cs.homeLedger.nodeNetFlow = n /\ cs.homeLedger.userAllocation = b
       /\ cs.homeLedger.nodeAllocation = 0
  BY <1>1, <1>10, <1>11 DEF coreLedgerToContractLedger
<1>13. Flow(s) = f * AssetUnit
  BY <1>4, <1>6 DEF Flow
<1>14. Priced(s, f, n)
  BY <1>8, <1>9, <1>11, <1>12, <1>13 DEF Priced, cs
<1> QED
  BY <1>14

\* The chain settles the state it enforces.
LEMMA EnforceSound ==
  ASSUME Inv, Mirror, Sound, UNCHANGED <<channelStates, requests>>,
         NEW s \in channelStates, CoSigned(s), Accepts(s.homeChannelId, s),
         NEW status \in {"OPERATING", "DISPUTED", "CLOSED"},
         chain' = Enforced(s.homeChannelId, s, status), status # "CLOSED" => ~IsFinal(s)
  PROVE  Sound'
<1>0. PICK c, cs, m : c = s.homeChannelId /\ cs = ContractState(s) /\ m = chain[c]
  OBVIOUS
<1>1. c \in ChannelIds /\ s.version \in Nat /\ c # Nil /\ s \in SignedIn(c)
  BY <1>0, SignedHasChannel, NodeAssumption DEF SignedIn
<1>2. PICK f, n : Priced(s, f, n)
  BY <1>0, <1>1, PricedIs DEF Sound
<1>3. cs.version = s.version /\ chain[c].lastState.version <= s.version
  BY <1>0, <1>1, <1>2, AcceptedIs DEF Priced
<1>4. cs.intent = IntentOf(s)
  BY <1>0, <1>2, IntentIs DEF Priced, Inv, Numbered
<1> DEFINE m2 == [status |-> status, lastState |-> cs, challengeExpireAt |-> 0,
                  lockedFunds |-> IF status = "CLOSED" THEN 0 ELSE Hub!expectedLocked(m, cs)]
<1>5. chain' = [chain EXCEPT ![c] = m2]
  BY <1>0 DEF Enforced
<1>6. /\ m2.status = status /\ m2.lastState = cs
      /\ status # "CLOSED" => m2.lockedFunds = Hub!expectedLocked(m, cs)
  OBVIOUS
<1> HIDE DEF m2
<1>7. ASSUME status # "CLOSED"
      PROVE  Hub!expectedLocked(m, cs) = cs.homeLedger.userAllocation /\ cs.intent # "CLOSE"
  <2>1. cs.intent \in {"DEPOSIT", "WITHDRAW", "OPERATE"}
    BY <1>4, <1>7 DEF IntentOf, IsFinal
  <2>2. Hub!newStatus(m, cs) = "OPERATING"
    BY <2>1 DEF Hub!newStatus
  <2>3. Hub!validateInvariants(m, cs, NodeFunds)
    BY <1>0 DEF Accepts, Hub!validateTransition
  <2>4. cs.homeLedger.userAllocation + cs.homeLedger.nodeAllocation = Hub!expectedLocked(m, cs)
    BY <2>2, <2>3 DEF Hub!validateInvariants, Hub!closesChannel
  <2>5. cs.homeLedger.nodeAllocation = 0 /\ cs.homeLedger.userAllocation \in Int
    BY <1>0, <1>2 DEF Priced
  <2> QED
    BY <2>1, <2>4, <2>5
<1>8. Settled(c, m2)
  BY <1>0, <1>1, <1>6, <1>7 DEF Settled
<1> QED
  BY <1>0, <1>1, <1>3, <1>5, <1>6, <1>8, ChainSound

\* What the contract's functions do with a state.
LEMMA CallSound ==
  ASSUME Inv, Mirror, Sound, UNCHANGED <<channelStates, requests>>,
         NEW s \in channelStates, CoSigned(s),
         \/ CreateOnChain(s.homeChannelId, s) \/ CheckpointOnChain(s.homeChannelId, s)
         \/ CloseOnChain(s.homeChannelId, s)
  PROVE  Sound'
<1>1. ContractState(s).intent = IntentOf(s)
  BY IntentIs DEF ContractState, Inv, Numbered
<1>2. ContractState(s).intent # "CLOSE" => ~IsFinal(s)
  BY <1>1 DEF IntentOf, IsFinal
<1>3. CASE CreateOnChain(s.homeChannelId, s) \/ CheckpointOnChain(s.homeChannelId, s)
  <2>1. /\ chain' = Enforced(s.homeChannelId, s, "OPERATING") /\ Accepts(s.homeChannelId, s)
        /\ ~IsFinal(s)
    BY <1>2, <1>3 DEF CreateOnChain, CheckpointOnChain
  <2> QED
    BY <2>1, EnforceSound
<1>4. CASE CloseOnChain(s.homeChannelId, s)
  <2>1. chain' = Enforced(s.homeChannelId, s, "CLOSED") /\ Accepts(s.homeChannelId, s)
    BY <1>4 DEF CloseOnChain
  <2> QED
    BY <2>1, EnforceSound
<1> QED
  BY <1>3, <1>4

LEMMA UserCheckpointSound ==
  ASSUME Inv, Mirror, Sound, NEW u \in Users, UserCheckpoint(u)
  PROVE  Sound'
<1>1. PICK s : s = GetLastUserState(u, TRUE)
  OBVIOUS
<1>2. s # Nil /\ UNCHANGED <<channelStates, requests>>
  BY <1>1 DEF UserCheckpoint, tables, api
<1>3. s \in channelStates /\ CoSigned(s)
  BY <1>1, <1>2, LastSignedIs
<1>4. \/ CreateOnChain(s.homeChannelId, s) \/ CheckpointOnChain(s.homeChannelId, s)
      \/ CloseOnChain(s.homeChannelId, s)
  BY <1>1 DEF UserCheckpoint
<1> QED
  BY <1>2, <1>3, <1>4, CallSound

\* The record stays settled when only its status or its deadline changes.
LEMMA SettledStatus ==
  ASSUME NEW c, NEW m, Settled(c, m), m.status \in {"OPERATING", "DISPUTED"},
         NEW m2, m2.lastState = m.lastState,
         \/ m2.status \in {"OPERATING", "DISPUTED"} /\ m2.lockedFunds = m.lockedFunds
         \/ m2.status = "CLOSED"
  PROVE  Settled(c, m2)
BY DEF Settled

LEMMA StatusSound ==
  ASSUME Inv, Sound, UNCHANGED <<channelStates, requests>>, NEW c \in ChannelIds,
         chain[c].status \in {"OPERATING", "DISPUTED"}, NEW m2,
         chain' = [chain EXCEPT ![c] = m2], m2.lastState = chain[c].lastState,
         \/ m2.status \in {"OPERATING", "DISPUTED"} /\ m2.lockedFunds = chain[c].lockedFunds
         \/ m2.status = "CLOSED"
  PROVE  Sound'
<1>1. Settled(c, chain[c]) /\ chain[c].lastState.version \in Nat
  BY DEF Sound, SettledInv, Inv, OnchainInv, ChainRecord
<1>2. Settled(c, m2)
  BY <1>1, SettledStatus
<1>3. m2.lastState.version \in Nat /\ chain[c].lastState.version <= m2.lastState.version
  BY <1>1
<1> QED
  BY <1>2, <1>3, ChainSound

LEMMA UserChallengeSound ==
  ASSUME Inv, Mirror, Sound, NEW s \in channelStates, UserChallenge(s)
  PROVE  Sound'
<1>0. PICK c : c = s.homeChannelId
  OBVIOUS
<1>1. CoSigned(s) /\ ChallengeOnChain(s) /\ UNCHANGED <<channelStates, requests>>
  BY DEF UserChallenge, tables, api
<1>2. c \in ChannelIds
  BY <1>0, <1>1, SignedHasChannel
<1>3. CASE s.version > chain[c].lastState.version
  <2>1. /\ chain' = Enforced(s.homeChannelId, s, "DISPUTED") /\ Accepts(s.homeChannelId, s)
        /\ ~IsFinal(s)
    BY <1>0, <1>1, <1>3 DEF ChallengeOnChain
  <2> QED
    BY <1>1, <2>1, EnforceSound
<1>4. CASE ~(s.version > chain[c].lastState.version)
  <2>1. chain' = [chain EXCEPT ![c].status = "DISPUTED"] /\ chain[c].status = "OPERATING"
    BY <1>0, <1>1, <1>4 DEF ChallengeOnChain
  <2>2. PICK m2 : m2 = [chain[c] EXCEPT !.status = "DISPUTED"]
    OBVIOUS
  <2>3. DOMAIN chain[c] = {"status", "lastState", "challengeExpireAt", "lockedFunds"}
    BY <1>2 DEF Inv, OnchainInv, ChainRecord
  <2>4. /\ m2.lastState = chain[c].lastState /\ m2.lockedFunds = chain[c].lockedFunds
        /\ m2.status = "DISPUTED"
    BY <2>2, <2>3
  <2>5. chain' = [chain EXCEPT ![c] = m2]
    BY <2>1, <2>2
  <2> QED
    BY <1>1, <1>2, <2>1, <2>4, <2>5, StatusSound
<1> QED
  BY <1>3, <1>4

LEMMA ExpireSound ==
  ASSUME Inv, Sound, NEW c \in ChannelIds, ExpireChallenge(c)
  PROVE  Sound'
<1>1. /\ chain' = [chain EXCEPT ![c].challengeExpireAt = -1] /\ chain[c].status = "DISPUTED"
      /\ UNCHANGED <<channelStates, requests>>
  BY DEF ExpireChallenge, tables, api
<1>2. PICK m2 : m2 = [chain[c] EXCEPT !.challengeExpireAt = -1]
  OBVIOUS
<1>3. DOMAIN chain[c] = {"status", "lastState", "challengeExpireAt", "lockedFunds"}
  BY DEF Inv, OnchainInv, ChainRecord
<1>4. /\ m2.lastState = chain[c].lastState /\ m2.lockedFunds = chain[c].lockedFunds
      /\ m2.status = "DISPUTED"
  BY <1>1, <1>2, <1>3
<1>5. chain' = [chain EXCEPT ![c] = m2]
  BY <1>1, <1>2
<1> QED
  BY <1>1, <1>4, <1>5, StatusSound

LEMMA CloseExpiredSound ==
  ASSUME Inv, Sound, NEW c \in ChannelIds, CloseExpired(c)
  PROVE  Sound'
<1>1. /\ chain' = [chain EXCEPT ![c].status = "CLOSED", ![c].lockedFunds = 0,
                                ![c].challengeExpireAt = 0]
      /\ chain[c].status = "DISPUTED" /\ UNCHANGED <<channelStates, requests>>
  BY DEF CloseExpired, tables, api
<1>2. PICK m2 : m2 = [chain[c] EXCEPT !.status = "CLOSED", !.lockedFunds = 0,
                                      !.challengeExpireAt = 0]
  OBVIOUS
<1>3. /\ DOMAIN chain[c] = {"status", "lastState", "challengeExpireAt", "lockedFunds"}
      /\ DOMAIN chain = ChannelIds
  BY DEF Inv, OnchainInv, ChainRecord
<1>4. m2.lastState = chain[c].lastState /\ m2.status = "CLOSED"
  BY <1>1, <1>2, <1>3
<1>5. chain' = [chain EXCEPT ![c] = m2]
  BY <1>1, <1>2, <1>3
<1> QED
  BY <1>1, <1>4, <1>5, StatusSound

LEMMA SoundKept ==
  ASSUME Sound, UNCHANGED <<channelStates, chain, requests>>
  PROVE  Sound'
<1>1. LedgersInv' /\ LastInv' /\ FlowsInv' /\ VoidFlows'
  BY SameStates DEF Sound, LedgersInv, LastInv, FlowsInv, VoidFlows
<1>2. SettledInv'
  BY SameStates DEF Sound, SettledInv, Settled
<1>3. ReadyInv'
  BY SameStates DEF Sound, ReadyInv, Ready, Calm, Free
<1> QED
  BY <1>1, <1>2, <1>3 DEF Sound

LEMMA MineSound ==
  ASSUME Inv, Mirror, Sound, NEW id \in mempool, Mine(id)
  PROVE  Sound'
<1>1. PICK s : s = GetStateByID(id)
  OBVIOUS
<1>2. s \in channelStates /\ CoSigned(s)
  BY <1>1, KnownIs DEF Inv, WorkerInv
<1>3. UNCHANGED <<channelStates, requests>>
  BY DEF Mine, tables, api
<1>4. CheckpointOnChain(s.homeChannelId, s) \/ chain' = chain
  BY <1>1 DEF Mine, onchain
<1> QED
  BY <1>2, <1>3, <1>4, CallSound, SoundKept

-------------------------------------------------------------------------------
\* A request is taken up, waits or ends, and nothing is stored.
LEMMA RequestSound ==
  ASSUME Inv, Sound, UNCHANGED <<channelStates, chain>>, NEW r \in Requests, NEW q, Ready(q),
         requests' = [requests EXCEPT ![r] = q]
  PROVE  Sound'
<1>1. LedgersInv' /\ LastInv' /\ FlowsInv' /\ VoidFlows'
  BY SameStates DEF Sound, LedgersInv, LastInv, FlowsInv, VoidFlows
<1>2. SettledInv'
  BY SameStates DEF Sound, SettledInv, Settled
<1>3. ReadyInv'
  <2>1. SUFFICES ASSUME NEW o \in Requests PROVE Ready(requests[o])'
    BY DEF ReadyInv
  <2>2. PICK x : x = requests'[o]
    OBVIOUS
  <2>3. Ready(x)
    BY <2>2 DEF Sound, ReadyInv, Inv, RequestsInv
  <2>4. Ready(x)'
    BY <2>3, SameStates DEF Ready, Calm, Free
  <2> QED
    BY <2>2, <2>4
<1> QED
  BY <1>1, <1>2, <1>3 DEF Sound

LEMMA SendSound ==
  ASSUME Inv, Sound, NEW r \in Requests, NEW kind \in {"submit", "create"}, NEW p,
         Send(r, kind, p), IsState(p),
         kind = "create" => /\ p.homeLedger.blockchainId = Chain
                            /\ p.homeLedger.tokenAddress = Token
  PROVE  Sound'
<1> DEFINE x == [p EXCEPT !.userSig = TRUE]
           g == Gated([kind |-> kind, state |-> x])
           q == [pc |-> IF g THEN "gate" ELSE "lock", kind |-> kind, state |-> x]
<1>1. requests' = [requests EXCEPT ![r] = q] /\ UNCHANGED <<channelStates, chain>>
  BY DEF Send, tables, onchain
<1>2. DOMAIN p = StateFields
  BY DEF IsState
<1>3. x.homeLedger = p.homeLedger
  BY <1>2 DEF StateFields
<1>4. x.userSig = TRUE
  BY <1>2 DEF StateFields
<1> HIDE DEF x, g
<1>5. q.pc # "receiver" /\ q.kind = kind /\ q.state = x
  OBVIOUS
<1> HIDE DEF q
<1>6. Ready(q)
  BY <1>3, <1>4, <1>5 DEF Ready
<1> QED
  BY <1>1, <1>6, RequestSound

LEMMA ClientSubmitSound ==
  ASSUME Inv, Sound, NEW r \in Requests, NEW u \in Users, ClientSubmit(r, u)
  PROVE  Sound'
<1>1. PICK s \in StatesOf(u), op \in Operations(u) :
        Send(r, "submit", Applied(NextState(s), op, Nil))
  BY DEF ClientSubmit
<1> DEFINE n == NextState(s)
<1>2. IsState(s)
  BY DEF StatesOf, Inv, Numbered, Storable
<1>3. IsState(n)
  BY <1>2, NextIs
<1>4. Send(r, "submit", Applied(n, op, Nil))
  BY <1>1
<1> HIDE DEF n
<1>5. op.type \in SubmitSupported /\ op.amount \in Int
  BY OperationIs
<1>6. IsState(Applied(n, op, Nil))
  BY <1>3, <1>5, AppliedIs
<1> QED
  BY <1>4, <1>6, SendSound

LEMMA ClientCreateSound ==
  ASSUME Inv, Sound, NEW r \in Requests, NEW u \in Users, ClientCreate(r, u)
  PROVE  Sound'
<1> DEFINE s == GetLatestState(u)
           n == NextState(s)
           e(m) == ApplyChannelCreation(n, Chain, Token, m)
<1>1. PICK op \in Operations(u), m \in Nonces :
        Send(r, "create", Applied(e(m), op, Nil))
  BY DEF ClientCreate
<1>2. IsState(s)
  BY LatestStateIs DEF Inv
<1>3. IsState(n)
  BY <1>2, NextIs
<1> HIDE DEF s, n
<1>4. m \in Nonces
  OBVIOUS
<1>5. /\ IsState(e(m)) /\ e(m).homeLedger.blockchainId = Chain
      /\ e(m).homeLedger.tokenAddress = Token
  BY <1>3, <1>4, CreationIs
<1> HIDE DEF e
<1>6. op.type \in SubmitSupported /\ op.amount \in Int
  BY OperationIs
<1> DEFINE p == Applied(e(m), op, Nil)
<1>7. /\ IsState(p) /\ p.homeLedger.blockchainId = Chain /\ p.homeLedger.tokenAddress = Token
  BY <1>5, <1>6, AppliedIs
<1>8. Send(r, "create", p)
  BY <1>1
<1> HIDE DEF p
<1> QED
  BY <1>7, <1>8, SendSound

LEMMA RollbackSound ==
  ASSUME Inv, Sound, NEW r \in Requests, Rollback(r), UNCHANGED onchain
  PROVE  Sound'
<1>1. PICK q : q = Idle
  OBVIOUS
<1>2. /\ requests' = [requests EXCEPT ![r] = q] /\ UNCHANGED <<channelStates, chain>>
  BY <1>1 DEF Rollback, Finish, tables, onchain
<1>3. Ready(q)
  BY <1>1 DEF Ready
<1> QED
  BY <1>2, <1>3, RequestSound

\* A request moves on to the next of its steps.
LEMMA PassedIs ==
  ASSUME NEW r, NEW x, RequestOK(r, x), x # Idle, NEW pc, NEW q, q = [x EXCEPT !.pc = pc]
  PROVE  q.pc = pc /\ q.kind = x.kind /\ q.state = x.state
<1>1. DOMAIN x = {"pc", "kind", "state"}
  BY DEF RequestOK
<1> QED
  BY <1>1

LEMMA GateSound ==
  ASSUME Inv, Sound, NEW r \in Requests, SubmitStateGate(r)
  PROVE  Sound'
<1>1. PICK x : x = requests[r]
  OBVIOUS
<1>2. /\ x.pc = "gate" /\ RequestOK(r, x) /\ Ready(x) /\ x # Idle
      /\ UNCHANGED <<channelStates, chain>>
  BY <1>1 DEF SubmitStateGate, Inv, RequestsInv, Sound, ReadyInv, tables, onchain, Idle
<1>3. CASE requests' = [requests EXCEPT ![r] = Idle]
  <2>1. PICK q : q = Idle
    OBVIOUS
  <2>2. Ready(q) /\ requests' = [requests EXCEPT ![r] = q]
    BY <1>3, <2>1 DEF Ready
  <2> QED
    BY <1>2, <2>2, RequestSound
<1>4. CASE requests' = [requests EXCEPT ![r].pc = "lock"]
  <2>1. PICK q : q = [x EXCEPT !.pc = "lock"]
    OBVIOUS
  <2>2. requests' = [requests EXCEPT ![r] = q]
    BY <1>1, <1>4, <2>1 DEF Inv, RequestsInv
  <2>3. q.pc = "lock" /\ q.kind = x.kind /\ q.state = x.state
    BY <1>2, <2>1, PassedIs
  <2>4. Ready(q)
    BY <1>2, <2>3 DEF Ready
  <2> QED
    BY <1>2, <2>2, <2>4, RequestSound
<1> QED
  BY <1>3, <1>4 DEF SubmitStateGate, Finish

-------------------------------------------------------------------------------
\* The user's last state has balanced books.
LEMMA LatestBalanced ==
  ASSUME Inv, LedgersInv, NEW u \in Users
  PROVE  Balanced(GetLatestState(u))
<1>1. CASE StatesOf(u) = {}
  BY <1>1, VoidBalanced, LatestStateIs DEF Inv
<1>2. CASE StatesOf(u) # {}
  BY <1>2, LatestStateIs DEF Inv, LedgersInv
<1> QED
  BY <1>1, <1>2

\* A channel's row is never ahead of the chain.
LEMMA FollowsVersion ==
  ASSUME Inv, Mirror, NEW c \in ChannelIds, channels[c] # Nil
  PROVE  channels[c].stateVersion <= chain[c].lastState.version
<1>1. Follows(c, events, channels[c], chain[c], channelStates)
  BY DEF Mirror, FollowsInv
<1>2. channels[c].stateVersion \in Nat /\ chain[c].lastState.version \in Nat
  BY DEF Inv, ChannelsInv, ChannelRow, OnchainInv, ChainRecord
<1>3. CASE EventsIn(events, c) = {}
  BY <1>1, <1>2, <1>3 DEF Follows
<1>4. CASE EventsIn(events, c) # {}
  <2>1. PICK i \in EventsIn(events, c) : TRUE
    BY <1>4
  <2>2. /\ channels[c].stateVersion <= events[i].version
        /\ events[i].version <= chain[c].lastState.version
    BY <1>1, <2>1 DEF Follows
  <2>3. events[i].version \in Nat
    <3>1. events \in Seq(EventRecord) /\ i \in 1..Len(events)
      BY <2>1 DEF Inv, OnchainInv, EventsIn
    <3>2. events[i] \in EventRecord
      BY <3>1, ElementOfSeq
    <3> QED
      BY <3>2 DEF EventRecord
  <2> QED
    BY <1>2, <2>2, <2>3
<1> QED
  BY <1>3, <1>4

\* What the node checks before it signs the user's next state.
LEMMA CalmIs ==
  ASSUME Inv, Mirror, NEW u \in Users, EnsureNoOngoingStateTransitions(u)
  PROVE  Calm(u)
<1>1. PICK g : g = Signed(u)
  OBVIOUS
<1>2. SUFFICES ASSUME g # Nil, OverChain(g)
               PROVE  g.version <= chain[g.homeChannelId].lastState.version
  BY <1>1 DEF Calm
<1>3. g = GetLastUserState(u, TRUE)
  BY <1>1 DEF Signed
<1>4. g \in channelStates /\ CoSigned(g)
  BY <1>2, <1>3, LastSignedIs
<1>5. g.homeChannelId \in ChannelIds /\ channels[g.homeChannelId] # Nil
  BY <1>4, SignedHasChannel
<1>6. channels[g.homeChannelId].stateVersion = g.version
  BY <1>2, <1>3, <1>5 DEF EnsureNoOngoingStateTransitions, OverChain
<1> QED
  BY <1>5, <1>6, FollowsVersion

\* The transition of a validated state is the one its Apply method makes.
LEMMA AdvanceTransition ==
  ASSUME NEW s, IsState(s), NEW p, IsState(p), p.transition.type \in SubmitSupported,
         p.homeChannelId \in ChannelIds,
         p.transition.type = "transfer_send" => p.transition.accountId \in Users,
         ValidateAdvancement(s, p)
  PROVE  p.transition \in TransitionRow
<1> DEFINE n == NextState(s)
           e == ExpectedState(s, p)
           t == p.transition
           new == Applied(e, t, p.escrowLedger)
<1>1. IsState(e)
  BY ExpectedIs, Zenon
<1>2. p.homeChannelId = e.homeChannelId /\ new.transition = t
  BY DEF ValidateAdvancement
<1>3. t.amount \in Int
  BY DEF IsState
<1> HIDE DEF e
<1>4. new.transition \in TransitionRow
  BY <1>1, <1>2, <1>3, AppliedTransition
<1> QED
  BY <1>2, <1>4

\* A state that stays in its epoch follows one that is not final.
LEMMA SameEpoch ==
  ASSUME NEW l, NEW s, Extends(l, s), s.epoch = l.epoch, l.epoch \in Nat
  PROVE  ~IsFinal(l)
BY DEF Extends

LEMMA ValidSound ==
  ASSUME Inv, Mirror, Sound, NEW r \in Requests, NEW q, RequestOK(r, q), Ready(q), q # Idle,
         Valid(q)
  PROVE  /\ Balanced(q.state) /\ q.state.transition \in TransitionRow
         /\ OverChain(q.state) => q.state.transition.amount > 0
         /\ q.kind = "submit" => Calm(q.state.userWallet)
         /\ q.kind = "create" => Free(q.state.userWallet)
<1>1. PICK s, u, l : s = q.state /\ u = s.userWallet /\ l = GetLatestState(u)
  OBVIOUS
<1>2. /\ IsState(s) /\ s.transition.type \in SubmitSupported /\ u \in Users
      /\ s.homeChannelId \in ChannelIds /\ q.kind \in {"submit", "create"}
      /\ s.transition.type = "transfer_send" => s.transition.accountId \in Users
  BY <1>1 DEF RequestOK, IsState
<1>3. /\ IsState(l) /\ (IsFinal(l) => l.homeLedger.userBalance = 0) /\ Balanced(l)
  BY <1>1, <1>2, LatestStateIs, LatestBalanced DEF Inv, Sound
<1>4. ValidateAdvancement(l, s)
  BY <1>1, <1>2 DEF Valid, SubmitStateValid, RequestCreationValid
<1>5. \/ l.homeChannelId # Nil /\ ~IsFinal(l)
      \/ s.homeLedger.blockchainId = Chain /\ s.homeLedger.tokenAddress = Token
  <2>1. CASE q.kind = "submit"
    <3>1. Extends(l, s) /\ s.homeChannelId = l.homeChannelId /\ s.epoch = l.epoch
      BY <1>1, <2>1, ValidIs
    <3>2. ~IsFinal(l) /\ l.homeChannelId # Nil
      BY <1>2, <1>3, <3>1, SameEpoch, NodeAssumption DEF IsState
    <3> QED
      BY <3>2
  <2>2. CASE q.kind = "create"
    BY <1>1, <2>2 DEF Ready
  <2> QED
    BY <1>2, <2>1, <2>2
<1>6. Balanced(s)
  BY <1>2, <1>3, <1>4, <1>5, AdvanceBalanced
<1>7. s.transition \in TransitionRow
  BY <1>2, <1>3, <1>4, AdvanceTransition
<1>8. OverChain(s) => s.transition.amount > 0
  BY <1>2, <1>3, <1>4, Advance DEF OverChain
<1>9. q.kind = "submit" => Calm(u)
  <2>1. q.kind = "submit" => EnsureNoOngoingStateTransitions(u)
    BY <1>1 DEF Valid, SubmitStateValid
  <2> QED
    BY <1>2, <2>1, CalmIs
<1>10. q.kind = "create" => Free(u)
  BY <1>1, <1>2 DEF Valid, RequestCreationValid, Free
<1> QED
  BY <1>1, <1>6, <1>7, <1>8, <1>9, <1>10

\* s is in the channel of its user's last state.
Stays(s) ==
  LET l == GetLatestState(s.userWallet)
  IN  l \in channelStates /\ ~IsFinal(l) /\ s.homeChannelId = l.homeChannelId

\* How a state s joins the tables: issued by the node and unsigned, the next
\* of its channel, or the first of a new one.
Joins(s) ==
  LET u == s.userWallet
  IN  /\ s # Nil /\ Balanced(s) /\ (OverChain(s) => s.transition.amount > 0)
      /\ CoSigned(s) => s.homeChannelId # Nil
      /\ \/ /\ ~CoSigned(s) /\ FlowGain(s.transition) = 0
            /\ s.homeChannelId # Nil => Stays(s)
         \/ CoSigned(s) /\ Stays(s) /\ Calm(u)
         \/ CoSigned(s) /\ channels[s.homeChannelId] = Nil /\ Free(u)

\* The last co-signed states after a commit.
LEMMA SignedStored ==
  ASSUME Inv, NEW new, Successors(new), channelStates' = channelStates \cup new
  PROVE  /\ \A s \in new :
              /\ GetLatestState(s.userWallet)' = s
              /\ Signed(s.userWallet)' = IF CoSigned(s) THEN s ELSE Signed(s.userWallet)
         /\ \A u \in Users : (\A s \in new : s.userWallet # u) =>
              GetLatestState(u)' = GetLatestState(u) /\ Signed(u)' = Signed(u)
<1>1. /\ \A s \in new : /\ StatesOf(s.userWallet)' = StatesOf(s.userWallet) \cup {s}
                        /\ Last(s.userWallet)' = s
      /\ \A u \in Users : (\A s \in new : s.userWallet # u) =>
           StatesOf(u)' = StatesOf(u) /\ Last(u)' = Last(u)
  BY StoredNumbered DEF Inv
<1>2. ASSUME NEW s \in new
      PROVE  /\ GetLatestState(s.userWallet)' = s
             /\ Signed(s.userWallet)' = IF CoSigned(s) THEN s ELSE Signed(s.userWallet)
  <2>1. PICK u : u = s.userWallet
    OBVIOUS
  <2>2. PICK old : old = {t \in StatesOf(u) : CoSigned(t)}
    OBVIOUS
  <2>3. PICK rows : rows = {t \in StatesOf(u)' : CoSigned(t)}
    OBVIOUS
  <2>4. Signed(u) = Latest(old) /\ Signed(u)' = Latest(rows)
    BY <2>2, <2>3 DEF Signed, GetLastUserState
  <2>5. StatesOf(u)' = StatesOf(u) \cup {s} /\ Last(u)' = s
    BY <1>1, <2>1
  <2>6. GetLatestState(u)' = s
    BY <2>5 DEF GetLatestState, Last
  <2>7. CASE CoSigned(s)
    <3>1. \A t \in StatesOf(u) : Before(t, s) /\ IsState(t)
      BY <2>1, SuccessorIsAbove DEF Successors, Inv, Numbered, Storable, StatesOf
    <3>2. s \in rows /\ \A t \in rows \ {s} : t \in StatesOf(u)
      BY <2>3, <2>5, <2>7
    <3>3. IsState(s)
      BY DEF Successors, Storable
    <3>4. Latest(rows) = s
      BY <3>1, <3>2, <3>3, LatestIs
    <3> QED
      BY <2>1, <2>4, <2>6, <2>7, <3>4
  <2>8. CASE ~CoSigned(s)
    <3>1. rows = old
      BY <2>2, <2>3, <2>5, <2>8
    <3> QED
      BY <2>1, <2>4, <2>6, <2>8, <3>1
  <2> QED
    BY <2>7, <2>8
<1>3. ASSUME NEW u \in Users, \A s \in new : s.userWallet # u
      PROVE  GetLatestState(u)' = GetLatestState(u) /\ Signed(u)' = Signed(u)
  <2>1. StatesOf(u)' = StatesOf(u)
    BY <1>1, <1>3
  <2> QED
    BY <2>1 DEF GetLatestState, Signed, GetLastUserState
<1> QED
  BY <1>2, <1>3

\* The next state of a channel adds to the flow of the last co-signed one,
\* which has not closed the channel.
LEMMA StaysIs ==
  ASSUME Inv, Sound, NEW s, Storable(s), Extends(GetLatestState(s.userWallet), s), Stays(s),
         s.homeChannelId # Nil, NEW g, g = Signed(s.userWallet)
  PROVE  /\ g # Nil /\ g \in SignedIn(s.homeChannelId) /\ g.userWallet = s.userWallet
         /\ g.homeChannelId = s.homeChannelId
         /\ Flow(s) = Flow(g) + FlowGain(s.transition) /\ ~IsFinal(g)
<1>1. PICK u, l : u = s.userWallet /\ l = GetLatestState(u)
  OBVIOUS
<1>2. /\ u \in Users /\ l \in channelStates /\ ~IsFinal(l)
      /\ s.homeChannelId = l.homeChannelId
  BY <1>1 DEF Stays, Storable, IsState
<1>3. g # Nil /\ g.homeChannelId = l.homeChannelId /\ Flow(g) = Flow(l)
  BY <1>1, <1>2 DEF Sound, LastInv, Backed
<1>4. g \in StatesOf(u) /\ g \in channelStates /\ CoSigned(g) /\ g.userWallet = u
  BY <1>1, <1>2, <1>3, LastSigned DEF Sound
<1>5. Flow(s) = Flow(g) + FlowGain(s.transition)
  BY <1>1, <1>2, <1>3 DEF Extends, Flow
<1>6. ~IsFinal(g)
  <2>1. SUFFICES ASSUME IsFinal(g) PROVE FALSE
    OBVIOUS
  <2>2. l.userWallet = u /\ (g = l \/ Before(g, l))
    BY <1>1, <1>2, <1>4, LatestStateIs DEF Inv
  <2>3. g.epoch = l.epoch
    BY <1>2, <1>3, <1>4 DEF Inv, ChannelsInv
  <2>4. g.epoch \in Nat /\ g.version \in Nat /\ l.version \in Nat
    BY <1>2, <1>4 DEF Inv, Numbered, Storable, IsState
  <2>5. l.version <= g.version
    BY <1>2, <1>4, <2>1, <2>2, <2>3 DEF Inv, Numbered
  <2> QED
    BY <1>2, <2>1, <2>2, <2>3, <2>4, <2>5 DEF Before
<1> QED
  BY <1>1, <1>2, <1>3, <1>4, <1>5, <1>6 DEF SignedIn

\* A state that neither closes nor moves funds over the chain.
LEMMA NoGain ==
  ASSUME NEW g, ~IsFinal(g), ~OverChain(g)
  PROVE  FlowGain(g.transition) = 0
BY DEF FlowGain, IsFinal, OverChain

\* From what the chain holds, the flow moves by the new state's transition.
LEMMA JoinedFlow ==
  ASSUME Inv, Sound, NEW t, Storable(t), Extends(GetLatestState(t.userWallet), t), Joins(t),
         CoSigned(t), NEW c, c = t.homeChannelId,
         NEW s \in SignedIn(c), chain[c].lastState.version <= s.version
  PROVE  Flow(t) = Flow(s) + FlowGain(t.transition)
<1>1. PICK u, g : u = t.userWallet /\ g = Signed(u)
  OBVIOUS
<1>2. c \in ChannelIds /\ c # Nil
  BY NodeAssumption DEF Storable, IsState, Joins
<1>3. s \in channelStates /\ s.homeChannelId = c /\ channels[c] # Nil
  BY <1>2 DEF SignedIn, Inv, ChannelsInv
<1>4. Stays(t) /\ Calm(u)
  BY <1>1, <1>3 DEF Joins
<1>5. /\ g # Nil /\ g \in SignedIn(c) /\ g.userWallet = u /\ g.homeChannelId = c
      /\ Flow(t) = Flow(g) + FlowGain(t.transition) /\ ~IsFinal(g)
  BY <1>1, <1>2, <1>4, StaysIs
<1>6. s.userWallet = u
  BY <1>2, <1>3, <1>5 DEF SignedIn, Inv, ChannelsInv
<1>7. /\ s = g \/ s.version < g.version
      /\ s.version \in Nat /\ g.version \in Nat /\ Flow(s) \in Int /\ Flow(g) \in Int
  BY <1>1, <1>2, <1>5, <1>6, SignedInIs DEF Sound
<1>8. CASE s = g
  BY <1>5, <1>8
<1>9. CASE s.version < g.version
  <2>1. Flow(g) = Flow(s) + FlowGain(g.transition)
    BY <1>2, <1>5, <1>9 DEF Sound, FlowsInv
  <2>2. ~OverChain(g)
    <3>1. SUFFICES ASSUME OverChain(g) PROVE FALSE
      OBVIOUS
    <3>2. g.version <= chain[c].lastState.version
      BY <1>1, <1>4, <1>5, <3>1 DEF Calm
    <3>3. chain[c].lastState.version \in Nat
      BY <1>2 DEF Inv, OnchainInv, ChainRecord
    <3> QED
      BY <1>7, <1>9, <3>2, <3>3
  <2>3. FlowGain(g.transition) = 0
    BY <1>5, <2>2, NoGain
  <2> QED
    BY <1>5, <1>7, <2>1, <2>3
<1> QED
  BY <1>7, <1>8, <1>9

\* So it does from nothing.
LEMMA JoinedVoid ==
  ASSUME Inv, Mirror, Sound, NEW t, Storable(t), Extends(GetLatestState(t.userWallet), t),
         Joins(t), CoSigned(t), NEW c, c = t.homeChannelId, chain[c].status = "VOID",
         ~OpenedAtZero(c)
  PROVE  Flow(t) = FlowGain(t.transition)
<1>1. PICK u, g : u = t.userWallet /\ g = Signed(u)
  OBVIOUS
<1>2. c \in ChannelIds /\ c # Nil /\ u \in Users /\ FlowGain(t.transition) \in Int
  BY <1>1, NodeAssumption DEF Storable, IsState, Joins, FlowGain
<1>3. CASE Stays(t) /\ Calm(u)
  <2>1. /\ g # Nil /\ g \in SignedIn(c) /\ g.homeChannelId = c
        /\ Flow(t) = Flow(g) + FlowGain(t.transition) /\ ~IsFinal(g)
    BY <1>1, <1>2, <1>3, StaysIs
  <2>2. Flow(g) = FlowGain(g.transition)
    BY <1>2, <2>1 DEF Sound, VoidFlows
  <2>3. ~OverChain(g)
    <3>1. SUFFICES ASSUME OverChain(g) PROVE FALSE
      OBVIOUS
    <3>2. g.version <= chain[c].lastState.version
      BY <1>1, <1>3, <2>1, <3>1 DEF Calm
    <3>3. chain[c].lastState.version = 0
      BY <1>2 DEF Mirror, RecordsInv, Hub!EmptyState
    <3>4. g \in channelStates /\ g.version \in Nat
      BY <2>1 DEF SignedIn, Inv, Numbered, Storable, IsState
    <3>5. g.version = 0
      BY <3>2, <3>3, <3>4
    <3> QED
      BY <2>1, <3>4, <3>5 DEF OpenedAtZero
  <2>4. FlowGain(g.transition) = 0
    BY <2>1, <2>3, NoGain
  <2> QED
    BY <1>2, <2>1, <2>2, <2>4
<1>4. CASE Free(u)
  <2>1. PICK l : l = GetLatestState(u)
    OBVIOUS
  <2>2. Balanced(l)
    BY <1>2, <2>1, LatestBalanced DEF Sound
  <2>3. Flow(t) = (IF IsFinal(l) THEN 0 ELSE Flow(l)) + FlowGain(t.transition)
    BY <1>1, <2>1 DEF Extends, Flow
  <2>4. ~IsFinal(l) => Flow(l) = 0
    BY <1>4, <2>1, <2>2 DEF Free, Balanced
  <2> QED
    BY <1>2, <2>3, <2>4
<1> QED
  BY <1>1, <1>3, <1>4 DEF Joins

\* States that join the tables.
LEMMA StoreSound ==
  ASSUME Inv, Inv', Mirror, Sound, NEW new, Successors(new), \A s \in new : Joins(s),
         channelStates' = channelStates \cup new, chain' = chain, ReadyInv'
  PROVE  Sound'
<1>1. \A s \in new : /\ Storable(s) /\ Extends(GetLatestState(s.userWallet), s)
                     /\ s.userWallet \in Users
  BY DEF Successors, Storable, IsState
<1>2. \A c : /\ SignedIn(c) \subseteq SignedIn(c)'
             /\ \A s \in SignedIn(c)' : s \in SignedIn(c) \/ (s \in new /\ s.homeChannelId = c
                                                                        /\ CoSigned(s))
             /\ OpenedAtZero(c) => OpenedAtZero(c)'
  BY DEF SignedIn, OpenedAtZero
<1>3. LedgersInv'
  BY DEF Sound, LedgersInv, Joins
<1>4. LastInv'
  <2>1. SUFFICES ASSUME NEW u \in Users PROVE Backed(GetLatestState(u)', Signed(u)')
    BY DEF LastInv, Backed, Flow
  <2>2. CASE \A s \in new : s.userWallet # u
    <3>1. GetLatestState(u)' = GetLatestState(u) /\ Signed(u)' = Signed(u)
      BY <2>2, SignedStored
    <3> QED
      BY <3>1 DEF Sound, LastInv
  <2>3. CASE \E s \in new : s.userWallet = u
    <3>1. PICK s \in new : s.userWallet = u
      BY <2>3
    <3>2. GetLatestState(u)' = s /\ Signed(u)' = IF CoSigned(s) THEN s ELSE Signed(u)
      BY <3>1, SignedStored
    <3>3. s # Nil /\ Joins(s)
      BY DEF Joins
    <3>4. CASE CoSigned(s)
      BY <3>2, <3>3, <3>4 DEF Backed
    <3>5. CASE ~CoSigned(s) /\ s.homeChannelId # Nil
      <4>1. Stays(s)
        BY <3>3, <3>5 DEF Joins
      <4>2. PICK g : g = Signed(s.userWallet)
        OBVIOUS
      <4>3. /\ g # Nil /\ g \in SignedIn(s.homeChannelId) /\ g.homeChannelId = s.homeChannelId
            /\ Flow(s) = Flow(g) + FlowGain(s.transition) /\ ~IsFinal(g)
        BY <1>1, <3>5, <4>1, <4>2, StaysIs
      <4>4. Flow(g) \in Int
        BY <4>3 DEF SignedIn, Inv, Numbered, Storable, IsState, Flow
      <4>5. FlowGain(s.transition) = 0
        BY <3>3, <3>5 DEF Joins
      <4> QED
        BY <3>1, <3>2, <3>5, <4>2, <4>3, <4>4, <4>5 DEF Backed
    <3>6. CASE s.homeChannelId = Nil
      BY <3>2, <3>6 DEF Backed
    <3> QED
      BY <3>4, <3>5, <3>6
  <2> QED
    BY <2>2, <2>3
<1>5. FlowsInv'
  <2>1. SUFFICES ASSUME NEW c \in ChannelIds, NEW s \in SignedIn(c)', NEW t \in SignedIn(c)',
                        chain[c].lastState.version <= s.version, s.version < t.version
                 PROVE  Flow(t) = Flow(s) + FlowGain(t.transition)
    BY DEF FlowsInv, Flow, FlowGain
  <2>2. s \in channelStates' /\ t \in channelStates' /\ c # Nil
        /\ s.homeChannelId = c /\ t.homeChannelId = c
    BY NodeAssumption DEF SignedIn
  <2>3. s.userWallet = t.userWallet /\ s.epoch = t.epoch
    BY <2>2 DEF Inv, ChannelsInv
  <2>4. s.version \in Nat /\ t.version \in Nat /\ s.epoch \in Nat
    BY <2>2 DEF Inv, Numbered, Storable, IsState
  <2>5. CASE s \in SignedIn(c) /\ t \in SignedIn(c)
    BY <2>1, <2>5 DEF Sound, FlowsInv
  <2>6. CASE s \in SignedIn(c) /\ t \in new
    <3>1. CoSigned(t) /\ Joins(t)
      BY <2>6 DEF SignedIn
    <3> QED
      BY <1>1, <2>1, <2>2, <2>6, <3>1, JoinedFlow
  <2>7. CASE s \in new
    <3>1. CASE t \in new
      BY <2>1, <2>3, <2>4, <2>7, <3>1 DEF Successors
    <3>2. CASE t \in channelStates
      <4>1. t \in StatesOf(s.userWallet)
        BY <2>3, <3>2 DEF StatesOf
      <4>2. Before(t, s)
        BY <1>1, <2>7, <4>1, SuccessorIsAbove DEF Inv
      <4> QED
        BY <2>1, <2>3, <2>4, <4>2 DEF Before
    <3> QED
      BY <2>2, <3>1, <3>2
  <2> QED
    BY <1>2, <2>5, <2>6, <2>7
<1>6. VoidFlows'
  <2>1. SUFFICES ASSUME NEW c \in ChannelIds, chain[c].status = "VOID", ~OpenedAtZero(c)',
                        NEW t \in SignedIn(c)'
                 PROVE  Flow(t) = FlowGain(t.transition)
    BY DEF VoidFlows, Flow, FlowGain
  <2>2. ~OpenedAtZero(c)
    BY <1>2, <2>1
  <2>3. CASE t \in SignedIn(c)
    BY <2>1, <2>2, <2>3 DEF Sound, VoidFlows
  <2>4. CASE t \in new /\ t.homeChannelId = c /\ CoSigned(t)
    BY <1>1, <2>1, <2>2, <2>4, JoinedVoid
  <2> QED
    BY <1>2, <2>3, <2>4
<1>7. SettledInv'
  <2>1. SUFFICES ASSUME NEW c \in ChannelIds PROVE Settled(c, chain[c])'
    BY DEF SettledInv
  <2>2. Settled(c, chain[c])
    BY DEF Sound, SettledInv
  <2>3. \A s : s \in SignedIn(c) => s \in SignedIn(c)'
    BY <1>2
  <2> QED
    BY <2>2, <2>3 DEF Settled
<1> QED
  BY <1>3, <1>4, <1>5, <1>6, <1>7 DEF Sound

\* The row of the state that a transfer issues.
LEMMA ReceivedRow ==
  ASSUME NEW s, IsState(s), s.homeLedger.userBalance >= 0,
         IsFinal(s) => s.homeLedger.userBalance = 0, Balanced(s),
         NEW from \in Users, NEW a \in Nat, Whole(a), NEW t \in TransitionRow, NEW txId,
         txId = t.txId, NEW p, p = Received(s, from, a, txId)
  PROVE  p # Nil
<1> DEFINE n == NextState(s)
           r == ApplyTransferReceiveTransition(n, from, a, txId)
           x == [type |-> "transfer_receive", txId |-> txId, accountId |-> from, amount |-> a]
<1>1. IsState(n)
  BY NextIs
<1>2. DOMAIN n = StateFields
  BY <1>1 DEF IsState
<1> HIDE DEF n
<1>3. r.transition = x /\ DOMAIN r = StateFields
  BY <1>2 DEF ApplyTransferReceiveTransition, StateFields
<1>4. PICK b : b = (r.homeChannelId # Nil)
  OBVIOUS
<1>5. p = [r EXCEPT !.nodeSig = b]
  BY <1>4 DEF Received, n
<1> HIDE DEF r
<1>6. p.transition = x
  BY <1>3, <1>5 DEF StateFields
<1>7. x \in TransitionRow
  <2>1. a \in Int /\ "transfer_receive" \in TransitionType
    BY DEF TransitionType
  <2> QED
    BY <2>1 DEF TransitionRow
<1> HIDE DEF x
<1>8. Storable(p) /\ p.nodeSig = (p.homeChannelId # Nil)
  BY ReceiveIs
<1>9. Balanced(p) /\ p.userSig = FALSE
  BY ReceiveBalanced
<1>10. p.userSig \in BOOLEAN /\ p.nodeSig \in BOOLEAN
  BY <1>8, <1>9
<1> QED
  BY <1>5, <1>6, <1>7, <1>8, <1>9, <1>10, RowIs DEF Storable

\* It joins the receiver's states.
LEMMA ReceivedJoins ==
  ASSUME Inv, Sound, NEW v \in Users, NEW from \in Users, NEW a \in Nat, Whole(a),
         NEW t \in TransitionRow, NEW p, p = Received(GetLatestState(v), from, a, t.txId),
         p.userWallet = v
  PROVE  Joins(p)
<1>1. PICK m, txId : m = GetLatestState(v) /\ txId = t.txId
  OBVIOUS
<1>2. /\ IsState(m) /\ m.homeLedger.userBalance >= 0
      /\ IsFinal(m) => m.homeLedger.userBalance = 0
      /\ StatesOf(v) = {} => m = NewVoidState(v)
      /\ StatesOf(v) # {} => m \in channelStates
  BY <1>1, LatestStateIs DEF Inv
<1>3. Balanced(m)
  BY <1>1, LatestBalanced DEF Sound
<1>4. p = Received(m, from, a, txId)
  BY <1>1
<1>5. /\ p.transition.type = "transfer_receive"
      /\ p.homeChannelId = IF IsFinal(m) THEN Nil ELSE m.homeChannelId
  BY <1>2, <1>4, ReceiveIs
<1>6. Balanced(p) /\ p.userSig = FALSE
  <2>1. /\ IsState(m) /\ (IsFinal(m) => m.homeLedger.userBalance = 0) /\ Balanced(m)
    BY <1>2, <1>3
  <2>2. LET x == Received(m, from, a, txId) IN Balanced(x) /\ x.userSig = FALSE
    BY <2>1, ReceiveBalanced, Zenon
  <2> QED
    BY <1>4, <2>2, Zenon
<1>7. p # Nil
  BY <1>1, <1>2, <1>3, <1>4, ReceivedRow
<1>8. ~CoSigned(p) /\ ~OverChain(p) /\ FlowGain(p.transition) = 0
  BY <1>5, <1>6 DEF CoSigned, OverChain, FlowGain
<1>9. p.homeChannelId # Nil => Stays(p)
  <2>1. SUFFICES ASSUME p.homeChannelId # Nil PROVE Stays(p)
    OBVIOUS
  <2>2. ~IsFinal(m) /\ p.homeChannelId = m.homeChannelId
    BY <1>5, <2>1
  <2>3. StatesOf(v) # {}
    BY <1>2, <2>1, <2>2, VoidIs
  <2> QED
    BY <1>1, <1>2, <2>2, <2>3 DEF Stays
<1> QED
  BY <1>6, <1>7, <1>8, <1>9 DEF Joins

\* The state the node signs joins its user's states.
LEMMA SignedJoins ==
  ASSUME Inv, Sound, NEW r, NEW q, RequestOK(r, q), q # Idle, NEW s, s = q.state,
         s.userSig = TRUE, Balanced(s), s.transition \in TransitionRow,
         OverChain(s) => s.transition.amount > 0, Storable(s),
         Extends(GetLatestState(s.userWallet), s),
         q.kind = "submit" => Calm(s.userWallet),
         q.kind = "create" => Free(s.userWallet) /\ channels[s.homeChannelId] = Nil,
         NEW p, p = SignedByNode(s)
  PROVE  Joins(p)
<1>1. PICK u, l : u = s.userWallet /\ l = GetLatestState(u)
  OBVIOUS
<1>2. /\ IsState(s) /\ s.homeChannelId \in ChannelIds /\ q.kind \in {"submit", "create"}
      /\ q.kind = "submit" => Prepared(s)
  BY DEF RequestOK
<1>3. /\ Storable(p) /\ p.userWallet = u /\ p.homeChannelId = s.homeChannelId
      /\ p.transition = s.transition /\ p.homeLedger = s.homeLedger
  BY <1>1, SignedExtends
<1>4. p = [s EXCEPT !.nodeSig = TRUE] /\ DOMAIN s = StateFields
  BY <1>2 DEF SignedByNode, IsState
<1>5. p.userSig = TRUE
  BY <1>4 DEF StateFields
<1>6. p.nodeSig = TRUE
  BY <1>4 DEF StateFields
<1>7. CoSigned(p)
  BY <1>5, <1>6 DEF CoSigned
<1>8. Balanced(p) /\ (OverChain(p) => p.transition.amount > 0)
  BY <1>3 DEF Balanced, OverChain, Flow
<1>9. p.userSig \in BOOLEAN /\ p.nodeSig \in BOOLEAN
  BY <1>5, <1>6
<1>10. p # Nil
  BY <1>3, <1>4, <1>8, <1>9, RowIs DEF Storable
<1>11. p.homeChannelId # Nil
  BY <1>2, <1>3, NodeAssumption
<1>12. CASE q.kind = "submit"
  <2>1. l \in channelStates /\ s.homeChannelId = l.homeChannelId /\ s.epoch = l.epoch
    BY <1>1, <1>2, <1>12, PreparedIs DEF Inv
  <2>2. l.epoch \in Nat
    BY <2>1 DEF Inv, Numbered, Storable, IsState
  <2>3. ~IsFinal(l)
    BY <1>1, <2>1, <2>2, SameEpoch
  <2>4. Stays(p) /\ Calm(u)
    BY <1>1, <1>3, <1>12, <2>1, <2>3 DEF Stays
  <2> QED
    BY <1>3, <1>7, <1>8, <1>10, <1>11, <2>4 DEF Joins
<1>13. CASE q.kind = "create"
  <2>1. Free(u) /\ channels[p.homeChannelId] = Nil
    BY <1>1, <1>3, <1>13
  <2> QED
    BY <1>3, <1>7, <1>8, <1>10, <1>11, <2>1 DEF Joins
<1> QED
  BY <1>2, <1>12, <1>13

\* A transaction commits.
LEMMA CommitSound ==
  ASSUME Inv, Inv', Mirror, Sound, NEW r \in Requests, NEW new, NEW rows,
         Commit(r, new, rows), UNCHANGED onchain, Successors(new),
         \A s \in new : Joins(s) /\ rowLocks[s.userWallet] \in {Nil, r}
  PROVE  Sound'
<1>1. /\ channelStates' = channelStates \cup new /\ chain' = chain
      /\ requests' = [requests EXCEPT ![r] = Idle]
  BY DEF Commit, StoreUserState, Finish, onchain
<1>2. ChainGrows
  <2>1. \A c \in ChannelIds : chain[c].lastState.version \in Nat
    BY DEF Inv, OnchainInv, ChainRecord
  <2> QED
    BY <1>1, <2>1 DEF ChainGrows
<1>3. ReadyInv'
  <2>1. SUFFICES ASSUME NEW o \in Requests PROVE Ready(requests[o])'
    BY DEF ReadyInv
  <2>2. PICK x : x = requests'[o]
    OBVIOUS
  <2>3. DOMAIN requests = Requests
    BY DEF Inv, RequestsInv
  <2>4. CASE o = r
    <3>1. x = Idle
      BY <1>1, <2>2, <2>3, <2>4
    <3> QED
      BY <2>2, <3>1 DEF Ready
  <2>5. CASE o # r
    <3>1. x = requests[o]
      BY <1>1, <2>2, <2>3, <2>5
    <3>2. Ready(x) /\ RequestOK(o, x)
      BY <3>1 DEF Sound, ReadyInv, Inv, RequestsInv
    <3>3. x # Idle => x.state.userWallet \in Users
      BY <3>2 DEF RequestOK, IsState
    <3>4. ASSUME x # Idle, x.pc = "receiver"
          PROVE  LET u == x.state.userWallet IN
                 Signed(u)' = Signed(u) /\ GetLatestState(u)' = GetLatestState(u)
      <4>1. rowLocks[x.state.userWallet] = o
        BY <3>2, <3>4 DEF RequestOK
      <4>2. o # Nil
        BY NodeAssumption DEF Requests
      <4>3. \A s \in new : s.userWallet # x.state.userWallet
        BY <2>5, <4>1, <4>2
      <4> QED
        BY <1>1, <3>3, <3>4, <4>3, SignedStored
    <3>5. Ready(x)'
      BY <1>2, <3>2, <3>3, <3>4, ReadyKept DEF Sound
    <3> QED
      BY <2>2, <3>5
  <2> QED
    BY <2>4, <2>5
<1> QED
  BY <1>1, <1>3, StoreSound

LEMMA LockSound ==
  ASSUME Inv, Inv', Mirror, Sound, NEW r \in Requests, LockAndValidate(r)
  PROVE  Sound'
<1>0. PICK q, s, u, p : /\ q = requests[r] /\ s = q.state /\ u = s.userWallet
                        /\ p = SignedByNode(s)
  OBVIOUS
<1>1. /\ q.pc = "lock" /\ rowLocks[u] = Nil /\ RequestOK(r, q) /\ q # Idle /\ Ready(q)
      /\ UNCHANGED onchain
  BY <1>0 DEF LockAndValidate, Inv, RequestsInv, Idle, Sound, ReadyInv
<1>2. CASE ~Valid(q)
  <2>1. Rollback(r)
    BY <1>0, <1>2 DEF LockAndValidate
  <2> QED
    BY <1>1, <2>1, RollbackSound
<1>3. CASE Valid(q)
  <2>1. /\ u \in Users /\ Storable(s) /\ Extends(GetLatestState(u), s)
        /\ q.kind = "create" => channels[s.homeChannelId] = Nil
    BY <1>0, <1>1, <1>3, ValidIs
  <2>2. /\ Balanced(s) /\ s.transition \in TransitionRow
        /\ OverChain(s) => s.transition.amount > 0
        /\ q.kind = "submit" => Calm(u)
        /\ q.kind = "create" => Free(u)
    BY <1>0, <1>1, <1>3, ValidSound
  <2>3. /\ Storable(p) /\ Extends(GetLatestState(u), p) /\ p.userWallet = u
        /\ p.transition = s.transition
    BY <1>0, <2>1, SignedExtends
  <2>4. s.userSig = TRUE
    BY <1>0, <1>1 DEF Ready
  <2>5. CASE s.transition.type = "transfer_send"
    <3>1. requests' = [requests EXCEPT ![r].pc = "receiver"] /\ channelStates' = channelStates
      BY <1>0, <1>3, <2>3, <2>5 DEF LockAndValidate, tables
    <3>2. PICK x : x = [q EXCEPT !.pc = "receiver"]
      OBVIOUS
    <3>3. requests' = [requests EXCEPT ![r] = x]
      BY <1>0, <3>1, <3>2 DEF Inv, RequestsInv
    <3>4. x.kind = q.kind /\ x.state = s
      BY <1>0, <1>1, <3>2, PassedIs
    <3>5. Ready(x)
      BY <1>0, <1>1, <2>2, <2>4, <3>4 DEF Ready
    <3>6. chain' = chain
      BY <1>1 DEF onchain
    <3> QED
      BY <3>1, <3>3, <3>5, <3>6, RequestSound
  <2>6. CASE s.transition.type # "transfer_send"
    <3>1. PICK rows : Commit(r, {p}, rows)
      BY <1>0, <1>3, <2>3, <2>6 DEF LockAndValidate
    <3>2. Successors({p})
      BY <2>3 DEF Successors
    <3>3. Joins(p)
      BY <1>0, <1>1, <2>1, <2>2, <2>4, SignedJoins
    <3>4. \A x \in {p} : Joins(x) /\ rowLocks[x.userWallet] \in {Nil, r}
      BY <1>1, <2>3, <3>3
    <3> QED
      BY <1>1, <3>1, <3>2, <3>4, CommitSound
  <2> QED
    BY <2>5, <2>6
<1> QED
  BY <1>2, <1>3

LEMMA IssueSound ==
  ASSUME Inv, Inv', Mirror, Sound, NEW r \in Requests, IssueTransferReceiverState(r)
  PROVE  Sound'
<1>0. PICK q, s, u, v, p, new :
        /\ requests[r] = q /\ s = q.state /\ u = s.userWallet /\ v = s.transition.accountId
        /\ p = SignedByNode(s) /\ new = TransferReceiverState(p)
  OBVIOUS
<1>1. /\ q.pc = "receiver" /\ RequestOK(r, q) /\ q # Idle /\ Ready(q) /\ UNCHANGED onchain
  BY <1>0 DEF IssueTransferReceiverState, Inv, RequestsInv, Idle, Sound, ReadyInv
<1>2. /\ rowLocks[u] = r /\ u \in Users /\ Storable(s) /\ Extends(GetLatestState(u), s)
      /\ s.transition.type = "transfer_send" /\ s.transition.amount > 0
      /\ q.kind = "create" => channels[s.homeChannelId] = Nil
  BY <1>0, <1>1 DEF RequestOK, IsState
<1>3. p.transition = s.transition /\ p.userWallet = u
  BY <1>0, <1>2, SignedExtends
<1>4. rowLocks[v] = Nil
  BY <1>0, <1>3 DEF IssueTransferReceiverState
<1>5. Rollback(r) \/ (v # u /\ \E rows : Commit(r, {p, new}, rows))
  BY <1>0, <1>3 DEF IssueTransferReceiverState
<1>6. CASE Rollback(r)
  BY <1>1, <1>6, RollbackSound
<1>7. CASE v # u /\ \E rows : Commit(r, {p, new}, rows)
  <2>1. PICK rows : Commit(r, {p, new}, rows)
    BY <1>7
  <2>2. /\ Successors({p, new}) /\ v \in Users /\ new.userWallet = v
    BY <1>0, <1>1, <1>7, TransferIs
  <2>3. /\ Balanced(s) /\ s.transition \in TransitionRow /\ s.userSig = TRUE
        /\ q.kind = "submit" => Calm(u)
        /\ q.kind = "create" => Free(u)
    BY <1>0, <1>1 DEF Ready
  <2>4. ~OverChain(s)
    BY <1>2 DEF OverChain
  <2>5. Joins(p)
    BY <1>0, <1>1, <1>2, <2>3, <2>4, SignedJoins
  <2>6. PICK t, a : t = s.transition /\ a = t.amount
    OBVIOUS
  <2>7. a \in Nat /\ Whole(a) /\ t \in TransitionRow
    BY <1>2, <2>3, <2>6 DEF Storable, IsState
  <2>8. new = Received(GetLatestState(v), u, a, t.txId)
    BY <1>0, <1>3, <2>6 DEF TransferReceiverState, Received
  <2>9. Joins(new)
    BY <1>2, <2>2, <2>7, <2>8, ReceivedJoins
  <2>10. \A x \in {p, new} : Joins(x) /\ rowLocks[x.userWallet] \in {Nil, r}
    BY <1>2, <1>3, <1>4, <2>2, <2>5, <2>9
  <2> QED
    BY <1>1, <2>1, <2>2, <2>10, CommitSound
<1> QED
  BY <1>5, <1>6, <1>7

LEMMA AbortSound ==
  ASSUME Inv, Sound, NEW r \in Requests, AbortDeadlocked(r)
  PROVE  Sound'
BY RollbackSound DEF AbortDeadlocked

LEMMA SoundStep ==
  ASSUME Inv, Inv', Mirror, Sound, [Next]_vars
  PROVE  Sound'
<1>1. CASE UNCHANGED <<channelStates, chain, requests>>
  BY <1>1, SoundKept
<1>2. CASE UNCHANGED vars
  BY <1>1, <1>2 DEF vars, tables, api, onchain
<1>3. CASE ClientStep
  BY <1>3, ClientSubmitSound, ClientCreateSound, UserCheckpointSound, UserChallengeSound
  DEF ClientStep
<1>4. CASE \E r \in Requests : ApiStep(r)
  BY <1>4, GateSound, LockSound, IssueSound, AbortSound DEF ApiStep
<1>5. CASE EventStep
  BY <1>1, <1>5 DEF EventStep, BeginEvent, CommitEvent, tables, api
<1>6. CASE WorkerStep
  BY <1>1, <1>6 DEF WorkerStep, ProcessActionSent, ProcessActionFailed, tables, api, onchain
<1>7. CASE ChainStep
  BY <1>7, ExpireSound, CloseExpiredSound, MineSound DEF ChainStep
<1> QED
  BY <1>2, <1>3, <1>4, <1>5, <1>6, <1>7 DEF Next

-------------------------------------------------------------------------------
\* A state that both have signed is a row of the table.
LEMMA BothRow ==
  ASSUME NEW s, IsState(s), Balanced(s), s.transition \in TransitionRow,
         NEW p, p = [s EXCEPT !.userSig = TRUE, !.nodeSig = TRUE]
  PROVE  p # Nil /\ Balanced(p) /\ CoSigned(p)
<1>1. /\ IsState(p) /\ p.homeChannelId = s.homeChannelId
      /\ p.transition = s.transition /\ p.homeLedger = s.homeLedger
  BY BothSigned, Zenon
<1>2. DOMAIN s = StateFields
  BY DEF IsState
<1>3. p.userSig = TRUE
  BY <1>2 DEF StateFields
<1>4. p.nodeSig = TRUE
  BY <1>2 DEF StateFields
<1>5. PICK q : q = [s EXCEPT !.userSig = TRUE]
  OBVIOUS
<1>6. p = [q EXCEPT !.nodeSig = TRUE]
  BY <1>5
<1>7. Balanced(p)
  BY <1>1 DEF Balanced, Flow
<1>8. p.userSig \in BOOLEAN /\ p.nodeSig \in BOOLEAN
  BY <1>3, <1>4
<1>9. p # Nil
  BY <1>1, <1>6, <1>7, <1>8, RowIs
<1> QED
  BY <1>3, <1>4, <1>7, <1>9 DEF CoSigned

\* A past deposit.
LEMMA FirstDepositSound ==
  ASSUME NEW u \in Users
  PROVE  LET d == FirstDeposit(u) IN
         /\ d # Nil /\ Balanced(d) /\ CoSigned(d) /\ d.transition.type = "home_deposit"
         /\ d.transition.amount = 2 * AssetUnit
<1> DEFINE v == NewVoidState(u)
           n == NextState(v)
           e == ApplyChannelCreation(n, Chain, Token, 1)
           t == [type |-> "home_deposit", accountId |-> Nil, amount |-> 2 * AssetUnit]
           p == Applied(e, t, Nil)
           d == FirstDeposit(u)
<1>1. /\ IsState(v) /\ v.transition.type = "void" /\ v.userWallet = u
      /\ v.homeLedger.userBalance = 0 /\ v.homeLedger.userNetFlow = 0
  BY VoidIs
<1>2. v.homeLedger = ZeroLedger(0, NoToken)
  BY DEF NewVoidState
<1> HIDE DEF v
<1>3. IsState(n) /\ n.userWallet = u /\ n.homeLedger = v.homeLedger
  BY <1>1, NextIs DEF IsFinal
<1> HIDE DEF n
<1>4. IsState(e) /\ e.homeChannelId = <<u, 1>> /\ <<u, 1>> \in ChannelIds
  BY <1>3, CreationIs, NodeAssumption
<1>5. e.homeLedger = ZeroLedger(Chain, Token)
  <2>1. DOMAIN n = StateFields
    BY <1>3 DEF IsState
  <2>2. e.homeLedger = [n.homeLedger EXCEPT !.tokenAddress = Token, !.blockchainId = Chain]
    BY <2>1 DEF ApplyChannelCreation, StateFields
  <2>3. PICK h : h = n.homeLedger
    OBVIOUS
  <2>4. e.homeLedger = [h EXCEPT !.tokenAddress = Token, !.blockchainId = Chain]
    BY <2>2, <2>3
  <2>5. h = ZeroLedger(0, NoToken)
    BY <1>2, <1>3, <2>3
  <2> QED
    BY <2>4, <2>5 DEF ZeroLedger
<1> HIDE DEF e
<1>6. /\ e.homeLedger \in LedgerRow /\ e.homeLedger.nodeBalance = 0
      /\ e.homeLedger.nodeNetFlow = 0 /\ e.homeLedger.userBalance = 0
      /\ e.homeLedger.userNetFlow = 0 /\ e.homeLedger.blockchainId = Chain
      /\ e.homeLedger.tokenAddress = Token
  BY <1>5, NodeAssumption DEF ZeroLedger, LedgerRow
<1>7. /\ t.type = "home_deposit" /\ t.amount = 2 * AssetUnit
      /\ t.type \in SubmitSupported /\ t.amount \in Int
  BY CoreAssumption DEF SubmitSupported
<1>8. p = ApplyHomeDepositTransition(e, 2 * AssetUnit)
  BY DEF Applied
<1> HIDE DEF t
<1>9. /\ IsState(p) /\ p.homeChannelId = e.homeChannelId /\ Moves(e, p)
      /\ p.homeLedger.blockchainId = Chain /\ p.homeLedger.tokenAddress = Token
      /\ p.transition.type = "home_deposit"
  BY <1>4, <1>6, <1>7, AppliedIs
<1>10. p.transition.amount = 2 * AssetUnit
  <2>1. DOMAIN e = StateFields
    BY <1>4 DEF IsState
  <2>2. p.transition = SenderTransition(e, "home_deposit", e.homeChannelId, 2 * AssetUnit)
    BY <1>8, <2>1 DEF ApplyHomeDepositTransition, StateFields
  <2> QED
    BY <2>2 DEF SenderTransition
<1>11. /\ p.homeLedger \in LedgerRow /\ p.homeLedger.nodeBalance = 0
       /\ p.homeLedger.nodeNetFlow = 0
  BY <1>4, <1>6, <1>7, AppliedLedger
<1>12. p.transition \in TransitionRow
  BY <1>4, <1>7, AppliedTransition
<1>13. d = [p EXCEPT !.userSig = TRUE, !.nodeSig = TRUE]
  BY <1>8 DEF FirstDeposit, e, n, v
<1> HIDE DEF p, d
<1>14. /\ Gain(p.transition) = 2 * AssetUnit /\ FlowGain(p.transition) = 2 * AssetUnit
       /\ 2 * AssetUnit \in Int
  BY <1>9, <1>10, CoreAssumption DEF Gain, FlowGain
<1>15. p.homeLedger.userBalance = 2 * AssetUnit /\ Flow(p) = 2 * AssetUnit
  BY <1>6, <1>9, <1>14 DEF Moves, Flow
<1>16. Balanced(p)
  <2>1. Whole(2 * AssetUnit)
    BY DEF Whole
  <2>2. p.homeChannelId # Nil
    BY <1>4, <1>9, NodeAssumption
  <2> QED
    BY <1>9, <1>11, <1>14, <1>15, <2>1, <2>2 DEF Balanced
<1>17. d # Nil /\ Balanced(d) /\ CoSigned(d)
  BY <1>9, <1>12, <1>13, <1>16, BothRow, Zenon
<1>18. d.transition = p.transition
  BY <1>9, <1>13, BothSigned, Zenon
<1> QED
  BY <1>9, <1>10, <1>17, <1>18 DEF d

\* A channel closed after it.
LEMMA ClosingSound ==
  ASSUME NEW u \in Users
  PROVE  LET d == Closing(u) IN
         d # Nil /\ Balanced(d) /\ CoSigned(d) /\ d.transition.type = "finalize"
<1> DEFINE f == FirstDeposit(u)
           e == NextState(f)
           t == [type |-> "finalize", accountId |-> Nil, amount |-> 0]
           p == Applied(e, t, Nil)
           d == Closing(u)
<1>1. /\ Storable(f) /\ f.homeChannelId = <<u, 1>> /\ <<u, 1>> \in ChannelIds /\ ~IsFinal(f)
      /\ f.homeLedger.userBalance = 2 * AssetUnit /\ f.homeLedger.userNetFlow = 2 * AssetUnit
  BY FirstDepositIs
<1>2. Balanced(f)
  BY FirstDepositSound
<1> HIDE DEF f
<1>3. IsState(f)
  BY <1>1 DEF Storable
<1>4. IsState(e) /\ e.homeChannelId = <<u, 1>> /\ e.homeLedger = f.homeLedger
  BY <1>1, <1>3, NextIs
<1> HIDE DEF e
<1>5. /\ t.type = "finalize" /\ t.amount = 0
      /\ t.type \in SubmitSupported /\ t.amount \in Int
  BY DEF SubmitSupported
<1>6. p = ApplyFinalizeTransition(e)
  BY DEF Applied
<1> HIDE DEF t
<1>7. /\ f.homeLedger \in LedgerRow /\ f.homeLedger.nodeBalance = 0
      /\ f.homeLedger.blockchainId = Chain /\ f.homeLedger.tokenAddress = Token
      /\ f.homeLedger.nodeNetFlow = 0
  <2>1. /\ f.homeLedger \in LedgerRow /\ f.homeLedger.nodeBalance = 0
        /\ f.homeLedger.userBalance = f.homeLedger.userNetFlow + f.homeLedger.nodeNetFlow
        /\ f.homeLedger.blockchainId = Chain /\ f.homeLedger.tokenAddress = Token
    BY <1>1, <1>2, NodeAssumption DEF Balanced, Flow
  <2>2. f.homeLedger.nodeNetFlow \in Int /\ 2 * AssetUnit \in Int
    BY <2>1, CoreAssumption DEF LedgerRow
  <2> QED
    BY <1>1, <2>1, <2>2
<1>8. /\ IsState(p) /\ p.homeChannelId = e.homeChannelId /\ Moves(e, p)
      /\ p.homeLedger.blockchainId = Chain /\ p.homeLedger.tokenAddress = Token
      /\ p.transition.type = "finalize"
  BY <1>4, <1>5, <1>7, AppliedIs
<1>9. /\ p.homeLedger \in LedgerRow /\ p.homeLedger.nodeBalance = 0
      /\ p.homeLedger.nodeNetFlow = 0
  BY <1>4, <1>5, <1>7, AppliedLedger
<1>10. p.transition \in TransitionRow
  BY <1>1, <1>4, <1>5, AppliedTransition
<1>11. d = [p EXCEPT !.userSig = TRUE, !.nodeSig = TRUE]
  BY <1>6 DEF Closing, e, f
<1> HIDE DEF p, d
<1>12. /\ Gain(p.transition) = -p.transition.amount
       /\ FlowGain(p.transition) = -p.transition.amount
       /\ p.transition.amount \in Int /\ 2 * AssetUnit \in Int
  BY <1>8, CoreAssumption DEF Gain, FlowGain, IsState
<1>13. p.homeLedger.userBalance = 0 /\ Flow(p) = 0
  BY <1>1, <1>4, <1>8, <1>12 DEF Moves, Flow
<1>14. Balanced(p)
  <2>1. Whole(0)
    BY CoreAssumption DEF Whole
  <2>2. p.homeChannelId # Nil
    BY <1>1, <1>4, <1>8, NodeAssumption
  <2> QED
    BY <1>8, <1>9, <1>13, <2>1, <2>2 DEF Balanced
<1>15. d # Nil /\ Balanced(d) /\ CoSigned(d)
  BY <1>8, <1>10, <1>11, <1>14, BothRow, Zenon
<1>16. d.transition = p.transition
  BY <1>8, <1>11, BothSigned, Zenon
<1> QED
  BY <1>8, <1>15, <1>16 DEF d

LEMMA InitSound ==
  ASSUME Init
  PROVE  Sound
<1>0. Inv
  BY InitInv
<1>1. PICK past \in [Users -> Past] :
         /\ \A u \in Users : StatesOf(u) = PastSet(past[u], u)
         /\ \A s \in channelStates : s.userWallet \in Users
         /\ \A c \in ChannelIds : Beginning(past[c[1]], c)
  BY InitIs
<1>2. ASSUME NEW s \in channelStates
      PROVE  LET u == s.userWallet IN
             /\ u \in Users /\ s \in StatesOf(u)
             /\ s = FirstDeposit(u) \/ (s = Closing(u) /\ past[u] = "closed")
  <2>1. s.userWallet \in Users /\ s \in StatesOf(s.userWallet)
    BY <1>1 DEF StatesOf
  <2>2. s \in PastSet(past[s.userWallet], s.userWallet) /\ past[s.userWallet] \in Past
    BY <1>1, <2>1
  <2> QED
    BY <2>1, <2>2 DEF PastSet, Past
<1>3. ASSUME NEW s \in channelStates
      PROVE  /\ s # Nil /\ Balanced(s) /\ CoSigned(s)
             /\ OverChain(s) => s.transition.amount > 0
  <2>1. PICK u \in Users : s = FirstDeposit(u) \/ s = Closing(u)
    BY <1>2
  <2>2. CASE s = FirstDeposit(u)
    <3>1. /\ s # Nil /\ Balanced(s) /\ CoSigned(s) /\ s.transition.amount = 2 * AssetUnit
      BY <2>2, FirstDepositSound
    <3>2. 2 * AssetUnit > 0
      BY CoreAssumption
    <3> QED
      BY <3>1, <3>2
  <2>3. CASE s = Closing(u)
    <3>1. s # Nil /\ Balanced(s) /\ CoSigned(s) /\ s.transition.type = "finalize"
      BY <2>3, ClosingSound
    <3> QED
      BY <3>1 DEF OverChain
  <2> QED
    BY <2>1, <2>2, <2>3
<1>4. LedgersInv
  BY <1>3 DEF LedgersInv
<1>5. LastInv
  <2>1. SUFFICES ASSUME NEW u \in Users PROVE Backed(GetLatestState(u), Signed(u))
    BY DEF LastInv
  <2>2. CASE StatesOf(u) = {}
    <3>1. GetLatestState(u).homeChannelId = Nil
      BY <2>2, VoidIs DEF GetLatestState
    <3> QED
      BY <3>1 DEF Backed
  <2>3. CASE StatesOf(u) # {}
    <3>1. GetLatestState(u) = Last(u) /\ GetLatestState(u) \in channelStates
      BY <1>0, <2>3, LatestStateIs DEF Inv
    <3>2. {s \in StatesOf(u) : TRUE => CoSigned(s)} = {s \in StatesOf(u) : FALSE => CoSigned(s)}
      BY <1>3 DEF StatesOf
    <3>3. Signed(u) = Last(u)
      BY <3>2 DEF Signed, Last, GetLastUserState
    <3> QED
      BY <1>3, <3>1, <3>3 DEF Backed
  <2> QED
    BY <2>2, <2>3
<1>6. ASSUME NEW c \in ChannelIds, NEW s \in SignedIn(c)
      PROVE  /\ s \in channelStates /\ s.userWallet = c[1] /\ c[1] \in Users
             /\ past[c[1]] # "new"
             /\ chain[c].status = IF past[c[1]] = "closed" THEN "CLOSED" ELSE "OPERATING"
             /\ chain[c].lastState.version = IF past[c[1]] = "closed" THEN 2 ELSE 1
             /\ s.version = 1 \/ (s.version = 2 /\ past[c[1]] = "closed")
  <2>1. /\ s \in channelStates /\ s.homeChannelId = c /\ c # Nil /\ channels[c] # Nil
        /\ s.userWallet = c[1] /\ c[1] \in Users
    BY <1>0, <1>2, NodeAssumption DEF SignedIn, Inv, ChannelsInv
  <2>2. PICK u, l : u = c[1] /\ l = PastLast(past[u], u)
    OBVIOUS
  <2>3. /\ past[u] # "new" /\ chain[c].lastState = ContractState(l)
        /\ chain[c].status = IF IsFinal(l) THEN "CLOSED" ELSE "OPERATING"
    BY <1>1, <2>1, <2>2 DEF Beginning
  <2>4. (IsFinal(l) <=> past[u] = "closed") /\ past[u] \in {"funded", "closed"}
    BY <1>1, <2>1, <2>2, <2>3, PastLastIs DEF Past
  <2>5. l.version = IF past[u] = "closed" THEN 2 ELSE 1
    BY <2>1, <2>2, <2>4, FirstDepositIs, ClosingIs DEF PastLast
  <2>6. chain[c].lastState.version = l.version
    BY <2>3 DEF ContractState
  <2>7. s = FirstDeposit(u) \/ (s = Closing(u) /\ past[u] = "closed")
    BY <1>2, <2>1, <2>2
  <2>8. s.version = 1 \/ (s.version = 2 /\ past[u] = "closed")
    BY <2>1, <2>2, <2>7, FirstDepositIs, ClosingIs
  <2> QED
    BY <2>1, <2>2, <2>3, <2>4, <2>5, <2>6, <2>8
<1>7. FlowsInv
  <2>1. SUFFICES ASSUME NEW c \in ChannelIds, NEW s \in SignedIn(c), NEW t \in SignedIn(c),
                        chain[c].lastState.version <= s.version, s.version < t.version
                 PROVE  FALSE
    BY DEF FlowsInv
  <2> QED
    BY <1>6, <2>1
<1>8. VoidFlows
  BY <1>6 DEF VoidFlows
<1>9. SettledInv
  <2>1. SUFFICES ASSUME NEW c \in ChannelIds PROVE Settled(c, chain[c])
    BY DEF SettledInv
  <2>2. PICK u \in Users : u = c[1]
    BY DEF ChannelIds
  <2>3. CASE chain[c] = VoidMeta
    BY <2>3 DEF Settled, VoidMeta
  <2>4. CASE chain[c] # VoidMeta
    <3>1. PICK l : l = PastLast(past[u], u)
      OBVIOUS
    <3>2. /\ past[u] # "new" /\ l.homeChannelId = c /\ chain[c].lastState = ContractState(l)
          /\ chain[c].status = IF IsFinal(l) THEN "CLOSED" ELSE "OPERATING"
          /\ chain[c].lockedFunds = IF IsFinal(l) THEN 0 ELSE 2
      BY <1>1, <2>2, <2>4, <3>1 DEF Beginning
    <3>3. l \in PastSet(past[u], u) /\ (IsFinal(l) <=> past[u] = "closed")
      BY <1>1, <3>1, <3>2, PastLastIs
    <3>4. l \in channelStates
      BY <1>1, <3>3 DEF StatesOf
    <3>5. l \in SignedIn(c)
      BY <1>3, <3>2, <3>4 DEF SignedIn
    <3>6. ASSUME ~IsFinal(l)
          PROVE  /\ ContractState(l).homeLedger.userAllocation = 2
                 /\ ContractState(l).intent # "CLOSE"
      <4>1. l = FirstDeposit(u)
        BY <1>1, <3>1, <3>2, <3>3, <3>6 DEF PastLast, Past
      <4>2. l.homeLedger.userBalance = 2 * AssetUnit /\ l.transition.type = "home_deposit"
        BY <4>1, FirstDepositIs, FirstDepositSound
      <4>3. DecimalToBigInt(2 * AssetUnit, AssetUnit) = 2
        BY UnitsIs
      <4>4. TransitionToIntent(l.transition) # "CLOSE"
        BY <1>0, <3>4, <4>2, IntentIs DEF Inv, Numbered, IntentOf
      <4> QED
        BY <4>2, <4>3, <4>4 DEF ContractState, coreLedgerToContractLedger
    <3> QED
      BY <3>2, <3>5, <3>6 DEF Settled
  <2> QED
    BY <2>3, <2>4
<1>10. ReadyInv
  BY DEF Init, ReadyInv, Ready
<1> QED
  BY <1>4, <1>5, <1>7, <1>8, <1>9, <1>10 DEF Sound

-------------------------------------------------------------------------------
(* What the contract accepts *)

\* The engine accepts a state of user's flow f and node's flow n after one of
\* flows g and k, if its intent is the one of the difference and the node's
\* vault holds what it adds.
LEMMA EngineAccepts ==
  ASSUME NEW m, NEW cs, NEW f \in Int, NEW n \in Int, NEW g \in Int, NEW k \in Int,
         f + n >= 0, cs.nonHomeLedger = Hub!EmptyLedger,
         cs.homeLedger.chainId = Chain, cs.homeLedger.token = Token,
         cs.homeLedger.decimals = 0, cs.homeLedger.userNetFlow = f,
         cs.homeLedger.nodeNetFlow = n, cs.homeLedger.userAllocation = f + n,
         cs.homeLedger.nodeAllocation = 0, cs.version > m.lastState.version,
         m.status \in {"VOID", "OPERATING", "DISPUTED"}, m.challengeExpireAt = 0,
         m.lastState.homeLedger.userNetFlow = g, m.lastState.homeLedger.nodeNetFlow = k,
         m.lockedFunds = g + k,
         Hub!IsEmptyState(m.lastState) \/ m.lastState.homeLedger.token = Token,
         \/ cs.intent = "DEPOSIT" /\ f > g
         \/ cs.intent = "WITHDRAW" /\ f < g
         \/ cs.intent = "OPERATE" /\ f = g
         \/ cs.intent = "CLOSE" /\ m.status # "VOID" /\ f + n = 0,
         n - k <= NodeFunds
  PROVE  Hub!validateTransition(m, cs, NodeFunds, 0)
<1>1. /\ cs.intent \in {"DEPOSIT", "WITHDRAW", "OPERATE", "CLOSE"}
      /\ cs.intent # "INITIATE_MIGRATION" /\ cs.intent # "FINALIZE_MIGRATION"
      /\ cs.intent \notin Hub!EscrowIntent \cup Hub!MigrationIntent
  BY DEF Hub!EscrowIntent, Hub!MigrationIntent
<1>2. Hub!UserNfDelta(m, cs) = f - g /\ Hub!NodeNfDelta(m, cs) = n - k
  BY DEF Hub!UserNfDelta, Hub!NodeNfDelta
<1>3. Hub!validateUniversal(m, cs, 0)
  <2>1. Hub!validateTokenDecimals(cs.homeLedger)
    BY DEF Hub!validateTokenDecimals
  <2>2. Hub!IsEmptyLedger(cs.nonHomeLedger)
    BY DEF Hub!IsEmptyLedger, Hub!EmptyLedger
  <2>3. Hub!BalancedLedger(cs.homeLedger)
    BY DEF Hub!BalancedLedger
  <2> QED
    BY <1>1, <2>1, <2>2, <2>3 DEF Hub!validateUniversal
<1>4. Hub!intentAllowed(m, cs)
  BY <1>2 DEF Hub!intentAllowed, Hub!depositAllowed, Hub!withdrawAllowed, Hub!operateAllowed,
              Hub!closeAllowed, Hub!LiveStatus
<1>5. /\ Hub!nodeFundsDelta(m, cs) = n - k
      /\ Hub!userFundsDelta(m, cs) = f - g
  BY <1>1, <1>2 DEF Hub!nodeFundsDelta, Hub!userFundsDelta
<1>6. Hub!expectedLocked(m, cs) = f + n
  BY <1>5 DEF Hub!expectedLocked
<1>7. Hub!validateInvariants(m, cs, NodeFunds)
  BY <1>5, <1>6, NodeAssumption DEF Hub!validateInvariants
<1> QED
  BY <1>3, <1>4, <1>7 DEF Hub!validateTransition

\* A gain in the asset is one of the same sign in units of the token.
LEMMA UnitGain ==
  ASSUME NEW f \in Int, NEW g \in Int, NEW a \in Int, f * AssetUnit = g * AssetUnit + a
  PROVE  (a > 0 => f > g) /\ (a < 0 => f < g) /\ (a = 0 => f = g)
<1>1. PICK u \in Nat : u = AssetUnit /\ u > 0
  BY CoreAssumption
<1>2. f * u = g * u + a
  BY <1>1
<1>3. f <= g => f * u <= g * u
  BY <1>1
<1>4. g <= f => g * u <= f * u
  BY <1>1
<1>5. f * u \in Int /\ g * u \in Int
  BY <1>1
<1>6. f < g => f + 1 <= g
  OBVIOUS
<1>7. (f + 1) * u = f * u + u /\ (g + 1) * u = g * u + u
  BY <1>1
<1>8. f < g => f * u + u <= g * u
  <2>1. ASSUME f < g PROVE (f + 1) * u <= g * u
    BY <1>1, <2>1
  <2> QED
    BY <1>7, <2>1
<1>9. g < f => g * u + u <= f * u
  <2>1. ASSUME g < f PROVE (g + 1) * u <= f * u
    BY <1>1, <2>1
  <2> QED
    BY <1>7, <2>1
<1> QED
  BY <1>1, <1>2, <1>3, <1>4, <1>5, <1>8, <1>9

\* A co-signed state above what the contract holds is accepted: the user's
\* flow moves by its transition alone, as its intent says.
LEMMA AcceptsIt ==
  ASSUME Inv, Mirror, Sound, NEW c \in ChannelIds, NEW t \in SignedIn(c), Contestable(c),
         t.version > chain[c].lastState.version,
         chain[c].status = "VOID" => ~IsFinal(t) /\ ~OpenedAtZero(c),
         Hub!NodeNfDelta(chain[c], ContractState(t)) <= NodeFunds
  PROVE  Accepts(c, t)
<1>0. PICK m, cs : m = chain[c] /\ cs = ContractState(t)
  OBVIOUS
<1>1. t \in channelStates /\ t.homeChannelId = c /\ CoSigned(t) /\ c # Nil
  BY NodeAssumption DEF SignedIn
<1>2. PICK f, n : Priced(t, f, n)
  BY <1>1, PricedIs DEF Sound
<1>3. /\ m.status \in {"VOID", "OPERATING", "DISPUTED"} /\ m.challengeExpireAt = 0
  BY <1>0 DEF Contestable
<1>4. \E g, k \in Int :
        /\ m.lastState.homeLedger.userNetFlow = g /\ m.lastState.homeLedger.nodeNetFlow = k
        /\ m.lockedFunds = g + k
        /\ Hub!IsEmptyState(m.lastState) \/ m.lastState.homeLedger.token = Token
        /\ Flow(t) = g * AssetUnit + FlowGain(t.transition)
  <2>1. CASE m.status = "VOID"
    <3>1. m.lastState = Hub!EmptyState
      BY <1>0, <2>1 DEF Mirror, RecordsInv
    <3>2. /\ m.lastState.homeLedger.userNetFlow = 0 /\ m.lastState.homeLedger.nodeNetFlow = 0
          /\ Hub!IsEmptyState(m.lastState)
      BY <3>1 DEF Hub!EmptyState, Hub!EmptyLedger, Hub!IsEmptyState, Hub!IsEmptyLedger
    <3>3. m.lockedFunds = 0
      BY <1>0, <2>1 DEF Sound, SettledInv, Settled
    <3>4. Flow(t) = FlowGain(t.transition)
      BY <1>0, <2>1 DEF Sound, VoidFlows
    <3>5. Flow(t) \in Int /\ 0 * AssetUnit = 0
      BY <1>2, CoreAssumption DEF Priced
    <3>6. Flow(t) = 0 * AssetUnit + FlowGain(t.transition)
      BY <3>4, <3>5
    <3> QED
      BY <3>2, <3>3, <3>6
  <2>2. CASE m.status # "VOID"
    <3>1. /\ m.lockedFunds = m.lastState.homeLedger.userAllocation
          /\ \E s \in SignedIn(c) : m.lastState = ContractState(s)
      BY <1>0, <1>3, <2>2 DEF Sound, SettledInv, Settled
    <3>2. PICK s \in SignedIn(c) : m.lastState = ContractState(s)
      BY <3>1
    <3>3. s \in channelStates /\ s.homeChannelId # Nil
      BY <1>1 DEF SignedIn
    <3>4. PICK g, k : Priced(s, g, k)
      BY <3>3, PricedIs DEF Sound
    <3>5. /\ m.lastState.version = s.version /\ g \in Int /\ k \in Int
          /\ m.lastState.homeLedger.userNetFlow = g /\ m.lastState.homeLedger.nodeNetFlow = k
          /\ m.lastState.homeLedger.userAllocation = g + k
          /\ m.lastState.homeLedger.token = Token /\ Flow(s) = g * AssetUnit
      BY <3>2, <3>4 DEF Priced
    <3>6. s.version \in Nat /\ t.version \in Nat
      BY <1>1, <3>3 DEF Inv, Numbered, Storable, IsState
    <3>7. chain[c].lastState.version <= s.version /\ s.version < t.version
      BY <1>0, <3>5, <3>6
    <3>8. Flow(t) = Flow(s) + FlowGain(t.transition)
      BY <3>7 DEF Sound, FlowsInv
    <3> QED
      BY <3>1, <3>5, <3>8
  <2> QED
    BY <2>1, <2>2
<1>5. PICK g \in Int, k \in Int :
        /\ m.lastState.homeLedger.userNetFlow = g /\ m.lastState.homeLedger.nodeNetFlow = k
        /\ m.lockedFunds = g + k
        /\ Hub!IsEmptyState(m.lastState) \/ m.lastState.homeLedger.token = Token
        /\ Flow(t) = g * AssetUnit + FlowGain(t.transition)
  BY <1>4
<1>6. /\ f \in Int /\ n \in Int /\ f + n >= 0 /\ Flow(t) = f * AssetUnit
      /\ IsFinal(t) => f + n = 0
  BY <1>2 DEF Priced
<1>7. /\ t.transition.amount \in Int /\ Storable(t)
      /\ OverChain(t) => t.transition.amount > 0
  BY <1>1 DEF Inv, Numbered, Storable, IsState, Sound, LedgersInv
<1>8. cs.intent = IntentOf(t) /\ cs.version = t.version
  BY <1>0, <1>2, <1>7, IntentIs DEF Priced
<1>9. PICK a : a = FlowGain(t.transition)
  OBVIOUS
<1>10. /\ a \in Int
       /\ t.transition.type = "home_deposit" => a > 0
       /\ t.transition.type = "home_withdrawal" => a < 0
       /\ ~OverChain(t) /\ ~IsFinal(t) => a = 0
  BY <1>7, <1>9 DEF FlowGain, OverChain, IsFinal
<1>11. f * AssetUnit = g * AssetUnit + a
  BY <1>5, <1>6, <1>9
<1>12. (a > 0 => f > g) /\ (a < 0 => f < g) /\ (a = 0 => f = g)
  BY <1>5, <1>6, <1>10, <1>11, UnitGain
<1>13. \/ cs.intent = "DEPOSIT" /\ f > g
       \/ cs.intent = "WITHDRAW" /\ f < g
       \/ cs.intent = "OPERATE" /\ f = g
       \/ cs.intent = "CLOSE" /\ m.status # "VOID" /\ f + n = 0
  <2>1. CASE t.transition.type = "home_deposit"
    BY <1>8, <1>10, <1>12, <2>1 DEF IntentOf
  <2>2. CASE t.transition.type = "home_withdrawal"
    BY <1>8, <1>10, <1>12, <2>2 DEF IntentOf
  <2>3. CASE t.transition.type = "finalize"
    <3>1. IsFinal(t) /\ cs.intent = "CLOSE"
      BY <1>8, <2>3 DEF IntentOf, IsFinal
    <3> QED
      BY <1>0, <1>6, <3>1
  <2>4. CASE ~OverChain(t) /\ ~IsFinal(t)
    BY <1>8, <1>10, <1>12, <2>4 DEF IntentOf, OverChain, IsFinal
  <2> QED
    BY <2>1, <2>2, <2>3, <2>4 DEF OverChain, IsFinal
<1>14. /\ cs.nonHomeLedger = Hub!EmptyLedger
       /\ cs.homeLedger.chainId = Chain /\ cs.homeLedger.token = Token
       /\ cs.homeLedger.decimals = 0 /\ cs.homeLedger.userNetFlow = f
       /\ cs.homeLedger.nodeNetFlow = n /\ cs.homeLedger.userAllocation = f + n
       /\ cs.homeLedger.nodeAllocation = 0
  BY <1>0, <1>2 DEF Priced
<1>15. n - k <= NodeFunds
  <2>1. Hub!NodeNfDelta(m, cs) <= NodeFunds
    BY <1>0
  <2> QED
    BY <1>5, <1>14, <2>1 DEF Hub!NodeNfDelta
<1>16. cs.version > m.lastState.version
  BY <1>0, <1>8
<1>17. Hub!validateTransition(m, cs, NodeFunds, 0)
  BY <1>3, <1>5, <1>6, <1>13, <1>14, <1>15, <1>16, EngineAccepts
<1> QED
  BY <1>0, <1>1, <1>17 DEF Accepts

-------------------------------------------------------------------------------
\* The node's vault on the chain holds what the co-signed states to come would
\* draw from it.
VaultCovers ==
  \A c \in ChannelIds : \A s \in SignedIn(c) : s.version > chain[c].lastState.version =>
    Hub!NodeNfDelta(chain[c], ContractState(s)) <= NodeFunds

LEMMA SoundEnforceable ==
  ASSUME Inv, Mirror, Sound, VaultCovers
  PROVE  LastSignedIsEnforceable
<1>1. SUFFICES ASSUME NEW u \in Users, NEW s, NEW c, s = Signed(u), c = s.homeChannelId,
                      s # Nil, Contestable(c), ~OpenedAtZero(c)
               PROVE  \/ s.version <= chain[c].lastState.version
                      \/ Accepts(c, s)
                      \/ IsFinal(s) /\ chain[c].status = "VOID"
  BY DEF LastSignedIsEnforceable, Signed
<1>2. s \in channelStates /\ CoSigned(s)
  BY <1>1, LastSigned DEF Sound
<1>3. c \in ChannelIds /\ s.version \in Nat /\ c # Nil /\ s \in SignedIn(c)
  BY <1>1, <1>2, SignedHasChannel, NodeAssumption DEF SignedIn
<1>4. chain[c].lastState.version \in Nat
  BY <1>3 DEF Inv, OnchainInv, ChainRecord
<1>5. s.version > chain[c].lastState.version =>
        Hub!NodeNfDelta(chain[c], ContractState(s)) <= NodeFunds
  BY <1>3 DEF VaultCovers
<1> QED
  BY <1>1, <1>3, <1>4, <1>5, AcceptsIt

LEMMA SoundAnswers ==
  ASSUME Inv, Mirror, Sound, VaultCovers
  PROVE  AnswersAreAccepted
<1>1. SUFFICES ASSUME NEW i \in DOMAIN actions, NEW s, NEW c, s = ActionState(i),
                      c = s.homeChannelId, ~IsFinal(s), chain[c].status = "DISPUTED",
                      Contestable(c), s.version > chain[c].lastState.version
               PROVE  /\ CheckpointSendable(s, TRUE)
                      /\ CheckpointSendable(s, FALSE) \/ s.transition.type = "home_deposit"
  BY DEF AnswersAreAccepted
<1>2. s \in channelStates /\ CoSigned(s)
  <2>1. actions \in Seq(ActionRecord) /\ \A j \in 1..Len(actions) : Known(actions[j].stateId)
    BY DEF Inv, WorkerInv
  <2>2. Known(actions[i].stateId)
    BY <2>1
  <2> QED
    BY <1>1, <2>2, KnownIs DEF ActionState
<1>3. c \in ChannelIds /\ c # Nil /\ s \in SignedIn(c)
  BY <1>1, <1>2, SignedHasChannel, NodeAssumption DEF SignedIn
<1>4. Hub!NodeNfDelta(chain[c], ContractState(s)) <= NodeFunds
  BY <1>1, <1>3 DEF VaultCovers
<1>5. Accepts(c, s)
  BY <1>1, <1>3, <1>4, AcceptsIt
<1>6. TransitionToIntent(s.transition) = IntentOf(s)
  BY <1>2, IntentIs DEF Inv, Numbered
<1>7. TransitionToIntent(s.transition) \in {"OPERATE", "DEPOSIT", "WITHDRAW"}
  BY <1>1, <1>6 DEF IntentOf, IsFinal
<1>8. ContractState(s).intent = TransitionToIntent(s.transition)
  BY DEF ContractState
<1>9. Payable(s, TRUE) /\ (Payable(s, FALSE) \/ s.transition.type = "home_deposit")
  BY <1>6, <1>8 DEF Payable, IntentOf
<1> QED
  BY <1>1, <1>5, <1>7, <1>9 DEF CheckpointSendable

\* The node never co-signs what the chain would refuse, however requests,
\* transfers, checkpoints, challenges and event handlers interleave: as long
\* as the node's vault is funded, the last state it co-signed for a user is on
\* the chain already or would be accepted now (EnsureNoOngoingStateTransitions,
\* ValidateAdvancement, ChannelEngine.validateTransition).  Clients may submit
\* any operation on any state of theirs, with one assumption (ClientSubmit):
\* without a channel they ask request_creation for one.
THEOREM SignedStatesEnforceable == Spec => [](VaultCovers => LastSignedIsEnforceable)
<1>1. Init => Mirror /\ Sound
  BY InitMirror, InitSound
<1>2. Inv /\ Inv' /\ Mirror /\ Sound /\ [Next]_vars => Mirror' /\ Sound'
  BY MirrorStep, SoundStep
<1>3. Inv /\ Mirror /\ Sound => (VaultCovers => LastSignedIsEnforceable)
  BY SoundEnforceable
<1> QED
  BY <1>1, <1>2, <1>3, Invariance, PTL DEF Spec

\* A checkpoint the node schedules against a challenge stays one the contract
\* accepts while the challenge is open, whatever states the user submits and
\* checkpoints meanwhile (HandleHomeChannelChallenged, ScheduleCheckpoint,
\* BlockchainClient.Checkpoint), as long as the node's vault is funded.  Only
\* a deposit that the user's wallet does not pay can stop it (_pullFunds).
THEOREM ChallengesAnswered == Spec => [](VaultCovers => AnswersAreAccepted)
<1>1. Init => Mirror /\ Sound
  BY InitMirror, InitSound
<1>2. Inv /\ Inv' /\ Mirror /\ Sound /\ [Next]_vars => Mirror' /\ Sound'
  BY MirrorStep, SoundStep
<1>3. Inv /\ Mirror /\ Sound => (VaultCovers => AnswersAreAccepted)
  BY SoundAnswers
<1> QED
  BY <1>1, <1>2, <1>3, Invariance, PTL DEF Spec

-------------------------------------------------------------------------------
(* Escrows *)

\* A ledger on a chain, in units of the token: the user's and the node's
\* balance, and their flows.
Books(l, where, ub, uf, nb, nf) ==
  /\ ub \in Int /\ uf \in Int /\ nb \in Int /\ nf \in Int
  /\ l \in LedgerRow /\ l.blockchainId = where /\ l.tokenAddress = Token
  /\ l.userBalance = ub * AssetUnit /\ l.userNetFlow = uf * AssetUnit
  /\ l.nodeBalance = nb * AssetUnit /\ l.nodeNetFlow = nf * AssetUnit

\* The same in the contract's struct.
OnContract(l, where, ub, uf, nb, nf) ==
  /\ ub \in Int /\ uf \in Int /\ nb \in Int /\ nf \in Int
  /\ l.chainId = where /\ l.token = Token /\ l.decimals = 0
  /\ l.userAllocation = ub /\ l.userNetFlow = uf
  /\ l.nodeAllocation = nb /\ l.nodeNetFlow = nf

LEMMA BooksConverted ==
  ASSUME NEW l, NEW where, NEW ub, NEW uf, NEW nb, NEW nf, Books(l, where, ub, uf, nb, nf)
  PROVE  OnContract(coreLedgerToContractLedger(l, 0, AssetUnit), where, ub, uf, nb, nf)
<1>1. /\ DecimalToBigInt(l.userBalance, AssetUnit) = ub
      /\ DecimalToBigInt(l.userNetFlow, AssetUnit) = uf
      /\ DecimalToBigInt(l.nodeBalance, AssetUnit) = nb
      /\ DecimalToBigInt(l.nodeNetFlow, AssetUnit) = nf
  BY UnitsIs DEF Books
<1> QED
  BY <1>1 DEF Books, OnContract, coreLedgerToContractLedger

\* Books that balance are valid.
LEMMA BooksValid ==
  ASSUME NEW l, NEW where \in Nat \ {0}, NEW ub, NEW uf, NEW nb, NEW nf,
         Books(l, where, ub, uf, nb, nf), ub >= 0, nb >= 0, ub + nb = uf + nf
  PROVE  ValidLedger(l)
<1>1. PICK u \in Nat : u = AssetUnit /\ u > 0
  BY CoreAssumption
<1>2. ub \in Int /\ uf \in Int /\ nb \in Int /\ nf \in Int
  BY DEF Books
<1>3. ub * u >= 0 /\ nb * u >= 0
  BY <1>1, <1>2
<1>4. ub * u + nb * u = (ub + nb) * u /\ uf * u + nf * u = (uf + nf) * u
  BY <1>1, <1>2
<1> QED
  BY <1>1, <1>3, <1>4, NodeAssumption DEF Books, ValidLedger

\* The next state of an unfinished escrow or of none.
LEMMA NextKeeps ==
  ASSUME NEW s, DOMAIN s = StateFields, ~IsFinal(s),
         s.transition.type \notin {"escrow_deposit", "escrow_withdraw"},
         NEW e, e = NextState(s)
  PROVE  /\ DOMAIN e = StateFields /\ e.transition.type = "void" /\ e.version = s.version + 1
         /\ e.userWallet = s.userWallet /\ e.epoch = s.epoch
         /\ e.homeChannelId = s.homeChannelId /\ e.homeLedger = s.homeLedger
         /\ e.escrowChannelId = s.escrowChannelId /\ e.escrowLedger = s.escrowLedger
<1>1. e = [s EXCEPT !.transition = VoidTransition, !.version = s.version + 1,
                    !.userSig = FALSE, !.nodeSig = FALSE]
  BY DEF NextState
<1>2. PICK x, v : x = VoidTransition /\ v = s.version + 1
  OBVIOUS
<1>3. e = [s EXCEPT !.transition = x, !.version = v, !.userSig = FALSE, !.nodeSig = FALSE]
  BY <1>1, <1>2, Zenon
<1>4. /\ DOMAIN e = StateFields /\ e.transition = x /\ e.version = v
      /\ e.userWallet = s.userWallet /\ e.epoch = s.epoch
      /\ e.homeChannelId = s.homeChannelId /\ e.homeLedger = s.homeLedger
      /\ e.escrowChannelId = s.escrowChannelId /\ e.escrowLedger = s.escrowLedger
  BY <1>3 DEF StateFields
<1> QED
  BY <1>2, <1>4 DEF VoidTransition

\* What an Apply method leaves alone.
Kept(e, p) ==
  /\ DOMAIN p = StateFields /\ p.userWallet = e.userWallet /\ p.epoch = e.epoch
  /\ p.version = e.version /\ p.homeChannelId = e.homeChannelId

\* How it moves the amounts of a ledger.
Moved(l, k, ub, uf, nb, nf) ==
  /\ k \in LedgerRow /\ k.blockchainId = l.blockchainId /\ k.tokenAddress = l.tokenAddress
  /\ k.userBalance = l.userBalance + ub /\ k.userNetFlow = l.userNetFlow + uf
  /\ k.nodeBalance = l.nodeBalance + nb /\ k.nodeNetFlow = l.nodeNetFlow + nf

\* The four transitions of escrows.
LEMMA MutualLockIs ==
  ASSUME NEW e, DOMAIN e = StateFields, e.homeLedger \in LedgerRow, NEW where \in Nat,
         NEW a \in Int, NEW p, p = ApplyMutualLockTransition(e, where, Token, a)
  PROVE  /\ Kept(e, p) /\ p.transition.type = "mutual_lock" /\ p.transition.amount = a
         /\ p.escrowChannelId = GetEscrowChannelID(e.homeChannelId, e.version)
         /\ Moved(e.homeLedger, p.homeLedger, 0, 0, a, a)
         /\ Moved(ZeroLedger(where, Token), p.escrowLedger, a, a, 0, 0)
<1> DEFINE h == e.homeLedger
           x == GetEscrowChannelID(e.homeChannelId, e.version)
<1>1. /\ Kept(e, p) /\ p.transition.type = "mutual_lock" /\ p.transition.amount = a
      /\ p.escrowChannelId = x
  BY DEF ApplyMutualLockTransition, SenderTransition, Kept, StateFields
<1>2. DOMAIN h = LedgerFields /\ h.nodeBalance \in Int /\ h.nodeNetFlow \in Int
      /\ h.userBalance \in Int /\ h.userNetFlow \in Int
  BY DEF LedgerRow, LedgerFields
<1>3. p.homeLedger = [h EXCEPT !.nodeBalance = h.nodeBalance + a,
                               !.nodeNetFlow = h.nodeNetFlow + a]
  BY <1>2 DEF ApplyMutualLockTransition, StateFields, LedgerFields
<1>4. Moved(h, p.homeLedger, 0, 0, a, a)
  <2>1. PICK l, k, b, n : /\ l = h /\ k = p.homeLedger /\ b = h.nodeBalance + a
                          /\ n = h.nodeNetFlow + a
    OBVIOUS
  <2>2. l \in LedgerRow /\ b \in Int /\ n \in Int /\ k = [l EXCEPT !.nodeBalance = b, !.nodeNetFlow = n]
    BY <1>2, <1>3, <2>1
  <2>3. /\ k \in LedgerRow /\ k.blockchainId = l.blockchainId
        /\ k.tokenAddress = l.tokenAddress /\ k.userBalance = l.userBalance
        /\ k.userNetFlow = l.userNetFlow /\ k.nodeBalance = b /\ k.nodeNetFlow = n
    BY <2>2 DEF LedgerRow
  <2> QED
    BY <1>2, <2>1, <2>3 DEF Moved
<1>5. Moved(ZeroLedger(where, Token), p.escrowLedger, a, a, 0, 0)
  <2>1. p.escrowLedger = [tokenAddress |-> Token, blockchainId |-> where, userBalance |-> a,
                          userNetFlow |-> a, nodeBalance |-> 0, nodeNetFlow |-> 0]
    BY DEF ApplyMutualLockTransition, StateFields, ZeroLedger
  <2> QED
    BY <2>1 DEF Moved, ZeroLedger, LedgerRow
<1> QED
  BY <1>1, <1>4, <1>5

LEMMA EscrowLockIs ==
  ASSUME NEW e, DOMAIN e = StateFields, e.homeLedger \in LedgerRow,
         e.homeLedger.nodeBalance = 0, NEW where \in Nat,
         NEW a \in Int, NEW p, p = ApplyEscrowLockTransition(e, where, Token, a)
  PROVE  /\ Kept(e, p) /\ p.transition.type = "escrow_lock" /\ p.transition.amount = a
         /\ p.escrowChannelId = GetEscrowChannelID(e.homeChannelId, e.version)
         /\ Moved(e.homeLedger, p.homeLedger, 0, 0, 0, 0)
         /\ Moved(ZeroLedger(where, Token), p.escrowLedger, 0, 0, a, a)
<1> DEFINE h == e.homeLedger
           x == GetEscrowChannelID(e.homeChannelId, e.version)
<1>1. /\ Kept(e, p) /\ p.transition.type = "escrow_lock" /\ p.transition.amount = a
      /\ p.escrowChannelId = x
  BY DEF ApplyEscrowLockTransition, SenderTransition, Kept, StateFields
<1>2. DOMAIN h = LedgerFields /\ h.nodeBalance \in Int /\ h.nodeNetFlow \in Int
      /\ h.userBalance \in Int /\ h.userNetFlow \in Int
  BY DEF LedgerRow, LedgerFields
<1>3. p.homeLedger = [h EXCEPT !.nodeBalance = 0]
  BY <1>2 DEF ApplyEscrowLockTransition, StateFields, LedgerFields
<1>4. Moved(h, p.homeLedger, 0, 0, 0, 0)
  <2>1. PICK l, k : l = h /\ k = p.homeLedger
    OBVIOUS
  <2>2. l \in LedgerRow /\ k = [l EXCEPT !.nodeBalance = 0]
    BY <1>3, <2>1
  <2>3. /\ k \in LedgerRow /\ k.blockchainId = l.blockchainId
        /\ k.tokenAddress = l.tokenAddress /\ k.userBalance = l.userBalance
        /\ k.userNetFlow = l.userNetFlow /\ k.nodeBalance = 0 /\ k.nodeNetFlow = l.nodeNetFlow
    BY <2>2 DEF LedgerRow
  <2> QED
    BY <1>2, <2>1, <2>3 DEF Moved
<1>5. Moved(ZeroLedger(where, Token), p.escrowLedger, 0, 0, a, a)
  <2>1. p.escrowLedger = [tokenAddress |-> Token, blockchainId |-> where, userBalance |-> 0,
                          userNetFlow |-> 0, nodeBalance |-> a, nodeNetFlow |-> a]
    BY DEF ApplyEscrowLockTransition, StateFields, ZeroLedger
  <2> QED
    BY <2>1 DEF Moved, ZeroLedger, LedgerRow
<1> QED
  BY <1>1, <1>4, <1>5

LEMMA EscrowDepositIs ==
  ASSUME NEW e, DOMAIN e = StateFields, e.homeLedger \in LedgerRow, e.escrowLedger \in LedgerRow,
         NEW a \in Int, e.homeLedger.nodeBalance = a,
         NEW p, p = ApplyEscrowDepositTransition(e, a)
  PROVE  /\ Kept(e, p) /\ p.transition.type = "escrow_deposit" /\ p.transition.amount = a
         /\ Moved(e.homeLedger, p.homeLedger, a, 0, -a, 0)
         /\ Moved(e.escrowLedger, p.escrowLedger, -a, 0, 0, -a)
<1> DEFINE h == e.homeLedger
           g == e.escrowLedger
<1>1. Kept(e, p) /\ p.transition.type = "escrow_deposit" /\ p.transition.amount = a
  BY DEF ApplyEscrowDepositTransition, SenderTransition, Kept, StateFields
<1>2. /\ DOMAIN h = LedgerFields /\ h.nodeNetFlow \in Int
      /\ h.userBalance \in Int /\ h.userNetFlow \in Int
      /\ DOMAIN g = LedgerFields /\ g.nodeBalance \in Int /\ g.nodeNetFlow \in Int
      /\ g.userBalance \in Int /\ g.userNetFlow \in Int
  BY DEF LedgerRow, LedgerFields
<1>3. p.homeLedger = [h EXCEPT !.userBalance = h.userBalance + a, !.nodeBalance = 0]
  BY <1>2 DEF ApplyEscrowDepositTransition, StateFields, LedgerFields
<1>4. Moved(h, p.homeLedger, a, 0, -a, 0)
  <2>1. PICK l, k, b, z : l = h /\ k = p.homeLedger /\ b = h.userBalance + a /\ z = 0
    OBVIOUS
  <2>2. /\ l \in LedgerRow /\ b \in Int /\ z \in Int
        /\ k = [l EXCEPT !.userBalance = b, !.nodeBalance = z]
    BY <1>2, <1>3, <2>1
  <2>3. /\ k \in LedgerRow /\ k.blockchainId = l.blockchainId
        /\ k.tokenAddress = l.tokenAddress /\ k.userBalance = b
        /\ k.userNetFlow = l.userNetFlow /\ k.nodeBalance = z /\ k.nodeNetFlow = l.nodeNetFlow
    BY <2>2 DEF LedgerRow
  <2>4. l.nodeBalance = a
    BY <2>1
  <2> HIDE DEF h, g
  <2> QED
    BY <1>2, <2>1, <2>3, <2>4 DEF Moved
<1>5. p.escrowLedger = [g EXCEPT !.userBalance = g.userBalance - a,
                                 !.nodeNetFlow = g.nodeNetFlow - a]
  BY <1>2 DEF ApplyEscrowDepositTransition, StateFields, LedgerFields
<1>6. Moved(g, p.escrowLedger, -a, 0, 0, -a)
  <2>1. PICK l, k, b, n : /\ l = g /\ k = p.escrowLedger /\ b = g.userBalance - a
                          /\ n = g.nodeNetFlow - a
    OBVIOUS
  <2>2. /\ l \in LedgerRow /\ b \in Int /\ n \in Int
        /\ k = [l EXCEPT !.userBalance = b, !.nodeNetFlow = n]
    BY <1>2, <1>5, <2>1
  <2>3. /\ k \in LedgerRow /\ k.blockchainId = l.blockchainId
        /\ k.tokenAddress = l.tokenAddress /\ k.userBalance = b
        /\ k.userNetFlow = l.userNetFlow /\ k.nodeBalance = l.nodeBalance /\ k.nodeNetFlow = n
    BY <2>2 DEF LedgerRow
  <2> QED
    BY <1>2, <2>1, <2>3 DEF Moved
<1> QED
  BY <1>1, <1>4, <1>6

LEMMA EscrowWithdrawIs ==
  ASSUME NEW e, DOMAIN e = StateFields, e.homeLedger \in LedgerRow, e.escrowLedger \in LedgerRow,
         NEW a \in Int, NEW p, p = ApplyEscrowWithdrawTransition(e, a)
  PROVE  /\ Kept(e, p) /\ p.transition.type = "escrow_withdraw" /\ p.transition.amount = a
         /\ Moved(e.homeLedger, p.homeLedger, -a, 0, 0, -a)
         /\ Moved(e.escrowLedger, p.escrowLedger, 0, -a, -a, 0)
<1> DEFINE h == e.homeLedger
           g == e.escrowLedger
<1>1. Kept(e, p) /\ p.transition.type = "escrow_withdraw" /\ p.transition.amount = a
  BY DEF ApplyEscrowWithdrawTransition, SenderTransition, Kept, StateFields
<1>2. /\ DOMAIN h = LedgerFields /\ h.nodeNetFlow \in Int /\ h.nodeBalance \in Int
      /\ h.userBalance \in Int /\ h.userNetFlow \in Int
      /\ DOMAIN g = LedgerFields /\ g.nodeBalance \in Int /\ g.nodeNetFlow \in Int
      /\ g.userBalance \in Int /\ g.userNetFlow \in Int
  BY DEF LedgerRow, LedgerFields
<1>3. p.homeLedger = [h EXCEPT !.userBalance = h.userBalance - a,
                               !.nodeNetFlow = h.nodeNetFlow - a]
  BY <1>2 DEF ApplyEscrowWithdrawTransition, StateFields, LedgerFields
<1>4. Moved(h, p.homeLedger, -a, 0, 0, -a)
  <2>1. PICK l, k, b, n : /\ l = h /\ k = p.homeLedger /\ b = h.userBalance - a
                          /\ n = h.nodeNetFlow - a
    OBVIOUS
  <2>2. /\ l \in LedgerRow /\ b \in Int /\ n \in Int
        /\ k = [l EXCEPT !.userBalance = b, !.nodeNetFlow = n]
    BY <1>2, <1>3, <2>1
  <2>3. /\ k \in LedgerRow /\ k.blockchainId = l.blockchainId
        /\ k.tokenAddress = l.tokenAddress /\ k.userBalance = b
        /\ k.userNetFlow = l.userNetFlow /\ k.nodeBalance = l.nodeBalance /\ k.nodeNetFlow = n
    BY <2>2 DEF LedgerRow
  <2> QED
    BY <1>2, <2>1, <2>3 DEF Moved
<1>5. p.escrowLedger = [g EXCEPT !.userNetFlow = g.userNetFlow - a,
                                 !.nodeBalance = g.nodeBalance - a]
  BY <1>2 DEF ApplyEscrowWithdrawTransition, StateFields, LedgerFields
<1>6. Moved(g, p.escrowLedger, 0, -a, -a, 0)
  <2>1. PICK l, k, f, b : /\ l = g /\ k = p.escrowLedger /\ f = g.userNetFlow - a
                          /\ b = g.nodeBalance - a
    OBVIOUS
  <2>2. /\ l \in LedgerRow /\ b \in Int /\ f \in Int
        /\ k = [l EXCEPT !.userNetFlow = f, !.nodeBalance = b]
    BY <1>2, <1>5, <2>1
  <2>3. /\ k \in LedgerRow /\ k.blockchainId = l.blockchainId
        /\ k.tokenAddress = l.tokenAddress /\ k.userBalance = l.userBalance
        /\ k.userNetFlow = f /\ k.nodeBalance = b /\ k.nodeNetFlow = l.nodeNetFlow
    BY <2>2 DEF LedgerRow
  <2> QED
    BY <1>2, <2>1, <2>3 DEF Moved
<1> QED
  BY <1>1, <1>4, <1>6

\* Amounts of whole units move the books by those units.
LEMMA BooksMoved ==
  ASSUME NEW l, NEW where, NEW ub, NEW uf, NEW nb, NEW nf, Books(l, where, ub, uf, nb, nf),
         NEW a \in Int, NEW b \in Int, NEW c \in Int, NEW d \in Int, NEW k,
         Moved(l, k, a * AssetUnit, b * AssetUnit, c * AssetUnit, d * AssetUnit)
  PROVE  Books(k, where, ub + a, uf + b, nb + c, nf + d)
<1>1. PICK u \in Nat : u = AssetUnit
  BY CoreAssumption
<1>2. ub \in Int /\ uf \in Int /\ nb \in Int /\ nf \in Int
  BY DEF Books
<1>3. ub * u + a * u = (ub + a) * u /\ uf * u + b * u = (uf + b) * u
  BY <1>1, <1>2
<1>4. nb * u + c * u = (nb + c) * u /\ nf * u + d * u = (nf + d) * u
  BY <1>1, <1>2
<1> QED
  BY <1>1, <1>2, <1>3, <1>4 DEF Books, Moved

\* An unused ledger.
LEMMA ZeroBooks ==
  ASSUME NEW where \in Nat
  PROVE  Books(ZeroLedger(where, Token), where, 0, 0, 0, 0)
<1>1. 0 * AssetUnit = 0
  BY CoreAssumption
<1> QED
  BY <1>1 DEF Books, ZeroLedger, LedgerRow

\* A proposal that is what its own transition makes of the next state.
LEMMA EscrowAdvances ==
  ASSUME NEW s, NEW e, e = NextState(s), e.homeChannelId # Nil, NEW p, Kept(e, p), NEW t,
         t = p.transition, NEW el, el = p.escrowLedger, p = Applied(e, t, el),
         ValidAmount(t), ValidSuccession(s, t), MayApply(e, t, el),
         ValidLedger(p.homeLedger), ValidLedger(el), el.blockchainId # p.homeLedger.blockchainId
  PROVE  ValidateAdvancement(s, p)
<1>1. ExpectedState(s, p) = e
  BY DEF ExpectedState
<1>2. GetStateID(p) = GetStateID(e) /\ p.homeChannelId = e.homeChannelId
  BY DEF Kept, GetStateID
<1> QED
  BY <1>1, <1>2 DEF ValidateAdvancement

\* What the contract checks of every state with an escrow.
LEMMA EngineUniversal ==
  ASSUME NEW m, NEW cs, m.status = "OPERATING", cs.version > m.lastState.version,
         m.lastState.homeLedger.token = Token,
         cs.intent \in Hub!EscrowIntent,
         NEW ub, NEW uf, NEW nb, NEW nf, OnContract(cs.homeLedger, Chain, ub, uf, nb, nf),
         ub + nb = uf + nf, uf + nf >= 0,
         cs.nonHomeLedger.chainId = Chain + 1
  PROVE  Hub!validateUniversal(m, cs, 0)
<1>1. Chain \in Nat \ {0}
  BY NodeAssumption
<1>2. Hub!validateTokenDecimals(cs.homeLedger)
  BY DEF Hub!validateTokenDecimals, OnContract
<1>3. ~Hub!IsEmptyLedger(cs.nonHomeLedger) /\ cs.nonHomeLedger.chainId # Chain
  BY <1>1 DEF Hub!IsEmptyLedger
<1>4. Hub!BalancedLedger(cs.homeLedger)
  BY DEF Hub!BalancedLedger, OnContract
<1>5. cs.homeLedger.chainId = Chain /\ cs.homeLedger.token = Token
  BY DEF OnContract
<1> QED
  BY <1>2, <1>3, <1>4, <1>5 DEF Hub!validateUniversal

\* The effects of a state with an escrow.
LEMMA EngineEffects ==
  ASSUME NEW m, NEW cs, cs.intent \in Hub!EscrowIntent, m.lockedFunds \in Int,
         Hub!NodeNfDelta(m, cs) \in Int, Hub!NodeNfDelta(m, cs) <= NodeFunds,
         m.lockedFunds + Hub!NodeNfDelta(m, cs) >= 0,
         cs.homeLedger.userAllocation + cs.homeLedger.nodeAllocation =
           m.lockedFunds + Hub!NodeNfDelta(m, cs)
  PROVE  /\ Hub!validateInvariants(m, cs, NodeFunds)
         /\ Hub!expectedLocked(m, cs) = m.lockedFunds + Hub!NodeNfDelta(m, cs)
         /\ Hub!newStatus(m, cs) = "OPERATING"
<1>1. cs.intent \notin {"DEPOSIT", "WITHDRAW", "CLOSE", "INITIATE_MIGRATION", "FINALIZE_MIGRATION"}
  BY DEF Hub!EscrowIntent
<1>2. /\ Hub!userFundsDelta(m, cs) = 0
      /\ Hub!nodeFundsDelta(m, cs) = Hub!NodeNfDelta(m, cs)
  BY <1>1 DEF Hub!userFundsDelta, Hub!nodeFundsDelta
<1>3. Hub!expectedLocked(m, cs) = m.lockedFunds + Hub!NodeNfDelta(m, cs)
  BY <1>2 DEF Hub!expectedLocked
<1>4. Hub!newStatus(m, cs) = "OPERATING"
  BY <1>1 DEF Hub!newStatus
<1>5. Hub!validateInvariants(m, cs, NodeFunds)
  BY <1>2, <1>3, NodeAssumption DEF Hub!validateInvariants
<1> QED
  BY <1>3, <1>4, <1>5

\* The four transitions in the contract.
LEMMA EngineMutualLock ==
  ASSUME NEW m, NEW cs, NEW b \in Nat, NEW f \in Int, NEW n \in Int, NEW k \in Nat,
         b = f + n, k > 0, k <= NodeFunds, m.status = "OPERATING", m.lockedFunds = b,
         OnContract(m.lastState.homeLedger, Chain, b, f, 0, n),
         cs.version > m.lastState.version, cs.intent = "INITIATE_ESCROW_DEPOSIT",
         OnContract(cs.homeLedger, Chain, b, f, k, n + k),
         OnContract(cs.nonHomeLedger, Chain + 1, k, k, 0, 0)
  PROVE  /\ Hub!validateTransition(m, cs, NodeFunds, 0)
         /\ Hub!expectedLocked(m, cs) = b + k /\ Hub!newStatus(m, cs) = "OPERATING"
<1>1. cs.intent \in Hub!EscrowIntent
  BY DEF Hub!EscrowIntent
<1>2. Hub!UserNfDelta(m, cs) = 0 /\ Hub!NodeNfDelta(m, cs) = k
  BY DEF Hub!UserNfDelta, Hub!NodeNfDelta, OnContract
<1>3. Hub!validateUniversal(m, cs, 0)
  <2>1. m.lastState.homeLedger.token = Token /\ cs.nonHomeLedger.chainId = Chain + 1
    BY DEF OnContract
  <2>2. b + k = f + (n + k) /\ f + (n + k) >= 0
    OBVIOUS
  <2> QED
    BY <1>1, <2>1, <2>2, EngineUniversal
<1>4. Hub!initiateEscrowDepositAllowed(m, cs)
  BY <1>2 DEF Hub!initiateEscrowDepositAllowed, Hub!LiveStatus, Hub!SameWad, OnContract
<1>5. Hub!intentAllowed(m, cs)
  BY <1>4 DEF Hub!intentAllowed
<1>6. /\ Hub!validateInvariants(m, cs, NodeFunds) /\ Hub!expectedLocked(m, cs) = b + k
      /\ Hub!newStatus(m, cs) = "OPERATING"
  <2>1. cs.homeLedger.userAllocation + cs.homeLedger.nodeAllocation = b + k
    BY DEF OnContract
  <2> QED
    BY <1>1, <1>2, <2>1, EngineEffects
<1> QED
  BY <1>3, <1>5, <1>6 DEF Hub!validateTransition

LEMMA EngineEscrowDeposit ==
  ASSUME NEW m, NEW cs, NEW b \in Nat, NEW f \in Int, NEW n \in Int, NEW k \in Nat,
         b + k = f + n, m.status = "OPERATING", m.lockedFunds = b + k,
         OnContract(m.lastState.homeLedger, Chain, b, f, k, n),
         OnContract(m.lastState.nonHomeLedger, Chain + 1, k, k, 0, 0),
         m.lastState.intent = "INITIATE_ESCROW_DEPOSIT",
         m.lastState.version \in Nat, cs.version = m.lastState.version + 1,
         cs.intent = "FINALIZE_ESCROW_DEPOSIT",
         OnContract(cs.homeLedger, Chain, b + k, f, 0, n),
         OnContract(cs.nonHomeLedger, Chain + 1, 0, k, 0, -k)
  PROVE  Hub!validateTransition(m, cs, NodeFunds, 0)
<1>1. cs.intent \in Hub!EscrowIntent /\ cs.version > m.lastState.version
  BY DEF Hub!EscrowIntent
<1>2. Hub!UserNfDelta(m, cs) = 0 /\ Hub!NodeNfDelta(m, cs) = 0
  BY DEF Hub!UserNfDelta, Hub!NodeNfDelta, OnContract
<1>3. Hub!validateUniversal(m, cs, 0)
  <2>1. m.lastState.homeLedger.token = Token /\ cs.nonHomeLedger.chainId = Chain + 1
    BY DEF OnContract
  <2>2. (b + k) + 0 = f + n /\ f + n >= 0
    OBVIOUS
  <2> QED
    BY <1>1, <2>1, <2>2, EngineUniversal
<1>4. Hub!finalizeEscrowDepositAllowed(m, cs)
  BY <1>2 DEF Hub!finalizeEscrowDepositAllowed, Hub!LiveStatus, Hub!SameWad, OnContract
<1>5. Hub!intentAllowed(m, cs)
  BY <1>4 DEF Hub!intentAllowed
<1>6. Hub!validateInvariants(m, cs, NodeFunds)
  <2>1. cs.homeLedger.userAllocation + cs.homeLedger.nodeAllocation = b + k
    BY DEF OnContract
  <2> QED
    BY <1>1, <1>2, <2>1, EngineEffects, NodeAssumption
<1> QED
  BY <1>3, <1>5, <1>6 DEF Hub!validateTransition

LEMMA EngineEscrowLock ==
  ASSUME NEW m, NEW cs, NEW b \in Nat, NEW f \in Int, NEW n \in Int, NEW k \in Nat,
         b = f + n, m.status = "OPERATING", m.lockedFunds = b,
         OnContract(m.lastState.homeLedger, Chain, b, f, 0, n),
         cs.version > m.lastState.version, cs.intent = "INITIATE_ESCROW_WITHDRAWAL",
         OnContract(cs.homeLedger, Chain, b, f, 0, n),
         OnContract(cs.nonHomeLedger, Chain + 1, 0, 0, k, k)
  PROVE  /\ Hub!validateTransition(m, cs, NodeFunds, 0)
         /\ Hub!expectedLocked(m, cs) = b /\ Hub!newStatus(m, cs) = "OPERATING"
<1>1. cs.intent \in Hub!EscrowIntent
  BY DEF Hub!EscrowIntent
<1>2. Hub!UserNfDelta(m, cs) = 0 /\ Hub!NodeNfDelta(m, cs) = 0
  BY DEF Hub!UserNfDelta, Hub!NodeNfDelta, OnContract
<1>3. Hub!validateUniversal(m, cs, 0)
  <2>1. m.lastState.homeLedger.token = Token /\ cs.nonHomeLedger.chainId = Chain + 1
    BY DEF OnContract
  <2>2. b + 0 = f + n /\ f + n >= 0
    OBVIOUS
  <2> QED
    BY <1>1, <2>1, <2>2, EngineUniversal
<1>4. Hub!initiateEscrowWithdrawalAllowed(m, cs)
  BY <1>2 DEF Hub!initiateEscrowWithdrawalAllowed, Hub!LiveStatus, OnContract
<1>5. Hub!intentAllowed(m, cs)
  BY <1>4 DEF Hub!intentAllowed
<1>6. /\ Hub!validateInvariants(m, cs, NodeFunds) /\ Hub!expectedLocked(m, cs) = b + 0
      /\ Hub!newStatus(m, cs) = "OPERATING"
  <2>1. cs.homeLedger.userAllocation + cs.homeLedger.nodeAllocation = b
    BY DEF OnContract
  <2> QED
    BY <1>1, <1>2, <2>1, EngineEffects, NodeAssumption
<1> QED
  BY <1>3, <1>5, <1>6 DEF Hub!validateTransition

LEMMA EngineEscrowWithdraw ==
  ASSUME NEW m, NEW cs, NEW b \in Nat, NEW f \in Int, NEW n \in Int, NEW k \in Nat,
         b = f + n, k <= b, m.status = "OPERATING", m.lockedFunds = b,
         OnContract(m.lastState.homeLedger, Chain, b, f, 0, n),
         cs.version > m.lastState.version, cs.intent = "FINALIZE_ESCROW_WITHDRAWAL",
         OnContract(cs.homeLedger, Chain, b - k, f, 0, n - k),
         OnContract(cs.nonHomeLedger, Chain + 1, 0, -k, 0, k)
  PROVE  Hub!validateTransition(m, cs, NodeFunds, 0)
<1>1. cs.intent \in Hub!EscrowIntent
  BY DEF Hub!EscrowIntent
<1>2. Hub!UserNfDelta(m, cs) = 0 /\ Hub!NodeNfDelta(m, cs) = -k
  BY DEF Hub!UserNfDelta, Hub!NodeNfDelta, OnContract
<1>3. Hub!validateUniversal(m, cs, 0)
  <2>1. m.lastState.homeLedger.token = Token /\ cs.nonHomeLedger.chainId = Chain + 1
    BY DEF OnContract
  <2>2. (b - k) + 0 = f + (n - k) /\ f + (n - k) >= 0
    OBVIOUS
  <2> QED
    BY <1>1, <2>1, <2>2, EngineUniversal
<1>4. Hub!finalizeEscrowWithdrawalAllowed(m, cs)
  BY <1>2 DEF Hub!finalizeEscrowWithdrawalAllowed, Hub!LiveStatus, OnContract
<1>5. Hub!intentAllowed(m, cs)
  BY <1>4 DEF Hub!intentAllowed
<1>6. Hub!validateInvariants(m, cs, NodeFunds)
  <2>1. cs.homeLedger.userAllocation + cs.homeLedger.nodeAllocation = b - k
    BY DEF OnContract
  <2> QED
    BY <1>1, <1>2, <2>1, EngineEffects, NodeAssumption
<1> QED
  BY <1>3, <1>5, <1>6 DEF Hub!validateTransition

\* A state with an escrow, as the contract sees it.
LEMMA EscrowContract ==
  ASSUME NEW p, NEW cs, cs = ContractState(p), NEW ub, NEW uf, NEW nb, NEW nf,
         Books(p.homeLedger, Chain, ub, uf, nb, nf), NEW eub, NEW euf, NEW enb, NEW enf,
         Books(p.escrowLedger, Chain + 1, eub, euf, enb, enf)
  PROVE  /\ cs.version = p.version /\ cs.intent = TransitionToIntent(p.transition)
         /\ OnContract(cs.homeLedger, Chain, ub, uf, nb, nf)
         /\ OnContract(cs.nonHomeLedger, Chain + 1, eub, euf, enb, enf)
<1>1. p.escrowLedger # Nil
  BY NodeAssumption DEF Books
<1>2. /\ cs.version = p.version /\ cs.intent = TransitionToIntent(p.transition)
      /\ cs.homeLedger = coreLedgerToContractLedger(p.homeLedger, 0, AssetUnit)
      /\ cs.nonHomeLedger = coreLedgerToContractLedger(p.escrowLedger, 0, AssetUnit)
  BY <1>1 DEF ContractState
<1> QED
  BY <1>2, BooksConverted

\* The state an escrow starts from: b units of the user, the flows f and n,
\* and the channel's record m.
Origin(s, m, b, f, n) ==
  /\ DOMAIN s = StateFields /\ s.homeChannelId \in ChannelIds /\ s.version \in Nat
  /\ s.transition.type \notin {"finalize", "mutual_lock", "escrow_lock", "escrow_deposit",
                               "escrow_withdraw"}
  /\ b \in Nat /\ f \in Int /\ n \in Int /\ b = f + n
  /\ Books(s.homeLedger, Chain, b, f, 0, n)
  /\ m.status = "OPERATING" /\ m.lockedFunds = b /\ m.lastState.version = s.version
  /\ OnContract(m.lastState.homeLedger, Chain, b, f, 0, n)

\* An amount of k units.
LEMMA AmountIs ==
  ASSUME NEW k \in Nat, k > 0, NEW a, a = k * AssetUnit
  PROVE  /\ a \in Int /\ a > 0 /\ a % AssetUnit = 0
         /\ 0 = 0 * AssetUnit /\ -a = (-k) * AssetUnit
<1>1. PICK u \in Nat : u = AssetUnit /\ u > 0
  BY CoreAssumption
<1>2. k * u \in Int /\ k * u > 0
  BY <1>1
<1>3. (k * u) % u = 0
  BY <1>1
<1>4. 0 = 0 * u /\ -(k * u) = (-k) * u
  BY <1>1
<1> QED
  BY <1>1, <1>2, <1>3, <1>4

\* p locks the amount a for an escrow after s.
LocksEscrow(s, p, type, a) ==
  /\ DOMAIN p = StateFields /\ p.homeChannelId = s.homeChannelId /\ p.version = s.version + 1
  /\ p.transition.type = type /\ p.transition.amount = a /\ p.escrowChannelId # Nil

LEMMA EscrowIdIs ==
  ASSUME NEW c \in ChannelIds, NEW v \in Nat
  PROVE  GetEscrowChannelID(c, v) # Nil
<1>1. <<c, v>> \in ChannelIds \X Nat
  OBVIOUS
<1> QED
  BY <1>1, NodeAssumption, Zenon DEF GetEscrowChannelID

\* The four steps of escrows of k units, with what is known before each.
MutualLocks(s, m, b, f, n, k, a, p) ==
  /\ Origin(s, m, b, f, n) /\ k \in Nat /\ k > 0 /\ k <= NodeFunds /\ a = k * AssetUnit
  /\ p = ApplyMutualLockTransition(NextState(s), Chain + 1, Token, a)

EscrowLocks(s, m, b, f, n, k, a, p) ==
  /\ Origin(s, m, b, f, n) /\ k \in Nat /\ k > 0 /\ a = k * AssetUnit
  /\ a <= s.homeLedger.userBalance
  /\ p = ApplyEscrowLockTransition(NextState(s), Chain + 1, Token, a)

Deposits(s, p, b, f, n, k, a, o, q) ==
  /\ s.version \in Nat /\ s.homeChannelId \in ChannelIds /\ b \in Nat /\ f \in Int /\ n \in Int
  /\ k \in Nat /\ k > 0 /\ b = f + n /\ a = k * AssetUnit
  /\ LocksEscrow(s, p, "mutual_lock", a)
  /\ Books(p.homeLedger, Chain, b, f, k, n + k) /\ Books(p.escrowLedger, Chain + 1, k, k, 0, 0)
  /\ o.status = "OPERATING" /\ o.lastState = ContractState(p) /\ o.lockedFunds = b + k
  /\ q = ApplyEscrowDepositTransition(NextState(p), a)

Withdraws(s, p, b, f, n, k, a, o, q) ==
  /\ s.version \in Nat /\ s.homeChannelId \in ChannelIds /\ b \in Nat /\ f \in Int /\ n \in Int
  /\ k \in Nat /\ k > 0 /\ k <= b /\ b = f + n /\ a = k * AssetUnit
  /\ LocksEscrow(s, p, "escrow_lock", a)
  /\ Books(p.homeLedger, Chain, b, f, 0, n) /\ Books(p.escrowLedger, Chain + 1, 0, 0, k, k)
  /\ o.status = "OPERATING" /\ o.lastState = ContractState(p) /\ o.lockedFunds = b
  /\ q = ApplyEscrowWithdrawTransition(NextState(p), a)

LEMMA MutualLockAgrees ==
  ASSUME NEW s, NEW m, NEW b, NEW f, NEW n, NEW k, NEW a, NEW p,
         MutualLocks(s, m, b, f, n, k, a, p)
  PROVE  /\ BothAccept(s, p, m) /\ LocksEscrow(s, p, "mutual_lock", a)
         /\ Books(p.homeLedger, Chain, b, f, k, n + k)
         /\ Books(p.escrowLedger, Chain + 1, k, k, 0, 0)
         /\ Hub!expectedLocked(m, ContractState(p)) = b + k
         /\ Hub!newStatus(m, ContractState(p)) = "OPERATING"
<1> USE DEF MutualLocks
<1>0. PICK e : e = NextState(s)
  OBVIOUS
<1>1. /\ DOMAIN e = StateFields /\ e.transition.type = "void" /\ e.version = s.version + 1
      /\ e.homeChannelId = s.homeChannelId /\ e.homeLedger = s.homeLedger
  BY <1>0, NextKeeps DEF Origin, IsFinal
<1>2. /\ s.homeChannelId \in ChannelIds /\ s.version \in Nat /\ e.homeChannelId # Nil
      /\ b \in Nat /\ f \in Int /\ n \in Int /\ b = f + n
      /\ Books(e.homeLedger, Chain, b, f, 0, n)
  BY <1>1, NodeAssumption DEF Origin
<1>3. /\ a \in Int /\ a > 0 /\ a % AssetUnit = 0 /\ 0 = 0 * AssetUnit
  BY AmountIs
<1>4. Chain + 1 \in Nat \ {0} /\ Chain \in Nat \ {0} /\ Chain + 1 # Chain
  BY NodeAssumption
<1>5. /\ Kept(e, p) /\ p.transition.type = "mutual_lock" /\ p.transition.amount = a
      /\ p.escrowChannelId = GetEscrowChannelID(e.homeChannelId, e.version)
      /\ Moved(e.homeLedger, p.homeLedger, 0, 0, a, a)
      /\ Moved(ZeroLedger(Chain + 1, Token), p.escrowLedger, a, a, 0, 0)
  <2>1. e.homeLedger \in LedgerRow /\ Chain + 1 \in Nat
    BY <1>2, <1>4 DEF Books
  <2> QED
    BY <1>0, <1>1, <1>3, <2>1, MutualLockIs
<1>6. LocksEscrow(s, p, "mutual_lock", a)
  <2>1. e.homeChannelId \in ChannelIds /\ e.version \in Nat
    BY <1>1, <1>2
  <2>2. p.escrowChannelId # Nil
    BY <1>5, <2>1, EscrowIdIs
  <2> QED
    BY <1>1, <1>5, <2>2 DEF LocksEscrow, Kept
<1>7. Books(p.homeLedger, Chain, b, f, k, n + k)
  <2>1. Moved(e.homeLedger, p.homeLedger, 0 * AssetUnit, 0 * AssetUnit, k * AssetUnit,
              k * AssetUnit)
    BY <1>3, <1>5, Zenon
  <2>2. Books(p.homeLedger, Chain, b + 0, f + 0, 0 + k, n + k)
    BY <1>2, <2>1, BooksMoved
  <2> QED
    BY <1>2, <2>2
<1>8. Books(p.escrowLedger, Chain + 1, k, k, 0, 0)
  <2>1. Moved(ZeroLedger(Chain + 1, Token), p.escrowLedger, k * AssetUnit, k * AssetUnit,
              0 * AssetUnit, 0 * AssetUnit)
    BY <1>3, <1>5, Zenon
  <2>2. Books(ZeroLedger(Chain + 1, Token), Chain + 1, 0, 0, 0, 0)
    BY <1>4, ZeroBooks
  <2>3. Books(p.escrowLedger, Chain + 1, 0 + k, 0 + k, 0 + 0, 0 + 0)
    BY <2>1, <2>2, BooksMoved
  <2> QED
    BY <2>3
<1>9. ValidateAdvancement(s, p)
  <2>0. PICK t, el : t = p.transition /\ el = p.escrowLedger
    OBVIOUS
  <2>1. /\ el.blockchainId = Chain + 1 /\ el.tokenAddress = Token /\ el # Nil
        /\ p.homeLedger.blockchainId = Chain
    BY <1>7, <1>8, <2>0, NodeAssumption DEF Books
  <2>2. t.type = "mutual_lock" /\ t.amount = a
    BY <1>5, <2>0
  <2>3. p = Applied(e, t, el)
    BY <1>0, <2>1, <2>2 DEF Applied
  <2>4. ValidAmount(t)
    BY <1>3, <2>2 DEF ValidAmount, ValidateDecimalPrecision
  <2>5. ValidSuccession(s, t)
    BY <2>2 DEF ValidSuccession, Origin
  <2>6. MayApply(e, t, el)
    BY <1>1, <1>2, <1>4, <2>1, <2>2, NodeAssumption DEF MayApply
  <2>7. ValidLedger(p.homeLedger)
    <3>1. b >= 0 /\ k >= 0 /\ b + k = f + (n + k)
      BY <1>2
    <3> QED
      BY <1>4, <1>7, <3>1, BooksValid
  <2>8. ValidLedger(el)
    <3>1. k >= 0 /\ 0 >= 0 /\ k + 0 = k + 0
      OBVIOUS
    <3> QED
      BY <1>4, <1>8, <2>0, <3>1, BooksValid
  <2>9. el.blockchainId # p.homeLedger.blockchainId
    BY <1>4, <2>1
  <2> QED
    BY <1>0, <1>2, <1>5, <2>0, <2>3, <2>4, <2>5, <2>6, <2>7, <2>8, <2>9, EscrowAdvances
<1>10. PICK cs : cs = ContractState(p)
  OBVIOUS
<1>11. /\ cs.version = s.version + 1 /\ cs.intent = "INITIATE_ESCROW_DEPOSIT"
       /\ OnContract(cs.homeLedger, Chain, b, f, k, n + k)
       /\ OnContract(cs.nonHomeLedger, Chain + 1, k, k, 0, 0)
  <2>1. /\ cs.version = p.version /\ cs.intent = TransitionToIntent(p.transition)
        /\ OnContract(cs.homeLedger, Chain, b, f, k, n + k)
        /\ OnContract(cs.nonHomeLedger, Chain + 1, k, k, 0, 0)
    BY <1>7, <1>8, <1>10, EscrowContract
  <2> QED
    BY <1>1, <1>5, <2>1 DEF Kept, TransitionToIntent
<1>12. /\ Hub!validateTransition(m, cs, NodeFunds, 0)
       /\ Hub!expectedLocked(m, cs) = b + k /\ Hub!newStatus(m, cs) = "OPERATING"
  <2>1. /\ m.status = "OPERATING" /\ m.lockedFunds = b /\ cs.version > m.lastState.version
        /\ OnContract(m.lastState.homeLedger, Chain, b, f, 0, n)
    BY <1>2, <1>11 DEF Origin
  <2> QED
    BY <1>2, <1>11, <2>1, EngineMutualLock
<1> QED
  BY <1>6, <1>7, <1>8, <1>9, <1>10, <1>12 DEF BothAccept

\* The contract's record once the locking state p is enforced.
LEMMA MetaAfterIs ==
  ASSUME NEW m, NEW cs, NEW o, o = MetaAfter(m, cs), NEW x, Hub!expectedLocked(m, cs) = x,
         Hub!newStatus(m, cs) = "OPERATING"
  PROVE  o.status = "OPERATING" /\ o.lastState = cs /\ o.lockedFunds = x
BY DEF MetaAfter

LEMMA EscrowDepositAgrees ==
  ASSUME NEW s, NEW p, NEW b, NEW f, NEW n, NEW k, NEW a, NEW o, NEW q,
         Deposits(s, p, b, f, n, k, a, o, q)
  PROVE  BothAccept(p, q, o) /\ q.homeLedger.userBalance = p.homeLedger.userBalance + a
<1> USE DEF Deposits
<1>0. PICK e : e = NextState(p)
  OBVIOUS
<1>1. /\ DOMAIN e = StateFields /\ e.transition.type = "void" /\ e.version = p.version + 1
      /\ e.homeChannelId = p.homeChannelId /\ e.homeLedger = p.homeLedger
      /\ e.escrowChannelId = p.escrowChannelId /\ e.escrowLedger = p.escrowLedger
  BY <1>0, NextKeeps DEF LocksEscrow, IsFinal
<1>2. /\ e.homeChannelId # Nil /\ p.version \in Nat /\ p.transition.amount = a
      /\ p.transition.type = "mutual_lock"
  BY <1>1, NodeAssumption DEF LocksEscrow
<1>3. a \in Int /\ a > 0 /\ a % AssetUnit = 0 /\ 0 = 0 * AssetUnit /\ -a = (-k) * AssetUnit
  BY AmountIs
<1>4. Chain + 1 \in Nat \ {0} /\ Chain \in Nat \ {0} /\ Chain + 1 # Chain
  BY NodeAssumption
<1>5. /\ Kept(e, q) /\ q.transition.type = "escrow_deposit" /\ q.transition.amount = a
      /\ Moved(e.homeLedger, q.homeLedger, a, 0, -a, 0)
      /\ Moved(e.escrowLedger, q.escrowLedger, -a, 0, 0, -a)
  <2>1. /\ e.homeLedger \in LedgerRow /\ e.escrowLedger \in LedgerRow
        /\ e.homeLedger.nodeBalance = a
    BY <1>1 DEF Books
  <2> QED
    BY <1>0, <1>1, <1>3, <2>1, EscrowDepositIs
<1>6. q.homeLedger.userBalance = p.homeLedger.userBalance + a
  BY <1>1, <1>5 DEF Moved
<1>7. Books(q.homeLedger, Chain, b + k, f, 0, n + k)
  <2>1. Moved(e.homeLedger, q.homeLedger, k * AssetUnit, 0 * AssetUnit, (-k) * AssetUnit,
              0 * AssetUnit)
    BY <1>3, <1>5, Zenon
  <2>2. Books(e.homeLedger, Chain, b, f, k, n + k) /\ -k \in Int
    BY <1>1
  <2>3. Books(q.homeLedger, Chain, b + k, f + 0, k + (-k), (n + k) + 0)
    BY <2>1, <2>2, BooksMoved
  <2> QED
    BY <2>3
<1>8. Books(q.escrowLedger, Chain + 1, 0, k, 0, -k)
  <2>1. Moved(e.escrowLedger, q.escrowLedger, (-k) * AssetUnit, 0 * AssetUnit, 0 * AssetUnit,
              (-k) * AssetUnit)
    BY <1>3, <1>5, Zenon
  <2>2. Books(e.escrowLedger, Chain + 1, k, k, 0, 0) /\ -k \in Int
    BY <1>1
  <2>3. Books(q.escrowLedger, Chain + 1, k + (-k), k + 0, 0 + 0, 0 + (-k))
    BY <2>1, <2>2, BooksMoved
  <2> QED
    BY <2>3
<1>9. ValidateAdvancement(p, q)
  <2>0. PICK t, el : t = q.transition /\ el = q.escrowLedger
    OBVIOUS
  <2>1. /\ el.blockchainId = Chain + 1 /\ q.homeLedger.blockchainId = Chain
        /\ e.escrowLedger # Nil /\ e.escrowChannelId # Nil
    BY <1>1, <1>7, <1>8, <2>0, NodeAssumption DEF Books, LocksEscrow
  <2>2. t.type = "escrow_deposit" /\ t.amount = a
    BY <1>5, <2>0
  <2>3. q = Applied(e, t, el)
    BY <1>0, <2>2 DEF Applied
  <2>4. ValidAmount(t)
    BY <1>3, <2>2 DEF ValidAmount, ValidateDecimalPrecision
  <2>5. ValidSuccession(p, t)
    BY <1>2, <2>2 DEF ValidSuccession
  <2>6. MayApply(e, t, el)
    BY <1>1, <2>1, <2>2 DEF MayApply
  <2>7. ValidLedger(q.homeLedger)
    <3>1. b + k >= 0 /\ 0 >= 0 /\ (b + k) + 0 = f + (n + k)
      OBVIOUS
    <3> QED
      BY <1>4, <1>7, <3>1, BooksValid
  <2>8. ValidLedger(el)
    <3>1. 0 >= 0 /\ 0 + 0 = k + (-k)
      OBVIOUS
    <3> QED
      BY <1>4, <1>8, <2>0, <3>1, BooksValid
  <2>9. el.blockchainId # q.homeLedger.blockchainId
    BY <1>4, <2>1
  <2> QED
    BY <1>0, <1>2, <1>5, <2>0, <2>3, <2>4, <2>5, <2>6, <2>7, <2>8, <2>9, EscrowAdvances
<1>10. PICK cs, os : cs = ContractState(q) /\ os = ContractState(p)
  OBVIOUS
<1>11. /\ cs.version = p.version + 1 /\ cs.intent = "FINALIZE_ESCROW_DEPOSIT"
       /\ OnContract(cs.homeLedger, Chain, b + k, f, 0, n + k)
       /\ OnContract(cs.nonHomeLedger, Chain + 1, 0, k, 0, -k)
  <2>1. /\ cs.version = q.version /\ cs.intent = TransitionToIntent(q.transition)
        /\ OnContract(cs.homeLedger, Chain, b + k, f, 0, n + k)
        /\ OnContract(cs.nonHomeLedger, Chain + 1, 0, k, 0, -k)
    BY <1>7, <1>8, <1>10, EscrowContract
  <2> QED
    BY <1>1, <1>5, <2>1 DEF Kept, TransitionToIntent
<1>12. /\ os.version = p.version /\ os.intent = "INITIATE_ESCROW_DEPOSIT"
       /\ OnContract(os.homeLedger, Chain, b, f, k, n + k)
       /\ OnContract(os.nonHomeLedger, Chain + 1, k, k, 0, 0)
  <2>1. /\ os.version = p.version /\ os.intent = TransitionToIntent(p.transition)
        /\ OnContract(os.homeLedger, Chain, b, f, k, n + k)
        /\ OnContract(os.nonHomeLedger, Chain + 1, k, k, 0, 0)
    BY <1>10, EscrowContract
  <2> QED
    BY <1>2, <2>1 DEF TransitionToIntent
<1>13. Hub!validateTransition(o, cs, NodeFunds, 0)
  <2>1. PICK x : x = n + k
    OBVIOUS
  <2>2. /\ x \in Int /\ b + k = f + x
        /\ OnContract(o.lastState.homeLedger, Chain, b, f, k, x)
        /\ OnContract(o.lastState.nonHomeLedger, Chain + 1, k, k, 0, 0)
        /\ o.lastState.intent = "INITIATE_ESCROW_DEPOSIT"
        /\ o.lastState.version \in Nat /\ cs.version = o.lastState.version + 1
        /\ OnContract(cs.homeLedger, Chain, b + k, f, 0, x)
    BY <1>2, <1>10, <1>11, <1>12, <2>1
  <2> QED
    BY <1>11, <2>2, EngineEscrowDeposit
<1> QED
  BY <1>6, <1>9, <1>10, <1>13 DEF BothAccept

LEMMA EscrowLockAgrees ==
  ASSUME NEW s, NEW m, NEW b, NEW f, NEW n, NEW k, NEW a, NEW p,
         EscrowLocks(s, m, b, f, n, k, a, p)
  PROVE  /\ BothAccept(s, p, m) /\ LocksEscrow(s, p, "escrow_lock", a)
         /\ Books(p.homeLedger, Chain, b, f, 0, n)
         /\ Books(p.escrowLedger, Chain + 1, 0, 0, k, k)
         /\ Hub!expectedLocked(m, ContractState(p)) = b
         /\ Hub!newStatus(m, ContractState(p)) = "OPERATING"
<1> USE DEF EscrowLocks
<1>0. PICK e : e = NextState(s)
  OBVIOUS
<1>1. /\ DOMAIN e = StateFields /\ e.transition.type = "void" /\ e.version = s.version + 1
      /\ e.homeChannelId = s.homeChannelId /\ e.homeLedger = s.homeLedger
  BY <1>0, NextKeeps DEF Origin, IsFinal
<1>2. /\ s.homeChannelId \in ChannelIds /\ s.version \in Nat /\ e.homeChannelId # Nil
      /\ b \in Nat /\ f \in Int /\ n \in Int /\ b = f + n
      /\ Books(e.homeLedger, Chain, b, f, 0, n)
  BY <1>1, NodeAssumption DEF Origin
<1>3. /\ a \in Int /\ a > 0 /\ a % AssetUnit = 0 /\ 0 = 0 * AssetUnit
  BY AmountIs
<1>4. Chain + 1 \in Nat \ {0} /\ Chain \in Nat \ {0} /\ Chain + 1 # Chain
  BY NodeAssumption
<1>5. /\ Kept(e, p) /\ p.transition.type = "escrow_lock" /\ p.transition.amount = a
      /\ p.escrowChannelId = GetEscrowChannelID(e.homeChannelId, e.version)
      /\ Moved(e.homeLedger, p.homeLedger, 0, 0, 0, 0)
      /\ Moved(ZeroLedger(Chain + 1, Token), p.escrowLedger, 0, 0, a, a)
  <2>1. e.homeLedger \in LedgerRow /\ Chain + 1 \in Nat /\ e.homeLedger.nodeBalance = 0
    BY <1>2, <1>3, <1>4 DEF Books
  <2> QED
    BY <1>0, <1>1, <1>3, <2>1, EscrowLockIs
<1>6. LocksEscrow(s, p, "escrow_lock", a)
  <2>1. e.homeChannelId \in ChannelIds /\ e.version \in Nat
    BY <1>1, <1>2
  <2>2. p.escrowChannelId # Nil
    BY <1>5, <2>1, EscrowIdIs
  <2> QED
    BY <1>1, <1>5, <2>2 DEF LocksEscrow, Kept
<1>7. Books(p.homeLedger, Chain, b, f, 0, n)
  <2>1. Moved(e.homeLedger, p.homeLedger, 0 * AssetUnit, 0 * AssetUnit, 0 * AssetUnit,
              0 * AssetUnit)
    BY <1>3, <1>5, Zenon
  <2>2. Books(p.homeLedger, Chain, b + 0, f + 0, 0 + 0, n + 0)
    BY <1>2, <2>1, BooksMoved
  <2> QED
    BY <1>2, <2>2
<1>8. Books(p.escrowLedger, Chain + 1, 0, 0, k, k)
  <2>1. Moved(ZeroLedger(Chain + 1, Token), p.escrowLedger, 0 * AssetUnit, 0 * AssetUnit,
              k * AssetUnit, k * AssetUnit)
    BY <1>3, <1>5, Zenon
  <2>2. Books(ZeroLedger(Chain + 1, Token), Chain + 1, 0, 0, 0, 0)
    BY <1>4, ZeroBooks
  <2>3. Books(p.escrowLedger, Chain + 1, 0 + 0, 0 + 0, 0 + k, 0 + k)
    BY <2>1, <2>2, BooksMoved
  <2> QED
    BY <2>3
<1>9. ValidateAdvancement(s, p)
  <2>0. PICK t, el : t = p.transition /\ el = p.escrowLedger
    OBVIOUS
  <2>1. /\ el.blockchainId = Chain + 1 /\ el.tokenAddress = Token /\ el # Nil
        /\ p.homeLedger.blockchainId = Chain
    BY <1>7, <1>8, <2>0, NodeAssumption DEF Books
  <2>2. t.type = "escrow_lock" /\ t.amount = a
    BY <1>5, <2>0
  <2>3. p = Applied(e, t, el)
    BY <1>0, <2>1, <2>2 DEF Applied
  <2>4. ValidAmount(t)
    BY <1>3, <2>2 DEF ValidAmount, ValidateDecimalPrecision
  <2>5. ValidSuccession(s, t)
    BY <2>2 DEF ValidSuccession, Origin
  <2>6. MayApply(e, t, el)
    <3>1. e.homeLedger.userBalance \in Int /\ e.homeLedger.userBalance >= t.amount
      BY <1>1, <1>2, <1>3, <2>2 DEF Books, LedgerRow
    <3> QED
      BY <1>1, <1>2, <1>4, <2>1, <2>2, <3>1, NodeAssumption DEF MayApply
  <2>7. ValidLedger(p.homeLedger)
    <3>1. b >= 0 /\ 0 >= 0 /\ b + 0 = f + n
      BY <1>2
    <3> QED
      BY <1>4, <1>7, <3>1, BooksValid
  <2>8. ValidLedger(el)
    <3>1. 0 >= 0 /\ k >= 0 /\ 0 + k = 0 + k
      OBVIOUS
    <3> QED
      BY <1>4, <1>8, <2>0, <3>1, BooksValid
  <2>9. el.blockchainId # p.homeLedger.blockchainId
    BY <1>4, <2>1
  <2> QED
    BY <1>0, <1>2, <1>5, <2>0, <2>3, <2>4, <2>5, <2>6, <2>7, <2>8, <2>9, EscrowAdvances
<1>10. PICK cs : cs = ContractState(p)
  OBVIOUS
<1>11. /\ cs.version = s.version + 1 /\ cs.intent = "INITIATE_ESCROW_WITHDRAWAL"
       /\ OnContract(cs.homeLedger, Chain, b, f, 0, n)
       /\ OnContract(cs.nonHomeLedger, Chain + 1, 0, 0, k, k)
  <2>1. /\ cs.version = p.version /\ cs.intent = TransitionToIntent(p.transition)
        /\ OnContract(cs.homeLedger, Chain, b, f, 0, n)
        /\ OnContract(cs.nonHomeLedger, Chain + 1, 0, 0, k, k)
    BY <1>7, <1>8, <1>10, EscrowContract
  <2> QED
    BY <1>1, <1>5, <2>1 DEF Kept, TransitionToIntent
<1>12. /\ Hub!validateTransition(m, cs, NodeFunds, 0)
       /\ Hub!expectedLocked(m, cs) = b /\ Hub!newStatus(m, cs) = "OPERATING"
  <2>1. /\ m.status = "OPERATING" /\ m.lockedFunds = b /\ cs.version > m.lastState.version
        /\ OnContract(m.lastState.homeLedger, Chain, b, f, 0, n)
    BY <1>2, <1>11 DEF Origin
  <2> QED
    BY <1>2, <1>11, <2>1, EngineEscrowLock
<1> QED
  BY <1>6, <1>7, <1>8, <1>9, <1>10, <1>12 DEF BothAccept

LEMMA EscrowWithdrawAgrees ==
  ASSUME NEW s, NEW p, NEW b, NEW f, NEW n, NEW k, NEW a, NEW o, NEW q,
         Withdraws(s, p, b, f, n, k, a, o, q)
  PROVE  BothAccept(p, q, o) /\ q.homeLedger.userBalance = p.homeLedger.userBalance - a
<1> USE DEF Withdraws
<1>0. PICK e : e = NextState(p)
  OBVIOUS
<1>1. /\ DOMAIN e = StateFields /\ e.transition.type = "void" /\ e.version = p.version + 1
      /\ e.homeChannelId = p.homeChannelId /\ e.homeLedger = p.homeLedger
      /\ e.escrowChannelId = p.escrowChannelId /\ e.escrowLedger = p.escrowLedger
  BY <1>0, NextKeeps DEF LocksEscrow, IsFinal
<1>2. /\ e.homeChannelId # Nil /\ p.version \in Nat /\ p.transition.amount = a
      /\ p.transition.type = "escrow_lock"
  BY <1>1, NodeAssumption DEF LocksEscrow
<1>3. a \in Int /\ a > 0 /\ a % AssetUnit = 0 /\ 0 = 0 * AssetUnit /\ -a = (-k) * AssetUnit
  BY AmountIs
<1>4. Chain + 1 \in Nat \ {0} /\ Chain \in Nat \ {0} /\ Chain + 1 # Chain
  BY NodeAssumption
<1>5. /\ Kept(e, q) /\ q.transition.type = "escrow_withdraw" /\ q.transition.amount = a
      /\ Moved(e.homeLedger, q.homeLedger, -a, 0, 0, -a)
      /\ Moved(e.escrowLedger, q.escrowLedger, 0, -a, -a, 0)
  <2>1. e.homeLedger \in LedgerRow /\ e.escrowLedger \in LedgerRow
    BY <1>1 DEF Books
  <2> QED
    BY <1>0, <1>1, <1>3, <2>1, EscrowWithdrawIs
<1>6. q.homeLedger.userBalance = p.homeLedger.userBalance - a
  <2>1. p.homeLedger.userBalance \in Int
    BY DEF Books, LedgerRow
  <2> QED
    BY <1>1, <1>3, <1>5, <2>1 DEF Moved
<1>7. Books(q.homeLedger, Chain, b - k, f, 0, n - k)
  <2>1. Moved(e.homeLedger, q.homeLedger, (-k) * AssetUnit, 0 * AssetUnit, 0 * AssetUnit,
              (-k) * AssetUnit)
    BY <1>3, <1>5, Zenon
  <2>2. Books(e.homeLedger, Chain, b, f, 0, n) /\ -k \in Int
    BY <1>1
  <2>3. Books(q.homeLedger, Chain, b + (-k), f + 0, 0 + 0, n + (-k))
    BY <2>1, <2>2, BooksMoved
  <2> QED
    BY <2>3
<1>8. Books(q.escrowLedger, Chain + 1, 0, -k, 0, k)
  <2>1. Moved(e.escrowLedger, q.escrowLedger, 0 * AssetUnit, (-k) * AssetUnit,
              (-k) * AssetUnit, 0 * AssetUnit)
    BY <1>3, <1>5, Zenon
  <2>2. Books(e.escrowLedger, Chain + 1, 0, 0, k, k) /\ -k \in Int
    BY <1>1
  <2>3. Books(q.escrowLedger, Chain + 1, 0 + 0, 0 + (-k), k + (-k), k + 0)
    BY <2>1, <2>2, BooksMoved
  <2> QED
    BY <2>3
<1>9. ValidateAdvancement(p, q)
  <2>0. PICK t, el : t = q.transition /\ el = q.escrowLedger
    OBVIOUS
  <2>1. /\ el.blockchainId = Chain + 1 /\ q.homeLedger.blockchainId = Chain
        /\ e.escrowLedger # Nil /\ e.escrowChannelId # Nil
    BY <1>1, <1>7, <1>8, <2>0, NodeAssumption DEF Books, LocksEscrow
  <2>2. t.type = "escrow_withdraw" /\ t.amount = a
    BY <1>5, <2>0
  <2>3. q = Applied(e, t, el)
    BY <1>0, <2>2 DEF Applied
  <2>4. ValidAmount(t)
    BY <1>3, <2>2 DEF ValidAmount, ValidateDecimalPrecision
  <2>5. ValidSuccession(p, t)
    BY <1>2, <2>2 DEF ValidSuccession
  <2>6. MayApply(e, t, el)
    BY <1>1, <2>1, <2>2 DEF MayApply
  <2>7. ValidLedger(q.homeLedger)
    <3>1. b - k >= 0 /\ 0 >= 0 /\ (b - k) + 0 = f + (n - k)
      OBVIOUS
    <3> QED
      BY <1>4, <1>7, <3>1, BooksValid
  <2>8. ValidLedger(el)
    <3>1. 0 >= 0 /\ 0 + 0 = (-k) + k
      OBVIOUS
    <3> QED
      BY <1>4, <1>8, <2>0, <3>1, BooksValid
  <2>9. el.blockchainId # q.homeLedger.blockchainId
    BY <1>4, <2>1
  <2> QED
    BY <1>0, <1>2, <1>5, <2>0, <2>3, <2>4, <2>5, <2>6, <2>7, <2>8, <2>9, EscrowAdvances
<1>10. PICK cs, os : cs = ContractState(q) /\ os = ContractState(p)
  OBVIOUS
<1>11. /\ cs.version = p.version + 1 /\ cs.intent = "FINALIZE_ESCROW_WITHDRAWAL"
       /\ OnContract(cs.homeLedger, Chain, b - k, f, 0, n - k)
       /\ OnContract(cs.nonHomeLedger, Chain + 1, 0, -k, 0, k)
  <2>1. /\ cs.version = q.version /\ cs.intent = TransitionToIntent(q.transition)
        /\ OnContract(cs.homeLedger, Chain, b - k, f, 0, n - k)
        /\ OnContract(cs.nonHomeLedger, Chain + 1, 0, -k, 0, k)
    BY <1>7, <1>8, <1>10, EscrowContract
  <2> QED
    BY <1>1, <1>5, <2>1 DEF Kept, TransitionToIntent
<1>12. os.version = p.version /\ OnContract(os.homeLedger, Chain, b, f, 0, n)
  BY <1>10, EscrowContract
<1>13. Hub!validateTransition(o, cs, NodeFunds, 0)
  <2>1. /\ OnContract(o.lastState.homeLedger, Chain, b, f, 0, n)
        /\ cs.version > o.lastState.version
    BY <1>2, <1>10, <1>11, <1>12
  <2> QED
    BY <1>11, <2>1, EngineEscrowWithdraw
<1> QED
  BY <1>6, <1>9, <1>10, <1>13 DEF BothAccept

\* A user's enforced state is one an escrow may start from.
LEMMA OriginIs ==
  ASSUME Inv, Mirror, Sound, NEW s \in channelStates, s.homeChannelId # Nil, NEW m,
         m = chain[s.homeChannelId], m.lastState = ContractState(s), m.status = "OPERATING"
  PROVE  \E b, f, n : Origin(s, m, b, f, n) /\ s.homeLedger.userBalance = b * AssetUnit
<1> DEFINE h == s.homeLedger
<1>1. /\ IsState(s) /\ Storable(s) /\ s.homeChannelId \in ChannelIds
      /\ h.userBalance >= 0 /\ Whole(h.userBalance)
  BY DEF Inv, Numbered, Storable, IsState, Mirror, WholeInv
<1>2. /\ h \in LedgerRow /\ h.nodeBalance = 0 /\ h.userBalance = h.userNetFlow + h.nodeNetFlow
      /\ Whole(h.userNetFlow) /\ h.blockchainId = Chain /\ h.tokenAddress = Token
  BY DEF Sound, LedgersInv, Balanced, Flow
<1>3. h.userBalance \in Int /\ h.userNetFlow \in Int /\ h.nodeNetFlow \in Int
  BY <1>2 DEF LedgerRow
<1> HIDE DEF h
<1>4. PICK u \in Nat : u = AssetUnit /\ u > 0
  BY CoreAssumption
<1>5. PICK b \in Int : h.userBalance = b * u
  BY <1>1, <1>4 DEF Whole
<1>6. PICK f \in Int : h.userNetFlow = f * u
  BY <1>2, <1>4 DEF Whole
<1>7. PICK n \in Int : n = b - f
  OBVIOUS
<1>8. b \in Nat /\ b = f + n /\ h.nodeNetFlow = n * u /\ h.nodeBalance = 0 * u
  <2>1. b * u >= 0
    BY <1>1, <1>5
  <2>2. b >= 0
    BY <1>4, <2>1
  <2>3. (b - f) * u = b * u - f * u /\ 0 * u = 0
    BY <1>4
  <2>4. h.nodeNetFlow = b * u - f * u
    BY <1>2, <1>3, <1>5, <1>6
  <2> QED
    BY <1>2, <1>7, <2>2, <2>3, <2>4
<1>9. Books(h, Chain, b, f, 0, n)
  BY <1>2, <1>4, <1>5, <1>6, <1>8 DEF Books
<1>10. m.lastState.homeLedger = coreLedgerToContractLedger(h, 0, AssetUnit)
       /\ m.lastState.version = s.version
       /\ m.lastState.intent = TransitionToIntent(s.transition)
  BY DEF ContractState, h
<1>11. OnContract(m.lastState.homeLedger, Chain, b, f, 0, n)
  BY <1>9, <1>10, BooksConverted
<1>12. m.lockedFunds = m.lastState.homeLedger.userAllocation /\ m.lastState.intent # "CLOSE"
  BY <1>1 DEF Sound, SettledInv, Settled
<1>13. m.lockedFunds = b
  BY <1>11, <1>12 DEF OnContract
<1>14. s.transition.type \notin {"finalize", "mutual_lock", "escrow_lock", "escrow_deposit",
                                 "escrow_withdraw"}
  <2>1. s.transition.type # "finalize"
    BY <1>10, <1>12 DEF TransitionToIntent
  <2> QED
    BY <1>1, <2>1 DEF IsState, SubmitSupported
<1>15. DOMAIN s = StateFields /\ s.version \in Nat
  BY <1>1 DEF IsState
<1>16. Origin(s, m, b, f, n)
  BY <1>1, <1>8, <1>9, <1>10, <1>11, <1>13, <1>14, <1>15 DEF Origin, h
<1> QED
  BY <1>4, <1>5, <1>16 DEF h

\* What clients deposit and withdraw over escrows: whole units of the asset,
\* as the validation requires, and no more than the node's vault can match.
EscrowAmounts ==
  \A a \in Amounts : \E k \in Nat : k > 0 /\ k <= NodeFunds /\ a = k * AssetUnit

LEMMA SoundEscrows ==
  ASSUME Inv, Mirror, Sound, EscrowAmounts
  PROVE  EscrowsAgree
<1> SUFFICES ASSUME NEW u \in Users, NEW a \in Amounts
             PROVE  LET s == GetLastUserState(u, FALSE)
                        m == chain[s.homeChannelId]
                        lock == ApplyMutualLockTransition(NextState(s), Chain + 1, Token, a)
                        deposit == ApplyEscrowDepositTransition(NextState(lock), a)
                        lockOut == ApplyEscrowLockTransition(NextState(s), Chain + 1, Token, a)
                        withdraw == ApplyEscrowWithdrawTransition(NextState(lockOut), a)
                        onChain == /\ s # Nil /\ s.homeChannelId # Nil
                                   /\ m.lastState = ContractState(s) /\ m.status = "OPERATING"
                    IN  onChain =>
                          /\ BothAccept(s, lock, m)
                          /\ BothAccept(lock, deposit, MetaAfter(m, ContractState(lock)))
                          /\ deposit.homeLedger.userBalance = s.homeLedger.userBalance + a
                          /\ a <= s.homeLedger.userBalance =>
                               /\ BothAccept(s, lockOut, m)
                               /\ BothAccept(lockOut, withdraw, MetaAfter(m, ContractState(lockOut)))
                               /\ withdraw.homeLedger.userBalance = s.homeLedger.userBalance - a
  BY DEF EscrowsAgree
<1> DEFINE s == GetLastUserState(u, FALSE)
           m == chain[s.homeChannelId]
           lock == ApplyMutualLockTransition(NextState(s), Chain + 1, Token, a)
           deposit == ApplyEscrowDepositTransition(NextState(lock), a)
           out == ApplyEscrowLockTransition(NextState(s), Chain + 1, Token, a)
           withdraw == ApplyEscrowWithdrawTransition(NextState(out), a)
<1>1. SUFFICES ASSUME s # Nil, s.homeChannelId # Nil, m.lastState = ContractState(s),
                      m.status = "OPERATING"
               PROVE  /\ BothAccept(s, lock, m)
                      /\ BothAccept(lock, deposit, MetaAfter(m, ContractState(lock)))
                      /\ deposit.homeLedger.userBalance = s.homeLedger.userBalance + a
                      /\ a <= s.homeLedger.userBalance =>
                           /\ BothAccept(s, out, m)
                           /\ BothAccept(out, withdraw, MetaAfter(m, ContractState(out)))
                           /\ withdraw.homeLedger.userBalance = s.homeLedger.userBalance - a
  OBVIOUS
<1>2. s \in channelStates
  <2>1. PICK rows : rows = {t \in StatesOf(u) : FALSE => CoSigned(t)}
    OBVIOUS
  <2>2. s = Latest(rows) /\ rows \subseteq StatesOf(u)
    BY <2>1 DEF GetLastUserState
  <2> HIDE DEF s
  <2>3. s \in rows
    BY <1>1, <2>2, LatestExists DEF Inv
  <2> QED
    BY <2>2, <2>3 DEF StatesOf
<1> HIDE DEF s
<1>3. PICK b, f, n : Origin(s, m, b, f, n) /\ s.homeLedger.userBalance = b * AssetUnit
  BY <1>1, <1>2, OriginIs
<1>4. PICK k \in Nat : k > 0 /\ k <= NodeFunds /\ a = k * AssetUnit
  BY DEF EscrowAmounts
<1>5. /\ b \in Nat /\ f \in Int /\ n \in Int /\ b = f + n /\ s.version \in Nat
      /\ s.homeChannelId \in ChannelIds
  BY <1>3 DEF Origin
<1>6. MutualLocks(s, m, b, f, n, k, a, lock)
  BY <1>3, <1>4 DEF MutualLocks
<1> HIDE DEF lock, m
<1>7. /\ BothAccept(s, lock, m) /\ LocksEscrow(s, lock, "mutual_lock", a)
      /\ Books(lock.homeLedger, Chain, b, f, k, n + k)
      /\ Books(lock.escrowLedger, Chain + 1, k, k, 0, 0)
      /\ Hub!expectedLocked(m, ContractState(lock)) = b + k
      /\ Hub!newStatus(m, ContractState(lock)) = "OPERATING"
  BY <1>6, MutualLockAgrees
<1>8. /\ BothAccept(lock, deposit, MetaAfter(m, ContractState(lock)))
      /\ deposit.homeLedger.userBalance = lock.homeLedger.userBalance + a
  <2>1. PICK o, cs : cs = ContractState(lock) /\ o = MetaAfter(m, cs)
    OBVIOUS
  <2>2. o.status = "OPERATING" /\ o.lastState = cs /\ o.lockedFunds = b + k
    BY <1>7, <2>1, MetaAfterIs
  <2>3. Deposits(s, lock, b, f, n, k, a, o, deposit)
    BY <1>4, <1>5, <1>7, <2>1, <2>2 DEF Deposits
  <2> HIDE DEF deposit
  <2> QED
    BY <2>1, <2>3, EscrowDepositAgrees
<1>9. lock.homeLedger.userBalance = s.homeLedger.userBalance
  BY <1>3, <1>7 DEF Books
<1>10. ASSUME a <= s.homeLedger.userBalance
       PROVE  /\ BothAccept(s, out, m)
              /\ BothAccept(out, withdraw, MetaAfter(m, ContractState(out)))
              /\ withdraw.homeLedger.userBalance = s.homeLedger.userBalance - a
  <2>1. EscrowLocks(s, m, b, f, n, k, a, out)
    BY <1>3, <1>4, <1>10 DEF EscrowLocks
  <2> HIDE DEF out
  <2>2. /\ BothAccept(s, out, m) /\ LocksEscrow(s, out, "escrow_lock", a)
        /\ Books(out.homeLedger, Chain, b, f, 0, n)
        /\ Books(out.escrowLedger, Chain + 1, 0, 0, k, k)
        /\ Hub!expectedLocked(m, ContractState(out)) = b
        /\ Hub!newStatus(m, ContractState(out)) = "OPERATING"
    BY <2>1, EscrowLockAgrees
  <2>3. k <= b
    <3>1. PICK v \in Nat : v = AssetUnit /\ v > 0
      BY CoreAssumption
    <3>2. k * v <= b * v
      BY <1>3, <1>4, <1>10, <3>1
    <3>3. b < k => (b + 1) * v <= k * v /\ (b + 1) * v = b * v + v
      BY <1>5, <3>1
    <3>4. b * v \in Int /\ k * v \in Int
      BY <1>5, <3>1
    <3> QED
      BY <1>5, <3>1, <3>2, <3>3, <3>4
  <2>4. PICK o, cs : cs = ContractState(out) /\ o = MetaAfter(m, cs)
    OBVIOUS
  <2>5. o.status = "OPERATING" /\ o.lastState = cs /\ o.lockedFunds = b
    BY <2>2, <2>4, MetaAfterIs
  <2>6. Withdraws(s, out, b, f, n, k, a, o, withdraw)
    BY <1>4, <1>5, <2>2, <2>3, <2>4, <2>5 DEF Withdraws
  <2> HIDE DEF withdraw
  <2>7. /\ BothAccept(out, withdraw, o)
        /\ withdraw.homeLedger.userBalance = out.homeLedger.userBalance - a
    BY <2>6, EscrowWithdrawAgrees
  <2>8. out.homeLedger.userBalance = s.homeLedger.userBalance
    BY <1>3, <2>2 DEF Books
  <2> QED
    BY <2>2, <2>4, <2>7, <2>8
<1> HIDE DEF deposit, out, withdraw
<1> QED
  BY <1>7, <1>8, <1>9, <1>10

\* The node's transitions and the contract's engine agree on escrows in every
\* state the system reaches, for whole amounts the vault can match: both
\* accept the lock and then the deposit or withdrawal that completes it (the
\* Apply methods of types.go, ValidateAdvancement, ChannelEngine.sol).
THEOREM EscrowsAgreeOnChain ==
  ASSUME EscrowAmounts
  PROVE  Spec => []EscrowsAgree
<1>1. Init => Mirror /\ Sound
  BY InitMirror, InitSound
<1>2. Inv /\ Inv' /\ Mirror /\ Sound /\ [Next]_vars => Mirror' /\ Sound'
  BY MirrorStep, SoundStep
<1>3. Inv /\ Mirror /\ Sound => EscrowsAgree
  BY SoundEscrows
<1> QED
  BY <1>1, <1>2, <1>3, Invariance, PTL DEF Spec
===============================================================================
