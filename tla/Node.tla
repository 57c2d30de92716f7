--------------------------------- MODULE Node ---------------------------------
(***************************************************************************)
(* The life of users' home channels as the node sees it: SDK clients       *)
(* prepare states (sdk/go/channel.go), the channel API validates, co-signs *)
(* and stores them (clearnode/api/channel_v1), users enforce or challenge  *)
(* them on the chain, the event handlers follow the chain                  *)
(* (clearnode/event_handlers) and the blockchain worker answers challenges *)
(* (clearnode/blockchain_worker.go).                                       *)
(*                                                                         *)
(* The chain is the contract's own engine, ChannelEngine.tla, fed with     *)
(* states converted as pkg/blockchain/evm converts them.  Its events reach *)
(* the handlers once each and in order, which Listener.tla is about.       *)
(* Every API request and every event runs in a database transaction of its *)
(* own; a transaction is split where it can wait for a row lock, and what  *)
(* it writes appears when it commits.  Signatures are ideal: they cannot   *)
(* be forged, and a client may sign whatever it likes of what ClientSubmit *)
(* and ClientCreate let it send.  The challenge clock is abstracted: a     *)
(* challenge expires at any time after it was made.  A deposit takes       *)
(* tokens from the user's wallet, which holds and allows them or not.      *)
(***************************************************************************)
EXTENDS NodeStore, Functions, Totals

CONSTANTS
  Slots,              \* how many API calls can be in flight
  Pasts,              \* what users may have done before, in [Users -> Past]
  MaxRequests,        \* bound on the API calls of a behaviour
  Amounts,            \* what clients deposit, withdraw and transfer
  ReopensAfterClose,  \* clients create a channel after a finalized one
  FreeActions,        \* free_actions_allowance of the transfer gate
  MaxActionRetries,   \* maxActionRetries
  Challengers,        \* the users who challenge their channels
  NodeFunds,          \* the node's vault on the chain, more than it can need
  NODE

\* A user may be new, have a channel created with a deposit of two units,
\* or have closed that channel.
Past == {"new", "funded", "closed"}

\* The rows of channel_states: no operation here has an escrow.
LedgerRow ==
  [tokenAddress : {Token, NoToken}, blockchainId : Nat,
   userBalance : Int, userNetFlow : Int, nodeBalance : Int, nodeNetFlow : Int]

TransitionRow ==
  LET accounts == Users \cup ChannelIds IN
  [type : TransitionType, txId : {0} \cup (accounts \X (Users \X Nat \X Nat)),
   accountId : {0} \cup accounts, amount : Int]

StateRow ==
  [transition : TransitionRow, userWallet : Users, epoch : Nat, version : Nat,
   homeChannelId : ChannelIds \cup {Nil}, escrowChannelId : {Nil},
   homeLedger : LedgerRow, escrowLedger : {Nil}, userSig : BOOLEAN, nodeSig : BOOLEAN]

ASSUME NodeAssumption ==
  /\ Slots \in Nat \ {0} /\ Challengers \subseteq Users /\ Pasts \subseteq [Users -> Past]
  /\ Amounts \subseteq Nat /\ MaxRequests \in Nat /\ MaxActionRetries \in Nat
  /\ ReopensAfterClose \in BOOLEAN /\ FreeActions \in Nat /\ NodeFunds \in Nat
  /\ Chain \in Nat \ {0} /\ Token # NoToken /\ Nonces \subseteq Nat /\ 1 \in Nonces
  /\ Nil \notin Nat /\ Nil \notin Users \cup ChannelIds
  /\ Nil \notin ChannelRow /\ Nil \notin StateRow
  /\ Nil \notin LedgerRow /\ Nil \notin ChannelIds \X Nat

VARIABLES
  requests,   \* the request in each slot
  sent,       \* number of requests sent so far
  chain,      \* the contract's record of each channel
  events,     \* contract events not yet handled
  handling,   \* the event transaction under way, or Nil
  actions,    \* blockchain_actions
  mempool     \* the worker's transactions that are not mined

api == <<requests, sent>>
onchain == <<chain, events>>
worker == <<actions, mempool>>
vars == <<tables, rowLocks, api, onchain, handling, worker>>

Hub == INSTANCE ChannelEngine WITH
  Channels <- ChannelIds, User <- [c \in ChannelIds |-> c[1]],
  ChallengeDuration <- [c \in ChannelIds |-> 1], MinChallengeDuration <- 1,
  Tokens <- {Token}, ChainId <- Chain, MaxPrecision <- 0,
  TokenDecimals <- [t \in {Token} |-> 0], Versions <- 0..(2 * MaxRequests),
  Signed <- [c \in ChannelIds |-> {}]

Requests == 1..Slots

VoidMeta ==
  [status |-> "VOID", lastState |-> Hub!EmptyState, challengeExpireAt |-> 0,
   lockedFunds |-> 0]

Idle == [pc |-> "idle"]

\* coreStateToContractState, for a token of the asset's own precision.
ContractState(s) ==
  [version |-> s.version, intent |-> TransitionToIntent(s.transition),
   homeLedger |-> coreLedgerToContractLedger(s.homeLedger, 0, AssetUnit),
   nonHomeLedger |-> IF s.escrowLedger = Nil THEN Hub!EmptyLedger
                     ELSE coreLedgerToContractLedger(s.escrowLedger, 0, AssetUnit)]

\* The states of such a past.
FirstDeposit(u) ==
  [ApplyHomeDepositTransition(
     ApplyChannelCreation(NextState(NewVoidState(u)), Chain, Token, 1), 2 * AssetUnit)
   EXCEPT !.userSig = TRUE, !.nodeSig = TRUE]

Closing(u) ==
  [ApplyFinalizeTransition(NextState(FirstDeposit(u)))
   EXCEPT !.userSig = TRUE, !.nodeSig = TRUE]

PastStates(past, u) ==
  CASE past = "new"    -> <<>>
    [] past = "funded" -> <<FirstDeposit(u)>>
    [] past = "closed" -> <<FirstDeposit(u), Closing(u)>>

\* The tables and the chain once those states are enforced.
PastStore(past) ==
  LET states == [u \in Users |-> PastStates(past[u], u)]
      Last(u) == states[u][Len(states[u])]
      Row(u) == [userWallet |-> u, stateVersion |-> Last(u).version,
                 status |-> IF IsFinal(Last(u)) THEN "closed" ELSE "open"]
      Meta(u) == [status |-> IF IsFinal(Last(u)) THEN "CLOSED" ELSE "OPERATING",
                  lastState |-> ContractState(Last(u)), challengeExpireAt |-> 0,
                  lockedFunds |-> IF IsFinal(Last(u)) THEN 0 ELSE 2]
      Used(c) == states[c[1]] # <<>> /\ Last(c[1]).homeChannelId = c
      Balance(u) == IF states[u] = <<>> THEN 0 ELSE Last(u).homeLedger.userBalance
  IN  /\ channelStates = UNION {Range(states[u]) : u \in Users}
      /\ channels = [c \in ChannelIds |-> IF Used(c) THEN Row(c[1]) ELSE Nil]
      /\ userBalances = [u \in Users |-> [balance |-> Balance(u), enforced |-> Balance(u)]]
      /\ transactions = {NewTransactionFromTransition(s, Nil, s.transition) :
                           s \in channelStates}
      /\ actionLog = [u \in Users |-> 0]
      /\ chain = [c \in ChannelIds |-> IF Used(c) THEN Meta(c[1]) ELSE VoidMeta]

Init ==
  /\ \E past \in Pasts : PastStore(past)
  /\ rowLocks = [u \in Users |-> Nil]
  /\ requests = [r \in Requests |-> Idle]
  /\ sent = 0
  /\ events = <<>>
  /\ handling = Nil
  /\ actions = <<>>
  /\ mempool = {}

-------------------------------------------------------------------------------
(* The SDK prepares a request *)

\* The user's latest state, or a void one: what the SDK starts from and what
\* the node compares a proposal with.
GetLatestState(u) ==
  IF StatesOf(u) = {} THEN NewVoidState(u) ELSE GetLastUserState(u, FALSE)

\* Deposit, Withdraw, Transfer and Acknowledge create a channel when the
\* state has none.  The TypeScript client's deposit and withdraw also do
\* when the state is final.
CreatesChannel(s, type) ==
  \/ s.homeChannelId = Nil
  \/ /\ ReopensAfterClose /\ IsFinal(s)
     /\ type \in {"home_deposit", "home_withdrawal"}

\* The call of each client method, as the transition it applies to the next
\* state.
Deposit == [type : {"home_deposit"}, accountId : {Nil}, amount : Amounts]

Withdraw == [type : {"home_withdrawal"}, accountId : {Nil}, amount : Amounts]

Transfer(u) == [type : {"transfer_send"}, accountId : Users \ {u}, amount : Amounts]

Acknowledge == [type : {"acknowledgement"}, accountId : {Nil}, amount : {0}]

CloseHomeChannel == [type : {"finalize"}, accountId : {Nil}, amount : {0}]

Operations(u) ==
  Deposit \cup Withdraw \cup Transfer(u) \cup Acknowledge \cup CloseHomeChannel

\* Whether the request is counted by the gateway; request_creation does not ask.
Gated(q) == q.kind = "submit" /\ GatedAction(q.state.transition.type) # Nil

\* A free slot takes the call.  Slots are taken in order, since it does not
\* matter which serves a call.
MaySend(r) ==
  /\ requests[r].pc = "idle" /\ sent < MaxRequests
  /\ \A o \in Requests : o < r => requests[o].pc # "idle"

\* A request waits for the gateway if it is gated, else for the user's row.
Send(r, kind, p) ==
  LET q == [kind |-> kind, state |-> [p EXCEPT !.userSig = TRUE]] IN
  /\ requests' = [requests EXCEPT ![r] =
                    [pc |-> IF Gated(q) THEN "gate" ELSE "lock",
                     kind |-> q.kind, state |-> q.state]]
  /\ sent' = sent + 1
  /\ UNCHANGED <<tables, rowLocks, onchain, handling, worker>>

\* submit_state of any client, whatever it checked itself: any operation on
\* any state the user has, the latest or an old one, whether or not it can
\* follow.  One thing is assumed: a client whose state has no channel, or a
\* final one, asks request_creation for a channel, as both SDKs do, and does
\* not name one in submit_state.
ClientSubmit(r, u) ==
  /\ MaySend(r)
  /\ \E s \in StatesOf(u), op \in Operations(u) :
       /\ s.homeChannelId # Nil /\ ~IsFinal(s)
       /\ Send(r, "submit", Applied(NextState(s), op, Nil))

\* request_creation, with any nonce and again whatever the client checked.
ClientCreate(r, u) ==
  /\ MaySend(r)
  /\ LET s == GetLatestState(u) IN
     \E op \in Operations(u), n \in Nonces :
       /\ CreatesChannel(s, op.type)
       /\ Send(r, "create",
               Applied(ApplyChannelCreation(NextState(s), Chain, Token, n), op, Nil))

-------------------------------------------------------------------------------
(* The channel API *)

\* ActionGateway.AllowAction of a user without stake.
AllowAction(u, type) == GatedAction(type) # Nil => actionLog[u] < FreeActions

Finish(r) == requests' = [requests EXCEPT ![r] = Idle]

\* The first statements of SubmitState's transaction.
SubmitStateGate(r) ==
  LET q == requests[r] IN
  /\ q.pc = "gate"
  /\ IF AllowAction(q.state.userWallet, q.state.transition.type)
     THEN requests' = [requests EXCEPT ![r].pc = "lock"]
     ELSE Finish(r)
  /\ UNCHANGED <<tables, rowLocks, sent, onchain, handling, worker>>

\* What submit_state supports once the state is stored.
SubmitSupported == {"acknowledgement", "home_deposit", "home_withdrawal",
                    "transfer_send", "finalize"}

SubmitStateValid(p) ==
  LET u == p.userWallet
      cur == GetLatestState(u)
  IN  /\ CheckOpenChannel(u)
      /\ p.transition.type \notin {"escrow_deposit", "escrow_withdraw", "migrate"}
      /\ EnsureNoOngoingStateTransitions(u)
      /\ ValidateAdvancement(cur, p)
      /\ p.userSig
      /\ Insertable({p})
      /\ p.transition.type \in SubmitSupported

CreateSupported == {"acknowledgement", "home_deposit", "home_withdrawal",
                    "transfer_send"}

\* The request's own checks (nonce, challenge bounds, asset, validators) are
\* left out, so that the model accepts more creations than the node.
RequestCreationValid(p) ==
  LET cur == GetLatestState(p.userWallet) IN
  /\ cur.homeChannelId # Nil => IsFinal(cur) /\ p.homeChannelId # cur.homeChannelId
  /\ ValidateAdvancement(cur, p)
  /\ p.userSig
  /\ channels[p.homeChannelId] = Nil
  /\ Insertable({p})
  /\ p.transition.type \in CreateSupported

Valid(q) == IF q.kind = "submit" THEN SubmitStateValid(q.state)
                                 ELSE RequestCreationValid(q.state)

\* The transaction commits: the channel of a creation, the states, the
\* transaction record and the gated action appear, and the locks go.
Commit(r, new, rows) ==
  LET q == requests[r] IN
  /\ StoreUserState(new)
  /\ channels' = IF q.kind = "create"
                 THEN [channels EXCEPT ![q.state.homeChannelId] =
                         NewChannel(q.state.userWallet)]
                 ELSE channels
  /\ RecordTransaction(rows)
  /\ actionLog' = IF Gated(q) THEN [actionLog EXCEPT ![q.state.userWallet] = @ + 1]
                              ELSE actionLog
  /\ rowLocks' = [u \in Users |-> IF rowLocks[u] = r THEN Nil ELSE rowLocks[u]]
  /\ Finish(r)

\* Mutation: the locks of a transaction outlive its failure.
RollbackKeepsLocks(r) == Finish(r) /\ UNCHANGED <<tables, rowLocks>>

Rollback(r) ==
  /\ rowLocks' = [u \in Users |-> IF rowLocks[u] = r THEN Nil ELSE rowLocks[u]]
  /\ Finish(r)
  /\ UNCHANGED tables

SignedByNode(s) == [s EXCEPT !.nodeSig = TRUE]

\* The sender's row is locked, the state is validated, and unless there is a
\* receiver to credit the transaction commits.
LockAndValidate(r) ==
  LET q == requests[r]
      u == q.state.userWallet
      p == SignedByNode(q.state)
      t == p.transition
  IN  /\ q.pc = "lock" /\ rowLocks[u] = Nil
      /\ IF ~Valid(q) THEN Rollback(r)
         ELSE IF t.type = "transfer_send"
         THEN /\ rowLocks' = [rowLocks EXCEPT ![u] = r]
              /\ requests' = [requests EXCEPT ![r].pc = "receiver"]
              /\ UNCHANGED tables
         ELSE Commit(r, {p}, IF t.type = "acknowledgement" THEN {}
                             ELSE {NewTransactionFromTransition(p, Nil, t)})
      /\ UNCHANGED <<sent, onchain, handling, worker>>

\* The state issueTransferReceiverState gives the receiver of s.
TransferReceiverState(s) ==
  LET t == s.transition
      next == ApplyTransferReceiveTransition(NextState(GetLatestState(t.accountId)),
                                             s.userWallet, t.amount, t.txId)
  IN  [next EXCEPT !.nodeSig = next.homeChannelId # Nil]

\* The receiver's row is locked, its state issued, and both states commit;
\* a receiver whose last signed state is an escrow lock is refused.
IssueTransferReceiverState(r) ==
  LET q == requests[r]
      p == SignedByNode(q.state)
      v == p.transition.accountId
      new == TransferReceiverState(p)
      lastSigned == GetLastUserState(v, TRUE)
      ok == /\ v # p.userWallet
            /\ lastSigned # Nil => lastSigned.escrowChannelId = Nil
            /\ Insertable({new})
  IN  /\ q.pc = "receiver" /\ rowLocks[v] = Nil
      /\ IF ok
         THEN Commit(r, {p, new}, {NewTransactionFromTransition(p, new, p.transition)})
         ELSE Rollback(r)
      /\ UNCHANGED <<sent, onchain, handling, worker>>

\* PostgreSQL's deadlock detection (external): of transactions that wait for
\* one another's rows, one is aborted.
AbortDeadlocked(r) ==
  LET q == requests[r] IN
  /\ q.pc = "receiver"
  /\ \E o \in Requests \ {r} :
       /\ requests[o].pc = "receiver"
       /\ rowLocks[q.state.transition.accountId] = o
       /\ rowLocks[requests[o].state.transition.accountId] = r
  /\ Rollback(r)
  /\ UNCHANGED <<sent, onchain, handling, worker>>

-------------------------------------------------------------------------------
(* The chain *)

EventOf(intent) ==
  CASE intent = "DEPOSIT" -> "Deposited"
    [] intent = "WITHDRAW" -> "Withdrawn"
    [] OTHER -> "Checkpointed"

Emit(c, types, version) ==
  events' = events \o [i \in DOMAIN types |->
                         [type |-> types[i], channelId |-> c, version |-> version]]

\* The engine accepts the state.  A deposit must then be paid, see Payable.
Accepts(c, s) == CoSigned(s) /\ Hub!validateTransition(chain[c], ContractState(s), NodeFunds, 0)

\* _pullFunds takes a deposit from the user's wallet (external), which pays
\* or not: the user may empty it or revoke the allowance at any time.  A
\* user's own transaction that is not paid reverts, which changes nothing.
Payable(s, paid) == ContractState(s).intent = "DEPOSIT" => paid

\* _applyEffects
Enforced(c, s, status) ==
  LET cs == ContractState(s) IN
  [chain EXCEPT ![c] =
     [status |-> status, lastState |-> cs, challengeExpireAt |-> 0,
      lockedFunds |-> IF status = "CLOSED" THEN 0 ELSE Hub!expectedLocked(chain[c], cs)]]

CreateOnChain(c, s) ==
  LET i == ContractState(s).intent IN
  /\ chain[c].status = "VOID" /\ i \in {"DEPOSIT", "WITHDRAW", "OPERATE"}
  /\ Accepts(c, s)
  /\ chain' = Enforced(c, s, "OPERATING")
  /\ Emit(c, <<EventOf(i), "Created">>, s.version)

CheckpointOnChain(c, s) ==
  LET i == ContractState(s).intent IN
  /\ chain[c].status # "VOID" /\ i \in {"DEPOSIT", "WITHDRAW", "OPERATE"}
  /\ Accepts(c, s)
  /\ chain' = Enforced(c, s, "OPERATING")
  /\ Emit(c, <<EventOf(i)>>, s.version)

CloseOnChain(c, s) ==
  /\ ContractState(s).intent = "CLOSE"
  /\ Accepts(c, s)
  /\ chain' = Enforced(c, s, "CLOSED")
  /\ Emit(c, <<"Closed">>, s.version)

\* Client.Checkpoint of the user's latest co-signed state, by the status the
\* node reports; a transaction that reverts changes nothing.
UserCheckpoint(u) ==
  LET s == GetLastUserState(u, TRUE) IN
  /\ s # Nil
  /\ \E c \in ActiveHomeChannels(u) :
       IF IsFinal(s) THEN CloseOnChain(s.homeChannelId, s)
       ELSE IF channels[c].status = "void" THEN CreateOnChain(s.homeChannelId, s)
       ELSE CheckpointOnChain(s.homeChannelId, s)
  /\ UNCHANGED <<tables, rowLocks, api, handling, worker>>

\* challengeChannel with s, as the client sends it.
ChallengeOnChain(s) ==
  LET c == s.homeChannelId
      newer == s.version > chain[c].lastState.version
  IN  /\ chain[c].status = "OPERATING"
      /\ s.version >= chain[c].lastState.version
      /\ newer => ~IsFinal(s) /\ Accepts(c, s)
      /\ chain' = IF newer THEN Enforced(c, s, "DISPUTED")
                  ELSE [chain EXCEPT ![c].status = "DISPUTED"]
      /\ Emit(c, <<"Challenged">>, s.version)

\* Client.Challenge with any co-signed state the user kept.
UserChallenge(s) ==
  /\ CoSigned(s) /\ s.userWallet \in Challengers
  /\ ChallengeOnChain(s)
  /\ UNCHANGED <<tables, rowLocks, api, handling, worker>>

\* The challenge period ends.
ExpireChallenge(c) ==
  /\ chain[c].status = "DISPUTED" /\ chain[c].challengeExpireAt = 0
  /\ chain' = [chain EXCEPT ![c].challengeExpireAt = -1]
  /\ UNCHANGED <<tables, rowLocks, api, events, handling, worker>>

\* closeChannel by anyone after that.
CloseExpired(c) ==
  /\ chain[c].status = "DISPUTED" /\ chain[c].challengeExpireAt < 0
  /\ chain' = [chain EXCEPT ![c].status = "CLOSED", ![c].lockedFunds = 0,
                            ![c].challengeExpireAt = 0]
  /\ Emit(c, <<"Closed">>, chain[c].lastState.version)
  /\ UNCHANGED <<tables, rowLocks, api, handling, worker>>

-------------------------------------------------------------------------------
(* The event handlers *)

\* Mutation: a checkpoint leaves the channel under challenge.
HandledCheckpointKeepsStatus(row, e) == [row EXCEPT !.stateVersion = e.version]

HandleHomeChannelCreated(row, e) ==
  [row EXCEPT !.stateVersion = e.version, !.status = "open"]

HandleHomeChannelCheckpointed(row, e) ==
  [row EXCEPT !.stateVersion = e.version,
              !.status = IF @ = "challenged" THEN "open" ELSE @]

HandleHomeChannelChallenged(row, e) ==
  [row EXCEPT !.stateVersion = e.version, !.status = "challenged"]

HandleHomeChannelClosed(row, e) ==
  [row EXCEPT !.stateVersion = e.version, !.status = "closed"]

\* A challenge with a version below the row's is only logged.
Ignored(e) == e.type = "Challenged" /\ e.version < channels[e.channelId].stateVersion

\* The reactor's choice of a handler.
HandledRow(e) ==
  LET row == channels[e.channelId] IN
  CASE e.type = "Created" -> HandleHomeChannelCreated(row, e)
    [] e.type \in {"Deposited", "Withdrawn", "Checkpointed"} ->
         HandleHomeChannelCheckpointed(row, e)
    [] e.type = "Challenged" -> HandleHomeChannelChallenged(row, e)
    [] e.type = "Closed" -> HandleHomeChannelClosed(row, e)

\* The checkpoint a challenge asks for: of the channel's last co-signed state.
ScheduledCheckpoint(e) ==
  LET s == GetLastStateByChannelID(e.channelId, TRUE) IN
  IF e.type = "Challenged" /\ s # Nil /\ s.version > e.version
  THEN GetStateID(s) ELSE Nil

\* The handler has run up to RefreshUserEnforcedBalance, which waits for the
\* user's row.
BeginEvent ==
  /\ handling = Nil /\ events # <<>>
  /\ handling' = IF Ignored(Head(events)) THEN Nil
                 ELSE [event |-> Head(events),
                       checkpoint |-> ScheduledCheckpoint(Head(events))]
  /\ events' = IF Ignored(Head(events)) THEN Tail(events) ELSE events
  /\ UNCHANGED <<tables, rowLocks, api, chain, worker>>

PendingAction(id) == [stateId |-> id, status |-> "pending", retries |-> 0]

\* It refreshes the balance and commits, with the event stored.
CommitEvent ==
  LET e == handling.event IN
  /\ handling # Nil
  /\ rowLocks[channels[e.channelId].userWallet] = Nil
  /\ UpdateChannelAndRefresh(e.channelId, HandledRow(e))
  /\ actions' = IF handling.checkpoint = Nil THEN actions
                ELSE Append(actions, PendingAction(handling.checkpoint))
  /\ events' = Tail(events)
  /\ handling' = Nil
  /\ UNCHANGED <<channelStates, transactions, actionLog, rowLocks, api, chain, mempool>>

-------------------------------------------------------------------------------
(* The blockchain worker *)

ActionState(i) == GetStateByID(actions[i].stateId)

\* BlockchainClient.Checkpoint gets a transaction out: the intent is one it
\* knows and the call does not revert when its gas is estimated, for the
\* engine or for want of the user's tokens.
CheckpointSendable(s, paid) ==
  /\ TransitionToIntent(s.transition) \in {"OPERATE", "DEPOSIT", "WITHDRAW"}
  /\ chain[s.homeChannelId].status # "VOID"
  /\ Accepts(s.homeChannelId, s)
  /\ Payable(s, paid)

\* processAction sends the checkpoint; recorded is FALSE when Complete fails.
ProcessActionSent(i, recorded) ==
  /\ actions[i].status = "pending"
  /\ \E paid \in BOOLEAN : CheckpointSendable(ActionState(i), paid)
  /\ mempool' = mempool \cup {actions[i].stateId}
  /\ actions' = IF recorded THEN [actions EXCEPT ![i].status = "completed"] ELSE actions
  /\ UNCHANGED <<tables, rowLocks, api, onchain, handling>>

\* Mutation: a failed attempt is not counted.
HandledActionErrorUncounted(a) == a

HandledActionError(a) ==
  IF a.retries >= MaxActionRetries THEN [a EXCEPT !.status = "failed"]
  ELSE [a EXCEPT !.retries = @ + 1]

\* processAction fails: the call is refused, or the chain cannot be reached.
ProcessActionFailed(i) ==
  /\ actions[i].status = "pending"
  /\ actions' = [actions EXCEPT ![i] = HandledActionError(@)]
  /\ UNCHANGED <<tables, rowLocks, api, onchain, handling, mempool>>

\* A transaction of the worker is mined, and does nothing if it reverts.
Mine(id) ==
  LET s == GetStateByID(id) IN
  /\ \E paid \in BOOLEAN :
       IF CheckpointSendable(s, paid) THEN CheckpointOnChain(s.homeChannelId, s)
                                      ELSE UNCHANGED onchain
  /\ mempool' = mempool \ {id}
  /\ UNCHANGED <<tables, rowLocks, api, handling, actions>>

-------------------------------------------------------------------------------
ApiStep(r) ==
  \/ SubmitStateGate(r)
  \/ LockAndValidate(r)
  \/ IssueTransferReceiverState(r)
  \/ AbortDeadlocked(r)

WorkerStep ==
  \E i \in DOMAIN actions :
    \/ \E recorded \in BOOLEAN : ProcessActionSent(i, recorded)
    \/ ProcessActionFailed(i)

\* The worker's turns on which the database records what it did.
WorkerProgress ==
  \E i \in DOMAIN actions : ProcessActionSent(i, TRUE) \/ ProcessActionFailed(i)

EventStep == BeginEvent \/ CommitEvent

ClientStep ==
  \/ \E r \in Requests, u \in Users : ClientSubmit(r, u) \/ ClientCreate(r, u)
  \/ \E u \in Users : UserCheckpoint(u)
  \/ \E s \in channelStates : UserChallenge(s)

ChainStep ==
  \/ \E c \in ChannelIds : ExpireChallenge(c) \/ CloseExpired(c)
  \/ \E id \in mempool : Mine(id)

Next ==
  \/ ClientStep
  \/ \E r \in Requests : ApiStep(r)
  \/ EventStep
  \/ WorkerStep
  \/ ChainStep

\* The node's goroutines keep running: requests, the listener and the worker
\* get their turns.  Clients, users and miners promise nothing.
Fairness ==
  /\ \A r \in Requests : WF_requests(ApiStep(r))
  /\ WF_<<handling, events>>(EventStep)
  /\ WF_actions(WorkerProgress)

Spec == Init /\ [][Next]_vars /\ Fairness

-------------------------------------------------------------------------------
(* Properties *)

\* The types of the tables, the requests, the chain's records and the actions:
\* statuses and steps are those the code names, and only requests hold locks.
TypeOK ==
  /\ \A s \in channelStates : /\ s.userWallet \in Users
                              /\ s.transition.type \in TransitionType
                              /\ s.homeChannelId \in ChannelIds \cup {Nil}
  /\ \A c \in ChannelIds : channels[c] = Nil \/ channels[c].status \in ChannelStatus
  /\ rowLocks \in [Users -> Requests \cup {Nil}]
  /\ \A r \in Requests : requests[r].pc \in {"idle", "gate", "lock", "receiver"}
  /\ sent \in 0..MaxRequests
  /\ \A c \in ChannelIds : chain[c].status \in Hub!ChannelStatus
  /\ \A i \in DOMAIN actions : actions[i].status \in {"pending", "completed", "failed"}

\* The last state of every epoch of u.
EpochEnds(u) ==
  {s \in StatesOf(u) : \A t \in StatesOf(u) : t.epoch = s.epoch => t.version <= s.version}

UserFlow(u) == SumOver([s \in EpochEnds(u) |-> s.homeLedger.userNetFlow], EpochEnds(u))

\* What the ledger sees of the tables.
Balances == [u \in Users |-> userBalances[u].balance]

Flows == [u \in Users |-> UserFlow(u)]

Ledger == INSTANCE UserLedger WITH bal <- Balances, flow <- Flows

\* The node implements the ledger of balances it promises: user_balances
\* moves only by whole deposits, withdrawals and transfers that the users
\* asked for and is never overdrawn, although a transfer is two states
\* stored under two locks and a closing moves on to a new epoch
\* (submit_state.go, request_creation.go, issueTransferReceiverState).
ImplementsLedger == Ledger!Spec

\* The states a user's history must hold before s.
Predecessors(s) ==
  {t \in StatesOf(s.userWallet) :
     \/ t.epoch = s.epoch /\ t.version = s.version - 1
     \/ s.version = 0 /\ t.epoch = s.epoch - 1 /\ IsFinal(t)}

\* What a transition adds to the user's balance.
Gain(t) ==
  CASE t.type \in {"home_deposit", "transfer_receive", "release"} -> t.amount
    [] t.type = "acknowledgement" -> 0
    [] OTHER -> -t.amount

\* A user's history is one chain: no state is missing, none forks, and every
\* balance follows from the one before by the amount of the transition, for
\* the states users sign and for those the node issues unasked
\* (StoreUserState, GetLastUserState, issueTransferReceiverState).
HistoryIsOneChain ==
  \A s \in channelStates :
    LET before == Predecessors(s) IN
    /\ s.epoch > 0 \/ s.version > 1 => Cardinality(before) = 1
    /\ \A t \in StatesOf(s.userWallet) : GetStateID(t) = GetStateID(s) => t = s
    /\ s.homeLedger.userBalance =
         Gain(s.transition) + (IF before = {} THEN 0
                               ELSE (CHOOSE t \in before : TRUE).homeLedger.userBalance)

\* A channel on the chain that has not been closed or left to expire.
Contestable(c) ==
  chain[c].status \in {"VOID", "OPERATING", "DISPUTED"} /\ chain[c].challengeExpireAt = 0

\* The version the channel's first co-signed state has.
OpenedAtZero(c) == \E s \in channelStates : s.homeChannelId = c /\ s.version = 0

\* The node never co-signs what the chain would refuse: the last co-signed
\* state of a channel is on the chain already or would be accepted now, so
\* that a user cannot spend a deposit that was not made or a withdrawal twice
\* (EnsureNoOngoingStateTransitions), whatever clients submit within the
\* assumption of ClientSubmit.  The check compares the state with the row of
\* its channel, so it compares nothing for a channel without a row: a client
\* that names one in submit_state is outside of this statement (module Wire:
\* no state follows that one, UnknownChannelIsDeadEnd), as are a channel
\* reopened at version 0 and a closing of a channel that is not on the chain
\* yet, which needs an earlier state there first.  A deposit is accepted when
\* it is paid.
LastSignedIsEnforceable ==
  \A u \in Users :
    LET s == GetLastUserState(u, TRUE)
        c == s.homeChannelId
    IN  s # Nil /\ Contestable(c) /\ ~OpenedAtZero(c) =>
          \/ s.version <= chain[c].lastState.version
          \/ Accepts(c, s)
          \/ IsFinal(s) /\ chain[c].status = "VOID"

RowStatus(status) ==
  CASE status = "VOID" -> "void" [] status = "OPERATING" -> "open"
    [] status = "DISPUTED" -> "challenged" [] status = "CLOSED" -> "closed"

\* Once every event is handled the tables agree with the chain: the status
\* and version of each channel and, for a user with one open channel, the
\* enforced balance, whatever requests ran meanwhile (event_handlers,
\* RefreshUserEnforcedBalance).  The balance of a channel reopened at version
\* 0 is left out: the refresh joins on state_version > 0.
DBMirrorsChain ==
  events = <<>> =>
    /\ \A c \in ChannelIds : channels[c] # Nil =>
         /\ channels[c].status = RowStatus(chain[c].status)
         /\ channels[c].stateVersion = chain[c].lastState.version
    /\ \A u \in Users : \A c \in ActiveHomeChannels(u) :
         ActiveHomeChannels(u) = {c} /\ ~OpenedAtZero(c) =>
           userBalances[u].enforced =
             chain[c].lastState.homeLedger.userAllocation * AssetUnit

\* A checkpoint the node has scheduled against a challenge is one the chain
\* accepts for as long as the challenge is open, although the user may go on
\* submitting states and checkpoints meanwhile (HandleHomeChannelChallenged,
\* ScheduleCheckpoint, BlockchainClient.Checkpoint).  Only one thing can stop
\* it, a deposit that the user's wallet does not pay (_pullFunds), which the
\* node does not control.  A final state is left out: the client refuses to
\* checkpoint it.
AnswersAreAccepted ==
  \A i \in DOMAIN actions :
    LET s == ActionState(i)
        c == s.homeChannelId
    IN  /\ actions[i].status = "pending" /\ ~IsFinal(s)
        /\ chain[c].status = "DISPUTED" /\ Contestable(c)
        /\ s.version > chain[c].lastState.version
        => \A paid \in BOOLEAN :
             CheckpointSendable(s, paid) \/ (s.transition.type = "home_deposit" /\ ~paid)

\* The channel's record on the chain once s has been enforced.
MetaAfter(m, cs) ==
  [status |-> Hub!newStatus(m, cs), lastState |-> cs, challengeExpireAt |-> 0,
   lockedFunds |-> Hub!expectedLocked(m, cs)]

\* s is accepted by the node's rule after cur, and its conversion by the
\* contract's after m.
BothAccept(cur, s, m) ==
  /\ ValidateAdvancement(cur, s)
  /\ Hub!validateTransition(m, ContractState(s), NodeFunds, 0)

\* The node's transitions and the contract's engine agree on escrows: from
\* the state a user has enforced, locking any amount and then completing the
\* deposit or the withdrawal passes the node's validation and the engine's,
\* and changes the balance by that amount (the Apply methods of escrows in
\* types.go, coreStateToContractState, ChannelEngine.sol).
EscrowsAgree ==
  \A u \in Users, a \in Amounts :
    LET s == GetLastUserState(u, FALSE)
        m == chain[s.homeChannelId]
        lock == ApplyMutualLockTransition(NextState(s), Chain + 1, Token, a)
        deposit == ApplyEscrowDepositTransition(NextState(lock), a)
        lockOut == ApplyEscrowLockTransition(NextState(s), Chain + 1, Token, a)
        withdraw == ApplyEscrowWithdrawTransition(NextState(lockOut), a)
        onChain == /\ s # Nil /\ s.homeChannelId # Nil
                   /\ m.lastState = ContractState(s) /\ m.status = "OPERATING"
    IN  onChain =>
          /\ BothAccept(s, lock, m)
          /\ BothAccept(lock, deposit, MetaAfter(m, ContractState(lock)))
          /\ deposit.homeLedger.userBalance = s.homeLedger.userBalance + a
          /\ a <= s.homeLedger.userBalance =>
               /\ BothAccept(s, lockOut, m)
               /\ BothAccept(lockOut, withdraw, MetaAfter(m, ContractState(lockOut)))
               /\ withdraw.homeLedger.userBalance = s.homeLedger.userBalance - a

\* Every request ends: two users who pay each other at the same moment wait
\* for one another's rows, and one transaction is aborted (submit_state.go).
RequestsEnd == \A r \in Requests : []<>(requests[r].pc = "idle")

\* Every checkpoint scheduled is sent or given up: retries are counted even
\* when a transaction went out and could not be recorded
\* (processAction, handleActionError).
ActionsSettle == []<>(\A i \in DOMAIN actions : actions[i].status # "pending")

\* A challenge with an outdated state does not stand: once its event is
\* handled, a checkpoint of the channel's latest co-signed state is scheduled
\* ("automatically schedules a checkpoint of the latest signed state if
\* available to resolve the challenge", HandleHomeChannelChallenged).
LatestStateAnswersChallenge ==
  \A c \in ChannelIds :
    LET s == GetLastStateByChannelID(c, TRUE) IN
    /\ events = <<>> /\ channels[c] # Nil /\ channels[c].status = "challenged"
    /\ s # Nil /\ s.version > channels[c].stateVersion
    => \E i \in DOMAIN actions : actions[i].stateId = GetStateID(s)
===============================================================================
