------------------------------- MODULE NodeStore -------------------------------
(***************************************************************************)
(* clearnode/store/database: the tables the node keeps about users'        *)
(* channels, and the queries and updates its handlers make of them.  A     *)
(* table is a set of rows or a function of its key; an update is written   *)
(* as the value the table gets, and the module that owns the transaction   *)
(* says when it commits.                                                   *)
(*                                                                         *)
(* PostgreSQL runs the transactions at READ COMMITTED: a statement sees    *)
(* what other transactions have committed, and rowLocks[u] is the          *)
(* transaction that holds the FOR UPDATE lock of u's user_balances row.    *)
(* The wallet column, lower-cased on every path, is the user.              *)
(***************************************************************************)
EXTENDS CoreState, FiniteSets

CONSTANTS
  Users,   \* wallets
  Nonces,  \* the nonces clients draw for their channels
  Chain,   \* the blockchain id every channel is created on
  Token    \* the asset's token there

ChannelIds == Users \X Nonces

VARIABLES
  channelStates,  \* channel_states
  channels,       \* channels: [ChannelIds -> row or Nil]
  userBalances,   \* user_balances: [Users -> balance and enforced balance]
  transactions,   \* transactions
  actionLog,      \* action_log_v1: what the gateway has counted of each user
  rowLocks        \* [Users -> the transaction that locked the row, or Nil]

tables == <<channelStates, channels, userBalances, transactions, actionLog>>

ChannelStatus == {"void", "open", "challenged", "closed"}

\* A row of channels.
ChannelRow == [userWallet : Users, status : ChannelStatus, stateVersion : Nat]

-------------------------------------------------------------------------------
(* channel_states *)

CoSigned(s) == s.userSig /\ s.nodeSig

\* ORDER BY epoch DESC, version DESC LIMIT 1; Nil when there is no row.
Latest(rows) ==
  IF rows = {} THEN Nil
  ELSE CHOOSE s \in rows : \A t \in rows :
         s.epoch > t.epoch \/ (s.epoch = t.epoch /\ s.version >= t.version)

StatesOf(u) == {s \in channelStates : s.userWallet = u}

GetStateByID(id) == CHOOSE s \in channelStates : GetStateID(s) = id

GetLastUserState(u, signed) == Latest({s \in StatesOf(u) : signed => CoSigned(s)})

\* Mutation: the last state is returned whether it is signed or not.
GetLastStateByChannelIDUnsigned(c, signed) ==
  Latest({s \in channelStates : c \in {s.homeChannelId, s.escrowChannelId}})

GetLastStateByChannelID(c, signed) ==
  Latest({s \in channelStates : /\ c \in {s.homeChannelId, s.escrowChannelId}
                                /\ signed => CoSigned(s)})

\* The primary key, and the unique index on wallet, asset, epoch and version.
Insertable(new) ==
  \A s \in new : \A t \in channelStates : GetStateID(s) # GetStateID(t)

\* StoreUserState of each state in new: the row, and the user's balance.
StoreUserState(new) ==
  /\ channelStates' = channelStates \cup new
  /\ userBalances' =
       [u \in Users |->
          LET own == {s \in new : s.userWallet = u} IN
          IF own = {} THEN userBalances[u]
          ELSE [userBalances[u] EXCEPT !.balance = Latest(own).homeLedger.userBalance]]

-------------------------------------------------------------------------------
(* channels *)

\* core.NewChannel as CreateChannel inserts it.
NewChannel(u) == [userWallet |-> u, status |-> "void", stateVersion |-> 0]

ChannelsOf(u) == {c \in ChannelIds : channels[c] # Nil /\ channels[c].userWallet = u}

CheckOpenChannel(u) == \E c \in ChannelsOf(u) : channels[c].status \in {"void", "open"}

\* GetActiveHomeChannel, which the SDK asks, returns one of these; which of
\* them depends on the order of their hashes.
ActiveHomeChannels(u) == {c \in ChannelsOf(u) : channels[c].status \in {"void", "open"}}

\* Mutation: a withdrawal need not be on the chain before the next state.
EnsureOnlyDepositsDone(u) ==
  LET s == GetLastUserState(u, TRUE) IN
  s # Nil /\ s.transition.type = "home_deposit" /\ channels[s.homeChannelId] # Nil =>
     channels[s.homeChannelId].stateVersion = s.version

\* The last co-signed state, if it moves funds over the chain, has been
\* enforced there; a channel missing from the table passes.
EnsureNoOngoingStateTransitions(u) ==
  LET s == GetLastUserState(u, TRUE)
      Enforced(c) == c \in ChannelIds /\ channels[c] # Nil =>
                       channels[c].stateVersion = s.version
      onHome == {"home_deposit", "home_withdrawal", "mutual_lock", "migrate"}
      onEscrow == {"mutual_lock", "escrow_lock", "escrow_withdraw"}
  IN  s # Nil => /\ s.transition.type \in onHome => Enforced(s.homeChannelId)
                 /\ s.transition.type \in onEscrow => Enforced(s.escrowChannelId)

\* The enforced balance after an update of channel c's row: the user's
\* balance in the state the chain holds, zero if no open channel has one.
\* The row updated last comes first, which is c's when it qualifies.
EnforcedBalance(rows, c) ==
  LET u == rows[c].userWallet
      Joined(d) == {s \in channelStates : /\ s.homeChannelId = d
                                          /\ s.version = rows[d].stateVersion}
      qualify == {d \in ChannelIds : /\ rows[d] # Nil /\ rows[d].userWallet = u
                                     /\ rows[d].status \in {"void", "open"}
                                     /\ rows[d].stateVersion > 0
                                     /\ Joined(d) # {}}
      first == IF c \in qualify THEN c ELSE CHOOSE d \in qualify : TRUE
  IN  IF qualify = {} THEN 0
      ELSE (CHOOSE s \in Joined(first) : TRUE).homeLedger.userBalance

\* UpdateChannel of c to row, then RefreshUserEnforcedBalance.
UpdateChannelAndRefresh(c, row) ==
  LET rows == [channels EXCEPT ![c] = row] IN
  /\ channels' = rows
  /\ userBalances' =
       [userBalances EXCEPT ![row.userWallet].enforced = EnforcedBalance(rows, c)]

-------------------------------------------------------------------------------
(* transactions *)

\* A row whose id is taken fails the transaction it is inserted in.
RecordTransaction(rows) ==
  /\ \A t \in transactions, row \in rows : t.id # row.id
  /\ transactions' = transactions \cup rows
===============================================================================
