----------------------------- MODULE AppSessions -----------------------------
(***************************************************************************)
(* App sessions: participants put money of their channels into a session,  *)
(* redistribute it and take it back, each update signed by a quorum of     *)
(* weights (clearnode/api/app_session_v1, pkg/app, the app_* tables of     *)
(* clearnode/store/database), together with the registry of applications,  *)
(* the session keys that sign for wallets and the action gateway that      *)
(* counts what an application's owner may still do.                        *)
(*                                                                         *)
(* A session id stands for the definition it is the hash of.               *)
(* A signature is the name of the wallet or session key that made it, and  *)
(* is over the update it comes with.  A request runs in one transaction,   *)
(* split where it reads what another one may change and where it can wait  *)
(* for a row.  One asset is modelled and one window of the gateway.        *)
(***************************************************************************)
EXTENDS NodeStore, FiniteSetsExt, Functions, Totals

CONSTANTS
  Sessions,        \* app session ids
  Definition,      \* their app definitions: application, participants, quorum
  Order,           \* the users, sorted by address
  Keys,            \* session key addresses
  SignerSets,      \* sets of wallets and keys that sign an update
  Owners,          \* the owner of each application
  ApprovalNeeded,  \* applications whose owner approves each session
  AppCost, LevelStepTokens, FreeActionsAllowance, IncreasePerLevel,
  Stakes,          \* balances the locking contract reports
  Pasts,           \* what may have happened before, a subset of Past
  Running,         \* sessions that may be under way
  Funded,          \* the one of them with deposits
  KeyHolders,      \* the users who register session keys
  KeyScopes,       \* the sessions and applications of a key's successive
                   \* states, and whether they expire within the behaviour
  Amounts,         \* what participants deposit
  InitialBalance,  \* what every user has deposited in a channel
  Slots,           \* requests in flight
  MaxRequests      \* bound on the requests of a behaviour

Applications == DOMAIN Owners

GatedActions == {"app_session_creation", "app_session_deposit",
                 "app_session_operation", "app_session_withdrawal"}

\* Nothing but the users' channels; or the applications are registered, the
\* sessions Running created and one unit put into Funded by each participant.
Past == {"nothing", "running"}

AppSessionRow == [status : {"open", "closed"}, version : Nat]

ASSUME AppSessionsAssumption ==
  /\ Order \in Seq(Users) /\ Range(Order) = Users /\ Len(Order) = Cardinality(Users)
  /\ Range(Owners) \subseteq Users
  /\ \A d \in Range(Definition) : /\ d.application \in Applications
                                  /\ DOMAIN d.participants \subseteq Users
                                  /\ Range(d.participants) \subseteq 0..255
                                  /\ d.quorum \in 0..255
  /\ DOMAIN Definition = Sessions /\ IsFiniteSet(Sessions)
  /\ Running \subseteq Sessions /\ Funded \in Running
  /\ KeyScopes \in Seq([sessions : SUBSET Sessions, applications : SUBSET Applications,
                        expires : BOOLEAN])
  /\ AppCost \in Nat \ {0} /\ LevelStepTokens \in Nat \ {0}
  /\ FreeActionsAllowance \in Nat /\ IncreasePerLevel \in Nat
  /\ Stakes \subseteq Nat /\ Pasts \subseteq Past /\ Slots \in Nat \ {0}
  /\ Amounts \subseteq Nat /\ InitialBalance \in Nat \ {0} /\ MaxRequests \in Nat
  /\ Nil \notin Nat /\ Nil \notin AppSessionRow

VARIABLES
  appSessions,   \* app_sessions_v1: [Sessions -> row or Nil]
  appLedger,     \* app_ledger_v1: credits less debits of a session's wallets
  sessionLocks,  \* the transaction that has updated the session's row, or Nil
  apps,          \* apps_v1: the registered applications
  staked,        \* user_staked_v1, over all chains
  keyStates,     \* app_session_key_states_v1
  requests,      \* the request in each slot
  sent           \* number of requests sent so far

appTables == <<appSessions, appLedger, apps, staked, keyStates>>
vars == <<tables, rowLocks, appTables, sessionLocks, requests, sent>>

Requests == 1..Slots
Idle == [pc |-> "idle", kind |-> "none"]
Participants(sid) == DOMAIN Definition[sid].participants
OwnerOf(sid) == Owners[Definition[sid].application]
SumOf(f) == SumOver(f, DOMAIN f)

-------------------------------------------------------------------------------
(* The action gateway *)

GetAppCount(u) == Cardinality({a \in apps : Owners[a] = u})

\* The actions an owner may take within the window.
stakedTo24hActionsAllowance(remaining) ==
  FreeActionsAllowance
    + (IF remaining > 0 THEN IncreasePerLevel * (remaining \div LevelStepTokens) ELSE 0)

Allowance(u) ==
  stakedTo24hActionsAllowance(
    IF staked[u] > 0 THEN staked[u] - AppCost * GetAppCount(u) ELSE staked[u])

\* An intent that has no gated action passes.
AllowAction(u, action) == action \in GatedActions => actionLog[u][action] < Allowance(u)

AllowAppRegistration(u) ==
  /\ staked[u] # 0
  /\ staked[u] >= AppCost * (GetAppCount(u) + 1)

\* AppStateUpdateIntent.GatedAction
IntentAction(intent) ==
  CASE intent = "operate"  -> "app_session_operation"
    [] intent = "deposit"  -> "app_session_deposit"
    [] intent = "withdraw" -> "app_session_withdrawal"
    [] OTHER               -> ""

-------------------------------------------------------------------------------
(* Session keys and quorums *)

Uint8(n) == n % 256

LatestVersion(rows) == Max({k.version : k \in rows} \cup {0})

\* Mutation: any unexpired version of the key's state will do.
KeyOwnersOfAnyVersion(key, sid) ==
  {k.user : k \in {k \in keyStates :
     /\ k.key = key /\ ~k.expired
     /\ \/ sid \in k.sessions
        \/ appSessions[sid] # Nil /\ Definition[sid].application \in k.applications}}

\* The users GetAppSessionKeyOwner may return: the highest version of the key,
\* whoever registered it, not expired, for the session or its application,
\* which is known once the session exists.
KeyOwners(key, sid) ==
  LET rows == {k \in keyStates : k.key = key} IN
  {k.user : k \in {k \in rows :
     /\ k.version = LatestVersion(rows)
     /\ ~k.expired
     /\ \/ sid \in k.sessions
        \/ appSessions[sid] # Nil /\ Definition[sid].application \in k.applications}}

\* The wallet a signature counts for; Nil when it cannot be recovered.
Recover(sig, sid) ==
  IF sig \in Users THEN sig
  ELSE IF KeyOwners(sig, sid) = {} THEN Nil
  ELSE CHOOSE u \in KeyOwners(sig, sid) : TRUE

\* The weight of a set of participants, as the uint8 it is added up in.
Weight(sid, wallets) ==
  Uint8(MapThenSumSet(LAMBDA u : Definition[sid].participants[u], wallets))

\* The sessions under way are such as CreateAppSession lets through.
ASSUME RunningAssumption ==
  \A sid \in Running : Definition[sid].quorum <= Weight(sid, Participants(sid))

verifyQuorum(sid, sigs) ==
  LET wallets == {Recover(s, sid) : s \in sigs} IN
  /\ wallets \subseteq Participants(sid)
  /\ Weight(sid, wallets) >= Definition[sid].quorum

\* A quorum's signatures come with the update, no more than participants.
SignaturesGiven(sid, sigs) ==
  sigs # {} /\ Cardinality(sigs) <= Cardinality(Participants(sid))

-------------------------------------------------------------------------------
(* What the intents ask of an update; cur is what the session's wallets    *)
(* have and new what the update lists for some of them.                    *)

Holders(cur) == {u \in Users : cur[u] # 0}

\* The checks the other intents make of each allocation.
ValidAllocations(sid, new) ==
  DOMAIN new \subseteq Participants(sid) /\ \A u \in DOMAIN new : new[u] >= 0

\* handleOperateIntent: the whole balance is redistributed.
OperateAllowed(cur, new) ==
  /\ \A u \in DOMAIN new : ValidateDecimalPrecision(new[u])
  /\ Holders(cur) \subseteq DOMAIN new
  /\ SumOf(new) = SumOf(cur)

\* handleWithdrawIntent: some allocations are reduced.
WithdrawAllowed(cur, new) ==
  /\ \A u \in DOMAIN new : new[u] # 0 => cur[u] # 0
  /\ Holders(cur) \subseteq DOMAIN new
  /\ \A u \in Holders(cur) : new[u] <= cur[u] /\ ValidateDecimalPrecision(cur[u] - new[u])

\* handleCloseIntent: the update repeats what everyone has.
CloseAllowed(cur, new) ==
  Holders(cur) \subseteq DOMAIN new /\ \A u \in DOMAIN new : new[u] = cur[u]

\* submit_deposit_state: some allocations grow, together by the amount committed.
DepositAllowed(sid, cur, new, amount) ==
  /\ \A u \in DOMAIN new : /\ new[u] >= 0 /\ new[u] >= cur[u]
                           /\ ValidateDecimalPrecision(new[u])
                           /\ new[u] > cur[u] => u \in Participants(sid)
  /\ SumOf([u \in DOMAIN new |-> new[u] - cur[u]]) = amount

\* rebalance_app_sessions asks nothing more of one session's allocations.
IntentAllowed(upd, amount) ==
  LET cur == appLedger[upd.session]
      new == upd.allocations
  IN  /\ upd.intent # "deposit" => ValidAllocations(upd.session, new)
      /\ CASE upd.intent = "operate"   -> OperateAllowed(cur, new)
           [] upd.intent = "withdraw"  -> WithdrawAllowed(cur, new)
           [] upd.intent = "close"     -> CloseAllowed(cur, new)
           [] upd.intent = "deposit"   -> DepositAllowed(upd.session, cur, new, amount)
           [] upd.intent = "rebalance" -> TRUE

\* The entries the update adds to the session's ledger, per wallet: credits
\* and debits against what was read.  A close debits everything, a rebalance
\* what is not listed.
LedgerEntries(upd) ==
  LET cur == appLedger[upd.session]
      new == upd.allocations
  IN  [u \in Users |->
         IF upd.intent # "close" /\ u \in DOMAIN new THEN new[u] - cur[u]
         ELSE IF upd.intent \in {"close", "rebalance"} THEN -cur[u]
         ELSE 0]

-------------------------------------------------------------------------------
(* The initial states *)

Signed(s) == [s EXCEPT !.userSig = TRUE, !.nodeSig = TRUE]

FirstDeposit(u) ==
  Signed(ApplyHomeDepositTransition(
    ApplyChannelCreation(NextState(NewVoidState(u)), Chain, Token, 1), InitialBalance))

FirstCommit(u) == Signed(ApplyCommitTransition(NextState(FirstDeposit(u)), Funded, 1))

PastStates(past, u) ==
  {FirstDeposit(u)} \cup
    (IF past = "running" /\ u \in Participants(Funded) THEN {FirstCommit(u)} ELSE {})

Init ==
  \E past \in Pasts :
    LET committed == IF past = "running" THEN Participants(Funded) ELSE {}
        running == IF past = "running" THEN Running ELSE {}
    IN
    /\ channelStates = UNION {PastStates(past, u) : u \in Users}
    /\ channels = [c \in ChannelIds |->
                     IF c[2] = 1 THEN [userWallet |-> c[1], status |-> "open", stateVersion |-> 1]
                     ELSE Nil]
    /\ userBalances = [u \in Users |->
                         [balance |-> InitialBalance - (IF u \in committed THEN 1 ELSE 0),
                          enforced |-> InitialBalance]]
    /\ transactions = {NewTransactionFromTransition(s, Nil, s.transition) : s \in channelStates}
    /\ actionLog = [u \in Users |-> [a \in GatedActions |->
                      CASE a = "app_session_deposit" /\ u = OwnerOf(Funded) ->
                             Cardinality(committed)
                        [] a = "app_session_creation" ->
                             Cardinality({sid \in running : OwnerOf(sid) = u})
                        [] OTHER -> 0]]
    /\ rowLocks = [u \in Users |-> Nil]
    /\ apps = IF past = "running" THEN Applications ELSE {}
    /\ staked = [u \in Users |-> IF past = "running" THEN Max(Stakes) ELSE 0]
    /\ appSessions = [sid \in Sessions |->
                        IF sid \notin running THEN Nil
                        ELSE [status |-> "open",
                              version |-> IF sid = Funded THEN 1 + Cardinality(committed) ELSE 1]]
    /\ appLedger = [sid \in Sessions |->
                      [u \in Users |-> IF sid = Funded /\ u \in committed THEN 1 ELSE 0]]
    /\ sessionLocks = [sid \in Sessions |-> Nil]
    /\ keyStates = {}
    /\ requests = [r \in Requests |-> Idle]
    /\ sent = 0

-------------------------------------------------------------------------------
(* Clients: sdk/go/app_session.go and app_registry.go *)

MaySend(r) ==
  /\ requests[r].pc = "idle" /\ sent < MaxRequests
  /\ \A o \in Requests : o < r => requests[o].pc # "idle"

Send(r, q) ==
  /\ requests' = [requests EXCEPT ![r] = q]
  /\ sent' = sent + 1
  /\ UNCHANGED <<tables, rowLocks, appTables, sessionLocks>>

\* What participants sign, given what they see.
Update(sid, intent, new, sigs) ==
  [session |-> sid, version |-> appSessions[sid].version + 1, intent |-> intent,
   allocations |-> new, sigs |-> sigs]

\* Signers sign for sessions their key is registered for at that time.
MaySign(sid, sigs) == \A s \in sigs : Recover(s, sid) # Nil

\* The allocations of a session, with d more for u.
Allocations(sid, u, d) ==
  [v \in Participants(sid) |-> appLedger[sid][v] + (IF v = u THEN d ELSE 0)]

RegisterApp(r, a) ==
  /\ MaySend(r) /\ a \notin apps
  /\ Send(r, [kind |-> "register", pc |-> "begin", app |-> a])

CreateAppSession(r, sid, sigs) ==
  /\ MaySend(r) /\ appSessions[sid] = Nil /\ MaySign(sid, sigs)
  /\ \E ownerSig \in {Nil, OwnerOf(sid)} :
       Send(r, [kind |-> "create", pc |-> "begin", session |-> sid, sigs |-> sigs,
                ownerSig |-> ownerSig])

\* A deposit of u, who credits itself or another participant.
SubmitAppSessionDeposit(r, u, sid, sigs) ==
  /\ MaySend(r) /\ appSessions[sid] # Nil /\ MaySign(sid, sigs)
  /\ \E a \in Amounts, to \in Participants(sid) :
       LET cur == GetLastUserState(u, FALSE)
           p == ApplyCommitTransition(NextState(cur), sid, a)
       IN  /\ ValidateAdvancement(cur, p)
           /\ Send(r, [kind |-> "deposit", pc |-> "begin",
                       upd |-> Update(sid, "deposit", Allocations(sid, to, a), sigs),
                       state |-> [p EXCEPT !.userSig = TRUE]])

\* An operation moves an amount from one participant to another, a
\* withdrawal takes one out, a closing repeats the allocations.
SubmitAppState(r, sid, sigs) ==
  LET Sent(intent, new) ==
        Send(r, [kind |-> "state", pc |-> "begin", upd |-> Update(sid, intent, new, sigs)])
      cur == Allocations(sid, Nil, 0)
  IN  /\ MaySend(r) /\ appSessions[sid] # Nil /\ MaySign(sid, sigs)
      /\ \/ Sent("close", cur)
         \/ \E u \in Participants(sid), a \in Amounts :
              /\ a <= cur[u]
              /\ \/ Sent("withdraw", Allocations(sid, u, -a))
                 \/ \E v \in Participants(sid) \ {u} :
                      Sent("operate", [cur EXCEPT ![u] = @ - a, ![v] = @ + a])

\* An amount of u moves from one session to the other, which may be listed
\* in either order, or is added to both.
RebalanceAppSessions(r, sid, other, sigs) ==
  /\ MaySend(r) /\ sid # other /\ Nil \notin {appSessions[sid], appSessions[other]}
  /\ MaySign(sid, sigs) /\ MaySign(other, sigs)
  /\ \E u \in Participants(sid) \cap Participants(other), a \in Amounts :
       \E d \in {<<a, -a>>, <<-a, a>>, <<a, a>>} :
         /\ appLedger[sid][u] + d[1] >= 0 /\ appLedger[other][u] + d[2] >= 0
         /\ Send(r, [kind |-> "rebalance", pc |-> "begin", entries |-> <<>>,
                     upds |-> <<Update(sid, "rebalance", Allocations(sid, u, d[1]), sigs),
                                Update(other, "rebalance", Allocations(other, u, d[2]), sigs)>>])

-------------------------------------------------------------------------------
(* The transactions of the API *)

Finish(r) == requests' = [requests EXCEPT ![r] = Idle]

Goto(r, pc) == requests' = [requests EXCEPT ![r].pc = pc]

Unlocked(locks, r) == [x \in DOMAIN locks |-> IF locks[x] = r THEN Nil ELSE locks[x]]

\* Mutation: the rows of users stay locked.
ReleaseSessionsOnly(r) ==
  sessionLocks' = Unlocked(sessionLocks, r) /\ UNCHANGED rowLocks /\ Finish(r)

Release(r) ==
  /\ rowLocks' = Unlocked(rowLocks, r)
  /\ sessionLocks' = Unlocked(sessionLocks, r)
  /\ Finish(r)

\* Mutation: the gateway's count of the action outlives the transaction.
RollbackKeepsAction(r) ==
  /\ Release(r)
  /\ actionLog' = IF requests[r].kind = "deposit"
                  THEN [actionLog EXCEPT ![OwnerOf(requests[r].upd.session)]
                                         ["app_session_deposit"] = @ + 1]
                  ELSE actionLog
  /\ UNCHANGED <<channelStates, channels, userBalances, transactions, appTables>>

Rollback(r) == Release(r) /\ UNCHANGED <<tables, appTables>>

\* The action the gateway recorded appears with the rest.
CountAction(sid, action) ==
  actionLog' = IF action \in GatedActions
               THEN [actionLog EXCEPT ![OwnerOf(sid)][action] = @ + 1]
               ELSE actionLog

\* SubmitAppVersion: the gateway is asked, then the row inserted.
SubmitAppVersion(r) ==
  LET q == requests[r] IN
  /\ q.kind = "register"
  /\ \/ /\ q.pc = "begin"
        /\ IF AllowAppRegistration(Owners[q.app]) THEN Goto(r, "commit") ELSE Finish(r)
        /\ UNCHANGED apps
     \/ /\ q.pc = "commit"
        /\ apps' = apps \cup {q.app}
        /\ Finish(r)
  /\ UNCHANGED <<tables, rowLocks, appSessions, appLedger, staked, keyStates,
                 sessionLocks, sent>>

\* Mutation: the weights are added up without overflow.
QuorumWithinSum(sid) ==
  Definition[sid].quorum <= SumOf(Definition[sid].participants)

\* The quorum is not more than the weights, as they are added up.
QuorumWithin(sid) == Definition[sid].quorum <= Weight(sid, Participants(sid))

\* CreateAppSession up to the gateway.
CreateAppSessionAllowed(q) ==
  LET sid == q.session
      a == Definition[sid].application
  IN  /\ Definition[sid].quorum > 0 /\ QuorumWithin(sid)
      /\ SignaturesGiven(sid, q.sigs)
      /\ a \in apps
      /\ a \in ApprovalNeeded => q.ownerSig # Nil /\ Recover(q.ownerSig, sid) = Owners[a]
      /\ AllowAction(Owners[a], "app_session_creation")

BeginCreate(r) ==
  LET q == requests[r] IN
  /\ q.kind = "create" /\ q.pc = "begin"
  /\ IF CreateAppSessionAllowed(q) THEN Goto(r, "commit") ELSE Finish(r)
  /\ UNCHANGED <<tables, rowLocks, appTables, sessionLocks, sent>>

\* The signatures are verified and the row inserted, unless it exists.
CommitCreate(r) ==
  LET q == requests[r]
      sid == q.session
  IN  /\ q.kind = "create" /\ q.pc = "commit"
      /\ IF verifyQuorum(sid, q.sigs) /\ appSessions[sid] = Nil
         THEN /\ appSessions' = [appSessions EXCEPT ![sid] =
                                   [status |-> "open", version |-> 1]]
              /\ CountAction(sid, "app_session_creation")
              /\ Release(r)
              /\ UNCHANGED <<channelStates, channels, userBalances, transactions,
                             appLedger, apps, staked, keyStates>>
         ELSE Rollback(r)
      /\ UNCHANGED sent

\* What every update of a session is checked for when the session is read.
UpdateAllowed(upd) ==
  LET sid == upd.session
      row == appSessions[sid]
  IN  /\ row # Nil /\ row.status # "closed" /\ upd.version = row.version + 1
      /\ SignaturesGiven(sid, upd.sigs)
      /\ Definition[sid].application \in apps
      /\ AllowAction(OwnerOf(sid), IntentAction(upd.intent))

\* Mutation: the version is not compared.
UpdateMatchesAny(upd) == TRUE

\* UpdateAppSession finds the row at the version that was read.
UpdateMatches(upd) == appSessions[upd.session].version = upd.version - 1

UpdatedRow(upd) ==
  [status |-> IF upd.intent = "close" THEN "closed" ELSE "open", version |-> upd.version]

Sum(f, g) == [x \in DOMAIN f |-> f[x] + g[x]]

\* An update of one session commits with the states and transactions it made.
CommitUpdate(r, upd, entries, states, rows) ==
  /\ appSessions' = [appSessions EXCEPT ![upd.session] = UpdatedRow(upd)]
  /\ appLedger' = [appLedger EXCEPT ![upd.session] = Sum(@, entries)]
  /\ StoreUserState(states)
  /\ RecordTransaction(rows)
  /\ CountAction(upd.session, IntentAction(upd.intent))
  /\ Release(r)
  /\ UNCHANGED <<channels, apps, staked, keyStates>>

\* SubmitDepositState: the session is read and the gateway asked,
BeginDeposit(r) ==
  LET q == requests[r] IN
  /\ q.kind = "deposit" /\ q.pc = "begin"
  /\ IF UpdateAllowed(q.upd) THEN Goto(r, "lock") ELSE Finish(r)
  /\ UNCHANGED <<tables, rowLocks, appTables, sessionLocks, sent>>

DepositValid(q) ==
  LET u == q.state.userWallet
      t == q.state.transition
  IN  /\ t.type = "commit" /\ t.accountId = q.upd.session
      /\ CheckOpenChannel(u)
      /\ q.state.userSig
      /\ EnsureNoOngoingStateTransitions(u)
      /\ ValidateAdvancement(GetLastUserState(u, FALSE), q.state)
      /\ verifyQuorum(q.upd.session, q.upd.sigs)
      /\ IntentAllowed(q.upd, t.amount)
      /\ Insertable({q.state})

\* the user's row is locked and both states are checked,
LockDeposit(r) ==
  LET q == requests[r]
      u == q.state.userWallet
  IN  /\ q.kind = "deposit" /\ q.pc = "lock" /\ rowLocks[u] = Nil
      /\ IF DepositValid(q)
         THEN /\ rowLocks' = [rowLocks EXCEPT ![u] = r]
              /\ requests' = [requests EXCEPT ![r] =
                    [kind |-> "deposit", pc |-> "commit", upd |-> q.upd,
                     state |-> [q.state EXCEPT !.nodeSig = TRUE],
                     entries |-> LedgerEntries(q.upd)]]
              /\ UNCHANGED <<tables, appTables, sessionLocks>>
         ELSE Rollback(r)
      /\ UNCHANGED sent

\* and the session is updated.
CommitDeposit(r) ==
  LET q == requests[r] IN
  /\ q.kind = "deposit" /\ q.pc = "commit" /\ sessionLocks[q.upd.session] = Nil
  /\ IF UpdateMatches(q.upd)
     THEN CommitUpdate(r, q.upd, q.entries, {q.state},
            {NewTransactionFromTransition(q.state, Nil, q.state.transition)})
     ELSE Rollback(r)
  /\ UNCHANGED sent

\* SubmitAppState: the session is read, the gateway asked, the quorum checked,
BeginAppState(r) ==
  LET q == requests[r] IN
  /\ q.kind = "state" /\ q.pc = "begin"
  /\ IF UpdateAllowed(q.upd) /\ verifyQuorum(q.upd.session, q.upd.sigs)
     THEN Goto(r, "allocations") ELSE Finish(r)
  /\ UNCHANGED <<tables, rowLocks, appTables, sessionLocks, sent>>

\* Whom an update pays out; their rows are locked in the order of addresses.
Receivers(upd, entries) ==
  {u \in Users : upd.intent \in {"withdraw", "close"} /\ entries[u] < 0}

First(users) == Order[Min({i \in DOMAIN Order : Order[i] \in users})]

\* the allocations are read and compared with the update's,
ReadAllocations(r) ==
  LET q == requests[r]
      entries == LedgerEntries(q.upd)
  IN  /\ q.kind = "state" /\ q.pc = "allocations"
      /\ IF IntentAllowed(q.upd, 0)
         THEN requests' = [requests EXCEPT ![r] =
                [kind |-> "state", pc |-> "commit", upd |-> q.upd, entries |-> entries,
                 toLock |-> Receivers(q.upd, entries)]]
         ELSE Finish(r)
      /\ UNCHANGED <<tables, rowLocks, appTables, sessionLocks, sent>>

\* issueReleaseReceiverState: the state that pays u.
ReleaseReceiverState(u, sid, amount) ==
  LET next == ApplyReleaseTransition(NextState(GetLastUserState(u, FALSE)), sid, amount)
  IN  [next EXCEPT !.nodeSig = next.homeChannelId # Nil]

\* each receiver's row is locked in turn,
LockReceiver(r) ==
  LET q == requests[r]
      u == First(q.toLock)
  IN  /\ q.kind = "state" /\ q.pc = "commit" /\ q.toLock # {}
      /\ rowLocks[u] = Nil
      /\ IF GetLastUserState(u, TRUE).escrowChannelId = Nil
         THEN /\ rowLocks' = [rowLocks EXCEPT ![u] = r]
              /\ requests' = [requests EXCEPT ![r].toLock = @ \ {u}]
              /\ UNCHANGED <<tables, appTables, sessionLocks>>
         ELSE Rollback(r)
      /\ UNCHANGED sent

\* and the session is updated.
CommitAppState(r) ==
  LET q == requests[r]
      sid == q.upd.session
      states == {ReleaseReceiverState(u, sid, -q.entries[u]) :
                   u \in Receivers(q.upd, q.entries)}
  IN  /\ q.kind = "state" /\ q.pc = "commit" /\ q.toLock = {}
      /\ sessionLocks[sid] = Nil
      /\ IF UpdateMatches(q.upd)
         THEN CommitUpdate(r, q.upd, q.entries, states,
                {NewTransactionFromTransition(Nil, s, s.transition) : s \in states})
         ELSE Rollback(r)
      /\ UNCHANGED sent

\* RebalanceAppSessions: the sessions are read and checked one after another,
ReadRebalanced(r) ==
  LET q == requests[r]
      upd == q.upds[Len(q.entries) + 1]
  IN  /\ q.kind = "rebalance" /\ q.pc = "begin"
      /\ IF /\ UpdateAllowed(upd) /\ verifyQuorum(upd.session, upd.sigs)
            /\ IntentAllowed(upd, 0)
         THEN /\ requests' = [requests EXCEPT ![r].pc = "update",
                                              ![r].entries = Append(@, LedgerEntries(upd))]
              /\ UNCHANGED <<tables, rowLocks, appTables, sessionLocks>>
         ELSE Rollback(r)
      /\ UNCHANGED sent

\* GenerateRebalanceBatchIDV1
BatchId(upds) == <<[i \in DOMAIN upds |-> <<upds[i].session, upds[i].version>>]>>

\* The transaction between the batch and a session that gains diff.
RebalanceTransaction(batch, sid, diff) ==
  [id |-> <<batch, sid>>, txType |-> "rebalance",
   fromAccount |-> IF diff > 0 THEN batch ELSE sid,
   toAccount |-> IF diff > 0 THEN sid ELSE batch,
   senderState |-> Nil, receiverState |-> Nil, amount |-> IF diff > 0 THEN diff ELSE -diff]

CommitRebalance(r) ==
  LET q == requests[r]
      Index(sid) == {i \in DOMAIN q.upds : q.upds[i].session = sid}
      Gains == {i \in DOMAIN q.upds : SumOf(q.entries[i]) # 0}
  IN  /\ appSessions' = [sid \in Sessions |->
                           IF Index(sid) = {} THEN appSessions[sid]
                           ELSE UpdatedRow(q.upds[CHOOSE i \in Index(sid) : TRUE])]
      /\ appLedger' = [sid \in Sessions |->
                         IF Index(sid) = {} THEN appLedger[sid]
                         ELSE Sum(appLedger[sid], q.entries[CHOOSE i \in Index(sid) : TRUE])]
      /\ RecordTransaction({RebalanceTransaction(BatchId(q.upds), q.upds[i].session,
                                                 SumOf(q.entries[i])) : i \in Gains})
      /\ Release(r)
      /\ UNCHANGED <<channelStates, channels, userBalances, actionLog, apps, staked, keyStates>>

\* Mutation: the changes of the sessions need not cancel out.
ConservedAnyway(entries) == TRUE

Conserved(entries) ==
  SumOf([i \in DOMAIN entries |-> SumOf(entries[i])]) = 0

\* each is updated, which waits for another transaction's update of it, and
\* after the last one the changes must cancel out.
UpdateRebalanced(r) ==
  LET q == requests[r]
      upd == q.upds[Len(q.entries)]
      last == Len(q.entries) = Len(q.upds)
  IN  /\ q.kind = "rebalance" /\ q.pc = "update" /\ sessionLocks[upd.session] = Nil
      /\ IF ~UpdateMatches(upd) \/ (last /\ ~Conserved(q.entries)) THEN Rollback(r)
         ELSE IF last THEN CommitRebalance(r)
         ELSE /\ sessionLocks' = [sessionLocks EXCEPT ![upd.session] = r]
              /\ Goto(r, "begin")
              /\ UNCHANGED <<tables, rowLocks, appTables>>
      /\ UNCHANGED sent

\* PostgreSQL's deadlock detection (external): of two transactions that wait
\* for each other's rows one is aborted.
WaitsFor(r, o) ==
  LET q == requests[r] IN
  /\ q.pc = "update"
  /\ sessionLocks[q.upds[Len(q.entries)].session] = o

AbortDeadlocked(r) ==
  /\ \E o \in Requests \ {r} : WaitsFor(r, o) /\ WaitsFor(o, r)
  /\ Rollback(r)
  /\ UNCHANGED sent

-------------------------------------------------------------------------------
(* Session keys and stakes *)

StoreAppSessionKeyState(state) == keyStates' = keyStates \cup {state}

\* SubmitSessionKeyState of u for key k: the next version for the two.
SubmitSessionKeyState(u, k) ==
  LET last == LatestVersion({x \in keyStates : x.user = u /\ x.key = k})
      scope == KeyScopes[last + 1]
  IN
  /\ last < Len(KeyScopes)
  /\ StoreAppSessionKeyState(
       [user |-> u, key |-> k, version |-> last + 1, expired |-> FALSE,
        sessions |-> scope.sessions, applications |-> scope.applications])
  /\ UNCHANGED <<tables, rowLocks, appSessions, appLedger, apps, staked, sessionLocks,
                 requests, sent>>

\* The time of a key's state runs out.
ExpireKey(x) ==
  /\ ~x.expired /\ KeyScopes[x.version].expires
  /\ keyStates' = (keyStates \ {x}) \cup {[x EXCEPT !.expired = TRUE]}
  /\ UNCHANGED <<tables, rowLocks, appSessions, appLedger, apps, staked, sessionLocks,
                 requests, sent>>

HandleUserLockedBalanceUpdated(u, balance) == staked' = [staked EXCEPT ![u] = balance]

\* An event of the locking contract: Locked and Relocked carry the balance of
\* u, UnlockInitiated and Withdrawn leave nothing that counts.
HandleLockingEvent(u) ==
  /\ \/ \E balance \in Stakes \ {staked[u]} : HandleUserLockedBalanceUpdated(u, balance)
     \/ staked[u] # 0 /\ HandleUserLockedBalanceUpdated(u, 0)
  /\ UNCHANGED <<tables, rowLocks, appSessions, appLedger, apps, keyStates, sessionLocks,
                 requests, sent>>

-------------------------------------------------------------------------------
ApiStep(r) ==
  \/ SubmitAppVersion(r)
  \/ BeginCreate(r) \/ CommitCreate(r)
  \/ BeginDeposit(r) \/ LockDeposit(r) \/ CommitDeposit(r)
  \/ BeginAppState(r) \/ ReadAllocations(r) \/ LockReceiver(r) \/ CommitAppState(r)
  \/ ReadRebalanced(r) \/ UpdateRebalanced(r)
  \/ AbortDeadlocked(r)

ClientStep(r) ==
  \/ \E a \in Applications : RegisterApp(r, a)
  \/ \E sid \in Sessions, sigs \in SignerSets :
       \/ CreateAppSession(r, sid, sigs)
       \/ \E u \in Users : SubmitAppSessionDeposit(r, u, sid, sigs)
       \/ SubmitAppState(r, sid, sigs)
       \/ \E other \in Sessions : RebalanceAppSessions(r, sid, other, sigs)

Next ==
  \/ \E r \in Requests : ClientStep(r) \/ ApiStep(r)
  \/ \E u \in KeyHolders, k \in Keys : SubmitSessionKeyState(u, k)
  \/ \E x \in keyStates : ExpireKey(x)
  \/ \E u \in Range(Owners) : HandleLockingEvent(u)

\* Some request in flight that can go on does; clients promise nothing.
Spec == Init /\ [][Next]_vars /\ WF_requests(\E r \in Requests : ApiStep(r))

-------------------------------------------------------------------------------
(* Properties *)

\* The types of the tables and requests: a session that exists is open or
\* closed (app_sessions_v1), and only requests in flight hold locks.
TypeOK ==
  /\ appSessions \in [Sessions -> AppSessionRow \cup {Nil}]
  /\ appLedger \in [Sessions -> [Users -> Int]]
  /\ rowLocks \in [Users -> Requests \cup {Nil}]
  /\ sessionLocks \in [Sessions -> Requests \cup {Nil}]
  /\ apps \subseteq Applications
  /\ \A r \in Requests : requests[r].pc \in {"idle", "begin", "lock", "allocations",
                                               "update", "commit"}
  /\ sent \in 0..MaxRequests

\* Money only moves: what users hold in their channels and in sessions
\* together is what they deposited, and no balance or allocation is negative,
\* although deposits, withdrawals, closings and rebalances of a session run
\* at the same time from allocations they read without a lock
\* (UpdateAppSession, issueReleaseReceiverState, RecordLedgerEntry).
FundsConserved ==
  /\ SumOf([u \in Users |-> userBalances[u].balance])
       + SumOf([sid \in Sessions |-> SumOf(appLedger[sid])])
     = InitialBalance * Cardinality(Users)
  /\ \A u \in Users : userBalances[u].balance >= 0
  /\ \A sid \in Sessions, u \in Users : appLedger[sid][u] >= 0

\* No money is left in a session that has closed, whatever was under way when
\* it did (handleCloseIntent, SubmitDepositState, RebalanceAppSessions).
ClosedSessionsAreEmpty ==
  \A sid \in Sessions :
    appSessions[sid] # Nil /\ appSessions[sid].status = "closed" =>
      Holders(appLedger[sid]) = {}

\* The participants of an open session can together always close it and get
\* what is in it: the quorum is within their weights as verifyQuorum adds
\* them up, in a uint8, and everyone with money is a participant
\* (CreateAppSession, verifyQuorum, handleCloseIntent).
SessionsCanClose ==
  \A sid \in Sessions :
    appSessions[sid] # Nil /\ appSessions[sid].status = "open" =>
      /\ verifyQuorum(sid, Participants(sid))
      /\ IntentAllowed([session |-> sid, intent |-> "close",
                        allocations |-> [u \in Participants(sid) |-> appLedger[sid][u]]], 0)

\* A session key signs for a user only by the last state the user registered
\* for it, never by one that was replaced or has expired
\* (GetAppSessionKeyOwner, SubmitSessionKeyState).
KeyOwnerIsCurrent ==
  \A key \in Keys, sid \in Sessions : \A u \in KeyOwners(key, sid) :
    LET rows == {x \in keyStates : x.user = u /\ x.key = key}
        last == CHOOSE x \in rows : x.version = LatestVersion(rows)
    IN  /\ ~last.expired
        /\ sid \in last.sessions \/ Definition[sid].application \in last.applications

\* The gateway has counted what was done and nothing else: a request that
\* fails after it was allowed is not counted, one that commits is counted
\* once (AllowAction, RecordAction within the request's transaction).
GateCounts ==
  \A u \in Range(Owners) :
    LET own == {sid \in Sessions : OwnerOf(sid) = u} IN
    /\ actionLog[u]["app_session_deposit"] =
         Cardinality({t \in transactions : t.txType = "commit" /\ t.toAccount \in own})
    /\ actionLog[u]["app_session_creation"] =
         Cardinality({sid \in own : appSessions[sid] # Nil})

\* Every request ends: two rebalances that name the same sessions in opposite
\* orders wait for each other's rows, and one is aborted
\* (RebalanceAppSessions, UpdateAppSession).
RequestsEnd == \A r \in Requests : []<>(requests[r].pc = "idle")
===============================================================================
