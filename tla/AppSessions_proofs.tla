-------------------------- MODULE AppSessions_proofs --------------------------
(***************************************************************************)
(* What AppSessions guarantees for any number of users, sessions, keys and *)
(* requests in flight: money only moves between channels and sessions, a   *)
(* closed session is empty and an open one can be closed, keys sign by     *)
(* their last state, and the action gateway counts exactly.                *)
(*                                                                         *)
(* The requests read a session's row, then its ledger, and write both at   *)
(* the end; the argument is that every write of the ledger raises the      *)
(* row's version, so that a request whose version still matches has read   *)
(* the ledger that it changes.                                             *)
(***************************************************************************)
EXTENDS AppSessions, Totals_proofs

-------------------------------------------------------------------------------
(* The inductive invariant *)

StateFields == {"transition", "userWallet", "epoch", "version", "homeChannelId",
                "escrowChannelId", "homeLedger", "escrowLedger", "userSig", "nodeSig"}
LedgerFields == {"tokenAddress", "blockchainId", "userBalance", "userNetFlow",
                 "nodeBalance", "nodeNetFlow"}

\* A state of a user, of the kinds that app sessions make.
IsState(s) ==
  /\ DOMAIN s = StateFields /\ DOMAIN s.homeLedger = LedgerFields
  /\ s.userWallet \in Users /\ s.epoch \in Nat /\ s.version \in Nat
  /\ s.homeLedger.userBalance \in Int
  /\ s.transition.type \in {"home_deposit", "commit", "release"}

Before(s, t) == s.epoch < t.epoch \/ (s.epoch = t.epoch /\ s.version < t.version)

Last(u) == GetLastUserState(u, FALSE)

\* The states of a user are ordered, and the last one has the user's balance.
StatesInv ==
  /\ \A s \in channelStates : IsState(s)
  /\ \A u \in Users : /\ Last(u) \in StatesOf(u)
                      /\ \A s \in StatesOf(u) \ {Last(u)} : Before(s, Last(u))
                      /\ userBalances[u].balance = Last(u).homeLedger.userBalance

Intents == {"deposit", "operate", "withdraw", "close", "rebalance"}

IsUpdate(upd) ==
  /\ upd.session \in Sessions /\ upd.version \in Nat /\ upd.intent \in Intents
  /\ upd.allocations \in [Participants(upd.session) -> Int]

\* The session is at least at the version that the update was made from.
Watched(upd) ==
  /\ appSessions[upd.session] # Nil
  /\ appSessions[upd.session].version >= upd.version - 1

\* The update has been compared with the session's row: while the row is
\* the one that was read, the session is open.
Checked(upd) == UpdateMatches(upd) => appSessions[upd.session].status = "open"

\* The entries have been computed: while the row is the one that was read,
\* so is the ledger.
Ready(upd, entries) ==
  LET sid == upd.session IN
  /\ entries \in [Users -> Int]
  /\ \A u \in Users \ Participants(sid) : entries[u] = 0
  /\ upd.intent = "operate" => SumOf(entries) = 0
  /\ upd.intent \in {"withdraw", "close"} => \A u \in Users : entries[u] <= 0
  /\ UpdateMatches(upd) =>
       \A u \in Users : /\ appLedger[sid][u] + entries[u] >= 0
                        /\ upd.intent = "close" => appLedger[sid][u] + entries[u] = 0

RegisterOK(q) ==
  /\ DOMAIN q = {"kind", "pc", "app"} /\ q.kind = "register"
  /\ q.pc \in {"begin", "commit"} /\ q.app \in Applications

CreateOK(q) ==
  /\ DOMAIN q = {"kind", "pc", "session", "sigs", "ownerSig"} /\ q.kind = "create"
  /\ q.pc \in {"begin", "commit"} /\ q.session \in Sessions
  /\ q.pc = "commit" => QuorumWithin(q.session)

\* The state to be stored is the successor of the user's last one, which
\* stays the last while the row is locked.
Follows(s) ==
  LET last == Last(s.userWallet) IN
  /\ s.epoch = last.epoch /\ s.version = last.version + 1
  /\ s.homeLedger.userBalance = last.homeLedger.userBalance - s.transition.amount
  /\ s.homeLedger.userBalance >= 0

DepositOK(r, q) ==
  /\ q.kind = "deposit" /\ IsUpdate(q.upd) /\ q.upd.intent = "deposit" /\ Watched(q.upd)
  /\ IsState(q.state) /\ q.state.transition.type = "commit"
  /\ q.state.transition.amount \in Int /\ q.state.transition.accountId = q.upd.session
  /\ \/ DOMAIN q = {"kind", "pc", "upd", "state"} /\ q.pc = "begin"
     \/ DOMAIN q = {"kind", "pc", "upd", "state"} /\ q.pc = "lock" /\ Checked(q.upd)
     \/ /\ DOMAIN q = {"kind", "pc", "upd", "state", "entries"} /\ q.pc = "commit"
        /\ Checked(q.upd) /\ Ready(q.upd, q.entries)
        /\ SumOf(q.entries) = q.state.transition.amount
        /\ rowLocks[q.state.userWallet] = r /\ Follows(q.state)

StateOK(r, q) ==
  /\ q.kind = "state" /\ IsUpdate(q.upd) /\ Watched(q.upd)
  /\ q.upd.intent \in {"operate", "withdraw", "close"}
  /\ \/ DOMAIN q = {"kind", "pc", "upd"} /\ q.pc = "begin"
     \/ DOMAIN q = {"kind", "pc", "upd"} /\ q.pc = "allocations" /\ Checked(q.upd)
     \/ /\ DOMAIN q = {"kind", "pc", "upd", "entries", "toLock"} /\ q.pc = "commit"
        /\ Checked(q.upd) /\ Ready(q.upd, q.entries) /\ q.toLock \subseteq Users
        /\ \A u \in Receivers(q.upd, q.entries) : u \in q.toLock \/ rowLocks[u] = r

\* The sessions updated so far are locked, at the version that was read.
RebalanceOK(r, q) ==
  LET n == Len(q.entries) IN
  /\ DOMAIN q = {"kind", "pc", "upds", "entries"} /\ q.kind = "rebalance"
  /\ Len(q.upds) = 2 /\ DOMAIN q.upds = 1..2 /\ q.upds[1].session # q.upds[2].session
  /\ \A i \in 1..2 : /\ IsUpdate(q.upds[i]) /\ q.upds[i].intent = "rebalance"
                     /\ Watched(q.upds[i])
  /\ q.entries \in Seq([Users -> Int])
  /\ \/ q.pc = "begin" /\ n \in 0..1
     \/ q.pc = "update" /\ n \in 1..2
  /\ \A i \in 1..n : Checked(q.upds[i]) /\ Ready(q.upds[i], q.entries[i])
  /\ \A i \in 1..n : i < n \/ q.pc = "begin" =>
       sessionLocks[q.upds[i].session] = r /\ UpdateMatches(q.upds[i])

RequestOK(r, q) ==
  \/ q = Idle \/ RegisterOK(q) \/ CreateOK(q)
  \/ DepositOK(r, q) \/ StateOK(r, q) \/ RebalanceOK(r, q)

RequestsOK == DOMAIN requests = Requests /\ \A r \in Requests : RequestOK(r, requests[r])

\* Only participants have money in a session, which can be closed.
SessionsInv ==
  \A sid \in Sessions :
    /\ \A u \in Users : appLedger[sid][u] >= 0 /\ (u \notin Participants(sid) => appLedger[sid][u] = 0)
    /\ appSessions[sid] # Nil => QuorumWithin(sid)
    /\ appSessions[sid] # Nil /\ appSessions[sid].status = "closed" =>
         \A u \in Users : appLedger[sid][u] = 0

BalancesInv ==
  /\ userBalances \in [Users -> [balance : Nat, enforced : Nat]]
  /\ SumOf([u \in Users |-> userBalances[u].balance])
       + SumOf([sid \in Sessions |-> SumOf(appLedger[sid])])
     = InitialBalance * Cardinality(Users)

\* The inductive invariant of sessions, balances and requests in flight.
Inv ==
  /\ TypeOK /\ StatesInv /\ SessionsInv /\ BalancesInv
  /\ RequestsOK

\* What deposits have been recorded for, and what was created.
Commits == {t \in transactions : t.txType = "commit"}
Own(u) == {sid \in Sessions : OwnerOf(sid) = u}
CommitsTo(u) == {t \in transactions : t.txType = "commit" /\ t.toAccount \in Own(u)}
Created(u) == {sid \in Own(u) : appSessions[sid] # Nil}

\* The gateway's counts are numbers of rows.
GateInv ==
  /\ actionLog \in [Users -> [GatedActions -> Nat]]
  /\ IsFiniteSet(Commits)
  /\ \A u \in Range(Owners) :
       /\ actionLog[u]["app_session_deposit"] = Cardinality(CommitsTo(u))
       /\ actionLog[u]["app_session_creation"] = Cardinality(Created(u))

\* A user's states of a key have different versions.
KeysInv ==
  /\ \A x \in keyStates : /\ DOMAIN x = {"user", "key", "version", "expired", "sessions", "applications"}
                          /\ x.version \in 1..Len(KeyScopes)
  /\ \A x, y \in keyStates : x.user = y.user /\ x.key = y.key /\ x.version = y.version => x = y

-------------------------------------------------------------------------------
(* The constants *)

\* What the proofs use of the assumptions.
LEMMA Constants ==
  /\ IsFiniteSet(Users) /\ IsFiniteSet(Sessions)
  /\ Nil \notin Requests /\ Nil \notin AppSessionRow
  /\ Amounts \subseteq Nat /\ InitialBalance \in Nat \ {0}
  /\ \A sid \in Sessions : /\ Participants(sid) \subseteq Users
                           /\ OwnerOf(sid) \in Users /\ OwnerOf(sid) \in Range(Owners)
  /\ Funded \in Sessions /\ Running \subseteq Sessions
  /\ Range(Owners) \subseteq Users
<1>1. IsFiniteSet(Users)
  <2>1. Order \in Surjection(1..Len(Order), Users)
    BY AppSessionsAssumption DEF Surjection, Range
  <2>2. IsFiniteSet(1..Len(Order))
    <3>1. Len(Order) \in Nat
      BY AppSessionsAssumption
    <3> QED
      BY <3>1, FS_Interval
  <2> QED
    BY <2>1, <2>2, FS_Surjection
<1>2. ASSUME NEW sid \in Sessions
      PROVE  /\ Participants(sid) \subseteq Users
             /\ OwnerOf(sid) \in Users /\ OwnerOf(sid) \in Range(Owners)
  <2>1. Definition[sid] \in Range(Definition)
    BY AppSessionsAssumption DEF Range
  <2>2. /\ DOMAIN Definition[sid].participants \subseteq Users
        /\ Definition[sid].application \in DOMAIN Owners
    BY <2>1, AppSessionsAssumption DEF Applications
  <2> QED
    BY <2>2, AppSessionsAssumption DEF Participants, OwnerOf, Range
<1> QED
  BY <1>1, <1>2, AppSessionsAssumption DEF Requests

-------------------------------------------------------------------------------
(* Users' states *)

\* A row after which all others come is the one a query returns.
LEMMA LatestIs ==
  ASSUME NEW rows, NEW l \in rows, \A s \in rows : IsState(s),
         \A s \in rows \ {l} : Before(s, l)
  PROVE  Latest(rows) = l
<1> DEFINE Newest(s) == \A t \in rows :
             s.epoch > t.epoch \/ (s.epoch = t.epoch /\ s.version >= t.version)
<1>1. \A s \in rows : s.epoch \in Nat /\ s.version \in Nat
  BY DEF IsState
<1>2. Newest(l)
  BY <1>1 DEF Before
<1>3. \A s \in rows : Newest(s) => s = l
  BY <1>1 DEF Before
<1>4. (CHOOSE s \in rows : Newest(s)) = l
  BY <1>2, <1>3
<1> QED
  BY <1>4 DEF Latest

\* The same for the query of a user's last state.
LEMMA LastIs ==
  ASSUME NEW u \in Users, NEW l \in StatesOf(u), \A s \in StatesOf(u) : IsState(s),
         \A s \in StatesOf(u) \ {l} : Before(s, l)
  PROVE  Last(u) = l
<1>1. {s \in StatesOf(u) : FALSE => CoSigned(s)} = StatesOf(u)
  OBVIOUS
<1> QED
  BY <1>1, LatestIs DEF Last, GetLastUserState

\* The successor of a state that app sessions make.
LEMMA NextIs ==
  ASSUME NEW s, IsState(s)
  PROVE  LET n == NextState(s) IN
         /\ DOMAIN n = StateFields /\ n.userWallet = s.userWallet /\ n.epoch = s.epoch
         /\ n.version = s.version + 1 /\ n.homeLedger = s.homeLedger
<1> DEFINE n == NextState(s)
<1>1. n = [s EXCEPT !.transition = VoidTransition, !.version = s.version + 1,
                    !.userSig = FALSE, !.nodeSig = FALSE]
  BY DEF IsState, NextState, IsFinal
<1>2. DOMAIN s = StateFields
  BY DEF IsState
<1> HIDE DEF n
<1>3. /\ DOMAIN n = StateFields /\ n.userWallet = s.userWallet /\ n.epoch = s.epoch
      /\ n.version = s.version + 1 /\ n.homeLedger = s.homeLedger
  BY <1>1, <1>2 DEF StateFields
<1> QED
  BY <1>3 DEF n

\* What a user commits leaves the balance.
LEMMA CommitIs ==
  ASSUME NEW s, IsState(s), NEW sid, NEW a \in Int
  PROVE  LET p == ApplyCommitTransition(NextState(s), sid, a) IN
         /\ IsState(p) /\ p.userWallet = s.userWallet
         /\ p.epoch = s.epoch /\ p.version = s.version + 1
         /\ p.homeLedger.userBalance = s.homeLedger.userBalance - a
         /\ p.transition.type = "commit" /\ p.transition.amount = a
         /\ p.transition.accountId = sid
<1> DEFINE n == NextState(s)
           p == ApplyCommitTransition(n, sid, a)
<1>1. /\ DOMAIN n = StateFields /\ n.userWallet = s.userWallet /\ n.epoch = s.epoch
      /\ n.version = s.version + 1 /\ n.homeLedger = s.homeLedger
  BY NextIs
<1>2. /\ DOMAIN s.homeLedger = LedgerFields /\ s.homeLedger.userBalance \in Int
      /\ s.version \in Nat /\ s.epoch \in Nat /\ s.userWallet \in Users
  BY DEF IsState
<1> HIDE DEF n
<1>3. /\ DOMAIN p = StateFields /\ p.userWallet = n.userWallet /\ p.epoch = n.epoch
      /\ p.version = n.version /\ p.transition = SenderTransition(n, "commit", sid, a)
  BY <1>1 DEF ApplyCommitTransition, StateFields
<1>4. p.homeLedger = [n.homeLedger EXCEPT !.userBalance = @ - a, !.nodeNetFlow = @ - a]
  BY <1>1 DEF ApplyCommitTransition, StateFields
<1>5. /\ DOMAIN p.homeLedger = LedgerFields
      /\ p.homeLedger.userBalance = s.homeLedger.userBalance - a
  BY <1>1, <1>2, <1>4 DEF LedgerFields
<1>6. /\ p.transition.type = "commit" /\ p.transition.amount = a
      /\ p.transition.accountId = sid
  BY <1>3 DEF SenderTransition
<1>7. IsState(p)
  BY <1>1, <1>2, <1>3, <1>5, <1>6 DEF IsState
<1> QED
  BY <1>1, <1>3, <1>5, <1>6, <1>7 DEF n

\* What a session releases reaches the balance.
LEMMA ReleaseIs ==
  ASSUME NEW u \in Users, IsState(Last(u)), NEW sid, NEW a \in Int
  PROVE  LET p == ReleaseReceiverState(u, sid, a) IN
         /\ IsState(p) /\ p.userWallet = Last(u).userWallet
         /\ p.epoch = Last(u).epoch /\ p.version = Last(u).version + 1
         /\ p.homeLedger.userBalance = Last(u).homeLedger.userBalance + a
         /\ p.transition.type = "release"
<1> DEFINE s == Last(u)
           n == NextState(s)
           m == ApplyReleaseTransition(n, sid, a)
           p == [m EXCEPT !.nodeSig = m.homeChannelId # Nil]
<1>1. /\ DOMAIN n = StateFields /\ n.userWallet = s.userWallet /\ n.epoch = s.epoch
      /\ n.version = s.version + 1 /\ n.homeLedger = s.homeLedger
  BY NextIs
<1>2. /\ DOMAIN s.homeLedger = LedgerFields /\ s.homeLedger.userBalance \in Int
      /\ s.version \in Nat /\ s.epoch \in Nat /\ s.userWallet \in Users
  BY DEF IsState
<1>0. ReleaseReceiverState(u, sid, a) = p
  BY DEF ReleaseReceiverState, Last
<1> HIDE DEF n, s
<1>3. /\ DOMAIN m = StateFields /\ m.userWallet = n.userWallet /\ m.epoch = n.epoch
      /\ m.version = n.version /\ m.transition = SenderTransition(n, "release", sid, a)
  BY <1>1 DEF ApplyReleaseTransition, StateFields
<1>4. m.homeLedger = [n.homeLedger EXCEPT !.userBalance = @ + a, !.nodeNetFlow = @ + a]
  BY <1>1 DEF ApplyReleaseTransition, StateFields
<1>5. /\ DOMAIN m.homeLedger = LedgerFields
      /\ m.homeLedger.userBalance = s.homeLedger.userBalance + a
  BY <1>1, <1>2, <1>4 DEF LedgerFields
<1>6. m.transition.type = "release"
  BY <1>3 DEF SenderTransition
<1> HIDE DEF m
<1>7. /\ DOMAIN p = StateFields /\ p.userWallet = m.userWallet /\ p.epoch = m.epoch
      /\ p.version = m.version /\ p.transition = m.transition /\ p.homeLedger = m.homeLedger
  BY <1>3 DEF StateFields
<1> HIDE DEF p
<1>8. IsState(p)
  BY <1>1, <1>2, <1>3, <1>5, <1>6, <1>7 DEF IsState
<1> QED
  BY <1>0, <1>1, <1>3, <1>5, <1>6, <1>7, <1>8 DEF s

\* A commitment that is validated against a user's state takes its amount
\* from the balance and leaves it non-negative.
LEMMA Advance ==
  ASSUME NEW s, IsState(s), NEW p, IsState(p), p.transition.type = "commit",
         p.transition.amount \in Int, ValidateAdvancement(s, p)
  PROVE  /\ p.userWallet = s.userWallet /\ p.epoch = s.epoch /\ p.version = s.version + 1
         /\ p.homeLedger.userBalance = s.homeLedger.userBalance - p.transition.amount
         /\ p.homeLedger.userBalance >= 0
<1> DEFINE n == NextState(s)
           e == ExpectedState(s, p)
           t == p.transition
<1>1. /\ DOMAIN n = StateFields /\ n.userWallet = s.userWallet /\ n.epoch = s.epoch
      /\ n.version = s.version + 1 /\ n.homeLedger = s.homeLedger
  BY NextIs
<1>2. /\ DOMAIN s.homeLedger = LedgerFields /\ s.homeLedger.userBalance \in Int
  BY DEF IsState
<1>3. /\ GetStateID(p) = GetStateID(e) /\ ValidLedger(p.homeLedger)
      /\ Applied(e, t, p.escrowLedger).homeLedger = p.homeLedger
  BY DEF ValidateAdvancement
<1>4. /\ DOMAIN e = StateFields /\ e.userWallet = n.userWallet /\ e.epoch = n.epoch
      /\ e.version = n.version
      /\ \/ e.homeLedger = n.homeLedger
         \/ e.homeLedger = [n.homeLedger EXCEPT !.blockchainId = p.homeLedger.blockchainId,
                                                !.tokenAddress = p.homeLedger.tokenAddress]
  <2> HIDE DEF n
  <2>1. CASE n.homeChannelId = Nil
    <3>1. e = [n EXCEPT !.homeChannelId = p.homeChannelId,
                        !.homeLedger.blockchainId = p.homeLedger.blockchainId,
                        !.homeLedger.tokenAddress = p.homeLedger.tokenAddress]
      BY <2>1 DEF ExpectedState, n
    <3> QED
      BY <1>1, <3>1 DEF StateFields
  <2>2. CASE n.homeChannelId # Nil
    <3>1. e = n
      BY <2>2 DEF ExpectedState, n
    <3> QED
      BY <1>1, <3>1
  <2> QED
    BY <2>1, <2>2
<1> HIDE DEF n, e
<1>5. DOMAIN e.homeLedger = LedgerFields /\ e.homeLedger.userBalance = s.homeLedger.userBalance
  BY <1>1, <1>2, <1>4 DEF LedgerFields
<1>6. Applied(e, t, p.escrowLedger) = ApplyCommitTransition(e, t.accountId, t.amount)
  BY DEF Applied
<1>7. ApplyCommitTransition(e, t.accountId, t.amount).homeLedger
        = [e.homeLedger EXCEPT !.userBalance = @ - t.amount, !.nodeNetFlow = @ - t.amount]
  BY <1>4 DEF ApplyCommitTransition, StateFields
<1>8. p.homeLedger.userBalance = s.homeLedger.userBalance - t.amount
  <2>1. p.homeLedger = [e.homeLedger EXCEPT !.userBalance = @ - t.amount,
                                            !.nodeNetFlow = @ - t.amount]
    BY <1>3, <1>6, <1>7
  <2> QED
    BY <1>5, <2>1 DEF LedgerFields
<1>9. p.homeLedger.userBalance >= 0
  BY <1>3 DEF ValidLedger
<1> QED
  BY <1>1, <1>3, <1>4, <1>8, <1>9 DEF GetStateID

-------------------------------------------------------------------------------
(* What a step of one request leaves to the others *)

\* A step of request r changes no session that another one has locked, and
\* each session it changes gets a higher version; no user's last state
\* changes but under r's lock; and all other locks stay.
Undisturbed(r) ==
  /\ \A sid \in Sessions :
       \/ appSessions'[sid] = appSessions[sid] /\ appLedger'[sid] = appLedger[sid]
       \/ appSessions[sid] = Nil
       \/ /\ sessionLocks[sid] \in {Nil, r} /\ appSessions'[sid] # Nil
          /\ appSessions'[sid].version \in Nat
          /\ appSessions'[sid].version > appSessions[sid].version
  /\ \A u \in Users : Last(u)' = Last(u) \/ rowLocks[u] = r
  /\ \A o \in Requests \ {r} :
       /\ requests'[o] = requests[o]
       /\ \A u \in Users : rowLocks[u] = o => rowLocks'[u] = o
       /\ \A sid \in Sessions : sessionLocks[sid] = o => sessionLocks'[sid] = o

\* What is known of an update stays known when the session's row either
\* stays, with the ledger, or gets a higher version.
LEMMA UpdateKept ==
  ASSUME TypeOK, NEW r \in Requests, Undisturbed(r), NEW upd, IsUpdate(upd), Watched(upd)
  PROVE  /\ Watched(upd)' /\ (Checked(upd) => Checked(upd)')
         /\ \A entries : Ready(upd, entries) => Ready(upd, entries)'
         /\ sessionLocks[upd.session] \in Requests \ {r} /\ UpdateMatches(upd) =>
              UpdateMatches(upd)'
<1> DEFINE sid == upd.session
<1>1. /\ sid \in Sessions /\ upd.version \in Nat
      /\ appSessions[sid] # Nil /\ appSessions[sid].version \in Nat
      /\ appSessions[sid].version >= upd.version - 1
  BY DEF IsUpdate, Watched, TypeOK, AppSessionRow
<1>2. CASE appSessions'[sid] = appSessions[sid] /\ appLedger'[sid] = appLedger[sid]
  BY <1>1, <1>2 DEF Watched, Checked, Ready, UpdateMatches
<1>3. CASE /\ sessionLocks[sid] \in {Nil, r} /\ appSessions'[sid] # Nil
           /\ appSessions'[sid].version \in Nat
           /\ appSessions'[sid].version > appSessions[sid].version
  <2>1. appSessions'[sid].version # upd.version - 1
    BY <1>1, <1>3
  <2>2. sessionLocks[sid] \notin Requests \ {r}
    BY <1>3, Constants
  <2> QED
    BY <1>1, <1>3, <2>1, <2>2 DEF Watched, Checked, Ready, UpdateMatches
<1> QED
  BY <1>1, <1>2, <1>3 DEF Undisturbed

\* A request of another slot stays as it is and what is known of it stays.
LEMMA OthersKept ==
  ASSUME TypeOK, NEW r \in Requests, Undisturbed(r),
         NEW o \in Requests \ {r}, NEW q, RequestOK(o, q)
  PROVE  RequestOK(o, q)'
<1>1. CASE q = Idle \/ RegisterOK(q) \/ CreateOK(q)
  BY <1>1 DEF RequestOK, RegisterOK, CreateOK
<1>2. CASE DepositOK(o, q)
  <2>1. /\ IsUpdate(q.upd) /\ Watched(q.upd) /\ IsState(q.state)
    BY <1>2 DEF DepositOK
  <2>2. /\ Watched(q.upd)' /\ (Checked(q.upd) => Checked(q.upd)')
        /\ Ready(q.upd, q.entries) => Ready(q.upd, q.entries)'
    BY <2>1, UpdateKept
  <2>3. rowLocks[q.state.userWallet] = o =>
          rowLocks'[q.state.userWallet] = o /\ Last(q.state.userWallet)' = Last(q.state.userWallet)
    BY <2>1 DEF IsState, Undisturbed
  <2>4. rowLocks[q.state.userWallet] = o /\ Follows(q.state) => Follows(q.state)'
    BY <2>3 DEF Follows
  <2>5. DepositOK(o, q)'
    BY <1>2, <2>2, <2>3, <2>4 DEF DepositOK
  <2> QED
    BY <2>5 DEF RequestOK
<1>3. CASE StateOK(o, q)
  <2>1. IsUpdate(q.upd) /\ Watched(q.upd)
    BY <1>3 DEF StateOK
  <2>2. /\ Watched(q.upd)' /\ (Checked(q.upd) => Checked(q.upd)')
        /\ Ready(q.upd, q.entries) => Ready(q.upd, q.entries)'
    BY <2>1, UpdateKept
  <2>3. \A u \in Receivers(q.upd, q.entries) : rowLocks[u] = o => rowLocks'[u] = o
    BY DEF Undisturbed, Receivers
  <2>4. StateOK(o, q)'
    BY <1>3, <2>2, <2>3 DEF StateOK
  <2> QED
    BY <2>4 DEF RequestOK
<1>4. CASE RebalanceOK(o, q)
  <2>1. \A i \in 1..2 : IsUpdate(q.upds[i]) /\ Watched(q.upds[i])
    BY <1>4 DEF RebalanceOK
  <2>2. \A i \in 1..2 :
          /\ Watched(q.upds[i])' /\ (Checked(q.upds[i]) => Checked(q.upds[i])')
          /\ Ready(q.upds[i], q.entries[i]) => Ready(q.upds[i], q.entries[i])'
          /\ sessionLocks[q.upds[i].session] = o /\ UpdateMatches(q.upds[i]) =>
               UpdateMatches(q.upds[i])'
    BY <2>1, UpdateKept
  <2>3. \A i \in 1..2 : sessionLocks[q.upds[i].session] = o =>
          sessionLocks'[q.upds[i].session] = o
    BY <2>1 DEF IsUpdate, Undisturbed
  <2>4. Len(q.entries) \in 0..2
    BY <1>4 DEF RebalanceOK
  <2>5. \A i \in 1..Len(q.entries) : i \in 1..2
    <3> DEFINE n == Len(q.entries)
    <3>1. n \in 0..2
      BY <2>4
    <3> HIDE DEF n
    <3>2. \A i \in 1..n : i \in 1..2
      BY <3>1
    <3> QED
      BY <3>2 DEF n
  <2>6. RebalanceOK(o, q)'
    BY <1>4, <2>2, <2>3, <2>5 DEF RebalanceOK
  <2> QED
    BY <2>6 DEF RequestOK
<1> QED
  BY <1>1, <1>2, <1>3, <1>4 DEF RequestOK

\* So a step keeps what is known of all requests if it does for its own.
LEMMA RequestsKept ==
  ASSUME TypeOK, RequestsOK, NEW r \in Requests, Undisturbed(r),
         DOMAIN requests' = Requests, NEW q, requests'[r] = q, RequestOK(r, q)'
  PROVE  RequestsOK'
<1>1. ASSUME NEW o \in Requests, NEW p, requests'[o] = p
      PROVE  RequestOK(o, p)'
  <2>1. CASE o = r
    BY <1>1, <2>1
  <2>2. CASE o # r
    <3>1. requests[o] = p
      BY <1>1, <2>2 DEF Undisturbed
    <3>2. RequestOK(o, p)
      BY <3>1 DEF RequestsOK
    <3> QED
      BY <2>2, <3>2, OthersKept
  <2> QED
    BY <2>1, <2>2
<1>2. \A o \in Requests : RequestOK(o, requests[o])'
  <2>1. SUFFICES ASSUME NEW o \in Requests
                 PROVE  RequestOK(o, requests[o])'
    OBVIOUS
  <2>2. PICK p : requests'[o] = p
    OBVIOUS
  <2>3. RequestOK(o, p)'
    BY <1>1, <2>2
  <2> QED
    BY <2>2, <2>3
<1> QED
  BY <1>2 DEF RequestsOK

-------------------------------------------------------------------------------
(* Steps that write no table *)

books == <<channelStates, userBalances, appSessions, appLedger>>

\* The tables that hold money stay.
LEMMA QuietBooks ==
  ASSUME UNCHANGED books
  PROVE  /\ \A u \in Users : Last(u)' = Last(u)
         /\ StatesInv => StatesInv'
         /\ SessionsInv => SessionsInv'
         /\ BalancesInv => BalancesInv'
<1>1. UNCHANGED <<channelStates, userBalances, appSessions, appLedger>>
  BY DEF books
<1>2. \A u \in Users : Last(u)' = Last(u) /\ StatesOf(u)' = StatesOf(u)
  BY <1>1 DEF Last, GetLastUserState, StatesOf
<1>3. StatesInv => StatesInv'
  BY <1>1, <1>2 DEF StatesInv
<1>4. SessionsInv => SessionsInv'
  BY <1>1 DEF SessionsInv
<1>5. BalancesInv => BalancesInv'
  BY <1>1 DEF BalancesInv
<1> QED
  BY <1>2, <1>3, <1>4, <1>5

\* What is known of an update and of a state to be stored.
LEMMA QuietFacts ==
  ASSUME UNCHANGED books
  PROVE  /\ \A upd : /\ (Watched(upd)' <=> Watched(upd)) /\ (Checked(upd)' <=> Checked(upd))
                     /\ UpdateMatches(upd)' <=> UpdateMatches(upd)
         /\ \A upd, entries : Ready(upd, entries)' <=> Ready(upd, entries)
         /\ \A s : s.userWallet \in Users => (Follows(s)' <=> Follows(s))
<1>1. UNCHANGED <<appSessions, appLedger>> /\ \A u \in Users : Last(u)' = Last(u)
  BY QuietBooks DEF books
<1>2. \A upd : /\ (Watched(upd)' <=> Watched(upd)) /\ (Checked(upd)' <=> Checked(upd))
               /\ UpdateMatches(upd)' <=> UpdateMatches(upd)
  BY <1>1 DEF Watched, Checked, UpdateMatches
<1>3. \A upd, entries : Ready(upd, entries)' <=> Ready(upd, entries)
  BY <1>1 DEF Ready, UpdateMatches
<1>4. \A s : s.userWallet \in Users => (Follows(s)' <=> Follows(s))
  BY <1>1 DEF Follows
<1> QED
  BY <1>2, <1>3, <1>4

\* The program counters are those of TypeOK.
LEMMA Counters ==
  ASSUME NEW r, NEW q, RequestOK(r, q)
  PROVE  q.pc \in {"idle", "begin", "lock", "allocations", "update", "commit"}
BY DEF RequestOK, Idle, RegisterOK, CreateOK, DepositOK, StateOK, RebalanceOK

\* Other requests' locks stay.
LocksKept(r) ==
  /\ rowLocks' \in [Users -> Requests \cup {Nil}]
  /\ sessionLocks' \in [Sessions -> Requests \cup {Nil}]
  /\ \A o \in Requests \ {r} :
       /\ \A u \in Users : rowLocks[u] = o => rowLocks'[u] = o
       /\ \A sid \in Sessions : sessionLocks[sid] = o => sessionLocks'[sid] = o

\* A step of r that only changes its request and its locks.
LEMMA QuietStep ==
  ASSUME Inv, NEW r \in Requests, UNCHANGED books, LocksKept(r),
         apps' \subseteq Applications, sent' \in 0..MaxRequests,
         NEW q, requests' = [requests EXCEPT ![r] = q], RequestOK(r, q)'
  PROVE  Inv'
<1>1. UNCHANGED <<appSessions, appLedger>> /\ \A u \in Users : Last(u)' = Last(u)
  BY QuietBooks DEF books
<1>2. DOMAIN requests' = Requests /\ requests'[r] = q
      /\ \A o \in Requests \ {r} : requests'[o] = requests[o]
  BY DEF Inv, RequestsOK
<1>3. Undisturbed(r)
  BY <1>1, <1>2 DEF Undisturbed, LocksKept
<1>4. RequestsOK'
  BY <1>2, <1>3, RequestsKept DEF Inv
<1>5. \A o \in Requests : requests'[o].pc \in {"idle", "begin", "lock", "allocations",
                                               "update", "commit"}
  <2>1. q.pc \in {"idle", "begin", "lock", "allocations", "update", "commit"}
    BY DEF RequestOK, Idle, RegisterOK, CreateOK, DepositOK, StateOK, RebalanceOK
  <2> QED
    BY <1>2, <2>1 DEF Inv, TypeOK
<1>6. TypeOK'
  BY <1>1, <1>5 DEF Inv, TypeOK, LocksKept
<1> QED
  BY <1>4, <1>6, QuietBooks DEF Inv

\* A client sends a request of which all that is known at first holds.
LEMMA SendStep ==
  ASSUME Inv, NEW r \in Requests, MaySend(r), NEW q, Send(r, q), RequestOK(r, q),
         q.pc = "begin"
  PROVE  Inv'
<1>1. UNCHANGED books /\ LocksKept(r) /\ apps' = apps
  BY DEF Send, books, tables, appTables, LocksKept, Inv, TypeOK
<1>2. sent' \in 0..MaxRequests
  BY AppSessionsAssumption DEF Send, MaySend, Inv, TypeOK
<1>3. RequestOK(r, q)'
  <2>1. UNCHANGED <<appSessions, appLedger, rowLocks, sessionLocks>>
    BY DEF Send, tables, appTables
  <2> QED
    BY <2>1 DEF RequestOK, RegisterOK, CreateOK, DepositOK, StateOK, RebalanceOK, Watched,
                Checked, Ready, UpdateMatches
<1> QED
  BY <1>1, <1>2, <1>3, QuietStep DEF Inv, TypeOK, Send

-------------------------------------------------------------------------------
(* Clients *)

\* What participants sign is an update of the session as it is.
LEMMA UpdateIs ==
  ASSUME TypeOK, NEW sid \in Sessions, appSessions[sid] # Nil, NEW intent \in Intents,
         NEW new \in [Participants(sid) -> Int], NEW sigs
  PROVE  LET upd == Update(sid, intent, new, sigs) IN
         /\ IsUpdate(upd) /\ Watched(upd) /\ upd.intent = intent /\ upd.session = sid
<1>1. appSessions[sid].version \in Nat
  BY DEF TypeOK, AppSessionRow
<1> DEFINE upd == Update(sid, intent, new, sigs)
<1>2. /\ upd.session = sid /\ upd.version = appSessions[sid].version + 1
      /\ upd.intent = intent /\ upd.allocations = new
  BY DEF Update
<1> HIDE DEF upd
<1>3. IsUpdate(upd) /\ Watched(upd)
  BY <1>1, <1>2 DEF IsUpdate, Watched
<1> QED
  BY <1>2, <1>3 DEF upd

\* What participants have, changed for one of them.
LEMMA AllocationsType ==
  ASSUME TypeOK, NEW sid \in Sessions, NEW u, NEW d \in Int
  PROVE  Allocations(sid, u, d) \in [Participants(sid) -> Int]
<1>1. \A v \in Participants(sid) : appLedger[sid][v] \in Int
  BY Constants DEF TypeOK
<1> QED
  BY <1>1 DEF Allocations

\* Requests that name no update.
LEMMA SendSimple ==
  ASSUME Inv, NEW r \in Requests,
         \/ \E a \in Applications : RegisterApp(r, a)
         \/ \E sid \in Sessions, sigs \in SignerSets : CreateAppSession(r, sid, sigs)
  PROVE  Inv'
<1>1. ASSUME NEW a \in Applications, RegisterApp(r, a)
      PROVE  Inv'
  <2> DEFINE q == [kind |-> "register", pc |-> "begin", app |-> a]
  <2>1. RequestOK(r, q) /\ q.pc = "begin"
    BY DEF RequestOK, RegisterOK
  <2>2. MaySend(r) /\ Send(r, q)
    BY <1>1 DEF RegisterApp
  <2> HIDE DEF q
  <2> QED
    BY <2>1, <2>2, SendStep
<1>2. ASSUME NEW sid \in Sessions, NEW sigs \in SignerSets, CreateAppSession(r, sid, sigs)
      PROVE  Inv'
  <2>1. PICK ownerSig \in {Nil, OwnerOf(sid)} :
          Send(r, [kind |-> "create", pc |-> "begin", session |-> sid, sigs |-> sigs,
                   ownerSig |-> ownerSig])
    BY <1>2 DEF CreateAppSession
  <2> DEFINE q == [kind |-> "create", pc |-> "begin", session |-> sid, sigs |-> sigs,
                   ownerSig |-> ownerSig]
  <2>2. RequestOK(r, q) /\ q.pc = "begin"
    BY DEF RequestOK, CreateOK
  <2>3. MaySend(r) /\ Send(r, q)
    BY <1>2, <2>1 DEF CreateAppSession
  <2> HIDE DEF q
  <2> QED
    BY <2>2, <2>3, SendStep
<1> QED
  BY <1>1, <1>2

\* A deposit comes with the successor of the state the client saw.
LEMMA SendDeposit ==
  ASSUME Inv, NEW r \in Requests, NEW u \in Users, NEW sid \in Sessions, NEW sigs \in SignerSets,
         SubmitAppSessionDeposit(r, u, sid, sigs)
  PROVE  Inv'
<1>1. PICK a \in Amounts, to \in Participants(sid) :
        Send(r, [kind |-> "deposit", pc |-> "begin",
                 upd |-> Update(sid, "deposit", Allocations(sid, to, a), sigs),
                 state |-> [ApplyCommitTransition(NextState(GetLastUserState(u, FALSE)), sid, a)
                              EXCEPT !.userSig = TRUE]])
  BY DEF SubmitAppSessionDeposit
<1> DEFINE p == ApplyCommitTransition(NextState(Last(u)), sid, a)
           s == [p EXCEPT !.userSig = TRUE]
           upd == Update(sid, "deposit", Allocations(sid, to, a), sigs)
           q == [kind |-> "deposit", pc |-> "begin", upd |-> upd, state |-> s]
<1>2. MaySend(r) /\ appSessions[sid] # Nil /\ Send(r, q)
  BY <1>1 DEF SubmitAppSessionDeposit, Last
<1>3. a \in Int
  BY Constants
<1>4. /\ IsState(p) /\ p.transition.type = "commit" /\ p.transition.amount = a
      /\ p.transition.accountId = sid
  <2>1. IsState(Last(u))
    BY DEF Inv, StatesInv, StatesOf
  <2> QED
    BY <1>3, <2>1, CommitIs
<1> HIDE DEF p
<1>5. /\ DOMAIN s = StateFields /\ s.homeLedger = p.homeLedger /\ s.transition = p.transition
      /\ s.userWallet = p.userWallet /\ s.epoch = p.epoch /\ s.version = p.version
  <2>1. DOMAIN p = StateFields
    BY <1>4 DEF IsState
  <2> QED
    BY <2>1 DEF StateFields
<1> HIDE DEF s
<1>6. IsState(s) /\ s.transition = p.transition
  BY <1>4, <1>5 DEF IsState
<1>7. IsUpdate(upd) /\ Watched(upd) /\ upd.intent = "deposit" /\ upd.session = sid
  <2>1. Allocations(sid, to, a) \in [Participants(sid) -> Int]
    BY <1>3, AllocationsType DEF Inv
  <2> QED
    BY <1>2, <2>1, UpdateIs DEF Inv, Intents
<1> HIDE DEF upd
<1>8. DepositOK(r, q) /\ q.pc = "begin"
  BY <1>3, <1>4, <1>6, <1>7 DEF DepositOK
<1> HIDE DEF q
<1> QED
  BY <1>2, <1>8, SendStep DEF RequestOK

\* Operations, withdrawals and closings.
LEMMA SendState ==
  ASSUME Inv, NEW r \in Requests, NEW sid \in Sessions, NEW sigs \in SignerSets,
         SubmitAppState(r, sid, sigs)
  PROVE  Inv'
<1> DEFINE cur == Allocations(sid, Nil, 0)
<1>1. MaySend(r) /\ appSessions[sid] # Nil /\ TypeOK
  BY DEF SubmitAppState, Inv
<1>2. ASSUME NEW intent \in {"operate", "withdraw", "close"},
             NEW new \in [Participants(sid) -> Int],
             Send(r, [kind |-> "state", pc |-> "begin", upd |-> Update(sid, intent, new, sigs)])
      PROVE  Inv'
  <2> DEFINE upd == Update(sid, intent, new, sigs)
             q == [kind |-> "state", pc |-> "begin", upd |-> upd]
  <2>1. IsUpdate(upd) /\ Watched(upd) /\ upd.intent = intent
    BY <1>1, UpdateIs DEF Intents
  <2>2. Send(r, q)
    BY <1>2
  <2> HIDE DEF upd
  <2>3. StateOK(r, q) /\ q.pc = "begin"
    BY <2>1 DEF StateOK
  <2> HIDE DEF q
  <2> QED
    BY <1>1, <2>2, <2>3, SendStep DEF RequestOK
<1>3. cur \in [Participants(sid) -> Int]
  BY <1>1, AllocationsType
<1>4. CASE Send(r, [kind |-> "state", pc |-> "begin", upd |-> Update(sid, "close", cur, sigs)])
  BY <1>2, <1>3, <1>4
<1>5. ASSUME NEW u \in Participants(sid), NEW a \in Amounts,
             Send(r, [kind |-> "state", pc |-> "begin",
                      upd |-> Update(sid, "withdraw", Allocations(sid, u, -a), sigs)])
      PROVE  Inv'
  <2>1. -a \in Int
    BY Constants
  <2>2. Allocations(sid, u, -a) \in [Participants(sid) -> Int]
    BY <1>1, <2>1, AllocationsType
  <2> QED
    BY <1>2, <1>5, <2>2
<1>6. ASSUME NEW u \in Participants(sid), NEW a \in Amounts, NEW v \in Participants(sid) \ {u},
             Send(r, [kind |-> "state", pc |-> "begin",
                      upd |-> Update(sid, "operate", [cur EXCEPT ![u] = @ - a, ![v] = @ + a], sigs)])
      PROVE  Inv'
  <2>1. a \in Int
    BY Constants
  <2>2. [cur EXCEPT ![u] = @ - a, ![v] = @ + a] \in [Participants(sid) -> Int]
    <3> HIDE DEF cur
    <3> QED
      BY <1>3, <2>1
  <2> QED
    BY <1>2, <1>6, <2>2
<1> QED
  BY <1>4, <1>5, <1>6 DEF SubmitAppState

\* An amount moves from one session to another.
LEMMA SendRebalance ==
  ASSUME Inv, NEW r \in Requests, NEW sid \in Sessions, NEW other \in Sessions,
         NEW sigs \in SignerSets, RebalanceAppSessions(r, sid, other, sigs)
  PROVE  Inv'
<1>1. /\ MaySend(r) /\ appSessions[sid] # Nil /\ appSessions[other] # Nil /\ sid # other
      /\ TypeOK
  BY DEF RebalanceAppSessions, Inv
<1>2. PICK u \in Participants(sid) \cap Participants(other), a \in Amounts :
        \E d \in {<<a, -a>>, <<-a, a>>, <<a, a>>} :
          Send(r, [kind |-> "rebalance", pc |-> "begin", entries |-> <<>>,
                   upds |-> <<Update(sid, "rebalance", Allocations(sid, u, d[1]), sigs),
                              Update(other, "rebalance", Allocations(other, u, d[2]), sigs)>>])
  BY DEF RebalanceAppSessions
<1>3. PICK d \in {<<a, -a>>, <<-a, a>>, <<a, a>>} :
          Send(r, [kind |-> "rebalance", pc |-> "begin", entries |-> <<>>,
                   upds |-> <<Update(sid, "rebalance", Allocations(sid, u, d[1]), sigs),
                              Update(other, "rebalance", Allocations(other, u, d[2]), sigs)>>])
  BY <1>2
<1>4. d[1] \in Int /\ d[2] \in Int
  BY Constants
<1> DEFINE upd1 == Update(sid, "rebalance", Allocations(sid, u, d[1]), sigs)
           upd2 == Update(other, "rebalance", Allocations(other, u, d[2]), sigs)
           q == [kind |-> "rebalance", pc |-> "begin", entries |-> <<>>, upds |-> <<upd1, upd2>>]
<1>5. IsUpdate(upd1) /\ Watched(upd1) /\ upd1.intent = "rebalance" /\ upd1.session = sid
  <2>1. Allocations(sid, u, d[1]) \in [Participants(sid) -> Int]
    BY <1>1, <1>4, AllocationsType
  <2> QED
    BY <1>1, <2>1, UpdateIs DEF Intents
<1>6. IsUpdate(upd2) /\ Watched(upd2) /\ upd2.intent = "rebalance" /\ upd2.session = other
  <2>1. Allocations(other, u, d[2]) \in [Participants(other) -> Int]
    BY <1>1, <1>4, AllocationsType
  <2> QED
    BY <1>1, <2>1, UpdateIs DEF Intents
<1>7. Send(r, q)
  BY <1>3
<1> HIDE DEF upd1, upd2
<1>8. RebalanceOK(r, q) /\ q.pc = "begin"
  <2>1. /\ Len(q.upds) = 2 /\ DOMAIN q.upds = 1..2 /\ q.upds[1] = upd1 /\ q.upds[2] = upd2
        /\ Len(q.entries) = 0 /\ q.entries \in Seq([Users -> Int])
        /\ DOMAIN q = {"kind", "pc", "upds", "entries"} /\ q.kind = "rebalance" /\ q.pc = "begin"
    OBVIOUS
  <2> HIDE DEF q
  <2>2. \A i \in 1..2 : i = 1 \/ i = 2
    OBVIOUS
  <2>3. \A i \in 1..2 : /\ IsUpdate(q.upds[i]) /\ q.upds[i].intent = "rebalance"
                        /\ Watched(q.upds[i])
    BY <1>5, <1>6, <2>1, <2>2
  <2>4. \A i \in 1..0 : FALSE
    OBVIOUS
  <2> QED
    BY <1>1, <1>5, <1>6, <2>1, <2>3, <2>4 DEF RebalanceOK
<1> HIDE DEF q
<1> QED
  BY <1>1, <1>7, <1>8, SendStep DEF RequestOK

\* All requests of clients.
LEMMA ClientSteps ==
  ASSUME Inv, NEW r \in Requests, ClientStep(r)
  PROVE  Inv'
BY SendSimple, SendDeposit, SendState, SendRebalance DEF ClientStep

-------------------------------------------------------------------------------
(* The entries of an update *)

\* The ledger entries of an update that is allowed fit the ledger that was
\* read; those of a deposit add up to the amount that is committed.
LEMMA EntriesReady ==
  ASSUME TypeOK, SessionsInv, NEW upd, IsUpdate(upd), NEW amount, IntentAllowed(upd, amount)
  PROVE  /\ Ready(upd, LedgerEntries(upd))
         /\ upd.intent = "deposit" => SumOf(LedgerEntries(upd)) = amount
<1> DEFINE sid == upd.session
           P == Participants(sid)
           cur == appLedger[sid]
           new == upd.allocations
           e == LedgerEntries(upd)
<1>1. /\ sid \in Sessions /\ upd.intent \in Intents /\ new \in [P -> Int]
      /\ P \subseteq Users /\ IsFiniteSet(Users)
  BY Constants DEF IsUpdate
<1>2. /\ cur \in [Users -> Int] /\ \A u \in Users : cur[u] >= 0
      /\ \A u \in Users \ P : cur[u] = 0
  BY <1>1 DEF TypeOK, SessionsInv
<1>3. e = [u \in Users |->
             IF upd.intent # "close" /\ u \in P THEN new[u] - cur[u]
             ELSE IF upd.intent \in {"close", "rebalance"} THEN -cur[u]
             ELSE 0]
  BY <1>1 DEF LedgerEntries
<1>4. /\ upd.intent # "deposit" => ValidAllocations(sid, new)
      /\ upd.intent = "operate" => OperateAllowed(cur, new)
      /\ upd.intent = "withdraw" => WithdrawAllowed(cur, new)
      /\ upd.intent = "deposit" => DepositAllowed(sid, cur, new, amount)
  BY DEF IntentAllowed
<1> HIDE DEF sid, P, cur, new, e
<1>5. /\ e \in [Users -> Int] /\ DOMAIN e = Users /\ DOMAIN cur = Users /\ DOMAIN new = P
      /\ \A u \in Users \ P : e[u] = 0
      /\ upd.intent # "close" => \A u \in P : e[u] = new[u] - cur[u]
      /\ upd.intent = "close" => \A u \in Users : e[u] = -cur[u]
  <2>1. \A u \in P : new[u] \in Int
    BY <1>1
  <2>2. \A u \in Users : cur[u] \in Int
    BY <1>2
  <2>3. \A u \in Users : e[u] = IF upd.intent # "close" /\ u \in P THEN new[u] - cur[u]
                                ELSE IF upd.intent \in {"close", "rebalance"} THEN -cur[u]
                                ELSE 0
    BY <1>3
  <2>4. \A u \in Users : e[u] \in Int
    BY <2>1, <2>2, <2>3
  <2>5. \A u \in Users \ P : e[u] = 0
    BY <1>2, <2>3
  <2>6. upd.intent # "close" => \A u \in P : e[u] = new[u] - cur[u]
    BY <1>1, <2>3
  <2>7. upd.intent = "close" => \A u \in Users : e[u] = -cur[u]
    BY <2>3
  <2>8. DOMAIN e = Users /\ e \in [Users -> Int]
    BY <1>3, <2>4
  <2> QED
    BY <1>1, <1>2, <2>5, <2>6, <2>7, <2>8
<1>6. upd.intent # "close" => \A u \in P : new[u] >= 0
  BY <1>4, <1>5 DEF ValidAllocations, DepositAllowed
<1>7. \A u \in Users : cur[u] + e[u] >= 0 /\ (upd.intent = "close" => cur[u] + e[u] = 0)
  <2>1. \A u \in Users : cur[u] \in Int /\ e[u] \in Int
    BY <1>2, <1>5
  <2>2. \A u \in P : new[u] \in Int
    BY <1>1
  <2> QED
    BY <1>2, <1>5, <1>6, <2>1, <2>2
<1>8. upd.intent \in {"withdraw", "close"} => \A u \in Users : e[u] <= 0
  <2>1. ASSUME upd.intent = "withdraw", NEW u \in P
        PROVE  e[u] <= 0
    <3>1. /\ new[u] # 0 => cur[u] # 0
          /\ cur[u] # 0 => new[u] <= cur[u]
          /\ new[u] \in Int /\ cur[u] \in Int /\ e[u] = new[u] - cur[u]
      BY <1>1, <1>2, <1>4, <1>5, <2>1 DEF WithdrawAllowed, Holders
    <3> QED
      BY <3>1
  <2>2. ASSUME upd.intent = "close", NEW u \in Users
        PROVE  e[u] <= 0
    BY <1>2, <1>5, <2>2
  <2> QED
    BY <1>5, <2>1, <2>2
<1>9. upd.intent = "operate" => SumOf(e) = 0
  <2>1. SUFFICES ASSUME upd.intent = "operate" PROVE SumOf(e) = 0
    OBVIOUS
  <2> DEFINE all == [u \in Users |-> IF u \in P THEN new[u] ELSE 0]
  <2>2. \A u \in Users : cur[u] \in Int /\ e[u] \in Int /\ all[u] = cur[u] + e[u]
    BY <1>1, <1>2, <1>5, <2>1
  <2>3. /\ \A u \in P : new[u] \in Int /\ all[u] = new[u]
        /\ \A u \in Users \ P : all[u] = 0
    BY <1>1
  <2> HIDE DEF all
  <2>4. /\ SumOver(cur, Users) \in Int /\ SumOver(e, Users) \in Int
        /\ SumOver(all, Users) = SumOver(cur, Users) + SumOver(e, Users)
    BY <1>1, <2>2, SumAdd
  <2>5. SumOver(all, Users) = SumOver(new, P)
    BY <1>1, <2>3, SumWithin
  <2>6. SumOver(new, P) = SumOver(cur, Users)
    BY <1>4, <1>5, <2>1 DEF OperateAllowed, SumOf
  <2>7. SumOf(e) = SumOver(e, Users)
    BY <1>5 DEF SumOf
  <2> QED
    BY <2>4, <2>5, <2>6, <2>7
<1>10. upd.intent = "deposit" => SumOf(e) = amount
  <2>1. SUFFICES ASSUME upd.intent = "deposit" PROVE SumOf(e) = amount
    OBVIOUS
  <2> DEFINE d == [u \in P |-> new[u] - cur[u]]
  <2>2. SumOf(d) = amount
    BY <1>4, <1>5, <2>1 DEF DepositAllowed
  <2>3. /\ \A u \in P : d[u] \in Int /\ e[u] = d[u]
        /\ \A u \in Users \ P : e[u] = 0
    BY <1>1, <1>2, <1>5, <2>1
  <2>4. SumOf(d) = SumOver(d, P)
    BY DEF SumOf
  <2> HIDE DEF d
  <2>5. SumOver(e, Users) = SumOver(d, P)
    BY <1>1, <2>3, SumWithin
  <2>6. SumOf(e) = SumOver(e, Users)
    BY <1>5 DEF SumOf
  <2> QED
    BY <2>2, <2>4, <2>5, <2>6
<1>11. Ready(upd, e)
  BY <1>5, <1>7, <1>8, <1>9 DEF Ready, P, sid, cur
<1> QED
  BY <1>10, <1>11 DEF e

-------------------------------------------------------------------------------
(* Steps of the API that write no table *)

\* The kind of a request says what is known of it.
LEMMA KindOf ==
  ASSUME NEW r, NEW q, RequestOK(r, q)
  PROVE  /\ q.kind = "register" => RegisterOK(q)
         /\ q.kind = "create" => CreateOK(q)
         /\ q.kind = "deposit" => DepositOK(r, q)
         /\ q.kind = "state" => StateOK(r, q)
         /\ q.kind = "rebalance" => RebalanceOK(r, q)
BY DEF RequestOK, Idle, RegisterOK, CreateOK, DepositOK, StateOK, RebalanceOK

\* A transaction that ends lets go of its own locks.
LEMMA ReleaseKeeps ==
  ASSUME TypeOK, NEW r \in Requests, Release(r)
  PROVE  LocksKept(r)
<1>1. /\ rowLocks' = [x \in Users |-> IF rowLocks[x] = r THEN Nil ELSE rowLocks[x]]
      /\ sessionLocks' = [x \in Sessions |-> IF sessionLocks[x] = r THEN Nil ELSE sessionLocks[x]]
  BY DEF TypeOK, Release, Unlocked
<1> QED
  BY <1>1 DEF TypeOK, LocksKept

\* A request that ends without a change.
LEMMA FinishStep ==
  ASSUME Inv, NEW r \in Requests, UNCHANGED books, LocksKept(r),
         apps' \subseteq Applications, sent' = sent, Finish(r)
  PROVE  Inv'
<1>1. PICK q : q = Idle
  OBVIOUS
<1>2. RequestOK(r, q)'
  BY <1>1 DEF RequestOK, Idle
<1>3. requests' = [requests EXCEPT ![r] = q] /\ sent' \in 0..MaxRequests
  BY <1>1 DEF Finish, Inv, TypeOK
<1> QED
  BY <1>2, <1>3, QuietStep

\* A transaction that fails leaves the tables and drops its locks.
LEMMA RollbackStep ==
  ASSUME Inv, NEW r \in Requests, Rollback(r), UNCHANGED sent
  PROVE  Inv'
<1>1. LocksKept(r)
  BY ReleaseKeeps DEF Rollback, Inv
<1>2. UNCHANGED books /\ apps' \subseteq Applications /\ Finish(r)
  BY DEF Rollback, Release, tables, appTables, books, Inv, TypeOK
<1> QED
  BY <1>1, <1>2, FinishStep

\* The locks stay when they are unchanged.
LEMMA SameLocks ==
  ASSUME TypeOK, NEW r \in Requests, UNCHANGED <<rowLocks, sessionLocks>>
  PROVE  LocksKept(r)
BY DEF TypeOK, LocksKept

\* A request goes on to its next step.
LEMMA GotoStep ==
  ASSUME Inv, NEW r \in Requests, UNCHANGED books, UNCHANGED apps, UNCHANGED sent,
         LocksKept(r), NEW q, requests[r] = q, NEW pc, Goto(r, pc),
         RequestOK(r, [q EXCEPT !.pc = pc])'
  PROVE  Inv'
<1>1. PICK p : p = [q EXCEPT !.pc = pc]
  OBVIOUS
<1>2. requests' = [requests EXCEPT ![r] = p]
  BY <1>1 DEF Goto
<1>3. RequestOK(r, p)'
  BY <1>1
<1>4. apps' \subseteq Applications /\ sent' \in 0..MaxRequests
  BY DEF Inv, TypeOK
<1> QED
  BY <1>2, <1>3, <1>4, QuietStep

\* The registration of an application.
LEMMA RegisterSteps ==
  ASSUME Inv, NEW r \in Requests, SubmitAppVersion(r)
  PROVE  Inv'
<1>1. PICK q : requests[r] = q
  OBVIOUS
<1>2. RegisterOK(q)
  BY <1>1, KindOf DEF Inv, RequestsOK, SubmitAppVersion
<1>3. UNCHANGED books /\ UNCHANGED sent /\ LocksKept(r)
  BY SameLocks DEF SubmitAppVersion, books, tables, Inv
<1>4. CASE Finish(r)
  <2>1. apps' \subseteq Applications
    BY <1>1, <1>2 DEF SubmitAppVersion, RegisterOK, Inv, TypeOK
  <2> QED
    BY <1>3, <1>4, <2>1, FinishStep
<1>5. CASE Goto(r, "commit") /\ UNCHANGED apps
  <2>1. RegisterOK([q EXCEPT !.pc = "commit"])
    BY <1>2 DEF RegisterOK
  <2>2. RequestOK(r, [q EXCEPT !.pc = "commit"])'
    BY <2>1 DEF RequestOK, RegisterOK
  <2> QED
    BY <1>1, <1>3, <1>5, <2>2, GotoStep
<1> QED
  BY <1>4, <1>5 DEF SubmitAppVersion

\* CreateAppSession up to the gateway.
LEMMA BeginCreateStep ==
  ASSUME Inv, NEW r \in Requests, BeginCreate(r)
  PROVE  Inv'
<1>1. PICK q : requests[r] = q
  OBVIOUS
<1>2. CreateOK(q)
  BY <1>1, KindOf DEF Inv, RequestsOK, BeginCreate
<1>3. UNCHANGED books /\ UNCHANGED apps /\ UNCHANGED sent /\ LocksKept(r)
  BY SameLocks DEF BeginCreate, books, tables, appTables, Inv
<1>4. CASE Finish(r)
  BY <1>3, <1>4, FinishStep DEF Inv, TypeOK
<1>5. CASE Goto(r, "commit") /\ CreateAppSessionAllowed(q)
  <2>1. QuorumWithin(q.session)
    BY <1>5 DEF CreateAppSessionAllowed
  <2>2. CreateOK([q EXCEPT !.pc = "commit"])
    BY <1>2, <2>1 DEF CreateOK
  <2>3. RequestOK(r, [q EXCEPT !.pc = "commit"])'
    BY <2>2 DEF RequestOK, CreateOK
  <2> QED
    BY <1>1, <1>3, <1>5, <2>3, GotoStep
<1> QED
  BY <1>1, <1>4, <1>5 DEF BeginCreate

\* An update that passes the checks of the session's row.
LEMMA AllowedIsChecked ==
  ASSUME TypeOK, NEW upd, IsUpdate(upd), UpdateAllowed(upd)
  PROVE  Checked(upd)
<1>1. appSessions[upd.session] \in AppSessionRow
  BY DEF IsUpdate, UpdateAllowed, TypeOK
<1> QED
  BY <1>1 DEF UpdateAllowed, AppSessionRow, Checked

\* A deposit reads the session and asks the gateway.
LEMMA BeginDepositStep ==
  ASSUME Inv, NEW r \in Requests, BeginDeposit(r)
  PROVE  Inv'
<1>1. PICK q : requests[r] = q
  OBVIOUS
<1>2. DepositOK(r, q) /\ q.pc = "begin"
  BY <1>1, KindOf DEF Inv, RequestsOK, BeginDeposit
<1>3. UNCHANGED books /\ UNCHANGED apps /\ UNCHANGED sent /\ LocksKept(r)
  BY SameLocks DEF BeginDeposit, books, tables, appTables, Inv
<1>4. CASE Finish(r)
  BY <1>3, <1>4, FinishStep DEF Inv, TypeOK
<1>5. CASE Goto(r, "lock") /\ UpdateAllowed(q.upd)
  <2>1. Checked(q.upd)'
    BY <1>2, <1>3, <1>5, AllowedIsChecked, QuietFacts DEF DepositOK, Inv
  <2>2. Watched(q.upd)'
    BY <1>2, <1>3, QuietFacts DEF DepositOK
  <2>3. PICK p : p = [q EXCEPT !.pc = "lock"]
    OBVIOUS
  <2>4. /\ DOMAIN p = {"kind", "pc", "upd", "state"} /\ p.pc = "lock" /\ p.kind = "deposit"
        /\ p.upd = q.upd /\ p.state = q.state
    BY <1>2, <2>3 DEF DepositOK
  <2>5. DepositOK(r, p)'
    BY <1>2, <2>1, <2>2, <2>4 DEF DepositOK
  <2>6. RequestOK(r, [q EXCEPT !.pc = "lock"])'
    BY <2>3, <2>5 DEF RequestOK
  <2> QED
    BY <1>1, <1>3, <1>5, <2>6, GotoStep
<1> QED
  BY <1>1, <1>4, <1>5 DEF BeginDeposit

\* An update of the allocations reads the session and checks the quorum.
LEMMA BeginAppStateStep ==
  ASSUME Inv, NEW r \in Requests, BeginAppState(r)
  PROVE  Inv'
<1>1. PICK q : requests[r] = q
  OBVIOUS
<1>2. StateOK(r, q) /\ q.pc = "begin"
  BY <1>1, KindOf DEF Inv, RequestsOK, BeginAppState
<1>3. UNCHANGED books /\ UNCHANGED apps /\ UNCHANGED sent /\ LocksKept(r)
  BY SameLocks DEF BeginAppState, books, tables, appTables, Inv
<1>4. CASE Finish(r)
  BY <1>3, <1>4, FinishStep DEF Inv, TypeOK
<1>5. CASE Goto(r, "allocations") /\ UpdateAllowed(q.upd)
  <2>1. Checked(q.upd)'
    BY <1>2, <1>3, <1>5, AllowedIsChecked, QuietFacts DEF StateOK, Inv
  <2>2. Watched(q.upd)'
    BY <1>2, <1>3, QuietFacts DEF StateOK
  <2>3. PICK p : p = [q EXCEPT !.pc = "allocations"]
    OBVIOUS
  <2>4. /\ DOMAIN p = {"kind", "pc", "upd"} /\ p.pc = "allocations" /\ p.kind = "state"
        /\ p.upd = q.upd
    BY <1>2, <2>3 DEF StateOK
  <2>5. StateOK(r, p)'
    BY <1>2, <2>1, <2>2, <2>4 DEF StateOK
  <2>6. RequestOK(r, [q EXCEPT !.pc = "allocations"])'
    BY <2>3, <2>5 DEF RequestOK
  <2> QED
    BY <1>1, <1>3, <1>5, <2>6, GotoStep
<1> QED
  BY <1>1, <1>4, <1>5 DEF BeginAppState

\* The user's row is locked, and the state checked against the last one.
LEMMA LockDepositStep ==
  ASSUME Inv, NEW r \in Requests, LockDeposit(r)
  PROVE  Inv'
<1>1. PICK q : requests[r] = q
  OBVIOUS
<1>2. DepositOK(r, q) /\ q.pc = "lock"
  BY <1>1, KindOf DEF Inv, RequestsOK, LockDeposit
<1>3. CASE Rollback(r)
  BY <1>3, RollbackStep DEF LockDeposit
<1>4. CASE DepositValid(q) /\ ~Rollback(r)
  <2> DEFINE u == q.state.userWallet
             e == LedgerEntries(q.upd)
  <2>1. /\ u \in Users /\ IsState(q.state) /\ q.state.transition.type = "commit"
        /\ q.state.transition.amount \in Int /\ q.state.transition.accountId = q.upd.session
        /\ IsUpdate(q.upd) /\ q.upd.intent = "deposit" /\ Watched(q.upd) /\ Checked(q.upd)
    BY <1>2 DEF DepositOK, IsState
  <2>2. /\ rowLocks[u] = Nil /\ rowLocks' = [rowLocks EXCEPT ![u] = r]
        /\ UNCHANGED <<tables, appTables, sessionLocks, sent>>
        /\ requests' = [requests EXCEPT ![r] =
             [kind |-> "deposit", pc |-> "commit", upd |-> q.upd,
              state |-> [q.state EXCEPT !.nodeSig = TRUE], entries |-> e]]
    BY <1>1, <1>4 DEF LockDeposit
  <2>3. PICK p : p = [kind |-> "deposit", pc |-> "commit", upd |-> q.upd,
                      state |-> [q.state EXCEPT !.nodeSig = TRUE], entries |-> e]
    OBVIOUS
  <2>4. UNCHANGED books
    BY <2>2 DEF tables, appTables, books
  <2>5. Ready(q.upd, e) /\ SumOf(e) = q.state.transition.amount
    BY <1>4, <2>1, EntriesReady DEF DepositValid, Inv
  <2>6. /\ q.state.epoch = Last(u).epoch /\ q.state.version = Last(u).version + 1
        /\ q.state.homeLedger.userBalance
             = Last(u).homeLedger.userBalance - q.state.transition.amount
        /\ q.state.homeLedger.userBalance >= 0
    <3>1. ValidateAdvancement(Last(u), q.state)
      BY <1>4 DEF DepositValid, Last
    <3>2. IsState(Last(u))
      BY <2>1 DEF Inv, StatesInv, StatesOf
    <3> QED
      BY <2>1, <3>1, <3>2, Advance
  <2> HIDE DEF e
  <2>7. /\ DOMAIN p = {"kind", "pc", "upd", "state", "entries"} /\ p.kind = "deposit"
        /\ p.pc = "commit" /\ p.upd = q.upd /\ p.entries = e
        /\ p.state = [q.state EXCEPT !.nodeSig = TRUE]
    BY <2>3
  <2>8. /\ DOMAIN p.state = StateFields /\ p.state.userWallet = u
        /\ p.state.epoch = q.state.epoch /\ p.state.version = q.state.version
        /\ p.state.homeLedger = q.state.homeLedger
        /\ p.state.transition = q.state.transition
    <3>1. DOMAIN q.state = StateFields
      BY <2>1 DEF IsState
    <3> QED
      BY <2>7, <3>1 DEF StateFields
  <2>9. IsState(p.state)
    BY <2>1, <2>8 DEF IsState
  <2>10. Follows(p.state)
    BY <2>6, <2>8 DEF Follows
  <2>11. /\ Watched(p.upd)' /\ Checked(p.upd)' /\ Ready(p.upd, p.entries)' /\ Follows(p.state)'
    BY <2>1, <2>4, <2>5, <2>7, <2>8, <2>10, QuietFacts
  <2>12. rowLocks'[u] = r /\ LocksKept(r)
    <3>1. rowLocks'[u] = r /\ \A v \in Users \ {u} : rowLocks'[v] = rowLocks[v]
      BY <2>1, <2>2 DEF Inv, TypeOK
    <3>2. rowLocks' \in [Users -> Requests \cup {Nil}]
      BY <2>2 DEF Inv, TypeOK
    <3> QED
      BY <2>2, <3>1, <3>2, Constants DEF LocksKept, Inv, TypeOK
  <2>13. DepositOK(r, p)'
    BY <2>1, <2>5, <2>7, <2>8, <2>9, <2>11, <2>12 DEF DepositOK
  <2>14. RequestOK(r, p)'
    BY <2>13 DEF RequestOK
  <2>15. /\ requests' = [requests EXCEPT ![r] = p]
         /\ apps' \subseteq Applications /\ sent' \in 0..MaxRequests
    BY <2>2, <2>3 DEF e, appTables, Inv, TypeOK
  <2> QED
    BY <2>4, <2>12, <2>14, <2>15, QuietStep
<1> QED
  BY <1>1, <1>3, <1>4 DEF LockDeposit

\* The allocations are read.
LEMMA ReadAllocationsStep ==
  ASSUME Inv, NEW r \in Requests, ReadAllocations(r)
  PROVE  Inv'
<1>1. PICK q : requests[r] = q
  OBVIOUS
<1>2. StateOK(r, q) /\ q.pc = "allocations"
  BY <1>1, KindOf DEF Inv, RequestsOK, ReadAllocations
<1>3. /\ UNCHANGED books /\ UNCHANGED <<apps, sent>> /\ LocksKept(r)
  BY SameLocks DEF ReadAllocations, books, tables, appTables, Inv
<1>4. CASE Finish(r)
  BY <1>3, <1>4, FinishStep DEF Inv, TypeOK
<1>5. CASE IntentAllowed(q.upd, 0) /\ ~Finish(r)
  <2> DEFINE e == LedgerEntries(q.upd)
             R == Receivers(q.upd, e)
  <2>1. /\ IsUpdate(q.upd) /\ q.upd.intent \in {"operate", "withdraw", "close"}
        /\ Watched(q.upd) /\ Checked(q.upd)
    BY <1>2 DEF StateOK
  <2>2. requests' = [requests EXCEPT ![r] =
          [kind |-> "state", pc |-> "commit", upd |-> q.upd, entries |-> e, toLock |-> R]]
    BY <1>1, <1>5 DEF ReadAllocations
  <2>3. PICK p : p = [kind |-> "state", pc |-> "commit", upd |-> q.upd, entries |-> e, toLock |-> R]
    OBVIOUS
  <2>4. Ready(q.upd, e)
    BY <1>5, <2>1, EntriesReady DEF Inv
  <2>5. R \subseteq Users
    BY DEF Receivers
  <2>6. p.upd = q.upd /\ p.entries = e /\ p.toLock = R
    BY <2>3
  <2>7. /\ DOMAIN p = {"kind", "pc", "upd", "entries", "toLock"} /\ p.kind = "state"
        /\ p.pc = "commit"
    BY <2>3
  <2>8. Receivers(p.upd, p.entries) = p.toLock
    BY <2>6
  <2> HIDE DEF e, R
  <2>9. Watched(p.upd)' /\ Checked(p.upd)' /\ Ready(p.upd, p.entries)'
    BY <1>3, <2>1, <2>4, <2>6, QuietFacts
  <2>10. StateOK(r, p)'
    BY <2>1, <2>5, <2>6, <2>7, <2>8, <2>9 DEF StateOK
  <2>11. RequestOK(r, p)'
    BY <2>10 DEF RequestOK
  <2>12. /\ requests' = [requests EXCEPT ![r] = p]
         /\ apps' \subseteq Applications /\ sent' \in 0..MaxRequests
    BY <1>3, <2>2, <2>3 DEF Inv, TypeOK
  <2> QED
    BY <1>3, <2>11, <2>12, QuietStep
<1> QED
  BY <1>1, <1>4, <1>5 DEF ReadAllocations

\* The first user in the order of addresses is one of them.
LEMMA FirstIsUser ==
  ASSUME NEW S \in SUBSET Users, S # {}
  PROVE  First(S) \in S
<1> DEFINE I == {i \in DOMAIN Order : Order[i] \in S}
<1>1. I \subseteq Nat /\ I # {}
  BY AppSessionsAssumption DEF Range
<1>2. \E x \in I : \A y \in I : x <= y
  <2> HIDE DEF I
  <2> QED
    BY <1>1, LeastNatural
<1>3. Min(I) \in I
  <2> HIDE DEF I
  <2> QED
    BY <1>2 DEF Min
<1> QED
  BY <1>3 DEF First

\* A receiver's row is locked.
LEMMA LockReceiverStep ==
  ASSUME Inv, NEW r \in Requests, LockReceiver(r)
  PROVE  Inv'
<1>1. PICK q : requests[r] = q
  OBVIOUS
<1>2. StateOK(r, q) /\ q.pc = "commit" /\ q.toLock # {}
  BY <1>1, KindOf DEF Inv, RequestsOK, LockReceiver
<1>3. CASE Rollback(r)
  BY <1>3, RollbackStep DEF LockReceiver
<1>4. CASE ~Rollback(r)
  <2> DEFINE u == First(q.toLock)
  <2>1. u \in Users
    BY <1>2, FirstIsUser DEF StateOK
  <2>2. /\ rowLocks[u] = Nil /\ rowLocks' = [rowLocks EXCEPT ![u] = r]
        /\ UNCHANGED <<tables, appTables, sessionLocks, sent>>
        /\ requests' = [requests EXCEPT ![r].toLock = @ \ {u}]
    BY <1>1, <1>4 DEF LockReceiver
  <2> HIDE DEF u
  <2>3. PICK p : p = [q EXCEPT !.toLock = @ \ {u}]
    OBVIOUS
  <2>4. UNCHANGED books
    BY <2>2 DEF tables, appTables, books
  <2>5. /\ DOMAIN p = {"kind", "pc", "upd", "entries", "toLock"} /\ p.kind = "state"
        /\ p.pc = "commit" /\ p.upd = q.upd /\ p.entries = q.entries
        /\ p.toLock = q.toLock \ {u}
    BY <1>2, <2>3 DEF StateOK
  <2>6. rowLocks'[u] = r /\ \A v \in Users \ {u} : rowLocks'[v] = rowLocks[v]
    BY <2>1, <2>2 DEF Inv, TypeOK
  <2>7. LocksKept(r)
    <3>1. rowLocks' \in [Users -> Requests \cup {Nil}]
      BY <2>2 DEF Inv, TypeOK
    <3> QED
      BY <2>2, <2>6, <3>1, Constants DEF LocksKept, Inv, TypeOK
  <2>8. Watched(p.upd)' /\ Checked(p.upd)' /\ Ready(p.upd, p.entries)'
    BY <1>2, <2>4, <2>5, QuietFacts DEF StateOK
  <2>9. \A v \in Receivers(p.upd, p.entries) : v \in p.toLock \/ rowLocks'[v] = r
    BY <1>2, <2>5, <2>6 DEF StateOK, Receivers
  <2>10. StateOK(r, p)'
    BY <1>2, <2>5, <2>8, <2>9 DEF StateOK
  <2>11. RequestOK(r, p)'
    BY <2>10 DEF RequestOK
  <2>12. requests' = [requests EXCEPT ![r] = p]
    BY <1>1, <2>2, <2>3 DEF Inv, RequestsOK
  <2>13. apps' \subseteq Applications /\ sent' \in 0..MaxRequests
    BY <2>2 DEF appTables, Inv, TypeOK
  <2> QED
    BY <2>4, <2>7, <2>11, <2>12, <2>13, QuietStep
<1> QED
  BY <1>3, <1>4

\* A rebalanced session is read.
LEMMA ReadRebalancedStep ==
  ASSUME Inv, NEW r \in Requests, ReadRebalanced(r)
  PROVE  Inv'
<1>1. PICK q : requests[r] = q
  OBVIOUS
<1>2. RebalanceOK(r, q) /\ q.pc = "begin"
  BY <1>1, KindOf DEF Inv, RequestsOK, ReadRebalanced
<1>3. CASE Rollback(r)
  BY <1>3, RollbackStep DEF ReadRebalanced
<1>4. CASE ~Rollback(r)
  <2> DEFINE n == Len(q.entries)
             upd == q.upds[n + 1]
             e == LedgerEntries(upd)
  <2>1. n \in 0..1
    BY <1>2 DEF RebalanceOK
  <2>2. /\ UpdateAllowed(upd) /\ IntentAllowed(upd, 0)
        /\ UNCHANGED <<tables, rowLocks, appTables, sessionLocks, sent>>
        /\ requests' = [requests EXCEPT ![r].pc = "update", ![r].entries = Append(@, e)]
    BY <1>1, <1>4 DEF ReadRebalanced
  <2>3. UNCHANGED books /\ UNCHANGED <<apps, rowLocks, sessionLocks, sent>>
    BY <2>2 DEF books, tables, appTables
  <2>4. n + 1 \in 1..2 /\ \A i \in 1..(n + 1) : i \in 1..n \/ i = n + 1
    <3> HIDE DEF n
    <3> QED
      BY <2>1
  <2>5. IsUpdate(upd) /\ Watched(upd)
    BY <1>2, <2>4 DEF RebalanceOK
  <2>6. Checked(upd) /\ Ready(upd, e) /\ e \in [Users -> Int]
    <3>1. Checked(upd)
      BY <2>2, <2>5, AllowedIsChecked DEF Inv
    <3>2. Ready(upd, e)
      BY <2>2, <2>5, EntriesReady DEF Inv
    <3> QED
      BY <3>1, <3>2 DEF Ready
  <2> HIDE DEF e
  <2>7. PICK p : p = [q EXCEPT !.pc = "update", !.entries = Append(q.entries, e)]
    OBVIOUS
  <2>8. /\ DOMAIN p = {"kind", "pc", "upds", "entries"} /\ p.kind = "rebalance"
        /\ p.pc = "update" /\ p.upds = q.upds /\ p.entries = Append(q.entries, e)
    BY <1>2, <2>7 DEF RebalanceOK
  <2>9. /\ Len(p.entries) = n + 1 /\ p.entries \in Seq([Users -> Int])
        /\ \A i \in 1..n : p.entries[i] = q.entries[i]
        /\ p.entries[n + 1] = e
    <3>1. q.entries \in Seq([Users -> Int])
      BY <1>2 DEF RebalanceOK
    <3> QED
      BY <2>6, <2>8, <3>1
  <2>10. requests' = [requests EXCEPT ![r] = p]
    BY <1>1, <2>2, <2>7 DEF Inv, RequestsOK
  <2>11. \A i \in 1..n : /\ Checked(q.upds[i]) /\ Ready(q.upds[i], q.entries[i])
                         /\ sessionLocks[q.upds[i].session] = r /\ UpdateMatches(q.upds[i])
    BY <1>2 DEF RebalanceOK
  <2>12. \A i \in 1..2 : /\ IsUpdate(q.upds[i]) /\ q.upds[i].intent = "rebalance"
                         /\ Watched(q.upds[i])
    BY <1>2 DEF RebalanceOK
  <2> HIDE DEF n
  <2>13. \A i \in 1..(n + 1) : Checked(p.upds[i]) /\ Ready(p.upds[i], p.entries[i])
    BY <2>4, <2>6, <2>8, <2>9, <2>11
  <2>14. \A i \in 1..(n + 1) : i < n + 1 =>
           sessionLocks[p.upds[i].session] = r /\ UpdateMatches(p.upds[i])
    BY <2>1, <2>4, <2>8, <2>11
  <2>15. /\ \A i \in 1..2 : /\ IsUpdate(p.upds[i]) /\ p.upds[i].intent = "rebalance"
                            /\ Watched(p.upds[i])'
         /\ \A i \in 1..(n + 1) : Checked(p.upds[i])' /\ Ready(p.upds[i], p.entries[i])'
         /\ \A i \in 1..(n + 1) : i < n + 1 =>
              sessionLocks'[p.upds[i].session] = r /\ UpdateMatches(p.upds[i])'
    BY <2>3, <2>8, <2>12, <2>13, <2>14, QuietFacts
  <2>16. Len(p.upds) = 2 /\ DOMAIN p.upds = 1..2 /\ p.upds[1].session # p.upds[2].session
    BY <1>2, <2>8 DEF RebalanceOK
  <2>17. RebalanceOK(r, p)'
    BY <2>4, <2>8, <2>9, <2>15, <2>16 DEF RebalanceOK
  <2>18. RequestOK(r, p)'
    BY <2>17 DEF RequestOK
  <2>19. LocksKept(r) /\ apps' \subseteq Applications /\ sent' \in 0..MaxRequests
    BY <2>3, SameLocks DEF Inv, TypeOK
  <2> QED
    BY <2>3, <2>10, <2>18, <2>19, QuietStep
<1> QED
  BY <1>3, <1>4

\* A rebalanced session but the last is updated, which locks it.
LEMMA LockRebalancedStep ==
  ASSUME Inv, NEW r \in Requests, NEW q, requests[r] = q, q.kind = "rebalance",
         q.pc = "update", Len(q.entries) # Len(q.upds),
         sessionLocks[q.upds[Len(q.entries)].session] = Nil,
         UpdateMatches(q.upds[Len(q.entries)]),
         sessionLocks' = [sessionLocks EXCEPT ![q.upds[Len(q.entries)].session] = r],
         Goto(r, "begin"), UNCHANGED <<tables, rowLocks, appTables, sent>>
  PROVE  Inv'
<1>1. RebalanceOK(r, q)
  BY KindOf DEF Inv, RequestsOK
<1> DEFINE sid == q.upds[1].session
<1>2. Len(q.entries) = 1
  <2> DEFINE n == Len(q.entries)
  <2>1. n \in 1..2 /\ n # 2
    BY <1>1 DEF RebalanceOK
  <2> HIDE DEF n
  <2>2. n = 1
    BY <2>1
  <2> QED
    BY <2>2 DEF n
<1>3. /\ IsUpdate(q.upds[1]) /\ IsUpdate(q.upds[2]) /\ sid \in Sessions
      /\ Watched(q.upds[1]) /\ Watched(q.upds[2])
      /\ Checked(q.upds[1]) /\ Ready(q.upds[1], q.entries[1]) /\ UpdateMatches(q.upds[1])
  <2>1. 1 \in 1..1 /\ 1 \in 1..2 /\ 2 \in 1..2
    OBVIOUS
  <2> QED
    BY <1>1, <1>2, <2>1 DEF RebalanceOK, IsUpdate
<1>4. UNCHANGED books /\ UNCHANGED <<apps, sent>> /\ UNCHANGED rowLocks
  BY DEF books, tables, appTables
<1>5. /\ sessionLocks[sid] = Nil /\ sessionLocks'[sid] = r
      /\ \A x \in Sessions \ {sid} : sessionLocks'[x] = sessionLocks[x]
      /\ sessionLocks' \in [Sessions -> Requests \cup {Nil}]
  BY <1>2, <1>3 DEF Inv, TypeOK
<1>6. LocksKept(r)
  BY <1>4, <1>5, Constants DEF LocksKept, Inv, TypeOK
<1>7. PICK p : p = [q EXCEPT !.pc = "begin"]
  OBVIOUS
<1>8. /\ DOMAIN p = {"kind", "pc", "upds", "entries"} /\ p.kind = "rebalance"
      /\ p.pc = "begin" /\ p.upds = q.upds /\ p.entries = q.entries
  BY <1>1, <1>7 DEF RebalanceOK
<1>9. /\ Watched(q.upds[1])' /\ Watched(q.upds[2])' /\ Checked(q.upds[1])'
      /\ Ready(q.upds[1], q.entries[1])' /\ UpdateMatches(q.upds[1])'
  BY <1>3, <1>4, QuietFacts
<1>10. RebalanceOK(r, p)'
  <2>1. /\ Len(p.entries) = 1 /\ 1 \in 0..1
        /\ \A i \in 1..1 : i = 1
        /\ \A i \in 1..2 : i = 1 \/ i = 2
    BY <1>2, <1>8
  <2>2. /\ Len(p.upds) = 2 /\ DOMAIN p.upds = 1..2 /\ p.upds[1].session # p.upds[2].session
        /\ p.entries \in Seq([Users -> Int])
        /\ \A i \in 1..2 : IsUpdate(p.upds[i]) /\ p.upds[i].intent = "rebalance"
    BY <1>1, <1>8 DEF RebalanceOK
  <2>3. \A i \in 1..2 : Watched(p.upds[i])'
    BY <1>8, <1>9, <2>1
  <2>4. \A i \in 1..1 : /\ Checked(p.upds[i])' /\ Ready(p.upds[i], p.entries[i])'
                        /\ sessionLocks'[p.upds[i].session] = r /\ UpdateMatches(p.upds[i])'
    BY <1>5, <1>8, <1>9, <2>1
  <2> QED
    BY <1>8, <2>1, <2>2, <2>3, <2>4 DEF RebalanceOK
<1>11. RequestOK(r, [q EXCEPT !.pc = "begin"])'
  BY <1>7, <1>10 DEF RequestOK
<1> QED
  BY <1>4, <1>6, <1>11, GotoStep

\* A transaction that the database aborts.
LEMMA AbortStep ==
  ASSUME Inv, NEW r \in Requests, AbortDeadlocked(r)
  PROVE  Inv'
BY RollbackStep DEF AbortDeadlocked

-------------------------------------------------------------------------------
(* Commits *)

\* What users hold in channels, and what is in sessions.
Held == SumOf([u \in Users |-> userBalances[u].balance])
InSessions == SumOf([sid \in Sessions |-> SumOf(appLedger[sid])])

\* A session's ledger grows by the sum of the entries added to it.
LEMMA LedgerSum ==
  ASSUME NEW a \in [Sessions -> [Users -> Int]], NEW b \in [Sessions -> [Users -> Int]],
         NEW sid \in Sessions, NEW e \in [Users -> Int],
         \A u \in Users : b[sid][u] = a[sid][u] + e[u],
         \A x \in Sessions \ {sid} : b[x] = a[x]
  PROVE  LET f == [x \in Sessions |-> SumOf(a[x])]
             g == [x \in Sessions |-> SumOf(b[x])]
         IN  SumOf(f) \in Int /\ SumOf(e) \in Int /\ SumOf(g) = SumOf(f) + SumOf(e)
<1> DEFINE f == [x \in Sessions |-> SumOf(a[x])]
           g == [x \in Sessions |-> SumOf(b[x])]
<1>1. IsFiniteSet(Users) /\ IsFiniteSet(Sessions)
  BY Constants
<1>2. ASSUME NEW h \in [Users -> Int]
      PROVE  SumOf(h) = SumOver(h, Users) /\ SumOf(h) \in Int
  <2>1. \A x \in Users : h[x] \in Int
    OBVIOUS
  <2>2. DOMAIN h = Users
    OBVIOUS
  <2>3. SumOver(h, Users) \in Int
    <3> DEFINE p == Total(Pos(h, Users), Users)
               n == Total(Neg(h, Users), Users)
    <3>1. SumOver(h, Users) = p - n /\ p \in Nat /\ n \in Nat
      BY <1>1, <2>1, SumParts
    <3> HIDE DEF p, n
    <3> QED
      BY <3>1
  <2> QED
    BY <2>2, <2>3 DEF SumOf
<1>3. SumOf(b[sid]) = SumOf(a[sid]) + SumOf(e)
  <2>1. \A x \in Users : /\ a[sid][x] \in Int /\ e[x] \in Int
                         /\ b[sid][x] = a[sid][x] + e[x]
    OBVIOUS
  <2>2. SumOver(b[sid], Users) = SumOver(a[sid], Users) + SumOver(e, Users)
    BY <1>1, <2>1, SumAdd
  <2>3. a[sid] \in [Users -> Int] /\ b[sid] \in [Users -> Int]
    OBVIOUS
  <2> QED
    BY <1>2, <2>2, <2>3
<1>4. /\ \A y \in Sessions : f[y] \in Int /\ g[y] \in Int
      /\ \A y \in Sessions \ {sid} : f[y] = g[y]
  <2>1. \A y \in Sessions : SumOf(a[y]) \in Int /\ SumOf(b[y]) \in Int
    BY <1>2
  <2> QED
    BY <2>1
<1>5. f[sid] = SumOf(a[sid]) /\ g[sid] = SumOf(b[sid]) /\ DOMAIN f = Sessions /\ DOMAIN g = Sessions
  OBVIOUS
<1> HIDE DEF f, g
<1>6. /\ SumOver(f, Sessions) \in Int
      /\ SumOver(g, Sessions) = SumOver(f, Sessions) + (g[sid] - f[sid])
  BY <1>1, <1>4, SumUpdate
<1>7. SumOf(e) \in Int /\ SumOf(a[sid]) \in Int
  BY <1>2
<1>8. SumOf(f) \in Int /\ SumOf(e) \in Int /\ SumOf(g) = SumOf(f) + SumOf(e)
  BY <1>3, <1>5, <1>6, <1>7 DEF SumOf
<1> QED
  BY <1>8 DEF f, g

\* States that follow their users' last states, no two of one user.
Successors(new) ==
  /\ \A s \in new : /\ IsState(s) /\ s.epoch = Last(s.userWallet).epoch
                    /\ s.version = Last(s.userWallet).version + 1
                    /\ s.homeLedger.userBalance >= 0
  /\ \A s, t \in new : s.userWallet = t.userWallet => s = t

\* Storing them makes each its user's last state.
LEMMA StoreIs ==
  ASSUME StatesInv, userBalances \in [Users -> [balance : Nat, enforced : Nat]],
         NEW new, Successors(new), StoreUserState(new)
  PROVE  /\ StatesInv' /\ userBalances' \in [Users -> [balance : Nat, enforced : Nat]]
         /\ \A u \in Users : (\A s \in new : s.userWallet # u) =>
              Last(u)' = Last(u) /\ userBalances'[u] = userBalances[u]
         /\ \A s \in new : userBalances'[s.userWallet].balance = s.homeLedger.userBalance
<1>1. /\ channelStates' = channelStates \cup new
      /\ \A s \in channelStates' : IsState(s)
  BY DEF StoreUserState, Successors, StatesInv
<1>2. \A u \in Users : userBalances'[u] =
        LET own == {s \in new : s.userWallet = u} IN
        IF own = {} THEN userBalances[u]
        ELSE [userBalances[u] EXCEPT !.balance = Latest(own).homeLedger.userBalance]
  BY DEF StoreUserState
<1>3. DOMAIN userBalances' = Users /\ userBalances' = [u \in Users |-> userBalances'[u]]
  BY DEF StoreUserState
<1>4. ASSUME NEW u \in Users, \A s \in new : s.userWallet # u
      PROVE  /\ StatesOf(u)' = StatesOf(u) /\ Last(u)' = Last(u)
             /\ userBalances'[u] = userBalances[u]
  <2>1. {s \in new : s.userWallet = u} = {}
    BY <1>4
  <2>2. StatesOf(u)' = StatesOf(u)
    BY <1>1, <1>4 DEF StatesOf
  <2> QED
    BY <1>2, <2>1, <2>2 DEF Last, GetLastUserState
<1>5. ASSUME NEW s \in new
      PROVE  LET u == s.userWallet IN
             /\ u \in Users /\ Last(u)' = s /\ s \in StatesOf(u)'
             /\ \A t \in StatesOf(u)' \ {s} : Before(t, s)
             /\ userBalances'[u] = [userBalances[u] EXCEPT !.balance = s.homeLedger.userBalance]
  <2> DEFINE u == s.userWallet
             l == Last(u)
  <2>1. /\ IsState(s) /\ u \in Users /\ s.epoch = l.epoch /\ s.version = l.version + 1
    BY DEF Successors, IsState
  <2>2. StatesOf(u)' = StatesOf(u) \cup {s}
    BY <1>1 DEF StatesOf, Successors
  <2>3. /\ l \in StatesOf(u) /\ \A t \in StatesOf(u) \ {l} : Before(t, l)
        /\ \A t \in StatesOf(u) : IsState(t)
    BY <2>1 DEF StatesInv, StatesOf
  <2>4. \A t \in StatesOf(u) : Before(t, s)
    <3>1. \A t \in StatesOf(u) : t.epoch \in Nat /\ t.version \in Nat
      BY <2>3 DEF IsState
    <3> HIDE DEF l
    <3> QED
      BY <2>1, <2>3, <3>1 DEF Before
  <2>5. PICK rows : rows = StatesOf(u)'
    OBVIOUS
  <2>6. /\ s \in rows /\ (\A t \in rows : IsState(t)) /\ \A t \in rows \ {s} : Before(t, s)
    BY <2>1, <2>2, <2>3, <2>4, <2>5
  <2>7. Latest(rows) = s
    BY <2>6, LatestIs
  <2>8. Last(u)' = s
    <3>1. {t \in StatesOf(u)' : FALSE => CoSigned(t)} = rows
      BY <2>5
    <3> QED
      BY <2>7, <3>1 DEF Last, GetLastUserState
  <2>9. Latest({t \in new : t.userWallet = u}) = s
    <3>1. {t \in new : t.userWallet = u} = {s}
      BY DEF Successors
    <3>2. PICK one : one = {s}
      OBVIOUS
    <3>3. /\ s \in one /\ (\A t \in one : IsState(t)) /\ \A t \in one \ {s} : Before(t, s)
      BY <2>1, <3>2
    <3>4. Latest(one) = s
      BY <3>3, LatestIs
    <3> QED
      BY <3>1, <3>2, <3>4
  <2>10. {t \in new : t.userWallet = u} # {}
    OBVIOUS
  <2>11. userBalances'[u] = [userBalances[u] EXCEPT !.balance = s.homeLedger.userBalance]
    BY <1>2, <2>1, <2>9, <2>10
  <2> QED
    BY <2>1, <2>5, <2>6, <2>8, <2>11
<1>6. ASSUME NEW s \in new
      PROVE  /\ userBalances'[s.userWallet].balance = s.homeLedger.userBalance
             /\ userBalances'[s.userWallet] \in [balance : Nat, enforced : Nat]
  <2> DEFINE b == userBalances[s.userWallet]
             c == userBalances'[s.userWallet]
             n == s.homeLedger.userBalance
  <2>1. n \in Nat /\ b \in [balance : Nat, enforced : Nat]
    BY DEF Successors, IsState
  <2>2. c = [b EXCEPT !.balance = n]
    BY <1>5
  <2> HIDE DEF b, c, n
  <2>3. c.balance = n /\ c \in [balance : Nat, enforced : Nat]
    BY <2>1, <2>2
  <2> QED
    BY <2>3 DEF c, n
<1>7. ASSUME NEW u \in Users
      PROVE  /\ userBalances'[u] \in [balance : Nat, enforced : Nat]
             /\ (Last(u) \in StatesOf(u))'
             /\ (\A s \in StatesOf(u) \ {Last(u)} : Before(s, Last(u)))'
             /\ userBalances'[u].balance = Last(u)'.homeLedger.userBalance
  <2>1. CASE \A s \in new : s.userWallet # u
    <3>1. /\ StatesOf(u)' = StatesOf(u) /\ Last(u)' = Last(u)
          /\ userBalances'[u] = userBalances[u]
      BY <1>4, <2>1
    <3>2. /\ Last(u) \in StatesOf(u) /\ \A s \in StatesOf(u) \ {Last(u)} : Before(s, Last(u))
          /\ userBalances[u].balance = Last(u).homeLedger.userBalance
      BY DEF StatesInv
    <3> QED
      BY <3>1, <3>2
  <2>2. CASE \E s \in new : s.userWallet = u
    <3>1. PICK s \in new : s.userWallet = u
      BY <2>2
    <3> QED
      BY <1>5, <1>6, <3>1
  <2> QED
    BY <2>1, <2>2
<1>8. StatesInv'
  BY <1>1, <1>7 DEF StatesInv
<1>9. userBalances' \in [Users -> [balance : Nat, enforced : Nat]]
  BY <1>3, <1>7
<1> QED
  BY <1>4, <1>6, <1>8, <1>9

\* A transaction commits what it wrote under its locks.
LEMMA CommitKeeps ==
  ASSUME Inv, NEW r \in Requests, Release(r), UNCHANGED <<apps, sent>>,
         appSessions' \in [Sessions -> AppSessionRow \cup {Nil}],
         appLedger' \in [Sessions -> [Users -> Int]],
         StatesInv', SessionsInv', BalancesInv',
         \A sid \in Sessions :
           \/ appSessions'[sid] = appSessions[sid] /\ appLedger'[sid] = appLedger[sid]
           \/ appSessions[sid] = Nil
           \/ /\ sessionLocks[sid] \in {Nil, r} /\ appSessions'[sid] # Nil
              /\ appSessions'[sid].version > appSessions[sid].version,
         \A u \in Users : Last(u)' = Last(u) \/ rowLocks[u] = r
  PROVE  Inv'
<1>1. LocksKept(r)
  BY ReleaseKeeps DEF Inv
<1>2. /\ DOMAIN requests' = Requests /\ requests'[r] = Idle
      /\ \A o \in Requests \ {r} : requests'[o] = requests[o]
  BY DEF Release, Finish, Inv, RequestsOK
<1>3. \A sid \in Sessions : appSessions'[sid] # Nil => appSessions'[sid].version \in Nat
  BY DEF AppSessionRow
<1>4. Undisturbed(r)
  BY <1>1, <1>2, <1>3 DEF Undisturbed, LocksKept
<1>5. PICK q : q = Idle
  OBVIOUS
<1>6. RequestOK(r, q)'
  BY <1>5 DEF RequestOK
<1>7. RequestsOK'
  BY <1>2, <1>4, <1>5, <1>6, RequestsKept DEF Inv
<1>8. \A o \in Requests : requests'[o].pc \in {"idle", "begin", "lock", "allocations",
                                               "update", "commit"}
  BY <1>2 DEF Inv, TypeOK, Idle
<1>9. TypeOK'
  BY <1>1, <1>8 DEF Inv, TypeOK, LocksKept
<1> QED
  BY <1>7, <1>9 DEF Inv

\* The row that a request inserts for a new session.
LEMMA CommitCreateStep ==
  ASSUME Inv, NEW r \in Requests, CommitCreate(r)
  PROVE  Inv'
<1>1. PICK q : requests[r] = q
  OBVIOUS
<1>2. CreateOK(q) /\ q.pc = "commit"
  BY <1>1, KindOf DEF Inv, RequestsOK, CommitCreate
<1>3. CASE Rollback(r)
  BY <1>3, RollbackStep DEF CommitCreate
<1>4. CASE ~Rollback(r)
  <2> DEFINE sid == q.session
             row == [status |-> "open", version |-> 1]
  <2>1. /\ appSessions[sid] = Nil /\ appSessions' = [appSessions EXCEPT ![sid] = row]
        /\ Release(r) /\ UNCHANGED <<channelStates, userBalances, appLedger, apps, sent>>
    BY <1>1, <1>4 DEF CommitCreate
  <2>2. sid \in Sessions /\ QuorumWithin(sid)
    BY <1>2 DEF CreateOK
  <2>3. row \in AppSessionRow /\ row.status = "open" /\ row # Nil
    <3>1. row \in AppSessionRow /\ row.status = "open"
      BY DEF AppSessionRow
    <3> QED
      BY <3>1, Constants
  <2> HIDE DEF row
  <2>4. /\ appSessions'[sid] = row
        /\ \A x \in Sessions \ {sid} : appSessions'[x] = appSessions[x]
        /\ appSessions' \in [Sessions -> AppSessionRow \cup {Nil}]
    BY <2>1, <2>2, <2>3 DEF Inv, TypeOK
  <2>5. \A u \in Users : Last(u)' = Last(u)
    BY <2>1 DEF Last, GetLastUserState, StatesOf
  <2>6. StatesInv'
    <3>1. \A u \in Users : StatesOf(u)' = StatesOf(u)
      BY <2>1 DEF StatesOf
    <3> QED
      BY <2>1, <2>5, <3>1 DEF StatesInv, Inv
  <2>7. BalancesInv'
    BY <2>1 DEF BalancesInv, Inv
  <2>8. SessionsInv'
    <3> SUFFICES ASSUME NEW x \in Sessions
                 PROVE  /\ \A u \in Users : /\ appLedger'[x][u] >= 0
                                            /\ u \notin Participants(x) => appLedger'[x][u] = 0
                        /\ appSessions'[x] # Nil => QuorumWithin(x)
                        /\ appSessions'[x] # Nil /\ appSessions'[x].status = "closed" =>
                             \A u \in Users : appLedger'[x][u] = 0
      BY DEF SessionsInv, QuorumWithin
    <3>1. appLedger' = appLedger
      BY <2>1
    <3>2. CASE x = sid
      BY <2>2, <2>3, <2>4, <3>1, <3>2 DEF SessionsInv, Inv
    <3>3. CASE x # sid
      <4>1. appSessions'[x] = appSessions[x]
        BY <2>4, <3>3
      <4> QED
        BY <3>1, <4>1 DEF SessionsInv, Inv
    <3> QED
      BY <3>2, <3>3
  <2>9. \A x \in Sessions :
          \/ appSessions'[x] = appSessions[x] /\ appLedger'[x] = appLedger[x]
          \/ appSessions[x] = Nil
    BY <2>1, <2>4
  <2>10. appLedger' \in [Sessions -> [Users -> Int]]
    BY <2>1 DEF Inv, TypeOK
  <2> QED
    BY <2>1, <2>4, <2>5, <2>6, <2>7, <2>8, <2>9, <2>10, CommitKeeps
<1> QED
  BY <1>3, <1>4

\* The row and the ledger of a session that an update of it leaves.
LEMMA SessionAfter ==
  ASSUME Inv, NEW upd, IsUpdate(upd), Watched(upd), Checked(upd), UpdateMatches(upd),
         NEW entries, Ready(upd, entries), NEW row, row = UpdatedRow(upd),
         NEW ledger, ledger = Sum(appLedger[upd.session], entries)
  PROVE  /\ row \in AppSessionRow /\ row.version > appSessions[upd.session].version
         /\ ledger \in [Users -> Int]
         /\ \A u \in Users : /\ ledger[u] = appLedger[upd.session][u] + entries[u]
                             /\ ledger[u] >= 0
                             /\ u \notin Participants(upd.session) => ledger[u] = 0
         /\ QuorumWithin(upd.session)
         /\ row.status = "closed" => \A u \in Users : ledger[u] = 0
<1> DEFINE sid == upd.session
<1>1. /\ sid \in Sessions /\ upd.version \in Nat /\ appSessions[sid] # Nil
      /\ appSessions[sid].version \in Nat /\ appSessions[sid].version = upd.version - 1
      /\ appLedger[sid] \in [Users -> Int]
  BY DEF IsUpdate, Watched, UpdateMatches, Inv, TypeOK, AppSessionRow
<1>2. row \in AppSessionRow /\ row.version = upd.version
      /\ (row.status = "closed" => upd.intent = "close")
  BY <1>1 DEF UpdatedRow, AppSessionRow
<1>3. /\ entries \in [Users -> Int]
      /\ \A u \in Users \ Participants(sid) : entries[u] = 0
      /\ \A u \in Users : /\ appLedger[sid][u] + entries[u] >= 0
                          /\ upd.intent = "close" => appLedger[sid][u] + entries[u] = 0
  BY DEF Ready
<1>4. ledger \in [Users -> Int] /\ \A u \in Users : ledger[u] = appLedger[sid][u] + entries[u]
  BY <1>1, <1>3 DEF Sum
<1>5. /\ QuorumWithin(sid)
      /\ \A u \in Users : u \notin Participants(sid) => appLedger[sid][u] = 0
  BY <1>1 DEF Inv, SessionsInv
<1> QED
  BY <1>1, <1>2, <1>3, <1>4, <1>5

\* An update of one session commits with states that move as much money as
\* the entries do.
LEMMA CommitUpdateStep ==
  ASSUME Inv, NEW r \in Requests, NEW upd, NEW entries, NEW states, NEW rows,
         CommitUpdate(r, upd, entries, states, rows), UNCHANGED sent,
         sessionLocks[upd.session] = Nil, UpdateMatches(upd),
         IsUpdate(upd), Watched(upd), Checked(upd), Ready(upd, entries),
         Successors(states), \A s \in states : rowLocks[s.userWallet] = r,
         Held' = Held - SumOf(entries)
  PROVE  Inv'
<1> DEFINE sid == upd.session
<1>1. PICK row : row = UpdatedRow(upd)
  OBVIOUS
<1>2. PICK ledger : ledger = Sum(appLedger[sid], entries)
  OBVIOUS
<1>3. /\ appSessions' = [appSessions EXCEPT ![sid] = row]
      /\ appLedger' = [appLedger EXCEPT ![sid] = ledger]
      /\ StoreUserState(states) /\ Release(r) /\ apps' = apps /\ sid \in Sessions
  BY <1>1, <1>2 DEF CommitUpdate, IsUpdate, Inv, TypeOK
<1>4. /\ row \in AppSessionRow /\ row.version > appSessions[sid].version
      /\ ledger \in [Users -> Int]
      /\ \A u \in Users : /\ ledger[u] = appLedger[sid][u] + entries[u] /\ ledger[u] >= 0
                          /\ u \notin Participants(sid) => ledger[u] = 0
      /\ QuorumWithin(sid)
      /\ row.status = "closed" => \A u \in Users : ledger[u] = 0
  BY <1>1, <1>2, SessionAfter
<1>5. /\ appSessions'[sid] = row /\ appLedger'[sid] = ledger
      /\ \A x \in Sessions \ {sid} : /\ appSessions'[x] = appSessions[x]
                                     /\ appLedger'[x] = appLedger[x]
      /\ appSessions' \in [Sessions -> AppSessionRow \cup {Nil}]
      /\ appLedger' \in [Sessions -> [Users -> Int]]
  BY <1>3, <1>4 DEF Inv, TypeOK
<1>6. /\ StatesInv' /\ userBalances' \in [Users -> [balance : Nat, enforced : Nat]]
      /\ \A u \in Users : (\A s \in states : s.userWallet # u) => Last(u)' = Last(u)
  BY <1>3, StoreIs DEF Inv, BalancesInv
<1>7. SessionsInv'
  <2> SUFFICES ASSUME NEW x \in Sessions
               PROVE  /\ \A u \in Users : /\ appLedger'[x][u] >= 0
                                          /\ u \notin Participants(x) => appLedger'[x][u] = 0
                      /\ appSessions'[x] # Nil => QuorumWithin(x)
                      /\ appSessions'[x] # Nil /\ appSessions'[x].status = "closed" =>
                           \A u \in Users : appLedger'[x][u] = 0
    BY DEF SessionsInv, QuorumWithin
  <2>1. CASE x = sid
    BY <1>4, <1>5, <2>1
  <2>2. CASE x # sid
    <3>1. appSessions'[x] = appSessions[x] /\ appLedger'[x] = appLedger[x]
      BY <1>5, <2>2
    <3> QED
      BY <3>1 DEF SessionsInv, Inv
  <2> QED
    BY <2>1, <2>2
<1>8. BalancesInv'
  <2>1. PICK a, b : a = appLedger /\ b = appLedger'
    OBVIOUS
  <2>2. /\ a \in [Sessions -> [Users -> Int]] /\ b \in [Sessions -> [Users -> Int]]
        /\ entries \in [Users -> Int]
        /\ \A u \in Users : b[sid][u] = a[sid][u] + entries[u]
        /\ \A x \in Sessions \ {sid} : b[x] = a[x]
    BY <1>4, <1>5, <2>1 DEF Inv, TypeOK, Ready
  <2>3. LET f == [x \in Sessions |-> SumOf(a[x])]
            g == [x \in Sessions |-> SumOf(b[x])]
        IN  SumOf(f) \in Int /\ SumOf(entries) \in Int /\ SumOf(g) = SumOf(f) + SumOf(entries)
    BY <1>3, <2>2, LedgerSum
  <2>4. InSessions \in Int /\ SumOf(entries) \in Int /\ InSessions' = InSessions + SumOf(entries)
    BY <2>1, <2>3 DEF InSessions
  <2>5. Held \in Int /\ Held + InSessions = InitialBalance * Cardinality(Users)
    <3>1. Held \in Int
      <4> DEFINE f == [u \in Users |-> userBalances[u].balance]
                 p == Total(Pos(f, Users), Users)
                 n == Total(Neg(f, Users), Users)
      <4>1. DOMAIN f = Users /\ \A u \in Users : f[u] \in Int
        BY DEF Inv, BalancesInv
      <4>2. Held = SumOver(f, Users)
        BY DEF Held, SumOf
      <4> HIDE DEF f
      <4>3. SumOver(f, Users) = p - n /\ p \in Nat /\ n \in Nat
        BY <4>1, Constants, SumParts
      <4> HIDE DEF p, n
      <4> QED
        BY <4>2, <4>3
    <3> QED
      BY <3>1 DEF Held, InSessions, Inv, BalancesInv
  <2>6. Held' + InSessions' = InitialBalance * Cardinality(Users)
    BY <2>4, <2>5
  <2> QED
    BY <1>6, <2>6 DEF BalancesInv, Held, InSessions
<1>9. \A x \in Sessions :
        \/ appSessions'[x] = appSessions[x] /\ appLedger'[x] = appLedger[x]
        \/ appSessions[x] = Nil
        \/ /\ sessionLocks[x] \in {Nil, r} /\ appSessions'[x] # Nil
           /\ appSessions'[x].version > appSessions[x].version
  BY <1>4, <1>5, Constants
<1>10. \A u \in Users : Last(u)' = Last(u) \/ rowLocks[u] = r
  BY <1>6
<1> QED
  BY <1>3, <1>5, <1>6, <1>7, <1>8, <1>9, <1>10, CommitKeeps

\* A deposit takes from its user what it adds to the session.
LEMMA CommitDepositStep ==
  ASSUME Inv, NEW r \in Requests, CommitDeposit(r)
  PROVE  Inv'
<1>1. PICK q : requests[r] = q
  OBVIOUS
<1>2. DepositOK(r, q) /\ q.pc = "commit" /\ sessionLocks[q.upd.session] = Nil /\ UNCHANGED sent
  BY <1>1, KindOf DEF Inv, RequestsOK, CommitDeposit
<1>3. CASE Rollback(r)
  BY <1>2, <1>3, RollbackStep
<1>4. CASE ~Rollback(r)
  <2> DEFINE u == q.state.userWallet
             a == q.state.transition.amount
             rows == {NewTransactionFromTransition(q.state, Nil, q.state.transition)}
  <2>1. UpdateMatches(q.upd) /\ CommitUpdate(r, q.upd, q.entries, {q.state}, rows)
    BY <1>1, <1>4 DEF CommitDeposit
  <2> HIDE DEF rows
  <2>2. /\ IsUpdate(q.upd) /\ Watched(q.upd) /\ Checked(q.upd) /\ Ready(q.upd, q.entries)
        /\ IsState(q.state) /\ SumOf(q.entries) = a /\ a \in Int
        /\ rowLocks[u] = r /\ Follows(q.state)
    BY <1>2 DEF DepositOK
  <2>3. PICK new : new = {q.state}
    OBVIOUS
  <2>4. Successors(new)
    BY <2>2, <2>3 DEF Successors, Follows
  <2>5. u \in Users /\ userBalances[u].balance = Last(u).homeLedger.userBalance
    BY <2>2 DEF IsState, Inv, StatesInv
  <2>6. StoreUserState(new)
    BY <2>1, <2>3 DEF CommitUpdate
  <2>7. /\ userBalances' \in [Users -> [balance : Nat, enforced : Nat]]
        /\ \A v \in Users \ {u} : userBalances'[v] = userBalances[v]
        /\ userBalances'[u].balance = q.state.homeLedger.userBalance
    BY <2>3, <2>4, <2>6, StoreIs DEF Inv, BalancesInv
  <2>8. /\ userBalances'[u].balance = userBalances[u].balance - a
        /\ userBalances \in [Users -> [balance : Nat, enforced : Nat]]
    BY <2>2, <2>5, <2>7 DEF Follows, Inv, BalancesInv
  <2>9. Held' = Held - a
    <3> DEFINE f == [v \in Users |-> userBalances[v].balance]
               g == [v \in Users |-> userBalances'[v].balance]
    <3>1. /\ \A v \in Users : f[v] \in Int /\ g[v] \in Int
          /\ \A v \in Users \ {u} : f[v] = g[v]
          /\ DOMAIN f = Users /\ DOMAIN g = Users
      BY <2>7, <2>8
    <3>2. g[u] - f[u] = -a
      <4> DEFINE x == userBalances[u].balance
                 y == userBalances'[u].balance
      <4>1. x \in Int /\ y = x - a /\ f[u] = x /\ g[u] = y
        BY <2>5, <2>8
      <4> HIDE DEF x, y, f, g
      <4> QED
        BY <2>2, <4>1
    <3>3. Held = SumOver(f, Users) /\ Held' = SumOver(g, Users)
      BY DEF Held, SumOf
    <3> HIDE DEF f, g
    <3>4. /\ SumOver(f, Users) \in Int
          /\ SumOver(g, Users) = SumOver(f, Users) + (g[u] - f[u])
      BY <2>5, <3>1, Constants, SumUpdate
    <3> QED
      BY <2>2, <3>2, <3>3, <3>4
  <2>10. Held' = Held - SumOf(q.entries)
    BY <2>2, <2>9
  <2>11. CommitUpdate(r, q.upd, q.entries, new, rows)
    BY <2>1, <2>3
  <2>12. \A s \in new : rowLocks[s.userWallet] = r
    BY <2>2, <2>3
  <2> QED
    BY <1>2, <2>1, <2>2, <2>4, <2>10, <2>11, <2>12, CommitUpdateStep
<1> QED
  BY <1>3, <1>4

\* Withdrawals and closings pay what they take from the session.
LEMMA CommitAppStateStep ==
  ASSUME Inv, NEW r \in Requests, CommitAppState(r)
  PROVE  Inv'
<1>1. PICK q : requests[r] = q
  OBVIOUS
<1> DEFINE sid == q.upd.session
           paid == Receivers(q.upd, q.entries)
           states == {ReleaseReceiverState(u, sid, -q.entries[u]) : u \in paid}
           rows == {NewTransactionFromTransition(Nil, s, s.transition) : s \in states}
<1>2. /\ StateOK(r, q) /\ q.pc = "commit" /\ q.toLock = {}
      /\ sessionLocks[sid] = Nil /\ UNCHANGED sent
  BY <1>1, KindOf DEF Inv, RequestsOK, CommitAppState
<1>3. CASE Rollback(r)
  BY <1>2, <1>3, RollbackStep
<1>4. CASE ~Rollback(r)
  <2>1. UpdateMatches(q.upd) /\ CommitUpdate(r, q.upd, q.entries, states, rows)
    BY <1>1, <1>4 DEF CommitAppState
  <2> HIDE DEF rows
  <2>2. /\ IsUpdate(q.upd) /\ Watched(q.upd) /\ Checked(q.upd) /\ Ready(q.upd, q.entries)
        /\ q.upd.intent \in {"operate", "withdraw", "close"}
        /\ \A u \in paid : rowLocks[u] = r
    BY <1>2 DEF StateOK
  <2>3. /\ q.entries \in [Users -> Int] /\ paid \subseteq Users
        /\ \A u \in paid : q.entries[u] < 0
        /\ q.upd.intent = "operate" => paid = {} /\ SumOf(q.entries) = 0
        /\ q.upd.intent \in {"withdraw", "close"} =>
             \A u \in Users \ paid : q.entries[u] = 0
    BY <2>2 DEF Ready, Receivers
  <2> HIDE DEF paid
  <2>4. ASSUME NEW u \in paid
        PROVE  LET s == ReleaseReceiverState(u, sid, -q.entries[u]) IN
               /\ s \in states /\ IsState(s) /\ s.userWallet = u
               /\ s.epoch = Last(u).epoch /\ s.version = Last(u).version + 1
               /\ s.homeLedger.userBalance = userBalances[u].balance - q.entries[u]
               /\ s.homeLedger.userBalance >= 0
    <3> DEFINE b == userBalances[u].balance
               l == Last(u)
               d == q.entries[u]
               s == ReleaseReceiverState(u, sid, -d)
    <3>1. u \in Users /\ IsState(l) /\ l.userWallet = u /\ b = l.homeLedger.userBalance
      BY <2>3 DEF Inv, StatesInv, StatesOf
    <3>2. b \in Nat /\ d \in Int /\ d < 0 /\ -d \in Int
      BY <2>3, <3>1 DEF Inv, BalancesInv
    <3>3. /\ IsState(s) /\ s.userWallet = l.userWallet
          /\ s.epoch = l.epoch /\ s.version = l.version + 1
          /\ s.homeLedger.userBalance = l.homeLedger.userBalance + (-d)
      BY <3>1, <3>2, ReleaseIs
    <3>4. s \in states
      OBVIOUS
    <3> HIDE DEF b, d, s, l
    <3>5. s.homeLedger.userBalance = b - d /\ s.homeLedger.userBalance >= 0
      BY <3>1, <3>2, <3>3
    <3> QED
      BY <3>1, <3>3, <3>4, <3>5 DEF s, l, b, d
  <2>5. \A s \in states : s.userWallet \in paid
                          /\ s = ReleaseReceiverState(s.userWallet, sid, -q.entries[s.userWallet])
    BY <2>4
  <2> HIDE DEF states
  <2>6. Successors(states)
    BY <2>4, <2>5 DEF Successors
  <2>7. \A s \in states : rowLocks[s.userWallet] = r
    BY <2>2, <2>5
  <2>8. StoreUserState(states)
    BY <2>1 DEF CommitUpdate
  <2>9. /\ userBalances' \in [Users -> [balance : Nat, enforced : Nat]]
        /\ \A u \in Users : (\A s \in states : s.userWallet # u) =>
             userBalances'[u] = userBalances[u]
        /\ \A s \in states : userBalances'[s.userWallet].balance = s.homeLedger.userBalance
    BY <2>6, <2>8, StoreIs DEF Inv, BalancesInv
  <2>10. /\ userBalances \in [Users -> [balance : Nat, enforced : Nat]]
         /\ \A u \in paid : userBalances'[u].balance = userBalances[u].balance - q.entries[u]
         /\ \A u \in Users \ paid : userBalances'[u].balance = userBalances[u].balance
    <3>1. \A u \in paid : userBalances'[u].balance = userBalances[u].balance - q.entries[u]
      BY <2>4, <2>9
    <3>2. \A u \in Users \ paid : userBalances'[u].balance = userBalances[u].balance
      BY <2>5, <2>9
    <3> QED
      BY <3>1, <3>2 DEF Inv, BalancesInv
  <2>11. Held' = Held - SumOf(q.entries)
    <3> DEFINE f == [v \in Users |-> userBalances[v].balance]
               g == [v \in Users |-> userBalances'[v].balance]
    <3>1. /\ \A v \in Users : f[v] \in Int /\ g[v] \in Int
          /\ DOMAIN f = Users /\ DOMAIN g = Users
      BY <2>9, <2>10
    <3>2. Held = SumOver(f, Users) /\ Held' = SumOver(g, Users)
      BY DEF Held, SumOf
    <3>3. \A v \in Users : f[v] = userBalances[v].balance /\ g[v] = userBalances'[v].balance
      OBVIOUS
    <3> HIDE DEF f, g
    <3>4. CASE q.upd.intent = "operate"
      <4>1. \A v \in Users : f[v] = g[v]
        BY <2>3, <2>10, <3>3, <3>4
      <4>2. SumOver(f, Users) = SumOver(g, Users)
        BY <4>1, SumSame
      <4>3. SumOver(f, Users) \in Int
        <5> DEFINE p == Total(Pos(f, Users), Users)
                   n == Total(Neg(f, Users), Users)
        <5>1. SumOver(f, Users) = p - n /\ p \in Nat /\ n \in Nat
          BY <3>1, Constants, SumParts
        <5> HIDE DEF p, n
        <5> QED
          BY <5>1
      <4> QED
        BY <2>3, <3>2, <3>4, <4>2, <4>3
    <3>5. CASE q.upd.intent \in {"withdraw", "close"}
      <4>1. PICK e : e = q.entries
        OBVIOUS
      <4>2. \A v \in Users : g[v] \in Int /\ e[v] \in Int /\ f[v] = g[v] + e[v]
        <5>1. SUFFICES ASSUME NEW v \in Users
                       PROVE  g[v] \in Int /\ e[v] \in Int /\ f[v] = g[v] + e[v]
          OBVIOUS
        <5>2. g[v] \in Int /\ f[v] \in Int /\ e[v] \in Int
          BY <2>3, <3>1, <4>1
        <5>3. (v \in paid /\ g[v] = f[v] - e[v]) \/ (e[v] = 0 /\ g[v] = f[v])
          BY <2>3, <2>10, <3>3, <3>5, <4>1
        <5> QED
          BY <5>2, <5>3
      <4>3. /\ SumOver(g, Users) \in Int /\ SumOver(e, Users) \in Int
            /\ SumOver(f, Users) = SumOver(g, Users) + SumOver(e, Users)
        BY <4>2, Constants, SumAdd
      <4>4. SumOf(q.entries) = SumOver(e, Users)
        BY <2>3, <4>1 DEF SumOf
      <4> QED
        BY <3>2, <4>3, <4>4
    <3> QED
      BY <2>2, <3>4, <3>5
  <2> QED
    BY <1>2, <2>1, <2>2, <2>6, <2>7, <2>11, CommitUpdateStep
<1> QED
  BY <1>3, <1>4

\* A rebalance commits when its changes of the two sessions cancel out.
LEMMA CommitRebalanceStep ==
  ASSUME Inv, NEW r \in Requests, NEW q, requests[r] = q, q.kind = "rebalance",
         q.pc = "update", Len(q.entries) = Len(q.upds),
         sessionLocks[q.upds[Len(q.entries)].session] = Nil,
         UpdateMatches(q.upds[Len(q.entries)]), Conserved(q.entries),
         CommitRebalance(r), UNCHANGED sent
  PROVE  Inv'
<1> DEFINE ua == q.upds[1]
           ub == q.upds[2]
           ea == q.entries[1]
           eb == q.entries[2]
           x == ua.session
           y == ub.session
<1>0. 1 \in 1..2 /\ 2 \in 1..2 /\ 1 < 2 /\ 1..2 = {1, 2}
  OBVIOUS
<1>1. RebalanceOK(r, q)
  BY KindOf DEF Inv, RequestsOK
<1>2. /\ Len(q.entries) = 2 /\ DOMAIN q.upds = 1..2 /\ x # y
      /\ IsUpdate(ua) /\ IsUpdate(ub) /\ Watched(ua) /\ Watched(ub)
      /\ Checked(ua) /\ Checked(ub) /\ Ready(ua, ea) /\ Ready(ub, eb)
      /\ sessionLocks[x] = r /\ UpdateMatches(ua)
      /\ sessionLocks[y] = Nil /\ UpdateMatches(ub)
  BY <1>0, <1>1 DEF RebalanceOK
<1>3. x \in Sessions /\ y \in Sessions /\ ea \in [Users -> Int] /\ eb \in [Users -> Int]
  BY <1>2 DEF IsUpdate, Ready
<1>4. PICK ra, rb, la, lb : /\ ra = UpdatedRow(ua) /\ rb = UpdatedRow(ub)
                            /\ la = Sum(appLedger[x], ea) /\ lb = Sum(appLedger[y], eb)
  OBVIOUS
<1>5. /\ ra \in AppSessionRow /\ ra.version > appSessions[x].version
      /\ la \in [Users -> Int] /\ QuorumWithin(x)
      /\ \A u \in Users : /\ la[u] = appLedger[x][u] + ea[u] /\ la[u] >= 0
                          /\ u \notin Participants(x) => la[u] = 0
      /\ ra.status = "closed" => \A u \in Users : la[u] = 0
  BY <1>2, <1>4, SessionAfter
<1>6. /\ rb \in AppSessionRow /\ rb.version > appSessions[y].version
      /\ lb \in [Users -> Int] /\ QuorumWithin(y)
      /\ \A u \in Users : /\ lb[u] = appLedger[y][u] + eb[u] /\ lb[u] >= 0
                          /\ u \notin Participants(y) => lb[u] = 0
      /\ rb.status = "closed" => \A u \in Users : lb[u] = 0
  BY <1>2, <1>4, SessionAfter
<1>7. /\ appSessions'[x] = ra /\ appSessions'[y] = rb
      /\ appLedger'[x] = la /\ appLedger'[y] = lb
      /\ \A s \in Sessions \ {x, y} : /\ appSessions'[s] = appSessions[s]
                                      /\ appLedger'[s] = appLedger[s]
      /\ DOMAIN appSessions' = Sessions /\ DOMAIN appLedger' = Sessions
  <2> DEFINE Index(s) == {i \in DOMAIN q.upds : q.upds[i].session = s}
  <2>1. /\ Index(x) = {1} /\ Index(y) = {2}
        /\ \A s \in Sessions \ {x, y} : Index(s) = {}
    BY <1>0, <1>2
  <2>2. (CHOOSE i \in {1} : TRUE) = 1 /\ (CHOOSE i \in {2} : TRUE) = 2
    OBVIOUS
  <2>3. /\ appSessions' = [s \in Sessions |->
                             IF Index(s) = {} THEN appSessions[s]
                             ELSE UpdatedRow(q.upds[CHOOSE i \in Index(s) : TRUE])]
        /\ appLedger' = [s \in Sessions |->
                           IF Index(s) = {} THEN appLedger[s]
                           ELSE Sum(appLedger[s], q.entries[CHOOSE i \in Index(s) : TRUE])]
    BY DEF CommitRebalance
  <2> HIDE DEF Index
  <2>4. /\ appSessions'[x] = UpdatedRow(q.upds[CHOOSE i \in Index(x) : TRUE])
        /\ appLedger'[x] = Sum(appLedger[x], q.entries[CHOOSE i \in Index(x) : TRUE])
    BY <1>3, <2>1, <2>3
  <2>5. /\ appSessions'[y] = UpdatedRow(q.upds[CHOOSE i \in Index(y) : TRUE])
        /\ appLedger'[y] = Sum(appLedger[y], q.entries[CHOOSE i \in Index(y) : TRUE])
    BY <1>3, <2>1, <2>3
  <2>6. \A s \in Sessions \ {x, y} : /\ appSessions'[s] = appSessions[s]
                                     /\ appLedger'[s] = appLedger[s]
    BY <2>1, <2>3
  <2>7. DOMAIN appSessions' = Sessions /\ DOMAIN appLedger' = Sessions
    BY <2>3
  <2> QED
    BY <1>4, <2>1, <2>2, <2>4, <2>5, <2>6, <2>7
<1>8. Release(r) /\ UNCHANGED <<channelStates, userBalances, apps, sent>>
  BY DEF CommitRebalance
<1> HIDE DEF ua, ub, ea, eb, x, y
<1>9. /\ appSessions' \in [Sessions -> AppSessionRow \cup {Nil}]
      /\ appLedger' \in [Sessions -> [Users -> Int]]
  <2>1. \A s \in Sessions : /\ appSessions[s] \in AppSessionRow \cup {Nil}
                            /\ appLedger[s] \in [Users -> Int]
    BY DEF Inv, TypeOK
  <2>2. \A s \in Sessions : appSessions'[s] \in AppSessionRow \cup {Nil}
    BY <1>5, <1>6, <1>7, <2>1
  <2>3. \A s \in Sessions : appLedger'[s] \in [Users -> Int]
    BY <1>5, <1>6, <1>7, <2>1
  <2>4. PICK f, g : f = appSessions' /\ g = appLedger'
    OBVIOUS
  <2>5. f = [s \in Sessions |-> f[s]] /\ g = [s \in Sessions |-> g[s]]
    BY <2>4 DEF CommitRebalance
  <2> QED
    BY <2>2, <2>3, <2>4, <2>5
<1>10. \A u \in Users : Last(u)' = Last(u) /\ StatesOf(u)' = StatesOf(u)
  BY <1>8 DEF Last, GetLastUserState, StatesOf
<1>11. StatesInv'
  BY <1>8, <1>10 DEF StatesInv, Inv
<1>12. SessionsInv'
  <2> SUFFICES ASSUME NEW s \in Sessions
               PROVE  /\ \A u \in Users : /\ appLedger'[s][u] >= 0
                                          /\ u \notin Participants(s) => appLedger'[s][u] = 0
                      /\ appSessions'[s] # Nil => QuorumWithin(s)
                      /\ appSessions'[s] # Nil /\ appSessions'[s].status = "closed" =>
                           \A u \in Users : appLedger'[s][u] = 0
    BY DEF SessionsInv, QuorumWithin
  <2>1. CASE s = x
    BY <1>5, <1>7, <2>1
  <2>2. CASE s = y
    BY <1>6, <1>7, <2>2
  <2>3. CASE s \notin {x, y}
    <3>1. appSessions'[s] = appSessions[s] /\ appLedger'[s] = appLedger[s]
      BY <1>7, <2>3
    <3> QED
      BY <3>1 DEF SessionsInv, Inv
  <2> QED
    BY <2>1, <2>2, <2>3
<1>13. BalancesInv'
  <2> DEFINE S(l) == SumOf([s \in Sessions |-> SumOf(l[s])])
  <2>1. PICK a, b, m : /\ a = appLedger /\ b = appLedger'
                       /\ m = [s \in Sessions |-> IF s = x THEN la ELSE appLedger[s]]
    OBVIOUS
  <2>2. /\ a \in [Sessions -> [Users -> Int]] /\ b \in [Sessions -> [Users -> Int]]
    BY <1>9, <2>1 DEF Inv, TypeOK
  <2>3. m \in [Sessions -> [Users -> Int]]
    BY <1>5, <2>1, <2>2
  <2>4. /\ \A u \in Users : m[x][u] = a[x][u] + ea[u]
        /\ \A s \in Sessions \ {x} : m[s] = a[s]
    BY <1>3, <1>5, <2>1
  <2>5. /\ \A u \in Users : b[y][u] = m[y][u] + eb[u]
        /\ \A s \in Sessions \ {y} : b[s] = m[s]
    BY <1>2, <1>3, <1>6, <1>7, <2>1 DEF x, y
  <2>6. S(a) \in Int /\ SumOf(ea) \in Int /\ S(m) = S(a) + SumOf(ea)
    BY <1>3, <2>2, <2>3, <2>4, LedgerSum
  <2>7. SumOf(eb) \in Int /\ S(b) = S(m) + SumOf(eb)
    BY <1>3, <2>2, <2>3, <2>5, LedgerSum
  <2>8. SumOf(ea) + SumOf(eb) = 0
    <3> DEFINE f == [i \in DOMAIN q.entries |-> SumOf(q.entries[i])]
    <3>1. DOMAIN q.entries = {1, 2}
      <4>1. q.entries \in Seq([Users -> Int]) /\ Len(q.entries) = 2
        BY <1>1, <1>2 DEF RebalanceOK
      <4> QED
        BY <1>0, <4>1
    <3>2. f[1] = SumOf(ea) /\ f[2] = SumOf(eb) /\ DOMAIN f = {1, 2} /\ SumOf(f) = 0
      BY <3>1 DEF Conserved, ea, eb
    <3> HIDE DEF f
    <3>3. 1 # 2 /\ f[1] \in Int /\ f[2] \in Int
      BY <2>6, <2>7, <3>2
    <3>4. SumOver(f, {1, 2}) = f[1] + f[2]
      BY <3>3, SumTwo
    <3> QED
      BY <3>2, <3>4 DEF SumOf
  <2> HIDE DEF S
  <2>9. S(b) = S(a)
    BY <2>6, <2>7, <2>8
  <2>10. SumOf([s \in Sessions |-> SumOf(appLedger'[s])]) = SumOf([s \in Sessions |-> SumOf(appLedger[s])])
    BY <2>1, <2>9 DEF S
  <2> QED
    BY <1>8, <2>10 DEF BalancesInv, Inv
<1>14. \A s \in Sessions :
        \/ appSessions'[s] = appSessions[s] /\ appLedger'[s] = appLedger[s]
        \/ appSessions[s] = Nil
        \/ /\ sessionLocks[s] \in {Nil, r} /\ appSessions'[s] # Nil
           /\ appSessions'[s].version > appSessions[s].version
  <2>1. sessionLocks[x] = r /\ sessionLocks[y] = Nil
    BY <1>2 DEF x, y
  <2> QED
    BY <1>5, <1>6, <1>7, <2>1, Constants
<1> QED
  BY <1>8, <1>9, <1>10, <1>11, <1>12, <1>13, <1>14, CommitKeeps

\* The steps of updating a rebalanced session.
LEMMA UpdateRebalancedStep ==
  ASSUME Inv, NEW r \in Requests, UpdateRebalanced(r)
  PROVE  Inv'
<1>1. PICK q : requests[r] = q
  OBVIOUS
<1> DEFINE upd == q.upds[Len(q.entries)]
           last == Len(q.entries) = Len(q.upds)
<1>2. /\ q.kind = "rebalance" /\ q.pc = "update" /\ sessionLocks[upd.session] = Nil
      /\ UNCHANGED sent
      /\ \/ Rollback(r)
         \/ last /\ UpdateMatches(upd) /\ Conserved(q.entries) /\ CommitRebalance(r)
         \/ /\ ~last /\ UpdateMatches(upd)
            /\ sessionLocks' = [sessionLocks EXCEPT ![upd.session] = r]
            /\ Goto(r, "begin")
            /\ UNCHANGED <<tables, rowLocks, appTables>>
  BY <1>1 DEF UpdateRebalanced
<1>3. CASE Rollback(r)
  BY <1>2, <1>3, RollbackStep
<1>4. CASE last /\ UpdateMatches(upd) /\ Conserved(q.entries) /\ CommitRebalance(r)
  BY <1>1, <1>2, <1>4, CommitRebalanceStep
<1>5. CASE /\ ~last /\ UpdateMatches(upd)
           /\ sessionLocks' = [sessionLocks EXCEPT ![upd.session] = r]
           /\ Goto(r, "begin")
           /\ UNCHANGED <<tables, rowLocks, appTables>>
  BY <1>1, <1>2, <1>5, LockRebalancedStep
<1> QED
  BY <1>2, <1>3, <1>4, <1>5

-------------------------------------------------------------------------------
(* The other steps, and the induction *)

\* Keys and stakes change none of this.
LEMMA StillStep ==
  ASSUME Inv, UNCHANGED books, UNCHANGED <<rowLocks, sessionLocks, requests, apps, sent>>
  PROVE  Inv'
<1>1. UNCHANGED <<channelStates, userBalances, appSessions, appLedger>>
  BY DEF books
<1>2. TypeOK'
  BY <1>1 DEF Inv, TypeOK
<1>3. RequestsOK'
  <2>1. SUFFICES ASSUME NEW r \in Requests
                 PROVE  RequestOK(r, requests[r])'
    BY DEF Inv, RequestsOK
  <2>2. PICK q : requests[r] = q
    OBVIOUS
  <2>3. RequestOK(r, q) /\ requests'[r] = q
    BY <2>2 DEF Inv, RequestsOK
  <2>4. /\ \A upd : /\ (Watched(upd)' <=> Watched(upd)) /\ (Checked(upd)' <=> Checked(upd))
                    /\ UpdateMatches(upd)' <=> UpdateMatches(upd)
        /\ \A upd, entries : Ready(upd, entries)' <=> Ready(upd, entries)
        /\ \A s : s.userWallet \in Users => (Follows(s)' <=> Follows(s))
    BY QuietFacts
  <2>5. RegisterOK(q) => RegisterOK(q)'
    BY DEF RegisterOK
  <2>6. CreateOK(q) => CreateOK(q)'
    BY DEF CreateOK
  <2>7. DepositOK(r, q) => DepositOK(r, q)'
    BY <2>4 DEF DepositOK, IsState
  <2>8. StateOK(r, q) => StateOK(r, q)'
    BY <2>4 DEF StateOK
  <2>9. RebalanceOK(r, q) => RebalanceOK(r, q)'
    BY <2>4 DEF RebalanceOK
  <2>10. RequestOK(r, q)'
    BY <2>3, <2>5, <2>6, <2>7, <2>8, <2>9 DEF RequestOK
  <2> QED
    BY <2>3, <2>10
<1> QED
  BY <1>2, <1>3, QuietBooks DEF Inv

\* Every step keeps the invariant.
LEMMA InvStep ==
  ASSUME Inv, [Next]_vars
  PROVE  Inv'
<1>1. ASSUME NEW r \in Requests, ClientStep(r)
      PROVE  Inv'
  BY <1>1, ClientSteps
<1>2. ASSUME NEW r \in Requests, ApiStep(r)
      PROVE  Inv'
  BY <1>2, RegisterSteps, BeginCreateStep, CommitCreateStep, BeginDepositStep,
     LockDepositStep, CommitDepositStep, BeginAppStateStep, ReadAllocationsStep,
     LockReceiverStep, CommitAppStateStep, ReadRebalancedStep, UpdateRebalancedStep,
     AbortStep DEF ApiStep
<1>3. ASSUME NEW u, NEW k, SubmitSessionKeyState(u, k)
      PROVE  Inv'
  BY <1>3, StillStep DEF SubmitSessionKeyState, books, tables
<1>4. ASSUME NEW x, ExpireKey(x)
      PROVE  Inv'
  BY <1>4, StillStep DEF ExpireKey, books, tables
<1>5. ASSUME NEW u, HandleLockingEvent(u)
      PROVE  Inv'
  BY <1>5, StillStep DEF HandleLockingEvent, books, tables
<1>6. CASE UNCHANGED vars
  BY <1>6, StillStep DEF vars, books, tables, appTables
<1> QED
  BY <1>1, <1>2, <1>3, <1>4, <1>5, <1>6 DEF Next

\* The states of the initial deposits and commitments.
LEMMA FirstStates ==
  ASSUME NEW u \in Users
  PROVE  /\ LET s == FirstDeposit(u) IN
            /\ IsState(s) /\ s.userWallet = u /\ s.epoch = 0 /\ s.version = 1
            /\ s.homeLedger.userBalance = InitialBalance /\ s.transition.type = "home_deposit"
         /\ LET s == FirstCommit(u) IN
            /\ IsState(s) /\ s.userWallet = u /\ s.epoch = 0 /\ s.version = 2
            /\ s.homeLedger.userBalance = InitialBalance - 1 /\ s.transition.type = "commit"
            /\ s.transition.accountId = Funded
<1> DEFINE v == NewVoidState(u)
           n == NextState(v)
           c == ApplyChannelCreation(n, Chain, Token, 1)
           d == ApplyHomeDepositTransition(c, InitialBalance)
           s == FirstDeposit(u)
           p == ApplyCommitTransition(NextState(s), Funded, 1)
           t == FirstCommit(u)
<1>1. /\ DOMAIN v = StateFields /\ v.userWallet = u /\ v.epoch = 0 /\ v.version = 0
      /\ v.homeLedger = ZeroLedger(0, NoToken) /\ v.transition.type = "void"
      /\ v.escrowLedger = Nil
  BY DEF NewVoidState, StateFields, VoidTransition
<1>2. n = [v EXCEPT !.transition = VoidTransition, !.version = v.version + 1,
                    !.userSig = FALSE, !.nodeSig = FALSE]
  <2> HIDE DEF v
  <2> QED
    BY <1>1 DEF NextState, IsFinal
<1> HIDE DEF v
<1>3. /\ DOMAIN n = StateFields /\ n.userWallet = u /\ n.epoch = 0 /\ n.version = 1
      /\ n.homeLedger = ZeroLedger(0, NoToken)
  <2> HIDE DEF n
  <2> QED
    BY <1>1, <1>2 DEF StateFields
<1> HIDE DEF n
<1>4. /\ DOMAIN c = StateFields /\ c.userWallet = u /\ c.epoch = 0 /\ c.version = 1
      /\ c.homeLedger = [[n.homeLedger EXCEPT !.tokenAddress = Token]
                         EXCEPT !.blockchainId = Chain]
  BY <1>3 DEF ApplyChannelCreation, StateFields
<1>5. DOMAIN c.homeLedger = LedgerFields /\ c.homeLedger.userBalance = 0
  <2>1. /\ DOMAIN n.homeLedger = LedgerFields /\ n.homeLedger.userBalance = 0
    BY <1>3 DEF ZeroLedger, LedgerFields
  <2> QED
    BY <1>4, <2>1 DEF LedgerFields
<1> HIDE DEF c
<1>6. /\ DOMAIN d = StateFields /\ d.userWallet = u /\ d.epoch = 0 /\ d.version = 1
      /\ d.homeLedger = [[c.homeLedger EXCEPT !.userNetFlow = @ + InitialBalance]
                         EXCEPT !.userBalance = @ + InitialBalance]
      /\ d.transition = SenderTransition(c, "home_deposit", c.homeChannelId, InitialBalance)
  BY <1>4 DEF ApplyHomeDepositTransition, StateFields
<1>7. /\ DOMAIN d.homeLedger = LedgerFields /\ d.homeLedger.userBalance = InitialBalance
      /\ d.transition.type = "home_deposit"
  BY <1>5, <1>6, Constants DEF LedgerFields, SenderTransition
<1> HIDE DEF d
<1>8. s = [d EXCEPT !.userSig = TRUE, !.nodeSig = TRUE]
  BY DEF FirstDeposit, Signed, d, c, n, v
<1> HIDE DEF s
<1>9. /\ DOMAIN s = StateFields /\ s.userWallet = u /\ s.epoch = 0 /\ s.version = 1
      /\ s.homeLedger = d.homeLedger /\ s.transition = d.transition
  BY <1>6, <1>8 DEF StateFields
<1>10. IsState(s)
  BY <1>7, <1>9, Constants DEF IsState
<1>11. /\ IsState(p) /\ p.userWallet = u /\ p.epoch = 0 /\ p.version = 2
       /\ p.homeLedger.userBalance = InitialBalance - 1
       /\ p.transition.type = "commit" /\ p.transition.accountId = Funded
  <2>1. /\ IsState(p) /\ p.userWallet = s.userWallet /\ p.epoch = s.epoch
        /\ p.version = s.version + 1
        /\ p.homeLedger.userBalance = s.homeLedger.userBalance - 1
        /\ p.transition.type = "commit" /\ p.transition.accountId = Funded
    BY <1>10, CommitIs
  <2> HIDE DEF p
  <2> QED
    BY <1>7, <1>9, <2>1
<1>12. t = [p EXCEPT !.userSig = TRUE, !.nodeSig = TRUE]
  BY DEF FirstCommit, Signed, s
<1> HIDE DEF p, t
<1>13. /\ DOMAIN t = StateFields /\ t.userWallet = u /\ t.epoch = 0 /\ t.version = 2
       /\ t.homeLedger = p.homeLedger /\ t.transition = p.transition
  BY <1>11, <1>12 DEF IsState, StateFields
<1>14. IsState(t)
  BY <1>11, <1>13 DEF IsState
<1> QED
  BY <1>7, <1>9, <1>10, <1>11, <1>13, <1>14 DEF s, t

\* The initial states.
LEMMA InitInv ==
  ASSUME Init
  PROVE  Inv
<1>1. PICK past \in Pasts :
        LET committed == IF past = "running" THEN Participants(Funded) ELSE {}
            running == IF past = "running" THEN Running ELSE {}
        IN
        /\ channelStates = UNION {PastStates(past, u) : u \in Users}
        /\ userBalances = [u \in Users |->
                             [balance |-> InitialBalance - (IF u \in committed THEN 1 ELSE 0),
                              enforced |-> InitialBalance]]
        /\ rowLocks = [u \in Users |-> Nil]
        /\ apps = IF past = "running" THEN Applications ELSE {}
        /\ appSessions = [sid \in Sessions |->
                            IF sid \notin running THEN Nil
                            ELSE [status |-> "open",
                                  version |-> IF sid = Funded THEN 1 + Cardinality(committed)
                                              ELSE 1]]
        /\ appLedger = [sid \in Sessions |->
                          [u \in Users |-> IF sid = Funded /\ u \in committed THEN 1 ELSE 0]]
        /\ sessionLocks = [sid \in Sessions |-> Nil]
        /\ requests = [r \in Requests |-> Idle]
        /\ sent = 0
  BY DEF Init
<1> DEFINE committed == IF past = "running" THEN Participants(Funded) ELSE {}
           running == IF past = "running" THEN Running ELSE {}
<1>2. /\ committed \subseteq Users /\ running \subseteq Sessions /\ Funded \in Sessions
      /\ \A u \in Users : u \in committed => u \in Participants(Funded)
      /\ \A sid \in running : QuorumWithin(sid)
      /\ InitialBalance \in Nat /\ InitialBalance >= 1
  BY Constants, RunningAssumption DEF QuorumWithin
<1>3. Cardinality(committed) \in Nat
  <2>1. IsFiniteSet(committed)
    BY <1>2, Constants, FS_Subset
  <2> QED
    BY <2>1, FS_CardinalityType
<1>4. ASSUME NEW u \in Users
      PROVE  PastStates(past, u) = IF u \in committed THEN {FirstDeposit(u), FirstCommit(u)}
                                   ELSE {FirstDeposit(u)}
  BY <1>2 DEF PastStates
<1> HIDE DEF committed, running
<1>5. /\ appLedger \in [Sessions -> [Users -> Int]]
      /\ \A u \in Users : appLedger[Funded][u] = IF u \in committed THEN 1 ELSE 0
      /\ \A sid \in Sessions \ {Funded}, u \in Users : appLedger[sid][u] = 0
  BY <1>1, <1>2 DEF committed
<1>6. /\ appSessions \in [Sessions -> AppSessionRow \cup {Nil}]
      /\ \A sid \in Sessions : appSessions[sid] # Nil =>
           sid \in running /\ appSessions[sid].status = "open"
  <2> DEFINE row(sid) == [status |-> "open",
                          version |-> IF sid = Funded THEN 1 + Cardinality(committed) ELSE 1]
  <2>1. \A sid \in Sessions : row(sid) \in AppSessionRow /\ row(sid).status = "open"
    BY <1>3 DEF AppSessionRow
  <2>2. appSessions = [sid \in Sessions |-> IF sid \notin running THEN Nil ELSE row(sid)]
    BY <1>1 DEF committed, running
  <2> HIDE DEF row
  <2> QED
    BY <2>1, <2>2
<1>7. TypeOK
  BY <1>1, <1>5, <1>6, AppSessionsAssumption DEF TypeOK, Idle
<1>8. RequestsOK
  BY <1>1 DEF RequestsOK, RequestOK
<1>9. SessionsInv
  <2>1. \A sid \in Sessions, u \in Users :
          appLedger[sid][u] >= 0 /\ (u \notin Participants(sid) => appLedger[sid][u] = 0)
    <3>1. SUFFICES ASSUME NEW sid \in Sessions, NEW u \in Users
                   PROVE  /\ appLedger[sid][u] >= 0
                          /\ u \notin Participants(sid) => appLedger[sid][u] = 0
      OBVIOUS
    <3>2. CASE sid = Funded
      BY <1>2, <1>5, <3>2
    <3>3. CASE sid # Funded
      BY <1>5, <3>3
    <3> QED
      BY <3>2, <3>3
  <2> QED
    BY <1>2, <1>6, <2>1 DEF SessionsInv
<1>10. \A u \in Users : userBalances[u].balance = InitialBalance - (IF u \in committed THEN 1 ELSE 0)
  BY <1>1 DEF committed
<1>11. StatesInv
  <2>1. ASSUME NEW s \in channelStates
        PROVE  \E u \in Users : /\ s \in PastStates(past, u) /\ IsState(s)
                                /\ s.userWallet = u
    <3>1. PICK u \in Users : s \in PastStates(past, u)
      BY <1>1
    <3>2. s \in {FirstDeposit(u), FirstCommit(u)}
      BY <1>4, <3>1
    <3> QED
      BY <3>1, <3>2, FirstStates
  <2>2. ASSUME NEW u \in Users
        PROVE  StatesOf(u) = PastStates(past, u)
    <3>1. PastStates(past, u) \subseteq StatesOf(u)
      <4>1. SUFFICES ASSUME NEW s \in PastStates(past, u)
                     PROVE  s \in channelStates /\ s.userWallet = u
        BY DEF StatesOf
      <4>2. s \in {FirstDeposit(u), FirstCommit(u)}
        BY <1>4
      <4>3. s.userWallet = u
        BY <4>2, FirstStates
      <4> QED
        BY <1>1, <4>3
    <3>2. StatesOf(u) \subseteq PastStates(past, u)
      BY <2>1 DEF StatesOf
    <3> QED
      BY <3>1, <3>2
  <2>3. ASSUME NEW u \in Users
        PROVE  /\ Last(u) \in StatesOf(u)
               /\ \A s \in StatesOf(u) \ {Last(u)} : Before(s, Last(u))
               /\ userBalances[u].balance = Last(u).homeLedger.userBalance
    <3> DEFINE d == FirstDeposit(u)
               c == FirstCommit(u)
    <3>1. /\ IsState(d) /\ d.epoch = 0 /\ d.version = 1
          /\ d.homeLedger.userBalance = InitialBalance
          /\ IsState(c) /\ c.epoch = 0 /\ c.version = 2
          /\ c.homeLedger.userBalance = InitialBalance - 1
      BY FirstStates
    <3>2. StatesOf(u) = IF u \in committed THEN {d, c} ELSE {d}
      BY <1>4, <2>2
    <3> HIDE DEF d, c
    <3>3. PICK l : l = IF u \in committed THEN c ELSE d
      OBVIOUS
    <3>4. /\ l \in StatesOf(u) /\ (\A s \in StatesOf(u) : IsState(s))
          /\ \A s \in StatesOf(u) \ {l} : Before(s, l)
      BY <3>1, <3>2, <3>3 DEF Before
    <3>5. Last(u) = l
      BY <3>4, LastIs
    <3>6. l.homeLedger.userBalance = InitialBalance - (IF u \in committed THEN 1 ELSE 0)
      BY <1>2, <3>1, <3>3
    <3> QED
      BY <1>10, <3>4, <3>5, <3>6
  <2> QED
    BY <2>1, <2>3 DEF StatesInv
<1>12. BalancesInv
  <2>1. userBalances \in [Users -> [balance : Nat, enforced : Nat]]
    <3>1. \A u \in Users : InitialBalance - (IF u \in committed THEN 1 ELSE 0) \in Nat
      BY <1>2
    <3> QED
      BY <1>1, <1>2, <3>1 DEF committed
  <2> DEFINE f == [u \in Users |-> userBalances[u].balance]
             k == [u \in Users |-> InitialBalance]
  <2>2. PICK z, l, e : /\ z = [sid \in Sessions |-> [u \in Users |-> 0]] /\ l = appLedger
                       /\ e = appLedger[Funded]
    OBVIOUS
  <2>3. /\ z \in [Sessions -> [Users -> Int]] /\ l \in [Sessions -> [Users -> Int]]
        /\ e \in [Users -> Int]
        /\ \A u \in Users : l[Funded][u] = z[Funded][u] + e[u]
        /\ \A x \in Sessions \ {Funded} : l[x] = z[x]
    <3>1. z \in [Sessions -> [Users -> Int]] /\ l \in [Sessions -> [Users -> Int]]
          /\ e \in [Users -> Int]
      BY <1>2, <1>5, <2>2
    <3>2. \A u \in Users : l[Funded][u] = z[Funded][u] + e[u]
      BY <1>2, <2>2, <3>1
    <3>3. ASSUME NEW x \in Sessions \ {Funded}
          PROVE  l[x] = z[x]
      <4>1. \A u \in Users : l[x][u] = z[x][u]
        BY <1>5, <2>2
      <4>2. l[x] \in [Users -> Int] /\ z[x] \in [Users -> Int]
        BY <3>1
      <4> QED
        BY <4>1, <4>2
    <3> QED
      BY <3>1, <3>2, <3>3
  <2>4. LET g == [x \in Sessions |-> SumOf(z[x])]
            h == [x \in Sessions |-> SumOf(l[x])]
        IN  SumOf(g) \in Int /\ SumOf(e) \in Int /\ SumOf(h) = SumOf(g) + SumOf(e)
    BY <1>2, <2>3, LedgerSum
  <2>5. SumOf([x \in Sessions |-> SumOf(z[x])]) = 0
    <3> DEFINE g == [x \in Sessions |-> SumOf(z[x])]
    <3>1. ASSUME NEW x \in Sessions
          PROVE  SumOf(z[x]) = 0
      <4>1. DOMAIN z[x] = Users /\ \A u \in Users : z[x][u] = 0
        BY <2>2
      <4>2. SumOver(z[x], Users) = 0
        BY <4>1, Constants, SumZero
      <4> QED
        BY <4>1, <4>2 DEF SumOf
    <3>2. DOMAIN g = Sessions /\ \A x \in Sessions : g[x] = 0
      BY <3>1
    <3> HIDE DEF g
    <3>3. SumOver(g, Sessions) = 0
      BY <3>2, Constants, SumZero
    <3> QED
      BY <3>2, <3>3 DEF SumOf, g
  <2>6. SumOf([sid \in Sessions |-> SumOf(appLedger[sid])]) = SumOf(e) /\ SumOf(e) \in Int
    BY <2>2, <2>4, <2>5
  <2>7. /\ \A u \in Users : f[u] \in Int /\ e[u] \in Int /\ k[u] = f[u] + e[u]
        /\ DOMAIN f = Users /\ DOMAIN e = Users /\ \A u \in Users : k[u] = InitialBalance
    BY <1>2, <1>5, <1>10, <2>2, <2>3
  <2> HIDE DEF f, k
  <2>8. SumOver(k, Users) = SumOver(f, Users) + SumOver(e, Users)
    BY <2>7, Constants, SumAdd
  <2>9. SumOver(k, Users) = InitialBalance * Cardinality(Users)
    BY <1>2, <2>7, Constants, SumConstant
  <2>10. SumOf(f) + SumOf(e) = InitialBalance * Cardinality(Users)
    BY <2>7, <2>8, <2>9 DEF SumOf
  <2> QED
    BY <2>1, <2>6, <2>10 DEF BalancesInv, f
<1> QED
  BY <1>7, <1>8, <1>9, <1>11, <1>12 DEF Inv

\* The inductive invariant holds throughout.
LEMMA Invariance == Spec => []Inv
<1>1. Init => Inv
  BY InitInv
<1>2. Inv /\ [Next]_vars => Inv'
  BY InvStep
<1> QED
  BY <1>1, <1>2, PTL DEF Spec

\* The tables of sessions, ledgers and locks keep their types: a session that
\* exists is open or closed, and only requests in flight hold row locks
\* (app_sessions_v1, UpdateAppSession).
THEOREM TypeCorrect == Spec => []TypeOK
<1>1. Inv => TypeOK
  BY DEF Inv
<1> QED
  BY <1>1, Invariance, PTL

\* Money only moves between channels and sessions, however many deposits,
\* withdrawals, closings and rebalances run at a time (UpdateAppSession,
\* issueReleaseReceiverState, RecordLedgerEntry).
THEOREM FundsAreConserved == Spec => []FundsConserved
<1>1. Inv => FundsConserved
  BY DEF Inv, BalancesInv, SessionsInv, FundsConserved
<1> QED
  BY <1>1, Invariance, PTL

\* A closed session holds no money, whatever was under way when it closed
\* (handleCloseIntent, SubmitDepositState, RebalanceAppSessions).
THEOREM ClosedAreEmpty == Spec => []ClosedSessionsAreEmpty
<1>1. Inv => ClosedSessionsAreEmpty
  BY DEF Inv, SessionsInv, ClosedSessionsAreEmpty, Holders
<1> QED
  BY <1>1, Invariance, PTL

\* The participants of an open session can together close it and take out
\* all that is in it (CreateAppSession, verifyQuorum, handleCloseIntent).
THEOREM OpenCanClose == Spec => []SessionsCanClose
<1>1. Inv => SessionsCanClose
  <2> SUFFICES ASSUME Inv, NEW sid \in Sessions, appSessions[sid] # Nil
               PROVE  /\ verifyQuorum(sid, Participants(sid))
                      /\ IntentAllowed([session |-> sid, intent |-> "close",
                           allocations |-> [u \in Participants(sid) |-> appLedger[sid][u]]], 0)
    BY DEF SessionsCanClose
  <2> DEFINE P == Participants(sid)
             new == [u \in P |-> appLedger[sid][u]]
             upd == [session |-> sid, intent |-> "close", allocations |-> new]
  <2>1. P \subseteq Users
    BY Constants
  <2>2. {Recover(s, sid) : s \in P} = P
    BY <2>1 DEF Recover
  <2>3. Weight(sid, P) >= Definition[sid].quorum
    BY DEF Inv, SessionsInv, QuorumWithin
  <2>4. verifyQuorum(sid, P)
    BY <2>2, <2>3 DEF verifyQuorum
  <2>5. \A u \in Users : appLedger[sid][u] >= 0 /\ (u \notin P => appLedger[sid][u] = 0)
    BY DEF Inv, SessionsInv
  <2>6. ValidAllocations(sid, new) /\ CloseAllowed(appLedger[sid], new)
    BY <2>1, <2>5 DEF ValidAllocations, CloseAllowed, Holders
  <2>7. upd.session = sid /\ upd.intent = "close" /\ upd.allocations = new
    OBVIOUS
  <2> HIDE DEF new, upd
  <2>8. IntentAllowed(upd, 0)
    BY <2>6, <2>7 DEF IntentAllowed
  <2> QED
    BY <2>4, <2>8 DEF upd, new
<1> QED
  BY <1>1, Invariance, PTL

-------------------------------------------------------------------------------
(* Session keys *)

\* The latest version of some rows is that of one of them, if there is any.
LEMMA LatestVersionIs ==
  ASSUME NEW n \in Nat, NEW rows, \A x \in rows : x.version \in 1..n
  PROVE  /\ LatestVersion(rows) \in 0..n
         /\ \A x \in rows : x.version <= LatestVersion(rows)
         /\ rows # {} => \E x \in rows : x.version = LatestVersion(rows)
<1> DEFINE V == {x.version : x \in rows} \cup {0}
<1>1. V \subseteq 0..n /\ V # {}
  OBVIOUS
<1>2. \E v \in V : \A w \in V : w <= v
  <2> HIDE DEF V
  <2> QED
    BY <1>1, GreatestNatural
<1>3. LatestVersion(rows) = Max(V)
  BY DEF LatestVersion
<1>4. Max(V) \in V /\ \A w \in V : w <= Max(V)
  <2> HIDE DEF V
  <2>1. PICK v \in V : \A w \in V : w <= v
    BY <1>2
  <2>2. \A w \in V : v >= w
    BY <2>1, <1>1
  <2>3. Max(V) \in V /\ \A w \in V : Max(V) >= w
    BY <2>2 DEF Max
  <2> QED
    BY <1>1, <2>3
<1>5. rows # {} => Max(V) # 0
  <2>1. ASSUME NEW x \in rows
        PROVE  Max(V) # 0
    <3>1. x.version \in V /\ x.version \in 1..n
      OBVIOUS
    <3>2. x.version <= Max(V) /\ Max(V) \in 0..n
      BY <1>1, <1>4, <3>1
    <3> HIDE DEF V
    <3> QED
      BY <3>1, <3>2
  <2> QED
    BY <2>1
<1>6. Max(V) # 0 => \E x \in rows : x.version = Max(V)
  BY <1>4
<1> QED
  BY <1>1, <1>3, <1>4, <1>5, <1>6

\* A client's step only sends a request.
LEMMA ClientSends ==
  ASSUME NEW r, ClientStep(r)
  PROVE  UNCHANGED <<tables, rowLocks, appTables, sessionLocks>>
<1>1. ASSUME NEW q, Send(r, q)
      PROVE  UNCHANGED <<tables, rowLocks, appTables, sessionLocks>>
  BY <1>1 DEF Send
<1>2. ASSUME NEW a, RegisterApp(r, a)
      PROVE  UNCHANGED <<tables, rowLocks, appTables, sessionLocks>>
  BY <1>1, <1>2 DEF RegisterApp
<1>3. ASSUME NEW sid, NEW sigs, CreateAppSession(r, sid, sigs)
      PROVE  UNCHANGED <<tables, rowLocks, appTables, sessionLocks>>
  BY <1>1, <1>3 DEF CreateAppSession
<1>4. ASSUME NEW u, NEW sid, NEW sigs, SubmitAppSessionDeposit(r, u, sid, sigs)
      PROVE  UNCHANGED <<tables, rowLocks, appTables, sessionLocks>>
  BY <1>1, <1>4 DEF SubmitAppSessionDeposit
<1>5. ASSUME NEW sid, NEW sigs, SubmitAppState(r, sid, sigs)
      PROVE  UNCHANGED <<tables, rowLocks, appTables, sessionLocks>>
  BY <1>1, <1>5 DEF SubmitAppState
<1>6. ASSUME NEW sid, NEW other, NEW sigs, RebalanceAppSessions(r, sid, other, sigs)
      PROVE  UNCHANGED <<tables, rowLocks, appTables, sessionLocks>>
  BY <1>1, <1>6 DEF RebalanceAppSessions
<1> QED
  BY <1>2, <1>3, <1>4, <1>5, <1>6 DEF ClientStep

\* Only the actions of keys change their states.
LEMMA KeysStill ==
  ASSUME NEW r \in Requests, ClientStep(r) \/ ApiStep(r)
  PROVE  keyStates' = keyStates
<1>1. CASE ClientStep(r)
  BY <1>1, ClientSends DEF appTables
<1>2. CASE SubmitAppVersion(r) \/ BeginCreate(r) \/ CommitCreate(r) \/ BeginDeposit(r)
  BY <1>2 DEF SubmitAppVersion, BeginCreate, CommitCreate, BeginDeposit, Rollback, appTables
<1>3. CASE LockDeposit(r) \/ CommitDeposit(r) \/ BeginAppState(r) \/ ReadAllocations(r)
  BY <1>3 DEF LockDeposit, CommitDeposit, BeginAppState, ReadAllocations, CommitUpdate,
       Rollback, appTables
<1>4. CASE LockReceiver(r) \/ CommitAppState(r) \/ ReadRebalanced(r)
  BY <1>4 DEF LockReceiver, CommitAppState, ReadRebalanced, CommitUpdate, Rollback, appTables
<1>5. CASE UpdateRebalanced(r) \/ AbortDeadlocked(r)
  BY <1>5 DEF UpdateRebalanced, AbortDeadlocked, CommitRebalance, Rollback, appTables
<1> QED
  BY <1>1, <1>2, <1>3, <1>4, <1>5 DEF ApiStep

\* A user's states of a key are numbered, and each number is used once.
LEMMA KeysNumbered == Spec => []KeysInv
<1> DEFINE n == Len(KeyScopes)
<1>0. n \in Nat
  BY AppSessionsAssumption
<1>1. Init => KeysInv
  BY DEF Init, KeysInv
<1>2. KeysInv /\ [Next]_vars => KeysInv'
  <2> SUFFICES ASSUME KeysInv, [Next]_vars
               PROVE  KeysInv'
    OBVIOUS
  <2>1. CASE keyStates' = keyStates
    BY <2>1 DEF KeysInv
  <2>2. ASSUME NEW u \in KeyHolders, NEW k \in Keys, SubmitSessionKeyState(u, k)
        PROVE  KeysInv'
    <3> DEFINE rows == {x \in keyStates : x.user = u /\ x.key = k}
               last == LatestVersion(rows)
               new == [user |-> u, key |-> k, version |-> last + 1, expired |-> FALSE,
                       sessions |-> KeyScopes[last + 1].sessions,
                       applications |-> KeyScopes[last + 1].applications]
    <3>1. last < n /\ keyStates' = keyStates \cup {new}
      BY <2>2 DEF SubmitSessionKeyState, StoreAppSessionKeyState
    <3>2. last \in 0..n /\ \A x \in rows : x.version <= last /\ x.version \in 1..n
      <4>1. \A x \in rows : x.version \in 1..n
        BY DEF KeysInv
      <4> HIDE DEF rows, n
      <4> QED
        BY <1>0, <4>1, LatestVersionIs
    <3>3. /\ DOMAIN new = {"user", "key", "version", "expired", "sessions", "applications"}
          /\ new.user = u /\ new.key = k /\ new.version = last + 1
      OBVIOUS
    <3> HIDE DEF new, last
    <3>4. last + 1 \in 1..n /\ \A x \in rows : x.version # last + 1
      <4> HIDE DEF rows, n
      <4> QED
        BY <1>0, <3>1, <3>2
    <3>5. \A x \in keyStates : x.user = u /\ x.key = k => x.version # new.version
      BY <3>3, <3>4
    <3> QED
      BY <3>1, <3>3, <3>4, <3>5 DEF KeysInv
  <2>3. ASSUME NEW x \in keyStates, ExpireKey(x)
        PROVE  KeysInv'
    <3>1. PICK y : y = [x EXCEPT !.expired = TRUE]
      OBVIOUS
    <3>2. /\ DOMAIN x = {"user", "key", "version", "expired", "sessions", "applications"}
          /\ x.version \in 1..n
      BY DEF KeysInv
    <3>3. /\ DOMAIN y = DOMAIN x /\ y.user = x.user /\ y.key = x.key /\ y.version = x.version
      BY <3>1, <3>2
    <3>4. keyStates' = (keyStates \ {x}) \cup {y}
      BY <2>3, <3>1 DEF ExpireKey
    <3> QED
      BY <3>2, <3>3, <3>4 DEF KeysInv
  <2>4. ASSUME NEW u, HandleLockingEvent(u)
        PROVE  keyStates' = keyStates
    BY <2>4 DEF HandleLockingEvent
  <2>5. UNCHANGED vars => keyStates' = keyStates
    BY DEF vars, appTables
  <2> QED
    BY <2>1, <2>2, <2>3, <2>4, <2>5, KeysStill DEF Next
<1> QED
  BY <1>1, <1>2, PTL DEF Spec

\* A session key signs for a user only by the last state that the user
\* registered for it, unexpired and for that session or its application
\* (GetAppSessionKeyOwner, SubmitSessionKeyState).
THEOREM KeyOwnersAreCurrent == Spec => []KeyOwnerIsCurrent
<1>1. KeysInv => KeyOwnerIsCurrent
  <2> SUFFICES ASSUME KeysInv, NEW key \in Keys, NEW sid \in Sessions,
                      NEW u \in KeyOwners(key, sid)
               PROVE  LET rows == {x \in keyStates : x.user = u /\ x.key = key}
                          last == CHOOSE x \in rows : x.version = LatestVersion(rows)
                      IN  /\ ~last.expired
                          /\ \/ sid \in last.sessions
                             \/ Definition[sid].application \in last.applications
    BY DEF KeyOwnerIsCurrent
  <2> DEFINE all == {x \in keyStates : x.key = key}
             rows == {x \in keyStates : x.user = u /\ x.key = key}
             last == CHOOSE x \in rows : x.version = LatestVersion(rows)
             n == Len(KeyScopes)
  <2>0. n \in Nat
    BY AppSessionsAssumption
  <2>1. PICK k \in all : /\ k.user = u /\ k.version = LatestVersion(all) /\ ~k.expired
                         /\ \/ sid \in k.sessions
                            \/ Definition[sid].application \in k.applications
    BY DEF KeyOwners
  <2>2. /\ \A x \in all : x.version \in 1..n
        /\ \A x \in rows : x.version \in 1..n
        /\ rows \subseteq all /\ k \in rows
        /\ \A x, y \in rows : x.version = y.version => x = y
    BY <2>1 DEF KeysInv
  <2> HIDE DEF all, rows, n
  <2>3. \A x \in all : x.version <= k.version
    BY <2>0, <2>1, <2>2, LatestVersionIs
  <2>4. /\ LatestVersion(rows) \in 0..n /\ k.version <= LatestVersion(rows)
        /\ \E x \in rows : x.version = LatestVersion(rows)
    BY <2>0, <2>2, LatestVersionIs
  <2>5. LatestVersion(rows) = k.version
    BY <2>0, <2>2, <2>3, <2>4
  <2>6. last = k
    BY <2>2, <2>5
  <2> QED
    BY <2>1, <2>6 DEF rows
<1> QED
  BY <1>1, KeysNumbered, PTL

-------------------------------------------------------------------------------
(* The action gateway *)

\* The counts stay when nothing they count changes.
LEMMA GateStill ==
  ASSUME GateInv, UNCHANGED actionLog, Commits' = Commits,
         \A sid \in Sessions : appSessions'[sid] = Nil <=> appSessions[sid] = Nil
  PROVE  GateInv'
<1>1. \A u : CommitsTo(u) = {t \in Commits : t.toAccount \in Own(u)}
  BY DEF CommitsTo, Commits
<1>2. \A u : CommitsTo(u)' = {t \in Commits' : t.toAccount \in Own(u)}
  BY DEF CommitsTo, Commits, Own
<1>3. \A u : CommitsTo(u)' = CommitsTo(u)
  BY <1>1, <1>2
<1>4. \A u : Created(u)' = Created(u)
  BY DEF Created, Own
<1> QED
  BY <1>3, <1>4 DEF GateInv

\* The transaction of a state that a user signed.
LEMMA TransactionIs ==
  ASSUME NEW s
  PROVE  LET t == NewTransactionFromTransition(s, Nil, s.transition) IN
         /\ t.txType = "commit" <=> s.transition.type = "commit"
         /\ s.transition.type = "commit" =>
              /\ t.toAccount = s.transition.accountId
              /\ t.id = <<s.transition.accountId, GetStateID(s)>>
<1> DEFINE t == NewTransactionFromTransition(s, Nil, s.transition)
<1>1. t.txType = IF s.transition.type = "transfer_send" THEN "transfer" ELSE s.transition.type
  BY DEF NewTransactionFromTransition
<1>2. ASSUME s.transition.type = "commit"
      PROVE  /\ t.toAccount = s.transition.accountId
             /\ t.id = <<s.transition.accountId, GetStateID(s)>>
  BY <1>2 DEF NewTransactionFromTransition, getTransactionID
<1> QED
  BY <1>1, <1>2

\* Counting an action adds one to one count of one owner.
LEMMA CountIs ==
  ASSUME actionLog \in [Users -> [GatedActions -> Nat]], NEW sid \in Sessions, NEW action,
         CountAction(sid, action)
  PROVE  /\ actionLog' \in [Users -> [GatedActions -> Nat]]
         /\ \A u \in Users, a \in GatedActions :
              actionLog'[u][a] = IF u = OwnerOf(sid) /\ a = action THEN actionLog[u][a] + 1
                                 ELSE actionLog[u][a]
<1> DEFINE o == OwnerOf(sid)
<1>0. o \in Users
  BY Constants
<1> HIDE DEF o
<1>1. CASE action \notin GatedActions
  BY <1>1 DEF CountAction
<1>2. CASE action \in GatedActions
  <2>1. actionLog' = [actionLog EXCEPT ![o] = [actionLog[o] EXCEPT ![action] = @ + 1]]
    BY <1>2 DEF CountAction, o
  <2>2. [actionLog[o] EXCEPT ![action] = @ + 1] \in [GatedActions -> Nat]
    BY <1>0, <1>2
  <2>3. \A u \in Users, a \in GatedActions :
          actionLog'[u][a] = IF u = o /\ a = action THEN actionLog[u][a] + 1
                             ELSE actionLog[u][a]
    BY <1>0, <1>2, <2>1
  <2> QED
    BY <1>0, <2>1, <2>2, <2>3 DEF o
<1> QED
  BY <1>1, <1>2

\* A session is created and counted.
LEMMA GateCreate ==
  ASSUME Inv, GateInv, NEW r \in Requests, CommitCreate(r)
  PROVE  GateInv'
<1>1. PICK q : requests[r] = q
  OBVIOUS
<1>2. CreateOK(q)
  BY <1>1, KindOf DEF Inv, RequestsOK, CommitCreate
<1>3. CASE Rollback(r)
  BY <1>3, GateStill DEF Rollback, tables, appTables, Commits
<1>4. CASE ~Rollback(r)
  <2> DEFINE sid == q.session
             row == [status |-> "open", version |-> 1]
  <2>1. /\ appSessions[sid] = Nil /\ appSessions' = [appSessions EXCEPT ![sid] = row]
        /\ CountAction(sid, "app_session_creation") /\ UNCHANGED transactions
    BY <1>1, <1>4 DEF CommitCreate
  <2>2. sid \in Sessions /\ row # Nil
    <3>1. row \in AppSessionRow
      BY DEF AppSessionRow
    <3> QED
      BY <1>2, <3>1, Constants DEF CreateOK
  <2> HIDE DEF row
  <2>3. /\ actionLog' \in [Users -> [GatedActions -> Nat]]
        /\ \A u \in Users, a \in GatedActions :
             actionLog'[u][a] = IF u = OwnerOf(sid) /\ a = "app_session_creation"
                                THEN actionLog[u][a] + 1 ELSE actionLog[u][a]
    BY <2>1, <2>2, CountIs DEF GateInv
  <2>4. \A u : CommitsTo(u)' = CommitsTo(u)
    BY <2>1 DEF CommitsTo, Own
  <2>5. Commits' = Commits
    BY <2>1 DEF Commits
  <2>6. ASSUME NEW u \in Range(Owners)
        PROVE  /\ actionLog'[u]["app_session_deposit"] = Cardinality(CommitsTo(u)')
               /\ actionLog'[u]["app_session_creation"] = Cardinality(Created(u)')
    <3>1. /\ u \in Users /\ "app_session_deposit" \in GatedActions
          /\ "app_session_creation" \in GatedActions
      BY Constants DEF GatedActions
    <3>2. actionLog'[u]["app_session_deposit"] = actionLog[u]["app_session_deposit"]
      BY <2>3, <3>1
    <3>3. CASE u = OwnerOf(sid)
      <4>1. Created(u)' = Created(u) \cup {sid} /\ sid \notin Created(u)
        BY <2>1, <2>2, <3>3 DEF Created, Own, Inv, TypeOK
      <4>2. IsFiniteSet(Created(u))
        <5>1. Created(u) \subseteq Sessions /\ IsFiniteSet(Sessions)
          BY Constants DEF Created, Own
        <5> QED
          BY <5>1, FS_Subset
      <4>3. Cardinality(Created(u)') = Cardinality(Created(u)) + 1
        BY <4>1, <4>2, FS_AddElement
      <4>4. actionLog'[u]["app_session_creation"] = actionLog[u]["app_session_creation"] + 1
        BY <2>3, <3>1, <3>3
      <4> QED
        BY <2>4, <3>2, <4>3, <4>4 DEF GateInv
    <3>4. CASE u # OwnerOf(sid)
      <4>1. Created(u)' = Created(u)
        BY <2>1, <2>2, <3>4 DEF Created, Own, Inv, TypeOK
      <4>2. actionLog'[u]["app_session_creation"] = actionLog[u]["app_session_creation"]
        BY <2>3, <3>1, <3>4
      <4> QED
        BY <2>4, <3>2, <4>1, <4>2 DEF GateInv
    <3> QED
      BY <3>3, <3>4
  <2> QED
    BY <2>3, <2>5, <2>6 DEF GateInv
<1> QED
  BY <1>3, <1>4

\* A row of a session that exists may be updated.
LEMMA RowsStay ==
  ASSUME Inv, NEW upd, IsUpdate(upd), Watched(upd),
         appSessions' = [appSessions EXCEPT ![upd.session] = UpdatedRow(upd)]
  PROVE  \A sid \in Sessions : appSessions'[sid] = Nil <=> appSessions[sid] = Nil
<1>1. UpdatedRow(upd) \in AppSessionRow
  BY DEF UpdatedRow, AppSessionRow, IsUpdate
<1>2. UpdatedRow(upd) # Nil
  BY <1>1, Constants
<1> QED
  BY <1>2 DEF Inv, TypeOK, IsUpdate, Watched

\* A deposit is recorded and counted.
LEMMA GateDeposit ==
  ASSUME Inv, GateInv, NEW r \in Requests, CommitDeposit(r)
  PROVE  GateInv'
<1>1. PICK q : requests[r] = q
  OBVIOUS
<1>2. DepositOK(r, q)
  BY <1>1, KindOf DEF Inv, RequestsOK, CommitDeposit
<1>3. CASE Rollback(r)
  BY <1>3, GateStill DEF Rollback, tables, appTables, Commits
<1>4. CASE ~Rollback(r)
  <2> DEFINE sid == q.upd.session
             t == NewTransactionFromTransition(q.state, Nil, q.state.transition)
  <2>1. CommitUpdate(r, q.upd, q.entries, {q.state}, {t})
    BY <1>1, <1>4 DEF CommitDeposit
  <2>2. /\ IsUpdate(q.upd) /\ Watched(q.upd) /\ sid \in Sessions
        /\ q.upd.intent = "deposit" /\ q.state.transition.type = "commit"
        /\ q.state.transition.accountId = sid
    BY <1>2 DEF DepositOK, IsUpdate
  <2>3. t.txType = "commit" /\ t.toAccount = sid
    BY <2>2, TransactionIs
  <2> HIDE DEF t
  <2>4. /\ transactions' = transactions \cup {t} /\ t \notin transactions
        /\ CountAction(sid, "app_session_deposit")
        /\ appSessions' = [appSessions EXCEPT ![sid] = UpdatedRow(q.upd)]
    BY <2>1, <2>2 DEF CommitUpdate, RecordTransaction, IntentAction
  <2>5. /\ actionLog' \in [Users -> [GatedActions -> Nat]]
        /\ \A u \in Users, a \in GatedActions :
             actionLog'[u][a] = IF u = OwnerOf(sid) /\ a = "app_session_deposit"
                                THEN actionLog[u][a] + 1 ELSE actionLog[u][a]
    BY <2>2, <2>4, CountIs DEF GateInv
  <2>6. \A s \in Sessions : appSessions'[s] = Nil <=> appSessions[s] = Nil
    BY <2>2, <2>4, RowsStay
  <2>7. \A u : Created(u)' = Created(u)
    BY <2>6 DEF Created, Own
  <2>8. IsFiniteSet(Commits')
    <3>1. Commits' = Commits \cup {t}
      BY <2>3, <2>4 DEF Commits
    <3> QED
      BY <3>1, FS_AddElement DEF GateInv
  <2>9. ASSUME NEW u \in Range(Owners)
        PROVE  /\ actionLog'[u]["app_session_deposit"] = Cardinality(CommitsTo(u)')
               /\ actionLog'[u]["app_session_creation"] = Cardinality(Created(u)')
    <3>1. /\ u \in Users /\ "app_session_deposit" \in GatedActions
          /\ "app_session_creation" \in GatedActions
      BY Constants DEF GatedActions
    <3>2. actionLog'[u]["app_session_creation"] = actionLog[u]["app_session_creation"]
      BY <2>5, <3>1
    <3>3. CASE u = OwnerOf(sid)
      <4>1. CommitsTo(u)' = CommitsTo(u) \cup {t} /\ t \notin CommitsTo(u)
        BY <2>2, <2>3, <2>4, <3>3 DEF CommitsTo, Own
      <4>2. IsFiniteSet(CommitsTo(u))
        <5>1. CommitsTo(u) \subseteq Commits /\ IsFiniteSet(Commits)
          BY DEF CommitsTo, Commits, GateInv
        <5> QED
          BY <5>1, FS_Subset
      <4>3. Cardinality(CommitsTo(u)') = Cardinality(CommitsTo(u)) + 1
        BY <4>1, <4>2, FS_AddElement
      <4>4. actionLog'[u]["app_session_deposit"] = actionLog[u]["app_session_deposit"] + 1
        BY <2>5, <3>1, <3>3
      <4> QED
        BY <2>7, <3>2, <4>3, <4>4 DEF GateInv
    <3>4. CASE u # OwnerOf(sid)
      <4>1. CommitsTo(u)' = CommitsTo(u)
        BY <2>3, <2>4, <3>4 DEF CommitsTo, Own
      <4>2. actionLog'[u]["app_session_deposit"] = actionLog[u]["app_session_deposit"]
        BY <2>5, <3>1, <3>4
      <4> QED
        BY <2>7, <3>2, <4>1, <4>2 DEF GateInv
    <3> QED
      BY <3>3, <3>4
  <2> QED
    BY <2>5, <2>8, <2>9 DEF GateInv
<1> QED
  BY <1>3, <1>4

\* Operations, withdrawals and closings are counted, if at all, as such.
LEMMA GateAppState ==
  ASSUME Inv, GateInv, NEW r \in Requests, CommitAppState(r)
  PROVE  GateInv'
<1>1. PICK q : requests[r] = q
  OBVIOUS
<1>2. StateOK(r, q)
  BY <1>1, KindOf DEF Inv, RequestsOK, CommitAppState
<1>3. CASE Rollback(r)
  BY <1>3, GateStill DEF Rollback, tables, appTables, Commits
<1>4. CASE ~Rollback(r)
  <2> DEFINE sid == q.upd.session
             states == {ReleaseReceiverState(u, sid, -q.entries[u]) :
                          u \in Receivers(q.upd, q.entries)}
             rows == {NewTransactionFromTransition(Nil, s, s.transition) : s \in states}
             action == IntentAction(q.upd.intent)
  <2>1. CommitUpdate(r, q.upd, q.entries, states, rows) /\ q.pc = "commit"
    BY <1>1, <1>4 DEF CommitAppState
  <2>2. /\ IsUpdate(q.upd) /\ Watched(q.upd) /\ sid \in Sessions
        /\ q.upd.intent \in {"operate", "withdraw", "close"} /\ Ready(q.upd, q.entries)
    BY <1>2, <2>1 DEF StateOK, IsUpdate
  <2>3. \A t \in rows : t.txType # "commit"
    <3>1. ASSUME NEW u \in Receivers(q.upd, q.entries)
          PROVE  ReleaseReceiverState(u, sid, -q.entries[u]).transition.type = "release"
      <4>1. u \in Users /\ IsState(Last(u))
        BY DEF Receivers, Inv, StatesInv, StatesOf
      <4>2. -q.entries[u] \in Int
        BY <2>2, <4>1 DEF Ready
      <4> QED
        BY <4>1, <4>2, ReleaseIs
    <3>2. \A s \in states : s.transition.type = "release"
      BY <3>1
    <3> HIDE DEF states
    <3> QED
      BY <3>2 DEF NewTransactionFromTransition
  <2>4. action \notin {"app_session_deposit", "app_session_creation"}
    BY <2>2 DEF IntentAction
  <2> HIDE DEF rows, states, action
  <2>5. /\ transactions' = transactions \cup rows /\ CountAction(sid, action)
        /\ appSessions' = [appSessions EXCEPT ![sid] = UpdatedRow(q.upd)]
    BY <2>1 DEF CommitUpdate, RecordTransaction, action
  <2>6. /\ actionLog' \in [Users -> [GatedActions -> Nat]]
        /\ \A u \in Users, a \in GatedActions :
             actionLog'[u][a] = IF u = OwnerOf(sid) /\ a = action
                                THEN actionLog[u][a] + 1 ELSE actionLog[u][a]
    BY <2>2, <2>5, CountIs DEF GateInv
  <2>7. \A s \in Sessions : appSessions'[s] = Nil <=> appSessions[s] = Nil
    BY <2>2, <2>5, RowsStay
  <2>8. \A u : Created(u)' = Created(u)
    BY <2>7 DEF Created, Own
  <2>9. Commits' = Commits /\ \A u : CommitsTo(u)' = CommitsTo(u)
    BY <2>3, <2>5 DEF Commits, CommitsTo, Own
  <2>10. \A u \in Range(Owners) :
           /\ actionLog'[u]["app_session_deposit"] = actionLog[u]["app_session_deposit"]
           /\ actionLog'[u]["app_session_creation"] = actionLog[u]["app_session_creation"]
    BY <2>4, <2>6, Constants DEF GatedActions
  <2> QED
    BY <2>6, <2>8, <2>9, <2>10 DEF GateInv
<1> QED
  BY <1>3, <1>4

\* A rebalance is not counted and records no deposit.
LEMMA GateRebalance ==
  ASSUME Inv, GateInv, NEW r \in Requests, UpdateRebalanced(r)
  PROVE  GateInv'
<1>1. PICK q : requests[r] = q
  OBVIOUS
<1>2. RebalanceOK(r, q)
  BY <1>1, KindOf DEF Inv, RequestsOK, UpdateRebalanced
<1>3. CASE Rollback(r) \/ UNCHANGED <<tables, rowLocks, appTables>>
  BY <1>3, GateStill DEF Rollback, tables, appTables, Commits
<1>4. CASE CommitRebalance(r)
  <2> DEFINE Index(sid) == {i \in DOMAIN q.upds : q.upds[i].session = sid}
             Gains == {i \in DOMAIN q.upds : SumOf(q.entries[i]) # 0}
             rows == {RebalanceTransaction(BatchId(q.upds), q.upds[i].session,
                                           SumOf(q.entries[i])) : i \in Gains}
  <2>1. /\ appSessions' = [sid \in Sessions |->
                             IF Index(sid) = {} THEN appSessions[sid]
                             ELSE UpdatedRow(q.upds[CHOOSE i \in Index(sid) : TRUE])]
        /\ transactions' = transactions \cup rows /\ UNCHANGED actionLog
    BY <1>1, <1>4 DEF CommitRebalance, RecordTransaction
  <2>2. \A t \in rows : t.txType # "commit"
    BY DEF RebalanceTransaction
  <2> HIDE DEF rows
  <2>3. Commits' = Commits
    BY <2>1, <2>2 DEF Commits
  <2>4. ASSUME NEW sid \in Sessions
        PROVE  appSessions'[sid] = Nil <=> appSessions[sid] = Nil
    <3>1. CASE Index(sid) = {}
      BY <2>1, <3>1
    <3>2. CASE Index(sid) # {}
      <4>1. PICK i \in Index(sid) : i = CHOOSE j \in Index(sid) : TRUE
        BY <3>2
      <4>2. i \in 1..2 /\ q.upds[i].session = sid
        BY <1>2, <4>1 DEF RebalanceOK
      <4>3. IsUpdate(q.upds[i]) /\ Watched(q.upds[i])
        BY <1>2, <4>2 DEF RebalanceOK
      <4>4. UpdatedRow(q.upds[i]) \in AppSessionRow
        BY <4>3 DEF UpdatedRow, AppSessionRow, IsUpdate
      <4>5. appSessions'[sid] = UpdatedRow(q.upds[i])
        BY <2>1, <3>2, <4>1
      <4> QED
        BY <4>2, <4>3, <4>4, <4>5, Constants DEF Watched
    <3> QED
      BY <3>1, <3>2
  <2> QED
    BY <2>1, <2>3, <2>4, GateStill
<1> QED
  BY <1>3, <1>4 DEF UpdateRebalanced

\* The other steps write nothing that is counted.
LEMMA GateOthers ==
  ASSUME NEW r \in Requests,
         \/ SubmitAppVersion(r) \/ BeginCreate(r) \/ BeginDeposit(r) \/ LockDeposit(r)
         \/ BeginAppState(r) \/ ReadAllocations(r) \/ LockReceiver(r)
         \/ ReadRebalanced(r) \/ AbortDeadlocked(r)
  PROVE  UNCHANGED <<actionLog, transactions, appSessions>>
<1>1. CASE SubmitAppVersion(r) \/ BeginCreate(r) \/ BeginDeposit(r)
  BY <1>1 DEF SubmitAppVersion, BeginCreate, BeginDeposit, tables, appTables
<1>2. CASE LockDeposit(r) \/ BeginAppState(r) \/ ReadAllocations(r)
  BY <1>2 DEF LockDeposit, BeginAppState, ReadAllocations, Rollback, tables, appTables
<1>3. CASE LockReceiver(r) \/ ReadRebalanced(r) \/ AbortDeadlocked(r)
  BY <1>3 DEF LockReceiver, ReadRebalanced, AbortDeadlocked, Rollback, tables, appTables
<1> QED
  BY <1>1, <1>2, <1>3

\* Every step keeps the counts.
LEMMA GateStep ==
  ASSUME Inv, GateInv, [Next]_vars
  PROVE  GateInv'
<1>1. ASSUME UNCHANGED <<actionLog, transactions, appSessions>>
      PROVE  GateInv'
  BY <1>1, GateStill DEF Commits
<1>2. ASSUME NEW r \in Requests, ClientStep(r)
      PROVE  GateInv'
  BY <1>1, <1>2, ClientSends DEF tables, appTables
<1>3. ASSUME NEW r \in Requests, ApiStep(r)
      PROVE  GateInv'
  BY <1>1, <1>3, GateOthers, GateCreate, GateDeposit, GateAppState, GateRebalance DEF ApiStep
<1>4. ASSUME NEW u, NEW k, SubmitSessionKeyState(u, k)
      PROVE  GateInv'
  BY <1>1, <1>4 DEF SubmitSessionKeyState, tables
<1>5. ASSUME NEW x, ExpireKey(x)
      PROVE  GateInv'
  BY <1>1, <1>5 DEF ExpireKey, tables
<1>6. ASSUME NEW u, HandleLockingEvent(u)
      PROVE  GateInv'
  BY <1>1, <1>6 DEF HandleLockingEvent, tables
<1>7. CASE UNCHANGED vars
  BY <1>1, <1>7 DEF vars, tables, appTables
<1> QED
  BY <1>2, <1>3, <1>4, <1>5, <1>6, <1>7 DEF Next

\* At first the gateway has counted what the past sessions took.
LEMMA GateInit ==
  ASSUME Init
  PROVE  GateInv
<1>1. PICK past \in Pasts :
        LET committed == IF past = "running" THEN Participants(Funded) ELSE {}
            running == IF past = "running" THEN Running ELSE {}
        IN
        /\ channelStates = UNION {PastStates(past, u) : u \in Users}
        /\ transactions = {NewTransactionFromTransition(s, Nil, s.transition) : s \in channelStates}
        /\ actionLog = [u \in Users |-> [a \in GatedActions |->
                          CASE a = "app_session_deposit" /\ u = OwnerOf(Funded) ->
                                 Cardinality(committed)
                            [] a = "app_session_creation" ->
                                 Cardinality({sid \in running : OwnerOf(sid) = u})
                            [] OTHER -> 0]]
        /\ appSessions = [sid \in Sessions |->
                            IF sid \notin running THEN Nil
                            ELSE [status |-> "open",
                                  version |-> IF sid = Funded THEN 1 + Cardinality(committed)
                                              ELSE 1]]
  BY DEF Init
<1> DEFINE committed == IF past = "running" THEN Participants(Funded) ELSE {}
           running == IF past = "running" THEN Running ELSE {}
           tx(u) == NewTransactionFromTransition(FirstCommit(u), Nil, FirstCommit(u).transition)
<1>2. /\ committed \subseteq Users /\ running \subseteq Sessions /\ Funded \in Sessions
  BY Constants
<1>3. IsFiniteSet(committed) /\ Cardinality(committed) \in Nat
  <2>1. IsFiniteSet(committed)
    BY <1>2, Constants, FS_Subset
  <2> QED
    BY <2>1, FS_CardinalityType
<1>4. ASSUME NEW u \in Users
      PROVE  PastStates(past, u) = IF u \in committed THEN {FirstDeposit(u), FirstCommit(u)}
                                   ELSE {FirstDeposit(u)}
  BY <1>2 DEF PastStates
<1>5. \A sid \in Sessions : appSessions[sid] # Nil <=> sid \in running
  <2> DEFINE row(sid) == [status |-> "open",
                          version |-> IF sid = Funded THEN 1 + Cardinality(committed) ELSE 1]
  <2>1. \A sid \in Sessions : row(sid) \in AppSessionRow
    BY <1>3 DEF AppSessionRow
  <2>2. \A sid \in Sessions : appSessions[sid] = IF sid \notin running THEN Nil ELSE row(sid)
    BY <1>1
  <2> HIDE DEF row
  <2> QED
    BY <2>1, <2>2, Constants
<1>6. \A u \in Users : \A a \in GatedActions :
        actionLog[u][a] = CASE a = "app_session_deposit" /\ u = OwnerOf(Funded) ->
                                 Cardinality(committed)
                            [] a = "app_session_creation" ->
                                 Cardinality({sid \in running : OwnerOf(sid) = u})
                            [] OTHER -> 0
  BY <1>1
<1> HIDE DEF committed, running
<1>7. ASSUME NEW u \in Users
      PROVE  /\ tx(u).txType = "commit" /\ tx(u).toAccount = Funded
             /\ tx(u).id = <<Funded, <<u, 0, 2>>>>
  <2>1. LET s == FirstCommit(u) IN
        /\ s.transition.type = "commit" /\ s.transition.accountId = Funded
        /\ s.userWallet = u /\ s.epoch = 0 /\ s.version = 2
    BY FirstStates
  <2> QED
    BY <2>1, TransactionIs DEF GetStateID
<1>8. Commits = {tx(u) : u \in committed}
  <2>1. ASSUME NEW t \in Commits
        PROVE  t \in {tx(u) : u \in committed}
    <3>1. PICK s \in channelStates : t = NewTransactionFromTransition(s, Nil, s.transition)
      BY <1>1 DEF Commits
    <3>2. s.transition.type = "commit"
      BY <3>1, TransactionIs DEF Commits
    <3>3. PICK u \in Users : s \in PastStates(past, u)
      BY <1>1
    <3>4. s # FirstDeposit(u)
      BY <3>2, FirstStates
    <3>5. u \in committed /\ s = FirstCommit(u)
      BY <1>4, <3>3, <3>4
    <3> QED
      BY <3>1, <3>5
  <2>2. ASSUME NEW u \in committed
        PROVE  tx(u) \in Commits
    <3>1. u \in Users
      BY <1>2 DEF committed
    <3>2. FirstCommit(u) \in channelStates
      BY <1>1, <1>4, <3>1
    <3> QED
      BY <1>1, <1>7, <3>1, <3>2 DEF Commits
  <2> QED
    BY <2>1, <2>2
<1>9. IsFiniteSet(Commits) /\ Cardinality(Commits) = Cardinality(committed)
  <2> DEFINE f == [u \in committed |-> tx(u)]
  <2>1. \A u \in committed : f[u] = tx(u) /\ tx(u) \in Commits
    BY <1>8
  <2>2. \A u, v \in committed : tx(u) = tx(v) => u = v
    <3>1. \A u \in committed : tx(u).id = <<Funded, <<u, 0, 2>>>>
      BY <1>2, <1>7 DEF committed
    <3> HIDE DEF tx
    <3> QED
      BY <3>1
  <2>3. \A t \in Commits : \E u \in committed : f[u] = t
    BY <1>8
  <2> HIDE DEF tx
  <2>4. f \in Bijection(committed, Commits)
    <3>1. f \in [committed -> Commits]
      BY <2>1
    <3>2. f \in Surjection(committed, Commits)
      BY <2>3, <3>1 DEF Surjection
    <3>3. f \in Injection(committed, Commits)
      BY <2>1, <2>2, <3>1 DEF Injection, IsInjective
    <3> QED
      BY <3>2, <3>3 DEF Bijection
  <2>5. ExistsBijection(committed, Commits)
    BY <2>4 DEF ExistsBijection
  <2> QED
    BY <1>3, <2>4, <2>5, FS_Bijection
<1>10. ASSUME NEW u \in Range(Owners)
       PROVE  /\ actionLog[u]["app_session_deposit"] = Cardinality(CommitsTo(u))
              /\ actionLog[u]["app_session_creation"] = Cardinality(Created(u))
  <2>1. /\ u \in Users /\ "app_session_deposit" \in GatedActions
        /\ "app_session_creation" \in GatedActions
    BY Constants DEF GatedActions
  <2>2. \A t \in Commits : t.toAccount = Funded
    BY <1>2, <1>7, <1>8 DEF committed
  <2>3. CommitsTo(u) = {t \in Commits : t.toAccount \in Own(u)}
    BY DEF CommitsTo, Commits
  <2>4. actionLog[u]["app_session_deposit"] = Cardinality(CommitsTo(u))
    <3>1. CASE u = OwnerOf(Funded)
      <4>1. CommitsTo(u) = Commits
        BY <1>2, <2>2, <2>3, <3>1 DEF Own
      <4>2. actionLog[u]["app_session_deposit"] = Cardinality(committed)
        BY <1>6, <2>1, <3>1
      <4> QED
        BY <1>9, <4>1, <4>2
    <3>2. CASE u # OwnerOf(Funded)
      <4>1. CommitsTo(u) = {}
        BY <2>2, <2>3, <3>2 DEF Own
      <4>2. actionLog[u]["app_session_deposit"] = 0
        BY <1>6, <2>1, <3>2
      <4> QED
        BY <4>1, <4>2, FS_EmptySet
    <3> QED
      BY <3>1, <3>2
  <2>5. Created(u) = {sid \in running : OwnerOf(sid) = u}
    BY <1>2, <1>5 DEF Created, Own, running
  <2>6. actionLog[u]["app_session_creation"] = Cardinality({sid \in running : OwnerOf(sid) = u})
    BY <1>6, <2>1
  <2> QED
    BY <2>4, <2>5, <2>6
<1>11. actionLog \in [Users -> [GatedActions -> Nat]]
  <2>1. ASSUME NEW u \in Users, NEW a \in GatedActions
        PROVE  actionLog[u][a] \in Nat
    <3> DEFINE mine == {sid \in running : OwnerOf(sid) = u}
    <3>1. Cardinality(mine) \in Nat
      <4>1. mine \subseteq Sessions /\ IsFiniteSet(Sessions)
        BY <1>2, Constants DEF running
      <4>2. IsFiniteSet(mine)
        BY <4>1, FS_Subset
      <4> QED
        BY <4>2, FS_CardinalityType
    <3> HIDE DEF mine
    <3>2. actionLog[u][a] \in {Cardinality(committed), Cardinality(mine), 0}
      BY <1>6 DEF mine
    <3> QED
      BY <1>3, <3>1, <3>2
  <2>2. PICK g : g = actionLog
    OBVIOUS
  <2>3. g = [u \in Users |-> g[u]] /\ \A u \in Users : g[u] = [a \in GatedActions |-> g[u][a]]
    BY <1>1, <2>2
  <2> QED
    BY <2>1, <2>2, <2>3
<1> QED
  BY <1>9, <1>10, <1>11 DEF GateInv

\* The gateway has counted the deposits and creations that were committed,
\* each once, and none that failed after it was allowed (AllowAction,
\* RecordAction within the request's transaction).
THEOREM GateIsExact == Spec => []GateCounts
<1>1. Init => GateInv
  BY GateInit
<1>2. Inv /\ GateInv /\ [Next]_vars => GateInv'
  BY GateStep
<1>3. GateInv => GateCounts
  <2>1. \A u : /\ CommitsTo(u) = {t \in transactions : /\ t.txType = "commit"
                                                       /\ t.toAccount \in {sid \in Sessions : OwnerOf(sid) = u}}
               /\ Created(u) = {sid \in {s \in Sessions : OwnerOf(s) = u} : appSessions[sid] # Nil}
    BY DEF CommitsTo, Created, Own
  <2> QED
    BY <2>1 DEF GateInv, GateCounts
<1> QED
  BY <1>1, <1>2, <1>3, Invariance, PTL DEF Spec
===============================================================================
