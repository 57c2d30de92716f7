------------------------------- MODULE Stress -------------------------------
(***************************************************************************)
(* The stress tester (src/clearnode/stress): a client program that moves   *)
(* real funds of one wallet, the origin, through a tree or a set of        *)
(* derived wallets and back.                                               *)
(*                                                                         *)
(*   transfers   storm: a binary tree of transfers, a plateau on its last  *)
(*               layer, the way back (runTransferStorm)                    *)
(*   sessions    storm: a ternary tree of app sessions (runSessionStorm)   *)
(*   roundtrip   pairs of wallets pay each other (RunTransferStress)       *)
(*   lifecycle   app sessions from creation to closing                     *)
(*               (RunAppSessionLifecycleStress)                            *)
(*   pool        read-only requests on a pool of connections (RunTest)     *)
(*                                                                         *)
(* A method is a sequence of stages.  A stage connects wallets and then    *)
(* runs goroutines, each with a sequence of calls, and waits for all of    *)
(* them (a sequential loop is a stage of one goroutine).  A call reads the *)
(* wallet's latest state, builds the next one on it and submits it: the    *)
(* node refuses it when the wallet's state has moved in between.  Of the   *)
(* node there is what these calls see (Node and AppSessions have the       *)
(* rest); a request or an answer may be lost, the rate limiter may refuse  *)
(* a request, and the context may expire.  How the node is configured is   *)
(* part of the initial state.                                              *)
(***************************************************************************)
EXTENDS Integers, Sequences, FiniteSets, SequencesExt, FiniteSetsExt, Functions, TLC

CONSTANTS
    Iterations,      \* depth of the storms' trees
    Cycles,          \* plateau cycles of the storms
    Amount,          \* amount of a leaf, a round or a lifecycle, in units
    Rounds,          \* transfer-roundtrip:rounds:wallets
    Wallets,
    AppSessions,     \* app-session-lifecycle:sessions:participants:operates
    Participants,
    Operates,
    TotalReqs,       \* method:total_requests:connections of the read methods
    Connections,
    MaxErrorPercent, \* STRESS_MAX_ERROR_RATE
    MaxFaults        \* bound: connections, requests and answers lost in a run,
                     \* requests the rate limiter refuses included

VARIABLES
    method,    \* what runBasic or runStorm was asked for
    stage,     \* position in the method's stages
    connected, \* the current stage's wallets are connected, its goroutines run
    job,       \* goroutine -> calls left, the state version it read or Unread
    failed,    \* results with an error in the report (a storm: in the stage)
    clients,   \* wallets with an open client (pool: connections)
    expired,   \* ctx.Err() /= nil
    faults,
    exit,      \* "running", "pass" (0) or "fail" (1)
    balance,   \* the node's view: funds of a wallet
    limits,    \*   what its configuration lets through (see Init)
    open,      \*   wallets with a home channel
    unsigned,  \*   wallets whose last state only the node signed
    head,      \*   wallet -> version of its last state
    session    \*   session id -> version, allocations, closed

progVars == <<method, stage, connected, job, failed, clients, expired, faults, exit>>
nodeVars == <<limits, balance, open, unsigned, head, session>>
vars == <<progVars, nodeVars>>

Unread == -1
Storms == {"transfers", "sessions"}
Methods == Storms \cup {"roundtrip", "lifecycle", "pool"}

(* An odd or too small number of wallets is rounded up to pairs. *)
NumWallets == LET n == Max({2, Wallets}) IN n + (n % 2)

TotalNodes(m) ==
    CASE m = "transfers" -> 2^Iterations
      [] m = "sessions"  -> 3^Iterations
      [] m = "roundtrip" -> 1 + NumWallets
      [] m = "lifecycle" -> 1 + AppSessions * Participants
      [] m = "pool"      -> 1

Nodes(m) == 0 .. TotalNodes(m) - 1
AllNodes == UNION {Nodes(m) : m \in Methods}

(***************************************************************************)
(* Calls of the Go SDK.                                                    *)
(***************************************************************************)
Transfer(from, to, amount) ==
    [call |-> "Transfer", by |-> from, to |-> to, amount |-> amount]
Acknowledge(w) == [call |-> "Acknowledge", by |-> w]
Ping == [call |-> "Ping", by |-> 0]
CreateAppSession(by, id) == [call |-> "CreateAppSession", by |-> by, id |-> id]
Deposit(by, id, v, amount) ==
    [call |-> "SubmitAppSessionDeposit", by |-> by, id |-> id, version |-> v, amount |-> amount]
Operate(by, id, v, alloc) ==
    [call |-> "Operate", by |-> by, id |-> id, version |-> v, alloc |-> alloc]
Close(by, id, v, alloc) ==
    [call |-> "Close", by |-> by, id |-> id, version |-> v, alloc |-> alloc]

(* The id of a session is the hash of its definition. *)
SessionID(members, nonce) == <<members, nonce>>

ToParent(p, c1, c2, amount) == [w \in {p, c1, c2} |-> IF w = p THEN amount ELSE 0]
ToChildren(p, c1, c2, amount) == [w \in {p, c1, c2} |-> IF w = p THEN 0 ELSE amount]

executeForwardSession(p, c1, c2, depositAmount, reallocAmount, nonce) ==
    LET id == SessionID({p, c1, c2}, nonce)
        alloc == ToChildren(p, c1, c2, reallocAmount)
    IN  <<CreateAppSession(p, id), Deposit(p, id, 2, depositAmount),
          Operate(p, id, 3, alloc), Close(p, id, 4, alloc)>>

executeReverseSession(p, c1, c2, childAmount, collectAmount, nonce) ==
    LET id == SessionID({p, c1, c2}, nonce)
        alloc == ToParent(p, c1, c2, collectAmount)
    IN  <<CreateAppSession(p, id), Deposit(c1, id, 2, childAmount), Deposit(c2, id, 3, childAmount),
          Operate(p, id, 4, alloc), Close(p, id, 5, alloc)>>

(***************************************************************************)
(* Stages.                                                                 *)
(***************************************************************************)
Sequential(calls) == [g \in {0} |-> calls]

Stage(kind, connect, jobs, close) ==
    [kind |-> kind, connect |-> connect, jobs |-> jobs, close |-> close]

(* Binary tree: in iteration i the nodes 0 .. 2^(i-1)-1 pay the new nodes. *)
Layer2(i) == 2^(i - 1) .. 2^i - 1
Share2(i) == Amount * 2^(Iterations - i)

TransferForward(i) ==
    Stage("forward", Layer2(i),
          [s \in 0 .. 2^(i - 1) - 1 |-> <<Transfer(s, 2^(i - 1) + s, Share2(i))>>], {})

(* Mutant: the way back moves a leaf's amount in every iteration. *)
TransferReverseLeaf(i) ==
    Stage("reverse", {},
          [s \in 0 .. 2^(i - 1) - 1 |-> <<Transfer(2^(i - 1) + s, s, Amount)>>], Layer2(i))

TransferReverse(i) ==
    Stage("reverse", {},
          [s \in 0 .. 2^(i - 1) - 1 |-> <<Transfer(2^(i - 1) + s, s, Share2(i))>>], Layer2(i))

TransferPlateau ==
    LET last == 2^(Iterations - 1)
    IN  <<Stage("plateau", {}, [s \in 0 .. last - 1 |-> <<Transfer(last + s, s, Amount)>>], {}),
          Stage("plateau", {}, [s \in 0 .. last - 1 |-> <<Transfer(s, last + s, Amount)>>], {})>>

(* n copies of a sequence of stages. *)
Cycled(seqOf(_), n) == FlattenSeq([c \in 1 .. n |-> seqOf(c)])

TransferStorm ==
    [i \in 1 .. Iterations |-> TransferForward(i)]
    \o Cycled(LAMBDA c : TransferPlateau, Cycles)
    \o [i \in 1 .. Iterations |-> TransferReverse(Iterations + 1 - i)]

(* Ternary tree: in iteration i node p opens a session with two new nodes. *)
Layer3(i) == 3^(i - 1) .. 3^i - 1
(* Mutant: neighbouring parents share a child. *)
SharedChild(i, p, k) == 3^(i - 1) + p + k

Child(i, p, k) == 3^(i - 1) + 2 * p + k
Share3(i) == Amount * 3^(Iterations - i)

Forwards(i, nonce) ==
    [p \in 0 .. 3^(i - 1) - 1 |->
        executeForwardSession(p, Child(i, p, 0), Child(i, p, 1),
                              2 * Share3(i), Share3(i), nonce * 10000 + p)]
Reverses(i, nonce) ==
    [p \in 0 .. 3^(i - 1) - 1 |->
        executeReverseSession(p, Child(i, p, 0), Child(i, p, 1),
                              Share3(i), 2 * Share3(i), nonce * 10000 + p)]

(* The wallets of a layer open their channels one after the other. *)
AcknowledgeLayer(i) ==
    Stage("acknowledge", {},
          Sequential([k \in 1 .. 2 * 3^(i - 1) |-> Acknowledge(3^(i - 1) + k - 1)]), {})

SessionForward(i) ==
    LET connect == Stage("connect", Layer3(i), Sequential(<<>>), {})
        run == Stage("forward", {}, Forwards(i, i), {})
    IN  IF i >= 2 THEN <<connect, AcknowledgeLayer(i - 1), run>> ELSE <<connect, run>>

SessionPlateau(c) ==
    <<Stage("plateau", {}, Reverses(Iterations, 100 + c), {}),
      Stage("plateau", {}, Forwards(Iterations, 200 + c), {})>>

SessionReverse(i) == Stage("reverse", {}, Reverses(i, Iterations + i), Layer3(i))

SessionStorm ==
    FlattenSeq([i \in 1 .. Iterations |-> SessionForward(i)])
    \o <<AcknowledgeLayer(Iterations)>>
    \o Cycled(SessionPlateau, Cycles)
    \o [i \in 1 .. Iterations |-> SessionReverse(Iterations + 1 - i)]

(* transfer-roundtrip: wallets 1 .. NumWallets, paired in order. *)
RoundTrip(a, b) ==
    FlattenSeq([r \in 1 .. Rounds |-> <<Transfer(a, b, Amount), Transfer(b, a, Amount)>>])

TransferRoundtrip ==
    <<Stage("distribute", 1 .. NumWallets,
            Sequential([i \in 1 .. NumWallets |-> Transfer(0, i, Amount)]), {}),
      Stage("pairs", {},
            [p \in 0 .. NumWallets \div 2 - 1 |-> RoundTrip(2 * p + 1, 2 * p + 2)], {}),
      Stage("collect", {},
            Sequential([i \in 1 .. NumWallets |-> Transfer(i, 0, Amount)]), {})>>

(* app-session-lifecycle: participant w of pipe p. *)
Member(p, w) == 1 + p * Participants + w

(* The remainder of an equal division goes to one member in turn. *)
buildAllocations(p, operateIdx) ==
    LET share == Amount \div Participants
        heavy == operateIdx % Participants
    IN  [m \in {Member(p, w) : w \in 0 .. Participants - 1} |->
            IF m = Member(p, heavy) THEN Amount - share * (Participants - 1) ELSE share]

preGenerateSigs(p) ==
    LET lead == Member(p, 0)
        id == SessionID({Member(p, w) : w \in 0 .. Participants - 1}, p)
    IN  <<CreateAppSession(lead, id), Deposit(lead, id, 2, Amount)>>
        \o [i \in 1 .. Operates |-> Operate(lead, id, 2 + i, buildAllocations(p, i - 1))]
        \o <<Close(lead, id, 3 + Operates, buildAllocations(p, Operates - 1))>>

AppSessionLifecycle ==
    <<Stage("distribute", {Member(p, 0) : p \in 0 .. AppSessions - 1},
            Sequential([i \in 1 .. AppSessions |-> Transfer(0, Member(i - 1, 0), Amount)]), {}),
      Stage("pipes", {}, [p \in 0 .. AppSessions - 1 |-> preGenerateSigs(p)], {})>>

(* Requests 0 .. TotalReqs-1 dealt to the connections in turn. *)
RunTest(n) ==
    [c \in 0 .. n - 1 |-> [k \in 1 .. Cardinality({i \in 0 .. TotalReqs - 1 : i % n = c}) |-> Ping]]

MethodRegistry ==
    [m \in Methods |->
        CASE m = "transfers" -> TransferStorm
          [] m = "sessions"  -> SessionStorm
          [] m = "roundtrip" -> TransferRoundtrip
          [] m = "lifecycle" -> AppSessionLifecycle
          [] m = "pool"      -> <<Stage("requests", {}, Sequential(<<>>), {})>>]

Current == MethodRegistry[method][stage]

(* What the report divides by. *)
ReportTotal(m) ==
    CASE m = "roundtrip" -> NumWallets * Rounds
      [] m = "lifecycle" -> AppSessions * (Operates + 3)
      [] m = "pool"      -> TotalReqs
      [] OTHER           -> 1

(* What the usage text says the origin needs. *)
OriginNeeds(m) ==
    CASE m \in Storms    -> Amount * TotalNodes(m)
      [] m = "roundtrip" -> Amount * NumWallets
      [] m = "lifecycle" -> Amount * AppSessions
      [] m = "pool"      -> 0

(***************************************************************************)
(* The node, as the calls see it.                                          *)
(***************************************************************************)
(* by's latest state is the one the caller built on. *)
BuildsOnHead(o, seen) == head[o.by] = seen

(* The update is the next version of an open session. *)
Follows(o) ==
    o.id \in DOMAIN session /\ ~session[o.id].closed /\ o.version = session[o.id].version + 1

(* A wallet without a channel asks for one with the SDK's default          *)
(* challenge period, which the node's bounds may exclude.                  *)
HasOrGetsChannel(w) == w \in open \/ limits.channels

(* With the app registry on, the application must be registered. *)
ApplicationAllowed == limits.applications

Accepts(o, seen) ==
    CASE o.call = "Transfer" ->
            HasOrGetsChannel(o.by) /\ BuildsOnHead(o, seen) /\ balance[o.by] >= o.amount
      [] o.call = "Acknowledge" ->
            HasOrGetsChannel(o.by) /\ BuildsOnHead(o, seen) /\ (o.by \in open => o.by \in unsigned)
      [] o.call = "CreateAppSession" -> ApplicationAllowed /\ o.id \notin DOMAIN session
      [] o.call = "SubmitAppSessionDeposit" ->
            Follows(o) /\ o.by \in open /\ BuildsOnHead(o, seen) /\ balance[o.by] >= o.amount
      [] o.call = "Operate" -> Follows(o) /\ SumFunction(o.alloc) = SumFunction(session[o.id].alloc)
      [] o.call = "Close" -> Follows(o) /\ o.alloc = session[o.id].alloc
      [] o.call = "Ping" -> TRUE

(* Sender and receiver get a new state each; the sender's first transfer   *)
(* also opens its channel.                                                 *)
NodeTransfer(o) ==
    /\ o.call = "Transfer"
    /\ balance' = [balance EXCEPT ![o.by] = @ - o.amount, ![o.to] = @ + o.amount]
    /\ head' = [head EXCEPT ![o.by] = @ + 1, ![o.to] = @ + 1]
    /\ open' = open \cup {o.by}
    /\ unsigned' = (unsigned \ {o.by}) \cup {o.to}
    /\ UNCHANGED <<limits, session>>

NodeAcknowledge(o) ==
    /\ o.call = "Acknowledge"
    /\ head' = [head EXCEPT ![o.by] = @ + 1]
    /\ open' = open \cup {o.by}
    /\ unsigned' = unsigned \ {o.by}
    /\ UNCHANGED <<limits, balance, session>>

NodeCreate(o) ==
    /\ o.call = "CreateAppSession"
    /\ session' = (o.id :> [version |-> 1, closed |-> FALSE, alloc |-> [w \in o.id[1] |-> 0]])
                  @@ session
    /\ UNCHANGED <<limits, balance, head, open, unsigned>>

NodeDeposit(o) ==
    /\ o.call = "SubmitAppSessionDeposit"
    /\ balance' = [balance EXCEPT ![o.by] = @ - o.amount]
    /\ head' = [head EXCEPT ![o.by] = @ + 1]
    /\ unsigned' = unsigned \ {o.by}
    /\ session' = [session EXCEPT ![o.id].version = o.version, ![o.id].alloc[o.by] = @ + o.amount]
    /\ UNCHANGED <<limits, open>>

NodeOperate(o) ==
    /\ o.call = "Operate"
    /\ session' = [session EXCEPT ![o.id].version = o.version, ![o.id].alloc = o.alloc]
    /\ UNCHANGED <<limits, balance, head, open, unsigned>>

(* Every member with an allocation gets a release state. *)
NodeClose(o) ==
    LET paid == {w \in DOMAIN o.alloc : o.alloc[w] > 0}
    IN  /\ o.call = "Close"
        /\ balance' = [w \in DOMAIN balance |-> balance[w] + IF w \in paid THEN o.alloc[w] ELSE 0]
        /\ head' = [w \in DOMAIN head |-> head[w] + IF w \in paid THEN 1 ELSE 0]
        /\ unsigned' = unsigned \cup paid
        /\ session' = [session EXCEPT ![o.id].version = o.version, ![o.id].closed = TRUE]
        /\ UNCHANGED <<limits, open>>

NodePing(o) == o.call = "Ping" /\ UNCHANGED nodeVars

NodeApplies(o) ==
    \/ NodeTransfer(o)
    \/ NodeAcknowledge(o)
    \/ NodeCreate(o)
    \/ NodeDeposit(o)
    \/ NodeOperate(o)
    \/ NodeClose(o)
    \/ NodePing(o)

(***************************************************************************)
(* The tester.                                                             *)
(***************************************************************************)
(* The derived wallets may have channels of an earlier run: their keys are *)
(* derived from the origin's.  The node opens new channels when the        *)
(* default challenge period lies within its bounds, and sessions when its  *)
(* app registry is off or has the application.                             *)
Init ==
    /\ method \in Methods
    /\ stage = 0 /\ connected = FALSE /\ job = <<>> /\ failed = 0
    /\ clients = {} /\ expired = FALSE /\ faults = 0 /\ exit = "running"
    /\ balance = [w \in AllNodes |-> IF w = 0 THEN OriginNeeds(method) ELSE 0]
    /\ open \in {{0}, AllNodes}
    /\ limits \in [channels : BOOLEAN, applications : BOOLEAN]
    /\ unsigned = {}
    /\ head = [w \in AllNodes |-> 0]
    /\ session = <<>>

(* Every return closes the clients that are still open. *)
Return(code) ==
    /\ exit' = code
    /\ clients' = {}
    /\ job' = <<>>
    /\ UNCHANGED <<method, stage, connected, failed>>

CanFail == faults < MaxFaults
FaultCounted == faults' = faults + 1 /\ UNCHANGED expired

(* Arguments or environment that do not parse: of runBasic, of runStorm. *)
UsageError ==
    /\ stage = 0 /\ exit = "running" /\ method \notin Storms
    /\ Return("fail")
    /\ UNCHANGED <<expired, faults, nodeVars>>

StormUsageError ==
    /\ stage = 0 /\ exit = "running" /\ method \in Storms
    /\ Return("fail")
    /\ UNCHANGED <<expired, faults, nodeVars>>

ConnectOrigin ==
    /\ stage = 0 /\ exit = "running" /\ method # "pool"
    /\ stage' = 1
    /\ clients' = {0}
    /\ UNCHANGED <<method, connected, job, failed, expired, faults, exit, nodeVars>>

(* Connections that cannot be opened are left out of the pool. *)
CreateClientPool ==
    /\ stage = 0 /\ exit = "running" /\ method = "pool"
    /\ \E n \in 1 .. Connections :
          /\ n < Connections => CanFail
          /\ faults' = faults + IF n < Connections THEN 1 ELSE 0
          /\ clients' = 0 .. n - 1
    /\ stage' = 1
    /\ UNCHANGED <<method, connected, job, failed, expired, exit, nodeVars>>

(* createClient, or every connection of the pool, gave up. *)
ConnectFails ==
    /\ exit = "running" /\ CanFail
    /\ ~connected /\ (IF stage = 0 THEN {0} ELSE Current.connect) # {}
    /\ Return("fail")
    /\ FaultCounted
    /\ UNCHANGED nodeVars

Jobs == IF Current.kind = "requests" THEN RunTest(Cardinality(clients)) ELSE Current.jobs

(* Connect the stage's wallets and start its goroutines. *)
StartStage ==
    /\ exit = "running" /\ stage > 0 /\ ~connected
    /\ connected' = TRUE
    /\ clients' = clients \cup Current.connect
    /\ job' = [g \in DOMAIN Jobs |-> [calls |-> Jobs[g], seen |-> Unread]]
    /\ UNCHANGED <<method, stage, failed, expired, faults, exit, nodeVars>>

(* The storms look at the context before they start a goroutine: one that  *)
(* has not called yet may not have been started.                           *)
SpawnCancelled ==
    /\ exit = "running" /\ connected /\ expired
    /\ Current.kind \in {"forward", "reverse"}
    /\ \E g \in DOMAIN job : job[g].calls = Jobs[g] /\ job[g].seen = Unread
    /\ Return("fail")
    /\ UNCHANGED <<expired, faults, nodeVars>>

Op(g) == Head(job[g].calls)
ChecksContext == Current.kind \in {"distribute", "pairs", "collect", "pipes", "requests"}

(* The goroutine calls: it reads the wallet's latest state. *)
Begin(g) ==
    /\ job[g].calls # <<>> /\ job[g].seen = Unread
    /\ ChecksContext => ~expired
    /\ job' = [job EXCEPT ![g].seen = head[Op(g).by]]
    /\ UNCHANGED <<method, stage, connected, failed, clients, expired, faults, exit, nodeVars>>

Continue(g, rest) ==
    /\ job' = [job EXCEPT ![g] = [calls |-> rest, seen |-> Unread]]
    /\ UNCHANGED <<method, stage, connected, clients, exit>>

(* What each loop does with a context that is done before a call.  The     *)
(* pairs and the pipes leave the results of what they skip empty, which    *)
(* the report counts as successes.                                         *)
Cancelled(g) ==
    /\ job[g].calls # <<>> /\ job[g].seen = Unread
    /\ ChecksContext /\ expired
    /\ CASE Current.kind = "distribute" -> Return("fail")
         [] Current.kind \in {"pairs", "collect"} -> Continue(g, <<>>) /\ UNCHANGED failed
         [] Current.kind = "requests" -> Continue(g, Tail(job[g].calls)) /\ failed' = failed + 1
         [] Current.kind = "pipes" ->
                /\ Continue(g, <<>>)
                /\ failed' = failed + IF job[g].calls = Jobs[g] THEN 0 ELSE Len(job[g].calls)
    /\ UNCHANGED <<expired, faults, nodeVars>>

(* An error of a call: a sequential setup loop returns, a session skips    *)
(* the rest of its results, the other loops go on.                         *)
RecordError(g) ==
    CASE Current.kind \in {"acknowledge", "distribute"} -> Return("fail")
      [] Current.kind \in {"forward", "plateau", "reverse", "pipes"} ->
            Continue(g, <<>>) /\ failed' = failed + Len(job[g].calls)
      [] Current.kind \in {"pairs", "requests"} ->
            Continue(g, Tail(job[g].calls)) /\ failed' = failed + 1
      [] Current.kind = "collect" ->
            Continue(g, Tail(job[g].calls)) /\ UNCHANGED failed

Called(g) == job[g].calls # <<>> /\ job[g].seen # Unread

Answered(g) ==
    /\ Called(g)
    /\ Accepts(Op(g), job[g].seen)
    /\ NodeApplies(Op(g))
    /\ Continue(g, Tail(job[g].calls))
    /\ UNCHANGED <<failed, expired, faults>>

Refused(g) ==
    /\ Called(g)
    /\ ~Accepts(Op(g), job[g].seen)
    /\ RecordError(g)
    /\ UNCHANGED <<expired, faults, nodeVars>>

(* The request is lost. *)
RequestLost(g) ==
    /\ Called(g)
    /\ CanFail /\ ~expired
    /\ RecordError(g)
    /\ FaultCounted
    /\ UNCHANGED nodeVars

(* The token bucket of the connection is empty, which no call can foresee: *)
(* any request may be refused.                                             *)
RateLimited(g) ==
    /\ Called(g)
    /\ CanFail /\ ~expired
    /\ RecordError(g)
    /\ FaultCounted
    /\ UNCHANGED nodeVars

(* The node applied the call and its answer is lost. *)
AnswerLost(g) ==
    /\ Called(g)
    /\ CanFail /\ ~expired
    /\ Accepts(Op(g), job[g].seen)
    /\ NodeApplies(Op(g))
    /\ RecordError(g)
    /\ FaultCounted

(* The context ended the call, sent or not. *)
CallExpired(g) ==
    /\ Called(g) /\ expired
    /\ \/ UNCHANGED nodeVars
       \/ Accepts(Op(g), job[g].seen) /\ NodeApplies(Op(g))
    /\ RecordError(g)
    /\ UNCHANGED <<expired, faults>>

Expire ==
    /\ exit = "running" /\ stage > 0 /\ ~expired
    /\ expired' = TRUE
    /\ UNCHANGED <<method, stage, connected, job, failed, clients, faults, exit, nodeVars>>

(* errorRate > cfg.MaxErrorRate *)
ReportCode == IF failed * 100 > MaxErrorPercent * ReportTotal(method) THEN "fail" ELSE "pass"

(* wg.Wait, then the verdict on the stage or on the whole run. *)
FinishStage ==
    /\ exit = "running" /\ connected
    /\ \A g \in DOMAIN job : job[g].calls = <<>>
    /\ IF method \in Storms /\ failed > 0 THEN Return("fail")
       ELSE IF stage = Len(MethodRegistry[method])
            THEN Return(IF method \in Storms THEN "pass" ELSE ReportCode)
       ELSE /\ stage' = stage + 1
            /\ connected' = FALSE
            /\ job' = <<>>
            /\ clients' = clients \ Current.close
            /\ UNCHANGED <<method, failed, exit>>
    /\ UNCHANGED <<expired, faults, nodeVars>>

Goroutine(g) ==
    \/ Begin(g)
    \/ Cancelled(g)
    \/ Answered(g)
    \/ Refused(g)
    \/ RequestLost(g)
    \/ RateLimited(g)
    \/ AnswerLost(g)
    \/ CallExpired(g)

Next ==
    \/ UsageError
    \/ StormUsageError
    \/ ConnectOrigin
    \/ CreateClientPool
    \/ ConnectFails
    \/ StartStage
    \/ SpawnCancelled
    \/ \E g \in DOMAIN job : Goroutine(g)
    \/ Expire
    \/ FinishStage

Spec == Init /\ [][Next]_vars

(***************************************************************************)
(* Properties.                                                             *)
(***************************************************************************)
(* A wallet, or an open session, holds the funds. *)
FundsHome ==
    /\ balance[0] = OriginNeeds(method)
    /\ \A w \in AllNodes \ {0} : balance[w] = 0
    /\ \A id \in DOMAIN session : session[id].closed

(* A storm that prints PASS, through any interleaving of its goroutines    *)
(* and whatever answers were lost or requests refused on the way, has      *)
(* brought every unit back to the origin and left no session open; a       *)
(* roundtrip, which only warns about what it cannot collect, has when no   *)
(* call was lost or refused by the rate limiter.                           *)
PassMeansFundsHome ==
    exit = "pass" /\ (method \in Storms \/ (method = "roundtrip" /\ faults = 0 /\ ~expired))
        => FundsHome

(* The node's configuration refuses the test what it needs: a channel for  *)
(* a wallet that has none, or sessions of its application.                 *)
NodeForbids ==
    \/ ~limits.channels /\ open # AllNodes
    \/ ~limits.applications /\ method \in {"sessions", "lifecycle"}

(* The nonces of the plateau's two directions meet from cycle 101 on.      *)
NoncesMeet == method = "sessions" /\ Cycles > 100

(* The pipes of a lifecycle whose leads never had a channel: nothing in    *)
(* that test opens it.                                                     *)
LeadsLackChannels ==
    method = "lifecycle" /\ \E p \in 0 .. AppSessions - 1 : Member(p, 0) \notin open

(* The tester is never the cause of an error it reports: no two goroutines *)
(* of a stage advance the same wallet, every payer has what it pays when   *)
(* its turn comes (the origin starting with exactly what the usage text    *)
(* asks for), a depositor has its channel, no session id is used twice.    *)
(* What remains is a call that was lost or rate limited, the context, a    *)
(* node configured to refuse what the test needs, and the two limits of    *)
(* the tester itself named above.                                          *)
OnlyFaultsFail ==
    failed > 0 => faults > 0 \/ expired \/ NodeForbids \/ NoncesMeet \/ LeadsLackChannels
=============================================================================
