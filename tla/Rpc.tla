--------------------------------- MODULE Rpc ---------------------------------
(***************************************************************************)
(* The request/response transport (pkg/rpc): the client's dialer           *)
(* (dialer.go), the server's connections, hub and request loop             *)
(* (connection.go, connection_hub.go, node.go) and the middleware chain of *)
(* the router (context.go, clearnode/api/rpc_router.go).                   *)
(*                                                                         *)
(* Every goroutine is an actor: per connection the client has a reader and *)
(* a closer, the server a reader, a writer, a watcher for the close signal *)
(* and the request loop.  One client dials again after its connection has  *)
(* ended; MaxDials bounds how often.  A call is its request id, which the  *)
(* client draws anew for each; a message is a record with that id, and     *)
(* encoding and payloads are left out.  Deadlines are not clocked: a read  *)
(* may time out when the frames that renew its deadline no longer come.    *)
(***************************************************************************)
EXTENDS Naturals, Sequences, FiniteSets

CONSTANTS
  Calls,              \* calls, by request id
  MethodOf,           \* the method each of them calls
  GroupOf,            \* the group of each method
  MaxRebalanceSignedUpdates, AppRegistryEnabled, \* RPCRouterConfig
  MaxDials,           \* bound on connections
  Scopes,             \* bounds on a behaviour: which calls it makes, how often
                      \* it dials and whether the network breaks
  ProcessBufferSize,  \* WsConnProcessBufferSize
  WriteBufferSize,    \* WsConnWriteBufferSize
  EventChanSize       \* capacity of the dialer's event channel

Conns == 1..MaxDials

ASSUME RpcAssumption ==
  /\ \A k \in Calls : MethodOf[k] \in DOMAIN GroupOf
  /\ MaxRebalanceSignedUpdates \in Nat /\ AppRegistryEnabled \in BOOLEAN
  /\ Scopes \subseteq [calls : SUBSET Calls, dials : 0..MaxDials, breaks : BOOLEAN]
  /\ MaxDials \in Nat /\ EventChanSize \in Nat
  /\ ProcessBufferSize \in Nat \ {0} /\ WriteBufferSize \in Nat \ {0}

VARIABLES
  scope,          \* the bounds of this behaviour
  \* the dialer
  dialCtx,        \* the current connection, 0 before the first
  ctx,            \* each connection's context: "none", "live" or "done"
  reader,         \* its readMessages: "off", "reading", "routing" a message
                  \* to the sink it has looked up, or "done"
  closer,         \* its closeOnContextDone: "off", "waiting", "closing", "done"
  responseSinks,  \* the calls with a registered sink
  sink,           \* each call's sink: "empty", "closed" or an answer
  eventCh,        \* messages no call was waiting for
  calls,          \* each call: where it is, on which connection, its result
  crashed,        \* the client's process has panicked
  \* the network
  requests,       \* what travels to the server on each connection
  responses,      \* what travels back
  clientOpen,     \* connections whose socket the client holds open
  broken,         \* connections the network has dropped
  \* the server
  connections,    \* the hub's connections
  sourceMap,      \* the hub's count of the client's origin
  serverOpen,     \* connections whose socket the server holds open
  serve,          \* each connection's goroutines, queues and signals
  proc,           \* its request loop: "off", "waiting", "handling" a request,
                  \* "writing" its response, or "done"
  handled         \* history: the connections on which each call was handled

client == <<scope, dialCtx, ctx, reader, closer, responseSinks, sink, eventCh, calls, crashed>>
network == <<requests, responses, clientOpen, broken>>
server == <<connections, sourceMap, serverOpen, serve, proc, handled>>
vars == <<client, network, server>>

Workers == {"read", "write", "watch"}

\* What Serve starts a connection with.  stopped are the workers that have
\* returned, counted the ones of them that called handleClosure.
Fresh == [stopped |-> {}, counted |-> {}, processSink |-> <<>>, sinkClosed |-> FALSE,
          writeSink |-> <<>>, closeConnCh |-> FALSE, parentDone |-> FALSE]

Init ==
  /\ scope \in Scopes
  /\ dialCtx = 0
  /\ ctx = [c \in Conns |-> "none"]
  /\ reader = [c \in Conns |-> [at |-> "off"]]
  /\ closer = [c \in Conns |-> "off"]
  /\ responseSinks = {}
  /\ sink = [k \in Calls |-> "empty"]
  /\ eventCh = <<>>
  /\ calls = [k \in Calls |-> [pc |-> "idle", conn |-> 0, result |-> "none"]]
  /\ crashed = FALSE
  /\ requests = [c \in Conns |-> <<>>]
  /\ responses = [c \in Conns |-> <<>>]
  /\ clientOpen = {} /\ broken = {}
  /\ connections = {}
  /\ sourceMap = 0 /\ serverOpen = {}
  /\ serve = [c \in Conns |-> Fresh]
  /\ proc = [c \in Conns |-> [at |-> "off"]]
  /\ handled = [k \in Calls |-> <<>>]

-------------------------------------------------------------------------------
(* The dialer *)

\* ConnectionHub.Add
Add(c) ==
  /\ connections' = connections \union {c}
  /\ sourceMap' = sourceMap + 1

\* The server upgrades the request and starts the connection's goroutines.
ServeHTTP(c) ==
  /\ Add(c)
  /\ serverOpen' = serverOpen \union {c}
  /\ proc' = [proc EXCEPT ![c] = [at |-> "waiting"]]

\* All three workers have called handleClosure: Serve calls its own, which ends
\* the request loop's context.
Served(c) == serve[c].counted = Workers

IsConnected == dialCtx # 0 /\ ctx[dialCtx] = "live"

Dial ==
  LET c == dialCtx + 1
  IN  /\ ~crashed /\ ~IsConnected /\ dialCtx < scope.dials
      /\ dialCtx' = c
      /\ ctx' = [ctx EXCEPT ![c] = "live"]
      /\ reader' = [reader EXCEPT ![c] = [at |-> "reading"]]
      /\ closer' = [closer EXCEPT ![c] = "waiting"]
      /\ eventCh' = <<>>
      /\ clientOpen' = clientOpen \union {c}
      /\ ServeHTTP(c)
      /\ UNCHANGED <<scope, responseSinks, sink, calls, crashed, requests, responses, broken,
                     serve, handled>>

\* The context the application dialled with is cancelled.
Cancel ==
  /\ ~crashed /\ IsConnected
  /\ ctx' = [ctx EXCEPT ![dialCtx] = "done"]
  /\ UNCHANGED <<scope, dialCtx, reader, closer, responseSinks, sink, eventCh,
                 calls, crashed, network, server>>

\* Mutation: the closer waits for the reader, which waits for the socket.
CloserClosesLast(c) ==
  /\ ~crashed /\ closer[c] = "waiting" /\ ctx[c] = "done" /\ reader[c].at = "done"
  /\ closer' = [closer EXCEPT ![c] = "closing"]
  /\ clientOpen' = clientOpen \ {dialCtx}
  /\ UNCHANGED <<scope, dialCtx, ctx, reader, responseSinks, sink, eventCh, calls,
                 crashed, requests, responses, broken, server>>

\* The socket of the connection that is current when the closer runs is closed.
CloserCloses(c) ==
  /\ ~crashed /\ closer[c] = "waiting" /\ ctx[c] = "done"
  /\ closer' = [closer EXCEPT ![c] = "closing"]
  /\ clientOpen' = clientOpen \ {dialCtx}
  /\ UNCHANGED <<scope, dialCtx, ctx, reader, responseSinks, sink, eventCh, calls,
                 crashed, requests, responses, broken, server>>

\* Every registered sink is closed, of whichever connection its call is.
CloserCleans(c) ==
  /\ ~crashed /\ closer[c] = "closing"
  /\ closer' = [closer EXCEPT ![c] = "done"]
  /\ sink' = [k \in Calls |-> IF k \in responseSinks THEN "closed" ELSE sink[k]]
  /\ responseSinks' = {}
  /\ UNCHANGED <<scope, dialCtx, ctx, reader, eventCh, calls, crashed, network, server>>

closeOnContextDone(c) == CloserCloses(c) \/ CloserCleans(c)

\* No ping comes once the server's writer is gone or the network is.
NoPings(c) == c \in broken \/ "write" \in serve[c].stopped

ReadFails(c) ==
  \/ c \notin clientOpen
  \/ responses[c] = <<>> /\ c \notin serverOpen
  \/ NoPings(c)

ReaderStops(c) ==
  /\ reader' = [reader EXCEPT ![c] = [at |-> "done"]]
  /\ ctx' = [ctx EXCEPT ![c] = "done"]

\* A message was read after the context was done, or reading failed.
ReaderReturns(c) ==
  /\ ~crashed /\ reader[c].at = "reading"
  /\ \/ ReadFails(c) /\ UNCHANGED responses
     \/ /\ responses[c] # <<>> /\ ctx[c] = "done"
        /\ responses' = [responses EXCEPT ![c] = Tail(@)]
  /\ ReaderStops(c)
  /\ UNCHANGED <<scope, dialCtx, closer, responseSinks, sink, eventCh, calls, crashed,
                 requests, clientOpen, broken, server>>

\* Mutation: any waiting call takes the answer.
SinkOfAny(id) == IF responseSinks # {} THEN CHOOSE k \in responseSinks : TRUE ELSE 0

\* Where a message goes: the sink of its request if there is one, else the
\* event channel (0).
SinkOf(id) == IF id \in responseSinks THEN id ELSE 0

ReaderLooksUp(c) ==
  /\ ~crashed /\ reader[c].at = "reading" /\ c \in clientOpen
  /\ responses[c] # <<>> /\ ctx[c] # "done"
  /\ reader' = [reader EXCEPT ![c] = [at |-> "routing", msg |-> Head(responses[c]),
                                      sink |-> SinkOf(Head(responses[c]).id)]]
  /\ responses' = [responses EXCEPT ![c] = Tail(@)]
  /\ UNCHANGED <<scope, dialCtx, ctx, closer, responseSinks, sink, eventCh, calls,
                 crashed, requests, clientOpen, broken, server>>

\* The select of readMessages: leaves if the context is done; sends if there is
\* room, and panics if the sink was closed since it was looked up; drops the
\* message if there is none.  Of two cases that are ready either is taken.
ReaderRoutes(c) ==
  LET m == reader[c].msg
      k == reader[c].sink
      goesOn == reader' = [reader EXCEPT ![c] = [at |-> "reading"]]
  IN  /\ ~crashed /\ reader[c].at = "routing"
      /\ \/ /\ ctx[c] = "done" /\ ReaderStops(c)
            /\ UNCHANGED <<sink, eventCh, crashed, broken>>
         \/ /\ k = 0 /\ Len(eventCh) < EventChanSize
            /\ eventCh' = Append(eventCh, m)
            /\ goesOn /\ UNCHANGED <<ctx, sink, crashed, broken>>
         \/ /\ k # 0 /\ sink[k] = "empty"
            /\ sink' = [sink EXCEPT ![k] = m.answer]
            /\ goesOn /\ UNCHANGED <<ctx, eventCh, crashed, broken>>
         \/ /\ k # 0 /\ sink[k] = "closed"
            /\ crashed' = TRUE
            /\ broken' = broken \union clientOpen
            /\ UNCHANGED <<reader, ctx, sink, eventCh>>
         \/ /\ ctx[c] # "done"
            /\ IF k = 0 THEN Len(eventCh) = EventChanSize
                        ELSE sink[k] \notin {"empty", "closed"}
            /\ goesOn /\ UNCHANGED <<ctx, sink, eventCh, crashed, broken>>
      /\ UNCHANGED <<scope, dialCtx, closer, responseSinks, calls,
                     requests, responses, clientOpen, server>>

readMessages(c) == ReaderReturns(c) \/ ReaderLooksUp(c) \/ ReaderRoutes(c)

\* Both goroutines have returned: Dial's handleClosure is called.
HandledClosure(c) == reader[c].at = "done" /\ closer[c] = "done"

-------------------------------------------------------------------------------
(* A call *)

At(k, pc) == ~crashed /\ calls[k].pc = pc

Register(k) ==
  /\ At(k, "idle") /\ k \in scope.calls
  /\ IF IsConnected
     THEN /\ calls' = [calls EXCEPT ![k] = [@ EXCEPT !.pc = "writing", !.conn = dialCtx]]
          /\ responseSinks' = responseSinks \union {k}
     ELSE /\ calls' = [calls EXCEPT ![k] = [@ EXCEPT !.pc = "returned",
                                                     !.result = "not connected"]]
          /\ UNCHANGED responseSinks
  /\ UNCHANGED <<scope, dialCtx, ctx, reader, closer, sink, eventCh, crashed, network, server>>

\* Writing fails on a closed socket; what a broken network takes is lost.
Write(k) ==
  LET c == calls[k].conn
  IN  /\ At(k, "writing")
      /\ IF c \in clientOpen
         THEN /\ calls' = [calls EXCEPT ![k].pc = "waiting"]
              /\ requests' = IF c \in broken THEN requests
                             ELSE [requests EXCEPT ![c] = Append(@, [id |-> k])]
              /\ UNCHANGED responseSinks
         ELSE /\ calls' = [calls EXCEPT ![k] = [@ EXCEPT !.pc = "returned",
                                                         !.result = "send error"]]
              /\ responseSinks' = responseSinks \ {k}
              /\ UNCHANGED requests
      /\ UNCHANGED <<scope, dialCtx, ctx, reader, closer, sink, eventCh, crashed,
                     responses, clientOpen, broken, server>>

\* The call's own context is cancelled or past its deadline.
TimesOut(k) ==
  /\ At(k, "waiting")
  /\ calls' = [calls EXCEPT ![k] = [@ EXCEPT !.pc = "leaving", !.result = "no response"]]
  /\ UNCHANGED <<scope, dialCtx, ctx, reader, closer, responseSinks, sink, eventCh,
                 crashed, network, server>>

\* Mutation: a call waits for its answer alone.
WakesAnswered(k, result) ==
  sink[k] \notin {"empty", "closed"} /\ result = sink[k]

\* The connection ends or the sink has something: of both, either is taken.
Wakes(k, result) ==
  \/ ctx[calls[k].conn] = "done" /\ result = "no response"
  \/ sink[k] = "closed" /\ result = "no response"
  \/ sink[k] \notin {"empty", "closed"} /\ result = sink[k]

Wait(k) ==
  /\ At(k, "waiting")
  /\ \E result \in {"no response", "ok", "error"} :
       /\ Wakes(k, result)
       /\ calls' = [calls EXCEPT ![k] = [@ EXCEPT !.pc = "leaving", !.result = result]]
  /\ UNCHANGED <<scope, dialCtx, ctx, reader, closer, responseSinks, sink, eventCh,
                 crashed, network, server>>

Leave(k) ==
  /\ At(k, "leaving")
  /\ calls' = [calls EXCEPT ![k].pc = "returned"]
  /\ responseSinks' = responseSinks \ {k}
  /\ UNCHANGED <<scope, dialCtx, ctx, reader, closer, sink, eventCh, crashed,
                 network, server>>

Call(k) == Write(k) \/ Wait(k) \/ Leave(k)

-------------------------------------------------------------------------------
(* The network: external *)

Break(c) ==
  /\ scope.breaks /\ c \in clientOpen /\ c \notin broken
  /\ broken' = broken \union {c}
  /\ requests' = [requests EXCEPT ![c] = <<>>]
  /\ responses' = [responses EXCEPT ![c] = <<>>]
  /\ UNCHANGED <<clientOpen, client, server>>

-------------------------------------------------------------------------------
(* The server's connection *)

Started(c) == proc[c].at # "off"

Running(c, w) == Started(c) /\ w \notin serve[c].stopped

\* The context of the workers is done once one of them has called
\* handleClosure, or the request loop has.
ParentDone(c) == serve[c].parentDone \/ Served(c)

ChildDone(c) == serve[c].counted # {} \/ ParentDone(c)

\* Workers return through handleClosure.
Stop(c, w) ==
  [serve[c] EXCEPT !.stopped = @ \union w, !.counted = @ \union w]

\* No pong comes when no ping goes out or the client does not read.
NoPongs(c) == NoPings(c) \/ reader[c].at = "done"

ServerReadFails(c) ==
  \/ c \notin serverOpen
  \/ requests[c] = <<>> /\ c \notin clientOpen
  \/ NoPongs(c)

\* A request is queued; when the queue is full the close signal is given and
\* the reader returns without handleClosure.
Enqueued(c, m) ==
  IF Len(serve[c].processSink) < ProcessBufferSize
  THEN [serve[c] EXCEPT !.processSink = Append(@, m)]
  ELSE [serve[c] EXCEPT !.closeConnCh = TRUE, !.sinkClosed = TRUE,
                        !.stopped = @ \union {"read"}]

ServerReads(c) ==
  /\ Running(c, "read")
  /\ \/ /\ ServerReadFails(c)
        /\ serve' = [serve EXCEPT ![c] = [Stop(c, {"read"}) EXCEPT !.sinkClosed = TRUE]]
        /\ UNCHANGED requests
     \/ /\ c \in serverOpen /\ requests[c] # <<>>
        /\ serve' = [serve EXCEPT ![c] = Enqueued(c, Head(requests[c]))]
        /\ requests' = [requests EXCEPT ![c] = Tail(@)]
  /\ UNCHANGED <<client, responses, clientOpen, broken,
                 connections, sourceMap, serverOpen, proc, handled>>

\* Writing to a socket that is gone fails: a ping then stops the writer, while
\* a response is only dropped.
SocketGone(c) == c \in broken \/ c \notin clientOpen \/ c \notin serverOpen

WriterStops(c) ==
  /\ Running(c, "write") /\ SocketGone(c)
  /\ serve' = [serve EXCEPT ![c] = Stop(c, {"write"})]
  /\ UNCHANGED <<client, network, connections, sourceMap, serverOpen, proc, handled>>

WriterWrites(c) ==
  /\ Running(c, "write") /\ serve[c].writeSink # <<>>
  /\ serve' = [serve EXCEPT ![c].writeSink = Tail(@)]
  /\ responses' = IF SocketGone(c) THEN responses
                  ELSE [responses EXCEPT ![c] = Append(@, Head(serve[c].writeSink))]
  /\ UNCHANGED <<client, requests, clientOpen, broken, connections, sourceMap, serverOpen, proc, handled>>

\* The close signal.
waitForConnClose(c) ==
  /\ Running(c, "watch") /\ serve[c].closeConnCh
  /\ serve' = [serve EXCEPT ![c] = [Stop(c, {"watch"}) EXCEPT !.closeConnCh = FALSE]]
  /\ UNCHANGED <<client, network, connections, sourceMap, serverOpen, proc, handled>>

\* The writer and the watcher see that the context is done.
WorkersLeave(c) ==
  /\ Started(c) /\ ChildDone(c) /\ ~({"write", "watch"} \subseteq serve[c].stopped)
  /\ serve' = [serve EXCEPT ![c] = Stop(c, {"write", "watch"})]
  /\ UNCHANGED <<client, network, connections, sourceMap, serverOpen, proc, handled>>

\* A ready message, a failing ping and a done context: the select of
\* writeMessages takes any.
writeMessages(c) == WriterStops(c) \/ WriterWrites(c) \/ WorkersLeave(c)

-------------------------------------------------------------------------------
(* The request loop *)

\* Whether the connection's bucket has a token depends on the time since the
\* requests before: it may or may not.
RateLimitMiddleware == BOOLEAN

\* Whether handler h of a chain may go on to the next.
Passes(h) ==
  CASE h = "observability"  -> {TRUE}
    [] h = "rate limit"     -> RateLimitMiddleware
    [] h = "disabled group" -> {FALSE}
    [] h = "handler"        -> {FALSE}

\* The handlers of a chain that may run: Next calls them in order, as long as
\* each calls it again.
Ran(chain) == {i \in DOMAIN chain : \A j \in 1..(i - 1) : TRUE \in Passes(chain[j])}

\* NewRPCRouter: what Use gave each group, the node's own first.
HandlerChain ==
  [node |-> <<"observability", "rate limit">>,
   apps |-> IF AppRegistryEnabled THEN <<>> ELSE <<"disabled group">>]

Registered(method) == method = "rebalance" => MaxRebalanceSignedUpdates >= 2

\* The handlers of a method: the middleware of the node and of its group, and
\* its own; none if it is not registered.
RouteHandlers(method) ==
  LET group == GroupOf[method]
  IN  IF ~Registered(method) THEN <<>>
      ELSE HandlerChain.node
           \o (IF group \in DOMAIN HandlerChain THEN HandlerChain[group] ELSE <<>>)
           \o <<"handler">>

\* A method's own handler succeeds or fails; anything before it can only fail,
\* and a method without handlers is unknown.
Answers(chain) ==
  {"error"} \union (IF \E i \in Ran(chain) : chain[i] = "handler" THEN {"ok"} ELSE {})

Takes(c) ==
  /\ proc[c].at = "waiting" /\ serve[c].processSink # <<>>
  /\ proc' = [proc EXCEPT ![c] = [at |-> "handling", id |-> Head(serve[c].processSink).id]]
  /\ serve' = [serve EXCEPT ![c].processSink = Tail(@)]
  /\ UNCHANGED handled

\* The handlers run and the response is marshalled; an unknown method is
\* answered with an error at once, and no answer of its own ends the loop when
\* it cannot be queued.
Handles(c) ==
  LET k == proc[c].id
      chain == RouteHandlers(MethodOf[k])
  IN  /\ proc[c].at = "handling"
      /\ \E a \in Answers(chain) :
           proc' = [proc EXCEPT ![c] = [at |-> "writing", id |-> k, answer |-> a,
                                        last |-> chain # <<>>]]
      /\ handled' = [handled EXCEPT ![k] = Append(@, c)]
      /\ UNCHANGED serve

\* Queueing with a timeout: a queue that stays full gives the close signal.
WriteRawResponse(c) ==
  LET m == [id |-> proc[c].id, answer |-> proc[c].answer]
  IN  /\ proc[c].at = "writing"
      /\ \/ /\ Len(serve[c].writeSink) < WriteBufferSize
            /\ serve' = [serve EXCEPT ![c].writeSink = Append(@, m)]
            /\ proc' = [proc EXCEPT ![c] = [at |-> "waiting"]]
         \/ /\ Len(serve[c].writeSink) >= WriteBufferSize
            /\ serve' = [serve EXCEPT ![c].closeConnCh = TRUE,
                                      ![c].parentDone = @ \/ proc[c].last]
            /\ proc' = [proc EXCEPT ![c] = [at |-> IF proc[c].last THEN "done" ELSE "waiting"]]
      /\ UNCHANGED handled

\* The connection is over: the context is done, or the queue closed and empty.
Ends(c) ==
  /\ proc[c].at = "waiting"
  /\ \/ ParentDone(c)
     \/ serve[c].sinkClosed /\ serve[c].processSink = <<>>
  /\ proc' = [proc EXCEPT ![c] = [at |-> "done"]]
  /\ serve' = [serve EXCEPT ![c].parentDone = TRUE]
  /\ UNCHANGED handled

processRequests(c) ==
  /\ Takes(c) \/ Handles(c) \/ WriteRawResponse(c) \/ Ends(c)
  /\ UNCHANGED <<client, network, connections, sourceMap, serverOpen>>

\* ConnectionHub.Remove
Remove(c) ==
  /\ connections' = connections \ {c}
  /\ sourceMap' = IF c \in connections /\ sourceMap > 0 THEN sourceMap - 1 ELSE sourceMap

\* Mutation: the wait group is for one goroutine.
BothDoneOne(c) == proc[c].at = "done"

\* ServeHTTP waits for the workers and the request loop.
BothDone(c) == Served(c) /\ proc[c].at = "done"

\* Closing a socket that is closed already changes nothing.
CloseSocket(c) ==
  /\ c \in serverOpen
  /\ serverOpen' = serverOpen \ {c}
  /\ UNCHANGED <<connections, sourceMap>>

\* After its handleClosure Serve closes the socket, in a goroutine of its own.
ServeCloses(c) ==
  /\ Served(c) /\ CloseSocket(c)
  /\ UNCHANGED <<serve, proc, handled, client, network>>

\* The deferred calls of ServeHTTP, the last one first: the hub forgets the
\* connection, and then its socket is closed.
ServeHTTPReturns(c) ==
  /\ BothDone(c)
  /\ \/ c \in connections /\ Remove(c) /\ UNCHANGED serverOpen
     \/ c \notin connections /\ CloseSocket(c)
  /\ UNCHANGED <<serve, proc, handled, client, network>>

-------------------------------------------------------------------------------
\* A step of one of the program's goroutines.
Goroutine ==
  \/ \E c \in Conns :
       \/ closeOnContextDone(c)
       \/ readMessages(c)
       \/ ServerReads(c)
       \/ writeMessages(c)
       \/ waitForConnClose(c)
       \/ processRequests(c)
       \/ ServeCloses(c)
       \/ ServeHTTPReturns(c)
  \/ \E k \in Calls : Call(k)

Next ==
  \/ Dial
  \/ Cancel
  \/ \E c \in Conns : Break(c)
  \/ \E k \in Calls : Register(k) \/ TimesOut(k)
  \/ Goroutine

\* The program does not stop while a goroutine can go on.  That is enough, for
\* the steps of a behaviour are finitely many; nothing is assumed of the
\* application, the network or a call's own deadline.
Fairness == WF_vars(Goroutine)

Spec == Init /\ [][Next]_vars /\ Fairness

-------------------------------------------------------------------------------
(* Properties *)

Message == [id : Calls, answer : {"ok", "error"}]

\* The types of the state; queues and channels stay within their capacity.
TypeOK ==
  /\ dialCtx \in 0..MaxDials
  /\ ctx \in [Conns -> {"none", "live", "done"}]
  /\ \A c \in Conns : \/ reader[c].at \in {"off", "reading", "done"}
                      \/ reader[c] \in [at : {"routing"}, msg : Message,
                                        sink : Calls \union {0}]
  /\ closer \in [Conns -> {"off", "waiting", "closing", "done"}]
  /\ responseSinks \subseteq Calls
  /\ sink \in [Calls -> {"empty", "closed", "ok", "error"}]
  /\ Len(eventCh) <= EventChanSize
  /\ \A k \in Calls : calls[k].pc \in {"idle", "writing", "waiting", "leaving", "returned"}
  /\ clientOpen \subseteq Conns /\ broken \subseteq Conns
  /\ connections \subseteq Conns /\ sourceMap \in 0..MaxDials
  /\ serverOpen \subseteq Conns
  /\ \A c \in Conns : /\ serve[c].stopped \subseteq Workers
                      /\ serve[c].counted \subseteq serve[c].stopped
                      /\ Len(serve[c].processSink) <= ProcessBufferSize
                      /\ Len(serve[c].writeSink) <= WriteBufferSize

\* What a caller may conclude from the result of Call: with an answer, the
\* request's handlers ran, once, on the connection it was sent on; refused
\* before sending, they did not run; with no response they ran at most once.
ResultsAreTrue ==
  \A k \in Calls :
    /\ handled[k] \in {<<>>, <<calls[k].conn>>}
    /\ calls[k].result \in {"ok", "error"} => handled[k] # <<>>
    /\ calls[k].result \in {"not connected", "send error"} => handled[k] = <<>>

\* What a connection holds is given back in order.  The hub counts the
\* connections it has, a connection it has removed has no goroutine left, and
\* no goroutine is left to read or write a socket the server has closed,
\* whether Serve or ServeHTTP comes first to close it.
HubIsExact ==
  /\ sourceMap = Cardinality(connections)
  /\ \A c \in Conns : Started(c) =>
       /\ c \notin connections => serve[c].stopped = Workers /\ proc[c].at = "done"
       /\ c \notin serverOpen => serve[c].stopped = Workers

\* Every call returns, whether or not the server answers, the connection holds
\* or the call has a deadline (or the client's process is gone).  Calls are
\* finitely many: there is a time when none is under way.
CallsEnd ==
  (\E k \in Calls : calls[k].pc = "writing")
    ~> (crashed \/ \A k \in Calls : calls[k].pc \in {"idle", "returned"})

\* The server's reader gave up on a full queue without calling handleClosure.
Overflowed(c) == "read" \in serve[c].stopped \ serve[c].counted

\* The closer of a cancelled connection closed the socket of the next one.
Orphaned(c) == closer[c] \in {"closing", "done"} /\ c \in clientOpen /\ reader[c].at # "done"

\* The server has let go of a connection: it is not in the hub and its socket is
\* closed.
Released(c) == c \notin connections /\ c \notin serverOpen

\* When a connection is over, the application is told, the hub forgets it and
\* the server's socket is closed; the exceptions are a connection the server
\* stopped reading on a full queue and one cancelled just before the client
\* dialled again.
ConnectionsEnd ==
  \A c \in Conns :
    ctx[c] = "done" ~>
      \/ HandledClosure(c) /\ Released(c)
      \/ Overflowed(c)
      \/ Orphaned(c)
      \/ crashed /\ Released(c)
===============================================================================
