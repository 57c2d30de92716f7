------------------------------ MODULE Rpc_proofs ------------------------------
(***************************************************************************)
(* The transport, for any number of calls and connections and any sizes of *)
(* its queues: types, what a caller may conclude from a result, and the    *)
(* hub's count of connections.                                             *)
(***************************************************************************)
EXTENDS Rpc, FiniteSetTheorems, TLAPS

-------------------------------------------------------------------------------
(* Types *)

Request == [id : Calls]
Results == {"none", "not connected", "send error", "no response", "ok", "error"}

Fields == {"stopped", "counted", "processSink", "sinkClosed", "writeSink",
           "closeConnCh", "parentDone"}

ServingType(s) ==
  /\ DOMAIN s = Fields
  /\ s.stopped \subseteq Workers /\ s.counted \subseteq s.stopped
  /\ s.processSink \in Seq(Request) /\ Len(s.processSink) <= ProcessBufferSize
  /\ s.writeSink \in Seq(Message) /\ Len(s.writeSink) <= WriteBufferSize

ProcType(p) ==
  \/ p.at \in {"off", "waiting", "done"}
  \/ p.at = "handling" /\ p.id \in Calls
  \/ p.at = "writing" /\ p.id \in Calls /\ p.answer \in {"ok", "error"}

ReaderType(r) ==
  \/ r.at \in {"off", "reading", "done"}
  \/ r \in [at : {"routing"}, msg : Message, sink : Calls \union {0}]

CallType(k) ==
  /\ DOMAIN k = {"pc", "conn", "result"}
  /\ k.pc \in {"idle", "writing", "waiting", "leaving", "returned"}
  /\ k.conn \in 0..MaxDials
  /\ k.result \in Results

ClientTypes ==
  /\ scope \in Scopes
  /\ dialCtx \in 0..MaxDials
  /\ ctx \in [Conns -> {"none", "live", "done"}]
  /\ DOMAIN reader = Conns /\ \A c \in Conns : ReaderType(reader[c])
  /\ closer \in [Conns -> {"off", "waiting", "closing", "done"}]
  /\ responseSinks \subseteq Calls
  /\ sink \in [Calls -> {"empty", "closed", "ok", "error"}]
  /\ eventCh \in Seq(Message) /\ Len(eventCh) <= EventChanSize
  /\ DOMAIN calls = Calls /\ \A k \in Calls : CallType(calls[k])

NetworkTypes ==
  /\ requests \in [Conns -> Seq(Request)]
  /\ responses \in [Conns -> Seq(Message)]
  /\ clientOpen \subseteq Conns /\ broken \subseteq Conns

ServerTypes ==
  /\ connections \subseteq Conns /\ serverOpen \subseteq Conns
  /\ DOMAIN serve = Conns /\ \A c \in Conns : ServingType(serve[c])
  /\ DOMAIN proc = Conns /\ \A c \in Conns : ProcType(proc[c])
  /\ handled \in [Calls -> Seq(Conns)]

Types == ClientTypes /\ NetworkTypes /\ ServerTypes

\* A step leaves the variables of one side alone.
LEMMA SameClient == ClientTypes /\ UNCHANGED client => ClientTypes'
BY DEF ClientTypes, client

\* The network keeps its types while it stays as it is.
LEMMA SameNetwork == NetworkTypes /\ UNCHANGED network => NetworkTypes'
BY DEF NetworkTypes, network

\* So does the server.
LEMMA SameServer == ServerTypes /\ UNCHANGED server => ServerTypes'
BY DEF ServerTypes, server

\* A message goes to the end of a queue or is taken from its front.
LEMMA QueueTypes ==
  ASSUME NEW S, NEW s \in Seq(S)
  PROVE  /\ \A m \in S : Append(s, m) \in Seq(S) /\ Len(Append(s, m)) = Len(s) + 1
         /\ s # <<>> => Head(s) \in S /\ Tail(s) \in Seq(S) /\ Len(Tail(s)) = Len(s) - 1
OBVIOUS

\* The types hold at first.
LEMMA InitTypes == Init => Types
<1> SUFFICES ASSUME Init PROVE Types
  OBVIOUS
<1>1. ClientTypes
  <2>1. \A c \in Conns : ReaderType(reader[c])
    BY DEF Init, ReaderType
  <2>2. \A k \in Calls : CallType(calls[k])
    <3> TAKE k \in Calls
    <3>1. calls[k] = [pc |-> "idle", conn |-> 0, result |-> "none"]
      BY DEF Init
    <3>2. DOMAIN calls[k] = {"pc", "conn", "result"}
      BY <3>1
    <3>3. 0 \in 0..MaxDials
      BY RpcAssumption
    <3> QED
      BY <3>1, <3>2, <3>3 DEF CallType, Results
  <2>3. eventCh \in Seq(Message) /\ Len(eventCh) <= EventChanSize
    BY RpcAssumption DEF Init
  <2> QED
    BY <2>1, <2>2, <2>3, RpcAssumption DEF Init, ClientTypes
<1>2. NetworkTypes
  BY DEF Init, NetworkTypes
<1>3. ServerTypes
  <2>1. ServingType(Fresh)
    BY RpcAssumption DEF ServingType, Fresh, Fields
  <2>2. \A c \in Conns : ServingType(serve[c]) /\ ProcType(proc[c])
    BY <2>1 DEF Init, ProcType
  <2> QED
    BY <2>2 DEF Init, ServerTypes
<1> QED
  BY <1>1, <1>2, <1>3 DEF Types

\* The client dials.
LEMMA DialTypes == Types /\ Dial => Types'
<1> SUFFICES ASSUME Types, Dial PROVE Types'
  OBVIOUS
<1>1. dialCtx + 1 \in Conns
  BY RpcAssumption DEF Dial, Types, ClientTypes, Conns
<1>2. ClientTypes'
  BY <1>1, RpcAssumption DEF Dial, Types, ClientTypes, ReaderType, Conns
<1>3. NetworkTypes'
  BY <1>1 DEF Dial, Types, NetworkTypes
<1>4. ServerTypes'
  BY <1>1 DEF Dial, ServeHTTP, Add, Types, ServerTypes, ProcType
<1> QED
  BY <1>2, <1>3, <1>4 DEF Types

\* The dialer's goroutines.
LEMMA DialerTypes ==
  ASSUME Types, NEW c \in Conns,
         Cancel \/ CloserCloses(c) \/ CloserCleans(c) \/ readMessages(c)
  PROVE  Types'
<1>1. UNCHANGED server
  BY DEF Cancel, CloserCloses, CloserCleans, readMessages, ReaderReturns, ReaderLooksUp,
     ReaderRoutes
<1>2. CASE Cancel
  BY <1>1, <1>2, SameNetwork, SameServer
     DEF Cancel, Types, ClientTypes
<1>3. CASE CloserCloses(c)
  BY <1>1, <1>3, SameServer DEF CloserCloses, Types, ClientTypes, NetworkTypes
<1>4. CASE CloserCleans(c)
  BY <1>1, <1>4, SameServer, SameNetwork DEF CloserCleans, Types, ClientTypes
<1>5. CASE ReaderReturns(c)
  <2>1. NetworkTypes'
    <3>1. responses[c] # <<>> => Tail(responses[c]) \in Seq(Message)
      BY QueueTypes DEF Types, NetworkTypes
    <3> QED
      BY <1>5, <3>1 DEF ReaderReturns, Types, NetworkTypes
  <2>2. ClientTypes'
    BY <1>5 DEF ReaderReturns, ReaderStops, Types, ClientTypes, ReaderType
  <2> QED
    BY <1>1, <2>1, <2>2, SameServer DEF Types
<1>6. CASE ReaderLooksUp(c)
  <2>1. Head(responses[c]) \in Message /\ NetworkTypes'
    BY <1>6, QueueTypes DEF ReaderLooksUp, Types, NetworkTypes
  <2>2. SinkOf(Head(responses[c]).id) \in Calls \union {0}
    BY <2>1 DEF SinkOf, Types, ClientTypes, Message
  <2>3. ClientTypes'
    BY <1>6, <2>1, <2>2 DEF ReaderLooksUp, Types, ClientTypes, ReaderType
  <2> QED
    BY <1>1, <2>1, <2>3, SameServer DEF Types
<1>7. CASE ReaderRoutes(c)
  <2>1. NetworkTypes'
    BY <1>7 DEF ReaderRoutes, Types, NetworkTypes
  <2>2. reader[c].msg \in Message /\ reader[c].sink \in Calls \union {0}
    BY <1>7 DEF ReaderRoutes, Types, ClientTypes, ReaderType
  <2>3. UNCHANGED <<scope, dialCtx, closer, responseSinks, calls>>
    BY <1>7 DEF ReaderRoutes
  <2>4. /\ ctx' \in [Conns -> {"none", "live", "done"}]
        /\ DOMAIN reader' = Conns /\ \A d \in Conns : ReaderType(reader'[d])
    BY <1>7 DEF ReaderRoutes, ReaderStops, Types, ClientTypes, ReaderType
  <2>5. sink' \in [Calls -> {"empty", "closed", "ok", "error"}]
    BY <1>7, <2>2 DEF ReaderRoutes, Types, ClientTypes, Message
  <2>6. eventCh' \in Seq(Message) /\ Len(eventCh') <= EventChanSize
    BY <1>7, <2>2, QueueTypes, RpcAssumption DEF ReaderRoutes, Types, ClientTypes
  <2> QED
    BY <1>1, <2>1, <2>3, <2>4, <2>5, <2>6, SameServer DEF Types, ClientTypes
<1> QED
  BY <1>2, <1>3, <1>4, <1>5, <1>6, <1>7 DEF readMessages

\* The steps of a call.
LEMMA CallTypes ==
  ASSUME Types, NEW k \in Calls, Register(k) \/ TimesOut(k) \/ Call(k)
  PROVE  Types'
<1>1. UNCHANGED server
  BY DEF Register, TimesOut, Call, Write, Wait, Leave
<1>2. UNCHANGED <<scope, dialCtx, ctx, reader, closer, sink, eventCh>>
  BY DEF Register, TimesOut, Call, Write, Wait, Leave
<1>3. responseSinks' \subseteq Calls
  BY DEF Register, TimesOut, Call, Write, Wait, Leave, Types, ClientTypes
<1>4. CallType(calls[k]) /\ DOMAIN calls = Calls /\ dialCtx \in 0..MaxDials
  BY DEF Types, ClientTypes
<1>5. /\ DOMAIN calls' = Calls
      /\ \A j \in Calls \ {k} : calls'[j] = calls[j]
      /\ DOMAIN calls'[k] = {"pc", "conn", "result"}
      /\ calls'[k].pc \in {"writing", "waiting", "leaving", "returned"}
      /\ calls'[k].conn \in {calls[k].conn, dialCtx}
      /\ calls'[k].result \in Results
  <2>1. CASE Register(k)
    <3>1. \/ calls' = [calls EXCEPT ![k] = [@ EXCEPT !.pc = "writing", !.conn = dialCtx]]
          \/ calls' = [calls EXCEPT ![k] = [@ EXCEPT !.pc = "returned",
                                                     !.result = "not connected"]]
      BY <2>1 DEF Register
    <3> QED
      BY <3>1, <1>4 DEF CallType, Results
  <2>2. CASE Write(k)
    <3>1. \/ calls' = [calls EXCEPT ![k].pc = "waiting"]
          \/ calls' = [calls EXCEPT ![k] = [@ EXCEPT !.pc = "returned",
                                                     !.result = "send error"]]
      BY <2>2 DEF Write
    <3> QED
      BY <3>1, <1>4 DEF CallType, Results
  <2>3. CASE Wait(k)
    BY <2>3, <1>4 DEF Wait, CallType, Results
  <2>4. CASE TimesOut(k) \/ Leave(k)
    BY <2>4, <1>4 DEF TimesOut, Leave, CallType, Results
  <2> QED
    BY <2>1, <2>2, <2>3, <2>4 DEF Call
<1>6. \A j \in Calls : CallType(calls'[j])
  <2>1. CallType(calls'[k])
    BY <1>4, <1>5 DEF CallType
  <2> QED
    BY <1>5, <2>1 DEF Types, ClientTypes
<1>7. NetworkTypes'
  <2>1. [id |-> k] \in Request
    BY DEF Request
  <2>2. CASE Write(k)
    <3>1. \A c \in Conns : Append(requests[c], [id |-> k]) \in Seq(Request)
      BY <2>1, QueueTypes DEF Types, NetworkTypes
    <3>2. \/ UNCHANGED requests
          \/ requests' = [requests EXCEPT ![calls[k].conn] =
                                   Append(requests[calls[k].conn], [id |-> k])]
      BY <2>2 DEF Write
    <3>3. requests' \in [Conns -> Seq(Request)]
      <4>1. CASE UNCHANGED requests
        BY <4>1 DEF Types, NetworkTypes
      <4>2. CASE requests' = [requests EXCEPT ![calls[k].conn] =
                                Append(requests[calls[k].conn], [id |-> k])]
        <5>1. DOMAIN requests' = Conns /\ \A c \in Conns : requests'[c] \in Seq(Request)
          BY <3>1, <4>2 DEF Types, NetworkTypes
        <5> QED
          BY <4>2, <5>1 DEF Types, NetworkTypes
      <4> QED
        BY <3>2, <4>1, <4>2
    <3> QED
      BY <2>2, <3>3 DEF Write, Types, NetworkTypes
  <2> QED
    BY <2>2, SameNetwork DEF Register, TimesOut, Call, Wait, Leave, Types
<1> QED
  BY <1>1, <1>2, <1>3, <1>5, <1>6, <1>7, SameServer DEF Types, ClientTypes

\* The network breaks.
LEMMA BreakTypes ==
  ASSUME Types, NEW c \in Conns, Break(c)
  PROVE  Types'
<1>1. NetworkTypes'
  BY DEF Break, Types, NetworkTypes
<1> QED
  BY <1>1, SameClient, SameServer DEF Break, Types

\* What a step of a connection's goroutines writes to its record.
LEMMA OneServed ==
  ASSUME Types, NEW c \in Conns, NEW s, ServingType(s),
         serve' = [serve EXCEPT ![c] = s],
         UNCHANGED <<connections, serverOpen, proc, handled>>
  PROVE  ServerTypes'
BY DEF Types, ServerTypes

\* The steps of the server.
LEMMA ServerTypesKept ==
  ASSUME Types, NEW c \in Conns,
         \/ ServerReads(c) \/ WriterStops(c) \/ WriterWrites(c)
         \/ WorkersLeave(c) \/ waitForConnClose(c)
  PROVE  Types'
<1> DEFINE s == serve[c]
<1>1. UNCHANGED <<client, connections, serverOpen, proc, handled>>
  BY DEF ServerReads, WriterStops, WriterWrites, WorkersLeave, waitForConnClose
<1>2. ServingType(s)
  BY DEF Types, ServerTypes
<1>3. ASSUME NEW w \in SUBSET Workers
      PROVE  /\ ServingType(Stop(c, w))
             /\ ServingType([Stop(c, w) EXCEPT !.closeConnCh = FALSE])
             /\ ServingType([Stop(c, w) EXCEPT !.sinkClosed = TRUE])
  BY <1>2 DEF ServingType, Stop, Fields
<1>5. CASE WriterStops(c)
  <2>1. {"write"} \in SUBSET Workers
    BY DEF Workers
  <2>2. ServingType(Stop(c, {"write"}))
    BY <1>3, <2>1
  <2> QED
    BY <1>1, <1>5, <2>2, OneServed, SameClient, SameNetwork DEF WriterStops, Types
<1>6. CASE WorkersLeave(c)
  <2>1. {"write", "watch"} \in SUBSET Workers
    BY DEF Workers
  <2>2. ServingType(Stop(c, {"write", "watch"}))
    BY <1>3, <2>1
  <2> QED
    BY <1>1, <1>6, <2>2, OneServed, SameClient, SameNetwork DEF WorkersLeave, Types
<1>7. CASE waitForConnClose(c)
  <2>1. {"watch"} \in SUBSET Workers
    BY DEF Workers
  <2>3. ServingType([Stop(c, {"watch"}) EXCEPT !.closeConnCh = FALSE])
    BY <1>3, <2>1
  <2> QED
    BY <1>1, <1>7, <2>3, OneServed, SameClient, SameNetwork DEF waitForConnClose, Types
<1>8. CASE WriterWrites(c)
  <2>1. /\ s.writeSink \in Seq(Message) /\ s.writeSink # <<>>
        /\ Len(s.writeSink) <= WriteBufferSize
    BY <1>2, <1>8 DEF WriterWrites, ServingType
  <2>2. /\ Head(s.writeSink) \in Message /\ Tail(s.writeSink) \in Seq(Message)
        /\ Len(Tail(s.writeSink)) <= WriteBufferSize
    BY <2>1, QueueTypes, RpcAssumption
  <2>4. ServingType([s EXCEPT !.writeSink = Tail(@)])
    BY <1>2, <2>2 DEF ServingType, Fields
  <2>5. Append(responses[c], Head(s.writeSink)) \in Seq(Message)
    BY <2>2, QueueTypes DEF Types, NetworkTypes
  <2>6. NetworkTypes'
    BY <1>8, <2>5 DEF WriterWrites, Types, NetworkTypes
  <2> QED
    BY <1>1, <1>8, <2>4, <2>6, OneServed, SameClient DEF WriterWrites, Types
<1>9. CASE ServerReads(c)
  <2>1. CASE serve' = [serve EXCEPT ![c] = [Stop(c, {"read"}) EXCEPT !.sinkClosed = TRUE]]
             /\ UNCHANGED requests
    <3>1. {"read"} \in SUBSET Workers
      BY DEF Workers
    <3>3. ServingType([Stop(c, {"read"}) EXCEPT !.sinkClosed = TRUE])
      BY <1>3, <3>1
    <3>4. NetworkTypes'
      BY <1>9, <2>1 DEF ServerReads, Types, NetworkTypes
    <3> QED
      BY <1>1, <2>1, <3>3, <3>4, OneServed, SameClient DEF Types
  <2>2. CASE /\ requests[c] # <<>>
             /\ serve' = [serve EXCEPT ![c] = Enqueued(c, Head(requests[c]))]
             /\ requests' = [requests EXCEPT ![c] = Tail(@)]
    <3> DEFINE m == Head(requests[c])
    <3>1. m \in Request /\ Tail(requests[c]) \in Seq(Request)
      BY <2>2, QueueTypes DEF Types, NetworkTypes
    <3>2. NetworkTypes'
      BY <1>9, <2>2, <3>1 DEF ServerReads, Types, NetworkTypes
    <3>3. ServingType(Enqueued(c, m))
      <4>1. CASE Len(s.processSink) < ProcessBufferSize
        <5>2. /\ Append(s.processSink, m) \in Seq(Request)
              /\ Len(Append(s.processSink, m)) <= ProcessBufferSize
          BY <1>2, <3>1, <4>1, RpcAssumption, QueueTypes DEF ServingType
        <5> QED
          BY <1>2, <4>1, <5>2 DEF ServingType, Enqueued, Fields
      <4>2. CASE ~(Len(s.processSink) < ProcessBufferSize)
        BY <1>2, <4>2 DEF ServingType, Enqueued, Fields, Workers
      <4> QED
        BY <4>1, <4>2
    <3> HIDE DEF m
    <3>4. serve' = [serve EXCEPT ![c] = Enqueued(c, m)]
      BY <2>2 DEF m
    <3> QED
      BY <1>1, <3>2, <3>3, <3>4, OneServed, SameClient DEF Types
  <2> QED
    BY <1>9, <2>1, <2>2 DEF ServerReads
<1> QED
  BY <1>5, <1>6, <1>7, <1>8, <1>9

\* The request loop.
LEMMA LoopTypes ==
  ASSUME Types, NEW c \in Conns, processRequests(c)
  PROVE  Types'
<1> DEFINE s == serve[c]
<1>1. UNCHANGED <<client, network, connections, serverOpen>>
  BY DEF processRequests
<1>2. ServingType(s) /\ ProcType(proc[c]) /\ DOMAIN serve = Conns /\ DOMAIN proc = Conns
  BY DEF Types, ServerTypes
<1>3. /\ DOMAIN serve' = Conns /\ \A d \in Conns \ {c} : serve'[d] = serve[d]
      /\ DOMAIN proc' = Conns /\ \A d \in Conns \ {c} : proc'[d] = proc[d]
  BY <1>2 DEF processRequests, Takes, Handles, WriteRawResponse, Ends
<1>4. /\ ServingType(serve'[c]) /\ ProcType(proc'[c])
      /\ handled' \in [Calls -> Seq(Conns)]
  <2>1. CASE Takes(c)
    <3>1. s.processSink \in Seq(Request) /\ s.processSink # <<>>
      BY <1>2, <2>1 DEF ServingType, Takes
    <3>2. /\ Head(s.processSink) \in Request /\ Tail(s.processSink) \in Seq(Request)
          /\ Len(Tail(s.processSink)) <= Len(s.processSink)
      BY <3>1, QueueTypes
    <3>3. ServingType(serve'[c])
      BY <1>2, <2>1, <3>2, RpcAssumption DEF ServingType, Takes, Fields
    <3>4. ProcType(proc'[c])
      BY <1>2, <2>1, <3>2 DEF Takes, ProcType, Request
    <3> QED
      BY <2>1, <3>3, <3>4 DEF Takes, Types, ServerTypes
  <2>2. CASE Handles(c)
    <3>1. proc[c].id \in Calls
      BY <1>2, <2>2 DEF Handles, ProcType
    <3>2. PICK a \in Answers(RouteHandlers(MethodOf[proc[c].id])) :
            proc'[c] = [at |-> "writing", id |-> proc[c].id, answer |-> a,
                        last |-> RouteHandlers(MethodOf[proc[c].id]) # <<>>]
      BY <1>2, <2>2 DEF Handles
    <3>3. a \in {"ok", "error"}
      BY DEF Answers
    <3>4. ProcType(proc'[c])
      BY <3>1, <3>2, <3>3 DEF ProcType
    <3>5. Append(handled[proc[c].id], c) \in Seq(Conns)
      BY <3>1, QueueTypes DEF Types, ServerTypes
    <3>6. handled' \in [Calls -> Seq(Conns)]
      BY <2>2, <3>5 DEF Handles, Types, ServerTypes
    <3> QED
      BY <1>2, <2>2, <3>4, <3>6 DEF Handles
  <2>3. CASE WriteRawResponse(c)
    <3> DEFINE m == [id |-> proc[c].id, answer |-> proc[c].answer]
    <3>1. m \in Message
      BY <1>2, <2>3 DEF WriteRawResponse, ProcType, Message
    <3>2. /\ s.writeSink \in Seq(Message)
          /\ Append(s.writeSink, m) \in Seq(Message)
          /\ Len(Append(s.writeSink, m)) = Len(s.writeSink) + 1
      BY <1>2, <3>1, QueueTypes DEF ServingType
    <3> HIDE DEF m
    <3>3. ServingType(serve'[c])
      <4>1. CASE /\ Len(s.writeSink) < WriteBufferSize
                 /\ serve' = [serve EXCEPT ![c].writeSink = Append(@, m)]
        BY <1>2, <3>2, <4>1, RpcAssumption DEF ServingType, Fields
      <4>2. CASE serve' = [serve EXCEPT ![c].closeConnCh = TRUE,
                                        ![c].parentDone = @ \/ proc[c].last]
        BY <1>2, <4>2 DEF ServingType, Fields
      <4> QED
        BY <2>3, <4>1, <4>2 DEF WriteRawResponse, m
    <3>4. ProcType(proc'[c])
      BY <1>2, <2>3 DEF WriteRawResponse, ProcType
    <3> QED
      BY <2>3, <3>3, <3>4 DEF WriteRawResponse, Types, ServerTypes
  <2>4. CASE Ends(c)
    <3>1. ServingType(serve'[c])
      BY <1>2, <2>4 DEF Ends, ServingType, Fields
    <3> QED
      BY <1>2, <2>4, <3>1 DEF Ends, ProcType, Types, ServerTypes
  <2> QED
    BY <2>1, <2>2, <2>3, <2>4 DEF processRequests
<1>5. ServerTypes'
  BY <1>1, <1>3, <1>4 DEF Types, ServerTypes
<1> QED
  BY <1>1, <1>5, SameClient, SameNetwork DEF Types

\* Serve and ServeHTTP end.
LEMMA ReturnTypes ==
  ASSUME Types, NEW c \in Conns, ServeCloses(c) \/ ServeHTTPReturns(c)
  PROVE  Types'
<1>1. /\ UNCHANGED <<client, network, serve, proc, handled>>
      /\ connections' \subseteq Conns /\ serverOpen' \subseteq Conns
  BY DEF ServeCloses, ServeHTTPReturns, CloseSocket, Remove, Types, ServerTypes
<1>2. ServerTypes'
  BY <1>1 DEF Types, ServerTypes
<1> QED
  BY <1>1, <1>2, SameClient, SameNetwork DEF Types

\* The steps of a behaviour, by the side that takes them.
LEMMA RpcSteps ==
  ASSUME Next
  PROVE  \/ Dial
         \/ Cancel
         \/ \E k \in Calls : Register(k) \/ TimesOut(k) \/ Call(k)
         \/ \E c \in Conns :
              \/ Break(c)
              \/ CloserCloses(c) \/ CloserCleans(c) \/ readMessages(c)
              \/ ServerReads(c) \/ WriterStops(c) \/ WriterWrites(c)
              \/ WorkersLeave(c) \/ waitForConnClose(c)
              \/ processRequests(c)
              \/ ServeCloses(c) \/ ServeHTTPReturns(c)
BY DEF Next, Goroutine, closeOnContextDone, writeMessages

\* Every step keeps the types.
LEMMA StepTypes == Types /\ [Next]_vars => Types'
<1> SUFFICES ASSUME Types, [Next]_vars PROVE Types'
  OBVIOUS
<1>1. CASE UNCHANGED vars
  BY <1>1, SameClient, SameNetwork, SameServer DEF vars, Types
<1>2. CASE Next
  <2>1. CASE Cancel
    <3>1. IsConnected
      BY <2>1 DEF Cancel
    <3>2. dialCtx \in Conns
      BY <3>1, RpcAssumption DEF IsConnected, Types, ClientTypes, Conns
    <3> QED
      BY <2>1, <3>2, DialerTypes
  <2> QED
    BY <1>2, <2>1, RpcSteps, DialTypes, DialerTypes, CallTypes, BreakTypes,
       ServerTypesKept, LoopTypes, ReturnTypes
<1> QED
  BY <1>1, <1>2

\* The types hold throughout.
LEMMA TypesInvariant == Spec => []Types
BY InitTypes, StepTypes, PTL DEF Spec

-------------------------------------------------------------------------------
(* The hub's connections *)

\* The hub's count and what is left of a connection that it has removed or whose
\* socket is closed.  That connections are numbered as they are dialled says that
\* Add meets a new one.
HubInv ==
  /\ sourceMap = Cardinality(connections)
  /\ connections \subseteq 1..dialCtx
  /\ \A c \in Conns : Started(c) /\ c \notin connections =>
       serve[c].stopped = Workers /\ proc[c].at = "done"
  /\ \A c \in Conns : Started(c) /\ c \notin serverOpen => serve[c].stopped = Workers

\* Workers that have stopped stay stopped, and only the hub's own steps and the
\* dialer's touch its table.
LEMMA Goroutines ==
  ASSUME Types, Next, ~Dial, NEW c \in Conns
  PROVE  /\ serve[c].stopped \subseteq serve'[c].stopped
         /\ proc[c].at \in {"off", "done"} => proc'[c] = proc[c]
         /\ dialCtx' = dialCtx
         /\ (\A d \in Conns : ~(ServeCloses(d) \/ ServeHTTPReturns(d))) =>
              UNCHANGED <<connections, sourceMap, serverOpen>>
<1>1. /\ DOMAIN serve = Conns /\ DOMAIN serve[c] = Fields /\ DOMAIN proc = Conns
  BY DEF Types, ServerTypes, ServingType
<1>2. CASE Cancel \/ \E k \in Calls : Register(k) \/ TimesOut(k) \/ Call(k)
  BY <1>2 DEF Cancel, Register, TimesOut, Call, Write, Wait, Leave, server
<1>3. ASSUME NEW d \in Conns,
             Break(d) \/ CloserCloses(d) \/ CloserCleans(d) \/ readMessages(d)
      PROVE  UNCHANGED <<server, dialCtx>>
  BY <1>3 DEF Break, CloserCloses, CloserCleans, readMessages, ReaderReturns, ReaderLooksUp,
     ReaderRoutes, client
<1>4. ASSUME NEW d \in Conns,
             \/ ServerReads(d) \/ WriterStops(d) \/ WriterWrites(d)
             \/ WorkersLeave(d) \/ waitForConnClose(d)
      PROVE  /\ UNCHANGED <<connections, sourceMap, serverOpen, proc, dialCtx>>
             /\ serve[c].stopped \subseteq serve'[c].stopped
  <2>1. UNCHANGED <<connections, sourceMap, serverOpen, proc, dialCtx>>
    BY <1>4 DEF ServerReads, WriterStops, WriterWrites, WorkersLeave, waitForConnClose, client
  <2>2. DOMAIN serve[d] = Fields
    BY DEF Types, ServerTypes, ServingType
  <2>3. \E w : \/ serve' = [serve EXCEPT ![d] = Stop(d, w)]
               \/ serve' = [serve EXCEPT ![d] = [Stop(d, w) EXCEPT !.sinkClosed = TRUE]]
               \/ serve' = [serve EXCEPT ![d] = [Stop(d, w) EXCEPT !.closeConnCh = FALSE]]
               \/ serve' = [serve EXCEPT ![d].writeSink = Tail(@)]
               \/ serve' = [serve EXCEPT ![d] = Enqueued(d, Head(requests[d]))]
    BY <1>4 DEF ServerReads, WriterStops, WriterWrites, WorkersLeave, waitForConnClose
  <2>4. \A w : /\ serve[d].stopped \subseteq Stop(d, w).stopped
               /\ DOMAIN Stop(d, w) = Fields
    BY <2>2 DEF Stop, Fields
  <2>5. \A m : serve[d].stopped \subseteq Enqueued(d, m).stopped
    BY <2>2 DEF Enqueued, Fields
  <2>6. serve[d].stopped \subseteq serve'[d].stopped
    BY <1>1, <2>2, <2>3, <2>4, <2>5 DEF Fields
  <2>7. c # d => serve'[c] = serve[c]
    BY <1>1, <2>3
  <2> QED
    BY <2>1, <2>6, <2>7
<1>5. ASSUME NEW d \in Conns, processRequests(d)
      PROVE  /\ UNCHANGED <<connections, sourceMap, serverOpen, dialCtx>>
             /\ serve[c].stopped \subseteq serve'[c].stopped
             /\ proc[c].at \in {"off", "done"} => proc'[c] = proc[c]
  <2>1. UNCHANGED <<connections, sourceMap, serverOpen, dialCtx>>
    BY <1>5 DEF processRequests, client
  <2>2. DOMAIN serve[d] = Fields
    BY DEF Types, ServerTypes, ServingType
  <2>3. serve[c].stopped \subseteq serve'[c].stopped
    BY <1>1, <1>5, <2>2
       DEF processRequests, Takes, Handles, WriteRawResponse, Ends, Fields
  <2>4. proc[c].at \in {"off", "done"} => proc'[c] = proc[c]
    BY <1>1, <1>5 DEF processRequests, Takes, Handles, WriteRawResponse, Ends
  <2> QED
    BY <2>1, <2>3, <2>4
<1>6. ASSUME NEW d \in Conns, ServeCloses(d) \/ ServeHTTPReturns(d)
      PROVE  UNCHANGED <<serve, proc, dialCtx>>
  BY <1>6 DEF ServeCloses, ServeHTTPReturns, client
<1> QED
  BY <1>2, <1>3, <1>4, <1>5, <1>6, RpcSteps DEF server

\* The client dials.
LEMMA DialHub ==
  ASSUME Types, HubInv, Dial
  PROVE  HubInv'
<1> DEFINE n == dialCtx + 1
<1>1. n \in Conns /\ dialCtx' = n /\ dialCtx \in Nat
  BY RpcAssumption DEF Dial, Types, ClientTypes, Conns
<1>2. /\ connections' = connections \union {n} /\ sourceMap' = sourceMap + 1
      /\ serverOpen' = serverOpen \union {n}
      /\ UNCHANGED serve /\ \A c \in Conns \ {n} : proc'[c] = proc[c]
  <2>1. proc' = [proc EXCEPT ![n] = [at |-> "waiting"]] /\ DOMAIN proc = Conns
    BY DEF Dial, ServeHTTP, Types, ServerTypes
  <2> QED
    BY <2>1 DEF Dial, ServeHTTP, Add
<1>3. n \notin connections /\ connections' \subseteq 1..n
  <2>1. connections \subseteq 1..dialCtx
    BY DEF HubInv
  <2>2. connections' = connections \union {n}
    BY <1>2
  <2> QED
    BY <1>1, <2>1, <2>2
<1>4. IsFiniteSet(connections)
  <2>1. IsFiniteSet(1..dialCtx)
    BY <1>1, FS_Interval
  <2> QED
    BY <2>1, FS_Subset DEF HubInv
<1>5. sourceMap' = Cardinality(connections')
  BY <1>2, <1>3, <1>4, FS_AddElement DEF HubInv
<1>6. \A c \in Conns : Started(c)' /\ c \notin connections' =>
        serve'[c].stopped = Workers /\ proc'[c].at = "done"
  BY <1>2 DEF HubInv, Started
<1>7. \A c \in Conns : Started(c)' /\ c \notin serverOpen' => serve'[c].stopped = Workers
  BY <1>2 DEF HubInv, Started
<1> QED
  BY <1>1, <1>3, <1>5, <1>6, <1>7 DEF HubInv

\* A socket is closed, by Serve or by ServeHTTP, once all the workers are done.
LEMMA CloseHub ==
  ASSUME Types, HubInv, NEW d \in Conns, Served(d), CloseSocket(d),
         UNCHANGED <<serve, proc, dialCtx>>
  PROVE  HubInv'
<1>1. serve[d].stopped = Workers
  BY DEF Served, Types, ServerTypes, ServingType
<1>2. \A c \in Conns : Started(c)' /\ c \notin serverOpen' => serve'[c].stopped = Workers
  BY <1>1 DEF CloseSocket, HubInv, Started
<1> QED
  BY <1>2 DEF CloseSocket, HubInv, Started

\* ServeHTTP removes the connection from the hub.
LEMMA ReturnHub ==
  ASSUME Types, HubInv, NEW d \in Conns, BothDone(d), d \in connections, Remove(d),
         UNCHANGED <<serve, proc, dialCtx, serverOpen>>
  PROVE  HubInv'
<1>1. connections' = connections \ {d}
  BY DEF Remove
<1>2. serve[d].stopped = Workers /\ proc[d].at = "done"
  BY DEF BothDone, Served, Types, ServerTypes, ServingType
<1>3. \A c \in Conns : Started(c)' /\ c \notin connections' =>
        serve'[c].stopped = Workers /\ proc'[c].at = "done"
  BY <1>1, <1>2 DEF HubInv, Started
<1>4. IsFiniteSet(connections)
  <2>1. dialCtx \in Int
    BY RpcAssumption DEF Types, ClientTypes
  <2>2. IsFiniteSet(1..dialCtx)
    BY <2>1, FS_Interval
  <2> QED
    BY <2>2, FS_Subset DEF HubInv
<1>5. Cardinality(connections') = Cardinality(connections) - 1
  BY <1>1, <1>4, FS_RemoveElement
<1>6. Cardinality(connections) \in Nat /\ Cardinality(connections') \in Nat
  BY <1>1, <1>4, FS_CardinalityType, FS_Subset
<1>7. sourceMap' = sourceMap - 1
  BY <1>5, <1>6 DEF Remove, HubInv
<1> QED
  BY <1>1, <1>3, <1>5, <1>7 DEF HubInv, Started

\* The steps that end a connection on the server.
LEMMA EndHub ==
  ASSUME Types, HubInv, NEW d \in Conns, ServeCloses(d) \/ ServeHTTPReturns(d)
  PROVE  HubInv'
<1>1. UNCHANGED <<serve, proc, dialCtx>>
  BY DEF ServeCloses, ServeHTTPReturns, client
<1>2. \/ Served(d) /\ CloseSocket(d)
      \/ BothDone(d) /\ d \in connections /\ Remove(d) /\ UNCHANGED serverOpen
  BY DEF ServeCloses, ServeHTTPReturns, BothDone
<1> QED
  BY <1>1, <1>2, CloseHub, ReturnHub

\* The invariant of the connection hub holds throughout.
LEMMA HubInvariant == Spec => []HubInv
<1>1. Init => HubInv
  BY FS_EmptySet DEF Init, HubInv, Started
<1>2. Types /\ HubInv /\ [Next]_vars => HubInv'
  <2> SUFFICES ASSUME Types, HubInv, [Next]_vars PROVE HubInv'
    OBVIOUS
  <2>1. CASE UNCHANGED vars
    BY <2>1 DEF vars, client, server, HubInv, Started
  <2>2. CASE Next /\ ~Dial /\ \A d \in Conns : ~(ServeCloses(d) \/ ServeHTTPReturns(d))
    <3>1. UNCHANGED <<connections, sourceMap, serverOpen>> /\ dialCtx' = dialCtx
      <4>1. CASE Conns = {}
        BY <2>2, <4>1, RpcSteps DEF Cancel, Register, TimesOut, Call, Write, Wait, Leave, server
      <4>2. CASE Conns # {}
        BY <2>2, <4>2, Goroutines
      <4> QED
        BY <4>1, <4>2
    <3>2. ASSUME NEW c \in Conns, Started(c)', c \notin connections
          PROVE  serve'[c].stopped = Workers /\ proc'[c].at = "done"
      <4>1. /\ serve[c].stopped \subseteq serve'[c].stopped
            /\ proc[c].at \in {"off", "done"} => proc'[c] = proc[c]
        BY <2>2, Goroutines
      <4>2. serve[c].stopped = Workers /\ proc[c].at = "done"
        BY <3>2, <4>1 DEF HubInv, Started
      <4>3. Types'
        BY StepTypes
      <4>4. serve'[c].stopped \subseteq Workers
        BY <4>3 DEF Types, ServerTypes, ServingType
      <4> QED
        BY <4>1, <4>2, <4>4
    <3>3. ASSUME NEW c \in Conns, Started(c)', c \notin serverOpen
          PROVE  serve'[c].stopped = Workers
      <4>1. /\ serve[c].stopped \subseteq serve'[c].stopped
            /\ proc[c].at = "off" => proc'[c] = proc[c]
        BY <2>2, Goroutines
      <4>2. serve[c].stopped = Workers
        BY <3>3, <4>1 DEF HubInv, Started
      <4>3. Types'
        BY StepTypes
      <4>4. serve'[c].stopped \subseteq Workers
        BY <4>3 DEF Types, ServerTypes, ServingType
      <4> QED
        BY <4>1, <4>2, <4>4
    <3> QED
      BY <3>1, <3>2, <3>3 DEF HubInv
  <2> QED
    BY <2>1, <2>2, DialHub, EndHub
<1> QED
  BY <1>1, <1>2, TypesInvariant, PTL DEF Spec

\* What a connection holds on the server is given back in order: the hub's count
\* for its origin is that of the connections it has, one that it has removed has
\* no goroutine left, and none is left on a socket that Serve or ServeHTTP has
\* closed, however closings, timeouts, overflows and new connections interleave
\* (ConnectionHub.Add and Remove, Serve, ServeHTTP).
THEOREM HubCountsItsConnections == Spec => []HubIsExact
<1>1. HubInv => HubIsExact
  BY DEF HubInv, HubIsExact
<1> QED
  BY <1>1, HubInvariant, PTL

\* Every reachable state is well typed: queues and channels stay within their
\* capacity and the hub's count within the connections there can be.
THEOREM TypeCorrect == Spec => []TypeOK
<1>1. Types /\ HubInv => TypeOK
  <2> SUFFICES ASSUME Types, HubInv PROVE TypeOK
    OBVIOUS
  <2>1. sourceMap \in 0..MaxDials
    <3>1. /\ IsFiniteSet(1..MaxDials) /\ Cardinality(1..MaxDials) = MaxDials
      BY RpcAssumption, FS_Interval
    <3>2. connections \subseteq 1..MaxDials
      BY DEF Types, ServerTypes, Conns
    <3>3. Cardinality(connections) <= MaxDials /\ IsFiniteSet(connections)
      BY <3>1, <3>2, FS_Subset
    <3> QED
      BY <3>3, FS_CardinalityType, RpcAssumption DEF HubInv
  <2>2. \A c \in Conns : \/ reader[c].at \in {"off", "reading", "done"}
                         \/ reader[c] \in [at : {"routing"}, msg : Message,
                                           sink : Calls \union {0}]
    BY DEF Types, ClientTypes, ReaderType
  <2>3. \A k \in Calls :
          calls[k].pc \in {"idle", "writing", "waiting", "leaving", "returned"}
    BY DEF Types, ClientTypes, CallType
  <2>4. \A c \in Conns : /\ serve[c].stopped \subseteq Workers
                         /\ serve[c].counted \subseteq serve[c].stopped
                         /\ Len(serve[c].processSink) <= ProcessBufferSize
                         /\ Len(serve[c].writeSink) <= WriteBufferSize
    BY DEF Types, ServerTypes, ServingType
  <2> QED
    BY <2>1, <2>2, <2>3, <2>4 DEF Types, ClientTypes, NetworkTypes, ServerTypes, TypeOK
<1> QED
  BY <1>1, TypesInvariant, HubInvariant, PTL

-------------------------------------------------------------------------------
(* Requests, answers and results *)

Has(q, k) == \E i \in 1..Len(q) : q[i].id = k

NoTwice(q) == \A i, j \in 1..Len(q) : q[i].id = q[j].id => i = j

Handling(c, k) == proc[c].at = "handling" /\ proc[c].id = k

\* The call has given its request to the network, as far as it can tell.
Sent(k) ==
  /\ calls[k].pc \in {"waiting", "leaving", "returned"}
  /\ calls[k].result \notin {"not connected", "send error"}

\* On its way to its handlers a request is in one place only, on the connection
\* of its call, and has not been handled before.
RequestsTravelOnce ==
  \A c \in Conns :
    /\ NoTwice(requests[c]) /\ NoTwice(serve[c].processSink)
    /\ \A k \in Calls :
         /\ Has(requests[c], k) => ~Has(serve[c].processSink, k) /\ ~Handling(c, k)
         /\ Has(serve[c].processSink, k) => ~Handling(c, k)
         /\ Has(requests[c], k) \/ Has(serve[c].processSink, k) \/ Handling(c, k) =>
              Sent(k) /\ calls[k].conn = c /\ handled[k] = <<>>

Answered(h, q) == \A i \in 1..Len(q) : h[q[i].id] # <<>>

\* An answer, wherever it is, comes from the handlers of its call.
AnswersAreGenuine ==
  /\ \A c \in Conns :
       /\ Answered(handled, serve[c].writeSink) /\ Answered(handled, responses[c])
       /\ proc[c].at = "writing" => handled[proc[c].id] # <<>>
       /\ reader[c].at = "routing" =>
            /\ handled[reader[c].msg.id] # <<>>
            /\ reader[c].sink \in {0, reader[c].msg.id}
  /\ \A k \in Calls : sink[k] \in {"ok", "error"} => handled[k] # <<>>

\* What is known of a call that has a result, or none yet.
ResultsFit ==
  \A k \in Calls :
    /\ handled[k] # <<>> => handled[k] = <<calls[k].conn>> /\ Sent(k)
    /\ calls[k].result \in {"ok", "error"} => handled[k] # <<>>
    /\ calls[k].pc \in {"idle", "writing", "waiting"} => calls[k].result = "none"

CallsInv == RequestsTravelOnce /\ AnswersAreGenuine /\ ResultsFit

\* Queues under the operations on them.
LEMMA Enqueue ==
  ASSUME NEW S, NEW q \in Seq(S), NEW m \in S
  PROVE  /\ \A k : Has(Append(q, m), k) <=> Has(q, k) \/ m.id = k
         /\ NoTwice(q) /\ ~Has(q, m.id) => NoTwice(Append(q, m))
         /\ \A h : Answered(h, q) /\ h[m.id] # <<>> => Answered(h, Append(q, m))
<1>1. /\ Len(Append(q, m)) = Len(q) + 1 /\ Len(q) \in Nat
      /\ Append(q, m)[Len(q) + 1] = m
      /\ \A i \in 1..Len(q) : Append(q, m)[i] = q[i]
  OBVIOUS
<1> DEFINE r == Append(q, m)
<1> HIDE DEF r
<1>2. /\ Len(r) = Len(q) + 1 /\ Len(q) \in Nat /\ r[Len(q) + 1] = m
      /\ \A i \in 1..Len(q) : r[i] = q[i]
  BY <1>1 DEF r
<1>3. 1..Len(r) = 1..Len(q) \union {Len(q) + 1} /\ (Len(q) + 1) \notin 1..Len(q)
  BY <1>2
<1>4. \A k : Has(r, k) <=> Has(q, k) \/ m.id = k
  BY <1>2, <1>3 DEF Has
<1>5. NoTwice(q) /\ ~Has(q, m.id) => NoTwice(r)
  BY <1>2, <1>3 DEF NoTwice, Has
<1>6. \A h : Answered(h, q) /\ h[m.id] # <<>> => Answered(h, r)
  BY <1>2, <1>3 DEF Answered
<1> QED
  BY <1>4, <1>5, <1>6 DEF r

\* What is left of a queue after its first message.
LEMMA Dequeue ==
  ASSUME NEW S, NEW q \in Seq(S), q # <<>>
  PROVE  /\ Has(q, Head(q).id)
         /\ \A k : Has(Tail(q), k) => Has(q, k)
         /\ NoTwice(q) => NoTwice(Tail(q)) /\ ~Has(Tail(q), Head(q).id)
         /\ \A h : Answered(h, q) => Answered(h, Tail(q)) /\ h[Head(q).id] # <<>>
<1>1. /\ Len(q) \in Nat \ {0} /\ Len(Tail(q)) = Len(q) - 1 /\ Head(q) = q[1]
      /\ \A i \in 1..(Len(q) - 1) : Tail(q)[i] = q[i + 1]
  OBVIOUS
<1> DEFINE r == Tail(q)
<1> HIDE DEF r
<1>2. /\ Len(q) \in Nat \ {0} /\ Len(r) = Len(q) - 1 /\ Head(q) = q[1]
      /\ \A i \in 1..Len(r) : r[i] = q[i + 1] /\ i + 1 \in 1..Len(q) /\ i + 1 # 1
  BY <1>1 DEF r
<1>3. 1 \in 1..Len(q)
  BY <1>2
<1>4. Has(q, Head(q).id) /\ \A k : Has(r, k) => Has(q, k)
  BY <1>2, <1>3 DEF Has
<1>5. NoTwice(q) => NoTwice(r)
  <2> SUFFICES ASSUME NoTwice(q), NEW i \in 1..Len(r), NEW j \in 1..Len(r),
                      r[i].id = r[j].id
               PROVE  i = j
    BY DEF NoTwice
  <2>1. i + 1 = j + 1
    BY <1>2 DEF NoTwice
  <2> QED
    BY <2>1, <1>2
<1>6. NoTwice(q) => ~Has(r, Head(q).id)
  BY <1>2, <1>3 DEF NoTwice, Has
<1>7. \A h : Answered(h, q) => Answered(h, r) /\ h[Head(q).id] # <<>>
  BY <1>2, <1>3 DEF Answered
<1> QED
  BY <1>4, <1>5, <1>6, <1>7 DEF r

\* Nothing is in an empty queue.
LEMMA EmptyQueue ==
  /\ NoTwice(<<>>) /\ (\A k : ~Has(<<>>, k)) /\ (\A h : Answered(h, <<>>))
<1>1. 1..Len(<<>>) = {}
  OBVIOUS
<1> QED
  BY <1>1 DEF NoTwice, Has, Answered

\* A step that takes requests away, or leaves them, and lets calls go on.
LEMMA TravelFrame ==
  ASSUME RequestsTravelOnce,
         \A c \in Conns : NoTwice(requests'[c]) /\ NoTwice(serve'[c].processSink),
         \A c \in Conns, k \in Calls :
           /\ Has(requests'[c], k) => Has(requests[c], k)
           /\ Has(serve'[c].processSink, k) => Has(serve[c].processSink, k)
           /\ Handling(c, k)' => Handling(c, k),
         \A k \in Calls : Sent(k) => Sent(k)' /\ calls'[k].conn = calls[k].conn,
         UNCHANGED handled
  PROVE  RequestsTravelOnce'
BY DEF RequestsTravelOnce, Handling

\* The same where no request moves.
LEMMA TravelSame ==
  ASSUME RequestsTravelOnce, UNCHANGED <<requests, handled>>,
         \A c \in Conns : /\ serve'[c].processSink = serve[c].processSink
                          /\ proc'[c].at = "handling" => proc'[c] = proc[c],
         \A k \in Calls : Sent(k) => Sent(k)' /\ calls'[k].conn = calls[k].conn
  PROVE  RequestsTravelOnce'
<1>1. \A c \in Conns, k \in Calls : Handling(c, k)' => Handling(c, k)
  BY DEF Handling
<1>2. \A c \in Conns : NoTwice(requests'[c]) /\ NoTwice(serve'[c].processSink)
  BY DEF RequestsTravelOnce
<1> QED
  BY <1>1, <1>2, TravelFrame

\* A step that leaves the answers alone.
LEMMA AnswersSame ==
  ASSUME AnswersAreGenuine, UNCHANGED <<responses, reader, sink, handled>>,
         \A c \in Conns : /\ serve'[c].writeSink = serve[c].writeSink
                          /\ proc'[c].at = "writing" => proc'[c] = proc[c]
  PROVE  AnswersAreGenuine'
BY DEF AnswersAreGenuine

\* Results fit while the calls and what was handled stay.
LEMMA ResultsSame == ResultsFit /\ UNCHANGED <<calls, handled>> => ResultsFit'
BY DEF ResultsFit, Sent

\* What was sent stays sent.
LEMMA SentSame ==
  ASSUME UNCHANGED calls
  PROVE  \A k \in Calls : Sent(k) => Sent(k)' /\ calls'[k].conn = calls[k].conn
BY DEF Sent

\* The invariant of calls holds at first.
LEMMA InitCalls == Init => CallsInv
<1> SUFFICES ASSUME Init PROVE CallsInv
  OBVIOUS
<1>1. RequestsTravelOnce
  BY EmptyQueue DEF Init, RequestsTravelOnce, Fresh, Handling
<1>2. AnswersAreGenuine
  BY EmptyQueue DEF Init, AnswersAreGenuine, Fresh
<1>3. ResultsFit
  BY DEF Init, ResultsFit
<1> QED
  BY <1>1, <1>2, <1>3 DEF CallsInv

\* The dialer routes an answer to the call with its request id and to no other.
LEMMA DialerCalls ==
  ASSUME Types, CallsInv, NEW c \in Conns,
         Cancel \/ CloserCloses(c) \/ CloserCleans(c) \/ readMessages(c)
  PROVE  CallsInv'
<1>1. UNCHANGED <<server, requests, calls>>
  BY DEF Cancel, CloserCloses, CloserCleans, readMessages, ReaderReturns, ReaderLooksUp,
     ReaderRoutes, network
<1>2. RequestsTravelOnce' /\ ResultsFit'
  BY <1>1, TravelSame, SentSame, ResultsSame DEF CallsInv, server
<1>3. CASE Cancel \/ CloserCloses(c)
  <2>1. UNCHANGED <<responses, reader, sink>>
    BY <1>3 DEF Cancel, CloserCloses, network
  <2> QED
    BY <1>1, <1>2, <2>1, AnswersSame DEF CallsInv, server
<1>4. CASE CloserCleans(c)
  <2>1. UNCHANGED <<responses, reader>>
    BY <1>4 DEF CloserCleans, network
  <2>2. \A k \in Calls : sink'[k] \in {"closed", sink[k]}
    BY <1>4 DEF CloserCleans
  <2> QED
    BY <1>1, <1>2, <2>1, <2>2 DEF CallsInv, AnswersAreGenuine, server
<1>5. CASE ReaderReturns(c) \/ ReaderLooksUp(c)
  <2> DEFINE q == responses[c]
  <2>1. UNCHANGED sink /\ DOMAIN reader = Conns /\ q \in Seq(Message)
    BY <1>5 DEF ReaderReturns, ReaderLooksUp, Types, ClientTypes, NetworkTypes
  <2>2. UNCHANGED responses \/ (q # <<>> /\ responses' = [responses EXCEPT ![c] = Tail(q)])
    BY <1>5 DEF ReaderReturns, ReaderLooksUp
  <2>3. \A d \in Conns : Answered(handled, responses'[d])
    <3>1. q # <<>> => Answered(handled, Tail(q))
      BY <2>1, Dequeue DEF CallsInv, AnswersAreGenuine
    <3>2. \A d \in Conns : \/ responses'[d] = responses[d]
                           \/ q # <<>> /\ responses'[d] = Tail(q)
      BY <2>2 DEF Types, NetworkTypes
    <3> QED
      BY <3>1, <3>2 DEF CallsInv, AnswersAreGenuine
  <2>4. \A d \in Conns :
          \/ reader'[d] = reader[d]
          \/ reader'[d].at = "done"
          \/ /\ reader'[d].at = "routing" /\ q # <<>> /\ reader'[d].msg = Head(q)
             /\ reader'[d].sink \in {0, Head(q).id}
    BY <1>5, <2>1 DEF ReaderReturns, ReaderStops, ReaderLooksUp, SinkOf
  <2>5. q # <<>> => handled[Head(q).id] # <<>>
    BY <2>1, Dequeue DEF CallsInv, AnswersAreGenuine
  <2>6. \A d \in Conns : reader'[d].at = "routing" =>
          /\ handled[reader'[d].msg.id] # <<>>
          /\ reader'[d].sink \in {0, reader'[d].msg.id}
    BY <2>4, <2>5 DEF CallsInv, AnswersAreGenuine
  <2> QED
    BY <1>1, <1>2, <2>1, <2>3, <2>6 DEF CallsInv, AnswersAreGenuine, server
<1>6. CASE ReaderRoutes(c)
  <2>1. UNCHANGED responses /\ reader[c].at = "routing" /\ DOMAIN reader = Conns
    BY <1>6 DEF ReaderRoutes, Types, ClientTypes
  <2>2. \A d \in Conns : reader'[d] = reader[d] \/ reader'[d].at \in {"reading", "done"}
    BY <1>6, <2>1 DEF ReaderRoutes, ReaderStops
  <2>3. /\ handled[reader[c].msg.id] # <<>>
        /\ reader[c].sink # 0 => reader[c].sink = reader[c].msg.id
    BY <2>1 DEF CallsInv, AnswersAreGenuine
  <2>4. \/ UNCHANGED sink
        \/ /\ reader[c].sink # 0
           /\ sink' = [sink EXCEPT ![reader[c].sink] = reader[c].msg.answer]
    BY <1>6 DEF ReaderRoutes
  <2>5. \A k \in Calls : sink'[k] \in {"ok", "error"} => handled[k] # <<>>
    BY <2>3, <2>4 DEF CallsInv, AnswersAreGenuine, Types, ClientTypes
  <2> QED
    BY <1>1, <1>2, <2>1, <2>2, <2>5 DEF CallsInv, AnswersAreGenuine, server
<1> QED
  BY <1>3, <1>4, <1>5, <1>6 DEF readMessages

\* The client dials.
LEMMA DialCalls ==
  ASSUME Types, CallsInv, Dial
  PROVE  CallsInv'
<1>1. UNCHANGED <<calls, handled, requests, responses, serve, sink>>
  BY DEF Dial
<1>2. \A c \in Conns : /\ proc'[c] = proc[c] \/ proc'[c].at = "waiting"
                       /\ reader'[c] = reader[c] \/ reader'[c].at = "reading"
  BY DEF Dial, ServeHTTP, Types, ClientTypes, ServerTypes
<1>3. \A c \in Conns :
        /\ proc'[c].at \in {"handling", "writing"} => proc'[c] = proc[c]
        /\ reader'[c].at = "routing" => reader'[c] = reader[c]
  BY <1>2
<1>4. RequestsTravelOnce' /\ ResultsFit'
  BY <1>1, <1>3, TravelSame, SentSame, ResultsSame DEF CallsInv
<1>5. AnswersAreGenuine'
  BY <1>1, <1>3 DEF CallsInv, AnswersAreGenuine
<1> QED
  BY <1>4, <1>5 DEF CallsInv

\* The network breaks.
LEMMA BreakCalls ==
  ASSUME Types, CallsInv, NEW c \in Conns, Break(c)
  PROVE  CallsInv'
<1>1. UNCHANGED <<client, server>>
      /\ requests' = [requests EXCEPT ![c] = <<>>]
      /\ responses' = [responses EXCEPT ![c] = <<>>]
  BY DEF Break
<1>2. \A d \in Conns : /\ requests'[d] = requests[d] \/ requests'[d] = <<>>
                       /\ responses'[d] = responses[d] \/ responses'[d] = <<>>
  BY <1>1 DEF Types, NetworkTypes
<1>3. AnswersAreGenuine'
  BY <1>1, <1>2, EmptyQueue DEF CallsInv, AnswersAreGenuine, client, server
<1>4. \A d \in Conns : NoTwice(requests'[d]) /\ NoTwice(serve'[d].processSink)
  BY <1>1, <1>2, EmptyQueue DEF CallsInv, RequestsTravelOnce, server
<1>5. \A d \in Conns, k \in Calls : /\ Has(requests'[d], k) => Has(requests[d], k)
                                    /\ Handling(d, k)' => Handling(d, k)
  BY <1>1, <1>2, EmptyQueue DEF Handling, server
<1>8. \A d \in Conns : serve'[d].processSink = serve[d].processSink
  BY <1>1 DEF server
<1>9. RequestsTravelOnce /\ UNCHANGED handled
  BY <1>1 DEF CallsInv, server
<1>6. \A k \in Calls : Sent(k) => Sent(k)' /\ calls'[k].conn = calls[k].conn
  BY <1>1, SentSame DEF client
<1>7. RequestsTravelOnce'
  BY <1>4, <1>5, <1>6, <1>8, <1>9, TravelFrame
<1> QED
  BY <1>1, <1>3, <1>7, ResultsSame DEF CallsInv, client, server

\* The server's reader moves a request to the queue of its loop or drops it, its
\* writer an answer to the network.
LEMMA ServerCalls ==
  ASSUME Types, CallsInv, NEW c \in Conns,
         \/ ServerReads(c) \/ WriterStops(c) \/ WriterWrites(c)
         \/ WorkersLeave(c) \/ waitForConnClose(c)
  PROVE  CallsInv'
<1> DEFINE s == serve[c]
<1>1. UNCHANGED <<client, proc, handled>>
  BY DEF ServerReads, WriterStops, WriterWrites, WorkersLeave, waitForConnClose
<1>2. /\ UNCHANGED <<calls, reader, sink>> /\ ResultsFit'
      /\ \A k \in Calls : Sent(k) => Sent(k)' /\ calls'[k].conn = calls[k].conn
  BY <1>1, SentSame, ResultsSame DEF CallsInv, client
<1>3. /\ DOMAIN serve = Conns /\ DOMAIN s = Fields
      /\ s.processSink \in Seq(Request) /\ s.writeSink \in Seq(Message)
      /\ requests \in [Conns -> Seq(Request)] /\ responses \in [Conns -> Seq(Message)]
  BY DEF Types, ServerTypes, ServingType, NetworkTypes
<1>4. \A w : /\ DOMAIN Stop(c, w) = Fields
             /\ Stop(c, w).processSink = s.processSink
             /\ Stop(c, w).writeSink = s.writeSink
  BY <1>3 DEF Stop, Fields
<1>5. ASSUME UNCHANGED <<requests, responses>>, NEW w,
             \/ serve' = [serve EXCEPT ![c] = Stop(c, w)]
             \/ serve' = [serve EXCEPT ![c] = [Stop(c, w) EXCEPT !.sinkClosed = TRUE]]
             \/ serve' = [serve EXCEPT ![c] = [Stop(c, w) EXCEPT !.closeConnCh = FALSE]]
      PROVE  CallsInv'
  <2>1. \A d \in Conns : /\ serve'[d].processSink = serve[d].processSink
                         /\ serve'[d].writeSink = serve[d].writeSink
    <3>1. /\ serve'[c].processSink = s.processSink /\ serve'[c].writeSink = s.writeSink
          /\ \A d \in Conns \ {c} : serve'[d] = serve[d]
      BY <1>3, <1>4, <1>5 DEF Fields
    <3> QED
      BY <3>1
  <2>2. RequestsTravelOnce'
    BY <1>1, <1>2, <1>5, <2>1, TravelSame DEF CallsInv
  <2>3. AnswersAreGenuine'
    BY <1>1, <1>2, <1>5, <2>1, AnswersSame DEF CallsInv
  <2> QED
    BY <1>2, <2>2, <2>3 DEF CallsInv
<1>6. CASE WriterStops(c) \/ WorkersLeave(c) \/ waitForConnClose(c)
  BY <1>5, <1>6 DEF WriterStops, WorkersLeave, waitForConnClose, network
<1>7. CASE WriterWrites(c)
  <2> DEFINE m == Head(s.writeSink)
  <2>1. s.writeSink # <<>> /\ UNCHANGED requests
    BY <1>7 DEF WriterWrites
  <2>2. /\ Answered(handled, s.writeSink) /\ Answered(handled, responses[c])
    BY DEF CallsInv, AnswersAreGenuine
  <2>3. m \in Message /\ handled[m.id] # <<>> /\ Answered(handled, Tail(s.writeSink))
    BY <1>3, <2>1, <2>2, Dequeue, QueueTypes
  <2>4. Answered(handled, Append(responses[c], m))
    BY <1>3, <2>2, <2>3, Enqueue
  <2>5. \A d \in Conns : /\ serve'[d].processSink = serve[d].processSink
                         /\ d # c => serve'[d] = serve[d]
    BY <1>3, <1>7 DEF WriterWrites, Fields
  <2>6. serve'[c].writeSink = Tail(s.writeSink)
    BY <1>3, <1>7 DEF WriterWrites, Fields
  <2>7. \A d \in Conns : \/ responses'[d] = responses[d]
                         \/ d = c /\ responses'[d] = Append(responses[c], m)
    BY <1>3, <1>7 DEF WriterWrites
  <2>8. \A d \in Conns : /\ Answered(handled, serve'[d].writeSink)
                         /\ Answered(handled, responses'[d])
    BY <2>3, <2>4, <2>5, <2>6, <2>7 DEF CallsInv, AnswersAreGenuine
  <2>9. AnswersAreGenuine'
    BY <1>1, <1>2, <2>8 DEF CallsInv, AnswersAreGenuine
  <2>10. RequestsTravelOnce'
    BY <1>1, <1>2, <2>1, <2>5, TravelSame DEF CallsInv
  <2> QED
    BY <1>2, <2>9, <2>10 DEF CallsInv
<1>8. CASE /\ UNCHANGED responses /\ requests[c] # <<>>
           /\ serve' = [serve EXCEPT ![c] = Enqueued(c, Head(requests[c]))]
           /\ requests' = [requests EXCEPT ![c] = Tail(@)]
  <2> DEFINE q == requests[c]
             m == Head(q)
  <2>1. /\ m \in Request /\ m.id \in Calls
        /\ Has(q, m.id) /\ \A k : Has(Tail(q), k) => Has(q, k)
    <3>1. q \in Seq(Request) /\ q # <<>>
      BY <1>3, <1>8
    <3>2. m \in Request
      BY <3>1, QueueTypes
    <3>3. Has(q, m.id) /\ \A k : Has(Tail(q), k) => Has(q, k)
      BY <3>1, Dequeue
    <3> QED
      BY <3>2, <3>3 DEF Request
  <2>2. NoTwice(q) /\ NoTwice(s.processSink)
    BY DEF CallsInv, RequestsTravelOnce
  <2>3. NoTwice(Tail(q)) /\ ~Has(Tail(q), m.id)
    BY <1>3, <1>8, <2>2, Dequeue
  <2>4. ~Has(s.processSink, m.id) /\ ~Handling(c, m.id)
    BY <2>1 DEF CallsInv, RequestsTravelOnce
  <2>5. /\ NoTwice(Append(s.processSink, m))
        /\ \A k : Has(Append(s.processSink, m), k) <=> Has(s.processSink, k) \/ m.id = k
    BY <1>3, <2>1, <2>2, <2>4, Enqueue
  <2>6. /\ Enqueued(c, m).processSink \in {s.processSink, Append(s.processSink, m)}
        /\ Enqueued(c, m).writeSink = s.writeSink
    BY <1>3 DEF Enqueued, Fields
  <2>7. /\ serve'[c] = Enqueued(c, m) /\ requests'[c] = Tail(q)
        /\ \A d \in Conns \ {c} : serve'[d] = serve[d] /\ requests'[d] = requests[d]
    BY <1>3, <1>8
  <2> HIDE DEF m, q
  <2>8. AnswersAreGenuine'
    BY <1>1, <1>2, <1>8, <2>6, <2>7, AnswersSame DEF CallsInv
  <2>9. /\ NoTwice(requests'[c]) /\ NoTwice(serve'[c].processSink)
        /\ \A k : Has(serve'[c].processSink, k) => Has(s.processSink, k) \/ m.id = k
        /\ \A k : Has(requests'[c], k) => Has(q, k) /\ k # m.id
    BY <2>1, <2>2, <2>3, <2>5, <2>6, <2>7
  <2>10. \A d \in Conns, k \in Calls : Handling(d, k)' <=> Handling(d, k)
    BY <1>1 DEF Handling
  <2>11. ASSUME NEW k \in Calls
         PROVE  /\ Has(requests'[c], k) =>
                     ~Has(serve'[c].processSink, k) /\ ~Handling(c, k)'
                /\ Has(serve'[c].processSink, k) => ~Handling(c, k)'
                /\ Has(requests'[c], k) \/ Has(serve'[c].processSink, k)
                     \/ Handling(c, k)' =>
                     Sent(k)' /\ calls'[k].conn = c /\ handled'[k] = <<>>
    <3>1. /\ Has(q, k) => ~Has(s.processSink, k) /\ ~Handling(c, k)
          /\ Has(s.processSink, k) => ~Handling(c, k)
          /\ Has(q, k) \/ Has(s.processSink, k) \/ Handling(c, k) =>
               Sent(k) /\ calls[k].conn = c /\ handled[k] = <<>>
      BY DEF CallsInv, RequestsTravelOnce, q
    <3> QED
      BY <1>1, <1>2, <2>1, <2>4, <2>9, <2>10, <3>1
  <2>12. ASSUME NEW d \in Conns \ {c}
         PROVE  /\ NoTwice(requests'[d]) /\ NoTwice(serve'[d].processSink)
                /\ \A k \in Calls :
                     /\ Has(requests'[d], k) =>
                          ~Has(serve'[d].processSink, k) /\ ~Handling(d, k)'
                     /\ Has(serve'[d].processSink, k) => ~Handling(d, k)'
                     /\ Has(requests'[d], k) \/ Has(serve'[d].processSink, k)
                          \/ Handling(d, k)' =>
                          Sent(k)' /\ calls'[k].conn = d /\ handled'[k] = <<>>
    BY <1>1, <1>2, <2>7, <2>10 DEF CallsInv, RequestsTravelOnce
  <2>13. RequestsTravelOnce'
    BY <2>9, <2>11, <2>12 DEF RequestsTravelOnce
  <2> QED
    BY <1>2, <2>8, <2>13 DEF CallsInv
<1>9. CASE ServerReads(c)
  <2>1. CASE /\ UNCHANGED <<requests, responses>>
             /\ serve' = [serve EXCEPT ![c] = [Stop(c, {"read"}) EXCEPT !.sinkClosed = TRUE]]
    BY <1>5, <2>1
  <2> QED
    BY <1>8, <1>9, <2>1 DEF ServerReads
<1> QED
  BY <1>6, <1>7, <1>9

\* The loop takes a request,
LEMMA TakesCalls ==
  ASSUME Types, CallsInv, NEW c \in Conns, processRequests(c), Takes(c)
  PROVE  CallsInv'
<1> DEFINE s == serve[c]
           q == s.processSink
           m == Head(q)
<1>1. UNCHANGED <<client, network, handled>>
  BY DEF processRequests, Takes
<1>2. /\ UNCHANGED <<calls, reader, sink, requests, responses>> /\ ResultsFit'
      /\ \A k \in Calls : Sent(k) => Sent(k)' /\ calls'[k].conn = calls[k].conn
  BY <1>1, SentSame, ResultsSame DEF CallsInv, client, network
<1>3. /\ DOMAIN serve = Conns /\ DOMAIN s = Fields /\ DOMAIN proc = Conns
      /\ q \in Seq(Request) /\ q # <<>> /\ proc[c].at = "waiting"
  BY DEF Types, ServerTypes, ServingType, Takes
<1>4. /\ proc'[c] = [at |-> "handling", id |-> m.id]
      /\ serve'[c].processSink = Tail(q) /\ serve'[c].writeSink = s.writeSink
      /\ \A d \in Conns \ {c} : serve'[d] = serve[d] /\ proc'[d] = proc[d]
  BY <1>3 DEF Takes, Fields
<1>5. m \in Request
  BY <1>3, QueueTypes
<1>6. /\ Has(q, m.id) /\ \A k : Has(Tail(q), k) => Has(q, k)
  BY <1>3, Dequeue
<1>7. NoTwice(Tail(q)) /\ ~Has(Tail(q), m.id)
  <2>1. NoTwice(q)
    BY DEF CallsInv, RequestsTravelOnce
  <2> QED
    BY <1>3, <2>1, Dequeue
<1>8. m.id \in Calls
  BY <1>5 DEF Request
<1> HIDE DEF m, q
<1>9. AnswersAreGenuine'
  BY <1>1, <1>2, <1>4, AnswersSame DEF CallsInv
<1>10. /\ \A k : Handling(c, k)' <=> k = m.id
       /\ \A d \in Conns \ {c} : \A k : Handling(d, k)' <=> Handling(d, k)
  BY <1>4 DEF Handling
<1>11. ASSUME NEW k \in Calls
       PROVE  /\ Has(requests'[c], k) =>
                   ~Has(serve'[c].processSink, k) /\ ~Handling(c, k)'
              /\ Has(serve'[c].processSink, k) => ~Handling(c, k)'
              /\ Has(requests'[c], k) \/ Has(serve'[c].processSink, k) \/ Handling(c, k)' =>
                   Sent(k)' /\ calls'[k].conn = c /\ handled'[k] = <<>>
  <2>1. /\ Has(requests[c], k) => ~Has(q, k)
        /\ Has(requests[c], k) \/ Has(q, k) =>
             Sent(k) /\ calls[k].conn = c /\ handled[k] = <<>>
    BY DEF CallsInv, RequestsTravelOnce, q
  <2> QED
    BY <1>1, <1>2, <1>4, <1>6, <1>7, <1>10, <2>1
<1>12. ASSUME NEW d \in Conns \ {c}
       PROVE  /\ NoTwice(requests'[d]) /\ NoTwice(serve'[d].processSink)
              /\ \A k \in Calls :
                   /\ Has(requests'[d], k) =>
                        ~Has(serve'[d].processSink, k) /\ ~Handling(d, k)'
                   /\ Has(serve'[d].processSink, k) => ~Handling(d, k)'
                   /\ Has(requests'[d], k) \/ Has(serve'[d].processSink, k)
                        \/ Handling(d, k)' =>
                        Sent(k)' /\ calls'[k].conn = d /\ handled'[k] = <<>>
  BY <1>1, <1>2, <1>4, <1>10 DEF CallsInv, RequestsTravelOnce
<1>13. NoTwice(requests'[c]) /\ NoTwice(serve'[c].processSink)
  BY <1>2, <1>4, <1>7 DEF CallsInv, RequestsTravelOnce
<1>14. RequestsTravelOnce'
  BY <1>11, <1>12, <1>13 DEF RequestsTravelOnce
<1> QED
  BY <1>2, <1>9, <1>14 DEF CallsInv

\* handles it, for the first time,
LEMMA HandlesCalls ==
  ASSUME Types, CallsInv, NEW c \in Conns, processRequests(c), Handles(c)
  PROVE  CallsInv'
<1> DEFINE k == proc[c].id
<1>1. UNCHANGED <<client, network, serve>>
  BY DEF processRequests, Handles
<1>2. /\ UNCHANGED <<calls, reader, sink, requests, responses>>
      /\ \A j \in Calls : (Sent(j) <=> Sent(j)') /\ calls'[j].conn = calls[j].conn
  BY <1>1 DEF client, network, Sent
<1>3. k \in Calls /\ Handling(c, k)
  BY DEF Types, ServerTypes, ProcType, Handles, Handling
<1>4. Sent(k) /\ calls[k].conn = c /\ handled[k] = <<>>
  BY <1>3 DEF CallsInv, RequestsTravelOnce
<1>5. handled' = [handled EXCEPT ![k] = <<c>>]
  <2>1. Append(handled[k], c) = <<c>>
    BY <1>4
  <2> QED
    BY <2>1 DEF Handles
<1>6. /\ handled'[k] = <<c>> /\ handled'[k] # <<>>
      /\ \A j \in Calls \ {k} : handled'[j] = handled[j]
  BY <1>3, <1>5 DEF Types, ServerTypes
<1>7. /\ proc'[c].at = "writing" /\ proc'[c].id = k
      /\ \A d \in Conns \ {c} : proc'[d] = proc[d]
  BY DEF Handles, Types, ServerTypes
<1> HIDE DEF k
<1>8. ResultsFit'
  BY <1>2, <1>4, <1>6 DEF CallsInv, ResultsFit
<1>9. AnswersAreGenuine'
  <2>1. \A j \in Calls : handled[j] # <<>> => handled'[j] # <<>>
    BY <1>6
  <2>2. ASSUME NEW q \in Seq(Message), Answered(handled, q)
        PROVE  Answered(handled', q)
    <3>0. \A i \in 1..Len(q) : q[i] \in Message
      OBVIOUS
    <3>1. \A i \in 1..Len(q) : q[i].id \in Calls
      BY <3>0 DEF Message
    <3> QED
      BY <2>1, <2>2, <3>1 DEF Answered
  <2>3. \A d \in Conns : serve[d].writeSink \in Seq(Message) /\ responses[d] \in Seq(Message)
    BY DEF Types, NetworkTypes, ServerTypes, ServingType
  <2>4. \A d \in Conns : /\ Answered(handled', serve'[d].writeSink)
                         /\ Answered(handled', responses'[d])
    BY <1>1, <1>2, <2>2, <2>3 DEF CallsInv, AnswersAreGenuine
  <2>5. \A d \in Conns : proc'[d].at = "writing" => handled'[proc'[d].id] # <<>>
    <3>1. \A d \in Conns : proc[d].at = "writing" => proc[d].id \in Calls
      BY DEF Types, ServerTypes, ProcType
    <3> QED
      BY <1>6, <1>7, <2>1, <3>1 DEF CallsInv, AnswersAreGenuine
  <2>6. \A d \in Conns : reader'[d].at = "routing" =>
          /\ handled'[reader'[d].msg.id] # <<>>
          /\ reader'[d].sink \in {0, reader'[d].msg.id}
    <3>1. \A d \in Conns : reader[d].at = "routing" => reader[d].msg.id \in Calls
      BY DEF Types, ClientTypes, ReaderType, Message
    <3> QED
      BY <1>2, <2>1, <3>1 DEF CallsInv, AnswersAreGenuine
  <2>7. \A j \in Calls : sink'[j] \in {"ok", "error"} => handled'[j] # <<>>
    BY <1>2, <2>1 DEF CallsInv, AnswersAreGenuine
  <2> QED
    BY <2>4, <2>5, <2>6, <2>7 DEF AnswersAreGenuine
<1>10. \A d \in Conns, j \in Calls : Handling(d, j)' => Handling(d, j) /\ d # c
  BY <1>7 DEF Handling
<1>11. RequestsTravelOnce'
  <2>1. ASSUME NEW d \in Conns, NEW j \in Calls,
               \/ Has(requests[d], j) \/ Has(serve[d].processSink, j)
               \/ Handling(d, j) /\ d # c
        PROVE  Sent(j) /\ calls[j].conn = d /\ handled[j] = <<>> /\ j # k
    <3>1. Sent(j) /\ calls[j].conn = d /\ handled[j] = <<>>
      BY <2>1 DEF CallsInv, RequestsTravelOnce
    <3>2. j = k => d = c
      BY <1>4, <3>1
    <3>3. j # k
      BY <1>3, <2>1, <3>2 DEF CallsInv, RequestsTravelOnce
    <3> QED
      BY <3>1, <3>3
  <2>2. ASSUME NEW d \in Conns, NEW j \in Calls
        PROVE  /\ Has(requests'[d], j) =>
                    ~Has(serve'[d].processSink, j) /\ ~Handling(d, j)'
               /\ Has(serve'[d].processSink, j) => ~Handling(d, j)'
    BY <1>1, <1>2, <1>10 DEF CallsInv, RequestsTravelOnce
  <2>3. ASSUME NEW d \in Conns, NEW j \in Calls,
               Has(requests'[d], j) \/ Has(serve'[d].processSink, j) \/ Handling(d, j)'
        PROVE  Sent(j)' /\ calls'[j].conn = d /\ handled'[j] = <<>>
    BY <1>1, <1>2, <1>6, <1>10, <2>1, <2>3
  <2>4. \A d \in Conns : NoTwice(requests'[d]) /\ NoTwice(serve'[d].processSink)
    BY <1>1, <1>2 DEF CallsInv, RequestsTravelOnce
  <2> QED
    BY <2>2, <2>3, <2>4 DEF RequestsTravelOnce
<1> QED
  BY <1>8, <1>9, <1>11 DEF CallsInv

\* and queues its answer.
LEMMA WritesCalls ==
  ASSUME Types, CallsInv, NEW c \in Conns, processRequests(c), WriteRawResponse(c) \/ Ends(c)
  PROVE  CallsInv'
<1> DEFINE s == serve[c]
           m == [id |-> proc[c].id, answer |-> proc[c].answer]
<1>1. UNCHANGED <<client, network, handled>>
  BY DEF processRequests, WriteRawResponse, Ends
<1>2. /\ UNCHANGED <<calls, reader, sink, requests, responses>> /\ ResultsFit'
      /\ \A k \in Calls : Sent(k) => Sent(k)' /\ calls'[k].conn = calls[k].conn
  BY <1>1, SentSame, ResultsSame DEF CallsInv, client, network
<1>3. /\ DOMAIN serve = Conns /\ DOMAIN s = Fields /\ DOMAIN proc = Conns
      /\ s.writeSink \in Seq(Message)
  BY DEF Types, ServerTypes, ServingType
<1>4. /\ serve'[c].processSink = s.processSink
      /\ proc'[c].at \in {"waiting", "done"}
      /\ \A d \in Conns \ {c} : serve'[d] = serve[d] /\ proc'[d] = proc[d]
  BY <1>3 DEF WriteRawResponse, Ends, Fields
<1>5. \/ serve'[c].writeSink = s.writeSink
      \/ /\ proc[c].at = "writing"
         /\ serve'[c].writeSink = Append(s.writeSink, m)
  BY <1>3 DEF WriteRawResponse, Ends, Fields
<1>6. proc[c].at = "writing" => m \in Message /\ handled[m.id] # <<>>
  BY DEF CallsInv, AnswersAreGenuine, Types, ServerTypes, ProcType, Message
<1>7. proc[c].at = "writing" => Answered(handled, Append(s.writeSink, m))
  <2>1. Answered(handled, s.writeSink)
    BY DEF CallsInv, AnswersAreGenuine
  <2> HIDE DEF m
  <2> QED
    BY <1>3, <1>6, <2>1, Enqueue
<1> HIDE DEF m
<1>8. Answered(handled, serve'[c].writeSink)
  BY <1>5, <1>7 DEF CallsInv, AnswersAreGenuine
<1>9. \A d \in Conns : proc'[d].at \in {"handling", "writing"} => proc'[d] = proc[d]
  BY <1>4
<1>10. \A d \in Conns : serve'[d].processSink = serve[d].processSink
  BY <1>4
<1>11. \A d \in Conns : Answered(handled, serve'[d].writeSink)
  BY <1>4, <1>8 DEF CallsInv, AnswersAreGenuine
<1>12. AnswersAreGenuine'
  BY <1>1, <1>2, <1>9, <1>11 DEF CallsInv, AnswersAreGenuine
<1>13. RequestsTravelOnce'
  BY <1>1, <1>2, <1>9, <1>10, TravelSame DEF CallsInv
<1> QED
  BY <1>2, <1>12, <1>13 DEF CallsInv

\* A call registers, writes, waits and leaves.
LEMMA CallSteps ==
  ASSUME Types, CallsInv, NEW k \in Calls, Register(k) \/ TimesOut(k) \/ Call(k)
  PROVE  CallsInv'
<1>1. UNCHANGED <<server, responses, reader, sink>>
  BY DEF Register, TimesOut, Call, Write, Wait, Leave, network
<1>2. DOMAIN calls = Calls /\ DOMAIN calls[k] = {"pc", "conn", "result"}
  BY DEF Types, ClientTypes, CallType
<1>3. AnswersAreGenuine'
  BY <1>1, AnswersSame DEF CallsInv, server
<1>4. \A j \in Calls \ {k} : calls'[j] = calls[j]
  BY <1>2 DEF Register, TimesOut, Call, Write, Wait, Leave
<1>5. /\ handled[k] # <<>> => handled[k] = <<calls[k].conn>> /\ Sent(k)
      /\ calls[k].result \in {"ok", "error"} => handled[k] # <<>>
      /\ calls[k].pc \in {"idle", "writing", "waiting"} => calls[k].result = "none"
      /\ sink[k] \in {"ok", "error"} => handled[k] # <<>>
  BY DEF CallsInv, ResultsFit, AnswersAreGenuine
<1>6. CASE Register(k)
  <2>1. ~Sent(k) /\ UNCHANGED requests /\ calls[k].result = "none"
    BY <1>5, <1>6 DEF Register, At, Sent, network
  <2>2. \/ calls'[k].pc = "writing" /\ calls'[k].result = "none"
        \/ calls'[k].pc = "returned" /\ calls'[k].result = "not connected"
    <3>1. \/ calls' = [calls EXCEPT ![k] = [@ EXCEPT !.pc = "writing", !.conn = dialCtx]]
          \/ calls' = [calls EXCEPT ![k] = [@ EXCEPT !.pc = "returned",
                                                     !.result = "not connected"]]
      BY <1>6 DEF Register
    <3> QED
      BY <1>2, <2>1, <3>1
  <2>3. ResultsFit'
    BY <1>1, <1>4, <1>5, <2>1, <2>2 DEF CallsInv, ResultsFit, Sent, server
  <2>4. \A j \in Calls : Sent(j) => Sent(j)' /\ calls'[j].conn = calls[j].conn
    BY <1>4, <2>1 DEF Sent
  <2>5. RequestsTravelOnce'
    BY <1>1, <2>1, <2>4, TravelSame DEF CallsInv, server
  <2> QED
    BY <1>3, <2>3, <2>5 DEF CallsInv
<1>7. CASE TimesOut(k) \/ Wait(k) \/ Leave(k)
  <2>1. /\ UNCHANGED requests /\ calls'[k].conn = calls[k].conn
        /\ calls'[k].pc \in {"leaving", "returned"}
        /\ \/ calls'[k].result = calls[k].result /\ calls[k].pc = "leaving"
           \/ calls'[k].result = "no response" /\ calls[k].pc = "waiting"
           \/ /\ calls'[k].result = sink[k] /\ sink[k] \in {"ok", "error"}
              /\ calls[k].pc = "waiting"
    BY <1>2, <1>7 DEF TimesOut, Wait, Wakes, Leave, At, network
  <2>2. Sent(k) => Sent(k)'
    BY <2>1 DEF Sent
  <2>3. ResultsFit'
    BY <1>1, <1>4, <1>5, <2>1, <2>2 DEF CallsInv, ResultsFit, Sent, server
  <2>4. \A j \in Calls : Sent(j) => Sent(j)' /\ calls'[j].conn = calls[j].conn
    BY <1>4, <2>1, <2>2 DEF Sent
  <2>5. RequestsTravelOnce'
    BY <1>1, <2>1, <2>4, TravelSame DEF CallsInv, server
  <2> QED
    BY <1>3, <2>3, <2>5 DEF CallsInv
<1>8. CASE Write(k)
  <2> DEFINE c == calls[k].conn
             m == [id |-> k]
  <2>1. /\ ~Sent(k) /\ calls[k].result = "none" /\ handled[k] = <<>>
        /\ UNCHANGED <<serve, proc, handled>>
    BY <1>1, <1>5, <1>8 DEF Write, At, Sent, server
  <2>2. \A d \in Conns : /\ ~Has(requests[d], k) /\ ~Handling(d, k)
                         /\ ~Has(serve[d].processSink, k)
    BY <2>1 DEF CallsInv, RequestsTravelOnce
  <2>3. /\ calls'[k].conn = c
        /\ \/ calls'[k].pc = "waiting" /\ calls'[k].result = "none"
           \/ /\ calls'[k].pc = "returned" /\ calls'[k].result = "send error"
              /\ UNCHANGED requests
    BY <1>2, <1>8, <2>1 DEF Write
  <2>4. ResultsFit'
    BY <1>4, <1>5, <2>1, <2>3 DEF CallsInv, ResultsFit, Sent
  <2>5. \A j \in Calls : Sent(j) => Sent(j)' /\ calls'[j].conn = calls[j].conn
    BY <1>4, <2>1 DEF Sent
  <2>6. CASE UNCHANGED requests
    <3>1. RequestsTravelOnce'
      BY <1>1, <2>5, <2>6, TravelSame DEF CallsInv, server
    <3> QED
      BY <1>3, <2>4, <3>1 DEF CallsInv
  <2>7. CASE /\ c \in Conns /\ calls'[k].pc = "waiting" /\ calls'[k].result = "none"
             /\ requests' = [requests EXCEPT ![c] = Append(requests[c], m)]
    <3>1. requests[c] \in Seq(Request) /\ m \in Request /\ m.id = k
      BY <2>7 DEF Types, NetworkTypes, Request
    <3>2. NoTwice(requests[c])
      BY <2>7 DEF CallsInv, RequestsTravelOnce
    <3> HIDE DEF m, c
    <3>3. /\ NoTwice(Append(requests[c], m))
          /\ \A j : Has(Append(requests[c], m), j) <=> Has(requests[c], j) \/ j = k
      BY <2>2, <2>7, <3>1, <3>2, Enqueue
    <3>4. /\ requests'[c] = Append(requests[c], m)
          /\ \A d \in Conns \ {c} : requests'[d] = requests[d]
      BY <2>7 DEF Types, NetworkTypes
    <3>5. Sent(k)' /\ calls'[k].conn = c
      BY <2>3, <2>7 DEF Sent
    <3>6. \A d \in Conns, j \in Calls : Handling(d, j)' <=> Handling(d, j)
      BY <2>1 DEF Handling
    <3>7. ASSUME NEW d \in Conns
          PROVE  NoTwice(requests'[d]) /\ NoTwice(serve'[d].processSink)
      BY <2>1, <3>3, <3>4 DEF CallsInv, RequestsTravelOnce
    <3>8. ASSUME NEW d \in Conns, NEW j \in Calls
          PROVE  /\ Has(requests'[d], j) => Has(requests[d], j) \/ (d = c /\ j = k)
                 /\ Has(serve'[d].processSink, j) <=> Has(serve[d].processSink, j)
      BY <2>1, <3>3, <3>4
    <3>9. ASSUME NEW d \in Conns, NEW j \in Calls
          PROVE  /\ Has(requests'[d], j) =>
                      ~Has(serve'[d].processSink, j) /\ ~Handling(d, j)'
                 /\ Has(serve'[d].processSink, j) => ~Handling(d, j)'
                 /\ Has(requests'[d], j) \/ Has(serve'[d].processSink, j)
                      \/ Handling(d, j)' =>
                      Sent(j)' /\ calls'[j].conn = d /\ handled'[j] = <<>>
      <4>1. /\ Has(requests[d], j) => ~Has(serve[d].processSink, j) /\ ~Handling(d, j)
            /\ Has(serve[d].processSink, j) => ~Handling(d, j)
            /\ Has(requests[d], j) \/ Has(serve[d].processSink, j) \/ Handling(d, j) =>
                 Sent(j) /\ calls[j].conn = d /\ handled[j] = <<>>
        BY DEF CallsInv, RequestsTravelOnce
      <4> QED
        BY <2>1, <2>2, <2>5, <3>5, <3>6, <3>8, <4>1
    <3>10. RequestsTravelOnce'
      BY <3>7, <3>9 DEF RequestsTravelOnce
    <3> QED
      BY <1>3, <2>4, <3>10 DEF CallsInv
  <2>8. \/ UNCHANGED requests
        \/ /\ c \in clientOpen /\ calls'[k].pc = "waiting" /\ calls'[k].result = "none"
           /\ requests' = [requests EXCEPT ![c] = Append(requests[c], m)]
    BY <1>2, <1>8, <2>1, <2>3 DEF Write
  <2>9. clientOpen \subseteq Conns
    BY DEF Types, NetworkTypes
  <2> QED
    BY <2>6, <2>7, <2>8, <2>9
<1> QED
  BY <1>6, <1>7, <1>8 DEF Call

\* Serve and ServeHTTP end.
LEMMA ReturnCalls ==
  ASSUME CallsInv, NEW c \in Conns, ServeCloses(c) \/ ServeHTTPReturns(c)
  PROVE  CallsInv'
<1>1. UNCHANGED <<serve, proc, handled, calls, reader, sink, requests, responses>>
  BY DEF ServeCloses, ServeHTTPReturns, client, network
<1> QED
  BY <1>1, TravelSame, SentSame, AnswersSame, ResultsSame DEF CallsInv

\* The invariant of calls holds throughout.
LEMMA CallsInvariant == Spec => []CallsInv
<1>1. Types /\ CallsInv /\ [Next]_vars => CallsInv'
  <2> SUFFICES ASSUME Types, CallsInv, [Next]_vars PROVE CallsInv'
    OBVIOUS
  <2>1. CASE UNCHANGED vars
    BY <2>1, TravelSame, SentSame, AnswersSame, ResultsSame
       DEF CallsInv, vars, client, network, server
  <2>2. CASE Cancel
    <3>1. dialCtx \in Conns
      BY <2>2, RpcAssumption DEF Cancel, IsConnected, Types, ClientTypes, Conns
    <3> QED
      BY <2>2, <3>1, DialerCalls
  <2>3. ASSUME NEW c \in Conns, processRequests(c)
        PROVE  CallsInv'
    BY <2>3, TakesCalls, HandlesCalls, WritesCalls DEF processRequests
  <2> QED
    BY <2>1, <2>2, <2>3, RpcSteps, DialCalls, DialerCalls, CallSteps, BreakCalls,
       ServerCalls, ReturnCalls
<1> QED
  BY <1>1, InitCalls, TypesInvariant, PTL DEF Spec

\* A caller may rely on what Call returns: an answer means that the request's
\* handlers ran, once, on the connection it was sent on; a refusal before sending
\* that they did not run; no response that they ran at most once.  This holds for
\* any number of calls, connections and queue sizes, with timeouts, cancelled
\* contexts, full queues, lost connections and answers that come late
\* (WebsocketDialer.Call, readMessages, processRequests).
THEOREM CallersKnowWhatRan == Spec => []ResultsAreTrue
<1>1. CallsInv => ResultsAreTrue
  BY DEF CallsInv, ResultsFit, ResultsAreTrue, Sent
<1> QED
  BY <1>1, CallsInvariant, PTL
===============================================================================
