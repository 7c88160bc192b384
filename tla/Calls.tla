------------------------------- MODULE Calls -------------------------------
(***************************************************************************)
(* One call of a client, from the caller's request to the caller's answer: *)
(* a2aclient.Client, one of the bindings, the server's interceptors and    *)
(* its default request handler, and for a streaming call over HTTP the two *)
(* goroutines of the server, the producer of events and the writer of the  *)
(* response, which share an unbuffered channel.  The connection may break  *)
(* and the caller may stop reading.  What executes a message, and the      *)
(* stores, are what they return here; modules LocalManager and TaskUpdate  *)
(* are about them.                                                         *)
(***************************************************************************)
EXTENDS Transports, Values, FiniteSets

CONSTANTS
    Settings,        \* the calls to make: a binding, a method and its request; what the
                     \* client knows of the card and its defaults; the version it asks
                     \* for; how the server is configured and what may go wrong
    StoredTask,      \* the task in the store
    StoredConfig,    \* its push configuration
    ExtendedCards,   \* what the card producer may return
    SendResults,     \* what an execution may end with
    Events,          \* what a subscription may yield
    Interceptors,    \* how many interceptors the server has
    InterceptErrors, \* the errors they may return
    MaxEvents,       \* bound: events of one subscription
    Window           \* how many gRPC messages fit in flight

\* The value of an error: the sentinels it wraps, its details, a map, and its
\* typed details.
IsDetail(d) ==
    /\ d = [type |-> d.type, value |-> d.value]
    /\ d.type # Err /\ d.value \in SUBSET Entries

IsError(e) ==
    /\ e = [is |-> e.is, details |-> e.details, typed |-> e.typed]
    /\ e.is \subseteq Sentinels \cup ContextErrors
    /\ IsMap(e.details) /\ IsListOf(IsDetail, e.typed)

\* A request has the fields of its method's.
IsRequest(m, r) ==
    CASE Sends(m) -> IsSendRequest(r)
      [] m = "GetTask" -> IsGetTaskRequest(r)
      [] m = "ListTasks" -> IsListTasksRequest(r)
      [] m = "CancelTask" -> IsCancelTaskRequest(r)
      [] m = "SubscribeToTask" -> IsSubscribeToTaskRequest(r)
      [] m = "CreateTaskPushConfig" -> IsPushConfig(r)
      [] m \in {"GetTaskPushConfig", "DeleteTaskPushConfig"} -> IsPushConfigRequest(r)
      [] m = "ListTaskPushConfigs" -> IsListTaskPushConfigRequest(r)
      [] m = "GetExtendedAgentCard" -> IsGetExtendedAgentCardRequest(r)

IsSetting(s) ==
    /\ s.binding \in Bindings /\ s.method \in Methods /\ IsRequest(s.method, s.request)
    /\ s.defaults.push = Nil \/ IsPushConfig(s.defaults.push)
    /\ IsTexts(s.defaults.modes)
    /\ \A e \in s.failures : IsError(e)

\* What is stored is stored under the task's id.
ASSUME CallsAssumption ==
    /\ Interceptors \in Nat /\ MaxEvents \in Nat /\ Window \in Nat \ {0}
    /\ \A s \in Settings : IsSetting(s)
    /\ IsTask(StoredTask) /\ StoredTask.id # ""
    /\ IsPushConfig(StoredConfig) /\ StoredConfig.task = StoredTask.id
    /\ \A v \in SendResults : IsSendResult(v)
    /\ \A v \in Events : IsEvent(v)
    /\ \A e \in InterceptErrors : IsError(e)

VARIABLES
    call,       \* the setting, chosen at the start
    client,     \* "start", "waiting", "reading" or "done"
    answer,     \* what the caller got: Nil, or how the call ended
    got,        \* the events the caller got before
    request,    \* the request on its way, Nil if there is none
    wire,       \* the responses on their way
    conn,       \* "up", "eof" (the server ended), "closed" (the client did) or "broken"
    server,     \* the goroutine that runs the handler: "idle", "received", "before",
                \* "handler", "offer" (an item for the stream), "panicked", "dead" (it has
                \* been told to the writer) or "ended"
    writer,     \* the goroutine that writes a stream over HTTP: "none", "select" or "ended"
    started,    \* it has written the headers
    item,       \* what the handler's goroutine is about to hand over
    depth,      \* how many interceptors have seen the request
    seen,       \* the request the handler was called with
    raised,     \* the error the handler or an interceptor ended the call with
    produced    \* the results or events that it produced

vars == <<call, client, answer, got, request, wire, conn, server, writer, started, item, depth,
          seen, raised, produced>>

clientVars == <<client, answer, got>>
serverVars == <<server, writer, started, item, depth, seen, raised, produced>>

-----------------------------------------------------------------------------
(* Values *)

Value(v) == [kind |-> "value", value |-> v]
Failure(e) == [kind |-> "error", error |-> e]
End == [kind |-> "end"]
Stopped == [kind |-> "stopped"]

\* An error that wraps none of the protocol's.
Unclassified == [is |-> {}, details |-> Nil, typed |-> <<>>]

HTTPCall == call.binding \in HTTP

-----------------------------------------------------------------------------
(* The client *)

Defaults == [modes |-> <<>>, immediate |-> FALSE, push |-> Nil, history |-> Nil]

\* A request to a legacy server always has a configuration: without one the
\* server would not block, with an empty one it does.
withDefaultSendConfig(r, binding, defaults) ==
    IF defaults.push = Nil /\ defaults.modes = <<>>
       /\ (r.config # Nil \/ binding \notin Legacy) THEN r
    ELSE LET c == IF r.config = Nil THEN Defaults ELSE r.config
         IN [r EXCEPT !.config =
                [c EXCEPT !.push = IF @ = Nil THEN defaults.push ELSE @,
                          !.modes = IF @ = <<>> THEN defaults.modes ELSE @]]

\* A stream is asked for as one result from an agent that has no streams.
Method(c) ==
    IF c.method = "SendStreamingMessage" /\ c.card # Nil /\ ~c.card.streaming
    THEN "SendMessage" ELSE c.method

Request(c) ==
    IF Sends(c.method) THEN withDefaultSendConfig(c.request, c.binding, c.defaults) ELSE c.request

Streaming(c) == Method(c) \in StreamMethods

\* What the client refuses or cannot encode.
Refused(c) ==
    CASE c.method = "GetExtendedAgentCard" /\ c.card # Nil /\ ~c.card.extended ->
            NewError("ExtendedCardNotConfigured")
      [] c.binding = "rpc0" /\ c.method = "ListTasks" -> NewError("UnsupportedOperation")
      [] EncodeRequest(c.binding, Method(c), Request(c)) = Err ->
            IF c.binding = "rest1" THEN NewError("InvalidRequest") ELSE Unclassified
      [] OTHER -> Nil

\* Anything the client ends a call with closes the response's body, which
\* ends the connection over HTTP; a gRPC stream is left as it is.
Close == IF HTTPCall /\ conn # "broken" THEN "closed" ELSE conn

Answer(a) == client' = "done" /\ answer' = a

Call ==
    /\ client = "start"
    /\ LET refusal == Refused(call)
       IN \/ /\ refusal # Nil
             /\ Answer(Failure(refusal))
             /\ UNCHANGED <<request, server>>
          \/ /\ refusal = Nil
             /\ client' = "waiting"
             /\ request' = EncodeRequest(call.binding, Method(call), Request(call))
             /\ server' = "received"
             /\ UNCHANGED answer
    /\ UNCHANGED <<call, got, wire, conn, writer, started, item, depth, seen, raised, produced>>

\* How an error is written, on its own or inside a stream that has started.
ContentType(c) ==
    CASE c.binding = "rest0" -> "application/problem+json"
      [] c.binding = "rest1" /\ ~Streaming(c) -> "application/a2a+json"
      [] OTHER -> "application/json"

SendError(binding, e) ==
    CASE binding \in {"grpc1", "grpc0"} -> {ToGRPCError(e)}
      [] binding \in {"rpc1", "rpc0"} -> ToJSONRPCError(e)
      [] OTHER -> {ToRESTError(e)}

ReceiveError(c, w, plain) ==
    CASE c.binding \in {"grpc1", "grpc0"} -> FromGRPCError(w)
      [] c.binding \in {"rpc1", "rpc0"} -> FromJSONRPCError(w)
      [] OTHER -> IF plain THEN FromRESTError(w, ContentType(c)) ELSE ConvertErrorBody(w)

\* The answer to a call of one result, or the next event of a stream.
Read ==
    /\ client \in {"waiting", "reading"} /\ wire # <<>>
    /\ wire' = Tail(wire)
    /\ LET frame == Head(wire)
       IN \/ /\ frame.kind = "error"
             /\ Answer(Failure(ReceiveError(call, frame.error, frame.plain)))
             /\ conn' = Close
             /\ UNCHANGED got
          \/ /\ frame.kind = "value"
             /\ LET v == DecodeResult(call.binding, Method(call), frame.value, Request(call))
                IN \/ v = Err /\ Answer(Failure(Unclassified)) /\ conn' = Close /\ UNCHANGED got
                   \/ v # Err /\ ~Streaming(call) /\ Answer(Value(v)) /\ conn' = Close
                      /\ UNCHANGED got
                   \/ /\ v # Err /\ Streaming(call)
                      /\ client' = "reading" /\ got' = Append(got, v)
                      /\ UNCHANGED <<answer, conn>>
    /\ UNCHANGED <<call, request>> /\ UNCHANGED serverVars

\* The end of a stream; the end of a response without a result is an error.
ReadEnd ==
    /\ client \in {"waiting", "reading"} /\ wire = <<>> /\ conn = "eof"
    /\ Answer(IF Streaming(call) THEN End ELSE Failure(Unclassified))
    /\ UNCHANGED <<call, got, request, wire, conn>> /\ UNCHANGED serverVars

\* Mutant: the error of the reader is not looked at.
ReadBrokenAsEnd ==
    /\ client \in {"waiting", "reading"} /\ wire = <<>> /\ conn = "broken"
    /\ Answer(IF Streaming(call) THEN End ELSE Failure(Unclassified))
    /\ UNCHANGED <<call, got, request, wire, conn>> /\ UNCHANGED serverVars

\* A broken connection is an error of the transport, which gRPC calls internal.
ReadBroken ==
    /\ client \in {"waiting", "reading"} /\ wire = <<>> /\ conn = "broken"
    /\ Answer(Failure(IF HTTPCall THEN Unclassified ELSE NewError("InternalError")))
    /\ UNCHANGED <<call, got, request, wire, conn>> /\ UNCHANGED serverVars

\* The caller leaves the loop over the events.
Stop ==
    /\ client = "reading"
    /\ Answer(Stopped)
    /\ conn' = Close
    /\ UNCHANGED <<call, got, request, wire>> /\ UNCHANGED serverVars

\* External: the network loses the connection and what was on its way.
Break ==
    /\ call.breaks /\ conn \in {"up", "eof"} /\ client \in {"waiting", "reading"}
    /\ conn' = "broken"
    /\ \E n \in 0 .. Len(wire) : wire' = SubSeq(wire, 1, n)
    /\ UNCHANGED <<call, request>> /\ UNCHANGED clientVars /\ UNCHANGED serverVars

-----------------------------------------------------------------------------
(* The server's answers *)

Gone == conn \in {"broken", "closed"}

\* Writing to a connection that is gone fails.
Write(frame) == wire' = IF Gone THEN wire ELSE Append(wire, frame)

Ended == conn' = IF Gone THEN conn ELSE "eof"

\* An error written as the whole response, and its end.
WriteError(e) ==
    /\ \E w \in SendError(call.binding, e) : Write([kind |-> "error", error |-> w, plain |-> TRUE])
    /\ Ended

\* The status of a gRPC call that the binding itself fails.
WriteStatus(code) ==
    /\ Write([kind |-> "error", error |-> status_Error(code), plain |-> TRUE])
    /\ Ended

\* One result: what does not encode leaves an empty response over JSON-RPC and
\* HTTP+JSON, and is an error of the binding elsewhere.
WriteResult(v) ==
    LET w == EncodeResult(call.binding, Method(call), v)
    IN \/ w # Err /\ Write([kind |-> "value", value |-> w]) /\ Ended
       \/ w = Err /\ ~HTTPCall /\ WriteStatus("Internal")
       \/ w = Err /\ call.binding = "rest0" /\ WriteError(Unclassified)
       \/ w = Err /\ HTTPCall /\ call.binding # "rest0" /\ wire' = wire /\ Ended

-----------------------------------------------------------------------------
(* The server's handler, in its interceptors *)

Served(binding) == IF binding \in Legacy THEN "0.3" ELSE "1.0"

checkProtocolVersion(c) ==
    IF (IF c.version = "" THEN "0.3" ELSE c.version) = Served(c.binding) THEN Nil
    ELSE NewError("VersionNotSupported")

\* What a binding says of a request it cannot read.
Unreadable(c) == NewError("ParseError")

\* A stream over HTTP is produced by a goroutine of its own; the writer of
\* version 0.3 has sent its headers by then.
StartStream == IF Streaming(call) /\ HTTPCall THEN "select" ELSE "none"
StartHeaders == Streaming(call) /\ call.binding \in {"rpc0", "rest0"}

\* JSON-RPC of version 0.3 takes the task of a push configuration from the
\* message, and follows the pointer to one that is not there.
MessageMissing(c) ==
    /\ c.binding = "rpc0" /\ Sends(c.method) /\ Request(c).message = Nil
    /\ Request(c).config # Nil /\ Request(c).config.push # Nil

\* A binding reads the request and the interceptors check its version.
Receive ==
    /\ server = "received" /\ ~MessageMissing(call)
    /\ LET r == DecodeRequest(call.binding, Method(call), request)
           wrong == checkProtocolVersion(call)
       IN \/ /\ r = Err /\ HTTPCall /\ StartStream = "select" /\ call.binding \in {"rpc1", "rpc0"}
             /\ server' = "offer" /\ item' = Failure(Unreadable(call))
             /\ writer' = "select" /\ started' = StartHeaders
             /\ UNCHANGED <<wire, conn, seen, raised>>
          \/ /\ r = Err /\ ~(StartStream = "select" /\ call.binding \in {"rpc1", "rpc0"})
             /\ IF HTTPCall THEN WriteError(Unreadable(call)) ELSE WriteStatus("InvalidArgument")
             /\ server' = "ended"
             /\ UNCHANGED <<writer, started, item, seen, raised>>
          \/ /\ r # Err /\ wrong # Nil /\ StartStream = "none"
             /\ WriteError(wrong)
             /\ server' = "ended" /\ raised' = wrong
             /\ UNCHANGED <<writer, started, item, seen>>
          \/ /\ r # Err /\ wrong # Nil /\ StartStream = "select"
             /\ server' = "offer" /\ item' = Failure(wrong) /\ raised' = wrong
             /\ writer' = "select" /\ started' = StartHeaders
             /\ UNCHANGED <<wire, conn, seen>>
          \/ /\ r # Err /\ wrong = Nil
             /\ server' = "before" /\ item' = Value(r)
             /\ writer' = StartStream /\ started' = StartHeaders
             /\ UNCHANGED <<wire, conn, seen, raised>>
    /\ request' = Nil
    /\ UNCHANGED <<call, depth, produced>> /\ UNCHANGED clientVars

\* A result or an error on its way back through the first n interceptors: each
\* may replace it by an error, and the error sanitizer is one of them.
After(n, p) ==
    LET clean == IF p.kind = "error" /\ call.sanitizes
                 THEN Failure(Sanitized(p.error, p.error.details # Nil \/ p.error.typed # <<>>))
                 ELSE p
    IN {clean} \cup (IF n > 0 THEN {Failure(e) : e \in InterceptErrors} ELSE {})

\* A result or an error leaves the interceptors.  One result is written at
\* once; an item of a stream waits to be sent.
Respond(p) ==
    /\ raised' = IF p.kind = "error" THEN p.error ELSE raised
    /\ produced' = IF p.kind = "value" THEN Append(produced, p.value) ELSE produced
    /\ IF Streaming(call) THEN server' = "offer" /\ item' = p /\ UNCHANGED <<wire, conn>>
       ELSE /\ IF p.kind = "error" THEN WriteError(p.error) ELSE WriteResult(p.value)
            /\ server' = "ended" /\ item' = Nil

\* Before of the next interceptor passes the request on, or ends the call with
\* an error or a result, which goes back through the ones that were called.
Before ==
    /\ server = "before" /\ depth < Interceptors
    /\ depth' = depth + 1
    /\ \/ UNCHANGED <<server, item, wire, conn, raised, produced>>
       \/ \E q \in {Failure(e) : e \in InterceptErrors} \cup
                   {Value(v) : v \in IF Sends(call.method) THEN SendResults ELSE {}} :
             \E p \in After(depth + 1, q) : Respond(p)
    /\ UNCHANGED <<call, request, writer, started, seen>> /\ UNCHANGED clientVars

\* The default handler is called.
Enter ==
    /\ server = "before" /\ depth = Interceptors
    /\ server' = "handler" /\ seen' = item.value /\ item' = Nil
    /\ UNCHANGED <<call, request, wire, conn, writer, started, depth, raised, produced>>
    /\ UNCHANGED clientVars

-----------------------------------------------------------------------------
(* The default request handler *)

\* The most recent messages; no length is all of them, none is none.
TrimmedHistory(task, n) ==
    LET h == task.history
    IN CASE n = Nil -> task
         [] n # Nil /\ n <= 0 -> [task EXCEPT !.history = <<>>]
         [] n # Nil /\ n > 0 /\ n < Len(h) ->
                [task EXCEPT !.history = SubSeq(h, Len(h) - n + 1, Len(h))]
         [] OTHER -> task

GetTask(r) ==
    CASE r.id = "" -> {Failure(NewError("InvalidParams"))}
      [] r.id # StoredTask.id -> {Failure(NewError("TaskNotFound"))}
      [] OTHER -> {Value(TrimmedHistory(StoredTask, r.history))} \cup {Failure(e) : e \in call.failures}

ListTasks(r) ==
    {Value([tasks |-> <<StoredTask>>, total |-> 1, pageSize |-> 1, next |-> r.pageToken])}
    \cup {Failure(e) : e \in call.failures}

CancelTask(r) ==
    CASE r.id = "" -> {Failure(NewError("InvalidParams"))}
      [] r.id # StoredTask.id -> {Failure(NewError("TaskNotFound"))}
      [] OTHER -> {Value([StoredTask EXCEPT !.status.state = "canceled"])}
                  \cup {Failure(e) : e \in call.failures}

\* handleSendMessage: what a message must have.
Sendable(r) ==
    r.message # Nil /\ r.message.id # "" /\ r.message.parts # <<>> /\ r.message.role # ""

\* Of an execution's events, one result: the last one, or for a client that
\* does not wait the task as it is stored when the first event arrives.
SendMessage(r) ==
    IF ~Sendable(r) THEN {Failure(NewError("InvalidParams"))}
    ELSE {Value(v) : v \in IF r.config # Nil /\ r.config.immediate
                           THEN {StoredTask} \cup {s \in SendResults : s.type = "message"}
                           ELSE SendResults}
         \cup {Failure(e) : e \in call.failures}

checkPushNotificationConfigs(c, task, result) ==
    CASE ~c.pushes -> {Failure(NewError("PushNotificationNotSupported"))}
      [] c.pushes /\ task # StoredTask.id -> {Failure(NewError("TaskNotFound"))}
      [] OTHER -> {Value(result)} \cup {Failure(e) : e \in call.failures}

CreateTaskPushConfig(c, r) == checkPushNotificationConfigs(c, r.task, r)
GetTaskPushConfig(c, r) == checkPushNotificationConfigs(c, r.task, StoredConfig)
DeleteTaskPushConfig(c, r) == checkPushNotificationConfigs(c, r.task, Empty)

ListTaskPushConfigs(c, r) ==
    checkPushNotificationConfigs(c, r.task, [configs |-> <<StoredConfig>>, next |-> ""])

GetExtendedAgentCard ==
    {Value(v) : v \in ExtendedCards} \cup {Failure(NewError("ExtendedCardNotConfigured"))}

Handle(c, r) ==
    LET m == Method(c)
    IN CASE m = "GetTask" -> GetTask(r)
         [] m = "ListTasks" -> ListTasks(r)
         [] m = "CancelTask" -> CancelTask(r)
         [] m = "SendMessage" -> SendMessage(r)
         [] m = "CreateTaskPushConfig" -> CreateTaskPushConfig(c, r)
         [] m = "GetTaskPushConfig" -> GetTaskPushConfig(c, r)
         [] m = "ListTaskPushConfigs" -> ListTaskPushConfigs(c, r)
         [] m = "DeleteTaskPushConfig" -> DeleteTaskPushConfig(c, r)
         [] m = "GetExtendedAgentCard" -> GetExtendedAgentCard

\* A call of one result.
HandleCall ==
    /\ server = "handler" /\ ~Streaming(call)
    /\ \E q \in Handle(call, seen) : \E p \in After(Interceptors, q) : Respond(p)
    /\ UNCHANGED <<call, request, writer, started, depth, seen>> /\ UNCHANGED clientVars

\* SendStreamingMessage and SubscribeToTask yield the next event, or an error
\* and nothing after it.
StreamErrors(c, r) ==
    CASE c.method = "SendStreamingMessage" /\ ~Sendable(r) -> {NewError("InvalidParams")}
      [] c.method = "SubscribeToTask" /\ r.id # StoredTask.id -> {NewError("TaskNotFound")}
      [] OTHER -> c.failures \cup {NewError("UnsupportedOperation")}

StreamValues(c, r) ==
    IF (c.method = "SendStreamingMessage" /\ ~Sendable(r))
       \/ (c.method = "SubscribeToTask" /\ r.id # StoredTask.id) THEN {}
    ELSE Events

StreamEvent ==
    /\ server = "handler" /\ Streaming(call) /\ raised = Nil
    /\ \E q \in {Failure(e) : e \in StreamErrors(call, seen)} \cup
                {Value(v) : v \in IF Len(produced) < MaxEvents
                                  THEN StreamValues(call, seen) ELSE {}} :
          \E p \in After(Interceptors, q) : Respond(p)
    /\ UNCHANGED <<call, request, writer, started, depth, seen>> /\ UNCHANGED clientVars

\* The events end, as they do when the execution has ended, or when the
\* context is done.
StreamEnd ==
    /\ server = "handler" /\ Streaming(call)
    /\ StreamValues(call, seen) # {} \/ Gone
    /\ server' = "ended"
    /\ IF writer = "none" THEN Ended ELSE UNCHANGED conn
    /\ UNCHANGED <<call, request, wire, writer, started, item, depth, seen, raised, produced>>
    /\ UNCHANGED clientVars

\* What a panic does: the producer of a stream tells the writer.  A call of one
\* result over JSON-RPC recovers if there is a panic handler; HTTP drops the
\* connection otherwise, and gRPC the process.
PanicIn(goroutine) ==
    \/ /\ goroutine # "none"
       /\ server' = "panicked"
       /\ UNCHANGED <<wire, conn, raised>>
    \/ /\ goroutine = "none" /\ call.panicHandler /\ call.binding \in {"rpc1", "rpc0"}
       /\ server' = "ended" /\ raised' = NewError("InternalError")
       /\ WriteError(NewError("InternalError"))
    \/ /\ goroutine = "none" /\ ~(call.panicHandler /\ call.binding \in {"rpc1", "rpc0"})
       /\ server' = "ended"
       /\ conn' = IF Gone THEN conn ELSE "broken"
       /\ UNCHANGED <<wire, raised>>

\* The handler panics.
Panic ==
    /\ server = "handler" /\ call.panics
    /\ PanicIn(writer)
    /\ UNCHANGED <<call, request, writer, started, item, depth, seen, produced>>
    /\ UNCHANGED clientVars

\* The conversion of the request does, before the handler is called.
ReceivePanic ==
    /\ server = "received" /\ MessageMissing(call)
    /\ PanicIn(StartStream)
    /\ writer' = StartStream /\ started' = StartHeaders /\ request' = Nil
    /\ UNCHANGED <<call, item, depth, seen, produced>>
    /\ UNCHANGED clientVars

\* A stream goes on after an event, but not after a result of an interceptor.
Resume == IF seen # Nil THEN "handler" ELSE "ended"

\* The handler of a gRPC stream sends its own items: an event when there is
\* room for it, unless the stream is gone; an error ends the stream.
grpcSend ==
    /\ server = "offer" /\ writer = "none"
    /\ LET w == IF item.kind = "error" THEN Err
                ELSE EncodeResult(call.binding, Method(call), item.value)
       IN \/ item.kind = "error" /\ WriteError(item.error) /\ server' = "ended"
          \/ item.kind = "value" /\ w = Err /\ WriteStatus("Internal") /\ server' = "ended"
          \/ w # Err /\ Gone /\ server' = "ended" /\ UNCHANGED <<wire, conn>>
          \/ /\ w # Err /\ ~Gone /\ Len(wire) < Window
             /\ Write([kind |-> "value", value |-> w])
             /\ server' = Resume
             /\ IF Resume = "ended" THEN Ended ELSE UNCHANGED conn
    /\ item' = Nil
    /\ UNCHANGED <<call, request, writer, started, depth, seen, raised, produced>>
    /\ UNCHANGED clientVars

-----------------------------------------------------------------------------
(* The writer of a stream over HTTP: one case of its select per action *)

\* An error before anything was written is a plain response in version 1.
WriteStreamError(e) ==
    /\ \E w \in SendError(call.binding, e) :
          IF ~started /\ call.binding \in {"rpc1", "rest1"}
          THEN Write([kind |-> "error", error |-> w, plain |-> TRUE])
          ELSE IF w.data = Err THEN UNCHANGED wire
          ELSE Write([kind |-> "error", error |-> w, plain |-> FALSE])
    /\ UNCHANGED started

\* The producer's item: an event is encoded, an error (or an event that does
\* not encode) ends the stream.  The next event is asked for after it is sent.
TakeItem ==
    /\ writer = "select" /\ server = "offer"
    /\ LET w == IF item.kind = "error" THEN Err
                ELSE EncodeResult(call.binding, Method(call), item.value)
       IN \/ /\ w = Err
             /\ WriteStreamError(IF item.kind = "error" THEN item.error ELSE Unclassified)
             /\ writer' = "ended" /\ server' = "ended" /\ Ended
          \/ /\ w # Err
             /\ Write([kind |-> "value", value |-> w])
             /\ started' = TRUE
             /\ writer' = IF Gone THEN "ended" ELSE writer
             /\ server' = Resume
             /\ UNCHANGED conn
    /\ item' = Nil
    /\ UNCHANGED <<call, request, depth, seen, raised, produced>> /\ UNCHANGED clientVars

\* Mutant: a closed channel is read again.
TakeClosedAgain ==
    /\ writer = "select" /\ server = "ended"
    /\ started' = TRUE
    /\ UNCHANGED <<call, request, wire, conn, server, writer, item, depth, seen, raised, produced>>
    /\ UNCHANGED clientVars

\* The producer has closed the channel.
TakeClosed ==
    /\ writer = "select" /\ server = "ended"
    /\ writer' = "ended" /\ started' = TRUE
    /\ Ended
    /\ UNCHANGED <<call, request, wire, server, item, depth, seen, raised, produced>>
    /\ UNCHANGED clientVars

\* The producer has panicked.  The writer of JSON-RPC's version 0.3 goes on
\* selecting after it has written the error.
TakePanic ==
    /\ writer = "select" /\ server = "panicked"
    /\ IF call.panicHandler
       THEN /\ \E w \in SendError(call.binding, NewError("InternalError")) :
                  Write([kind |-> "error", error |-> w, plain |-> FALSE])
            /\ started' = TRUE /\ raised' = NewError("InternalError")
            /\ IF call.binding = "rpc0" THEN UNCHANGED <<writer, conn>>
               ELSE writer' = "ended" /\ Ended
            /\ server' = "dead"
       ELSE /\ writer' = "ended" /\ server' = "dead"
            /\ conn' = IF Gone THEN conn ELSE "broken"
            /\ UNCHANGED <<wire, started, raised>>
    /\ UNCHANGED <<call, request, item, depth, seen, produced>> /\ UNCHANGED clientVars

\* A keep-alive starts the stream.
KeepAlive ==
    /\ writer = "select" /\ call.keepAlive /\ ~started /\ ~Gone
    /\ started' = TRUE
    /\ UNCHANGED <<call, request, wire, conn, server, writer, item, depth, seen, raised, produced>>
    /\ UNCHANGED clientVars

\* The request's context is done.
WriterGone ==
    /\ writer = "select" /\ Gone
    /\ writer' = "ended"
    /\ UNCHANGED <<call, request, wire, conn, server, started, item, depth, seen, raised, produced>>
    /\ UNCHANGED clientVars

\* The producer, which waits to send its item, sees the context done: the
\* writer has ended, or the request's context is.
SendCanceled ==
    /\ server = "offer" /\ writer # "none" /\ (Gone \/ writer = "ended")
    /\ server' = "ended" /\ item' = Nil
    /\ UNCHANGED <<call, request, wire, conn, writer, started, depth, seen, raised, produced>>
    /\ UNCHANGED clientVars

-----------------------------------------------------------------------------
Init ==
    /\ call \in Settings
    /\ client = "start" /\ answer = Nil /\ got = <<>>
    /\ request = Nil /\ wire = <<>> /\ conn = "up"
    /\ server = "idle" /\ writer = "none" /\ started = FALSE /\ item = Nil
    /\ depth = 0 /\ seen = Nil /\ raised = Nil /\ produced = <<>>

Done == client = "done" /\ server \in {"idle", "ended", "panicked", "dead"} /\ writer # "select"

\* The call is over, or is left with a handler that waits for ever.
Quiet == client = "done" /\ UNCHANGED vars

ClientStep == Call \/ Read \/ ReadEnd \/ ReadBroken
HandlerStep ==
    \/ Receive \/ ReceivePanic \/ Before \/ Enter
    \/ HandleCall \/ StreamEvent \/ StreamEnd \/ grpcSend \/ SendCanceled
WriterStep == TakeItem \/ TakeClosed \/ TakePanic \/ WriterGone

Next ==
    \/ ClientStep \/ HandlerStep \/ WriterStep
    \/ Stop \/ Break \/ Panic \/ KeepAlive \/ Quiet

Spec == Init /\ [][Next]_vars

\* Goroutines that can run do, on both sides; an execution ends.  A caller
\* need not stop, nor a connection break.
FairSpec == Spec /\ WF_vars(ClientStep) /\ WF_vars(HandlerStep) /\ WF_vars(WriterStep)

-----------------------------------------------------------------------------
(* What a binding carries: the reference its conversions are checked against *)

Numbers(m) == IF m = Nil THEN Nil ELSE {IF e = "ints" THEN "floats" ELSE e : e \in m}

\* JSON leaves an empty map out.
CarriedMap(b, m) == IF m = {} /\ b \in HTTP THEN Nil ELSE Numbers(m)

\* Version 0.3 has no name and no media type for a text or for data; where it
\* marks data that is not a map, the part has metadata afterwards.  Over
\* HTTP+JSON it has no empty file.
CarriedPart(b, p) ==
    LET kind == p.content.kind
        bare == b \in Legacy /\ kind \notin {"raw", "url"}
        marked == b \in {"grpc0", "rpc0"} /\ kind = "value"
    IN [content |-> IF b = "rest0" /\ ~bare /\ p.content.value = "" THEN P0!NoContent
                    ELSE [p.content EXCEPT !.value =
                              IF kind \in {"data", "value"} THEN Numbers(@) ELSE @],
        filename |-> IF bare THEN "" ELSE p.filename,
        mediaType |-> IF bare THEN "" ELSE p.mediaType,
        metadata |-> IF marked THEN Numbers(IF p.metadata = Nil THEN {} ELSE p.metadata)
                     ELSE CarriedMap(b, p.metadata)]

\* HTTP+JSON of version 0.3 has no references to other tasks.
CarriedMessage(b, m) ==
    Opt(LAMBDA v : [v EXCEPT !.parts = [i \in DOMAIN @ |-> CarriedPart(b, @[i])],
                             !.metadata = CarriedMap(b, @),
                             !.refs = IF b = "rest0" THEN <<>> ELSE @], m)

CarriedArtifact(b, a) ==
    [a EXCEPT !.parts = [i \in DOMAIN @ |-> CarriedPart(b, @[i])], !.metadata = CarriedMap(b, @)]

\* JSON of version 1 has milliseconds.
CarriedStatus(b, s) ==
    [s EXCEPT !.message = CarriedMessage(b, @),
              !.time = IF b \in {"rpc1", "rest1"} THEN jsonTimestamp(@) ELSE @]

CarriedTask(b, t) ==
    [t EXCEPT !.status = CarriedStatus(b, @),
              !.artifacts = [i \in DOMAIN @ |-> CarriedArtifact(b, @[i])],
              !.history = [i \in DOMAIN @ |-> CarriedMessage(b, @[i])],
              !.metadata = CarriedMap(b, @)]

CarriedEvent(b, e) ==
    CASE e.type = "message" -> CarriedMessage(b, e)
      [] e.type = "task" -> CarriedTask(b, e)
      [] e.type = "status" ->
            [e EXCEPT !.status = CarriedStatus(b, @), !.metadata = CarriedMap(b, @)]
      [] e.type = "artifact" ->
            [e EXCEPT !.artifact = CarriedArtifact(b, @), !.metadata = CarriedMap(b, @)]

\* gRPC has 32 bits for a length and no negative ones; in version 0.3 it has
\* no length 0 either, and neither has the configuration of a message over
\* HTTP+JSON, which has 32 bits, too.
CarriedLength(b, m, n) ==
    LET short == int32(n)
    IN CASE n = Nil -> Nil
         [] n # Nil /\ b = "grpc1" -> IF short < 0 THEN Nil ELSE short
         [] n # Nil /\ b = "grpc0" -> IF short <= 0 THEN Nil ELSE short
         [] n # Nil /\ b = "rest0" /\ Sends(m) -> IF short = 0 THEN Nil ELSE short
         [] OTHER -> n

\* A slash in an id ends it in the resource names of version 0.3.
CarriedId(b, id) == IF b = "grpc0" THEN V0!Segment(id) ELSE id

\* A configuration sent with a message names a task in version 1 only; over
\* JSON-RPC of version 0.3 it is the message's.
CarriedConfig(b, m, r) ==
    Opt(LAMBDA c :
        [c EXCEPT !.history = CarriedLength(b, m, @),
                  !.push = Opt(LAMBDA p : IF b \notin Legacy THEN p
                                          ELSE [p EXCEPT !.tenant = "",
                                                         !.task = IF b = "rpc0" THEN r.message.task
                                                                  ELSE ""], @)], r.config)

\* Version 0.3 has no tenants.
CarriedRequest(b, m, r) ==
    LET q == [r EXCEPT !.tenant = IF b \in Legacy THEN "" ELSE @]
    IN CASE Sends(m) -> [q EXCEPT !.message = CarriedMessage(b, @),
                                  !.metadata = CarriedMap(b, @), !.config = CarriedConfig(b, m, r)]
         [] m = "GetTask" -> [q EXCEPT !.id = CarriedId(b, @),
                                       !.history = CarriedLength(b, m, @)]
         [] m = "CancelTask" ->
                [q EXCEPT !.id = CarriedId(b, @),
                          !.metadata = IF b \in {"grpc0", "rest0"} THEN Nil ELSE CarriedMap(b, @)]
         [] m = "SubscribeToTask" -> [q EXCEPT !.id = CarriedId(b, @)]
         [] m = "ListTasks" ->
                [q EXCEPT !.history = CarriedLength(b, m, @),
                          !.pageSize = IF b \in {"grpc1", "grpc0"} THEN int32(@) ELSE @,
                          !.after = CASE b \in {"rpc1", "rest1"} -> jsonTimestamp(@)
                                      [] b = "rest0" /\ @ # Nil -> @ - (@ % Second)
                                      [] OTHER -> @]
         [] m = "CreateTaskPushConfig" -> [q EXCEPT !.task = CarriedId(b, @)]
         [] m \in {"GetTaskPushConfig", "DeleteTaskPushConfig"} ->
                [q EXCEPT !.task = CarriedId(b, @), !.id = CarriedId(b, @)]
         [] m = "ListTaskPushConfigs" ->
                [q EXCEPT !.task = CarriedId(b, @),
                          !.pageSize = CASE b \in {"grpc1", "grpc0"} -> int32(@)
                                         [] b = "rpc1" -> @
                                         [] OTHER -> 0,
                          !.pageToken = IF b \in {"grpc1", "grpc0", "rpc1"} THEN @ ELSE ""]
         [] OTHER -> q

\* What a binding cannot carry at all: an entry without a wire form anywhere,
\* a card whose OAuth flow is held the other way or unknown to the version, or
\* without an interface of the version.
Maps(m) == IF m = Nil THEN {} ELSE m

OddMessage(m) ==
    /\ m # Nil
    /\ "odd" \in Maps(m.metadata) \cup
                 UNION {Maps(m.parts[i].metadata) \cup
                        (IF m.parts[i].content.kind \in {"data", "value"}
                         THEN m.parts[i].content.value ELSE {}) : i \in DOMAIN m.parts}

Odd(v) ==
    CASE v.type = "message" -> OddMessage(v)
      [] v.type = "status" -> "odd" \in Maps(v.metadata) \/ OddMessage(v.status.message)
      [] OTHER -> "odd" \in Maps(v.metadata)

FlowsOf(card) ==
    {card.schemes[n].flows : n \in {k \in DOMAIN card.schemes : card.schemes[k].kind = "oauth2"}}

Uncarried(b, m, v) ==
    CASE m \in {"SendMessage"} \cup StreamMethods ->
            Odd(v) \/ (b = "grpc1" /\ v.type = "message" /\ v.id = "")
      [] m = "GetExtendedAgentCard" ->
            \/ \E f \in FlowsOf(v) : f.pointer = (b \in HTTP) \/ (b = "grpc0" /\ f.kind = "deviceCode")
            \/ b = "grpc0" /\ \A i \in DOMAIN v.interfaces : v.interfaces[i].version # "0.3"
      [] OTHER -> FALSE

\* Some bindings check what a request must have themselves; JSON of version 1
\* has no part with an empty URL, and JSON-RPC of version 0.3 no list of tasks.
UncarriedRequest(b, m, r) ==
    \/ m \in {"SendMessage", "SendStreamingMessage", "CancelTask"} /\ "odd" \in Maps(r.metadata)
       /\ ~(m = "CancelTask" /\ b \in {"grpc0", "rest0"})
    \/ m = "GetTask" /\ r.id = "" /\ b \notin {"rpc1", "rpc0"}
    \/ Sends(m) /\ r.message = Nil /\ b \in {"grpc1", "grpc0"}
    \/ Sends(m) /\ r.message # Nil /\ r.message.id = "" /\ b = "grpc1"
    \/ /\ Sends(m) /\ r.message # Nil /\ b \in {"rpc1", "rest1"}
       /\ \E i \in DOMAIN r.message.parts : r.message.parts[i].content = [kind |-> "url", value |-> ""]
    \/ m = "ListTasks" /\ b = "rpc0"

\* Version 0.3 knows only its own interfaces over gRPC, and nothing of PKCE.
CarriedCard(b, c) ==
    IF b # "grpc0" THEN c
    ELSE LET old == SelectSeq(c.interfaces, LAMBDA i : i.version = "0.3")
             Without(s) == IF s.kind = "oauth2" /\ s.flows.kind = "authorizationCode"
                        THEN [s EXCEPT !.flows.pkce = FALSE] ELSE s
         IN [c EXCEPT !.interfaces = [i \in DOMAIN old |-> [old[i] EXCEPT !.tenant = ""]],
                      !.schemes = [n \in DOMAIN @ |-> Without(@[n])]]

\* HTTP+JSON of version 0.3 loses the task of a push configuration if an id
\* has a slash, which ends it in the name of the resource.
CarriedResult(b, m, v) ==
    CASE m \in {"SendMessage", "GetTask", "CancelTask"} \cup StreamMethods -> CarriedEvent(b, v)
      [] m = "ListTasks" ->
            [v EXCEPT !.tasks = [i \in DOMAIN @ |-> CarriedTask(b, @[i])],
                      !.total = IF b = "rest0" THEN 0 ELSE @,
                      !.pageSize = CASE b = "rest0" -> 0
                                     [] b = "grpc0" -> Len(v.tasks)
                                     [] OTHER -> @]
      [] m \in {"CreateTaskPushConfig", "GetTaskPushConfig"} ->
            [v EXCEPT !.tenant = IF b \in Legacy THEN "" ELSE @,
                      !.task = IF b = "rest0" /\ "a/b" \in {v.task, v.id} THEN "" ELSE @]
      [] m = "ListTaskPushConfigs" ->
            [i \in DOMAIN v.configs |-> [v.configs[i] EXCEPT !.tenant = IF b \in Legacy THEN "" ELSE @]]
      [] m = "GetExtendedAgentCard" -> CarriedCard(b, v)
      [] OTHER -> v

-----------------------------------------------------------------------------
(* Properties *)

\* Every variable has its type.
TypeOK ==
    /\ call \in Settings
    /\ client \in {"start", "waiting", "reading", "done"}
    /\ answer = Nil \/ answer.kind \in {"value", "error", "end", "stopped"}
    /\ Len(got) <= MaxEvents + 1 /\ Len(produced) <= MaxEvents + 1
    /\ Len(wire) <= MaxEvents + 1
    /\ conn \in {"up", "eof", "closed", "broken"}
    /\ server \in {"idle", "received", "before", "handler", "offer", "panicked", "dead", "ended"}
    /\ writer \in {"none", "select", "ended"}
    /\ started \in BOOLEAN
    /\ depth \in 0 .. Interceptors
    /\ server = "offer" => item.kind \in {"value", "error"}
    /\ writer # "none" => Streaming(call) /\ HTTPCall

\* The handler is called with what the caller sent, up to what the binding has
\* no place for, whichever of the six bindings the request crosses (the
\* conversions of pbconv, pbjson, a2acompat and the JSON of package a2a).
HandlerSeesRequest ==
    seen # Nil => seen = CarriedRequest(call.binding, Method(call), Request(call))

\* A caller that gets a result gets the one the server returned, up to what the
\* binding has no place for.
ResultCarried ==
    answer # Nil /\ answer.kind = "value" =>
        /\ Len(produced) = 1
        /\ answer.value = CarriedResult(call.binding, Method(call), produced[1])

\* A request or a result that the binding can carry does not become an error
\* on the way.
FailuresExplained ==
    answer # Nil /\ answer.kind = "error" /\ raised = Nil /\ conn # "broken" =>
        IF produced # <<>>
        THEN \E i \in DOMAIN produced : Uncarried(call.binding, Method(call), produced[i])
        ELSE \/ UncarriedRequest(call.binding, Method(call), Request(call))
             \/ call.card # Nil /\ ~call.card.extended

\* A caller that gets a result gets the one the server returned, and a request or
\* a result that the binding can carry does not become an error on the way.
ClientSeesResult == ResultCarried /\ FailuresExplained

\* What the caller may test the error for: a sentinel that the server's error
\* wraps, one of the context errors over gRPC, or else an internal error.
ErrorMeaning(b, e) ==
    LET known == e.is \cap (Sentinels \cup IF b \in HTTP THEN {} ELSE ContextErrors)
    IN IF known = {} THEN {"InternalError"} ELSE known

\* Of the details a caller gets the first: over gRPC the first that has a wire
\* form, elsewhere the first if all of them have one.
FirstDetails(s) == IF s = <<>> \/ Head(s).value = {} THEN Nil ELSE Numbers(Head(s).value)
HasOdd(e) == \E i \in DOMAIN Details(e) : "odd" \in Details(e)[i].value

CarriedDetails(b, e) ==
    CASE b \in {"grpc1", "grpc0"} -> FirstDetails(Convertible(Details(e)))
      [] b \in HTTP /\ HasOdd(e) -> Nil
      [] OTHER -> FirstDetails(Details(e))

\* HTTP+JSON has no body for an error with details that have no JSON: alone it
\* is its status, and within a stream it is not sent at all.
Unsendable(b, e) == b \in {"rest1", "rest0"} /\ HasOdd(e)

\* A caller that got all the events before it can tell what kind of error the
\* server's handler or interceptor ended the call with, and has the details
\* that have a wire form, before or within a stream (ToJSONRPCError,
\* ToRESTError, ToGRPCError and their readers).  Unary HTTP+JSON calls of
\* version 0.3 are left out: their error bodies say application/problem+json
\* (writeRESTCompatError), which isJSONErrorContentType does not know, so that
\* only the HTTP status is read.
ErrorsSurvive ==
    /\ answer # Nil /\ answer.kind = "error" /\ raised # Nil /\ conn # "broken"
    /\ ~(call.binding = "rest0" /\ ~Streaming(call)) /\ ~Unsendable(call.binding, raised)
    /\ Streaming(call) => Len(got) = Len(produced)
    => LET e == answer.error
       IN /\ e.is # {} /\ e.is \subseteq ErrorMeaning(call.binding, raised)
          /\ e.details = CarriedDetails(call.binding, raised)

\* The events a caller gets are the first ones of the stream, in their order,
\* and a stream that ends without an error was read to its end and had none:
\* a broken connection or a failed handler is never taken for the end.  The
\* exception is the code's: over HTTP+JSON an error whose details have no JSON
\* is only logged (handleError), and the stream looks complete.
StreamFaithful ==
    /\ TypeOK
    /\ Len(got) <= Len(produced)
    /\ \A i \in DOMAIN got : got[i] = CarriedEvent(call.binding, produced[i])
    /\ answer = End =>
          /\ Len(got) = Len(produced) /\ server # "dead"
          /\ raised = Nil \/ Unsendable(call.binding, raised)

\* Every call ends with an answer, if it is not the caller who leaves it, and
\* once the caller is done nothing of the call is left on the server, however
\* it ended: the producer is not stuck at the channel, the writer not in its
\* select.  (A gRPC stream whose reader leaves is not closed by the client.)
CallsReturn ==
    /\ <>(client = "done")
    /\ (client = "done" /\ (HTTPCall \/ ~Streaming(call))) ~> Done
=============================================================================
