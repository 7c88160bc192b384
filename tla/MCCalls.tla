------------------------------ MODULE MCCalls ------------------------------
(***************************************************************************)
(* Calls for TLC: every method over every binding with one full request,   *)
(* and the cases of each that are special.                                 *)
(***************************************************************************)
EXTENDS Calls, TLC

Part(kind, value) ==
    [content |-> [kind |-> kind, value |-> value], filename |-> "f", mediaType |-> "m",
     metadata |-> Nil]

\* Every kind of content, a number in a map and data that is not a map.
Parts == <<Part("text", "hello"), Part("raw", "bytes"), Part("url", "u"),
           Part("data", {"ints"}), [Part("value", {"text"}) EXCEPT !.metadata = {"ints"}]>>

Message(role, task) ==
    [type |-> "message", id |-> "m1", context |-> "c1", task |-> task, role |-> role,
     parts |-> Parts, metadata |-> {"ints"}, extensions |-> <<"e1">>, refs |-> <<"t0">>]

Reply == [Message("agent", "t1") EXCEPT !.parts = <<Part("text", "hi")>>, !.refs = <<>>]

Artifact == [id |-> "a1", name |-> "n", description |-> "", parts |-> <<Part("text", "x")>>,
             metadata |-> Nil, extensions |-> <<>>]

Status(state) == [state |-> state, message |-> Reply, time |-> 7]

MCTask == [type |-> "task", id |-> "t1", context |-> "c1", status |-> Status("working"),
           artifacts |-> <<Artifact>>, history |-> <<Message("user", "t1"), Reply>>,
           metadata |-> {"text"}]

StatusUpdate == [type |-> "status", task |-> "t1", context |-> "c1",
                 status |-> Status("completed"), metadata |-> Nil]
ArtifactUpdate == [type |-> "artifact", task |-> "t1", context |-> "c1", append |-> TRUE,
                   lastChunk |-> FALSE, artifact |-> Artifact, metadata |-> {"ints"}]
OddUpdate == [StatusUpdate EXCEPT !.metadata = {"odd"}]

MCSendResults == {Reply, [MCTask EXCEPT !.history = <<>>], [Reply EXCEPT !.metadata = {"odd"}],
                  [Reply EXCEPT !.id = ""]}
MCEvents == {ArtifactUpdate, StatusUpdate, OddUpdate}

Push == [tenant |-> "acme", task |-> "t1", id |-> "p1", url |-> "u", token |-> "k",
         auth |-> [scheme |-> "bearer", credentials |-> "s"]]

\* The OAuth flows, held by pointer or by value.
Flow(kind, pointer) ==
    [kind |-> kind, pointer |-> pointer]
    @@ [f \in V1!FlowFields[kind] |-> CASE f = "scopes" -> <<"s">> [] f = "pkce" -> TRUE [] OTHER -> "u"]

Flows == {Flow(k, p) : k \in DOMAIN V1!FlowFields, p \in BOOLEAN}

\* A card with every scheme.
Card(flow) ==
    [name |-> "n", description |-> "d", version |-> "1", documentation |-> "", icon |-> "",
     interfaces |-> <<[url |-> "u1", binding |-> "GRPC", tenant |-> "acme", version |-> "1.0"],
                      [url |-> "u2", binding |-> "JSONRPC", tenant |-> "", version |-> "0.3"]>>,
     provider |-> [org |-> "o", url |-> "u"],
     capabilities |-> [streaming |-> TRUE, push |-> FALSE, extended |-> TRUE,
                       extensions |-> <<[uri |-> "x", description |-> "", required |-> TRUE,
                                         params |-> {"text"}]>>],
     schemes |->
        [key |-> [kind |-> "apiKey", name |-> "k", location |-> "header", description |-> ""],
         basic |-> [kind |-> "http", scheme |-> "basic", bearerFormat |-> "", description |-> ""],
         openId |-> [kind |-> "openId", url |-> "u", description |-> ""],
         mtls |-> [kind |-> "mtls", description |-> ""],
         oauth |-> [kind |-> "oauth2", metadataUrl |-> "", description |-> "",
                    flows |-> flow]],
     security |-> <<[oauth |-> <<"s">>]>>,
     inputModes |-> <<"text">>, outputModes |-> <<"text">>,
     skills |-> <<[id |-> "s1", name |-> "n", description |-> "d", tags |-> <<"t">>,
                   examples |-> <<>>, inputModes |-> <<>>, outputModes |-> <<>>,
                   security |-> <<[key |-> <<>>]>>]>>,
     signatures |-> <<[protected |-> "p", signature |-> "s", header |-> {"text"}]>>]

MCExtendedCards == {Card(f) : f \in Flows}

-----------------------------------------------------------------------------
Sent == [tenant |-> "acme", message |-> Message("user", "t1"), metadata |-> {"text"},
         config |-> [modes |-> <<"text">>, immediate |-> TRUE, push |-> Push, history |-> 0]]

Listed == [tenant |-> "acme", context |-> "c1", status |-> "working", pageSize |-> 5,
           pageToken |-> "p", after |-> 7, artifacts |-> TRUE, history |-> 1]

RequestOf ==
    [SendMessage |-> Sent, SendStreamingMessage |-> Sent,
     GetTask |-> [tenant |-> "acme", id |-> "t1", history |-> 1],
     ListTasks |-> Listed,
     CancelTask |-> [tenant |-> "acme", id |-> "t1", metadata |-> {"ints"}],
     SubscribeToTask |-> [tenant |-> "acme", id |-> "t1"],
     CreateTaskPushConfig |-> Push,
     GetTaskPushConfig |-> [tenant |-> "acme", task |-> "t1", id |-> "p1"],
     DeleteTaskPushConfig |-> [tenant |-> "acme", task |-> "t1", id |-> "p1"],
     ListTaskPushConfigs |-> [tenant |-> "acme", task |-> "t1", pageSize |-> 5, pageToken |-> "p"],
     GetExtendedAgentCard |-> [tenant |-> "acme"]]

\* Errors of a handler: of the protocol, of several kinds, with details, of
\* the context, of none of these.
Detailed == [is |-> {"TaskNotFound"}, details |-> {"ints"}, typed |-> <<>>]
OddlyDetailed == [is |-> {"InvalidParams"}, details |-> {"odd"}, typed |-> <<>>]
Typed == [is |-> {"TaskNotCancelable"}, details |-> {},
          typed |-> <<[type |-> "info", value |-> {"odd"}], [type |-> "help", value |-> {"text"}]>>]
Mixed == [is |-> {"Unauthorized", "UnsupportedOperation"}, details |-> Nil, typed |-> <<>>]

Base(b, m) ==
    [binding |-> b, method |-> m, request |-> RequestOf[m], card |-> Nil,
     defaults |-> [push |-> Nil, modes |-> <<>>], version |-> Served(b), pushes |-> TRUE,
     sanitizes |-> FALSE, panics |-> FALSE, panicHandler |-> FALSE, keepAlive |-> FALSE,
     breaks |-> FALSE, failures |-> {Detailed}]

All(m) == {Base(b, m) : b \in Bindings}

Plain == UNION {All(m) : m \in Methods \ StreamMethods}

\* Another request.
Of(m, r) == {[s EXCEPT !.request = r] : s \in All(m)}

Requests ==
    UNION {Of("GetTask", [tenant |-> "", id |-> "t1", history |-> n]) : n \in {Nil, 0, -1, 2}}
    \cup UNION {Of("GetTask", [tenant |-> "", id |-> id, history |-> Nil]) : id \in {"", "a/b"}}
    \cup UNION {Of("ListTasks", [Listed EXCEPT !.history = n, !.pageSize = n]) : n \in {9, -9}}
    \cup UNION {Of("SendMessage", [Sent EXCEPT !.config.history = n, !.metadata = {}]) : n \in {9, 16}}
    \cup Of("SendMessage", [Sent EXCEPT !.message.parts = <<[Part("value", {"ints"}) EXCEPT !.metadata = Nil],
                                                             [Part("data", {}) EXCEPT !.metadata = {}]>>])
    \cup Of("GetTask", [tenant |-> "", id |-> "t2", history |-> Nil])
    \cup Of("SendMessage", [Sent EXCEPT !.config = Nil, !.metadata = Nil])
    \cup Of("SendMessage", [Sent EXCEPT !.message.id = ""])
    \cup Of("SendMessage", [Sent EXCEPT !.metadata = {"odd"}])
    \cup Of("CancelTask", [tenant |-> "", id |-> "t2", metadata |-> {"odd"}])
    \cup Of("CancelTask", [tenant |-> "", id |-> "t2", metadata |-> Nil])
    \cup {[s EXCEPT !.defaults = [push |-> Push, modes |-> <<"text">>], !.request.config = Nil] :
             s \in All("SendMessage")}

\* Another server, or a client that knows its card.
Servers ==
    {[s EXCEPT !.version = "2.0"] : s \in All("GetTask") \cup All("SubscribeToTask")}
    \cup {[s EXCEPT !.pushes = FALSE] : s \in All("GetTaskPushConfig")}
    \cup {[s EXCEPT !.card = [streaming |-> FALSE, extended |-> FALSE]] :
             s \in All("SendStreamingMessage") \cup All("GetExtendedAgentCard")}

\* Other failures, hidden by a sanitizer or not; the handler panics.
Failing ==
    {[s EXCEPT !.failures = {Mixed, NewError("Canceled"), NewError("ServerError"), Unclassified},
               !.sanitizes = x] : s \in All("GetTask"), x \in BOOLEAN}
    \cup {[s EXCEPT !.failures = {OddlyDetailed, Typed}] : s \in All("GetTask")}
    \cup {[s EXCEPT !.panics = TRUE, !.panicHandler = x, !.breaks = TRUE] :
             s \in All("GetTask"), x \in BOOLEAN}
    \cup {[s EXCEPT !.request.message = Nil, !.panicHandler = x] :
             s \in All("SendMessage") \cup All("SendStreamingMessage"), x \in BOOLEAN}

Streams ==
    {[s EXCEPT !.breaks = TRUE, !.panics = s.binding \notin {"grpc1", "grpc0"},
               !.panicHandler = x, !.keepAlive = x] :
        s \in All("SubscribeToTask"), x \in BOOLEAN}
    \cup {[s EXCEPT !.failures = {OddlyDetailed}, !.keepAlive = TRUE] : s \in All("SubscribeToTask")}
    \cup All("SendStreamingMessage")
    \cup Of("SendStreamingMessage", [Sent EXCEPT !.message.parts = <<>>])
    \cup Of("SendStreamingMessage", [Sent EXCEPT !.message = Nil, !.config = Nil])
    \cup Of("SubscribeToTask", [tenant |-> "", id |-> "t2"])
    \cup Of("SendStreamingMessage", [Sent EXCEPT !.message.parts = <<Part("url", "")>>])

MCSettings == Plain \cup Requests \cup Servers \cup Failing \cup Streams

MCInterceptErrors == {NewError("Unauthenticated")}

=============================================================================
