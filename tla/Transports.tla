----------------------------- MODULE Transports ----------------------------
(***************************************************************************)
(* What each binding of the protocol puts on the wire for each method, on  *)
(* the client's side (a request out, a result in) and on the server's (a   *)
(* request in, a result out): gRPC, JSON-RPC and HTTP+JSON, each in        *)
(* version 1 and in version 0.3.  An HTTP request is the record of what    *)
(* its path, its query and its body carry.                                 *)
(***************************************************************************)
EXTENDS Errors

CONSTANT Second     \* in units of time

ASSUME SecondAssumption == Second \in Nat /\ Second >= Millisecond

V1 == INSTANCE ProtoV1
V0 == INSTANCE ProtoV0
J1 == INSTANCE JsonV1
C0 == INSTANCE CompatV0
P0 == INSTANCE PbJson

Bindings == {"grpc1", "grpc0", "rpc1", "rpc0", "rest1", "rest0"}
Legacy == {"grpc0", "rpc0", "rest0"}
HTTP == Bindings \ {"grpc1", "grpc0"}

StreamMethods == {"SendStreamingMessage", "SubscribeToTask"}

Methods ==
    StreamMethods \cup
    {"SendMessage", "GetTask", "ListTasks", "CancelTask", "CreateTaskPushConfig",
     "GetTaskPushConfig", "ListTaskPushConfigs", "DeleteTaskPushConfig", "GetExtendedAgentCard"}

Sends(m) == m \in {"SendMessage", "SendStreamingMessage"}

\* What DeleteTaskPushConfig returns.
Empty == <<>>

-----------------------------------------------------------------------------
(* gRPC, version 1 *)

grpc1Request(m, r) ==
    CASE Sends(m) -> V1!ToProtoSendMessageRequest(r)
      [] m = "GetTask" -> V1!ToProtoGetTaskRequest(r)
      [] m = "ListTasks" -> V1!ToProtoListTasksRequest(r)
      [] m = "CancelTask" -> V1!ToProtoCancelTaskRequest(r)
      [] m = "SubscribeToTask" -> V1!ToProtoSubscribeToTaskRequest(r)
      [] m = "CreateTaskPushConfig" -> V1!ToProtoTaskPushConfig(r)
      [] m = "GetTaskPushConfig" -> V1!ToProtoGetTaskPushConfigRequest(r)
      [] m = "ListTaskPushConfigs" -> V1!ToProtoListTaskPushConfigRequest(r)
      [] m = "DeleteTaskPushConfig" -> V1!ToProtoDeleteTaskPushConfigRequest(r)
      [] m = "GetExtendedAgentCard" -> V1!ToProtoGetExtendedAgentCardRequest(r)

grpc1Received(m, w) ==
    CASE Sends(m) -> V1!FromProtoSendMessageRequest(w)
      [] m = "GetTask" -> V1!FromProtoGetTaskRequest(w)
      [] m = "ListTasks" -> V1!FromProtoListTasksRequest(w)
      [] m = "CancelTask" -> V1!FromProtoCancelTaskRequest(w)
      [] m = "SubscribeToTask" -> V1!FromProtoSubscribeToTaskRequest(w)
      [] m = "CreateTaskPushConfig" -> V1!FromProtoTaskPushConfig(w)
      [] m = "GetTaskPushConfig" -> V1!FromProtoGetTaskPushConfigRequest(w)
      [] m = "ListTaskPushConfigs" -> V1!FromProtoListTaskPushConfigRequest(w)
      [] m = "DeleteTaskPushConfig" -> V1!FromProtoDeleteTaskPushConfigRequest(w)
      [] m = "GetExtendedAgentCard" -> V1!FromProtoGetExtendedAgentCardRequest(w)

grpc1Response(m, v) ==
    CASE m = "SendMessage" -> V1!ToProtoSendMessageResponse(v)
      [] m \in {"GetTask", "CancelTask"} -> V1!ToProtoTask(v)
      [] m = "ListTasks" -> V1!ToProtoListTasksResponse(v)
      [] m \in {"CreateTaskPushConfig", "GetTaskPushConfig"} -> V1!ToProtoTaskPushConfig(v)
      [] m = "ListTaskPushConfigs" -> V1!ToProtoListTaskPushConfigResponse(v)
      [] m = "DeleteTaskPushConfig" -> Empty
      [] m = "GetExtendedAgentCard" -> V1!ToProtoAgentCard(v)
      [] m \in StreamMethods -> V1!ToProtoStreamResponse(v)

\* The token of the next page is not in ListTaskPushConfigs' result.
grpc1Result(m, w) ==
    CASE m = "SendMessage" -> V1!FromProtoSendMessageResponse(w)
      [] m \in {"GetTask", "CancelTask"} -> V1!FromProtoTask(w)
      [] m = "ListTasks" -> V1!FromProtoListTasksResponse(w)
      [] m \in {"CreateTaskPushConfig", "GetTaskPushConfig"} -> V1!FromProtoTaskPushConfig(w)
      [] m = "ListTaskPushConfigs" ->
            LET r == V1!FromProtoListTaskPushConfigResponse(w) IN IF r = Err THEN Err ELSE r.configs
      [] m = "DeleteTaskPushConfig" -> Empty
      [] m = "GetExtendedAgentCard" -> V1!FromProtoAgentCard(w)
      [] m \in StreamMethods -> V1!FromProtoStreamResponse(w)

-----------------------------------------------------------------------------
(* gRPC, version 0.3 *)

grpc0Request(m, r) ==
    CASE Sends(m) -> V0!ToProtoSendMessageRequest(r)
      [] m = "GetTask" -> V0!ToProtoGetTaskRequest(r)
      [] m = "ListTasks" -> V0!ToProtoListTasksRequest(r)
      [] m = "CancelTask" -> V0!ToProtoCancelTaskRequest(r)
      [] m = "SubscribeToTask" -> V0!ToProtoTaskSubscriptionRequest(r)
      [] m = "CreateTaskPushConfig" -> V0!ToProtoCreateTaskPushConfigRequest(r)
      [] m = "GetTaskPushConfig" -> V0!ToProtoGetTaskPushConfigRequest(r)
      [] m = "ListTaskPushConfigs" -> V0!ToProtoListTaskPushConfigRequest(r)
      [] m = "DeleteTaskPushConfig" -> V0!ToProtoDeleteTaskPushConfigRequest(r)
      [] m = "GetExtendedAgentCard" -> Empty

\* The handler itself requires the message.
grpc0Received(m, w) ==
    CASE Sends(m) -> Require(w.request # Nil, V0!FromProtoSendMessageRequest(w))
      [] m = "GetTask" -> V0!FromProtoGetTaskRequest(w)
      [] m = "ListTasks" -> V0!FromProtoListTasksRequest(w)
      [] m = "CancelTask" -> V0!FromProtoCancelTaskRequest(w)
      [] m = "SubscribeToTask" -> V0!FromProtoTaskSubscriptionRequest(w)
      [] m = "CreateTaskPushConfig" -> V0!FromProtoCreateTaskPushConfigRequest(w)
      [] m = "GetTaskPushConfig" -> V0!FromProtoGetTaskPushConfigRequest(w)
      [] m = "ListTaskPushConfigs" -> V0!FromProtoListTaskPushConfigRequest(w)
      [] m = "DeleteTaskPushConfig" -> V0!FromProtoDeleteTaskPushConfigRequest(w)
      [] m = "GetExtendedAgentCard" -> V0!FromProtoGetAgentCardRequest

grpc0Response(m, v) ==
    CASE m = "SendMessage" -> V0!ToProtoSendMessageResponse(v)
      [] m \in {"GetTask", "CancelTask"} -> V0!ToProtoTask(v)
      [] m = "ListTasks" -> V0!ToProtoListTasksResponse(v)
      [] m \in {"CreateTaskPushConfig", "GetTaskPushConfig"} -> V0!ToProtoTaskPushConfig(v)
      [] m = "ListTaskPushConfigs" -> V0!ToProtoListTaskPushConfigResponse(v)
      [] m = "DeleteTaskPushConfig" -> Empty
      [] m = "GetExtendedAgentCard" -> V0!ToProtoAgentCard(v)
      [] m \in StreamMethods -> V0!ToProtoStreamResponse(v)

grpc0Result(m, w) ==
    CASE m = "SendMessage" -> V0!FromProtoSendMessageResponse(w)
      [] m \in {"GetTask", "CancelTask"} -> V0!FromProtoTask(w)
      [] m = "ListTasks" -> V0!FromProtoListTasksResponse(w)
      [] m \in {"CreateTaskPushConfig", "GetTaskPushConfig"} -> V0!FromProtoTaskPushConfig(w)
      [] m = "ListTaskPushConfigs" ->
            LET r == V0!FromProtoListTaskPushConfigResponse(w) IN IF r = Err THEN Err ELSE r.configs
      [] m = "DeleteTaskPushConfig" -> Empty
      [] m = "GetExtendedAgentCard" -> V0!FromProtoAgentCard(w)
      [] m \in StreamMethods -> V0!FromProtoStreamResponse(w)

-----------------------------------------------------------------------------
(* JSON-RPC, version 1: the JSON of the request and of the result *)

rpc1Request(m, r) ==
    CASE Sends(m) -> J1!MarshalSendMessageRequest(r)
      [] m = "CancelTask" -> J1!MarshalCancelTaskRequest(r)
      [] m = "ListTasks" -> J1!MarshalListTasksRequest(r)
      [] OTHER -> r

rpc1Received(m, w) ==
    CASE Sends(m) -> J1!UnmarshalSendMessageRequest(w)
      [] m = "ListTasks" -> J1!UnmarshalListTasksRequest(w)
      [] OTHER -> w

rpc1Response(m, v) ==
    CASE m \in {"SendMessage"} \cup StreamMethods -> J1!MarshalEvent(v)
      [] m \in {"GetTask", "CancelTask"} -> J1!MarshalTask(v)
      [] m = "ListTasks" -> J1!MarshalListTasksResponse(v)
      [] m = "GetExtendedAgentCard" -> J1!MarshalAgentCard(v)
      [] OTHER -> v

rpc1Result(m, w) ==
    CASE m = "SendMessage" -> J1!UnmarshalSendMessageResult(w)
      [] m \in StreamMethods -> J1!UnmarshalEvent(w)
      [] m \in {"GetTask", "CancelTask"} -> J1!UnmarshalTask(w)
      [] m = "ListTasks" -> J1!UnmarshalListTasksResponse(w)
      [] m = "ListTaskPushConfigs" -> w.configs
      [] m = "GetExtendedAgentCard" -> J1!UnmarshalAgentCard(w)
      [] OTHER -> w

-----------------------------------------------------------------------------
(* JSON-RPC, version 0.3: the JSON of the legacy types.  There is no method *)
(* that lists tasks.                                                        *)

rpc0Request(m, r) ==
    CASE Sends(m) -> C0!FromV1SendMessageRequest(r)
      [] m = "GetTask" -> C0!FromV1GetTaskRequest(r)
      [] m = "CancelTask" -> C0!FromV1CancelTaskRequest(r)
      [] m = "SubscribeToTask" -> C0!FromV1SubscribeToTaskRequest(r)
      [] m = "CreateTaskPushConfig" -> C0!FromV1PushConfig(r)
      [] m = "GetTaskPushConfig" -> C0!FromV1GetTaskPushConfigRequest(r)
      [] m = "ListTaskPushConfigs" -> C0!FromV1ListTaskPushConfigRequest(r)
      [] m = "DeleteTaskPushConfig" -> C0!FromV1DeleteTaskPushConfigRequest(r)
      [] m = "GetExtendedAgentCard" -> r

\* The request for the card is not read.
rpc0Received(m, w) ==
    CASE Sends(m) -> C0!ToV1SendMessageRequest(w)
      [] m = "GetTask" -> C0!ToV1GetTaskRequest(w)
      [] m = "CancelTask" -> C0!ToV1CancelTaskRequest(w)
      [] m = "SubscribeToTask" -> C0!ToV1SubscribeToTaskRequest(w)
      [] m = "CreateTaskPushConfig" -> C0!ToV1PushConfig(w)
      [] m = "GetTaskPushConfig" -> C0!ToV1GetTaskPushConfigRequest(w)
      [] m = "ListTaskPushConfigs" -> C0!ToV1ListTaskPushConfigRequest(w)
      [] m = "DeleteTaskPushConfig" -> C0!ToV1DeleteTaskPushConfigRequest(w)
      [] m = "GetExtendedAgentCard" -> [tenant |-> ""]

rpc0Response(m, v) ==
    CASE m = "SendMessage" -> Require(v.type \in {"task", "message"}, C0!FromV1Event(v))
      [] m \in StreamMethods -> C0!FromV1Event(v)
      [] m \in {"GetTask", "CancelTask"} -> C0!FromV1Task(v)
      [] m \in {"CreateTaskPushConfig", "GetTaskPushConfig"} -> C0!FromV1PushConfig(v)
      [] m = "ListTaskPushConfigs" -> C0!FromV1PushConfigs(v.configs)
      [] m = "DeleteTaskPushConfig" -> Empty
      [] m = "GetExtendedAgentCard" -> C0!toCompatCard(v)

rpc0Result(m, w) ==
    CASE m \in {"SendMessage"} \cup StreamMethods -> C0!ToV1Event(w)
      [] m \in {"GetTask", "CancelTask"} -> C0!ToV1Task(w)
      [] m \in {"CreateTaskPushConfig", "GetTaskPushConfig"} -> C0!ToV1PushConfig(w)
      [] m = "ListTaskPushConfigs" -> C0!ToV1PushConfigs(w)
      [] m = "DeleteTaskPushConfig" -> Empty
      [] m = "GetExtendedAgentCard" -> C0!parseCard(w)

-----------------------------------------------------------------------------
(* HTTP+JSON, version 1 *)

\* A path has the tenant and the ids, a query the rest of a GET.  The path's
\* tenant goes before the body's.
rest1Request(m, r) ==
    CASE Sends(m) -> LET body == J1!MarshalSendMessageRequest(r)
                     IN IF body = Err THEN Err ELSE [tenant |-> r.tenant, body |-> body]
      [] m = "CancelTask" -> J1!MarshalCancelTaskRequest(r)
      [] m = "ListTasks" -> [r EXCEPT !.after = jsonTimestamp(r.after)]
      [] m = "CreateTaskPushConfig" -> [tenant |-> r.tenant, task |-> r.task, body |-> r]
      [] m = "ListTaskPushConfigs" -> [tenant |-> r.tenant, task |-> r.task]
      [] OTHER -> r

fillTenant(path, v) == IF v = Err \/ path = "" THEN v ELSE [v EXCEPT !.tenant = path]

\* Only the path's task counts, and the paging of push configurations is lost.
rest1Received(m, w) ==
    CASE Sends(m) -> fillTenant(w.tenant, J1!UnmarshalSendMessageRequest(w.body))
      [] m = "ListTasks" -> [w EXCEPT !.status = fromProtoTaskState(w.status)]
      [] m = "CreateTaskPushConfig" -> fillTenant(w.tenant, [w.body EXCEPT !.task = w.task])
      [] m = "ListTaskPushConfigs" -> [tenant |-> w.tenant, task |-> w.task, pageSize |-> 0,
                                       pageToken |-> ""]
      [] m \in {"GetTask", "SubscribeToTask"} -> Require(w.id # "", w)
      [] OTHER -> w

rest1Response(m, v) == rpc1Response(m, v)
rest1Result(m, w) == rpc1Result(m, w)

-----------------------------------------------------------------------------
(* HTTP+JSON, version 0.3 *)

\* A time in a query has no fraction of a second.
rest0Request(m, r) ==
    CASE Sends(m) -> P0!ToProtoSendMessageRequest(r)
      [] m = "CreateTaskPushConfig" -> [task |-> r.task, body |-> P0!ToProtoCreatePushConfigRequest(r)]
      [] m = "ListTasks" -> [r EXCEPT !.status = IF @ = "" THEN "" ELSE P0!EncodeTaskState(@),
                                      !.after = Opt(LAMBDA t : t - (t % Second), @)]
      [] OTHER -> r

rest0Received(m, w) ==
    CASE Sends(m) -> P0!FromProtoSendMessageRequest(w)
      [] m = "GetTask" -> Require(w.id # "", [tenant |-> "", id |-> w.id, history |-> w.history])
      [] m = "CancelTask" -> [tenant |-> "", id |-> w.id, metadata |-> Nil]
      [] m = "SubscribeToTask" -> [tenant |-> "", id |-> w.id]
      [] m = "ListTasks" -> [w EXCEPT !.tenant = "", !.status = P0!DecodeTaskState(@)]
      [] m = "CreateTaskPushConfig" -> P0!FromProtoCreatePushConfigRequest(w.body, w.task)
      [] m \in {"GetTaskPushConfig", "DeleteTaskPushConfig"} ->
            [tenant |-> "", task |-> w.task, id |-> w.id]
      [] m = "ListTaskPushConfigs" -> [tenant |-> "", task |-> w.task, pageSize |-> 0,
                                       pageToken |-> ""]
      [] m = "GetExtendedAgentCard" -> [tenant |-> ""]

rest0Response(m, v) ==
    CASE m = "SendMessage" -> P0!ToProtoSendMessageResult(v)
      [] m \in StreamMethods -> P0!ToProtoStreamEvent(v)
      [] m \in {"GetTask", "CancelTask"} -> P0!ToProtoTask(v)
      [] m = "ListTasks" -> P0!ToProtoListTasksResponse(v)
      [] m \in {"CreateTaskPushConfig", "GetTaskPushConfig"} -> P0!ToProtoPushConfigResponse(v)
      [] m = "ListTaskPushConfigs" -> P0!ToProtoListPushConfigsResponse(v.configs)
      [] m = "DeleteTaskPushConfig" -> Empty
      [] m = "GetExtendedAgentCard" -> C0!toCompatCard(v)

rest0Result(m, w, r) ==
    CASE m = "SendMessage" -> P0!FromProtoSendMessageResponse(w)
      [] m \in StreamMethods -> P0!FromProtoStreamEvent(w)
      [] m \in {"GetTask", "CancelTask"} -> P0!FromProtoTask(w)
      [] m = "ListTasks" -> P0!FromProtoListTasksResponse(w)
      [] m \in {"CreateTaskPushConfig", "GetTaskPushConfig"} -> P0!FromProtoPushConfigResponse(w)
      [] m = "ListTaskPushConfigs" -> P0!FromProtoListPushConfigsResponse(w, r.task)
      [] m = "DeleteTaskPushConfig" -> Empty
      [] m = "GetExtendedAgentCard" -> C0!parseCard(w)

-----------------------------------------------------------------------------
(* The bindings together *)

EncodeRequest(b, m, r) ==
    CASE b = "grpc1" -> grpc1Request(m, r) [] b = "grpc0" -> grpc0Request(m, r)
      [] b = "rpc1" -> rpc1Request(m, r)   [] b = "rpc0" -> rpc0Request(m, r)
      [] b = "rest1" -> rest1Request(m, r) [] b = "rest0" -> rest0Request(m, r)

DecodeRequest(b, m, w) ==
    CASE b = "grpc1" -> grpc1Received(m, w) [] b = "grpc0" -> grpc0Received(m, w)
      [] b = "rpc1" -> rpc1Received(m, w)   [] b = "rpc0" -> rpc0Received(m, w)
      [] b = "rest1" -> rest1Received(m, w) [] b = "rest0" -> rest0Received(m, w)

EncodeResult(b, m, v) ==
    CASE b = "grpc1" -> grpc1Response(m, v) [] b = "grpc0" -> grpc0Response(m, v)
      [] b = "rpc1" -> rpc1Response(m, v)   [] b = "rpc0" -> rpc0Response(m, v)
      [] b = "rest1" -> rest1Response(m, v) [] b = "rest0" -> rest0Response(m, v)

DecodeResult(b, m, w, r) ==
    CASE b = "grpc1" -> grpc1Result(m, w) [] b = "grpc0" -> grpc0Result(m, w)
      [] b = "rpc1" -> rpc1Result(m, w)   [] b = "rpc0" -> rpc0Result(m, w)
      [] b = "rest1" -> rest1Result(m, w) [] b = "rest0" -> rest0Result(m, w, r)
=============================================================================
