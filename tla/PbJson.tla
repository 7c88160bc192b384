------------------------------- MODULE PbJson ------------------------------
(***************************************************************************)
(* The JSON bodies of version 0.3 over HTTP (a2apb/v0/pbjson): the JSON of *)
(* the protobuf messages of that version, by structs of its own.  The path *)
(* and the query of a request are in module Transports.                    *)
(***************************************************************************)
EXTENDS Wire

-----------------------------------------------------------------------------
(* Messages, tasks and events *)

\* A file is bytes or a URI; nothing that is empty is written.  Data is
\* written as it is, whether it is a map or not.
partToWire(p) ==
    LET c == p.content
    IN CASE c.kind = "text" -> Struct([part |-> "text", value |-> c.value,
                                       metadata |-> jsonMap(p.metadata)])
         [] c.kind \in {"raw", "url"} ->
                Struct([part |-> "file", value |-> c, mimeType |-> p.mediaType,
                        name |-> p.filename, metadata |-> jsonMap(p.metadata)])
         [] c.kind \in {"data", "value"} ->
                Struct([part |-> "data",
                        value |-> Struct([kind |-> c.kind, value |-> toProtoMap(c.value)]),
                        metadata |-> jsonMap(p.metadata)])
         [] OTHER -> Struct([part |-> "none", metadata |-> jsonMap(p.metadata)])

NoContent == [kind |-> "none", value |-> ""]

\* A part without content is read as an empty part.
partFromWire(p) ==
    CASE p.part = "text" -> [content |-> [kind |-> "text", value |-> p.value], filename |-> "",
                             mediaType |-> "", metadata |-> p.metadata]
      [] p.part = "file" -> [content |-> IF p.value.value = "" THEN NoContent ELSE p.value,
                             filename |-> p.name, mediaType |-> p.mimeType,
                             metadata |-> p.metadata]
      [] p.part = "data" -> [content |-> p.value, filename |-> "", mediaType |-> "",
                             metadata |-> p.metadata]
      [] OTHER -> [content |-> NoContent, filename |-> "", mediaType |-> "", metadata |-> Nil]

messageToWire(m) ==
    Opt(LAMBDA v : Struct([messageId |-> v.id, contextId |-> v.context, taskId |-> v.task,
                           role |-> toProtoRole(v.role), content |-> Each(partToWire, v.parts),
                           metadata |-> jsonMap(v.metadata), extensions |-> v.extensions]), m)

messageFromWire(m) ==
    Opt(LAMBDA v : [type |-> "message", id |-> v.messageId, context |-> v.contextId,
                    task |-> v.taskId, role |-> fromProtoRole(v.role),
                    parts |-> Each(partFromWire, v.content), metadata |-> v.metadata,
                    extensions |-> v.extensions, refs |-> <<>>], m)

\* Mutant: the enumeration spells every state as the protocol does.
DecodeTaskStatePlainly(s) == fromProtoTaskState(s)

\* The enumeration spells one state its own way.
EncodeTaskState(s) == IF s = "canceled" THEN "cancelled" ELSE toProtoTaskState(s)
DecodeTaskState(s) == IF s = "cancelled" THEN "canceled" ELSE fromProtoTaskState(s)

taskStatusToWire(s) ==
    Struct([state |-> EncodeTaskState(s.state), message |-> messageToWire(s.message),
            timestamp |-> s.time])

taskStatusFromWire(s) ==
    [state |-> DecodeTaskState(s.state), message |-> messageFromWire(s.message),
     time |-> s.timestamp]

artifactToWire(a) ==
    Opt(LAMBDA v : Struct([artifactId |-> v.id, name |-> v.name, description |-> v.description,
                           parts |-> Each(partToWire, v.parts), metadata |-> jsonMap(v.metadata),
                           extensions |-> v.extensions]), a)

artifactFromWire(a) ==
    Opt(LAMBDA v : [id |-> v.artifactId, name |-> v.name, description |-> v.description,
                    parts |-> Each(partFromWire, v.parts), metadata |-> v.metadata,
                    extensions |-> v.extensions], a)

taskToWire(t) ==
    Struct([id |-> t.id, contextId |-> t.context, status |-> taskStatusToWire(t.status),
            artifacts |-> Each(artifactToWire, t.artifacts),
            history |-> Each(messageToWire, t.history), metadata |-> jsonMap(t.metadata)])

taskFromWire(t) ==
    [type |-> "task", id |-> t.id, context |-> t.contextId,
     status |-> taskStatusFromWire(t.status), artifacts |-> Each(artifactFromWire, t.artifacts),
     history |-> Each(messageFromWire, t.history), metadata |-> t.metadata]

Final(s) == s \in {"completed", "canceled", "failed", "rejected"}

taskStatusUpdateEventToWire(e) ==
    Struct([taskId |-> e.task, contextId |-> e.context, status |-> taskStatusToWire(e.status),
            final |-> Final(e.status.state), metadata |-> jsonMap(e.metadata)])

statusUpdateFromWire(e) ==
    [type |-> "status", task |-> e.taskId, context |-> e.contextId,
     status |-> taskStatusFromWire(e.status), metadata |-> e.metadata]

taskArtifactUpdateEventToWire(e) ==
    Struct([taskId |-> e.task, contextId |-> e.context, append |-> e.append,
            lastChunk |-> e.lastChunk, artifact |-> artifactToWire(e.artifact),
            metadata |-> jsonMap(e.metadata)])

artifactUpdateFromWire(e) ==
    [type |-> "artifact", task |-> e.taskId, context |-> e.contextId, append |-> e.append,
     lastChunk |-> e.lastChunk, artifact |-> artifactFromWire(e.artifact),
     metadata |-> e.metadata]

Key(k, v) == IF v = Err THEN Err ELSE [key |-> k, value |-> v]

ToProtoSendMessageResult(r) ==
    CASE r.type = "task" -> Key("task", taskToWire(r))
      [] r.type = "message" -> Key("message", messageToWire(r))
      [] OTHER -> Err

FromProtoSendMessageResponse(w) ==
    CASE w.key = "message" -> messageFromWire(w.value)
      [] w.key = "task" -> taskFromWire(w.value)
      [] OTHER -> Err

ToProtoStreamEvent(e) ==
    CASE e.type = "task" -> Key("task", taskToWire(e))
      [] e.type = "message" -> Key("message", messageToWire(e))
      [] e.type = "status" -> Key("statusUpdate", taskStatusUpdateEventToWire(e))
      [] e.type = "artifact" -> Key("artifactUpdate", taskArtifactUpdateEventToWire(e))
      [] OTHER -> Err

FromProtoStreamEvent(w) ==
    CASE w.key = "message" -> messageFromWire(w.value)
      [] w.key = "task" -> taskFromWire(w.value)
      [] w.key = "statusUpdate" -> statusUpdateFromWire(w.value)
      [] w.key = "artifactUpdate" -> artifactUpdateFromWire(w.value)
      [] OTHER -> Err

ToProtoTask(t) == taskToWire(t)
FromProtoTask(w) == taskFromWire(w)

-----------------------------------------------------------------------------
(* Requests *)

pushNotificationConfigToWire(c) ==
    Opt(LAMBDA v : [id |-> v.id, url |-> v.url, token |-> v.token,
                    authentication |-> Opt(LAMBDA a : [schemes |-> IF a.scheme = "" THEN <<>>
                                                                   ELSE <<a.scheme>>,
                                                       credentials |-> a.credentials], v.auth)], c)

pushNotificationConfigFromWire(c) ==
    Opt(LAMBDA v : [tenant |-> "", task |-> "", id |-> v.id, url |-> v.url, token |-> v.token,
                    auth |-> Opt(LAMBDA a : [scheme |-> IF a.schemes = <<>> THEN ""
                                                        ELSE Head(a.schemes),
                                             credentials |-> a.credentials], v.authentication)], c)

\* Mutant: blocking taken for its opposite.
sendMessageConfigInverted(c) ==
    [acceptedOutputModes |-> c.modes, blocking |-> c.immediate,
     historyLength |-> IF c.history = Nil THEN 0 ELSE int32(c.history),
     pushNotification |-> pushNotificationConfigToWire(c.push)]

\* Zero is left out of the JSON, and an absent length is no length.
sendMessageConfigToWire(c) ==
    [acceptedOutputModes |-> c.modes, blocking |-> ~c.immediate,
     historyLength |-> IF c.history = Nil THEN 0 ELSE int32(c.history),
     pushNotification |-> pushNotificationConfigToWire(c.push)]

sendMessageConfigFromWire(c) ==
    [modes |-> c.acceptedOutputModes, immediate |-> ~c.blocking,
     history |-> IF c.historyLength = 0 THEN Nil ELSE c.historyLength,
     push |-> pushNotificationConfigFromWire(c.pushNotification)]

ToProtoSendMessageRequest(r) ==
    Struct([message |-> messageToWire(r.message), metadata |-> jsonMap(r.metadata),
            configuration |-> Opt(sendMessageConfigToWire, r.config)])

FromProtoSendMessageRequest(w) ==
    [tenant |-> "", message |-> messageFromWire(w.message), metadata |-> w.metadata,
     config |-> Opt(sendMessageConfigFromWire, w.configuration)]

\* tasks/{task}/pushNotificationConfigs/{id}: with a slash in an id the name
\* has too many segments and names no task.
formatPushConfigResourceName(task, id) == [task |-> task, id |-> id]

parsePushConfigResourceName(name) ==
    IF "a/b" \in {name.task, name.id} THEN "" ELSE name.task

taskPushNotificationConfigToWire(c) ==
    [name |-> formatPushConfigResourceName(c.task, c.id),
     pushNotificationConfig |-> pushNotificationConfigToWire(c)]

taskPushNotificationConfigFromWire(w) ==
    [pushNotificationConfigFromWire(w.pushNotificationConfig) EXCEPT
        !.task = parsePushConfigResourceName(w.name)]

ToProtoCreatePushConfigRequest(c) ==
    [parent |-> c.task, configId |-> c.id, config |-> taskPushNotificationConfigToWire(c)]

FromProtoCreatePushConfigRequest(w, task) ==
    [taskPushNotificationConfigFromWire(w.config) EXCEPT
        !.task = task, !.id = IF @ = "" THEN w.configId ELSE @]

ToProtoPushConfigResponse(c) == taskPushNotificationConfigToWire(c)
FromProtoPushConfigResponse(w) == taskPushNotificationConfigFromWire(w)
ToProtoListPushConfigsResponse(cs) == Each(taskPushNotificationConfigToWire, cs)

\* A configuration whose name does not parse has the task that was asked about.
FromProtoListPushConfigsResponse(ws, task) ==
    Each(LAMBDA w : [taskPushNotificationConfigFromWire(w) EXCEPT
                        !.task = IF @ = "" THEN task ELSE @], ws)

ToProtoListTasksResponse(r) ==
    Struct([tasks |-> Each(taskToWire, r.tasks), nextPageToken |-> r.next])

FromProtoListTasksResponse(w) ==
    [tasks |-> Each(taskFromWire, w.tasks), total |-> 0, pageSize |-> 0,
     next |-> w.nextPageToken]
=============================================================================
