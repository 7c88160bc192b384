------------------------------ MODULE ProtoV0 ------------------------------
(***************************************************************************)
(* The conversions between the protocol's types and the protobuf messages  *)
(* of version 0.3 (a2apb/v0/pbconv).  They check less than those of        *)
(* version 1 and their messages carry less: no tenant, no optional number  *)
(* (0 is no history length), no metadata of a cancelation, no file name of *)
(* a text; data that is not a map is wrapped in one and marked.            *)
(***************************************************************************)
EXTENDS Wire, TLC

LOCAL V1 == INSTANCE ProtoV1

Version == "0.3"

-----------------------------------------------------------------------------
(* Resource names: tasks/{id} and tasks/{id}/pushNotificationConfigs/{id}.  *)
(* "a/b" stands for an id with a slash in it, "a" for what precedes it.     *)

Segment(id) == IF id = "a/b" THEN "a" ELSE id

MakeTaskName(task) == [task |-> task, config |-> Nil]
MakeConfigName(task, id) == [task |-> task, config |-> id]
ExtractTaskID(name) == Require(name.task # "", Segment(name.task))
ExtractConfigID(name) == Require(name.config # Nil, Segment(name.config))

-----------------------------------------------------------------------------
(* Messages, tasks and events *)

Compat == "data_part_compat"

toProtoFilePart(p) ==
    Struct([part |-> "file", value |-> [kind |-> p.content.kind, value |-> p.content.value],
            name |-> p.filename, mimeType |-> p.mediaType, metadata |-> toProtoMap(p.metadata)])

\* Data that is not a map becomes the entry "value" of one, and the metadata says so.
toProtoDataPart(p) ==
    LET wrapped == p.content.kind = "value"
        meta == IF ~wrapped THEN p.metadata
                ELSE (IF p.metadata = Nil THEN {} ELSE p.metadata) \cup {Compat}
    IN Struct([part |-> "data",
               value |-> Struct([wrapped |-> wrapped, map |-> toProtoMap(p.content.value)]),
               metadata |-> toProtoMap(meta)])

toProtoPart(p) ==
    CASE p.content.kind = "text" ->
            Struct([part |-> "text", value |-> p.content.value, metadata |-> toProtoMap(p.metadata)])
      [] p.content.kind \in {"data", "value"} -> toProtoDataPart(p)
      [] p.content.kind \in {"raw", "url"} -> toProtoFilePart(p)
      [] OTHER -> Err

fromProtoFilePart(p) ==
    [content |-> p.value, filename |-> p.name, mediaType |-> p.mimeType,
     metadata |-> fromProtoMap(p.metadata)]

\* The mark takes the entry "value" of the map, whether it was wrapped or not.
fromProtoPart(p) ==
    LET meta == fromProtoMap(p.metadata)
        compat == meta # Nil /\ Compat \in meta
    IN CASE p.part = "text" ->
                [content |-> [kind |-> "text", value |-> p.value], filename |-> "",
                 mediaType |-> "", metadata |-> meta]
         [] p.part = "data" ->
                [content |-> [kind |-> IF compat THEN "value" ELSE "data",
                              value |-> IF compat /\ ~p.value.wrapped THEN Nil ELSE p.value.map],
                 filename |-> "", mediaType |-> "",
                 metadata |-> IF compat THEN meta \ {Compat} ELSE meta]
         [] p.part = "file" -> fromProtoFilePart(p)

toProtoMessage(m) ==
    Opt(LAMBDA v : Struct([messageId |-> v.id, contextId |-> v.context, taskId |-> v.task,
                           role |-> toProtoRole(v.role), parts |-> Each(toProtoPart, v.parts),
                           metadata |-> toProtoMap(v.metadata), extensions |-> v.extensions,
                           referenceTaskIds |-> v.refs]), m)

FromProtoMessage(m) ==
    Opt(LAMBDA v : Struct([type |-> "message", id |-> v.messageId, context |-> v.contextId,
                           task |-> v.taskId, role |-> fromProtoRole(v.role),
                           parts |-> Each(fromProtoPart, v.parts),
                           metadata |-> fromProtoMap(v.metadata), extensions |-> v.extensions,
                           refs |-> v.referenceTaskIds]), m)

toProtoTaskStatus(s) ==
    Struct([state |-> toProtoTaskState(s.state), update |-> toProtoMessage(s.message),
            timestamp |-> s.time])

fromProtoTaskStatus(s) ==
    Struct([state |-> fromProtoTaskState(s.state), message |-> FromProtoMessage(s.update),
            time |-> s.timestamp])

toProtoArtifact(a) ==
    Opt(LAMBDA v : Struct([artifactId |-> v.id, name |-> v.name, description |-> v.description,
                           parts |-> Each(toProtoPart, v.parts),
                           metadata |-> toProtoMap(v.metadata), extensions |-> v.extensions]), a)

fromProtoArtifact(a) ==
    Opt(LAMBDA v : Struct([id |-> v.artifactId, name |-> v.name, description |-> v.description,
                           parts |-> Each(fromProtoPart, v.parts),
                           metadata |-> fromProtoMap(v.metadata), extensions |-> v.extensions]), a)

ToProtoTask(t) ==
    Struct([id |-> t.id, contextId |-> t.context, status |-> toProtoTaskStatus(t.status),
            artifacts |-> Each(toProtoArtifact, t.artifacts),
            history |-> Each(toProtoMessage, t.history), metadata |-> toProtoMap(t.metadata)])

FromProtoTask(t) ==
    Struct([type |-> "task", id |-> t.id, context |-> t.contextId,
            status |-> fromProtoTaskStatus(t.status),
            artifacts |-> Each(fromProtoArtifact, t.artifacts),
            history |-> Each(FromProtoMessage, t.history),
            metadata |-> fromProtoMap(t.metadata)])

\* The payload of a oneof.
Payload(kind, v) == IF v = Err THEN Err ELSE [payload |-> kind, value |-> v]

ToProtoSendMessageResponse(r) ==
    CASE r.type = "message" -> Payload("msg", toProtoMessage(r))
      [] r.type = "task" -> Payload("task", ToProtoTask(r))
      [] OTHER -> Err

FromProtoSendMessageResponse(r) ==
    CASE r.payload = "msg" -> FromProtoMessage(r.value)
      [] r.payload = "task" -> FromProtoTask(r.value)
      [] OTHER -> Err

ToProtoStreamResponse(e) ==
    CASE e.type \in {"message", "task"} -> ToProtoSendMessageResponse(e)
      [] e.type = "status" ->
            Payload("statusUpdate",
                Struct([taskId |-> e.task, contextId |-> e.context,
                        status |-> toProtoTaskStatus(e.status),
                        metadata |-> toProtoMap(e.metadata)]))
      [] e.type = "artifact" ->
            Payload("artifactUpdate",
                Struct([taskId |-> e.task, contextId |-> e.context, append |-> e.append,
                        lastChunk |-> e.lastChunk, artifact |-> toProtoArtifact(e.artifact),
                        metadata |-> toProtoMap(e.metadata)]))
      [] OTHER -> Err

FromProtoStreamResponse(r) ==
    CASE r.payload \in {"msg", "task"} -> FromProtoSendMessageResponse(r)
      [] r.payload = "statusUpdate" ->
            Struct([type |-> "status", task |-> r.value.taskId, context |-> r.value.contextId,
                    status |-> fromProtoTaskStatus(r.value.status),
                    metadata |-> fromProtoMap(r.value.metadata)])
      [] r.payload = "artifactUpdate" ->
            Struct([type |-> "artifact", task |-> r.value.taskId, context |-> r.value.contextId,
                    append |-> r.value.append, lastChunk |-> r.value.lastChunk,
                    artifact |-> fromProtoArtifact(r.value.artifact),
                    metadata |-> fromProtoMap(r.value.metadata)])
      [] OTHER -> Err

-----------------------------------------------------------------------------
(* Requests about tasks *)

toProtoPushConfig(c) ==
    Opt(LAMBDA v :
        [id |-> v.id, url |-> v.url, token |-> v.token,
         authentication |-> Opt(LAMBDA a : [schemes |-> <<a.scheme>>, credentials |-> a.credentials],
                                v.auth)], c)

\* The configuration of a message names no task.
fromProtoPushConfig(c) ==
    Opt(LAMBDA v :
        [tenant |-> "", task |-> "", id |-> v.id, url |-> v.url, token |-> v.token,
         auth |-> IF v.authentication = Nil \/ v.authentication.schemes = <<>> THEN Nil
                  ELSE [scheme |-> Head(v.authentication.schemes),
                        credentials |-> v.authentication.credentials]], c)

\* 0 stands for no length.
toProtoHistoryLength(n) == IF n = Nil THEN 0 ELSE int32(n)
fromProtoHistoryLength(n) == IF n > 0 THEN n ELSE Nil

toProtoSendMessageConfig(c) ==
    Opt(LAMBDA v : [acceptedOutputModes |-> v.modes, blocking |-> ~v.immediate,
                    pushNotification |-> toProtoPushConfig(v.push),
                    historyLength |-> toProtoHistoryLength(v.history)], c)

fromProtoSendMessageConfig(c) ==
    Opt(LAMBDA v : [modes |-> v.acceptedOutputModes, immediate |-> ~v.blocking,
                    push |-> fromProtoPushConfig(v.pushNotification),
                    history |-> fromProtoHistoryLength(v.historyLength)], c)

ToProtoSendMessageRequest(r) ==
    Struct([request |-> toProtoMessage(r.message),
            configuration |-> toProtoSendMessageConfig(r.config),
            metadata |-> toProtoMap(r.metadata)])

FromProtoSendMessageRequest(r) ==
    Struct([tenant |-> "", message |-> FromProtoMessage(r.request),
            config |-> fromProtoSendMessageConfig(r.configuration),
            metadata |-> fromProtoMap(r.metadata)])

ToProtoGetTaskRequest(r) ==
    [name |-> MakeTaskName(r.id), historyLength |-> toProtoHistoryLength(r.history)]

FromProtoGetTaskRequest(r) ==
    Struct([tenant |-> "", id |-> ExtractTaskID(r.name),
            history |-> fromProtoHistoryLength(r.historyLength)])

ToProtoCancelTaskRequest(r) == [name |-> MakeTaskName(r.id)]

FromProtoCancelTaskRequest(r) ==
    Struct([tenant |-> "", id |-> ExtractTaskID(r.name), metadata |-> Nil])

ToProtoTaskSubscriptionRequest(r) == [name |-> MakeTaskName(r.id)]

FromProtoTaskSubscriptionRequest(r) == Struct([tenant |-> "", id |-> ExtractTaskID(r.name)])

ToProtoListTasksRequest(r) ==
    [contextId |-> r.context, status |-> toProtoTaskState(r.status),
     pageSize |-> int32(r.pageSize), pageToken |-> r.pageToken, lastUpdatedTime |-> r.after,
     includeArtifacts |-> r.artifacts, historyLength |-> toProtoHistoryLength(r.history)]

FromProtoListTasksRequest(r) ==
    [tenant |-> "", context |-> r.contextId, status |-> fromProtoTaskState(r.status),
     pageSize |-> r.pageSize, pageToken |-> r.pageToken, after |-> r.lastUpdatedTime,
     artifacts |-> r.includeArtifacts, history |-> fromProtoHistoryLength(r.historyLength)]

ToProtoListTasksResponse(r) ==
    Struct([tasks |-> Each(ToProtoTask, r.tasks), totalSize |-> int32(r.total),
            nextPageToken |-> r.next])

FromProtoListTasksResponse(r) ==
    Struct([tasks |-> Each(FromProtoTask, r.tasks), total |-> r.totalSize,
            pageSize |-> Len(r.tasks), next |-> r.nextPageToken])

-----------------------------------------------------------------------------
(* Requests about push configurations *)

ToProtoCreateTaskPushConfigRequest(c) ==
    [parent |-> MakeTaskName(c.task), configId |-> c.id, config |-> toProtoPushConfig(c)]

FromProtoCreateTaskPushConfigRequest(r) ==
    Struct([fromProtoPushConfig(r.config) EXCEPT !.task = ExtractTaskID(r.parent)])

ToProtoTaskPushConfig(c) ==
    Opt(LAMBDA v : Require(v.task # "", [name |-> MakeConfigName(v.task, v.id),
                                         config |-> toProtoPushConfig(v)]), c)

FromProtoTaskPushConfig(c) ==
    Opt(LAMBDA v :
        Require(ExtractConfigID(v.name) = v.config.id,
            Struct([fromProtoPushConfig(v.config) EXCEPT !.task = ExtractTaskID(v.name)])), c)

ToProtoGetTaskPushConfigRequest(r) == [name |-> MakeConfigName(r.task, r.id)]

FromProtoGetTaskPushConfigRequest(r) ==
    Struct([tenant |-> "", task |-> ExtractTaskID(r.name), id |-> ExtractConfigID(r.name)])

ToProtoDeleteTaskPushConfigRequest(r) == [name |-> MakeConfigName(r.task, r.id)]

FromProtoDeleteTaskPushConfigRequest(r) ==
    Struct([tenant |-> "", task |-> ExtractTaskID(r.name), id |-> ExtractConfigID(r.name)])

ToProtoListTaskPushConfigRequest(r) ==
    [parent |-> MakeTaskName(r.task), pageSize |-> int32(r.pageSize), pageToken |-> r.pageToken]

FromProtoListTaskPushConfigRequest(r) ==
    Struct([tenant |-> "", task |-> ExtractTaskID(r.parent), pageSize |-> r.pageSize,
            pageToken |-> r.pageToken])

ToProtoListTaskPushConfigResponse(r) ==
    Struct([configs |-> Each(ToProtoTaskPushConfig, r.configs), nextPageToken |-> r.next])

FromProtoListTaskPushConfigResponse(r) ==
    Struct([configs |-> Each(FromProtoTaskPushConfig, r.configs), next |-> r.nextPageToken])

-----------------------------------------------------------------------------
(* Agent cards *)

\* No device code flow, and no PKCE requirement of an authorization code flow.
FlowFields ==
    [k \in DOMAIN V1!FlowFields \ {"deviceCode"} |-> V1!FlowFields[k] \ {"pkce"}]

toProtoOAuthFlows(f) ==
    Require(f.kind \in DOMAIN FlowFields /\ f.pointer,
            [flow |-> f.kind, value |-> [x \in FlowFields[f.kind] |-> f[x]]])

fromProtoOAuthFlows(f) ==
    Require(f # Nil,
        (IF f.flow = "authorizationCode" THEN [pkce |-> FALSE] ELSE <<>>)
        @@ [kind |-> f.flow, pointer |-> TRUE] @@ f.value)

toProtoSecurityScheme(s) ==
    Require(s.kind \in DOMAIN V1!SchemeFields,
        Struct([scheme |-> s.kind,
                value |-> Struct([x \in V1!SchemeFields[s.kind] |->
                              IF x = "flows" THEN toProtoOAuthFlows(s[x]) ELSE s[x]])]))

fromProtoSecurityScheme(s) ==
    Struct([x \in V1!SchemeFields[s.scheme] \cup {"kind"} |->
        CASE x = "kind" -> s.scheme
          [] x = "flows" -> fromProtoOAuthFlows(s.value[x])
          [] OTHER -> s.value[x]])

toProtoSecuritySchemes(m) == Each(toProtoSecurityScheme, m)
fromProtoSecuritySchemes(m) == Each(fromProtoSecurityScheme, m)
toProtoSecurity(s) == V1!toProtoSecurity(s)
fromProtoSecurity(s) == V1!fromProtoSecurity(s)

toProtoAdditionalInterfaces(s) ==
    [i \in DOMAIN s |-> [url |-> s[i].url, transport |-> s[i].binding]]

fromProtoAdditionalInterfaces(c) ==
    <<[url |-> c.url, binding |-> c.preferredTransport, tenant |-> "",
       version |-> c.protocolVersion]>>
    \o [i \in DOMAIN c.additionalInterfaces |->
           [url |-> c.additionalInterfaces[i].url,
            binding |-> c.additionalInterfaces[i].transport, tenant |-> "", version |-> Version]]

toProtoAgentProvider(p) == V1!toProtoAgentProvider(p)
fromProtoAgentProvider(p) == Opt(LAMBDA v : [org |-> v.organization, url |-> v.url], p)
toProtoAgentExtensions(s) == V1!toProtoAgentExtensions(s)
fromProtoAgentExtensions(s) == V1!fromProtoAgentExtensions(s)

toProtoCapabilities(c) ==
    Struct([streaming |-> c.streaming, pushNotifications |-> c.push,
            extensions |-> toProtoAgentExtensions(c.extensions)])

fromProtoCapabilities(card) ==
    [streaming |-> card.capabilities.streaming, push |-> card.capabilities.pushNotifications,
     extended |-> card.supportsAuthenticatedExtendedCard,
     extensions |-> fromProtoAgentExtensions(card.capabilities.extensions)]

toProtoSkills(s) == V1!toProtoSkills(s)

fromProtoSkills(s) ==
    [i \in DOMAIN s |->
        [id |-> s[i].id, name |-> s[i].name, description |-> s[i].description,
         tags |-> s[i].tags, examples |-> s[i].examples, inputModes |-> s[i].inputModes,
         outputModes |-> s[i].outputModes,
         security |-> fromProtoSecurity(s[i].securityRequirements)]]

toProtoAgentCardSignatures(s) == V1!toProtoAgentCardSignatures(s)

fromProtoAgentCardSignatures(s) ==
    [i \in DOMAIN s |-> [protected |-> s[i].protected, signature |-> s[i].signature,
                         header |-> fromProtoMap(s[i].header)]]

\* The first interface of version 0.3 is the card's own; the other ones of
\* that version are additional, the rest is left out.
ToProtoAgentCard(c) ==
    LET old == SelectSeq(c.interfaces, LAMBDA i : i.version = Version)
    IN Require(old # <<>>,
        Struct([name |-> c.name, description |-> c.description,
                url |-> Head(old).url, preferredTransport |-> Head(old).binding,
                protocolVersion |-> Head(old).version,
                additionalInterfaces |-> toProtoAdditionalInterfaces(Tail(old)),
                provider |-> toProtoAgentProvider(c.provider), version |-> c.version,
                documentationUrl |-> c.documentation, iconUrl |-> c.icon,
                capabilities |-> toProtoCapabilities(c.capabilities),
                supportsAuthenticatedExtendedCard |-> c.capabilities.extended,
                securitySchemes |-> toProtoSecuritySchemes(c.schemes),
                security |-> toProtoSecurity(c.security),
                defaultInputModes |-> c.inputModes, defaultOutputModes |-> c.outputModes,
                skills |-> toProtoSkills(c.skills),
                signatures |-> toProtoAgentCardSignatures(c.signatures)]))

FromProtoAgentCard(c) ==
    Struct([name |-> c.name, description |-> c.description,
            interfaces |-> fromProtoAdditionalInterfaces(c),
            provider |-> fromProtoAgentProvider(c.provider), version |-> c.version,
            documentation |-> c.documentationUrl, icon |-> c.iconUrl,
            capabilities |-> fromProtoCapabilities(c),
            schemes |-> fromProtoSecuritySchemes(c.securitySchemes),
            security |-> fromProtoSecurity(c.security),
            inputModes |-> c.defaultInputModes, outputModes |-> c.defaultOutputModes,
            skills |-> fromProtoSkills(c.skills),
            signatures |-> fromProtoAgentCardSignatures(c.signatures)])

FromProtoGetAgentCardRequest == [tenant |-> ""]
=============================================================================
