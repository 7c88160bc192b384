------------------------------ MODULE ProtoV1 ------------------------------
(***************************************************************************)
(* The conversions between the protocol's types and the protobuf messages  *)
(* of version 1 (a2apb/v1/pbconv), one operator per message and direction. *)
(* A part's content is [kind, value], where data is "data" when it is a map *)
(* and "value" otherwise; an event or a result has a "type", an interface  *)
(* value of a security scheme or an OAuth flow a "kind".                   *)
(***************************************************************************)
EXTENDS Wire, TLC

-----------------------------------------------------------------------------
(* Messages, tasks and events *)

toProtoPart(p) ==
    Require(p.content.kind \in {"text", "raw", "data", "value", "url"},
        Struct([content |-> Struct([kind |-> p.content.kind,
                                    value |-> IF p.content.kind \in {"data", "value"}
                                              THEN toProtoMap(p.content.value)
                                              ELSE p.content.value]),
                filename |-> p.filename, mediaType |-> p.mediaType,
                metadata |-> toProtoMap(p.metadata)]))

fromProtoPart(p) ==
    [content |-> [kind |-> p.content.kind, value |-> p.content.value],
     filename |-> p.filename, mediaType |-> p.mediaType, metadata |-> fromProtoMap(p.metadata)]

toProtoMessage(m) ==
    Opt(LAMBDA v : Struct([messageId |-> v.id, contextId |-> v.context, taskId |-> v.task,
                           role |-> toProtoRole(v.role), parts |-> Each(toProtoPart, v.parts),
                           metadata |-> toProtoMap(v.metadata), extensions |-> v.extensions,
                           referenceTaskIds |-> v.refs]), m)

FromProtoMessage(m) ==
    Opt(LAMBDA v :
        Require(v.messageId # "" /\ v.role # "unspecified",
            Struct([type |-> "message", id |-> v.messageId, context |-> v.contextId,
                    task |-> v.taskId, role |-> fromProtoRole(v.role),
                    parts |-> Each(fromProtoPart, v.parts),
                    metadata |-> fromProtoMap(v.metadata), extensions |-> v.extensions,
                    refs |-> v.referenceTaskIds])), m)

toProtoTaskStatus(s) ==
    Struct([state |-> toProtoTaskState(s.state), message |-> toProtoMessage(s.message),
            timestamp |-> s.time])

fromProtoTaskStatus(s) ==
    Struct([state |-> fromProtoTaskState(s.state), message |-> FromProtoMessage(s.message),
            time |-> s.timestamp])

toProtoArtifact(a) ==
    Opt(LAMBDA v : Struct([artifactId |-> v.id, name |-> v.name, description |-> v.description,
                           parts |-> Each(toProtoPart, v.parts),
                           metadata |-> toProtoMap(v.metadata), extensions |-> v.extensions]), a)

fromProtoArtifact(a) ==
    Opt(LAMBDA v :
        Require(v.artifactId # "",
            Struct([id |-> v.artifactId, name |-> v.name, description |-> v.description,
                    parts |-> Each(fromProtoPart, v.parts),
                    metadata |-> fromProtoMap(v.metadata), extensions |-> v.extensions])), a)

ToProtoTask(t) ==
    Struct([id |-> t.id, contextId |-> t.context, status |-> toProtoTaskStatus(t.status),
            artifacts |-> Each(toProtoArtifact, t.artifacts),
            history |-> Each(toProtoMessage, t.history), metadata |-> toProtoMap(t.metadata)])

FromProtoTask(t) ==
    Require(t.id # "",
        Struct([type |-> "task", id |-> t.id, context |-> t.contextId,
                status |-> fromProtoTaskStatus(t.status),
                artifacts |-> Each(fromProtoArtifact, t.artifacts),
                history |-> Each(FromProtoMessage, t.history),
                metadata |-> fromProtoMap(t.metadata)]))

\* The payload of a oneof.
Payload(kind, v) == IF v = Err THEN Err ELSE [payload |-> kind, value |-> v]

ToProtoSendMessageResponse(r) ==
    CASE r.type = "message" -> Payload("message", toProtoMessage(r))
      [] r.type = "task" -> Payload("task", ToProtoTask(r))
      [] OTHER -> Err

FromProtoSendMessageResponse(r) ==
    CASE r.payload = "message" -> FromProtoMessage(r.value)
      [] r.payload = "task" -> FromProtoTask(r.value)
      [] OTHER -> Err

ToProtoStreamResponse(e) ==
    CASE e.type \in {"message", "task"} -> ToProtoSendMessageResponse(e)
      [] e.type = "status" ->
            Payload("statusUpdate",
                Struct([taskId |-> e.task, contextId |-> e.context,
                        status |-> toProtoTaskStatus(e.status),
                        metadata |-> toProtoMap(e.metadata)]))
      [] e.type = "artifact" ->
            Payload("artifactUpdate",
                Struct([taskId |-> e.task, contextId |-> e.context, append |-> e.append,
                        lastChunk |-> e.lastChunk, artifact |-> toProtoArtifact(e.artifact),
                        metadata |-> toProtoMap(e.metadata)]))
      [] OTHER -> Err

FromProtoStreamResponse(r) ==
    CASE r.payload \in {"message", "task"} -> FromProtoSendMessageResponse(r)
      [] r.payload = "statusUpdate" ->
            Struct([type |-> "status", task |-> r.value.taskId, context |-> r.value.contextId,
                    status |-> fromProtoTaskStatus(r.value.status),
                    metadata |-> fromProtoMap(r.value.metadata)])
      [] r.payload = "artifactUpdate" ->
            Struct([type |-> "artifact", task |-> r.value.taskId, context |-> r.value.contextId,
                    append |-> r.value.append, lastChunk |-> r.value.lastChunk,
                    artifact |-> fromProtoArtifact(r.value.artifact),
                    metadata |-> fromProtoMap(r.value.metadata)])
      [] OTHER -> Err

-----------------------------------------------------------------------------
(* Requests about tasks *)

toProtoAuthenticationInfo(a) ==
    Opt(LAMBDA v : [scheme |-> v.scheme, credentials |-> v.credentials], a)

fromProtoAuthenticationInfo(a) ==
    Opt(LAMBDA v : Require(v.scheme # "", [scheme |-> v.scheme, credentials |-> v.credentials]), a)

ToProtoTaskPushConfig(c) ==
    Opt(LAMBDA v : [tenant |-> v.tenant, taskId |-> v.task, id |-> v.id, url |-> v.url,
                    token |-> v.token, authentication |-> toProtoAuthenticationInfo(v.auth)], c)

FromProtoTaskPushConfig(c) ==
    Opt(LAMBDA v :
        Require(v.url # "",
            Struct([tenant |-> v.tenant, task |-> v.taskId, id |-> v.id, url |-> v.url,
                    token |-> v.token, auth |-> fromProtoAuthenticationInfo(v.authentication)])), c)

\* A negative length is no length.
fromProtoHistoryLength(n) == IF n = Nil \/ n < 0 THEN Nil ELSE n
toProtoHistoryLength(n) == Opt(int32, n)

toProtoSendMessageConfig(c) ==
    Opt(LAMBDA v : Struct([acceptedOutputModes |-> v.modes, returnImmediately |-> v.immediate,
                           taskPushNotificationConfig |-> ToProtoTaskPushConfig(v.push),
                           historyLength |-> toProtoHistoryLength(v.history)]), c)

fromProtoSendMessageConfig(c) ==
    Opt(LAMBDA v : Struct([modes |-> v.acceptedOutputModes, immediate |-> v.returnImmediately,
                           push |-> FromProtoTaskPushConfig(v.taskPushNotificationConfig),
                           history |-> fromProtoHistoryLength(v.historyLength)]), c)

ToProtoSendMessageRequest(r) ==
    Struct([tenant |-> r.tenant, message |-> toProtoMessage(r.message),
            configuration |-> toProtoSendMessageConfig(r.config),
            metadata |-> toProtoMap(r.metadata)])

FromProtoSendMessageRequest(r) ==
    Require(r.message # Nil,
        Struct([tenant |-> r.tenant, message |-> FromProtoMessage(r.message),
                config |-> fromProtoSendMessageConfig(r.configuration),
                metadata |-> fromProtoMap(r.metadata)]))

ToProtoGetTaskRequest(r) ==
    [tenant |-> r.tenant, id |-> r.id, historyLength |-> toProtoHistoryLength(r.history)]

FromProtoGetTaskRequest(r) ==
    Require(r.id # "", [tenant |-> r.tenant, id |-> r.id,
                        history |-> fromProtoHistoryLength(r.historyLength)])

ToProtoCancelTaskRequest(r) ==
    Struct([tenant |-> r.tenant, id |-> r.id, metadata |-> toProtoMap(r.metadata)])

FromProtoCancelTaskRequest(r) ==
    Require(r.id # "", [tenant |-> r.tenant, id |-> r.id, metadata |-> fromProtoMap(r.metadata)])

ToProtoSubscribeToTaskRequest(r) == [tenant |-> r.tenant, id |-> r.id]

FromProtoSubscribeToTaskRequest(r) == Require(r.id # "", [tenant |-> r.tenant, id |-> r.id])

ToProtoListTasksRequest(r) ==
    [tenant |-> r.tenant, contextId |-> r.context, status |-> toProtoTaskState(r.status),
     pageSize |-> int32(r.pageSize), pageToken |-> r.pageToken,
     statusTimestampAfter |-> r.after, includeArtifacts |-> r.artifacts,
     historyLength |-> toProtoHistoryLength(r.history)]

FromProtoListTasksRequest(r) ==
    [tenant |-> r.tenant, context |-> r.contextId, status |-> fromProtoTaskState(r.status),
     pageSize |-> r.pageSize, pageToken |-> r.pageToken, after |-> r.statusTimestampAfter,
     artifacts |-> r.includeArtifacts, history |-> fromProtoHistoryLength(r.historyLength)]

ToProtoListTasksResponse(r) ==
    Struct([tasks |-> Each(ToProtoTask, r.tasks), totalSize |-> int32(r.total),
            pageSize |-> int32(r.pageSize), nextPageToken |-> r.next])

FromProtoListTasksResponse(r) ==
    Struct([tasks |-> Each(FromProtoTask, r.tasks), total |-> r.totalSize,
            pageSize |-> r.pageSize, next |-> r.nextPageToken])

-----------------------------------------------------------------------------
(* Requests about push configurations *)

ToProtoGetTaskPushConfigRequest(r) == [tenant |-> r.tenant, taskId |-> r.task, id |-> r.id]

FromProtoGetTaskPushConfigRequest(r) ==
    Require(r.taskId # "" /\ r.id # "", [tenant |-> r.tenant, task |-> r.taskId, id |-> r.id])

ToProtoDeleteTaskPushConfigRequest(r) == [tenant |-> r.tenant, taskId |-> r.task, id |-> r.id]

FromProtoDeleteTaskPushConfigRequest(r) ==
    Require(r.taskId # "" /\ r.id # "", [tenant |-> r.tenant, task |-> r.taskId, id |-> r.id])

ToProtoListTaskPushConfigRequest(r) ==
    [tenant |-> r.tenant, taskId |-> r.task, pageSize |-> int32(r.pageSize),
     pageToken |-> r.pageToken]

FromProtoListTaskPushConfigRequest(r) ==
    Require(r.taskId # "", [tenant |-> r.tenant, task |-> r.taskId, pageSize |-> r.pageSize,
                            pageToken |-> r.pageToken])

ToProtoListTaskPushConfigResponse(r) ==
    Struct([configs |-> Each(ToProtoTaskPushConfig, r.configs), nextPageToken |-> r.next])

FromProtoListTaskPushConfigResponse(r) ==
    Struct([configs |-> Each(FromProtoTaskPushConfig, r.configs), next |-> r.nextPageToken])

-----------------------------------------------------------------------------
(* Agent cards *)

\* What each OAuth flow carries.  A flow is held by value or by pointer; the
\* protobuf conversions know pointers only, and make pointers.
FlowFields ==
    [authorizationCode |-> {"authorizationUrl", "tokenUrl", "refreshUrl", "scopes", "pkce"},
     clientCredentials |-> {"tokenUrl", "refreshUrl", "scopes"},
     implicit |-> {"authorizationUrl", "refreshUrl", "scopes"},
     password |-> {"tokenUrl", "refreshUrl", "scopes"},
     deviceCode |-> {"deviceUrl", "tokenUrl", "refreshUrl", "scopes"}]

toProtoOAuthFlows(f) ==
    Require(f.kind \in DOMAIN FlowFields /\ f.pointer,
            [flow |-> f.kind, value |-> [x \in FlowFields[f.kind] |-> f[x]]])

fromProtoOAuthFlows(f) ==
    Require(f # Nil,
            [kind |-> f.flow, pointer |-> TRUE] @@ f.value)

\* What each security scheme carries; the flow of oauth2 is converted.
SchemeFields ==
    [apiKey |-> {"name", "location", "description"},
     http |-> {"scheme", "bearerFormat", "description"},
     openId |-> {"url", "description"},
     mtls |-> {"description"},
     oauth2 |-> {"flows", "metadataUrl", "description"}]

toProtoSecurityScheme(s) ==
    Require(s.kind \in DOMAIN SchemeFields,
        Struct([scheme |-> s.kind,
                value |-> Struct([x \in SchemeFields[s.kind] |->
                              IF x = "flows" THEN toProtoOAuthFlows(s[x]) ELSE s[x]])]))

fromProtoSecurityScheme(s) ==
    Struct([x \in SchemeFields[s.scheme] \cup {"kind"} |->
        CASE x = "kind" -> s.scheme
          [] x = "flows" -> fromProtoOAuthFlows(s.value[x])
          [] OTHER -> s.value[x]])

\* Maps from names are functions, so that Each converts them too.
toProtoSecuritySchemes(m) == Each(toProtoSecurityScheme, m)
fromProtoSecuritySchemes(m) == Each(fromProtoSecurityScheme, m)

toProtoSecurity(s) ==
    [i \in DOMAIN s |-> [schemes |-> [n \in DOMAIN s[i] |-> [list |-> s[i][n]]]]]

fromProtoSecurity(s) ==
    [i \in DOMAIN s |-> [n \in DOMAIN s[i].schemes |-> s[i].schemes[n].list]]

toProtoSupportedInterfaces(s) ==
    [i \in DOMAIN s |-> [url |-> s[i].url, protocolBinding |-> s[i].binding,
                         tenant |-> s[i].tenant, protocolVersion |-> s[i].version]]

fromProtoSupportedInterfaces(s) ==
    Each(LAMBDA v : Require(v.url # "" /\ v.protocolBinding # "",
                        [url |-> v.url, binding |-> v.protocolBinding, tenant |-> v.tenant,
                         version |-> v.protocolVersion]), s)

toProtoAgentProvider(p) == Opt(LAMBDA v : [organization |-> v.org, url |-> v.url], p)

fromProtoAgentProvider(p) ==
    Opt(LAMBDA v : Require(v.organization # "" /\ v.url # "",
                           [org |-> v.organization, url |-> v.url]), p)

toProtoAgentExtensions(s) ==
    Each(LAMBDA v : Struct([uri |-> v.uri, description |-> v.description,
                            required |-> v.required, params |-> toProtoMap(v.params)]), s)

\* AsMap of no struct is an empty map.
fromProtoAgentExtensions(s) ==
    Each(LAMBDA v : [uri |-> v.uri, description |-> v.description, required |-> v.required,
                     params |-> IF v.params = Nil THEN {} ELSE v.params], s)

toProtoCapabilities(c) ==
    Struct([streaming |-> c.streaming, pushNotifications |-> c.push,
            extendedAgentCard |-> c.extended, extensions |-> toProtoAgentExtensions(c.extensions)])

fromProtoCapabilities(c) ==
    Struct([streaming |-> c.streaming, push |-> c.pushNotifications,
            extended |-> c.extendedAgentCard,
            extensions |-> fromProtoAgentExtensions(c.extensions)])

toProtoSkills(s) ==
    [i \in DOMAIN s |->
        [id |-> s[i].id, name |-> s[i].name, description |-> s[i].description,
         tags |-> s[i].tags, examples |-> s[i].examples, inputModes |-> s[i].inputModes,
         outputModes |-> s[i].outputModes,
         securityRequirements |-> toProtoSecurity(s[i].security)]]

fromProtoSkills(s) ==
    Each(LAMBDA v :
        Require(v.id # "" /\ v.name # "" /\ v.description # "" /\ v.tags # <<>>,
            [id |-> v.id, name |-> v.name, description |-> v.description, tags |-> v.tags,
             examples |-> v.examples, inputModes |-> v.inputModes,
             outputModes |-> v.outputModes,
             security |-> fromProtoSecurity(v.securityRequirements)]), s)

toProtoAgentCardSignatures(s) ==
    Each(LAMBDA v : Struct([protected |-> v.protected, signature |-> v.signature,
                            header |-> toProtoMap(v.header)]), s)

fromProtoAgentCardSignatures(s) ==
    Each(LAMBDA v : Require(v.protected # "" /\ v.signature # "",
                        [protected |-> v.protected, signature |-> v.signature,
                         header |-> fromProtoMap(v.header)]), s)

ToProtoAgentCard(c) ==
    Struct([name |-> c.name, description |-> c.description,
            supportedInterfaces |-> toProtoSupportedInterfaces(c.interfaces),
            provider |-> toProtoAgentProvider(c.provider), version |-> c.version,
            documentationUrl |-> c.documentation, iconUrl |-> c.icon,
            capabilities |-> toProtoCapabilities(c.capabilities),
            securitySchemes |-> toProtoSecuritySchemes(c.schemes),
            securityRequirements |-> toProtoSecurity(c.security),
            defaultInputModes |-> c.inputModes, defaultOutputModes |-> c.outputModes,
            skills |-> toProtoSkills(c.skills),
            signatures |-> toProtoAgentCardSignatures(c.signatures)])

\* A card that lacks what the protocol requires is refused; an empty list is
\* nil on the wire.
FromProtoAgentCard(c) ==
    Require(/\ c.name # "" /\ c.description # "" /\ c.version # ""
            /\ c.supportedInterfaces # <<>> /\ c.skills # <<>>
            /\ c.defaultInputModes # <<>> /\ c.defaultOutputModes # <<>>,
        Struct([name |-> c.name, description |-> c.description,
                interfaces |-> fromProtoSupportedInterfaces(c.supportedInterfaces),
                provider |-> fromProtoAgentProvider(c.provider), version |-> c.version,
                documentation |-> c.documentationUrl, icon |-> c.iconUrl,
                capabilities |-> fromProtoCapabilities(c.capabilities),
                schemes |-> fromProtoSecuritySchemes(c.securitySchemes),
                security |-> fromProtoSecurity(c.securityRequirements),
                inputModes |-> c.defaultInputModes, outputModes |-> c.defaultOutputModes,
                skills |-> fromProtoSkills(c.skills),
                signatures |-> fromProtoAgentCardSignatures(c.signatures)]))

ToProtoGetExtendedAgentCardRequest(r) == [tenant |-> r.tenant]
FromProtoGetExtendedAgentCardRequest(r) == [tenant |-> r.tenant]
=============================================================================
