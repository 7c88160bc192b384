------------------------------ MODULE CompatV0 -----------------------------
(***************************************************************************)
(* The conversions between the protocol's types and the legacy types of    *)
(* version 0.3 (a2acompat/a2av0), and the agent card that serves both      *)
(* versions.  FromV1 makes a legacy value, ToV1 reads one.  A legacy value  *)
(* is in the form its JSON has; that a map has none (Err) is an error of    *)
(* json.Marshal, for the conversions themselves do not fail.                *)
(***************************************************************************)
EXTENDS Wire, TLC

Version == "0.3"
Compat == "data_part_compat"

FromV1TaskState(s) == toProtoTaskState(s)
ToV1TaskState(s) == fromProtoTaskState(s)
toCompatRole(r) == toProtoRole(r)
fromCompatRole(r) == fromProtoRole(r)

-----------------------------------------------------------------------------
(* Messages, tasks and events *)

\* Text and data carry no file name; data that is not a map is wrapped.
FromV1Part(p) ==
    LET wrapped == p.content.kind = "value"
        meta == IF ~wrapped THEN p.metadata
                ELSE (IF p.metadata = Nil THEN {} ELSE p.metadata) \cup {Compat}
    IN CASE p.content.kind = "text" ->
                Struct([part |-> "text", value |-> p.content.value, metadata |-> jsonMap(p.metadata)])
         [] p.content.kind \in {"data", "value"} ->
                Struct([part |-> "data", wrapped |-> wrapped, value |-> toProtoMap(p.content.value),
                        metadata |-> jsonMap(meta)])
         [] p.content.kind \in {"raw", "url"} ->
                Struct([part |-> "file", value |-> p.content, name |-> p.filename,
                        mimeType |-> p.mediaType, metadata |-> jsonMap(p.metadata)])

ToV1Part(p) ==
    LET compat == p.metadata # Nil /\ Compat \in p.metadata
    IN CASE p.part = "text" ->
                [content |-> [kind |-> "text", value |-> p.value], filename |-> "",
                 mediaType |-> "", metadata |-> p.metadata]
         [] p.part = "data" ->
                [content |-> [kind |-> IF compat THEN "value" ELSE "data",
                              value |-> IF compat /\ ~p.wrapped THEN Nil ELSE p.value],
                 filename |-> "", mediaType |-> "",
                 metadata |-> IF compat THEN p.metadata \ {Compat} ELSE p.metadata]
         [] p.part = "file" ->
                [content |-> p.value, filename |-> p.name, mediaType |-> p.mimeType,
                 metadata |-> p.metadata]

FromV1Message(m) ==
    Opt(LAMBDA v : Struct([kind |-> "message", id |-> v.id, contextId |-> v.context,
                           taskId |-> v.task, role |-> toCompatRole(v.role),
                           parts |-> Each(FromV1Part, v.parts), metadata |-> jsonMap(v.metadata),
                           extensions |-> v.extensions, referenceTaskIds |-> v.refs]), m)

ToV1Message(m) ==
    Opt(LAMBDA v : [type |-> "message", id |-> v.id, context |-> v.contextId, task |-> v.taskId,
                    role |-> fromCompatRole(v.role), parts |-> Each(ToV1Part, v.parts),
                    metadata |-> v.metadata, extensions |-> v.extensions,
                    refs |-> v.referenceTaskIds], m)

fromV1Status(s) ==
    Struct([state |-> FromV1TaskState(s.state), message |-> FromV1Message(s.message),
            timestamp |-> s.time])

toV1Status(s) ==
    [state |-> ToV1TaskState(s.state), message |-> ToV1Message(s.message), time |-> s.timestamp]

FromV1Artifact(a) ==
    Opt(LAMBDA v : Struct([artifactId |-> v.id, name |-> v.name, description |-> v.description,
                           parts |-> Each(FromV1Part, v.parts), metadata |-> jsonMap(v.metadata),
                           extensions |-> v.extensions]), a)

ToV1Artifact(a) ==
    Opt(LAMBDA v : [id |-> v.artifactId, name |-> v.name, description |-> v.description,
                    parts |-> Each(ToV1Part, v.parts), metadata |-> v.metadata,
                    extensions |-> v.extensions], a)

FromV1Task(t) ==
    Struct([kind |-> "task", id |-> t.id, contextId |-> t.context,
            status |-> fromV1Status(t.status), artifacts |-> Each(FromV1Artifact, t.artifacts),
            history |-> Each(FromV1Message, t.history), metadata |-> jsonMap(t.metadata)])

ToV1Task(t) ==
    [type |-> "task", id |-> t.id, context |-> t.contextId, status |-> toV1Status(t.status),
     artifacts |-> Each(ToV1Artifact, t.artifacts), history |-> Each(ToV1Message, t.history),
     metadata |-> t.metadata]

\* The legacy protocol marks the last update of a task.
Terminal(s) == s \in {"completed", "canceled", "failed", "rejected"}

FromV1TaskStatusUpdateEvent(e) ==
    Struct([kind |-> "status-update", taskId |-> e.task, contextId |-> e.context,
            status |-> fromV1Status(e.status), metadata |-> jsonMap(e.metadata),
            final |-> Terminal(e.status.state) \/ e.status.state = "input-required"])

ToV1TaskStatusUpdateEvent(e) ==
    [type |-> "status", task |-> e.taskId, context |-> e.contextId,
     status |-> toV1Status(e.status), metadata |-> e.metadata]

FromV1TaskArtifactUpdateEvent(e) ==
    Struct([kind |-> "artifact-update", taskId |-> e.task, contextId |-> e.context,
            append |-> e.append, lastChunk |-> e.lastChunk,
            artifact |-> FromV1Artifact(e.artifact), metadata |-> jsonMap(e.metadata)])

ToV1TaskArtifactUpdateEvent(e) ==
    [type |-> "artifact", task |-> e.taskId, context |-> e.contextId, append |-> e.append,
     lastChunk |-> e.lastChunk, artifact |-> ToV1Artifact(e.artifact), metadata |-> e.metadata]

FromV1Event(e) ==
    CASE e.type = "message" -> FromV1Message(e)
      [] e.type = "task" -> FromV1Task(e)
      [] e.type = "status" -> FromV1TaskStatusUpdateEvent(e)
      [] e.type = "artifact" -> FromV1TaskArtifactUpdateEvent(e)

ToV1Event(e) ==
    CASE e.kind = "message" -> ToV1Message(e)
      [] e.kind = "task" -> ToV1Task(e)
      [] e.kind = "status-update" -> ToV1TaskStatusUpdateEvent(e)
      [] e.kind = "artifact-update" -> ToV1TaskArtifactUpdateEvent(e)

-----------------------------------------------------------------------------
(* Requests *)

FromV1PushConfig(c) ==
    Opt(LAMBDA v :
        [taskId |-> v.task,
         config |-> [id |-> v.id, url |-> v.url, token |-> v.token,
                     auth |-> Opt(LAMBDA a : [schemes |-> <<a.scheme>>,
                                              credentials |-> a.credentials], v.auth)]], c)

ToV1PushConfig(c) ==
    Opt(LAMBDA v :
        [tenant |-> "", task |-> v.taskId, id |-> v.config.id, url |-> v.config.url,
         token |-> v.config.token,
         auth |-> Opt(LAMBDA a : [scheme |-> IF a.schemes = <<>> THEN "" ELSE Head(a.schemes),
                                  credentials |-> a.credentials], v.config.auth)], c)

FromV1PushConfigs(cs) == Each(FromV1PushConfig, cs)
ToV1PushConfigs(cs) == Each(ToV1PushConfig, cs)

FromV1SendMessageRequest(r) ==
    Struct([message |-> FromV1Message(r.message), metadata |-> jsonMap(r.metadata),
            config |-> Opt(LAMBDA c : [acceptedOutputModes |-> c.modes,
                                       historyLength |-> c.history, blocking |-> ~c.immediate,
                                       pushConfig |-> Opt(LAMBDA p : FromV1PushConfig(p).config,
                                                          c.push)], r.config)])

\* A push configuration sent with a message is for the message's task.
ToV1SendMessageRequest(r) ==
    [tenant |-> "", message |-> ToV1Message(r.message), metadata |-> r.metadata,
     config |-> Opt(LAMBDA c : [modes |-> c.acceptedOutputModes, history |-> c.historyLength,
                                immediate |-> IF c.blocking = Nil THEN FALSE ELSE ~c.blocking,
                                push |-> Opt(LAMBDA p : ToV1PushConfig([taskId |-> r.message.taskId,
                                                                        config |-> p]),
                                             c.pushConfig)], r.config)]

FromV1GetTaskRequest(r) == [id |-> r.id, historyLength |-> r.history]
ToV1GetTaskRequest(q) == [tenant |-> "", id |-> q.id, history |-> q.historyLength]
FromV1CancelTaskRequest(r) == Struct([id |-> r.id, metadata |-> jsonMap(r.metadata)])
ToV1CancelTaskRequest(q) == [tenant |-> "", id |-> q.id, metadata |-> q.metadata]
FromV1SubscribeToTaskRequest(r) == [id |-> r.id]
ToV1SubscribeToTaskRequest(q) == [tenant |-> "", id |-> q.id]

FromV1GetTaskPushConfigRequest(r) == [taskId |-> r.task, configId |-> r.id]
ToV1GetTaskPushConfigRequest(p) == [tenant |-> "", task |-> p.taskId, id |-> p.configId]
FromV1DeleteTaskPushConfigRequest(r) == [taskId |-> r.task, configId |-> r.id]
ToV1DeleteTaskPushConfigRequest(p) == [tenant |-> "", task |-> p.taskId, id |-> p.configId]
FromV1ListTaskPushConfigRequest(r) == [taskId |-> r.task]

ToV1ListTaskPushConfigRequest(p) ==
    [tenant |-> "", task |-> p.taskId, pageSize |-> 0, pageToken |-> ""]

-----------------------------------------------------------------------------
(* The agent card in both versions at once *)

\* A scheme has the fields of version 0.3, its type and, but for oauth2, the
\* scheme itself.  A flow held by pointer has no JSON.
mapToCompatSecuritySchemes(schemes) ==
    Each(LAMBDA s :
        Require(s.kind # "oauth2" \/ ~s.flows.pointer,
                [type |-> s.kind, legacy |-> s, nested |-> IF s.kind = "oauth2" THEN Nil ELSE s]),
        schemes)

\* A parsed flow is held by value.
mapFromCompatSecuritySchemes(schemes) ==
    Each(LAMBDA s : IF s.nested # Nil THEN s.nested ELSE s.legacy, schemes)

mapToCompatSecurity(security) == security

mapFromCompatSecurity(card) ==
    IF card.securityRequirements # <<>> THEN card.securityRequirements ELSE card.security

\* The first interface of version 0.3 and the others of that version.
mapToCompatInterfaces(card) ==
    LET old == SelectSeq(card.interfaces, LAMBDA i : i.version = Version)
    IN IF old = <<>> THEN [url |-> "", transport |-> "", additional |-> <<>>]
       ELSE [url |-> Head(old).url, transport |-> Head(old).binding,
             additional |-> [i \in DOMAIN Tail(old) |->
                                [url |-> Tail(old)[i].url, transport |-> Tail(old)[i].binding]]]

mapFromCompatInterfaces(card) ==
    LET version == IF card.protocolVersion = "" THEN Version ELSE card.protocolVersion
        iface(i) == [url |-> i.url, binding |-> i.transport, tenant |-> "", version |-> version]
        others == SelectSeq(card.additionalInterfaces, LAMBDA i : i.url # card.url)
    IN IF card.supportedInterfaces # <<>> THEN card.supportedInterfaces
       ELSE (IF card.url # "" /\ card.preferredTransport # ""
             THEN <<iface([url |-> card.url, transport |-> card.preferredTransport])>> ELSE <<>>)
            \o [i \in DOMAIN others |-> iface(others[i])]

mapToCompatSkills(skills) ==
    [i \in DOMAIN skills |-> [skill |-> skills[i], security |-> skills[i].security]]

mapFromCompatSkills(skills) ==
    [i \in DOMAIN skills |->
        IF skills[i].skill.security # <<>> THEN skills[i].skill
        ELSE [skills[i].skill EXCEPT !.security = skills[i].security]]

toCompatCard(card) ==
    LET old == mapToCompatInterfaces(card)
    IN Struct([name |-> card.name, description |-> card.description, provider |-> card.provider,
               version |-> card.version, documentationUrl |-> card.documentation,
               iconUrl |-> card.icon,
               inputModes |-> card.inputModes, outputModes |-> card.outputModes,
               signatures |-> Each(LAMBDA s : Struct([s EXCEPT !.header = jsonMap(s.header)]),
                                   card.signatures),
               supportedInterfaces |-> card.interfaces,
               securityRequirements |-> card.security,
               capabilities |-> Struct([card.capabilities EXCEPT !.extensions =
                   Each(LAMBDA e : Struct([e EXCEPT !.params = jsonMap(e.params)]),
                        card.capabilities.extensions)]),
               protocolVersion |-> Version, skills |-> mapToCompatSkills(card.skills),
               security |-> mapToCompatSecurity(card.security),
               securitySchemes |-> mapToCompatSecuritySchemes(card.schemes),
               supportsAuthenticatedExtendedCard |-> card.capabilities.extended,
               url |-> old.url, preferredTransport |-> old.transport,
               additionalInterfaces |-> old.additional])

parseCard(c) ==
    [name |-> c.name, description |-> c.description, provider |-> c.provider,
     version |-> c.version, documentation |-> c.documentationUrl, icon |-> c.iconUrl,
     inputModes |-> c.inputModes, outputModes |-> c.outputModes, signatures |-> c.signatures,
     capabilities |-> [c.capabilities EXCEPT !.extended =
                          c.capabilities.extended \/ c.supportsAuthenticatedExtendedCard],
     security |-> mapFromCompatSecurity(c), interfaces |-> mapFromCompatInterfaces(c),
     schemes |-> mapFromCompatSecuritySchemes(c.securitySchemes),
     skills |-> mapFromCompatSkills(c.skills)]
=============================================================================
