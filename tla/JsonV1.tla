------------------------------- MODULE JsonV1 ------------------------------
(***************************************************************************)
(* The protocol's types of version 1 as JSON (package a2a).  The JSON has  *)
(* the fields of the type, so a marshaled value is the value with its maps, *)
(* times and interface values rewritten.  Marshal makes it and Unmarshal   *)
(* reads it.                                                               *)
(***************************************************************************)
EXTENDS Wire

LOCAL V1 == INSTANCE ProtoV1

-----------------------------------------------------------------------------
(* Messages, tasks and events *)

\* A URL that is empty and a content of no known type leave no content.
MarshalPart(p) ==
    LET c == p.content
        content == CASE c.kind = "url" /\ c.value = "" -> Nil
                     [] c.kind \in {"data", "value"} ->
                            Struct([kind |-> c.kind, value |-> toProtoMap(c.value)])
                     [] c.kind = "none" -> Nil
                     [] OTHER -> c
    IN Struct([p EXCEPT !.content = content, !.metadata = jsonMap(p.metadata)])

UnmarshalPart(p) == Require(p.content # Nil, p)

MarshalMessage(m) ==
    Opt(LAMBDA v : Struct([v EXCEPT !.role = toProtoRole(v.role),
                                    !.parts = Each(MarshalPart, v.parts),
                                    !.metadata = jsonMap(v.metadata)]), m)

UnmarshalMessage(m) ==
    Opt(LAMBDA v : Struct([v EXCEPT !.role = fromProtoRole(v.role),
                                    !.parts = Each(UnmarshalPart, v.parts)]), m)

MarshalTaskStatus(s) ==
    Struct([state |-> toProtoTaskState(s.state), message |-> MarshalMessage(s.message),
            time |-> jsonTimestamp(s.time)])

UnmarshalTaskStatus(s) ==
    Struct([state |-> fromProtoTaskState(s.state), message |-> UnmarshalMessage(s.message),
            time |-> s.time])

MarshalArtifact(a) ==
    Opt(LAMBDA v : Struct([v EXCEPT !.parts = Each(MarshalPart, v.parts),
                                    !.metadata = jsonMap(v.metadata)]), a)

UnmarshalArtifact(a) ==
    Opt(LAMBDA v : Struct([v EXCEPT !.parts = Each(UnmarshalPart, v.parts)]), a)

MarshalTask(t) ==
    Struct([t EXCEPT !.status = MarshalTaskStatus(t.status),
                     !.artifacts = Each(MarshalArtifact, t.artifacts),
                     !.history = Each(MarshalMessage, t.history),
                     !.metadata = jsonMap(t.metadata)])

UnmarshalTask(t) ==
    Struct([t EXCEPT !.status = UnmarshalTaskStatus(t.status),
                     !.artifacts = Each(UnmarshalArtifact, t.artifacts),
                     !.history = Each(UnmarshalMessage, t.history)])

\* StreamResponse: a wrapper with one of four keys, here the value's type.
MarshalEvent(e) ==
    CASE e.type = "message" -> MarshalMessage(e)
      [] e.type = "task" -> MarshalTask(e)
      [] e.type = "status" -> Struct([e EXCEPT !.status = MarshalTaskStatus(e.status),
                                               !.metadata = jsonMap(e.metadata)])
      [] e.type = "artifact" -> Struct([e EXCEPT !.artifact = MarshalArtifact(e.artifact),
                                                 !.metadata = jsonMap(e.metadata)])
      [] OTHER -> Err

UnmarshalEvent(e) ==
    CASE e.type = "message" -> UnmarshalMessage(e)
      [] e.type = "task" -> UnmarshalTask(e)
      [] e.type = "status" -> Struct([e EXCEPT !.status = UnmarshalTaskStatus(e.status)])
      [] e.type = "artifact" -> Struct([e EXCEPT !.artifact = UnmarshalArtifact(e.artifact)])

\* The result of SendMessage is a task or a message.
UnmarshalSendMessageResult(e) == Require(e.type \in {"task", "message"}, UnmarshalEvent(e))

-----------------------------------------------------------------------------
(* Requests; the ones that are not here are their own JSON *)

MarshalSendMessageRequest(r) ==
    Struct([r EXCEPT !.message = MarshalMessage(r.message), !.metadata = jsonMap(r.metadata)])

UnmarshalSendMessageRequest(r) == Struct([r EXCEPT !.message = UnmarshalMessage(r.message)])

MarshalCancelTaskRequest(r) == Struct([r EXCEPT !.metadata = jsonMap(r.metadata)])

MarshalListTasksRequest(r) ==
    [r EXCEPT !.after = jsonTimestamp(r.after), !.status = toProtoTaskState(r.status)]

UnmarshalListTasksRequest(r) == [r EXCEPT !.status = fromProtoTaskState(r.status)]

MarshalListTasksResponse(r) == Struct([r EXCEPT !.tasks = Each(MarshalTask, r.tasks)])
UnmarshalListTasksResponse(r) == Struct([r EXCEPT !.tasks = Each(UnmarshalTask, r.tasks)])

-----------------------------------------------------------------------------
(* Agent cards *)

\* A list of scopes is wrapped in an object.
MarshalSecurityRequirements(s) == V1!toProtoSecurity(s)
UnmarshalSecurityRequirements(s) == V1!fromProtoSecurity(s)

\* A flow is held by value: by pointer it has no JSON.
MarshalOAuth2SecurityScheme(s) == Require(~s.flows.pointer, s)

MarshalSecuritySchemes(m) ==
    Each(LAMBDA s : Require(s.kind \in DOMAIN V1!SchemeFields,
                            IF s.kind = "oauth2" THEN MarshalOAuth2SecurityScheme(s) ELSE s), m)

MarshalAgentCard(c) ==
    Struct([c EXCEPT
        !.schemes = MarshalSecuritySchemes(c.schemes),
        !.security = MarshalSecurityRequirements(c.security),
        !.skills = [i \in DOMAIN c.skills |->
                       [c.skills[i] EXCEPT !.security = MarshalSecurityRequirements(@)]],
        !.signatures = Each(LAMBDA s : Struct([s EXCEPT !.header = jsonMap(s.header)]), c.signatures),
        !.capabilities = Struct([@ EXCEPT !.extensions =
            Each(LAMBDA e : Struct([e EXCEPT !.params = jsonMap(e.params)]),
                 c.capabilities.extensions)])])

UnmarshalAgentCard(c) ==
    [c EXCEPT !.security = UnmarshalSecurityRequirements(c.security),
              !.skills = [i \in DOMAIN c.skills |->
                  [c.skills[i] EXCEPT !.security = UnmarshalSecurityRequirements(@)]]]
=============================================================================
