-------------------------------- MODULE Values ------------------------------
(***************************************************************************)
(* The values of the protocol (package a2a), as the conversions take them: *)
(* which fields a value has and what is in each.  A record is the one its  *)
(* fields make.  The ids in it may be missing, an enumeration unspecified. *)
(***************************************************************************)
EXTENDS Wire

\* The entries of a map (see Wire).  The key with which version 0.3 marks data
\* that is not a map is not one of them.
Entries == {"text", "ints", "floats", "odd"}
Mark == "data_part_compat"

ASSUME MapAssumption ==
    \A m \in SUBSET Entries : {m, m \cup {Mark}} \cap {Nil, Err} = {}

IsMap(m) == m \in {Nil} \cup SUBSET Entries
IsNumber(n) == n \in {Nil} \cup Int

IsList(s) == Len(s) \in Nat /\ s = [i \in 1 .. Len(s) |-> s[i]]
IsListOf(Is(_), s) == IsList(s) /\ \A i \in DOMAIN s : Is(s[i])
IsText(v) == v \in STRING
IsTexts(s) == IsListOf(IsText, s)

-----------------------------------------------------------------------------
(* Messages, tasks and events *)

IsContent(c) ==
    /\ c = [kind |-> c.kind, value |-> c.value]
    /\ \/ c.kind \in {"text", "raw", "url"} /\ IsText(c.value)
       \/ c.kind \in {"data", "value"} /\ c.value \in SUBSET Entries

IsPart(p) ==
    /\ p = [content |-> p.content, filename |-> p.filename, mediaType |-> p.mediaType,
            metadata |-> p.metadata]
    /\ IsContent(p.content) /\ IsText(p.filename) /\ IsText(p.mediaType) /\ IsMap(p.metadata)

IsParts(s) == IsListOf(IsPart, s)

IsMessage(m) ==
    /\ m = [type |-> "message", id |-> m.id, context |-> m.context, task |-> m.task,
            role |-> m.role, parts |-> m.parts, metadata |-> m.metadata,
            extensions |-> m.extensions, refs |-> m.refs]
    /\ IsText(m.id) /\ IsText(m.context) /\ IsText(m.task)
    /\ m.role \in Roles \cup {""} /\ IsParts(m.parts) /\ IsMap(m.metadata)
    /\ IsTexts(m.extensions) /\ IsTexts(m.refs)

IsArtifact(a) ==
    /\ a = [id |-> a.id, name |-> a.name, description |-> a.description, parts |-> a.parts,
            metadata |-> a.metadata, extensions |-> a.extensions]
    /\ IsText(a.id) /\ IsText(a.name) /\ IsText(a.description)
    /\ IsParts(a.parts) /\ IsMap(a.metadata) /\ IsTexts(a.extensions)

IsStatus(s) ==
    /\ s = [state |-> s.state, message |-> s.message, time |-> s.time]
    /\ s.state \in TaskStates \cup {""} /\ IsNumber(s.time)
    /\ s.message = Nil \/ IsMessage(s.message)

IsTask(t) ==
    /\ t = [type |-> "task", id |-> t.id, context |-> t.context, status |-> t.status,
            artifacts |-> t.artifacts, history |-> t.history, metadata |-> t.metadata]
    /\ IsText(t.id) /\ IsText(t.context) /\ IsStatus(t.status)
    /\ IsListOf(IsArtifact, t.artifacts) /\ IsListOf(IsMessage, t.history) /\ IsMap(t.metadata)

IsStatusUpdate(e) ==
    /\ e = [type |-> "status", task |-> e.task, context |-> e.context, status |-> e.status,
            metadata |-> e.metadata]
    /\ IsText(e.task) /\ IsText(e.context) /\ IsStatus(e.status) /\ IsMap(e.metadata)

IsArtifactUpdate(e) ==
    /\ e = [type |-> "artifact", task |-> e.task, context |-> e.context, append |-> e.append,
            lastChunk |-> e.lastChunk, artifact |-> e.artifact, metadata |-> e.metadata]
    /\ IsText(e.task) /\ IsText(e.context)
    /\ e.append \in BOOLEAN /\ e.lastChunk \in BOOLEAN
    /\ IsArtifact(e.artifact) /\ IsMap(e.metadata)

IsSendResult(r) == \/ r.type = "task" /\ IsTask(r)
                   \/ r.type = "message" /\ IsMessage(r)

IsEvent(e) == \/ IsSendResult(e)
              \/ e.type = "status" /\ IsStatusUpdate(e)
              \/ e.type = "artifact" /\ IsArtifactUpdate(e)

-----------------------------------------------------------------------------
(* Requests *)

IsAuth(a) == /\ a = [scheme |-> a.scheme, credentials |-> a.credentials]
             /\ IsText(a.scheme) /\ IsText(a.credentials)

IsPushConfig(c) ==
    /\ c = [tenant |-> c.tenant, task |-> c.task, id |-> c.id, url |-> c.url,
            token |-> c.token, auth |-> c.auth]
    /\ IsText(c.tenant) /\ IsText(c.task) /\ IsText(c.id) /\ IsText(c.url) /\ IsText(c.token)
    /\ c.auth = Nil \/ IsAuth(c.auth)

IsSendConfig(c) ==
    /\ c = [modes |-> c.modes, immediate |-> c.immediate, push |-> c.push, history |-> c.history]
    /\ IsTexts(c.modes) /\ c.immediate \in BOOLEAN /\ IsNumber(c.history)
    /\ c.push = Nil \/ IsPushConfig(c.push)

IsSendRequest(r) ==
    /\ r = [tenant |-> r.tenant, message |-> r.message, metadata |-> r.metadata,
            config |-> r.config]
    /\ IsText(r.tenant) /\ IsMap(r.metadata)
    /\ r.message = Nil \/ IsMessage(r.message)
    /\ r.config = Nil \/ IsSendConfig(r.config)

IsGetTaskRequest(r) ==
    /\ r = [tenant |-> r.tenant, id |-> r.id, history |-> r.history]
    /\ IsText(r.tenant) /\ IsText(r.id) /\ IsNumber(r.history)

IsListTasksRequest(r) ==
    /\ r = [tenant |-> r.tenant, context |-> r.context, status |-> r.status,
            pageSize |-> r.pageSize, pageToken |-> r.pageToken, after |-> r.after,
            artifacts |-> r.artifacts, history |-> r.history]
    /\ IsText(r.tenant) /\ IsText(r.context) /\ r.status \in TaskStates \cup {""}
    /\ r.pageSize \in Int /\ IsText(r.pageToken) /\ IsNumber(r.after)
    /\ r.artifacts \in BOOLEAN /\ IsNumber(r.history)

IsCancelTaskRequest(r) ==
    /\ r = [tenant |-> r.tenant, id |-> r.id, metadata |-> r.metadata]
    /\ IsText(r.tenant) /\ IsText(r.id) /\ IsMap(r.metadata)

IsSubscribeToTaskRequest(r) ==
    /\ r = [tenant |-> r.tenant, id |-> r.id]
    /\ IsText(r.tenant) /\ IsText(r.id)

IsPushConfigRequest(r) ==
    /\ r = [tenant |-> r.tenant, task |-> r.task, id |-> r.id]
    /\ IsText(r.tenant) /\ IsText(r.task) /\ IsText(r.id)

IsListTaskPushConfigRequest(r) ==
    /\ r = [tenant |-> r.tenant, task |-> r.task, pageSize |-> r.pageSize,
            pageToken |-> r.pageToken]
    /\ IsText(r.tenant) /\ IsText(r.task) /\ r.pageSize \in Int /\ IsText(r.pageToken)

IsGetExtendedAgentCardRequest(r) == r = [tenant |-> r.tenant] /\ IsText(r.tenant)
=============================================================================
