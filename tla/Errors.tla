------------------------------- MODULE Errors ------------------------------
(***************************************************************************)
(* How an error of the server's handler crosses each transport.            *)
(* An error is [is, details, typed]: the sentinels it wraps (the protocol's *)
(* and the two of package context), its details (a map or Nil) and its     *)
(* typed details [type, value].  ErrorInfo metadata and messages are left  *)
(* out.                                                                    *)
(***************************************************************************)
EXTENDS Wire

\* a2a's sentinels, named by the reason ErrorReason gives for each.
Sentinels ==
    {"ParseError", "InvalidRequest", "MethodNotFound", "InvalidParams", "InternalError",
     "ServerError", "TaskNotFound", "TaskNotCancelable", "PushNotificationNotSupported",
     "UnsupportedOperation", "UnsupportedContentType", "InvalidAgentResponse",
     "ExtendedCardNotConfigured", "ExtensionSupportRequired", "VersionNotSupported",
     "Unauthenticated", "Unauthorized"}

ContextErrors == {"Canceled", "DeadlineExceeded"}

ErrorReason(s) == IF s \in Sentinels THEN s ELSE "InternalError"

NewError(s) == [is |-> {s}, details |-> Nil, typed |-> <<>>]

ASSUME ErrorsAssumption == Err # "struct"

\* The details in the order they are sent.
Details(e) ==
    (IF e.details \in {Nil, {}} THEN <<>> ELSE <<[type |-> "struct", value |-> e.details]>>)
    \o e.typed

\* The error a client makes of a sentinel and the details it received: the
\* first is also the error's own.
Received(s, data) ==
    [is |-> {s}, typed |-> data,
     details |-> IF data = <<>> \/ Head(data).value = {} THEN Nil ELSE Head(data).value]

\* json.Marshal of the details: Err when one of them has no JSON.
Marshaled(data) ==
    Each(LAMBDA d : Struct([type |-> d.type, value |-> toProtoMap(d.value)]), data)

-----------------------------------------------------------------------------
(* JSON-RPC: a code per sentinel *)

\* The search goes through a Go map, so that an error that wraps several
\* sentinels has any one of their codes.  Details that do not marshal are dropped.
ToJSONRPCError(e) ==
    LET known == e.is \cap Sentinels
        data == Marshaled(Details(e))
    IN {[code |-> c, data |-> IF data = Err THEN <<>> ELSE data] :
            c \in IF known = {} THEN {"InternalError"} ELSE known}

FromJSONRPCError(r) == Received(r.code, r.data)

-----------------------------------------------------------------------------
(* HTTP+JSON: a status and, in the body, a reason *)

errorMappings ==
    <<<<"ParseError", 400>>, <<"InvalidRequest", 400>>, <<"MethodNotFound", 501>>,
      <<"InvalidParams", 400>>, <<"InternalError", 500>>, <<"ServerError", 500>>,
      <<"TaskNotFound", 404>>, <<"TaskNotCancelable", 400>>,
      <<"PushNotificationNotSupported", 400>>, <<"UnsupportedOperation", 400>>,
      <<"UnsupportedContentType", 400>>, <<"InvalidAgentResponse", 500>>,
      <<"ExtendedCardNotConfigured", 400>>, <<"ExtensionSupportRequired", 400>>,
      <<"VersionNotSupported", 400>>, <<"Unauthenticated", 401>>, <<"Unauthorized", 403>>,
      <<"Canceled", 499>>, <<"DeadlineExceeded", 504>>>>

\* The first mapping of a list that passes a test, or a default.
FirstMapping(mappings, test(_), default) ==
    LET found == {i \in DOMAIN mappings : test(mappings[i])}
    IN IF found = {} THEN default ELSE mappings[CHOOSE i \in found : \A j \in found : i <= j]

ToRESTError(e) ==
    LET m == FirstMapping(errorMappings, LAMBDA p : p[1] \in e.is, <<"InternalError", 500>>)
    IN [status |-> m[2], reason |-> ErrorReason(m[1]), data |-> Marshaled(Details(e))]

errorFromHTTPStatus(status, fallback) ==
    CASE status = 401 -> "Unauthenticated"
      [] status = 403 -> "Unauthorized"
      [] status \in {404, 405, 501} -> "MethodNotFound"
      [] OTHER -> fallback

\* The body of an error response, which has a reason always here.
ConvertErrorBody(body) ==
    Received(FirstMapping(errorMappings, LAMBDA p : ErrorReason(p[1]) = body.reason,
                          <<errorFromHTTPStatus(body.status, "InternalError")>>)[1], body.data)

fromHTTPStatus(status) == NewError(errorFromHTTPStatus(status, "ServerError"))

\* A body is read as an error's only if the content type says JSON; what does
\* not marshal has no body.
isJSONErrorContentType(contentType) == contentType \in {"application/json", "application/a2a+json"}

FromRESTError(body, contentType) ==
    IF isJSONErrorContentType(contentType) /\ body.data # Err THEN ConvertErrorBody(body)
    ELSE fromHTTPStatus(body.status)

-----------------------------------------------------------------------------
(* gRPC: a status code and, in a detail, a reason *)

grpcMappings ==
    <<<<"TaskNotFound", "NotFound">>, <<"TaskNotCancelable", "FailedPrecondition">>,
      <<"UnsupportedOperation", "FailedPrecondition">>, <<"InvalidParams", "InvalidArgument">>,
      <<"InternalError", "Internal">>, <<"Unauthenticated", "Unauthenticated">>,
      <<"Unauthorized", "PermissionDenied">>, <<"Canceled", "Canceled">>,
      <<"DeadlineExceeded", "DeadlineExceeded">>,
      <<"ExtendedCardNotConfigured", "FailedPrecondition">>,
      <<"PushNotificationNotSupported", "FailedPrecondition">>,
      <<"MethodNotFound", "Unimplemented">>, <<"UnsupportedContentType", "InvalidArgument">>,
      <<"InvalidRequest", "InvalidArgument">>, <<"InvalidAgentResponse", "Internal">>,
      <<"ExtensionSupportRequired", "FailedPrecondition">>,
      <<"VersionNotSupported", "FailedPrecondition">>, <<"ParseError", "InvalidArgument">>,
      <<"ServerError", "Internal">>>>

\* Every detail is sent as a struct, and one that does not convert is left out.
Convertible(details) ==
    Kept(details, {i \in DOMAIN details : toProtoMap(details[i].value) # Err})

ToGRPCError(e) ==
    LET m == FirstMapping(grpcMappings, LAMBDA p : p[1] \in e.is, <<"InternalError", "Internal">>)
        sent == Convertible(Details(e))
    IN [code |-> m[2], reason |-> ErrorReason(m[1]),
        data |-> [i \in DOMAIN sent |-> [type |-> "struct", value |-> toProtoMap(sent[i].value)]]]

\* A status the handler of the transport makes itself has no reason.
status_Error(code) == [code |-> code, reason |-> "", data |-> <<>>]

\* Mutant: the code decides, although several errors share one.
FromGRPCErrorByCode(st) ==
    Received(FirstMapping(grpcMappings, LAMBDA p : p[2] = st.code, <<"InternalError">>)[1], st.data)

FromGRPCError(st) ==
    LET Matches(p) == p[2] = st.code /\ (st.reason = "" \/ ErrorReason(p[1]) = st.reason)
    IN Received(FirstMapping(grpcMappings, Matches, <<"InternalError">>)[1], st.data)

-----------------------------------------------------------------------------
(* The interceptor that hides the server's internal errors *)

callerErrors ==
    <<"ParseError", "InvalidRequest", "MethodNotFound", "InvalidParams", "TaskNotFound",
                "TaskNotCancelable", "PushNotificationNotSupported", "UnsupportedOperation",
                "UnsupportedContentType", "InvalidAgentResponse", "ExtendedCardNotConfigured",
                "ExtensionSupportRequired", "VersionNotSupported", "Unauthenticated",
                "Unauthorized", "Canceled", "DeadlineExceeded">>

\* "wraps" says that the chain holds an a2a.Error, which is kept.
Sanitized(e, wraps) ==
    IF wraps THEN e
    ELSE NewError(FirstMapping(callerErrors, LAMBDA s : s \in e.is, "InternalError"))
=============================================================================
