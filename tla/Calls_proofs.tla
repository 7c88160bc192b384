---------------------------- MODULE Calls_proofs ----------------------------
(***************************************************************************)
(* Proofs about Calls: the control of a call, over whatever binding, and   *)
(* with the round trips of Conversions_proofs what arrives on either side. *)
(***************************************************************************)
EXTENDS Conversions_proofs, SequenceTheorems

-----------------------------------------------------------------------------
(***************************************************************************)
(* Errors, on the server's side.                                           *)
(***************************************************************************)
\* An error made of a sentinel is an error.
LEMMA NewErrorIs ==
    ASSUME NEW s \in Sentinels \cup ContextErrors
    PROVE  IsError(NewError(s)) /\ Details(NewError(s)) = <<>>
<1>1. /\ NewError(s).is = {s} /\ NewError(s).details = Nil /\ NewError(s).typed = <<>>
      /\ NewError(s) = [is |-> NewError(s).is, details |-> NewError(s).details,
                        typed |-> NewError(s).typed]
  BY DEF NewError
<1>2. IsListOf(IsDetail, <<>>)
  BY DEF IsListOf, IsList
<1>. QED  BY <1>1, <1>2 DEF IsError, IsMap, Details

\* The details of an error are a list of details.
LEMMA DetailsAre ==
    ASSUME NEW e, IsError(e)
    PROVE  /\ IsSequence(Details(e))
           /\ \A i \in DOMAIN Details(e) : IsDetail(Details(e)[i])
<1>. DEFINE first == IF e.details \in {Nil, {}} THEN <<>>
                     ELSE <<[type |-> "struct", value |-> e.details]>>
            S == {first[i] : i \in DOMAIN first} \cup {e.typed[i] : i \in DOMAIN e.typed}
<1>1. IsList(e.typed) /\ \A i \in DOMAIN e.typed : IsDetail(e.typed[i])
  BY DEF IsError, IsListOf
<1>2. \A i \in DOMAIN first : IsDetail(first[i])
  <2>1. CASE e.details \in {Nil, {}}
    BY <2>1
  <2>2. CASE e.details \notin {Nil, {}}
    <3>1. e.details \in SUBSET Entries
      BY <2>2 DEF IsError, IsMap
    <3>2. \A d : d = [type |-> "struct", value |-> e.details] => IsDetail(d)
      BY <3>1, ErrorsAssumption DEF IsDetail
    <3>. QED  BY <2>2, <3>2
  <2>. QED  BY <2>1, <2>2
<1>3. e.typed \in Seq({e.typed[i] : i \in DOMAIN e.typed})
  BY <1>1, ListIs DEF IsSequence
<1>4. first \in Seq({first[i] : i \in DOMAIN first})
  <2>1. CASE e.details \in {Nil, {}}
    BY <2>1, EmptyIs DEF IsSequence
  <2>2. CASE e.details \notin {Nil, {}}
    BY <2>2
  <2>. QED  BY <2>1, <2>2
<1>5. first \in Seq(S) /\ e.typed \in Seq(S)
  BY <1>3, <1>4
<1>6. \A d \in S : IsDetail(d)
  BY <1>1, <1>2
<1>7. Details(e) = first \o e.typed
  BY DEF Details
<1>. HIDE DEF S, first
<1>8. Details(e) \in Seq(S)
  BY <1>5, <1>7
<1>9. IsSequence(Details(e))
  BY <1>8, OfASet
<1>. QED  BY <1>6, <1>8, <1>9

\* What is marshaled of the details.
LEMMA MarshaledIs ==
    ASSUME NotAFunction(Err), NEW data, \A i \in DOMAIN data : IsDetail(data[i])
    PROVE  Marshaled(data) =
              IF \E i \in DOMAIN data : "odd" \in data[i].value THEN Err
              ELSE [i \in DOMAIN data |-> [type |-> data[i].type, value |-> Numbers(data[i].value)]]
<1>. DEFINE d(i) == [type |-> data[i].type, value |-> toProtoMap(data[i].value)]
            all == [i \in DOMAIN data |-> Struct(d(i))]
<1>1. Marshaled(data) = IF \E i \in DOMAIN all : all[i] = Err THEN Err ELSE all
  BY StructIs DEF Marshaled, Each
<1>2. ASSUME NEW i \in DOMAIN data
      PROVE  all[i] = IF "odd" \in data[i].value THEN Err
                      ELSE [type |-> data[i].type, value |-> Numbers(data[i].value)]
  <2>1. data[i].value \in SUBSET Entries
    BY DEF IsDetail
  <2>2. data[i].type # Err
    BY DEF IsDetail
  <2>3. Struct(d(i)) = IF \E f \in DOMAIN d(i) : d(i)[f] = Err THEN Err ELSE d(i)
    BY StructIs
  <2>4. (\E f \in DOMAIN d(i) : d(i)[f] = Err) <=> toProtoMap(data[i].value) = Err
    BY <2>2
  <2>5. /\ toProtoMap(data[i].value) = IF "odd" \in data[i].value THEN Err ELSE Numbers(data[i].value)
        /\ Numbers(data[i].value) # Err
    BY <2>1, MapIs
  <2>. QED  BY <2>3, <2>4, <2>5
<1>3. \A t, v : [type |-> t, value |-> v] # Err
  BY DEF NotAFunction
<1>. QED  BY <1>1, <1>2, <1>3

\* On an HTTP binding an error's details are written unless one has no JSON
\* and the binding is HTTP+JSON.
LEMMA SentDetails ==
    ASSUME NotAFunction(Err), NEW b \in HTTP, NEW e, IsError(e), NEW w \in SendError(b, e)
    PROVE  w.data = Err <=> Unsendable(b, e)
<1>. DEFINE data == Marshaled(Details(e))
<1>1. data = Err <=> HasOdd(e)
  <2>. DEFINE f == [i \in DOMAIN Details(e) |->
                      [type |-> Details(e)[i].type, value |-> Numbers(Details(e)[i].value)]]
  <2>1. f = [i \in DOMAIN f |-> f[i]]
    OBVIOUS
  <2>2. f # Err
    BY <2>1 DEF NotAFunction
  <2>. QED  BY <2>2, DetailsAre, MarshaledIs DEF HasOdd
<1>2. CASE b \in {"rpc1", "rpc0"}
  <2>1. w \in ToJSONRPCError(e)
    BY <1>2 DEF SendError
  <2>2. w.data = IF data = Err THEN <<>> ELSE data
    BY <2>1 DEF ToJSONRPCError
  <2>3. <<>> # Err
    BY EmptyIsAFunction
  <2>. QED  BY <1>2, <2>2, <2>3 DEF Unsendable
<1>3. CASE b \in {"rest1", "rest0"}
  <2>1. w = ToRESTError(e)
    BY <1>3 DEF SendError
  <2>2. w.data = data
    BY <2>1 DEF ToRESTError
  <2>. QED  BY <1>1, <1>3, <2>2 DEF Unsendable
<1>. QED  BY <1>2, <1>3 DEF HTTP, Bindings

\* An error that wraps nothing has no details.
LEMMA UnclassifiedIs == IsError(Unclassified) /\ Details(Unclassified) = <<>>
<1>1. IsListOf(IsDetail, <<>>)
  BY DEF IsListOf, IsList
<1>. QED  BY <1>1 DEF Unclassified, IsError, IsMap, Details

\* Without details it is always written.
LEMMA PlainErrorsAreSent ==
    ASSUME NEW e, Details(e) = <<>>, NEW b
    PROVE  ~Unsendable(b, e)
BY DEF Unsendable, HasOdd

\* What an execution, an interceptor or the default handler ends with: a value,
\* or an error of the type.
IsItem(q) == \/ q = Value(q.value)
             \/ q = Failure(q.error) /\ IsError(q.error)

\* A result or an error is what it was made of.
LEMMA ValuesAre ==
    /\ \A v : IsItem(Value(v)) /\ Value(v).kind = "value" /\ Value(v).value = v
    /\ \A e : Failure(e).kind = "error" /\ Failure(e).error = e
    /\ \A e : IsError(e) => IsItem(Failure(e))
BY DEF IsItem, Value, Failure

\* The sanitizer's errors.
LEMMA SanitizedIs ==
    ASSUME NEW e, IsError(e), NEW wraps
    PROVE  IsError(Sanitized(e, wraps))
<1>. DEFINE found == {i \in DOMAIN callerErrors : callerErrors[i] \in e.is}
            first == IF found = {} THEN "InternalError"
                     ELSE callerErrors[CHOOSE i \in found : \A j \in found : i <= j]
<1>1. \A i \in DOMAIN callerErrors : callerErrors[i] \in Sentinels \cup ContextErrors
  BY DEF callerErrors, Sentinels, ContextErrors
<1>2. found # {} => (CHOOSE i \in found : \A j \in found : i <= j) \in found
  <2>1. found \subseteq Nat
    BY DEF callerErrors
  <2>. HIDE DEF found
  <2>. QED  BY <2>1, Least
<1>3. "InternalError" \in Sentinels
  BY DEF Sentinels
<1>4. first \in Sentinels \cup ContextErrors
  BY <1>1, <1>2, <1>3
<1>5. Sanitized(e, wraps) = IF wraps THEN e ELSE NewError(first)
  BY DEF Sanitized, FirstMapping
<1>. HIDE DEF first
<1>. QED  BY <1>4, <1>5, NewErrorIs

-----------------------------------------------------------------------------
(***************************************************************************)
(* The invariant of a call, with the conversions taken as they are: what   *)
(* every variable holds at each point of a call.                           *)
(***************************************************************************)
Over == server \in {"ended", "dead"}
Live == client # "done"

\* The event that the handler's goroutine is about to hand over.
Pending == IF server = "offer" /\ item.kind = "value" THEN 1 ELSE 0

Types ==
    /\ call \in Settings
    /\ client \in {"start", "waiting", "reading", "done"}
    /\ conn \in {"up", "eof", "closed", "broken"}
    /\ server \in {"idle", "received", "before", "handler", "offer", "panicked", "dead", "ended"}
    /\ writer \in {"none", "select", "ended"}
    /\ started \in BOOLEAN
    /\ depth \in 0 .. Interceptors
    /\ IsSequence(got) /\ IsSequence(wire) /\ IsSequence(produced)
    /\ answer = Nil \/ answer.kind \in {"value", "error", "end", "stopped"}
    /\ Live => answer = Nil

\* What nothing was done for yet, and what the server has done.
Fresh ==
    /\ wire = <<>> /\ got = <<>> /\ produced = <<>> /\ raised = Nil /\ seen = Nil
    /\ conn \in {"up", "broken"}

Phase ==
    /\ client = "start" => server = "idle"
    /\ server = "idle" => client \in {"start", "done"} /\ Fresh /\ writer = "none"
    /\ server = "received" =>
          Fresh /\ writer = "none" /\ request = Sent(call) /\ Sent(call) # Err
    /\ server = "before" =>
          /\ Fresh /\ Sent(call) # Err
          /\ item = Value(Decoded(call)) /\ Decoded(call) # Err
    /\ server = "handler" =>
          seen = Decoded(call) /\ Decoded(call) # Err /\ Sent(call) # Err /\ raised = Nil
    /\ client = "reading" => got # <<>>
    /\ server = "panicked" => raised = Nil
    /\ server \in {"offer", "panicked"} => Streaming(call)
    /\ server = "dead" => writer # "none"
    /\ server = "offer" => item.kind \in {"value", "error"}
    /\ seen # Nil => seen = Decoded(call) /\ Decoded(call) # Err /\ Sent(call) # Err
    /\ writer # "none" => Streaming(call) /\ HTTPCall
    /\ server \notin {"idle", "received"} /\ Streaming(call) /\ HTTPCall /\ ~Over => writer # "none"
    /\ raised # Nil => IsError(raised)

\* An item that waits to be sent is the last thing that was produced or raised.
Offer ==
    /\ server = "offer" /\ item.kind = "value" =>
          produced # <<>> /\ item.value = produced[Len(produced)] /\ raised = Nil
    /\ server = "offer" /\ item.kind = "error" =>
          /\ Len(produced) <= MaxEvents
          /\ raised \in {Nil, item.error}
          /\ raised = Nil => Decoded(call) = Err /\ produced = <<>>
    /\ server = "offer" /\ seen # Nil => Len(produced) <= MaxEvents
    /\ server \in {"handler", "panicked"} => Len(produced) <= MaxEvents
    /\ server = "ended" /\ writer = "select" => raised = Nil \/ Gone
    /\ Len(produced) <= MaxEvents + 1

Connection ==
    /\ conn = "closed" => client = "done" /\ HTTPCall
    /\ conn = "eof" => Over /\ writer # "select"
    /\ writer = "ended" /\ ~Over => Gone

\* A call of one result: nothing is written before it ends, and then one
\* frame at most, none for a result that does not encode.
Unary ==
    ~Streaming(call) =>
        /\ got = <<>> /\ writer = "none" /\ client # "reading"
        /\ server \in {"idle", "received", "before", "handler", "ended"}
        /\ server # "ended" => produced = <<>> /\ wire = <<>>
        /\ Len(produced) <= 1 /\ (produced # <<>> => raised = Nil)
        /\ client = "waiting" /\ conn = "eof" /\ wire = <<>> =>
              raised = Nil /\ produced # <<>> /\ Enc(call, produced[1]) = Err
        /\ Len(wire) <= 1

\* An error on the wire is of the error the call ended with, or of the binding
\* itself, of a request it cannot read or a result it cannot write.
ErrorFrame(c, e, p, f) ==
    /\ f.plain \in BOOLEAN
    /\ e # Nil =>
          /\ f.error \in SendError(c.binding, e)
          /\ ~f.plain => Streaming(c) /\ (c.binding \in {"rest1", "rest0"} => f.error.data # Err)
          /\ f.plain /\ c.binding = "rest0" => ~Streaming(c)
    /\ e = Nil => \/ Decoded(c) = Err /\ p = <<>>
                  \/ p # <<>> /\ Enc(c, p[Len(p)]) = Err

\* While the client reads, the wire has what was produced after what it got,
\* and the error at the end.
OnTheWire ==
    Live => \A j \in DOMAIN wire :
        /\ wire[j].kind \in {"value", "error"}
        /\ wire[j].kind = "value" =>
              /\ Len(got) + j <= Len(produced)
              /\ Enc(call, produced[Len(got) + j]) # Err
              /\ wire[j].value = Enc(call, produced[Len(got) + j])
        /\ wire[j].kind = "error" =>
              j = Len(wire) /\ Over /\ ErrorFrame(call, raised, produced, wire[j])

GotDecoded ==
    \A i \in DOMAIN got : /\ i <= Len(produced)
                          /\ Enc(call, produced[i]) # Err
                          /\ got[i] = Dec(call, Enc(call, produced[i])) /\ got[i] # Err

\* Nothing is missing at the end of a stream without an error.
Complete ==
    Live /\ Streaming(call) /\ ~Gone /\ (wire = <<>> \/ wire[Len(wire)].kind = "value") =>
        /\ server # "dead"
        /\ Len(got) + Len(wire) = Len(produced) - Pending
        /\ conn = "eof" /\ raised # Nil => Unsendable(call.binding, raised)

WireBound ==
    /\ ~Over => Len(wire) <= Len(produced) - Pending
    /\ Len(wire) <= MaxEvents + 1

\* How a call may have ended.
AnswerIsResult ==
    /\ ~Streaming(call) /\ server = "ended" /\ Len(produced) = 1
    /\ Enc(call, produced[1]) # Err
    /\ answer.value = Dec(call, Enc(call, produced[1])) /\ answer.value # Err

AnswerIsEnd ==
    /\ Streaming(call) /\ server = "ended" /\ writer # "select" /\ Len(got) = Len(produced)
    /\ raised # Nil => Unsendable(call.binding, raised)

AnswerIsError ==
    \/ conn = "broken"
    \/ server = "idle" /\ answer.error = Refused(call)
    \/ Over /\ \E f : /\ ErrorFrame(call, raised, produced, f)
                      /\ answer.error = ReceiveError(call, f.error, f.plain)
    \/ /\ ~Streaming(call) /\ server = "ended" /\ raised = Nil /\ produced # <<>>
       /\ Enc(call, produced[1]) = Err \/ Dec(call, Enc(call, produced[1])) = Err
    \/ /\ Streaming(call) /\ Len(got) < Len(produced)
       /\ Enc(call, produced[Len(got) + 1]) # Err
       /\ Dec(call, Enc(call, produced[Len(got) + 1])) = Err

Answered ==
    answer # Nil =>
        /\ answer.kind = "value" => AnswerIsResult
        /\ answer.kind = "end" => AnswerIsEnd
        /\ answer.kind = "error" => AnswerIsError

Inv ==
    /\ Types /\ Phase /\ Offer /\ Connection /\ Unary
    /\ OnTheWire /\ GotDecoded /\ Complete /\ WireBound /\ Answered

-----------------------------------------------------------------------------
(***************************************************************************)
(* The client's steps.                                                     *)
(***************************************************************************)
LEMMA InitInv == Init => Inv
<1>. SUFFICES ASSUME Init PROVE Inv
  OBVIOUS
<1>. USE DEF Init
<1>1. Interceptors \in Nat /\ MaxEvents \in Nat
  BY CallsAssumption
<1>2. Types
  <2>1. 0 \in 0 .. Interceptors
    BY <1>1
  <2>2. IsSequence(got) /\ IsSequence(wire) /\ IsSequence(produced)
    BY EmptyIs
  <2>. QED  BY <2>1, <2>2 DEF Types, Live
<1>3. Phase /\ Offer /\ Connection
  BY <1>1, EmptyIs DEF Phase, Fresh, Over, Offer, Connection
<1>4. Unary /\ OnTheWire /\ GotDecoded
  BY EmptyIs DEF Unary, OnTheWire, GotDecoded
<1>5. Complete
  BY EmptyIs DEF Complete, Live, Pending
<1>6. WireBound /\ Answered
  BY <1>1, EmptyIs DEF WireBound, Answered, Pending, Over
<1>. QED  BY <1>2, <1>3, <1>4, <1>5, <1>6 DEF Inv

\* A request that the client does not refuse has a wire form.
LEMMA UnrefusedIsSent ==
    ASSUME NotAFunction(Nil), NEW c, Refused(c) = Nil
    PROVE  Sent(c) # Err
<1>1. \A s : NewError(s) # Nil
  BY DEF NewError, NotAFunction
<1>2. Unclassified # Nil
  BY DEF Unclassified, NotAFunction
<1>. QED  BY <1>1, <1>2 DEF Refused, Sent

\* Call: the client refuses the request or sends it.
LEMMA CallKeeps ==
    ASSUME NotAFunction(Nil), Inv, Call
    PROVE  Inv'
<1>. USE DEF Call, Inv, Answer
<1>1. client = "start" /\ server = "idle" /\ Fresh /\ writer = "none"
  BY DEF Phase
<1>2. Refused(call) = Nil => Sent(call) # Err
  BY UnrefusedIsSent
<1>3. Types'
  BY DEF Types, Live, Failure
<1>4. Phase'
  BY <1>1, <1>2 DEF Phase, Fresh, HTTPCall, Over, Sent
<1>5. Offer' /\ Connection'
  BY <1>1 DEF Offer, Connection, Gone, Over, Fresh
<1>6. Unary'
  BY <1>1 DEF Unary, Fresh
<1>7. OnTheWire' /\ GotDecoded'
  BY <1>1 DEF OnTheWire, GotDecoded, Fresh
<1>8. Complete' /\ WireBound'
  BY <1>1 DEF Complete, WireBound, Fresh, Live, Pending, Over, Gone
<1>9. Answered'
  <2>1. CASE Refused(call) # Nil
    BY <1>1, <2>1 DEF Answered, AnswerIsError, Failure
  <2>2. CASE Refused(call) = Nil
    BY <1>1, <2>2 DEF Types, Live, Answered
  <2>. QED  BY <2>1, <2>2
<1>. QED  BY <1>3, <1>4, <1>5, <1>6, <1>7, <1>8, <1>9

\* An error at the head of the wire is the last frame.
LEMMA ReadErrorKeeps ==
    ASSUME Inv, Read, Head(wire).kind = "error"
    PROVE  Inv'
<1>. DEFINE f == Head(wire)
<1>1. /\ client \in {"waiting", "reading"} /\ wire # <<>> /\ wire' = Tail(wire)
      /\ client' = "done" /\ answer' = Failure(ReceiveError(call, f.error, f.plain))
      /\ conn' = Close /\ got' = got
      /\ UNCHANGED <<call, request>> /\ UNCHANGED serverVars
  BY DEF Read, Answer
<1>2. IsSequence(wire) /\ f = wire[1] /\ IsSequence(Tail(wire)) /\ Len(Tail(wire)) = Len(wire) - 1
  BY <1>1, TailIs DEF Inv, Types
<1>3. Len(wire) \in Nat /\ Len(wire) # 0 /\ 1 \in DOMAIN wire
  BY <1>1, <1>2, SequenceIs
<1>4. Over /\ ErrorFrame(call, raised, produced, f)
  BY <1>1, <1>2, <1>3 DEF Inv, OnTheWire, Live
<1>. USE <1>1 DEF serverVars, Inv
<1>5. Types'
  BY <1>2 DEF Types, Close, Live, Failure
<1>6. Phase'
  BY <1>4 DEF Phase, Fresh, Close, HTTPCall, Over
<1>7. Offer' /\ Connection'
  BY <1>4 DEF Offer, Connection, Close, Gone, HTTPCall, Over
<1>8. Unary'
  BY <1>2, <1>3, <1>4 DEF Unary, Over
<1>9. OnTheWire' /\ Complete' /\ GotDecoded'
  BY DEF OnTheWire, Complete, Live, GotDecoded
<1>10. WireBound'
  <2>1. MaxEvents \in Nat
    BY CallsAssumption
  <2>. QED  BY <1>2, <1>3, <1>4, <2>1 DEF WireBound, Over, Pending
<1>11. Answered'
  <2>1. answer'.kind = "error" /\ answer'.error = ReceiveError(call, f.error, f.plain)
    BY DEF Failure
  <2>2. AnswerIsError'
    BY <1>4, <2>1 DEF AnswerIsError, Over
  <2>. QED  BY <2>1, <2>2 DEF Answered
<1>. QED  BY <1>5, <1>6, <1>7, <1>8, <1>9, <1>10, <1>11

\* A result, or the next event, is what was produced.
LEMMA ReadValueKeeps ==
    ASSUME Inv, Read, Head(wire).kind = "value"
    PROVE  Inv'
<1>. DEFINE f == Head(wire)
            v == Dec(call, f.value)
            n == Len(got) + 1
            new == Append(got, v)
<1>1. /\ client \in {"waiting", "reading"} /\ wire # <<>> /\ wire' = Tail(wire)
      /\ UNCHANGED <<call, request>> /\ UNCHANGED serverVars
      /\ \/ /\ v = Err
            /\ client' = "done" /\ answer' = Failure(Unclassified) /\ conn' = Close /\ got' = got
         \/ /\ v # Err /\ ~Streaming(call)
            /\ client' = "done" /\ answer' = Value(v) /\ conn' = Close /\ got' = got
         \/ /\ v # Err /\ Streaming(call)
            /\ client' = "reading" /\ got' = new /\ UNCHANGED <<answer, conn>>
  BY DEF Read, Answer, Dec
<1>2. /\ IsSequence(wire) /\ f = wire[1] /\ IsSequence(Tail(wire)) /\ Len(Tail(wire)) = Len(wire) - 1
      /\ \A i \in 1 .. Len(wire) - 1 : Tail(wire)[i] = wire[i + 1]
  BY <1>1, TailIs DEF Inv, Types
<1>3. Len(wire) \in Nat /\ Len(wire) # 0 /\ 1 \in DOMAIN wire /\ DOMAIN wire = 1 .. Len(wire)
  BY <1>1, <1>2, SequenceIs
<1>4. /\ IsSequence(got) /\ Len(got) \in Nat /\ DOMAIN got = 1 .. Len(got)
      /\ IsSequence(produced) /\ Len(produced) \in Nat /\ DOMAIN produced = 1 .. Len(produced)
  BY SequenceIs DEF Inv, Types
<1>5. n <= Len(produced) /\ Enc(call, produced[n]) # Err /\ f.value = Enc(call, produced[n])
  BY <1>1, <1>2, <1>3 DEF Inv, OnTheWire, Live
<1>6. produced # <<>>
  BY <1>4, <1>5, SequenceIs
<1>0. n = Len(got) + 1
  OBVIOUS
<1>. HIDE DEF f, v, n, new
<1>7. /\ IsSequence(new) /\ Len(new) = n /\ new[n] = v
      /\ \A i \in 1 .. Len(got) : new[i] = got[i]
      /\ DOMAIN new = 1 .. n /\ new # <<>>
  <2>1. /\ IsSequence(new) /\ Len(new) = n /\ new[n] = v
        /\ \A i \in 1 .. Len(got) : new[i] = got[i]
    BY <1>0, <1>4, AppendIs DEF new
  <2>2. DOMAIN new = 1 .. n
    BY <2>1, SequenceIs
  <2>3. n # 0
    BY <1>0, <1>4
  <2>. QED  BY <2>1, <2>2, <2>3, EmptyIs
<1>8. server \notin {"idle", "received", "before"}
  BY <1>6 DEF Inv, Phase, Fresh
<1>9. DOMAIN Tail(wire) = 1 .. Len(wire) - 1 /\ (Tail(wire) = <<>> <=> Len(wire) - 1 = 0)
  BY <1>2, SequenceIs
<1>10. MaxEvents \in Nat
  BY CallsAssumption
<1>. USE <1>1 DEF serverVars, Inv
<1>11. Types'
  BY <1>2, <1>7 DEF Types, Close, Live, Failure, Value
<1>12. Phase'
  BY <1>7, <1>8 DEF Phase, HTTPCall, Over
<1>13. Offer' /\ Connection'
  BY DEF Offer, Connection, Close, Gone, HTTPCall, Over
<1>14. Unary'
  BY <1>2, <1>3 DEF Unary
<1>15. OnTheWire'
  <2>1. CASE client' = "done"
    BY <2>1 DEF OnTheWire, Live
  <2>2. CASE v # Err /\ Streaming(call) /\ got' = new
    <3>1. ASSUME NEW j \in DOMAIN Tail(wire)
          PROVE  /\ j \in Nat /\ j + 1 \in DOMAIN wire /\ Tail(wire)[j] = wire[j + 1]
                 /\ Len(got') + j = Len(got) + (j + 1)
                 /\ j = Len(Tail(wire)) <=> j + 1 = Len(wire)
      <4>1. j \in 1 .. Len(wire) - 1
        BY <1>9
      <4>2. j \in Nat /\ j + 1 \in 1 .. Len(wire) /\ j >= 1
        BY <1>3, <4>1
      <4>3. Tail(wire)[j] = wire[j + 1]
        BY <1>2, <4>1
      <4>4. Len(got') = Len(got) + 1
        BY <1>0, <1>7, <2>2
      <4>. QED  BY <1>2, <1>3, <1>4, <4>2, <4>3, <4>4
    <3>. QED  BY <2>2, <3>1 DEF OnTheWire, Live, Over
  <2>. QED  BY <2>1, <2>2
<1>16. GotDecoded'
  <2>1. CASE got' = got
    BY <2>1 DEF GotDecoded
  <2>2. CASE v # Err /\ got' = new
    <3>1. v = Dec(call, Enc(call, produced[n]))
      BY <1>5 DEF v
    <3>. QED  BY <1>4, <1>5, <1>7, <2>2, <3>1, <1>0 DEF GotDecoded
  <2>. QED  BY <2>1, <2>2
<1>17. Complete'
  <2>1. CASE client' = "done"
    BY <2>1 DEF Complete, Live
  <2>2. CASE v # Err /\ Streaming(call) /\ got' = new /\ UNCHANGED <<answer, conn>>
    <3>1. Len(got') + Len(wire') = Len(got) + Len(wire)
      BY <1>0, <1>2, <1>3, <1>4, <1>7, <2>2
    <3>2. ASSUME wire' = <<>> \/ wire'[Len(wire')].kind = "value"
          PROVE  wire[Len(wire)].kind = "value"
      <4>1. CASE Len(wire) = 1
        BY <1>2, <4>1 DEF f
      <4>2. CASE Len(wire) # 1
        BY <1>2, <1>3, <1>9, <3>2, <4>2
      <4>. QED  BY <4>1, <4>2
    <3>3. Live /\ Pending' = Pending /\ Gone' = Gone /\ server' = server
      BY <2>2 DEF Live, Pending, Gone
    <3>. QED  BY <2>2, <3>1, <3>2, <3>3 DEF Complete
  <2>. QED  BY <2>1, <2>2
<1>18. WireBound'
  BY <1>2, <1>3, <1>10 DEF WireBound, Over, Pending
<1>19. Answered'
  <2>1. CASE v = Err /\ answer' = Failure(Unclassified) /\ got' = got
    <3>1. answer'.kind = "error"
      BY <2>1 DEF Failure
    <3>2. Dec(call, Enc(call, produced[n])) = Err
      BY <1>5, <2>1 DEF v
    <3>3. AnswerIsError'
      <4>1. CASE Streaming(call)
        <5>1. Len(got) < Len(produced)
          BY <1>4, <1>5 DEF n
        <5>. QED  BY <1>5, <2>1, <3>2, <4>1, <5>1 DEF AnswerIsError, n
      <4>2. CASE ~Streaming(call)
        <5>1. n = 1 /\ server = "ended" /\ raised = Nil
          BY <1>6, <4>2, EmptyIs DEF Unary, n
        <5>. QED  BY <1>5, <1>6, <2>1, <3>2, <4>2, <5>1 DEF AnswerIsError
      <4>. QED  BY <4>1, <4>2
    <3>. QED  BY <3>1, <3>3 DEF Answered
  <2>2. CASE v # Err /\ ~Streaming(call) /\ answer' = Value(v) /\ got' = got
    <3>1. answer'.kind = "value" /\ answer'.value = v
      BY <2>2 DEF Value
    <3>2. n = 1 /\ server = "ended" /\ Len(produced) = 1
      BY <1>4, <1>5, <1>6, <2>2, EmptyIs DEF Unary, n
    <3>3. AnswerIsResult'
      BY <1>5, <2>2, <3>1, <3>2 DEF AnswerIsResult, v
    <3>. QED  BY <3>1, <3>3 DEF Answered
  <2>3. CASE client' = "reading" /\ answer' = answer
    BY <2>3 DEF Types, Live, Answered
  <2>. QED  BY <2>1, <2>2, <2>3
<1>. QED  BY <1>11, <1>12, <1>13, <1>14, <1>15, <1>16, <1>17, <1>18, <1>19

\* Read: the next response, whatever it decodes to.
LEMMA ReadKeeps ==
    ASSUME Inv, Read
    PROVE  Inv'
<1>1. Head(wire).kind \in {"error", "value"}
  BY DEF Read
<1>. QED  BY <1>1, ReadErrorKeeps, ReadValueKeeps

\* The response ends.
LEMMA ReadEndKeeps ==
    ASSUME Inv, ReadEnd
    PROVE  Inv'
<1>. USE DEF ReadEnd, Inv, Answer, serverVars
<1>1. Types'
  BY DEF Types, Live, Failure, End
<1>2. Phase' /\ Offer' /\ Connection'
  BY DEF Phase, Fresh, HTTPCall, Over, Offer, Connection, Gone
<1>3. Unary' /\ OnTheWire' /\ Complete' /\ GotDecoded'
  BY DEF Unary, OnTheWire, Complete, Live, GotDecoded
<1>4. WireBound'
  BY DEF WireBound, Over, Pending
<1>5. Answered'
  <2>1. Over /\ writer # "select"
    BY DEF Connection
  <2>2. CASE Streaming(call)
    <3>1. /\ server # "dead" /\ Len(got) + Len(wire) = Len(produced) - Pending
          /\ raised # Nil => Unsendable(call.binding, raised)
      BY <2>2 DEF Complete, Live, Gone
    <3>2. server = "ended" /\ Pending = 0
      BY <2>1, <3>1 DEF Over, Pending
    <3>3. Len(got) = Len(produced)
      <4>1. Len(got) \in Nat /\ Len(produced) \in Nat
        BY SequenceIs DEF Types
      <4>. QED  BY <3>1, <3>2, <4>1, EmptyIs
    <3>4. AnswerIsEnd'
      BY <2>1, <2>2, <3>1, <3>2, <3>3 DEF AnswerIsEnd
    <3>. QED  BY <2>2, <3>4 DEF Answered, End
  <2>3. CASE ~Streaming(call)
    <3>1. raised = Nil /\ produced # <<>> /\ Enc(call, produced[1]) = Err /\ server = "ended"
      BY <2>3 DEF Unary
    <3>2. AnswerIsError'
      BY <2>3, <3>1 DEF AnswerIsError
    <3>. QED  BY <2>3, <3>2 DEF Answered, Failure
  <2>. QED  BY <2>2, <2>3
<1>. QED  BY <1>1, <1>2, <1>3, <1>4, <1>5

\* ReadBroken: the connection is lost and the caller told.
LEMMA ReadBrokenKeeps ==
    ASSUME Inv, ReadBroken
    PROVE  Inv'
<1>. USE DEF ReadBroken, Inv, Answer, serverVars
<1>1. Types'
  BY DEF Types, Live, Failure
<1>2. Phase' /\ Offer' /\ Connection'
  BY DEF Phase, Fresh, HTTPCall, Over, Offer, Connection, Gone
<1>3. Unary' /\ OnTheWire' /\ Complete' /\ GotDecoded'
  BY DEF Unary, OnTheWire, Complete, Live, GotDecoded
<1>4. WireBound'
  BY DEF WireBound, Over, Pending
<1>5. Answered'
  BY DEF Answered, AnswerIsError, Failure
<1>. QED  BY <1>1, <1>2, <1>3, <1>4, <1>5

\* Stop: the caller leaves a stream.
LEMMA StopKeeps ==
    ASSUME Inv, Stop
    PROVE  Inv'
<1>. USE DEF Stop, Inv, Answer, serverVars
<1>1. Types'
  BY DEF Types, Close, Live, Stopped
<1>2. Phase'
  BY DEF Phase, Fresh, Close, HTTPCall, Over
<1>3. Offer' /\ Connection'
  BY DEF Offer, Connection, Close, Gone, HTTPCall, Over
<1>4. Unary' /\ OnTheWire' /\ Complete' /\ GotDecoded'
  BY DEF Unary, OnTheWire, Complete, Live, GotDecoded
<1>5. WireBound'
  BY DEF WireBound, Over, Pending
<1>6. Answered'
  BY DEF Answered, Stopped
<1>. QED  BY <1>1, <1>2, <1>3, <1>4, <1>5, <1>6

\* What is lost is the end of what was on its way.
LEMMA BreakKeeps ==
    ASSUME Inv, Break
    PROVE  Inv'
<1>. USE DEF Break, Inv, clientVars, serverVars
<1>1. IsSequence(wire) /\ Len(wire) \in Nat /\ DOMAIN wire = 1 .. Len(wire)
  BY SequenceIs DEF Types
<1>2. PICK n \in 0 .. Len(wire) : wire' = SubSeq(wire, 1, n)
  OBVIOUS
<1>3. /\ IsSequence(SubSeq(wire, 1, n)) /\ Len(SubSeq(wire, 1, n)) = n
      /\ \A i \in 1 .. n : SubSeq(wire, 1, n)[i] = wire[i]
  BY <1>1, PrefixIs
<1>4. IsSequence(wire') /\ Len(wire') = n /\ DOMAIN wire' = 1 .. n /\ \A i \in 1 .. n : wire'[i] = wire[i]
  BY <1>2, <1>3, SequenceIs
<1>5. wire = <<>> => wire' = <<>>
  BY <1>1, <1>2, <1>4, SequenceIs, EmptyIs
<1>6. n \in Nat /\ n <= Len(wire)
  BY <1>1
<1>7. Types'
  BY <1>4 DEF Types, Live
<1>8. Phase'
  BY <1>5 DEF Phase, Fresh, HTTPCall, Over
<1>9. Offer' /\ Connection'
  BY DEF Offer, Connection, Gone, Over
<1>10. Unary'
  BY <1>1, <1>4, <1>5, <1>6 DEF Unary
<1>11. OnTheWire'
  <2>1. ASSUME NEW j \in DOMAIN wire'
        PROVE  j \in DOMAIN wire /\ wire'[j] = wire[j] /\ (j = Len(wire) => j = Len(wire'))
    BY <1>1, <1>4, <1>6
  <2>. QED  BY <2>1 DEF OnTheWire, Live, Over
<1>12. GotDecoded' /\ Complete'
  BY DEF GotDecoded, Complete, Gone
<1>13. WireBound'
  <2>1. MaxEvents \in Nat /\ Len(produced) \in Nat
    BY CallsAssumption, SequenceIs DEF Types
  <2>. QED  BY <1>1, <1>4, <1>6, <2>1 DEF WireBound, Over, Pending
<1>14. Answered'
  BY DEF Types, Live, Answered
<1>. QED  BY <1>7, <1>8, <1>9, <1>10, <1>11, <1>12, <1>13, <1>14

-----------------------------------------------------------------------------
(***************************************************************************)
(* The server's steps.                                                     *)
(***************************************************************************)
\* What a response to a call is: one frame and the end, if the connection is
\* there.
Ends(f) ==
    /\ wire' = IF Gone THEN wire ELSE Append(wire, f)
    /\ conn' = IF Gone THEN conn ELSE "eof"

IsErrorFrame(f, e) ==
    f.kind = "error" /\ f.plain = TRUE /\ f.error \in SendError(call.binding, e)

\* An error is written as one frame, with which the response ends.
LEMMA WriteErrorIs ==
    ASSUME NEW e, WriteError(e)
    PROVE  \E f : Ends(f) /\ IsErrorFrame(f, e)
BY DEF WriteError, Write, Ended, Ends, IsErrorFrame

\* So is a status.
LEMMA WriteStatusIs ==
    ASSUME NEW code, WriteStatus(code)
    PROVE  \E f : Ends(f) /\ f.kind = "error" /\ f.plain = TRUE
BY DEF WriteStatus, Write, Ended, Ends

IsResultFrame(c, p, f) ==
    p # <<>> /\ Enc(c, p[1]) # Err /\ f.value = Enc(c, p[1])

\* A result is written, or its failure to encode is, or nothing.
LEMMA WriteResultIs ==
    ASSUME NEW v, WriteResult(v)
    PROVE  \/ \E f : /\ Ends(f)
                     /\ \/ f.kind = "value" /\ f.value = Enc(call, v) /\ Enc(call, v) # Err
                        \/ f.kind = "error" /\ f.plain = TRUE /\ Enc(call, v) = Err
           \/ wire' = wire /\ conn' = (IF Gone THEN conn ELSE "eof") /\ Enc(call, v) = Err
<1>. DEFINE w == EncodeResult(call.binding, Method(call), v)
<1>0. w = Enc(call, v)
  BY DEF Enc
<1>1. CASE w # Err
  <2>1. Write([kind |-> "value", value |-> w]) /\ Ended
    BY <1>1 DEF WriteResult
  <2>. HIDE DEF w
  <2>2. \E f : Ends(f) /\ f.kind = "value" /\ f.value = w
    BY <2>1 DEF Write, Ended, Ends
  <2>. QED  BY <1>0, <1>1, <2>2
<1>2. CASE w = Err /\ ~HTTPCall
  <2>1. WriteStatus("Internal")
    BY <1>2 DEF WriteResult, HTTPCall, HTTP, Bindings
  <2>. QED  BY <1>0, <1>2, <2>1, WriteStatusIs
<1>3. CASE w = Err /\ HTTPCall /\ call.binding = "rest0"
  <2>1. WriteError(Unclassified)
    BY <1>3 DEF WriteResult
  <2>. QED  BY <1>0, <1>3, <2>1, WriteErrorIs DEF IsErrorFrame
<1>4. CASE w = Err /\ HTTPCall /\ call.binding # "rest0"
  BY <1>0, <1>4 DEF WriteResult, Ended
<1>. QED  BY <1>1, <1>2, <1>3, <1>4

\* A call that ends with one frame, before anything was written.
LEMMA EndsKeeps ==
    ASSUME Inv, server \notin {"idle", "ended", "dead"},
           wire = <<>>, got = <<>>, produced = <<>>, writer = "none", writer' = "none",
           UNCHANGED call, UNCHANGED clientVars, started' \in {started, FALSE},
           server' = "ended", depth' \in 0 .. Interceptors,
           seen' = seen \/ seen' = Nil,
           NEW f, Ends(f),
           \/ f.kind = "error" /\ ErrorFrame(call, raised', produced', f)
           \/ f.kind = "value" /\ IsResultFrame(call, produced', f) /\ ~Streaming(call),
           produced' = <<>> \/ (~Streaming(call) /\ raised' = Nil /\ IsSequence(produced') /\ Len(produced') = 1),
           raised' # Nil => IsError(raised')
    PROVE  Inv'
<1>. USE DEF Inv, clientVars
<1>1. Len(wire) = 0 /\ Len(produced) = 0
  BY EmptyIs
<1>2. wire' = IF Gone THEN <<>> ELSE <<f>>
  BY DEF Ends
<1>3. IsSequence(<<f>>) /\ Len(<<f>>) = 1 /\ <<f>> # <<>> /\ <<f>>[1] = f /\ DOMAIN <<f>> = {1}
  <2>1. <<f>> \in Seq({f})
    OBVIOUS
  <2>2. IsSequence(<<f>>)
    BY <2>1, OfASet
  <2>. QED  BY <2>2
<1>4. IsSequence(wire') /\ Len(wire') <= 1 /\ Len(wire') \in Nat
  BY <1>2, <1>3, EmptyIs
<1>5. /\ conn' = IF Gone THEN conn ELSE "eof"
      /\ conn \in {"up", "eof", "closed", "broken"}
  BY DEF Ends, Types
<1>6. MaxEvents \in Nat
  BY CallsAssumption
<1>7. /\ IsSequence(produced') /\ Len(produced') <= 1 /\ Len(produced') <= MaxEvents + 1
      /\ produced' # <<>> => Len(produced') = 1 /\ ~Streaming(call) /\ raised' = Nil
  <2>1. CASE produced' = <<>>
    BY <1>6, <2>1, EmptyIs
  <2>2. CASE /\ ~Streaming(call) /\ raised' = Nil /\ IsSequence(produced') /\ Len(produced') = 1
    BY <1>6, <2>2
  <2>. QED  BY <2>1, <2>2
<1>8. client # "start"
  BY DEF Phase
<1>9. Types'
  BY <1>4, <1>5, <1>7 DEF Types, Live
<1>10. Phase'
  BY <1>8 DEF Phase, Fresh, HTTPCall, Over
<1>11. Offer'
  BY <1>6, <1>7 DEF Offer
<1>12. Connection'
  BY <1>5 DEF Connection, Gone, Over, HTTPCall
<1>13. Unary'
  BY <1>2, <1>3, <1>4, <1>5, <1>7, EmptyIs DEF Unary, Gone
<1>14. OnTheWire'
  BY <1>1, <1>2, <1>3, <1>7, EmptyIs DEF OnTheWire, Live, Over, IsResultFrame
<1>15. GotDecoded'
  BY DEF GotDecoded
<1>16. Complete'
  BY <1>2, <1>3, <1>5 DEF Complete, Live, Gone
<1>17. WireBound'
  BY <1>4, <1>6 DEF WireBound, Over
<1>18. Answered'
  <2>1. ASSUME answer # Nil, answer.kind = "error", AnswerIsError
        PROVE  conn' = "broken"
    BY <1>1, <1>5, <2>1, EmptyIs DEF AnswerIsError, Over, Gone
  <2>2. answer # Nil => answer.kind # "value" /\ answer.kind # "end"
    BY DEF Answered, AnswerIsResult, AnswerIsEnd
  <2>. QED  BY <2>1, <2>2 DEF Answered, AnswerIsError
<1>. QED  BY <1>9, <1>10, <1>11, <1>12, <1>13, <1>14, <1>15, <1>16, <1>17, <1>18

\* The server takes the request.  What the binding cannot read, and a version
\* that is not the server's, end the call.
LEMMA ReceiveKeeps ==
    ASSUME Inv, Receive
    PROVE  Inv'
<1>. DEFINE r == Decoded(call)
            wrong == checkProtocolVersion(call)
            stream == StartStream = "select"
<1>1. /\ server = "received" /\ Fresh /\ writer = "none" /\ request = Sent(call) /\ Sent(call) # Err
      /\ client # "start" /\ (IsError(wrong) \/ wrong = Nil)
  <2>1. "VersionNotSupported" \in Sentinels
    BY DEF Sentinels
  <2>2. IsError(NewError("VersionNotSupported"))
    BY <2>1, NewErrorIs
  <2>3. IsError(wrong) \/ wrong = Nil
    BY <2>2 DEF checkProtocolVersion
  <2>. HIDE DEF wrong
  <2>. QED  BY <2>3 DEF Receive, Inv, Phase
<1>2. /\ \/ /\ r = Err /\ HTTPCall /\ stream /\ call.binding \in {"rpc1", "rpc0"}
            /\ server' = "offer" /\ item' = Failure(Unreadable(call))
            /\ writer' = "select" /\ started' = StartHeaders
            /\ UNCHANGED <<wire, conn, seen, raised>>
         \/ /\ r = Err /\ server' = "ended"
            /\ WriteError(Unreadable(call)) \/ WriteStatus("InvalidArgument")
            /\ UNCHANGED <<writer, started, item, seen, raised>>
         \/ /\ r # Err /\ wrong # Nil /\ ~stream
            /\ WriteError(wrong)
            /\ server' = "ended" /\ raised' = wrong
            /\ UNCHANGED <<writer, started, item, seen>>
         \/ /\ r # Err /\ wrong # Nil /\ stream
            /\ server' = "offer" /\ item' = Failure(wrong) /\ raised' = wrong
            /\ writer' = "select" /\ started' = StartHeaders
            /\ UNCHANGED <<wire, conn, seen>>
         \/ /\ r # Err /\ wrong = Nil
            /\ server' = "before" /\ item' = Value(r)
            /\ writer' = StartStream /\ started' = StartHeaders
            /\ UNCHANGED <<wire, conn, seen, raised>>
      /\ UNCHANGED <<call, depth, produced>> /\ UNCHANGED clientVars
  BY <1>1 DEF Receive, Decoded, StartStream
<1>3. /\ stream <=> Streaming(call) /\ HTTPCall
      /\ StartStream \in {"none", "select"} /\ StartHeaders \in BOOLEAN
  BY DEF StartStream, StartHeaders
<1>4. Types /\ Phase /\ Connection /\ depth \in 0 .. Interceptors
  BY DEF Inv, Types
<1>5. ASSUME NEW f, Ends(f), f.kind = "error", ErrorFrame(call, raised', produced', f),
             server' = "ended", writer' = writer, started' = started, seen' = seen,
             raised' # Nil => IsError(raised')
      PROVE  Inv'
  <2>1. /\ Inv /\ server \notin {"idle", "ended", "dead"}
        /\ wire = <<>> /\ got = <<>> /\ produced = <<>> /\ writer = "none" /\ writer' = "none"
        /\ seen' = seen /\ server' = "ended" /\ started' = started
    BY <1>1, <1>5 DEF Fresh
  <2>2. UNCHANGED call /\ UNCHANGED clientVars /\ depth' = depth /\ produced' = <<>>
    BY <1>2, <2>1
  <2>3. depth' \in 0 .. Interceptors
    BY <1>4, <2>2
  <2>. HIDE DEF r, wrong, stream
  <2>4. /\ seen' = seen \/ seen' = Nil
        /\ produced' = <<>> \/ (~Streaming(call) /\ raised' = Nil /\ IsSequence(produced') /\ Len(produced') = 1)
    BY <2>1, <2>2
  <2>5. /\ Ends(f) /\ f.kind = "error" /\ ErrorFrame(call, raised', produced', f)
        /\ raised' # Nil => IsError(raised')
    BY <1>5
  <2>. HIDE <1>5
  <2>. QED  BY ONLY <2>1, <2>2, <2>3, <2>4, <2>5, EndsKeeps
<1>. HIDE DEF r, wrong, stream
<1>6. ASSUME server' \in {"offer", "before"}, UNCHANGED <<wire, conn, seen>>,
             raised' \in {raised, wrong},
             \/ /\ server' = "offer" /\ item'.kind = "error" /\ writer' = "select" /\ stream
                /\ raised' \in {Nil, item'.error} /\ (raised' = Nil => r = Err)
             \/ /\ server' = "before" /\ raised' = raised /\ r # Err /\ item' = Value(r)
                /\ writer' = StartStream,
             started' = StartHeaders
      PROVE  Inv'
  <2>. USE DEF Fresh, Inv, clientVars
  <2>. USE <1>1, <1>2, <1>3, <1>4, <1>6
  <2>1. Types'
    BY DEF Types, Live
  <2>2. Phase'
    BY DEF Phase, HTTPCall, Over, stream, StartStream, r
  <2>3. MaxEvents \in Nat
    BY CallsAssumption
  <2>4. Offer'
    BY <2>3, EmptyIs DEF Offer, r
  <2>5. Connection'
    BY DEF Connection, Over
  <2>6. Unary' /\ OnTheWire' /\ GotDecoded'
    BY DEF Unary, OnTheWire, GotDecoded, Live, stream, StartStream
  <2>7. Complete' /\ WireBound'
    BY <2>3, EmptyIs DEF Complete, WireBound, Pending, Over, Live, Gone, Value
  <2>8. Answered'
    <3>1. answer # Nil /\ answer.kind = "error" => AnswerIsError
      BY DEF Answered
    <3>2. answer # Nil => answer.kind # "value" /\ answer.kind # "end"
      BY DEF Answered, AnswerIsResult, AnswerIsEnd
    <3>3. answer # Nil /\ answer.kind = "error" => conn' = "broken"
      BY <3>1, EmptyIs DEF AnswerIsError, Over
    <3>. QED  BY <3>2, <3>3 DEF Answered, AnswerIsError
  <2>. QED  BY <2>1, <2>2, <2>4, <2>5, <2>6, <2>7, <2>8
<1>7. CASE r = Err /\ server' = "ended"
  <2>1. raised' = Nil /\ produced' = <<>> /\ writer' = writer /\ started' = started /\ seen' = seen
    BY <1>1, <1>2, <1>7 DEF Fresh
  <2>2. PICK f : Ends(f) /\ f.kind = "error" /\ f.plain = TRUE
    BY <1>2, <1>7, WriteErrorIs, WriteStatusIs DEF IsErrorFrame
  <2>3. ErrorFrame(call, raised', produced', f)
    BY <1>7, <2>1, <2>2 DEF ErrorFrame, r
  <2>. QED  BY <1>5, <1>7, <2>1, <2>2, <2>3
<1>8. CASE r # Err /\ wrong # Nil /\ ~stream /\ server' = "ended"
  <2>1. /\ raised' = wrong /\ IsError(wrong) /\ writer' = writer /\ started' = started /\ seen' = seen
        /\ WriteError(wrong)
    BY <1>1, <1>2, <1>8
  <2>2. PICK f : Ends(f) /\ IsErrorFrame(f, wrong)
    BY <2>1, WriteErrorIs
  <2>3. call.binding = "rest0" => ~Streaming(call)
    BY <1>3, <1>8 DEF HTTPCall, HTTP, Bindings
  <2>4. ErrorFrame(call, raised', produced', f)
    BY <1>8, <2>1, <2>2, <2>3 DEF ErrorFrame, IsErrorFrame
  <2>. QED  BY <1>5, <1>8, <2>1, <2>2, <2>4 DEF IsErrorFrame
<1>9. CASE server' \in {"offer", "before"}
  BY <1>1, <1>2, <1>3, <1>6, <1>9 DEF Fresh, Failure
<1>. QED  BY <1>2, <1>7, <1>8, <1>9

\* Enter: the handler gets what the request was decoded to.
LEMMA EnterKeeps ==
    ASSUME Inv, Enter
    PROVE  Inv'
<1>. USE DEF Enter, Inv, clientVars
<1>1. /\ Fresh /\ item.value = Decoded(call) /\ Decoded(call) # Err /\ Sent(call) # Err
  BY DEF Phase, Value
<1>. USE <1>1
<1>2. Types'
  BY DEF Types, Live
<1>3. Phase'
  BY DEF Phase, Fresh, HTTPCall, Over
<1>4. MaxEvents \in Nat
  BY CallsAssumption
<1>5. Offer' /\ Connection'
  BY <1>4, EmptyIs DEF Offer, Connection, Fresh, Over, Gone
<1>6. Unary' /\ OnTheWire' /\ GotDecoded'
  BY DEF Unary, OnTheWire, GotDecoded, Fresh, Live, Over
<1>7. Complete' /\ WireBound'
  BY DEF Complete, WireBound, Pending, Over, Live, Gone
<1>8. Answered'
  BY DEF Answered, AnswerIsResult, AnswerIsEnd, AnswerIsError, Over
<1>. QED  BY <1>2, <1>3, <1>5, <1>6, <1>7, <1>8

-----------------------------------------------------------------------------
(***************************************************************************)
(* What the handler and the interceptors end a call with.                  *)
(***************************************************************************)
\* A call whose result does not encode ends without a frame.
LEMMA EmptyEndKeeps ==
    ASSUME Inv, server \in {"before", "handler"}, ~Streaming(call), raised = Nil,
           wire' = wire, conn' = (IF Gone THEN conn ELSE "eof"), server' = "ended",
           UNCHANGED <<call, writer, seen, raised, started>>, UNCHANGED clientVars,
           depth' \in 0 .. Interceptors,
           IsSequence(produced'), Len(produced') = 1, Enc(call, produced'[1]) = Err
    PROVE  Inv'
<1>. USE DEF Inv, clientVars
<1>1. wire = <<>> /\ got = <<>> /\ produced = <<>> /\ writer = "none"
  BY DEF Unary
<1>2. Len(wire) = 0 /\ Len(got) = 0 /\ produced' # <<>>
  BY <1>1, EmptyIs
<1>3. MaxEvents \in Nat
  BY CallsAssumption
<1>4. conn \in {"up", "eof", "closed", "broken"} /\ client # "start"
  BY DEF Types, Phase
<1>. USE <1>1, <1>2, <1>4
<1>5. Types'
  BY DEF Types, Live
<1>6. Phase'
  BY DEF Phase, HTTPCall, Over
<1>7. Offer' /\ Connection'
  BY <1>3 DEF Offer, Connection, Gone, Over, HTTPCall
<1>8. Unary'
  BY DEF Unary
<1>9. OnTheWire' /\ GotDecoded' /\ Complete' /\ WireBound'
  BY <1>3 DEF OnTheWire, GotDecoded, Complete, WireBound, Over
<1>10. Answered'
  <2>1. answer # Nil /\ answer.kind = "error" /\ AnswerIsError => conn' = "broken"
    BY DEF AnswerIsError, Over, Gone
  <2>2. answer # Nil => answer.kind # "value" /\ answer.kind # "end"
    BY DEF Answered, AnswerIsResult, AnswerIsEnd
  <2>. QED  BY <2>1, <2>2 DEF Answered, AnswerIsError
<1>. QED  BY <1>5, <1>6, <1>7, <1>8, <1>9, <1>10

\* One result, or an error instead of it, ends the call.
LEMMA RespondOnce ==
    ASSUME NotAFunction(Nil), Inv, server \in {"before", "handler"}, ~Streaming(call), raised = Nil,
           NEW p, IsItem(p), Respond(p),
           UNCHANGED <<call, writer, seen, started>>, UNCHANGED clientVars,
           depth' \in 0 .. Interceptors
    PROVE  Inv'
<1>1. /\ wire = <<>> /\ got = <<>> /\ produced = <<>> /\ writer = "none"
      /\ server \notin {"idle", "ended", "dead"}
  BY DEF Inv, Unary
<1>2. CASE p.kind = "error"
  <2>1. /\ WriteError(p.error) /\ raised' = p.error /\ produced' = <<>> /\ server' = "ended"
    BY <1>1, <1>2 DEF Respond
  <2>2. IsError(p.error)
    BY <1>2 DEF IsItem, Value, Failure
  <2>3. PICK f : Ends(f) /\ IsErrorFrame(f, p.error)
    BY <2>1, WriteErrorIs
  <2>4. p.error # Nil
    BY <2>2 DEF IsError, NotAFunction
  <2>5. f.kind = "error" /\ ErrorFrame(call, raised', produced', f)
    BY <2>1, <2>3, <2>4 DEF ErrorFrame, IsErrorFrame
  <2>. QED  BY <1>1, <2>1, <2>2, <2>3, <2>5, EndsKeeps
<1>3. CASE p.kind = "value"
  <2>. DEFINE new == Append(produced, p.value)
  <2>1. /\ WriteResult(p.value) /\ raised' = Nil /\ produced' = new /\ server' = "ended"
    BY <1>1, <1>3 DEF Respond
  <2>2. IsSequence(new) /\ Len(new) = 1 /\ new[1] = p.value
    <3>1. IsSequence(produced) /\ Len(produced) = 0
      BY <1>1, EmptyIs
    <3>2. IsSequence(new) /\ Len(new) = Len(produced) + 1 /\ new[Len(produced) + 1] = p.value
      BY <3>1, AppendIs
    <3>. QED  BY <3>1, <3>2
  <2>. HIDE DEF new
  <2>3. IsSequence(produced') /\ Len(produced') = 1 /\ produced'[1] = p.value /\ produced' # <<>>
    BY <2>1, <2>2, EmptyIs
  <2>4. produced' = <<>> \/ (~Streaming(call) /\ raised' = Nil /\ IsSequence(produced') /\ Len(produced') = 1)
    BY <2>1, <2>3
  <2>5. CASE \E f : /\ Ends(f)
                    /\ \/ f.kind = "value" /\ f.value = Enc(call, p.value) /\ Enc(call, p.value) # Err
                       \/ f.kind = "error" /\ f.plain = TRUE /\ Enc(call, p.value) = Err
    <3>1. PICK f : /\ Ends(f)
                   /\ \/ f.kind = "value" /\ f.value = Enc(call, p.value) /\ Enc(call, p.value) # Err
                      \/ f.kind = "error" /\ f.plain = TRUE /\ Enc(call, p.value) = Err
      BY <2>5
    <3>2. \/ f.kind = "error" /\ ErrorFrame(call, raised', produced', f)
          \/ f.kind = "value" /\ IsResultFrame(call, produced', f) /\ ~Streaming(call)
      BY <2>1, <2>3, <3>1 DEF ErrorFrame, IsResultFrame
    <3>3. Ends(f)
      BY <3>1
    <3>4. raised' # Nil => IsError(raised')
      BY <2>1
    <3>5. UNCHANGED call /\ UNCHANGED clientVars /\ UNCHANGED started /\ writer' = "none" /\ seen' = seen
      BY <1>1
    <3>. QED  BY <1>1, <2>1, <2>4, <3>2, <3>3, <3>4, <3>5, EndsKeeps
  <2>6. CASE wire' = wire /\ conn' = (IF Gone THEN conn ELSE "eof") /\ Enc(call, p.value) = Err
    BY <2>1, <2>3, <2>6, EmptyEndKeeps
  <2>. QED  BY <2>1, <2>5, <2>6, WriteResultIs
<1>4. p.kind \in {"value", "error"}
  BY DEF IsItem, Value, Failure
<1>. QED  BY <1>2, <1>3, <1>4

\* The next item of a stream waits to be sent.
LEMMA RespondNext ==
    ASSUME NotAFunction(Nil), Inv, server \in {"before", "handler"}, Streaming(call), raised = Nil,
           NEW p, IsItem(p), Respond(p),
           UNCHANGED <<call, writer, seen, started>>, UNCHANGED clientVars,
           depth' \in 0 .. Interceptors,
           p.kind = "value" => server = "before" \/ Len(produced) < MaxEvents
    PROVE  Inv'
<1>. DEFINE new == Append(produced, p.value)
<1>1. /\ server' = "offer" /\ item' = p /\ wire' = wire /\ conn' = conn
      /\ p.kind = "value" => raised' = raised /\ produced' = new
      /\ p.kind = "error" => raised' = p.error /\ produced' = produced
  BY DEF Respond
<1>2. /\ p.kind \in {"value", "error"}
      /\ p.kind = "error" => IsError(p.error) /\ p.error # Nil
  <2>1. p.kind \in {"value", "error"} /\ (p.kind = "error" => IsError(p.error))
    BY DEF IsItem, Value, Failure
  <2>. QED  BY <2>1 DEF IsError, NotAFunction
<1>3. /\ IsSequence(produced) /\ Len(produced) \in Nat /\ DOMAIN produced = 1 .. Len(produced)
      /\ IsSequence(got) /\ Len(got) \in Nat /\ DOMAIN got = 1 .. Len(got)
      /\ IsSequence(wire) /\ Len(wire) \in Nat /\ DOMAIN wire = 1 .. Len(wire)
  BY SequenceIs DEF Inv, Types
<1>4. /\ IsSequence(new) /\ Len(new) = Len(produced) + 1 /\ new[Len(new)] = p.value
      /\ \A i \in 1 .. Len(produced) : new[i] = produced[i]
  BY <1>3, AppendIs
<1>5. MaxEvents \in Nat
  BY CallsAssumption
<1>. HIDE DEF new
<1>6. /\ IsSequence(produced') /\ Len(produced') = Len(produced) + Pending'
      /\ Pending' \in {0, 1} /\ Pending = 0 /\ Len(produced) <= Len(produced')
      /\ \A i \in 1 .. Len(produced) : produced'[i] = produced[i]
      /\ p.kind = "value" => produced' # <<>> /\ produced'[Len(produced')] = p.value
  <2>1. CASE p.kind = "value"
    BY <1>1, <1>3, <1>4, <2>1, EmptyIs DEF Pending
  <2>2. CASE p.kind = "error"
    BY <1>1, <1>3, <2>2 DEF Pending
  <2>. QED  BY <1>2, <2>1, <2>2
<1>7. /\ Len(produced) <= MaxEvents
      /\ p.kind = "value" => Len(produced') <= MaxEvents + 1 /\ (seen # Nil => Len(produced') <= MaxEvents)
  <2>1. CASE server = "before"
    <3>1. produced = <<>> /\ seen = Nil
      BY <2>1 DEF Inv, Phase, Fresh
    <3>2. Len(produced) = 0
      BY <3>1, EmptyIs
    <3>3. p.kind = "value" => Len(produced') = 1
      BY <1>1, <1>4, <3>2
    <3>. QED  BY <1>5, <3>1, <3>2, <3>3
  <2>2. CASE server = "handler"
    BY <1>1, <1>3, <1>4, <1>5, <2>2 DEF Inv, Offer
  <2>. QED  BY <2>1, <2>2
<1>. USE DEF clientVars
<1>8. Types'
  BY <1>1, <1>6 DEF Inv, Types, Live
<1>9. Phase'
  BY <1>1, <1>2 DEF Inv, Phase, Fresh, HTTPCall, Over
<1>10. Offer'
  BY <1>1, <1>2, <1>3, <1>5, <1>6, <1>7 DEF Offer
<1>11. Connection'
  BY <1>1 DEF Inv, Connection, Gone, Over, HTTPCall
<1>12. Unary'
  BY DEF Unary
<1>13. OnTheWire'
  <2>1. ASSUME Live, NEW j \in DOMAIN wire
        PROVE  /\ wire[j].kind = "value" /\ Len(got) + j <= Len(produced)
               /\ Enc(call, produced[Len(got) + j]) # Err
               /\ wire[j].value = Enc(call, produced[Len(got) + j])
               /\ produced'[Len(got) + j] = produced[Len(got) + j]
               /\ Len(got) + j <= Len(produced')
    <3>1. /\ wire[j].kind = "value" /\ Len(got) + j <= Len(produced)
          /\ Enc(call, produced[Len(got) + j]) # Err
          /\ wire[j].value = Enc(call, produced[Len(got) + j])
      BY <2>1 DEF Inv, OnTheWire, Over
    <3>2. j \in 1 .. Len(wire)
      BY <1>3
    <3>3. Len(got) + j \in 1 .. Len(produced)
      BY <1>3, <3>1, <3>2
    <3>4. Len(produced') \in Nat
      BY <1>6, SequenceIs
    <3>. QED  BY <1>3, <1>6, <3>1, <3>3, <3>4
  <2>. QED  BY <1>1, <2>1 DEF OnTheWire, Live
<1>14. GotDecoded'
  <2>1. ASSUME NEW i \in DOMAIN got
        PROVE  i <= Len(produced') /\ produced'[i] = produced[i]
    <3>1. i <= Len(produced) /\ i \in 1 .. Len(got)
      BY <1>3 DEF Inv, GotDecoded
    <3>2. i \in 1 .. Len(produced)
      BY <1>3, <3>1
    <3>. QED  BY <1>3, <1>6, <3>1, <3>2
  <2>. QED  BY <1>1, <2>1 DEF Inv, GotDecoded
<1>15. Complete' /\ WireBound'
  <2>1. Live' = Live /\ Gone' = Gone /\ conn # "eof"
    BY <1>1 DEF Inv, Live, Gone, Connection, Over
  <2>2. Len(produced') - Pending' = Len(produced) - Pending
    BY <1>3, <1>6
  <2>. QED  BY <1>1, <2>1, <2>2 DEF Inv, Complete, WireBound, Over
<1>16. Answered'
  <2>1. answer # Nil => answer.kind # "value" /\ answer.kind # "end"
    BY DEF Inv, Answered, AnswerIsResult, AnswerIsEnd
  <2>2. ASSUME answer # Nil, answer.kind = "error"
        PROVE  AnswerIsError'
    <3>1. conn = "broken" \/ /\ Len(got) < Len(produced)
                             /\ Enc(call, produced[Len(got) + 1]) # Err
                             /\ Dec(call, Enc(call, produced[Len(got) + 1])) = Err
      BY <2>2 DEF Inv, Answered, AnswerIsError, Over
    <3>2. CASE conn = "broken"
      BY <1>1, <3>2 DEF AnswerIsError
    <3>3. CASE Len(got) < Len(produced)
      <4>1. produced'[Len(got) + 1] = produced[Len(got) + 1] /\ Len(got) < Len(produced')
        BY <1>3, <1>6, <3>3
      <4>. QED  BY <1>1, <3>1, <3>3, <4>1 DEF AnswerIsError
    <3>. QED  BY <3>1, <3>2, <3>3
  <2>. QED  BY <2>1, <2>2 DEF Answered
<1>. QED  BY <1>8, <1>9, <1>10, <1>11, <1>12, <1>13, <1>14, <1>15, <1>16 DEF Inv

\* What comes back through the interceptors: the handler's result, or an error.
LEMMA AfterIs ==
    ASSUME NEW n, NEW q, IsItem(q), NEW p \in After(n, q)
    PROVE  IsItem(p) /\ (p.kind = "value" => p = q)
<1>. DEFINE clean == IF q.kind = "error" /\ call.sanitizes
                     THEN Failure(Sanitized(q.error, q.error.details # Nil \/ q.error.typed # <<>>))
                     ELSE q
<1>1. p = clean \/ \E e \in InterceptErrors : p = Failure(e)
  BY DEF After
<1>2. CASE \E e \in InterceptErrors : p = Failure(e)
  <2>1. PICK e \in InterceptErrors : p = Failure(e)
    BY <1>2
  <2>2. IsError(e)
    BY CallsAssumption
  <2>. QED  BY <2>1, <2>2, ValuesAre DEF Failure
<1>3. CASE p = clean
  <2>1. CASE q.kind = "error"
    <3>1. IsError(q.error)
      BY <2>1 DEF IsItem, Value, Failure
    <3>2. \A w : IsItem(Failure(Sanitized(q.error, w)))
      BY <3>1, SanitizedIs, ValuesAre
    <3>. QED  BY <1>3, <2>1, <3>2 DEF Failure
  <2>2. CASE q.kind # "error"
    BY <1>3, <2>2
  <2>. QED  BY <2>1, <2>2
<1>. QED  BY <1>1, <1>2, <1>3

\* An answer of the handler or of an interceptor, in the interceptors.
LEMMA RespondKeeps ==
    ASSUME NotAFunction(Nil), Inv, server \in {"before", "handler"}, raised = Nil,
           NEW n, NEW q, IsItem(q), NEW p \in After(n, q), Respond(p),
           UNCHANGED <<call, writer, seen, started>>, UNCHANGED clientVars,
           depth' \in 0 .. Interceptors,
           Streaming(call) /\ q.kind = "value" => server = "before" \/ Len(produced) < MaxEvents
    PROVE  Inv'
<1>1. IsItem(p) /\ (p.kind = "value" => p = q)
  BY AfterIs
<1>2. CASE Streaming(call)
  BY <1>1, <1>2, RespondNext
<1>3. CASE ~Streaming(call)
  BY <1>1, <1>3, RespondOnce
<1>. QED  BY <1>2, <1>3

\* Before: an interceptor passes the request on or answers it.
LEMMA BeforeKeeps ==
    ASSUME NotAFunction(Nil), Inv, Before
    PROVE  Inv'
<1>1. /\ server = "before" /\ depth < Interceptors /\ depth' = depth + 1
      /\ UNCHANGED <<call, request, writer, started, seen>> /\ UNCHANGED clientVars
  BY DEF Before
<1>2. depth' \in 0 .. Interceptors
  <2>1. depth \in 0 .. Interceptors /\ Interceptors \in Nat
    BY CallsAssumption DEF Inv, Types
  <2>. QED  BY <1>1, <2>1
<1>3. raised = Nil
  BY <1>1 DEF Inv, Phase, Fresh
<1>4. CASE UNCHANGED <<server, item, wire, conn, raised, produced>>
  <2>. USE <1>1, <1>4 DEF Inv, clientVars
  <2>1. Types'
    BY <1>2 DEF Types, Live
  <2>2. Phase' /\ Offer' /\ Connection'
    BY DEF Phase, Fresh, HTTPCall, Over, Offer, Connection, Gone
  <2>3. Unary' /\ OnTheWire' /\ GotDecoded'
    BY DEF Unary, OnTheWire, GotDecoded, Live, Over
  <2>4. Complete' /\ WireBound'
    BY DEF Complete, WireBound, Live, Over, Pending, Gone
  <2>5. Answered'
    BY DEF Answered, AnswerIsResult, AnswerIsEnd, AnswerIsError, Over
  <2>. QED  BY <2>1, <2>2, <2>3, <2>4, <2>5
<1>5. ASSUME NEW q \in {Failure(e) : e \in InterceptErrors} \cup
                       {Value(v) : v \in IF Sends(call.method) THEN SendResults ELSE {}},
             NEW p \in After(depth + 1, q), Respond(p)
      PROVE  Inv'
  <2>1. IsItem(q)
    BY CallsAssumption, ValuesAre
  <2>. QED  BY <1>1, <1>2, <1>3, <1>5, <2>1, RespondKeeps
<1>. QED  BY <1>4, <1>5 DEF Before

\* What the default handler returns is a result or an error of its own.
LEMMA HandlerYields ==
    ASSUME call \in Settings, ~Streaming(call), NEW r, NEW q \in Handle(call, r)
    PROVE  IsItem(q)
<1>. DEFINE own == {"InvalidParams", "TaskNotFound", "PushNotificationNotSupported",
                    "ExtendedCardNotConfigured"}
            Fails == (\E e \in call.failures : q = Failure(e)) \/ (\E s \in own : q = Failure(NewError(s)))
            Succeeds == \E v : q = Value(v)
<1>1. Method(call) \in Methods \ StreamMethods
  <2>1. call.method \in Methods
    BY CallsAssumption DEF IsSetting
  <2>. QED  BY <2>1 DEF Method, Streaming, Methods
<1>2. ASSUME NEW task, NEW x, q \in checkPushNotificationConfigs(call, task, x)
      PROVE  Succeeds \/ Fails
  BY <1>2 DEF checkPushNotificationConfigs
<1>3. Succeeds \/ Fails
  <2>1. CASE Method(call) = "GetTask"
    <3>1. q \in GetTask(r)
      BY <2>1 DEF Handle
    <3>. QED  BY <3>1 DEF GetTask
  <2>2. CASE Method(call) = "ListTasks"
    <3>1. q \in ListTasks(r)
      BY <2>2 DEF Handle
    <3>. QED  BY <3>1 DEF ListTasks
  <2>3. CASE Method(call) = "CancelTask"
    <3>1. q \in CancelTask(r)
      BY <2>3 DEF Handle
    <3>. QED  BY <3>1 DEF CancelTask
  <2>4. CASE Method(call) = "SendMessage"
    <3>1. q \in SendMessage(r)
      BY <2>4 DEF Handle
    <3>. QED  BY <3>1 DEF SendMessage
  <2>5. CASE Method(call) \in {"CreateTaskPushConfig", "GetTaskPushConfig", "ListTaskPushConfigs",
                            "DeleteTaskPushConfig"}
    <3>. HIDE DEF Succeeds, Fails
    <3>. QED  BY <1>2, <2>5 DEF Handle, CreateTaskPushConfig, GetTaskPushConfig, ListTaskPushConfigs,
                                DeleteTaskPushConfig
  <2>6. CASE Method(call) = "GetExtendedAgentCard"
    <3>1. q \in GetExtendedAgentCard
      BY <2>6 DEF Handle
    <3>. QED  BY <3>1 DEF GetExtendedAgentCard
  <2>. QED  BY <1>1, <2>1, <2>2, <2>3, <2>4, <2>5, <2>6 DEF Methods, StreamMethods
<1>4. CASE Fails
  <2>1. \A e \in call.failures : IsError(e)
    BY CallsAssumption DEF IsSetting
  <2>2. \A s \in own : IsError(NewError(s))
    <3>1. \A s \in own : s \in Sentinels
      BY DEF Sentinels
    <3>. QED  BY <3>1, NewErrorIs
  <2>. QED  BY <1>4, <2>1, <2>2, ValuesAre
<1>5. CASE Succeeds
  BY <1>5, ValuesAre
<1>. QED  BY <1>3, <1>4, <1>5

\* HandleCall: one result, written and over.
LEMMA HandleCallKeeps ==
    ASSUME NotAFunction(Nil), Inv, HandleCall
    PROVE  Inv'
<1>1. /\ server = "handler" /\ ~Streaming(call)
      /\ UNCHANGED <<call, request, writer, started, depth, seen>> /\ UNCHANGED clientVars
  BY DEF HandleCall
<1>2. PICK q \in Handle(call, seen) : \E p \in After(Interceptors, q) : Respond(p)
  BY DEF HandleCall
<1>3. PICK p \in After(Interceptors, q) : Respond(p)
  BY <1>2
<1>4. IsItem(q)
  BY <1>1, HandlerYields DEF Inv, Types
<1>5. raised = Nil /\ depth' \in 0 .. Interceptors
  BY <1>1 DEF Inv, Types, Phase
<1>. QED  BY <1>1, <1>3, <1>4, <1>5, RespondKeeps

\* What a stream fails with is an error with its fields.
LEMMA StreamErrorsAre ==
    ASSUME call \in Settings, NEW r, NEW e \in StreamErrors(call, r)
    PROVE  IsError(e)
<1>1. \A f \in call.failures : IsError(f)
  BY CallsAssumption DEF IsSetting
<1>2. \A s \in {"InvalidParams", "TaskNotFound", "UnsupportedOperation"} : IsError(NewError(s))
  <2>1. \A s \in {"InvalidParams", "TaskNotFound", "UnsupportedOperation"} : s \in Sentinels
    BY DEF Sentinels
  <2>. QED  BY <2>1, NewErrorIs
<1>. HIDE DEF IsError
<1>. QED  BY <1>1, <1>2 DEF StreamErrors

\* StreamEvent: an event or an error waits to be sent.
LEMMA StreamEventKeeps ==
    ASSUME NotAFunction(Nil), Inv, StreamEvent
    PROVE  Inv'
<1>1. /\ server = "handler" /\ Streaming(call) /\ raised = Nil
      /\ UNCHANGED <<call, request, writer, started, depth, seen>> /\ UNCHANGED clientVars
  BY DEF StreamEvent
<1>2. PICK q \in {Failure(e) : e \in StreamErrors(call, seen)} \cup
                 {Value(v) : v \in IF Len(produced) < MaxEvents
                                   THEN StreamValues(call, seen) ELSE {}} :
          \E p \in After(Interceptors, q) : Respond(p)
  BY DEF StreamEvent
<1>3. PICK p \in After(Interceptors, q) : Respond(p)
  BY <1>2
<1>4. \A e \in StreamErrors(call, seen) : IsError(e)
  BY StreamErrorsAre DEF Inv, Types
<1>5. IsItem(q) /\ (q.kind = "value" => Len(produced) < MaxEvents)
  BY <1>4, ValuesAre DEF Failure
<1>6. depth' \in 0 .. Interceptors
  BY <1>1 DEF Inv, Types
<1>. QED  BY <1>1, <1>3, <1>5, <1>6, RespondKeeps

-----------------------------------------------------------------------------
(***************************************************************************)
(* The steps of a stream's two goroutines.                                 *)
(***************************************************************************)
\* While the server is not done, an answer is the client's own doing.
LEMMA AnsweredBefore ==
    ASSUME Inv, ~Over, server # "idle",
           UNCHANGED <<call, produced>>, UNCHANGED clientVars,
           conn = "broken" => conn' = "broken"
    PROVE  Answered'
<1>. USE DEF Inv, clientVars
<1>1. answer # Nil => answer.kind # "value" /\ answer.kind # "end"
  BY DEF Answered, AnswerIsResult, AnswerIsEnd, Over
<1>2. answer # Nil /\ answer.kind = "error" => AnswerIsError'
  BY DEF Answered, AnswerIsError, Over
<1>. QED  BY <1>1, <1>2 DEF Answered

\* Until it is, there is no error on the wire.
LEMMA NoErrorBefore ==
    ASSUME Inv, ~Over, Live, Streaming(call), ~Gone
    PROVE  Len(got) + Len(wire) = Len(produced) - Pending
<1>1. wire = <<>> \/ wire[Len(wire)].kind = "value"
  <2>1. IsSequence(wire)
    BY DEF Inv, Types
  <2>2. wire # <<>> => Len(wire) \in DOMAIN wire
    BY <2>1, SequenceIs
  <2>. QED  BY <2>2 DEF Inv, OnTheWire
<1>. QED  BY <1>1 DEF Inv, Complete

\* StreamEnd: the producer is done.
LEMMA StreamEndKeeps ==
    ASSUME Inv, StreamEnd
    PROVE  Inv'
<1>1. /\ server = "handler" /\ Streaming(call) /\ server' = "ended"
      /\ conn' \in {conn, "eof"} /\ (Gone => conn' = conn)
      /\ conn' # conn => writer = "none"
      /\ UNCHANGED <<call, request, wire, writer, started, item, depth, seen, raised, produced>>
      /\ UNCHANGED clientVars
  BY DEF StreamEnd, Ended
<1>2. raised = Nil /\ conn # "eof" /\ Pending = 0 /\ ~Over
  BY <1>1 DEF Inv, Phase, Connection, Over, Pending
<1>. USE <1>1, <1>2 DEF clientVars
<1>3. Types'
  BY DEF Inv, Types, Live
<1>4. Phase' /\ Offer'
  BY DEF Inv, Phase, Fresh, HTTPCall, Over, Offer
<1>5. Connection'
  BY DEF Inv, Connection, Gone, Over, HTTPCall
<1>6. Unary' /\ OnTheWire' /\ GotDecoded'
  BY DEF Inv, Unary, OnTheWire, GotDecoded, Live, Over
<1>7. Complete'
  <2>1. Gone' = Gone \/ conn' = "eof"
    BY DEF Gone
  <2>. QED  BY <2>1 DEF Inv, Complete, Live, Gone, Pending
<1>8. WireBound'
  BY DEF Inv, WireBound, Over
<1>9. Answered'
  BY AnsweredBefore DEF Gone
<1>. QED  BY <1>3, <1>4, <1>5, <1>6, <1>7, <1>8, <1>9 DEF Inv

\* Panic: the handler panics.
LEMMA PanicKeeps ==
    ASSUME NotAFunction(Nil), Inv, Panic
    PROVE  Inv'
<1>1. /\ server = "handler" /\ raised = Nil /\ Pending = 0 /\ conn # "eof" /\ ~Over
      /\ UNCHANGED <<call, request, writer, started, item, depth, seen, produced>>
      /\ UNCHANGED clientVars
  BY DEF Panic, PanicIn, Inv, Phase, Pending, Connection, Over
<1>2. CASE writer # "none" /\ server' = "panicked" /\ UNCHANGED <<wire, conn, raised>>
  <2>. USE <1>1, <1>2 DEF clientVars
  <2>1. Types'
    BY DEF Inv, Types, Live
  <2>2. Phase' /\ Offer'
    BY DEF Inv, Phase, Fresh, HTTPCall, Over, Offer
  <2>3. Connection'
    BY DEF Inv, Connection, Gone, Over, HTTPCall
  <2>4. Unary' /\ OnTheWire' /\ GotDecoded'
    BY DEF Inv, Unary, OnTheWire, GotDecoded, Live, Over
  <2>5. Complete' /\ WireBound'
    BY DEF Inv, Complete, WireBound, Live, Gone, Pending, Over
  <2>6. Answered'
    BY AnsweredBefore
  <2>. QED  BY <2>1, <2>2, <2>3, <2>4, <2>5, <2>6 DEF Inv
<1>3. CASE /\ writer = "none" /\ call.binding \in {"rpc1", "rpc0"}
           /\ server' = "ended" /\ raised' = NewError("InternalError")
           /\ WriteError(NewError("InternalError"))
  <2>1. ~Streaming(call)
    BY <1>1, <1>3 DEF Inv, Phase, HTTPCall, HTTP, Bindings, Over
  <2>2. wire = <<>> /\ got = <<>> /\ produced = <<>> /\ produced' = <<>>
    BY <1>1, <2>1 DEF Inv, Unary
  <2>3. IsError(NewError("InternalError"))
    <3>1. "InternalError" \in Sentinels
      BY DEF Sentinels
    <3>. QED  BY <3>1, NewErrorIs
  <2>4. PICK f : Ends(f) /\ IsErrorFrame(f, NewError("InternalError"))
    BY <1>3, WriteErrorIs
  <2>5. NewError("InternalError") # Nil
    BY DEF NewError, NotAFunction
  <2>6. f.kind = "error" /\ ErrorFrame(call, raised', produced', f)
    BY <1>3, <2>1, <2>4, <2>5 DEF ErrorFrame, IsErrorFrame
  <2>7. /\ server \notin {"idle", "ended", "dead"} /\ writer' = "none" /\ seen' = seen
        /\ depth' \in 0 .. Interceptors
    BY <1>1, <1>3 DEF Inv, Types
  <2>. QED  BY <1>1, <1>3, <2>2, <2>3, <2>4, <2>6, <2>7, EndsKeeps
<1>4. CASE /\ writer = "none" /\ server' = "ended" /\ conn' = (IF Gone THEN conn ELSE "broken")
           /\ UNCHANGED <<wire, raised>>
  <2>. USE <1>1, <1>4 DEF clientVars
  <2>1. Types'
    BY DEF Inv, Types, Live, Gone
  <2>2. Phase' /\ Offer'
    BY DEF Inv, Phase, Fresh, HTTPCall, Over, Offer, Gone
  <2>3. Connection'
    BY DEF Inv, Connection, Gone, Over, HTTPCall
  <2>4. Unary'
    <3>1. produced = <<>> => Len(produced) = 0
      BY EmptyIs
    <3>. QED  BY <3>1 DEF Inv, Unary, Gone
  <2>5. OnTheWire' /\ GotDecoded'
    BY DEF Inv, OnTheWire, GotDecoded, Live, Over
  <2>6. Complete' /\ WireBound'
    BY DEF Inv, Complete, WireBound, Live, Gone, Pending, Over
  <2>7. Answered'
    BY AnsweredBefore DEF Gone
  <2>. QED  BY <2>1, <2>2, <2>3, <2>4, <2>5, <2>6, <2>7 DEF Inv
<1>. QED  BY <1>2, <1>3, <1>4 DEF Panic, PanicIn

\* ReceivePanic: the conversion of the request does.
LEMMA ReceivePanicKeeps ==
    ASSUME NotAFunction(Nil), Inv, ReceivePanic
    PROVE  Inv'
<1>1. /\ server = "received" /\ Fresh /\ writer = "none" /\ client # "start"
      /\ UNCHANGED <<call, item, depth, seen, produced>> /\ UNCHANGED clientVars
      /\ writer' = StartStream /\ started' = StartHeaders
  BY DEF ReceivePanic, Inv, Phase
<1>2. /\ StartStream = IF Streaming(call) /\ HTTPCall THEN "select" ELSE "none"
      /\ StartHeaders \in BOOLEAN /\ (~Streaming(call) => StartHeaders = FALSE)
      /\ HTTPCall
  BY DEF StartStream, StartHeaders, ReceivePanic, MessageMissing, HTTPCall, HTTP, Bindings
<1>3. CASE Streaming(call)
  <2>1. writer' = "select" /\ server' = "panicked" /\ UNCHANGED <<wire, conn, raised>>
    BY <1>1, <1>2, <1>3 DEF ReceivePanic, PanicIn
  <2>2. MaxEvents \in Nat
    BY CallsAssumption
  <2>. USE <1>1, <1>2, <1>3, <2>1 DEF clientVars, Fresh
  <2>3. Types'
    BY DEF Inv, Types, Live
  <2>4. Phase'
    BY DEF Inv, Phase, HTTPCall, Over
  <2>5. Offer'
    BY <2>2, EmptyIs DEF Inv, Offer
  <2>6. Connection'
    BY DEF Inv, Connection, Gone, Over, HTTPCall
  <2>7. Unary' /\ OnTheWire' /\ GotDecoded'
    BY DEF Inv, Unary, OnTheWire, GotDecoded, Live, Over
  <2>8. Complete' /\ WireBound'
    BY <2>2, EmptyIs DEF Inv, Complete, WireBound, Live, Gone, Pending, Over
  <2>9. Answered'
    BY EmptyIs DEF Inv, Answered, AnswerIsResult, AnswerIsEnd, AnswerIsError, Over
  <2>. QED  BY <2>3, <2>4, <2>5, <2>6, <2>7, <2>8, <2>9 DEF Inv
<1>4. CASE ~Streaming(call) /\ server' = "ended" /\ raised' = NewError("InternalError")
           /\ WriteError(NewError("InternalError"))
  <2>1. IsError(NewError("InternalError"))
    <3>1. "InternalError" \in Sentinels
      BY DEF Sentinels
    <3>. QED  BY <3>1, NewErrorIs
  <2>2. PICK f : Ends(f) /\ IsErrorFrame(f, NewError("InternalError"))
    BY <1>4, WriteErrorIs
  <2>3. NewError("InternalError") # Nil
    BY DEF NewError, NotAFunction
  <2>4. /\ f.kind = "error" /\ Ends(f)
        /\ ErrorFrame(call, raised', produced', f)
        /\ raised' # Nil => IsError(raised')
    BY <1>1, <1>4, <2>1, <2>2, <2>3 DEF ErrorFrame, IsErrorFrame
  <2>5. /\ server \notin {"idle", "ended", "dead"} /\ writer' = "none" /\ seen' = seen
        /\ depth' \in 0 .. Interceptors /\ started' \in {started, FALSE}
        /\ wire = <<>> /\ got = <<>> /\ produced = <<>> /\ produced' = <<>>
        /\ server' = "ended" /\ UNCHANGED call /\ UNCHANGED clientVars
    BY <1>1, <1>2, <1>4 DEF Inv, Types, Fresh
  <2>. QED  BY <1>1, <2>4, <2>5, EndsKeeps
<1>5. CASE /\ ~Streaming(call) /\ server' = "ended" /\ conn' = (IF Gone THEN conn ELSE "broken")
           /\ UNCHANGED <<wire, raised>>
  <2>1. MaxEvents \in Nat
    BY CallsAssumption
  <2>. USE <1>1, <1>2, <1>5 DEF clientVars, Fresh
  <2>2. Types'
    BY DEF Inv, Types, Live, Gone
  <2>3. Phase'
    BY DEF Inv, Phase, HTTPCall, Over, Gone
  <2>4. Offer'
    BY <2>1, EmptyIs DEF Inv, Offer, Gone
  <2>5. Connection'
    BY DEF Inv, Connection, Gone, Over, HTTPCall
  <2>6. Unary'
    BY EmptyIs DEF Inv, Unary, Gone
  <2>7. OnTheWire' /\ GotDecoded'
    BY DEF Inv, OnTheWire, GotDecoded, Live, Over
  <2>8. Complete' /\ WireBound'
    BY <2>1, EmptyIs DEF Inv, Complete, WireBound, Live, Gone, Pending, Over
  <2>9. Answered'
    BY EmptyIs DEF Inv, Answered, AnswerIsResult, AnswerIsEnd, AnswerIsError, Over, Gone
  <2>. QED  BY <2>2, <2>3, <2>4, <2>5, <2>6, <2>7, <2>8, <2>9 DEF Inv
<1>. QED  BY <1>2, <1>3, <1>4, <1>5 DEF ReceivePanic, PanicIn

\* A stream that is gone: its handler stops.
LEMMA DroppedKeeps ==
    ASSUME Inv, server = "offer", Gone, server' = "ended",
           UNCHANGED <<call, wire, conn, writer, started, depth, seen, raised, produced>>,
           UNCHANGED clientVars
    PROVE  Inv'
<1>1. conn # "eof" /\ ~Over
  BY DEF Inv, Connection, Over
<1>. USE <1>1 DEF clientVars
<1>2. Types'
  BY DEF Inv, Types, Live
<1>3. Phase' /\ Offer'
  BY DEF Inv, Phase, Fresh, HTTPCall, Over, Offer, Gone
<1>4. Connection'
  BY DEF Inv, Connection, Gone, Over, HTTPCall
<1>5. Unary' /\ OnTheWire' /\ GotDecoded'
  BY DEF Inv, Unary, OnTheWire, GotDecoded, Live, Over
<1>6. Complete' /\ WireBound'
  BY DEF Inv, Complete, WireBound, Live, Gone, Pending, Over
<1>7. Answered'
  BY AnsweredBefore
<1>. QED  BY <1>2, <1>3, <1>4, <1>5, <1>6, <1>7 DEF Inv

\* A stream ends with an error of the goroutine that writes it.
LEMMA SendErrorKeeps ==
    ASSUME Inv, server \in {"offer", "panicked"}, server' \in {"ended", "dead"},
           server' = "dead" => writer # "none",
           NEW f, f.kind = "error", ErrorFrame(call, raised', produced, f),
           wire' = IF Gone THEN wire ELSE Append(wire, f),
           conn' = (IF Gone THEN conn ELSE "eof") \/ (conn' = conn /\ server' = "dead"),
           conn' = "eof" => writer' # "select",
           writer' \in {writer, "ended"}, writer = "none" => writer' = "none",
           server' = "ended" => writer' # "select",
           raised' # Nil => IsError(raised'), started' \in BOOLEAN,
           UNCHANGED <<call, depth, seen, produced>>, UNCHANGED clientVars
    PROVE  Inv'
<1>. DEFINE new == Append(wire, f)
<1>1. conn # "eof" /\ ~Over /\ Streaming(call)
  BY DEF Inv, Phase, Connection, Over
<1>2. /\ IsSequence(wire) /\ Len(wire) \in Nat /\ DOMAIN wire = 1 .. Len(wire)
      /\ IsSequence(produced) /\ Len(produced) \in Nat
  BY SequenceIs DEF Inv, Types
<1>3. /\ IsSequence(new) /\ Len(new) = Len(wire) + 1 /\ new[Len(wire) + 1] = f
      /\ \A i \in 1 .. Len(wire) : new[i] = wire[i]
  BY <1>2, AppendIs
<1>4. wire' = IF Gone THEN wire ELSE new
  OBVIOUS
<1>. HIDE DEF new
<1>5. DOMAIN new = 1 .. Len(wire) + 1 /\ new # <<>>
  BY <1>2, <1>3, SequenceIs
<1>6. MaxEvents \in Nat
  BY CallsAssumption
<1>7. Len(wire) <= MaxEvents
  <2>1. CASE server = "offer"
    <3>1. item.kind \in {"value", "error"}
      BY <2>1 DEF Inv, Phase
    <3>2. CASE item.kind = "value"
      BY <1>1, <1>2, <1>6, <2>1, <3>2 DEF Inv, WireBound, Offer, Pending
    <3>3. CASE item.kind = "error"
      BY <1>1, <1>2, <1>6, <2>1, <3>3 DEF Inv, WireBound, Offer, Pending
    <3>. QED  BY <3>1, <3>2, <3>3
  <2>2. CASE server = "panicked"
    BY <1>1, <1>2, <1>6, <2>2 DEF Inv, WireBound, Offer, Pending
  <2>. QED  BY <2>1, <2>2
<1>. USE <1>1, <1>4 DEF clientVars
<1>8. Types'
  BY <1>3 DEF Inv, Types, Live
<1>9. Phase'
  BY DEF Inv, Phase, HTTPCall, Over
<1>10. Offer'
  BY DEF Inv, Offer
<1>11. Connection'
  BY DEF Inv, Connection, Gone, Over, HTTPCall
<1>12. Unary' /\ GotDecoded'
  BY DEF Inv, Unary, GotDecoded
<1>13. OnTheWire'
  <2>1. CASE Gone
    <3>1. \A j \in DOMAIN wire : Live => wire[j].kind = "value"
      BY DEF Inv, OnTheWire, Over
    <3>. QED  BY <2>1, <3>1 DEF Inv, OnTheWire, Live
  <2>2. CASE ~Gone /\ Live
    <3>1. ASSUME NEW j \in 1 .. Len(wire)
          PROVE  /\ new[j] = wire[j] /\ wire[j].kind = "value" /\ Len(got) + j <= Len(produced)
                 /\ Enc(call, produced[Len(got) + j]) # Err
                 /\ wire[j].value = Enc(call, produced[Len(got) + j])
      BY <1>2, <1>3, <2>2 DEF Inv, OnTheWire, Over
    <3>3. \A j \in DOMAIN new : j \in 1 .. Len(wire) \/ j = Len(wire) + 1
      BY <1>2, <1>5
    <3>. QED  BY <1>3, <2>2, <3>1, <3>3 DEF OnTheWire, Live, Over
  <2>3. CASE ~Live
    BY <2>3 DEF OnTheWire, Live
  <2>. QED  BY <2>1, <2>2, <2>3
<1>14. Complete'
  <2>1. Gone => Gone'
    BY DEF Gone
  <2>. QED  BY <1>3, <1>5, <2>1 DEF Inv, Complete
<1>15. WireBound'
  BY <1>2, <1>3, <1>6, <1>7 DEF WireBound, Over
<1>16. Answered'
  BY AnsweredBefore DEF Gone
<1>. QED  BY <1>8, <1>9, <1>10, <1>11, <1>12, <1>13, <1>14, <1>15, <1>16 DEF Inv

\* An error whose details have no JSON is not written at all.
LEMMA SilentKeeps ==
    ASSUME Inv, server = "offer", item.kind = "error", writer = "select",
           server' = "ended", writer' = "ended", wire' = wire,
           conn' = (IF Gone THEN conn ELSE "eof"), started' \in BOOLEAN,
           raised # Nil => Unsendable(call.binding, raised),
           UNCHANGED <<call, depth, seen, raised, produced>>, UNCHANGED clientVars
    PROVE  Inv'
<1>1. conn # "eof" /\ ~Over /\ Pending = 0 /\ Streaming(call) /\ Pending' = 0
  BY DEF Inv, Phase, Connection, Over, Pending
<1>. USE <1>1 DEF clientVars
<1>2. Types'
  BY DEF Inv, Types, Live, Gone
<1>3. Phase' /\ Offer'
  BY DEF Inv, Phase, Fresh, HTTPCall, Over, Offer
<1>4. Connection'
  BY DEF Inv, Connection, Gone, Over, HTTPCall
<1>5. Unary' /\ OnTheWire' /\ GotDecoded'
  BY DEF Inv, Unary, OnTheWire, GotDecoded, Live, Over
<1>6. Complete'
  <2>1. Gone => Gone'
    BY DEF Gone
  <2>. QED  BY <2>1 DEF Inv, Complete, Live
<1>7. WireBound'
  BY DEF Inv, WireBound, Over
<1>8. Answered'
  BY AnsweredBefore DEF Gone
<1>. QED  BY <1>2, <1>3, <1>4, <1>5, <1>6, <1>7, <1>8 DEF Inv

\* An event of a stream is written, or nothing if the stream is gone.
LEMMA SendValueKeeps ==
    ASSUME Inv, server = "offer", item.kind = "value",
           Enc(call, item.value) # Err,
           NEW f, f.kind = "value", f.value = Enc(call, item.value),
           wire' = IF Gone THEN wire ELSE Append(wire, f),
           server' = Resume,
           conn' = conn \/ (~Gone /\ server' = "ended" /\ writer = "none" /\ conn' = "eof"),
           writer' = writer \/ (Gone /\ writer # "none" /\ writer' = "ended"),
           started' \in BOOLEAN,
           UNCHANGED <<call, depth, seen, raised, produced>>, UNCHANGED clientVars
    PROVE  Inv'
<1>. DEFINE new == Append(wire, f)
<1>1. conn # "eof" /\ ~Over /\ Streaming(call) /\ Pending = 1 /\ Pending' = 0
  BY DEF Inv, Phase, Connection, Over, Pending, Resume
<1>2. /\ IsSequence(wire) /\ Len(wire) \in Nat /\ DOMAIN wire = 1 .. Len(wire)
      /\ IsSequence(produced) /\ Len(produced) \in Nat /\ Len(got) \in Nat
  BY SequenceIs DEF Inv, Types
<1>3. /\ IsSequence(new) /\ Len(new) = Len(wire) + 1 /\ new[Len(wire) + 1] = f
      /\ \A i \in 1 .. Len(wire) : new[i] = wire[i]
  BY <1>2, AppendIs
<1>4. wire' = IF Gone THEN wire ELSE new
  OBVIOUS
<1>. HIDE DEF new
<1>5. DOMAIN new = 1 .. Len(wire) + 1 /\ new # <<>>
  BY <1>2, <1>3, SequenceIs
<1>6. MaxEvents \in Nat
  BY CallsAssumption
<1>7. /\ raised = Nil /\ produced # <<>> /\ item.value = produced[Len(produced)]
      /\ Len(produced) <= MaxEvents + 1 /\ Len(wire) <= Len(produced) - 1
      /\ seen # Nil => Len(produced) <= MaxEvents
  BY <1>1 DEF Inv, Offer, WireBound
<1>8. Live /\ ~Gone => Len(got) + Len(wire) = Len(produced) - 1
  BY <1>1, NoErrorBefore
<1>. USE <1>1, <1>4 DEF clientVars
<1>9. Types'
  BY <1>3 DEF Inv, Types, Live, Resume
<1>10. Phase'
  BY <1>7 DEF Inv, Phase, HTTPCall, Over, Resume, Fresh
<1>11. Offer'
  BY <1>7 DEF Inv, Offer, Resume
<1>12. Connection'
  BY DEF Inv, Connection, Gone, Over, HTTPCall, Resume
<1>13. Unary' /\ GotDecoded'
  BY DEF Inv, Unary, GotDecoded
<1>14. OnTheWire'
  <2>1. CASE Gone
    BY <2>1 DEF Inv, OnTheWire, Live, Over
  <2>2. CASE ~Gone /\ Live
    <3>1. ASSUME NEW j \in 1 .. Len(wire)
          PROVE  /\ new[j] = wire[j] /\ wire[j].kind = "value" /\ Len(got) + j <= Len(produced)
                 /\ Enc(call, produced[Len(got) + j]) # Err
                 /\ wire[j].value = Enc(call, produced[Len(got) + j])
      BY <1>2, <1>3, <2>2 DEF Inv, OnTheWire, Over
    <3>2. Len(got) + (Len(wire) + 1) = Len(produced)
      BY <1>2, <1>8, <2>2
    <3>3. \A j \in DOMAIN new : j \in 1 .. Len(wire) \/ j = Len(wire) + 1
      BY <1>2, <1>5
    <3>4. ASSUME NEW j \in DOMAIN new
          PROVE  /\ new[j].kind = "value" /\ Len(got) + j <= Len(produced)
                 /\ Enc(call, produced[Len(got) + j]) # Err
                 /\ new[j].value = Enc(call, produced[Len(got) + j])
      <4>1. CASE j \in 1 .. Len(wire)
        BY <3>1, <4>1
      <4>2. CASE j = Len(wire) + 1
        <5>1. new[j] = f /\ Len(got) + j = Len(produced)
          BY <1>3, <3>2, <4>2
        <5>. QED  BY <1>2, <1>7, <5>1
      <4>. QED  BY <3>3, <4>1, <4>2
    <3>. QED  BY <2>2, <3>4 DEF OnTheWire, Live
  <2>3. CASE ~Live
    BY <2>3 DEF OnTheWire, Live
  <2>. QED  BY <2>1, <2>2, <2>3
<1>15. Complete'
  <2>1. Gone => Gone'
    BY DEF Gone
  <2>2. Live /\ ~Gone => Len(got) + Len(new) = Len(produced)
    BY <1>2, <1>3, <1>8
  <2>3. server' # "dead"
    BY DEF Resume
  <2>. QED  BY <1>2, <1>7, <2>1, <2>2, <2>3 DEF Complete, Live
<1>16. WireBound'
  BY <1>2, <1>3, <1>6, <1>7 DEF WireBound
<1>17. Answered'
  BY AnsweredBefore DEF Gone
<1>. QED  BY <1>9, <1>10, <1>11, <1>12, <1>13, <1>14, <1>15, <1>16, <1>17 DEF Inv

\* grpcSend: the handler of a gRPC stream sends its item.
LEMMA grpcSendKeeps ==
    ASSUME Inv, grpcSend
    PROVE  Inv'
<1>1. /\ server = "offer" /\ writer = "none"
      /\ UNCHANGED <<call, request, writer, started, depth, seen, raised, produced>>
      /\ UNCHANGED clientVars
  BY DEF grpcSend
<1>2. /\ Streaming(call) /\ item.kind \in {"value", "error"} /\ started' \in BOOLEAN
      /\ raised # Nil => IsError(raised) /\ item.kind = "error" /\ raised = item.error
      /\ raised = Nil /\ item.kind = "error" => Decoded(call) = Err /\ produced = <<>>
      /\ item.kind = "value" => produced # <<>> /\ item.value = produced[Len(produced)]
  BY <1>1 DEF Inv, Phase, Offer, Types
<1>3. call.binding # "rest0"
  BY <1>1, <1>2 DEF Inv, Phase, HTTPCall, HTTP, Bindings, Over
<1>4. ASSUME NEW f, Ends(f), f.kind = "error", server' = "ended", ErrorFrame(call, raised, produced, f)
      PROVE  Inv'
  <2>1. /\ wire' = IF Gone THEN wire ELSE Append(wire, f)
        /\ conn' = IF Gone THEN conn ELSE "eof"
    BY <1>4 DEF Ends
  <2>2. writer' = "none" /\ writer = "none" /\ raised' = raised
    BY <1>1
  <2>. QED  BY <1>1, <1>2, <1>4, <2>1, <2>2, SendErrorKeeps
<1>5. CASE item.kind = "error" /\ WriteError(item.error) /\ server' = "ended"
  <2>1. PICK f : Ends(f) /\ IsErrorFrame(f, item.error)
    BY <1>5, WriteErrorIs
  <2>2. f.kind = "error" /\ ErrorFrame(call, raised, produced, f)
    BY <1>2, <1>3, <1>5, <2>1 DEF ErrorFrame, IsErrorFrame
  <2>. QED  BY <1>4, <1>5, <2>1, <2>2
<1>6. CASE item.kind = "value" /\ Enc(call, item.value) = Err /\ WriteStatus("Internal")
           /\ server' = "ended"
  <2>1. PICK f : Ends(f) /\ f.kind = "error" /\ f.plain = TRUE
    BY <1>6, WriteStatusIs
  <2>2. ErrorFrame(call, raised, produced, f)
    BY <1>2, <1>6, <2>1 DEF ErrorFrame
  <2>. QED  BY <1>4, <1>6, <2>1, <2>2
<1>7. CASE Gone /\ server' = "ended" /\ UNCHANGED <<wire, conn>>
  BY <1>1, <1>7, DroppedKeeps
<1>8. CASE /\ item.kind = "value" /\ Enc(call, item.value) # Err /\ ~Gone
           /\ Write([kind |-> "value", value |-> Enc(call, item.value)])
           /\ server' = Resume /\ (IF Resume = "ended" THEN Ended ELSE UNCHANGED conn)
  <2>. DEFINE f == [kind |-> "value", value |-> Enc(call, item.value)]
  <2>1. f.kind = "value" /\ f.value = Enc(call, item.value)
    OBVIOUS
  <2>. HIDE DEF f
  <2>2. wire' = IF Gone THEN wire ELSE Append(wire, f)
    BY <1>8 DEF Write, f
  <2>3. conn' = conn \/ (~Gone /\ server' = "ended" /\ writer = "none" /\ conn' = "eof")
    BY <1>1, <1>8 DEF Ended
  <2>4. writer' = writer
    BY <1>1
  <2>. QED  BY <1>1, <1>2, <1>8, <2>1, <2>2, <2>3, <2>4, SendValueKeeps
<1>9. \/ item.kind = "error" /\ WriteError(item.error) /\ server' = "ended"
      \/ item.kind = "value" /\ Enc(call, item.value) = Err /\ WriteStatus("Internal") /\ server' = "ended"
      \/ Gone /\ server' = "ended" /\ UNCHANGED <<wire, conn>>
      \/ /\ item.kind = "value" /\ Enc(call, item.value) # Err /\ ~Gone
         /\ Write([kind |-> "value", value |-> Enc(call, item.value)])
         /\ server' = Resume /\ (IF Resume = "ended" THEN Ended ELSE UNCHANGED conn)
  BY <1>2 DEF grpcSend, Enc
<1>. QED  BY <1>5, <1>6, <1>7, <1>8, <1>9

\* TakeItem: the writer takes the item of the producer.
LEMMA TakeItemKeeps ==
    ASSUME NotAFunction(Err), Inv, TakeItem
    PROVE  Inv'
<1>. DEFINE e == IF item.kind = "error" THEN item.error ELSE Unclassified
            v == Enc(call, item.value)
<1>1. /\ server = "offer" /\ writer = "select" /\ item.kind \in {"value", "error"}
      /\ UNCHANGED <<call, request, depth, seen, raised, produced>> /\ UNCHANGED clientVars
  BY DEF TakeItem, Inv, Phase
<1>2. /\ Streaming(call) /\ call.binding \in HTTP /\ started \in BOOLEAN
      /\ raised # Nil => IsError(raised) /\ item.kind = "error" /\ raised = item.error
      /\ raised = Nil /\ item.kind = "error" => Decoded(call) = Err /\ produced = <<>>
      /\ item.kind = "value" => produced # <<>> /\ item.value = produced[Len(produced)]
  BY <1>1 DEF Inv, Phase, Offer, Types, HTTPCall
<1>3. \/ /\ item.kind = "error" \/ v = Err
         /\ WriteStreamError(e) /\ writer' = "ended" /\ server' = "ended" /\ Ended
      \/ /\ item.kind = "value" /\ v # Err
         /\ Write([kind |-> "value", value |-> v])
         /\ started' = TRUE /\ writer' = (IF Gone THEN "ended" ELSE writer) /\ server' = Resume
         /\ UNCHANGED conn
  BY <1>1 DEF TakeItem, Enc
<1>4. CASE /\ item.kind = "value" /\ v # Err
           /\ Write([kind |-> "value", value |-> v])
           /\ started' = TRUE /\ writer' = (IF Gone THEN "ended" ELSE writer) /\ server' = Resume
           /\ UNCHANGED conn
  <2>. DEFINE f == [kind |-> "value", value |-> Enc(call, item.value)]
  <2>1. f.kind = "value" /\ f.value = Enc(call, item.value)
    OBVIOUS
  <2>. HIDE DEF f
  <2>2. wire' = IF Gone THEN wire ELSE Append(wire, f)
    BY <1>4 DEF Write, f
  <2>3. writer' = writer \/ (Gone /\ writer # "none" /\ writer' = "ended")
    BY <1>1, <1>4
  <2>4. started' \in BOOLEAN /\ conn' = conn
    BY <1>4
  <2>. QED  BY <1>1, <1>4, <2>1, <2>2, <2>3, <2>4, SendValueKeeps
<1>5. CASE /\ item.kind = "error" \/ v = Err
           /\ WriteStreamError(e) /\ writer' = "ended" /\ server' = "ended" /\ Ended
  <2>1. /\ conn' = IF Gone THEN conn ELSE "eof"
        /\ started' \in BOOLEAN
    BY <1>2, <1>5 DEF Ended, WriteStreamError
  <2>2. PICK w \in SendError(call.binding, e) :
          IF ~started /\ call.binding \in {"rpc1", "rest1"}
          THEN Write([kind |-> "error", error |-> w, plain |-> TRUE])
          ELSE IF w.data = Err THEN UNCHANGED wire
          ELSE Write([kind |-> "error", error |-> w, plain |-> FALSE])
    BY <1>5 DEF WriteStreamError
  <2>. HIDE DEF e
  <2>3. CASE w.data = Err /\ wire' = wire
    <3>1. e = Unclassified => w.data # Err
      BY <1>2, <2>2, SentDetails, UnclassifiedIs, PlainErrorsAreSent
    <3>2. item.kind = "error"
      BY <1>1, <2>3, <3>1 DEF e
    <3>3. raised # Nil => Unsendable(call.binding, raised)
      <4>1. raised # Nil => raised = e /\ IsError(e)
        BY <1>2 DEF e
      <4>. QED  BY <1>2, <2>2, <2>3, <4>1, SentDetails
    <3>. QED  BY <1>1, <1>5, <2>1, <2>3, <3>2, <3>3, SilentKeeps
  <2>4. ASSUME NEW p \in BOOLEAN, Write([kind |-> "error", error |-> w, plain |-> p]),
               p => call.binding \in {"rpc1", "rest1"}, ~p => w.data # Err
        PROVE  Inv'
    <3>. DEFINE f == [kind |-> "error", error |-> w, plain |-> p]
    <3>1. f.kind = "error" /\ f.error = w /\ f.plain = p
      OBVIOUS
    <3>. HIDE DEF f
    <3>2. wire' = IF Gone THEN wire ELSE Append(wire, f)
      BY <2>4 DEF Write, f
    <3>3. ErrorFrame(call, raised', produced, f)
      <4>1. CASE raised # Nil
        BY <1>1, <1>2, <2>2, <2>4, <3>1, <4>1 DEF ErrorFrame, e
      <4>2. CASE raised = Nil
        BY <1>1, <1>2, <1>5, <2>4, <3>1, <4>2 DEF ErrorFrame
      <4>. QED  BY <4>1, <4>2
    <3>4. raised' # Nil => IsError(raised')
      BY <1>1, <1>2
    <3>. QED  BY <1>1, <1>5, <2>1, <3>1, <3>2, <3>3, <3>4, SendErrorKeeps
  <2>5. \/ w.data = Err /\ wire' = wire
        \/ Write([kind |-> "error", error |-> w, plain |-> TRUE]) /\ call.binding \in {"rpc1", "rest1"}
        \/ Write([kind |-> "error", error |-> w, plain |-> FALSE]) /\ w.data # Err
    BY <2>2
  <2>. QED  BY <2>3, <2>4, <2>5
<1>. QED  BY <1>3, <1>4, <1>5

\* TakeClosed: the writer sees the channel closed.
LEMMA TakeClosedKeeps ==
    ASSUME Inv, TakeClosed
    PROVE  Inv'
<1>1. /\ writer = "select" /\ server = "ended" /\ writer' = "ended" /\ started' = TRUE
      /\ conn' = (IF Gone THEN conn ELSE "eof") /\ Streaming(call)
      /\ UNCHANGED <<call, request, wire, server, item, depth, seen, raised, produced>>
      /\ UNCHANGED clientVars
  BY DEF TakeClosed, Ended, Inv, Phase
<1>. USE <1>1 DEF clientVars
<1>2. Types'
  BY DEF Inv, Types, Live, Gone
<1>3. Phase' /\ Offer'
  BY DEF Inv, Phase, Fresh, HTTPCall, Over, Offer
<1>4. Connection'
  BY DEF Inv, Connection, Gone, Over, HTTPCall
<1>5. Unary' /\ OnTheWire' /\ GotDecoded'
  BY DEF Inv, Unary, OnTheWire, GotDecoded, Live, Over
<1>6. Complete'
  <2>1. Gone => Gone'
    BY DEF Gone
  <2>2. raised = Nil \/ Gone
    BY DEF Inv, Offer
  <2>. QED  BY <2>1, <2>2 DEF Inv, Complete, Live, Pending
<1>7. WireBound'
  BY DEF Inv, WireBound, Over
<1>8. Answered'
  <2>1. AnswerIsError => AnswerIsError'
    BY DEF AnswerIsError, Over, Gone
  <2>2. AnswerIsResult => AnswerIsResult'
    BY DEF AnswerIsResult
  <2>3. ~AnswerIsEnd
    BY DEF AnswerIsEnd
  <2>. QED  BY <2>1, <2>2, <2>3 DEF Inv, Answered
<1>. QED  BY <1>2, <1>3, <1>4, <1>5, <1>6, <1>7, <1>8 DEF Inv

\* TakePanic: the writer is told of a panic.
LEMMA TakePanicKeeps ==
    ASSUME NotAFunction(Nil), NotAFunction(Err), Inv, TakePanic
    PROVE  Inv'
<1>. DEFINE e == NewError("InternalError")
<1>1. /\ writer = "select" /\ server = "panicked" /\ raised = Nil /\ server' = "dead"
      /\ Streaming(call) /\ call.binding \in HTTP /\ conn # "eof" /\ ~Over /\ Pending = 0
      /\ started \in BOOLEAN
      /\ UNCHANGED <<call, request, item, depth, seen, produced>> /\ UNCHANGED clientVars
  BY DEF TakePanic, Inv, Phase, Types, HTTPCall, Connection, Over, Pending
<1>2. CASE call.panicHandler
  <2>1. /\ started' = TRUE /\ raised' = e /\ writer' \in {writer, "ended"}
        /\ (conn' = (IF Gone THEN conn ELSE "eof") /\ writer' = "ended") \/ conn' = conn
    BY <1>2 DEF TakePanic, Ended
  <2>2. PICK w \in SendError(call.binding, e) : Write([kind |-> "error", error |-> w, plain |-> FALSE])
    BY <1>2 DEF TakePanic
  <2>3. IsError(e) /\ Details(e) = <<>>
    <3>1. "InternalError" \in Sentinels
      BY DEF Sentinels
    <3>. QED  BY <3>1, NewErrorIs
  <2>4. e # Nil
    BY DEF NewError, NotAFunction
  <2>. DEFINE f == [kind |-> "error", error |-> w, plain |-> FALSE]
  <2>5. f.kind = "error" /\ f.error = w /\ f.plain = FALSE
    OBVIOUS
  <2>. HIDE DEF e, f
  <2>6. wire' = IF Gone THEN wire ELSE Append(wire, f)
    BY <2>2 DEF Write, f
  <2>7. w.data # Err
    BY <1>1, <2>2, <2>3, SentDetails, PlainErrorsAreSent
  <2>8. ErrorFrame(call, raised', produced, f)
    BY <1>1, <2>1, <2>2, <2>4, <2>5, <2>7 DEF ErrorFrame
  <2>9. raised' # Nil => IsError(raised')
    BY <2>1, <2>3
  <2>10. /\ conn' = (IF Gone THEN conn ELSE "eof") \/ (conn' = conn /\ server' = "dead")
         /\ conn' = "eof" => writer' # "select"
    BY <1>1, <2>1
  <2>11. started' \in BOOLEAN
    BY <2>1
  <2>. QED  BY <1>1, <2>1, <2>5, <2>6, <2>8, <2>9, <2>10, <2>11, SendErrorKeeps
<1>3. CASE ~call.panicHandler
  <2>1. /\ writer' = "ended" /\ conn' = (IF Gone THEN conn ELSE "broken")
        /\ UNCHANGED <<wire, started, raised>>
    BY <1>3 DEF TakePanic
  <2>. USE <1>1, <2>1 DEF clientVars
  <2>2. Types'
    BY DEF Inv, Types, Live, Gone
  <2>3. Phase' /\ Offer'
    BY DEF Inv, Phase, Fresh, HTTPCall, Over, Offer
  <2>4. Connection'
    BY DEF Inv, Connection, Gone, Over, HTTPCall
  <2>5. Unary' /\ OnTheWire' /\ GotDecoded'
    BY DEF Inv, Unary, OnTheWire, GotDecoded, Live, Over
  <2>6. Complete' /\ WireBound'
    BY DEF Inv, Complete, WireBound, Live, Gone, Pending, Over
  <2>7. Answered'
    BY AnsweredBefore DEF Gone
  <2>. QED  BY <2>2, <2>3, <2>4, <2>5, <2>6, <2>7 DEF Inv
<1>. QED  BY <1>2, <1>3

\* KeepAlive: the writer starts the response.
LEMMA KeepAliveKeeps ==
    ASSUME Inv, KeepAlive
    PROVE  Inv'
<1>1. /\ started' = TRUE
      /\ UNCHANGED <<call, request, wire, conn, server, writer, item, depth, seen, raised, produced>>
      /\ UNCHANGED clientVars
  BY DEF KeepAlive
<1>. USE <1>1 DEF clientVars
<1>2. Types'
  BY DEF Inv, Types, Live
<1>3. Phase' /\ Offer' /\ Connection'
  BY DEF Inv, Phase, Fresh, HTTPCall, Over, Offer, Connection, Gone
<1>4. Unary' /\ OnTheWire' /\ GotDecoded'
  BY DEF Inv, Unary, OnTheWire, GotDecoded, Live, Over
<1>5. Complete' /\ WireBound'
  BY DEF Inv, Complete, WireBound, Live, Gone, Pending, Over
<1>6. Answered'
  BY DEF Inv, Answered, AnswerIsResult, AnswerIsEnd, AnswerIsError, Over
<1>. QED  BY <1>2, <1>3, <1>4, <1>5, <1>6 DEF Inv

\* WriterGone: the writer sees the context done.
LEMMA WriterGoneKeeps ==
    ASSUME Inv, WriterGone
    PROVE  Inv'
<1>1. /\ writer = "select" /\ Gone /\ writer' = "ended"
      /\ UNCHANGED <<call, request, wire, conn, server, started, item, depth, seen, raised, produced>>
      /\ UNCHANGED clientVars
  BY DEF WriterGone
<1>. USE <1>1 DEF clientVars
<1>2. Types'
  BY DEF Inv, Types, Live
<1>3. Phase' /\ Offer' /\ Connection'
  BY DEF Inv, Phase, Fresh, HTTPCall, Over, Offer, Connection, Gone
<1>4. Unary' /\ OnTheWire' /\ GotDecoded'
  BY DEF Inv, Phase, Unary, OnTheWire, GotDecoded, Live, Over
<1>5. Complete' /\ WireBound'
  BY DEF Inv, Complete, WireBound, Live, Gone, Pending, Over
<1>6. Answered'
  BY DEF Inv, Answered, AnswerIsResult, AnswerIsEnd, AnswerIsError, Over
<1>. QED  BY <1>2, <1>3, <1>4, <1>5, <1>6 DEF Inv

\* SendCanceled: the producer does.
LEMMA SendCanceledKeeps ==
    ASSUME Inv, SendCanceled
    PROVE  Inv'
<1>1. /\ server = "offer" /\ server' = "ended"
      /\ UNCHANGED <<call, wire, conn, writer, started, depth, seen, raised, produced>>
      /\ UNCHANGED clientVars
  BY DEF SendCanceled
<1>2. Gone
  BY DEF SendCanceled, Inv, Connection, Over
<1>. QED  BY <1>1, <1>2, DroppedKeeps

\* Quiet: nothing happens after the call.
LEMMA QuietKeeps ==
    ASSUME Inv, UNCHANGED vars
    PROVE  Inv'
<1>. USE DEF vars
<1>1. Types'
  BY DEF Inv, Types, Live
<1>2. Phase' /\ Offer' /\ Connection'
  BY DEF Inv, Phase, Fresh, HTTPCall, Over, Offer, Connection, Gone
<1>3. Unary' /\ OnTheWire' /\ GotDecoded'
  BY DEF Inv, Unary, OnTheWire, GotDecoded, Live, Over
<1>4. Complete' /\ WireBound'
  BY DEF Inv, Complete, WireBound, Live, Gone, Pending, Over
<1>5. Answered'
  BY DEF Inv, Answered, AnswerIsResult, AnswerIsEnd, AnswerIsError, Over
<1>. QED  BY <1>1, <1>2, <1>3, <1>4, <1>5 DEF Inv

\* Every step keeps the invariant.
LEMMA NextKeeps ==
    ASSUME NotAFunction(Nil), NotAFunction(Err), Inv, [Next]_vars
    PROVE  Inv'
<1>1. CASE ClientStep
  BY <1>1, CallKeeps, ReadKeeps, ReadEndKeeps, ReadBrokenKeeps DEF ClientStep
<1>2. CASE HandlerStep
  BY <1>2, ReceiveKeeps, ReceivePanicKeeps, BeforeKeeps, EnterKeeps, HandleCallKeeps, StreamEventKeeps,
     StreamEndKeeps, grpcSendKeeps, SendCanceledKeeps DEF HandlerStep
<1>3. CASE WriterStep
  BY <1>3, TakeItemKeeps, TakeClosedKeeps, TakePanicKeeps, WriterGoneKeeps DEF WriterStep
<1>4. CASE Stop \/ Break \/ Panic \/ KeepAlive \/ UNCHANGED vars
  BY <1>4, StopKeeps, BreakKeeps, PanicKeeps, KeepAliveKeeps, QuietKeeps
<1>. QED  BY <1>1, <1>2, <1>3, <1>4 DEF Next, Quiet

\* What a list has at some of its places, in order.
LEMMA KeptIs ==
    ASSUME NEW s, IsSequence(s), NEW P, P \subseteq DOMAIN s
    PROVE  /\ IsSequence(Kept(s, P))
           /\ \A n \in DOMAIN Kept(s, P) : \E i \in P : Kept(s, P)[n] = s[i]
<1>. DEFINE UpTo(i) == {j \in P : j <= i}
            Rank == [i \in P |-> Cardinality(UpTo(i))]
            c == Cardinality(P)
            S == {s[i] : i \in P}
<1>1. /\ DOMAIN s = 1 .. Len(s) /\ Len(s) \in Nat
  BY SequenceIs
<1>2. IsFiniteSet(P) /\ \A i \in P : i \in Nat
  <2>1. IsFiniteSet(1 .. Len(s))
    BY <1>1, FS_Interval
  <2>2. P \subseteq 1 .. Len(s)
    BY <1>1
  <2>. QED  BY <1>1, <2>1, <2>2, FS_Subset
<1>3. c \in Nat /\ IsFiniteSet(1 .. c) /\ Cardinality(1 .. c) = c
  <2>1. c \in Nat
    BY <1>2, FS_CardinalityType
  <2>. HIDE DEF c
  <2>2. c - 1 + 1 = c
    BY <2>1
  <2>. QED  BY <2>1, FS_Interval
<1>4. ASSUME NEW i \in P
      PROVE  IsFiniteSet(UpTo(i)) /\ Cardinality(UpTo(i)) \in 1 .. c
  <2>1. UpTo(i) \subseteq P /\ i \in UpTo(i)
    BY <1>2
  <2>. HIDE DEF UpTo
  <2>2. IsFiniteSet(UpTo(i)) /\ Cardinality(UpTo(i)) <= c
    BY <1>2, <2>1, FS_Subset
  <2>3. Cardinality(UpTo(i)) \in Nat
    BY <2>2, FS_CardinalityType
  <2>4. Cardinality(UpTo(i)) # 0
    BY <2>1, <2>2, FS_EmptySet
  <2>. QED  BY <1>3, <2>2, <2>3, <2>4
<1>5. Rank \in [P -> 1 .. c]
  BY <1>4
<1>6. ASSUME NEW i \in P, NEW k \in P, i < k
      PROVE  Cardinality(UpTo(i)) < Cardinality(UpTo(k))
  <2>1. UpTo(i) \subseteq UpTo(k) /\ k \in UpTo(k) /\ k \notin UpTo(i)
    BY <1>2, <1>6
  <2>2. IsFiniteSet(UpTo(k)) /\ UpTo(i) # UpTo(k)
    BY <1>4, <2>1
  <2>. HIDE DEF UpTo
  <2>3. Cardinality(UpTo(i)) \in Nat /\ Cardinality(UpTo(k)) \in Nat
    BY <1>3, <1>4
  <2>. QED  BY <2>1, <2>2, <2>3, FS_Subset
<1>7. \A i, k \in P : Rank[i] = Rank[k] => i = k
  <2>1. \A i \in P : Rank[i] = Cardinality(UpTo(i)) /\ Cardinality(UpTo(i)) \in Nat
    BY <1>3, <1>4
  <2>. HIDE DEF Rank, UpTo
  <2>. QED  BY <1>2, <1>6, <2>1
<1>8. \A n \in 1 .. c : \E i \in P : Rank[i] = n
  <2>1. Rank \in Injection(P, 1 .. c)
    BY <1>5, <1>7 DEF Injection, IsInjective
  <2>. HIDE DEF Rank, c
  <2>2. Rank \in Surjection(P, 1 .. c)
    BY <1>2, <1>3, <2>1, FS_Injection DEF c
  <2>. QED  BY <2>2 DEF Surjection
<1>. DEFINE At(n) == CHOOSE i \in P : Cardinality(UpTo(i)) = n
            kept == [n \in 1 .. c |-> s[At(n)]]
<1>9. \A n \in 1 .. c : At(n) \in P
  <2>1. \A n \in 1 .. c : \E i \in P : Cardinality(UpTo(i)) = n
    BY <1>8
  <2>. HIDE DEF UpTo, c
  <2>. QED  BY <2>1
<1>10. Kept(s, P) = kept
  BY DEF Kept
<1>. HIDE DEF At, c
<1>11. \A n \in 1 .. c : kept[n] = s[At(n)] /\ kept[n] \in S
  BY <1>9
<1>12. kept \in Seq(S)
  <2>. HIDE DEF S
  <2>1. kept \in [1 .. c -> S]
    BY <1>11
  <2>. QED  BY <1>3, <2>1
<1>13. IsSequence(kept)
  BY <1>12, OfASet
<1>14. DOMAIN kept = 1 .. c
  OBVIOUS
<1>. QED  BY <1>9, <1>10, <1>11, <1>13, <1>14 DEF c

-----------------------------------------------------------------------------
(***************************************************************************)
(* How an error crosses a binding.                                         *)
(***************************************************************************)
\* What a list of maps has when each has become what the wire has of it.
LEMMA FirstDetailsAre ==
    ASSUME NEW s, IsSequence(s), \A i \in DOMAIN s : IsDetail(s[i]),
           NEW data, data = [i \in DOMAIN s |-> data[i]],
           \A i \in DOMAIN s : data[i].value = Numbers(s[i].value),
           NEW c
    PROVE  Received(c, data).is = {c} /\ Received(c, data).details = FirstDetails(s)
<1>1. Received(c, data).is = {c}
      /\ Received(c, data).details = IF data = <<>> \/ Head(data).value = {} THEN Nil ELSE Head(data).value
  BY DEF Received
<1>2. IsSequence(data) /\ DOMAIN data = DOMAIN s
  <2>. DEFINE S == {data[i] : i \in DOMAIN s}
  <2>1. data \in [DOMAIN s -> S]
    OBVIOUS
  <2>2. Len(s) \in Nat /\ DOMAIN s = 1 .. Len(s)
    BY SequenceIs
  <2>. HIDE DEF S
  <2>3. data \in Seq(S)
    BY <2>1, <2>2
  <2>. QED  BY <2>1, <2>3, OfASet
<1>3. data = <<>> <=> s = <<>>
  <2>1. /\ Len(s) \in Nat /\ DOMAIN s = 1 .. Len(s) /\ (s = <<>> <=> Len(s) = 0)
        /\ Len(data) \in Nat /\ DOMAIN data = 1 .. Len(data) /\ (data = <<>> <=> Len(data) = 0)
    BY <1>2, SequenceIs
  <2>. QED  BY <1>2, <2>1
<1>4. CASE s # <<>>
  <2>1. Head(s) = s[1] /\ Head(data) = data[1] /\ 1 \in DOMAIN s
    <3>1. Head(s) = s[1] /\ Head(data) = data[1]
      BY <1>2, <1>3, <1>4, TailIs
    <3>2. Len(s) \in Nat /\ Len(s) # 0 /\ DOMAIN s = 1 .. Len(s)
      BY <1>4, SequenceIs
    <3>. QED  BY <3>1, <3>2
  <2>2. Head(data).value = Numbers(s[1].value)
    BY <2>1
  <2>3. s[1].value \in SUBSET Entries
    BY <2>1 DEF IsDetail
  <2>4. (Numbers(s[1].value) = {} <=> s[1].value = {})
    BY <2>2, <2>3, MapIs
  <2>. QED  BY <1>1, <1>3, <1>4, <2>1, <2>2, <2>4 DEF FirstDetails
<1>5. CASE s = <<>>
  BY <1>1, <1>3, <1>5 DEF FirstDetails
<1>. QED  BY <1>4, <1>5

\* Details that are marshaled arrive.
LEMMA MarshaledArrive ==
    ASSUME NotAFunction(Err), NEW e, IsError(e), ~HasOdd(e), NEW c
    PROVE  LET data == Marshaled(Details(e))
           IN /\ data # Err
              /\ Received(c, data).is = {c} /\ Received(c, data).details = FirstDetails(Details(e))
<1>. DEFINE f == [i \in DOMAIN Details(e) |->
                    [type |-> Details(e)[i].type, value |-> Numbers(Details(e)[i].value)]]
<1>1. IsSequence(Details(e)) /\ \A i \in DOMAIN Details(e) : IsDetail(Details(e)[i])
  BY DetailsAre
<1>2. Marshaled(Details(e)) = f
  BY <1>1, MarshaledIs DEF HasOdd
<1>3. f # Err
  <2>1. f = [i \in DOMAIN f |-> f[i]]
    OBVIOUS
  <2>. QED  BY <2>1 DEF NotAFunction
<1>4. f = [i \in DOMAIN Details(e) |-> f[i]]
  OBVIOUS
<1>5. \A i \in DOMAIN Details(e) : f[i].value = Numbers(Details(e)[i].value)
  OBVIOUS
<1>. HIDE DEF f
<1>. QED  BY <1>1, <1>2, <1>3, <1>4, <1>5, FirstDetailsAre

\* JSON-RPC has a code for every sentinel.
LEMMA JSONRPCErrorCrosses ==
    ASSUME NotAFunction(Err), NEW b \in {"rpc1", "rpc0"}, NEW e, IsError(e), NEW w \in ToJSONRPCError(e)
    PROVE  /\ FromJSONRPCError(w).is # {} /\ FromJSONRPCError(w).is \subseteq ErrorMeaning(b, e)
           /\ FromJSONRPCError(w).details = CarriedDetails(b, e)
<1>. DEFINE known == e.is \cap Sentinels
            data == Marshaled(Details(e))
<1>1. PICK c \in IF known = {} THEN {"InternalError"} ELSE known :
         w = [code |-> c, data |-> IF data = Err THEN <<>> ELSE data]
  BY DEF ToJSONRPCError
<1>2. FromJSONRPCError(w).is = {c} /\ c \in ErrorMeaning(b, e)
  BY <1>1 DEF FromJSONRPCError, Received, ErrorMeaning, HTTP, Bindings
<1>3. CASE HasOdd(e)
  <2>1. data = Err
    BY <1>3, DetailsAre, MarshaledIs DEF HasOdd
  <2>2. FromJSONRPCError(w).details = Nil
    BY <1>1, <2>1 DEF FromJSONRPCError, Received
  <2>. QED  BY <1>2, <1>3, <2>2 DEF CarriedDetails, HTTP, Bindings
<1>4. CASE ~HasOdd(e)
  <2>1. data # Err /\ Received(c, data).details = FirstDetails(Details(e))
    BY <1>4, MarshaledArrive
  <2>. HIDE DEF data
  <2>2. FromJSONRPCError(w) = Received(c, data)
    BY <1>1, <2>1 DEF FromJSONRPCError
  <2>. QED  BY <1>2, <1>4, <2>1, <2>2 DEF CarriedDetails, HTTP, Bindings
<1>. QED  BY <1>3, <1>4

\* The tables of errors: every error of the protocol and every context error
\* has a place.
LEMMA ErrorMappings ==
    /\ DOMAIN errorMappings = 1 .. 19
    /\ \A i \in 1 .. 19 : errorMappings[i][1] \in Sentinels \cup ContextErrors
    /\ \A s \in Sentinels \cup ContextErrors : \E i \in 1 .. 19 : errorMappings[i][1] = s
    /\ \A i \in 1 .. 19 : errorMappings[i][1] \in Sentinels <=> i <= 17
    /\ errorMappings[5][1] = "InternalError"
BY DEF errorMappings, Sentinels, ContextErrors

\* The table of gRPC's codes, by its rows (grpcutil).
LEMMA GRPCMappings ==
    /\ DOMAIN grpcMappings = 1 .. 19
    /\ \A i \in 1 .. 19 : grpcMappings[i][1] \in Sentinels \cup ContextErrors
    /\ \A s \in Sentinels \cup ContextErrors : \E i \in 1 .. 19 : grpcMappings[i][1] = s
    /\ \A i \in 1 .. 19 : /\ grpcMappings[i][1] \in Sentinels => grpcMappings[i][2] \notin ContextErrors
                          /\ grpcMappings[i][1] \in ContextErrors => grpcMappings[i][2] = grpcMappings[i][1]
    /\ grpcMappings[5][1] = "InternalError" /\ grpcMappings[5][2] = "Internal"
BY DEF grpcMappings, Sentinels, ContextErrors

\* Every reason is read as a sentinel (errordetails).
LEMMA Reasons ==
    /\ "InternalError" \in Sentinels /\ "" \notin Sentinels
    /\ \A s \in ContextErrors : s \notin Sentinels
    /\ \A s : ErrorReason(s) \in Sentinels
BY DEF Sentinels, ContextErrors, ErrorReason

\* HTTP+JSON has a reason for every sentinel; the first one that the table
\* has is sent.
LEMMA RESTErrorCrosses ==
    ASSUME NotAFunction(Err), NEW b \in {"rest1", "rest0"}, NEW e, IsError(e), ~HasOdd(e)
    PROVE  LET r == ConvertErrorBody(ToRESTError(e))
           IN /\ ToRESTError(e).data # Err
              /\ r.is # {} /\ r.is \subseteq ErrorMeaning(b, e) /\ r.details = CarriedDetails(b, e)
<1>. DEFINE found == {i \in DOMAIN errorMappings : errorMappings[i][1] \in e.is}
            k == CHOOSE i \in found : \A j \in found : i <= j
            m == IF found = {} THEN <<"InternalError", 500>> ELSE errorMappings[k]
            reason == ErrorReason(m[1])
            data == Marshaled(Details(e))
            same == {i \in DOMAIN errorMappings : ErrorReason(errorMappings[i][1]) = reason}
            l == CHOOSE i \in same : \A j \in same : i <= j
            known == e.is \cap Sentinels
<1>1. ToRESTError(e) = [status |-> m[2], reason |-> reason, data |-> data]
  BY DEF ToRESTError, FirstMapping
<1>2. e.is \subseteq Sentinels \cup ContextErrors
  BY DEF IsError
<1>3. found \subseteq 1 .. 19 /\ \A i \in found : errorMappings[i][1] \in e.is
  BY ErrorMappings
<1>4. found # {} => k \in found /\ \A j \in found : k <= j
  <2>1. found \subseteq Nat
    BY <1>3
  <2>. HIDE DEF found
  <2>. QED  BY <2>1, Least
<1>. HIDE DEF k
<1>5. reason \in IF known = {} THEN {"InternalError"} ELSE known
  <2>1. CASE found = {}
    <3>1. e.is = {}
      BY <1>2, <2>1, ErrorMappings
    <3>. QED  BY <2>1, <3>1, Reasons DEF ErrorReason
  <2>2. CASE found # {} /\ errorMappings[k][1] \in Sentinels
    BY <1>3, <1>4, <2>2 DEF ErrorReason
  <2>3. CASE found # {} /\ errorMappings[k][1] \notin Sentinels
    <3>1. ~(k <= 17) /\ k \in 1 .. 19
      BY <1>3, <1>4, <2>3, ErrorMappings
    <3>2. ASSUME NEW s \in known  PROVE FALSE
      <4>1. PICK i \in 1 .. 19 : errorMappings[i][1] = s
        BY <3>2, ErrorMappings
      <4>2. i \in found /\ i <= 17
        BY <3>2, <4>1, ErrorMappings
      <4>. QED  BY <1>4, <2>3, <3>1, <4>2
    <3>. QED  BY <2>3, <3>2 DEF ErrorReason
  <2>. QED  BY <2>1, <2>2, <2>3
<1>6. reason \in Sentinels
  BY Reasons
<1>. HIDE DEF m, reason, found
<1>7. same # {} /\ same \subseteq 1 .. 19 /\ (reason = "InternalError" => 5 \in same)
      /\ \A i \in same : ErrorReason(errorMappings[i][1]) = reason
  <2>1. PICK i \in 1 .. 19 : errorMappings[i][1] = reason
    BY <1>6, ErrorMappings
  <2>2. i \in same
    BY <1>6, <2>1, ErrorMappings DEF ErrorReason
  <2>3. reason = "InternalError" => 5 \in same
    <3>1. ErrorReason("InternalError") = "InternalError"
      BY Reasons DEF ErrorReason
    <3>2. 5 \in DOMAIN errorMappings /\ errorMappings[5][1] = "InternalError"
      BY ErrorMappings
    <3>. QED  BY <3>1, <3>2
  <2>4. same \subseteq 1 .. 19
    BY ErrorMappings
  <2>. QED  BY <2>2, <2>3, <2>4
<1>8. l \in same /\ \A j \in same : l <= j
  <2>1. same \subseteq Nat
    BY <1>7
  <2>. HIDE DEF same
  <2>. QED  BY <1>7, <2>1, Least
<1>. HIDE DEF l, same
<1>9. errorMappings[l][1] = reason
  <2>1. l \in 1 .. 19 /\ ErrorReason(errorMappings[l][1]) = reason
    BY <1>7, <1>8
  <2>2. errorMappings[l][1] \in Sentinels
    <3>1. CASE reason = "InternalError"
      <4>1. l <= 5
        BY <1>7, <1>8, <3>1
      <4>. QED  BY <2>1, <4>1, ErrorMappings
    <3>2. CASE reason # "InternalError"
      BY <2>1, <3>2 DEF ErrorReason
    <3>. QED  BY <3>1, <3>2
  <2>. QED  BY <2>1, <2>2 DEF ErrorReason
<1>10. ConvertErrorBody(ToRESTError(e)) = Received(reason, data)
  <2>1. ConvertErrorBody(ToRESTError(e)) = Received(errorMappings[l][1], data)
    BY <1>1, <1>7 DEF ConvertErrorBody, FirstMapping, same, l
  <2>. QED  BY <1>9, <2>1
<1>11. data # Err /\ Received(reason, data).is = {reason}
       /\ Received(reason, data).details = FirstDetails(Details(e))
  BY MarshaledArrive
<1>12. ErrorMeaning(b, e) = IF known = {} THEN {"InternalError"} ELSE known
  BY DEF ErrorMeaning, HTTP, Bindings
<1>. HIDE DEF data, known
<1>13. FirstDetails(Details(e)) = CarriedDetails(b, e)
  BY DEF CarriedDetails
<1>. QED  BY <1>1, <1>5, <1>10, <1>11, <1>12, <1>13

\* gRPC has a code for every error of the table, the context errors too, and
\* where errors share a code the reason tells them apart.
LEMMA GRPCErrorCrosses ==
    ASSUME NotAFunction(Err), NEW b \in {"grpc1", "grpc0"}, NEW e, IsError(e)
    PROVE  LET r == FromGRPCError(ToGRPCError(e))
           IN r.is # {} /\ r.is \subseteq ErrorMeaning(b, e) /\ r.details = CarriedDetails(b, e)
<1>. DEFINE found == {i \in DOMAIN grpcMappings : grpcMappings[i][1] \in e.is}
            k == CHOOSE i \in found : \A j \in found : i <= j
            m == IF found = {} THEN <<"InternalError", "Internal">> ELSE grpcMappings[k]
            reason == ErrorReason(m[1])
            sent == Convertible(Details(e))
            data == [i \in DOMAIN sent |-> [type |-> "struct", value |-> toProtoMap(sent[i].value)]]
            same == {i \in DOMAIN grpcMappings :
                       grpcMappings[i][2] = m[2] /\ (reason = "" \/ ErrorReason(grpcMappings[i][1]) = reason)}
            l == CHOOSE i \in same : \A j \in same : i <= j
<1>1. ToGRPCError(e) = [code |-> m[2], reason |-> reason, data |-> data]
  BY DEF ToGRPCError, FirstMapping
<1>2. e.is \subseteq Sentinels \cup ContextErrors
  BY DEF IsError
<1>3. found \subseteq 1 .. 19 /\ \A i \in found : grpcMappings[i][1] \in e.is
  BY GRPCMappings
<1>4. found # {} => k \in found
  <2>1. found \subseteq Nat
    BY <1>3
  <2>. HIDE DEF found
  <2>. QED  BY <2>1, Least
<1>. HIDE DEF k
<1>5. found = {} => e.is = {}
  BY <1>2, GRPCMappings
<1>6. PICK n \in 1 .. 19 : m[1] = grpcMappings[n][1] /\ m[2] = grpcMappings[n][2]
  <2>1. CASE found = {}
    BY <2>1, GRPCMappings
  <2>2. CASE found # {}
    BY <1>3, <1>4, <2>2
  <2>. QED  BY <2>1, <2>2
<1>7. m[1] \in IF e.is = {} THEN {"InternalError"} ELSE e.is
  <2>1. CASE found = {}
    BY <1>5, <2>1
  <2>2. CASE found # {}
    BY <1>3, <1>4, <2>2
  <2>. QED  BY <2>1, <2>2
<1>8. reason \in Sentinels
  BY Reasons
<1>. HIDE DEF m, found
<1>9. n \in same /\ same \subseteq 1 .. 19
  BY <1>6, GRPCMappings
<1>10. \A i \in same : grpcMappings[i][2] = m[2] /\ ErrorReason(grpcMappings[i][1]) = ErrorReason(m[1])
  BY <1>8, Reasons
<1>. HIDE DEF reason
<1>11. l \in same
  <2>. HIDE DEF same
  <2>1. same \subseteq Nat /\ same # {}
    BY <1>9
  <2>. QED  BY <2>1, Least
<1>. HIDE DEF l, same
<1>12. grpcMappings[l][1] = m[1]
  <2>1. l \in 1 .. 19 /\ grpcMappings[l][2] = m[2] /\ ErrorReason(grpcMappings[l][1]) = ErrorReason(m[1])
    BY <1>9, <1>10, <1>11
  <2>2. CASE m[1] \in Sentinels
    BY <1>6, <2>1, <2>2, GRPCMappings DEF ErrorReason
  <2>3. CASE m[1] \notin Sentinels
    BY <1>6, <2>1, <2>3, GRPCMappings
  <2>. QED  BY <2>2, <2>3
<1>13. FromGRPCError(ToGRPCError(e)) = Received(m[1], data)
  <2>1. FromGRPCError(ToGRPCError(e)) = Received(grpcMappings[l][1], data)
    <3>1. same # {}
      BY <1>9
    <3>2. ToGRPCError(e).code = m[2] /\ ToGRPCError(e).reason = reason /\ ToGRPCError(e).data = data
      BY <1>1
    <3>3. same = {i \in DOMAIN grpcMappings :
                     /\ grpcMappings[i][2] = ToGRPCError(e).code
                     /\ \/ ToGRPCError(e).reason = ""
                        \/ ErrorReason(grpcMappings[i][1]) = ToGRPCError(e).reason}
      BY <3>2 DEF same
    <3>. HIDE DEF data
    <3>. QED  BY <3>1, <3>2, <3>3 DEF FromGRPCError, FirstMapping, l
  <2>. QED  BY <1>12, <2>1
<1>14. IsSequence(sent) /\ \A i \in DOMAIN sent : IsDetail(sent[i]) /\ toProtoMap(sent[i].value) # Err
  <2>. DEFINE P == {i \in DOMAIN Details(e) : toProtoMap(Details(e)[i].value) # Err}
  <2>1. sent = Kept(Details(e), P)
    BY DEF Convertible
  <2>2. IsSequence(Details(e)) /\ P \subseteq DOMAIN Details(e)
    BY DetailsAre
  <2>3. IsSequence(sent) /\ \A n1 \in DOMAIN sent : \E i \in P : sent[n1] = Details(e)[i]
    <3>. HIDE DEF sent, P
    <3>. QED  BY <2>1, <2>2, KeptIs
  <2>. HIDE DEF sent
  <2>. QED  BY <2>3, DetailsAre
<1>. HIDE DEF sent
<1>15. \A i \in DOMAIN sent : data[i].value = Numbers(sent[i].value)
  <2>1. ASSUME NEW i \in DOMAIN sent
        PROVE  toProtoMap(sent[i].value) = Numbers(sent[i].value)
    <3>1. sent[i].value \in SUBSET Entries
      BY <1>14 DEF IsDetail
    <3>. QED  BY <1>14, <3>1, MapIs
  <2>. QED  BY <2>1
<1>16. data = [i \in DOMAIN sent |-> data[i]]
  OBVIOUS
<1>. HIDE DEF data
<1>17. Received(m[1], data).is = {m[1]} /\ Received(m[1], data).details = FirstDetails(sent)
  BY <1>14, <1>15, <1>16, FirstDetailsAre
<1>18. m[1] \in ErrorMeaning(b, e)
  BY <1>2, <1>7 DEF ErrorMeaning, HTTP
<1>19. FirstDetails(sent) = CarriedDetails(b, e)
  BY DEF CarriedDetails, sent, HTTP, Bindings
<1>. QED  BY <1>13, <1>17, <1>18, <1>19

\* The invariant holds, whatever Nil and Err are that no function is.
THEOREM CallControl ==
    ASSUME NotAFunction(Nil), NotAFunction(Err)
    PROVE  Spec => []Inv
<1>1. Inv /\ [Next]_vars => Inv'
  BY NextKeeps
<1>. QED  BY <1>1, InitInv, PTL DEF Spec

\* Whichever binding an error is written for, and however.
LEMMA ErrorCrosses ==
    ASSUME NotAFunction(Err), NEW c \in Settings, NEW e, IsError(e), NEW w \in SendError(c.binding, e),
           NEW plain \in BOOLEAN, plain => c.binding # "rest0", ~Unsendable(c.binding, e)
    PROVE  LET r == ReceiveError(c, w, plain)
           IN /\ r.is # {} /\ r.is \subseteq ErrorMeaning(c.binding, e)
              /\ r.details = CarriedDetails(c.binding, e)
<1>1. c.binding \in Bindings
  BY CallsAssumption DEF IsSetting
<1>2. CASE c.binding \in {"grpc1", "grpc0"}
  <2>1. w = ToGRPCError(e) /\ ReceiveError(c, w, plain) = FromGRPCError(w)
    BY <1>2 DEF SendError, ReceiveError
  <2>. QED  BY <1>2, <2>1, GRPCErrorCrosses
<1>3. CASE c.binding \in {"rpc1", "rpc0"}
  <2>1. w \in ToJSONRPCError(e) /\ ReceiveError(c, w, plain) = FromJSONRPCError(w)
    BY <1>3 DEF SendError, ReceiveError
  <2>. QED  BY <1>3, <2>1, JSONRPCErrorCrosses
<1>4. CASE c.binding \in {"rest1", "rest0"}
  <2>1. ~HasOdd(e)
    BY <1>4 DEF Unsendable
  <2>2. w = ToRESTError(e) /\ w.data # Err
    BY <1>4, <2>1, RESTErrorCrosses DEF SendError
  <2>3. plain => isJSONErrorContentType(ContentType(c))
    BY <1>4 DEF isJSONErrorContentType, ContentType
  <2>4. ReceiveError(c, w, plain) = ConvertErrorBody(w)
    BY <1>4, <2>2, <2>3 DEF ReceiveError, FromRESTError
  <2>. QED  BY <1>4, <2>1, <2>2, <2>4, RESTErrorCrosses
<1>. QED  BY <1>1, <1>2, <1>3, <1>4 DEF Bindings

\* The invariant says what the caller may test the error for.
LEMMA InvErrorsSurvive == ASSUME NotAFunction(Err), Inv PROVE ErrorsSurvive
<1>. SUFFICES ASSUME answer # Nil, answer.kind = "error", raised # Nil, conn # "broken",
                     ~(call.binding = "rest0" /\ ~Streaming(call)), ~Unsendable(call.binding, raised),
                     Streaming(call) => Len(got) = Len(produced)
              PROVE  LET e == answer.error
                     IN /\ e.is # {} /\ e.is \subseteq ErrorMeaning(call.binding, raised)
                        /\ e.details = CarriedDetails(call.binding, raised)
  BY DEF ErrorsSurvive
<1>1. IsError(raised) /\ server # "idle" /\ call \in Settings
  BY DEF Inv, Phase, Fresh, Types
<1>2. PICK f : /\ ErrorFrame(call, raised, produced, f)
               /\ answer.error = ReceiveError(call, f.error, f.plain)
  <2>1. Len(produced) \in Nat
    BY SequenceIs DEF Inv, Types
  <2>. QED  BY <1>1, <2>1 DEF Inv, Answered, AnswerIsError
<1>3. /\ f.error \in SendError(call.binding, raised) /\ f.plain \in BOOLEAN
      /\ f.plain => call.binding # "rest0"
  BY <1>2 DEF ErrorFrame
<1>. QED  BY <1>1, <1>2, <1>3, ErrorCrosses

\* A caller can tell what kind of error ended the call, and has its details
\* (ErrorsSurvive), in every setting.
THEOREM ErrorsSurviveTheorem ==
    ASSUME NotAFunction(Nil), NotAFunction(Err)
    PROVE  Spec => []ErrorsSurvive
<1>1. Inv => ErrorsSurvive
  BY InvErrorsSurvive
<1>. QED  BY <1>1, CallControl, PTL

-----------------------------------------------------------------------------
(***************************************************************************)
(* Streams.                                                                *)
(***************************************************************************)
\* What a stream produces are events.
ProducedEvents == Streaming(call) => \A i \in DOMAIN produced : IsEvent(produced[i])

\* What leaves the interceptors of a stream is an event or an error.
LEMMA RespondProduces ==
    ASSUME Inv, ProducedEvents, call' = call, NEW p, Respond(p),
           Streaming(call) /\ p.kind = "value" => IsEvent(p.value)
    PROVE  ProducedEvents'
<1>1. IsSequence(produced)
  BY DEF Inv, Types
<1>2. CASE p.kind = "value"
  <2>1. produced' = Append(produced, p.value)
    BY <1>2 DEF Respond
  <2>2. /\ DOMAIN produced' = 1 .. Len(produced) + 1
        /\ \A i \in 1 .. Len(produced) : produced'[i] = produced[i]
        /\ produced'[Len(produced) + 1] = p.value
    BY <1>1, <2>1, AppendIs
  <2>3. DOMAIN produced = 1 .. Len(produced) /\ Len(produced) \in Nat
    BY <1>1, SequenceIs
  <2>. QED  BY <1>2, <2>2, <2>3 DEF ProducedEvents, Streaming, Method
<1>3. CASE p.kind # "value"
  BY <1>3 DEF Respond, ProducedEvents, Streaming, Method
<1>. QED  BY <1>2, <1>3

\* Every step keeps what a stream produces.
LEMMA NextProduces ==
    ASSUME Inv, ProducedEvents, [Next]_vars
    PROVE  ProducedEvents'
<1>1. CASE Before
  <2>1. call' = call
    BY <1>1 DEF Before
  <2>2. CASE UNCHANGED produced
    BY <2>1, <2>2 DEF ProducedEvents
  <2>3. ASSUME NEW q \in {Failure(e) : e \in InterceptErrors} \cup
                         {Value(v) : v \in IF Sends(call.method) THEN SendResults ELSE {}},
               NEW p \in After(depth + 1, q), Respond(p)
        PROVE  ProducedEvents'
    <3>1. IsItem(q)
      BY CallsAssumption, ValuesAre
    <3>2. p.kind = "value" => p = q
      BY <2>3, <3>1, AfterIs
    <3>3. \A v \in SendResults : IsEvent(v)
      BY CallsAssumption DEF IsEvent
    <3>4. q.kind = "value" => IsEvent(q.value)
      BY <3>3 DEF Value, Failure
    <3>. QED  BY <2>1, <2>3, <3>2, <3>4, RespondProduces
  <2>. QED  BY <1>1, <2>2, <2>3 DEF Before
<1>2. CASE HandleCall
  <2>1. call' = call /\ ~Streaming(call)
    BY <1>2 DEF HandleCall
  <2>. QED  BY <2>1 DEF ProducedEvents, Streaming, Method
<1>3. CASE StreamEvent
  <2>1. call' = call
    BY <1>3 DEF StreamEvent
  <2>2. PICK q \in {Failure(e) : e \in StreamErrors(call, seen)} \cup
                   {Value(v) : v \in IF Len(produced) < MaxEvents
                                     THEN StreamValues(call, seen) ELSE {}} :
            \E p \in After(Interceptors, q) : Respond(p)
    BY <1>3 DEF StreamEvent
  <2>3. PICK p \in After(Interceptors, q) : Respond(p)
    BY <2>2
  <2>4. IsItem(q)
    <3>1. \A e \in StreamErrors(call, seen) : IsError(e)
      BY StreamErrorsAre DEF Inv, Types
    <3>. QED  BY <3>1, ValuesAre
  <2>5. p.kind = "value" => p = q
    BY <2>3, <2>4, AfterIs
  <2>6. q.kind = "value" => IsEvent(q.value)
    <3>1. \A v \in StreamValues(call, seen) : IsEvent(v)
      BY CallsAssumption DEF StreamValues
    <3>. QED  BY <3>1 DEF Value, Failure
  <2>. QED  BY <2>1, <2>3, <2>5, <2>6, RespondProduces
<1>4. CASE UNCHANGED <<call, produced>>
  BY <1>4 DEF ProducedEvents
<1>5. ClientStep \/ Stop \/ Break \/ Panic \/ KeepAlive \/ UNCHANGED vars => UNCHANGED <<call, produced>>
  BY DEF ClientStep, Call, Read, ReadEnd, ReadBroken, Stop, Break, Panic, KeepAlive, vars, serverVars
<1>6. Receive \/ ReceivePanic \/ Enter \/ StreamEnd \/ grpcSend \/ SendCanceled => UNCHANGED <<call, produced>>
  BY DEF Receive, ReceivePanic, Enter, StreamEnd, grpcSend, SendCanceled
<1>7. WriterStep => UNCHANGED <<call, produced>>
  BY DEF WriterStep, TakeItem, TakeClosed, TakePanic, WriterGone
<1>. QED  BY <1>1, <1>2, <1>3, <1>4, <1>5, <1>6, <1>7 DEF Next, HandlerStep, Quiet

\* With the invariant, what the caller has got are the first events.
LEMMA InvStreamFaithful ==
    ASSUME NotAFunction(Nil), NotAFunction(Err), Inv, ProducedEvents
    PROVE  StreamFaithful
<1>. USE DEF Inv
<1>1. IsSequence(got) /\ IsSequence(produced) /\ IsSequence(wire)
  BY DEF Types
<1>2. /\ DOMAIN got = 1 .. Len(got) /\ Len(got) \in Nat
      /\ DOMAIN produced = 1 .. Len(produced) /\ Len(produced) \in Nat
  BY <1>1, SequenceIs
<1>3. Len(got) <= Len(produced)
  <2>1. CASE Len(got) = 0
    BY <1>2, <2>1
  <2>2. CASE Len(got) # 0
    <3>1. Len(got) \in DOMAIN got
      BY <1>2, <2>2
    <3>. QED  BY <3>1 DEF GotDecoded
  <2>. QED  BY <2>1, <2>2
<1>4. Len(produced) <= MaxEvents + 1 /\ MaxEvents \in Nat
  BY CallsAssumption DEF Offer
<1>5. TypeOK
  <2>1. Len(got) <= MaxEvents + 1
    BY <1>2, <1>3, <1>4
  <2>. QED  BY <1>4, <2>1 DEF TypeOK, Types, Phase, WireBound
<1>6. call.binding \in Bindings
  BY CallsAssumption DEF Types, IsSetting
<1>7. \A i \in DOMAIN got : got[i] = CarriedEvent(call.binding, produced[i])
  <2>. SUFFICES ASSUME NEW i \in DOMAIN got
                PROVE  got[i] = CarriedEvent(call.binding, produced[i])
    OBVIOUS
  <2>1. Streaming(call)
    <3>1. got # <<>>
      BY <1>1, <1>2, SequenceIs
    <3>. QED  BY <3>1 DEF Unary
  <2>2. i \in DOMAIN produced
    BY <1>2, <1>3
  <2>3. /\ Enc(call, produced[i]) # Err
        /\ got[i] = Dec(call, Enc(call, produced[i])) /\ got[i] # Err
    BY DEF GotDecoded
  <2>4. IsEvent(produced[i])
    BY <2>1, <2>2 DEF ProducedEvents
  <2>. QED  BY <1>6, <2>1, <2>3, <2>4, EventCrosses
<1>8. ASSUME answer = End
      PROVE  /\ Len(got) = Len(produced) /\ server # "dead"
             /\ raised = Nil \/ Unsendable(call.binding, raised)
  <2>1. answer # Nil /\ answer.kind = "end"
    BY <1>8 DEF End, NotAFunction
  <2>. QED  BY <2>1 DEF Answered, AnswerIsEnd
<1>. QED  BY <1>3, <1>5, <1>7, <1>8 DEF StreamFaithful

\* The events a caller gets are the first ones of the stream in their order,
\* and an end is the end (StreamFaithful), in every setting.
THEOREM StreamFaithfulTheorem ==
    ASSUME NotAFunction(Nil), NotAFunction(Err)
    PROVE  Spec => []StreamFaithful
<1>1. Init => ProducedEvents
  BY DEF Init, ProducedEvents
<1>2. Inv /\ ProducedEvents /\ [Next]_vars => ProducedEvents'
  BY NextProduces
<1>3. Inv /\ ProducedEvents => StreamFaithful
  BY InvStreamFaithful
<1>. QED  BY <1>1, <1>2, <1>3, CallControl, PTL DEF Spec

-----------------------------------------------------------------------------
(* Requests *)

\* The client's defaults leave a request of its type.
LEMMA DefaultsTyped ==
    ASSUME NotAFunction(Nil), NEW r, IsSendRequest(r), NEW b, NEW d,
           d.push = Nil \/ IsPushConfig(d.push), IsTexts(d.modes)
    PROVE  IsSendRequest(withDefaultSendConfig(r, b, d))
<1>. DEFINE c == IF r.config = Nil THEN Defaults ELSE r.config
            p == IF c.push = Nil THEN d.push ELSE c.push
            o == IF c.modes = <<>> THEN d.modes ELSE c.modes
            c1 == [c EXCEPT !.push = p]
            c2 == [c1 EXCEPT !.modes = o]
            q == [r EXCEPT !.config = c2]
<1>1. withDefaultSendConfig(r, b, d) \in {r, q}
  BY DEF withDefaultSendConfig
<1>2. IsSendConfig(Defaults)
  <2>1. IsTexts(<<>>)
    BY DEF IsTexts, IsListOf, IsList
  <2>2. IsNumber(Nil)
    BY DEF IsNumber
  <2>. QED  BY <2>1, <2>2 DEF Defaults, IsSendConfig
<1>3. IsSendConfig(c)
  <2>1. r.config = Nil \/ IsSendConfig(r.config)
    BY SendRequestIs
  <2>. QED  BY <1>2, <2>1
<1>4. /\ c = [modes |-> c.modes, immediate |-> c.immediate, push |-> c.push, history |-> c.history]
      /\ IsTexts(c.modes) /\ c.immediate \in BOOLEAN /\ IsNumber(c.history)
      /\ c.push = Nil \/ IsPushConfig(c.push)
  <2>. HIDE DEF c
  <2>. QED  BY <1>3 DEF IsSendConfig
<1>5. (p = Nil \/ IsPushConfig(p)) /\ IsTexts(o)
  <2>. HIDE DEF c
  <2>. QED  BY <1>4
<1>6. c1 = [modes |-> c.modes, immediate |-> c.immediate, push |-> p, history |-> c.history]
  <2>. HIDE DEF c, p
  <2>. QED  BY <1>4
<1>7. c2 = [modes |-> o, immediate |-> c.immediate, push |-> p, history |-> c.history]
  <2>. HIDE DEF c, c1, p, o
  <2>. QED  BY <1>6
<1>8. IsSendConfig(c2)
  <2>. HIDE DEF c, c2, p, o
  <2>. QED  BY <1>4, <1>5, <1>7 DEF IsSendConfig
<1>9. IsSendRequest(q)
  <2>. HIDE DEF c2
  <2>1. q = [tenant |-> r.tenant, message |-> r.message, metadata |-> r.metadata, config |-> c2]
    BY SendRequestIs
  <2>. HIDE DEF q
  <2>. QED  BY <1>8, <2>1 DEF IsSendRequest
<1>. HIDE DEF q
<1>. QED  BY <1>1, <1>9

\* A request that sends a message is one of its methods.
LEMMA IsRequestSent ==
    ASSUME NEW m, Sends(m), NEW r, IsSendRequest(r)
    PROVE  IsRequest(m, r)
<1>1. /\ m # "GetTask" /\ m # "ListTasks" /\ m # "CancelTask" /\ m # "SubscribeToTask"
      /\ m # "CreateTaskPushConfig" /\ m \notin {"GetTaskPushConfig", "DeleteTaskPushConfig"}
      /\ m # "ListTaskPushConfigs" /\ m # "GetExtendedAgentCard"
  BY DEF Sends
<1>. QED  BY <1>1, ZenonT(30) DEF IsRequest

\* What a setting asks a binding for is a request of the method that is called.
LEMMA RequestTyped ==
    ASSUME NotAFunction(Nil), NEW c, IsSetting(c)
    PROVE  /\ Method(c) \in Methods /\ (Sends(Method(c)) <=> Sends(c.method))
           /\ (Method(c) = "ListTasks" <=> c.method = "ListTasks")
           /\ IsRequest(Method(c), Request(c))
<1>1. c.method \in Methods /\ IsRequest(c.method, c.request)
  BY DEF IsSetting
<1>2. /\ Method(c) \in Methods /\ (Sends(Method(c)) <=> Sends(c.method))
      /\ (Method(c) = "ListTasks" <=> c.method = "ListTasks")
  BY <1>1 DEF Method, Methods, Sends
<1>3. CASE Sends(c.method)
  <2>1. IsSendRequest(c.request)
    BY <1>1, <1>3, RequestFields DEF Sends
  <2>2. Request(c) = withDefaultSendConfig(c.request, c.binding, c.defaults)
    BY <1>3 DEF Request
  <2>3. IsSendRequest(Request(c))
    BY <2>1, <2>2, DefaultsTyped DEF IsSetting
  <2>. QED  BY <1>2, <1>3, <2>3, IsRequestSent
<1>4. CASE ~Sends(c.method)
  <2>1. Method(c) = c.method
    BY <1>4 DEF Method, Sends
  <2>2. Request(c) = c.request
    BY <1>4 DEF Request
  <2>. QED  BY <1>1, <1>2, <2>1, <2>2
<1>. QED  BY <1>2, <1>3, <1>4

-----------------------------------------------------------------------------
(***************************************************************************)
(* What the handler is called with.  The control invariant says that it is *)
(* the request decoded; besides, the client has not refused the request,   *)
(* and the conversion has not panicked.                                    *)
(***************************************************************************)
Accepted ==
    /\ server # "idle" => Refused(call) = Nil
    /\ server \in {"before", "handler"} \/ seen # Nil => ~MessageMissing(call)

\* Every step keeps that the request was accepted.
LEMMA NextAccepts ==
    ASSUME Inv, Accepted, [Next]_vars
    PROVE  Accepted'
<1>. USE DEF Accepted
<1>a. ASSUME call' = call PROVE Refused(call)' = Refused(call) /\ MessageMissing(call)' = MessageMissing(call)
  BY <1>a DEF Refused, MessageMissing, Request, Method
<1>0. server = "idle" => seen = Nil
  BY DEF Inv, Phase, Fresh
<1>1. CASE Call
  <2>1. call' = call /\ seen' = seen
    BY <1>1 DEF Call
  <2>2. \/ (Refused(call) # Nil /\ server' = server)
        \/ (Refused(call) = Nil /\ server' = "received")
    BY <1>1 DEF Call
  <2>. QED  BY <1>a, <2>1, <2>2
<1>2. CASE Receive
  <2>1. call' = call /\ ~MessageMissing(call) /\ server = "received"
    BY <1>2 DEF Receive
  <2>. QED  BY <1>a, <2>1
<1>3. CASE ReceivePanic
  <2>1. call' = call /\ seen' = seen /\ server = "received"
    BY <1>3 DEF ReceivePanic
  <2>2. server' \in {"panicked", "ended"}
    BY <1>3 DEF ReceivePanic, PanicIn
  <2>. QED  BY <1>a, <2>1, <2>2
<1>4. CASE Before \/ HandleCall \/ StreamEvent \/ Enter \/ StreamEnd
  <2>1. call' = call /\ server \in {"before", "handler"}
    BY <1>4 DEF Before, HandleCall, StreamEvent, Enter, StreamEnd
  <2>. QED  BY <1>a, <2>1
<1>5. CASE Panic
  <2>1. call' = call /\ server = "handler"
    BY <1>5 DEF Panic
  <2>. QED  BY <1>a, <2>1
<1>6. CASE grpcSend \/ TakeItem
  <2>1. call' = call /\ seen' = seen /\ server = "offer"
    BY <1>6 DEF grpcSend, TakeItem
  <2>2. server' = "ended" \/ (server' = "handler" /\ seen # Nil)
    BY <1>6 DEF grpcSend, TakeItem, Resume
  <2>. QED  BY <1>a, <2>1, <2>2
<1>7. CASE SendCanceled \/ TakePanic
  <2>1. call' = call /\ seen' = seen /\ server \in {"offer", "panicked"} /\ server' \in {"ended", "dead"}
    BY <1>7 DEF SendCanceled, TakePanic
  <2>. QED  BY <1>a, <2>1
<1>8. CASE UNCHANGED <<call, server, seen>>
  BY <1>8, <1>a
<1>9. Read \/ ReadEnd \/ ReadBroken \/ Stop \/ Break \/ KeepAlive \/ TakeClosed \/ WriterGone
      \/ UNCHANGED vars => UNCHANGED <<call, server, seen>>
  BY DEF Read, ReadEnd, ReadBroken, Stop, Break, KeepAlive, TakeClosed, WriterGone, vars, serverVars
<1>. QED  BY <1>1, <1>2, <1>3, <1>4, <1>5, <1>6, <1>7, <1>8, <1>9
          DEF Next, ClientStep, HandlerStep, WriterStep, Quiet

\* JSON-RPC of version 0.3 has no request for a list of tasks.
LEMMA NoListOverRPC0 ==
    ASSUME NotAFunction(Nil), Inv, Accepted, server # "idle"
    PROVE  ~(call.binding = "rpc0" /\ Method(call) = "ListTasks")
<1>1. Refused(call) = Nil
  BY DEF Accepted
<1>2. Method(call) = "ListTasks" <=> call.method = "ListTasks"
  BY CallsAssumption, RequestTyped DEF Inv, Types
<1>3. \A s : NewError(s) # Nil
  BY DEF NewError, NotAFunction
<1>4. Unclassified # Nil
  BY DEF Unclassified, NotAFunction
<1>. QED  BY <1>1, <1>2, <1>3, <1>4 DEF Refused

\* The request that the server reads is what the binding carries.
LEMMA DecodedIsCarried ==
    ASSUME NotAFunction(Nil), NotAFunction(Err), Inv, Accepted, server # "idle",
           ~MessageMissing(call), Sent(call) # Err, Decoded(call) # Err
    PROVE  Decoded(call) = CarriedRequest(call.binding, Method(call), Request(call))
<1>1. IsSetting(call) /\ call.binding \in Bindings
  BY CallsAssumption DEF Inv, Types, IsSetting
<1>2. /\ Method(call) \in Methods /\ (Sends(Method(call)) <=> Sends(call.method))
      /\ IsRequest(Method(call), Request(call))
  BY <1>1, RequestTyped
<1>3. ~(call.binding = "rpc0" /\ Method(call) = "ListTasks")
  BY NoListOverRPC0
<1>4. call.binding = "rpc0" /\ Sends(Method(call)) =>
        \/ Request(call).message # Nil \/ Request(call).config = Nil
        \/ Request(call).config.push = Nil
  BY <1>2 DEF MessageMissing
<1>. QED  BY <1>1, <1>2, <1>3, <1>4, RequestCrosses DEF Sent, Decoded

\* With the invariant, what the handler sees is what the binding carries.
LEMMA InvHandlerSeesRequest ==
    ASSUME NotAFunction(Nil), NotAFunction(Err), Inv, Accepted
    PROVE  HandlerSeesRequest
<1>. SUFFICES ASSUME seen # Nil
              PROVE  seen = CarriedRequest(call.binding, Method(call), Request(call))
  BY DEF HandlerSeesRequest
<1>1. seen = Decoded(call) /\ Decoded(call) # Err /\ Sent(call) # Err
  BY DEF Inv, Phase
<1>2. server # "idle"
  BY DEF Inv, Phase, Fresh
<1>3. ~MessageMissing(call)
  BY DEF Accepted
<1>. QED  BY <1>1, <1>2, <1>3, DecodedIsCarried

\* The handler is called with what the caller sent, up to what the binding has
\* no place for (HandlerSeesRequest), in every setting and over every binding.
THEOREM HandlerSeesRequestTheorem ==
    ASSUME NotAFunction(Nil), NotAFunction(Err)
    PROVE  Spec => []HandlerSeesRequest
<1>1. Init => Accepted
  BY DEF Init, Accepted
<1>2. Inv /\ Accepted /\ [Next]_vars => Accepted'
  BY NextAccepts
<1>3. Inv /\ Accepted => HandlerSeesRequest
  BY InvHandlerSeesRequest
<1>. QED  BY <1>1, <1>2, <1>3, CallControl, PTL DEF Spec

-----------------------------------------------------------------------------
(***************************************************************************)
(* Results of one call: what the handler returns is of the method's type,  *)
(* and so are the results that are produced.                               *)
(***************************************************************************)
\* The end of a list is a list.
LEMMA SuffixIs ==
    ASSUME NEW h, IsListOf(IsMessage, h), NEW k \in 1 .. Len(h)
    PROVE  IsListOf(IsMessage, SubSeq(h, k, Len(h)))
<1>. DEFINE S == {h[i] : i \in DOMAIN h}
            t == SubSeq(h, k, Len(h))
<1>1. IsList(h) /\ \A i \in DOMAIN h : IsMessage(h[i])
  BY DEF IsListOf
<1>2. Len(h) \in Nat /\ DOMAIN h = 1 .. Len(h)
  BY <1>1, ListIs, SequenceIs
<1>3. \A x \in S : IsMessage(x)
  BY <1>1
<1>4. \A i \in k .. Len(h) : h[i] \in S
  BY <1>2
<1>. HIDE DEF S
<1>5. t \in Seq(S)
  BY <1>2, <1>4, SubSeqProperties
<1>. HIDE DEF t
<1>6. /\ Len(t) \in Nat /\ DOMAIN t = 1 .. Len(t) /\ t = [i \in 1 .. Len(t) |-> t[i]]
      /\ \A i \in DOMAIN t : t[i] \in S
  BY <1>5
<1>7. IsList(t) /\ \A i \in DOMAIN t : IsMessage(t[i])
  BY <1>3, <1>6 DEF IsList
<1>. QED  BY <1>7 DEF IsListOf, t

\* A task with a shorter history is a task.
LEMMA TrimmedIsATask ==
    ASSUME NEW t, IsTask(t), NEW n, IsNumber(n)
    PROVE  IsTask(TrimmedHistory(t, n))
<1>. DEFINE h == t.history
<1>1. /\ t = [type |-> "task", id |-> t.id, context |-> t.context, status |-> t.status,
              artifacts |-> t.artifacts, history |-> t.history, metadata |-> t.metadata]
      /\ IsText(t.id) /\ IsText(t.context) /\ IsStatus(t.status)
      /\ IsListOf(IsArtifact, t.artifacts) /\ IsListOf(IsMessage, h) /\ IsMap(t.metadata)
  BY DEF IsTask
<1>2. ASSUME NEW s, IsListOf(IsMessage, s)
      PROVE  IsTask([t EXCEPT !.history = s])
  <2>. DEFINE q == [t EXCEPT !.history = s]
  <2>1. q = [type |-> "task", id |-> t.id, context |-> t.context, status |-> t.status,
             artifacts |-> t.artifacts, history |-> s, metadata |-> t.metadata]
    BY <1>1
  <2>. HIDE DEF q
  <2>2. /\ q = [type |-> "task", id |-> q.id, context |-> q.context, status |-> q.status,
                artifacts |-> q.artifacts, history |-> q.history, metadata |-> q.metadata]
        /\ q.id = t.id /\ q.context = t.context /\ q.status = t.status
        /\ q.artifacts = t.artifacts /\ q.history = s /\ q.metadata = t.metadata
    BY <2>1
  <2>3. IsTask(q)
    BY <1>1, <1>2, <2>2 DEF IsTask
  <2>. QED  BY <2>3 DEF q
<1>3. IsListOf(IsMessage, <<>>)
  BY DEF IsListOf, IsList
<1>4. n # Nil /\ n > 0 /\ n < Len(h) => IsListOf(IsMessage, SubSeq(h, Len(h) - n + 1, Len(h)))
  <2>1. Len(h) \in Nat /\ (n # Nil => n \in Int)
    BY <1>1, ListIs, SequenceIs DEF IsListOf, IsNumber
  <2>2. n # Nil /\ n > 0 /\ n < Len(h) => Len(h) - n + 1 \in 1 .. Len(h)
    BY <2>1
  <2>. QED  BY <1>1, <2>2, SuffixIs
<1>5. \/ TrimmedHistory(t, n) = t
      \/ TrimmedHistory(t, n) = [t EXCEPT !.history = <<>>]
      \/ /\ n # Nil /\ n > 0 /\ n < Len(h)
         /\ TrimmedHistory(t, n) = [t EXCEPT !.history = SubSeq(h, Len(h) - n + 1, Len(h))]
  <2>. HIDE DEF h
  <2>1. CASE n = Nil
    BY <2>1 DEF TrimmedHistory
  <2>2. CASE n # Nil /\ n <= 0
    <3>1. ~(n > 0)
      BY <2>2 DEF IsNumber
    <3>. QED  BY <2>2, <3>1 DEF TrimmedHistory
  <2>3. CASE n # Nil /\ ~(n <= 0) /\ n > 0 /\ n < Len(h)
    BY <2>3 DEF TrimmedHistory, h
  <2>4. CASE n # Nil /\ ~(n <= 0) /\ ~(n > 0 /\ n < Len(h))
    BY <2>4 DEF TrimmedHistory, h
  <2>. QED  BY <2>1, <2>2, <2>3, <2>4
<1>. QED  BY <1>2, <1>3, <1>4, <1>5

\* A task that is canceled is a task.
LEMMA CanceledIsATask ==
    ASSUME NEW t, IsTask(t)
    PROVE  IsTask([t EXCEPT !.status.state = "canceled"])
<1>. DEFINE s == [t.status EXCEPT !.state = "canceled"]
            q == [t EXCEPT !.status = s]
<1>1. /\ t = [type |-> "task", id |-> t.id, context |-> t.context, status |-> t.status,
              artifacts |-> t.artifacts, history |-> t.history, metadata |-> t.metadata]
      /\ IsText(t.id) /\ IsText(t.context) /\ IsStatus(t.status)
      /\ IsListOf(IsArtifact, t.artifacts) /\ IsListOf(IsMessage, t.history) /\ IsMap(t.metadata)
  BY DEF IsTask
<1>2. t.status = [state |-> t.status.state, message |-> t.status.message, time |-> t.status.time]
  BY <1>1 DEF IsStatus
<1>3. s = [state |-> "canceled", message |-> t.status.message, time |-> t.status.time]
  BY <1>2
<1>4. IsStatus(s)
  <2>. HIDE DEF s
  <2>1. "canceled" \in TaskStates
    BY DEF TaskStates
  <2>. QED  BY <1>1, <1>3, <2>1 DEF IsStatus
<1>5. [t EXCEPT !.status.state = "canceled"] = q
  BY <1>1, <1>2
<1>. HIDE DEF s
<1>6. q = [type |-> "task", id |-> t.id, context |-> t.context, status |-> s,
           artifacts |-> t.artifacts, history |-> t.history, metadata |-> t.metadata]
  BY <1>1
<1>. HIDE DEF q
<1>7. /\ q = [type |-> "task", id |-> q.id, context |-> q.context, status |-> q.status,
              artifacts |-> q.artifacts, history |-> q.history, metadata |-> q.metadata]
      /\ q.id = t.id /\ q.context = t.context /\ q.status = s
      /\ q.artifacts = t.artifacts /\ q.history = t.history /\ q.metadata = t.metadata
  BY <1>6
<1>8. IsTask(q)
  BY <1>1, <1>4, <1>7 DEF IsTask
<1>. QED  BY <1>5, <1>8

\* One is its low 32 bits.
LEMMA OneIs == int32(1) = 1
<1>1. MaxInt32 \in Nat \ {0}
  BY WireAssumption
<1>2. \A a, c \in Nat : a < c => a % c = a
  OBVIOUS
<1>3. 1 + MaxInt32 + 1 \in Nat /\ 2 * (MaxInt32 + 1) \in Nat /\ 1 + MaxInt32 + 1 < 2 * (MaxInt32 + 1)
  BY <1>1
<1>4. (1 + MaxInt32 + 1) % (2 * (MaxInt32 + 1)) = 1 + MaxInt32 + 1
  BY <1>2, <1>3
<1>. QED  BY <1>1, <1>4 DEF int32

\* A binding carries the task whose push configurations are asked for.
LEMMA TaskOfTheList ==
    ASSUME NEW b, NEW q, IsListTaskPushConfigRequest(q)
    PROVE  CarriedRequest(b, "ListTaskPushConfigs", q).task = CarriedId(b, q.task)
<1>. DEFINE size == CASE b \in {"grpc1", "grpc0"} -> int32(q.pageSize)
                      [] b = "rpc1" -> q.pageSize
                      [] OTHER -> 0
            token == IF b \in {"grpc1", "grpc0", "rpc1"} THEN q.pageToken ELSE ""
<1>1. CarriedRequest(b, "ListTaskPushConfigs", q) =
        [tenant |-> CarriedTenant(b, q.tenant), task |-> CarriedId(b, q.task),
         pageSize |-> size, pageToken |-> token]
  BY CarriedListPushIs
<1>. HIDE DEF size, token
<1>. QED  BY <1>1

\* What the handler returns for a request that the binding has carried is a
\* result of its method.
LEMMA HandlerReturns ==
    ASSUME NotAFunction(Nil), NotAFunction(Err), call \in Settings, Method(call) \in ResultMethods,
           NEW r, r = CarriedRequest(call.binding, Method(call), Request(call)),
           NEW v, Value(v) \in Handle(call, r)
    PROVE  IsResult(call.binding, Method(call), Request(call), v)
<1>. DEFINE b == call.binding
            m == Method(call)
            q == Request(call)
<1>1. IsSetting(call)
  BY CallsAssumption
<1>2. m \in Methods /\ IsRequest(m, q)
  BY <1>1, RequestTyped
<1>3. /\ \A x, y : Value(x) = Value(y) <=> x = y
      /\ \A x, e : Value(x) # Failure(e)
  BY DEF Value, Failure
<1>4. /\ IsTask(StoredTask) /\ IsPush(StoredConfig) /\ StoredConfig.task = StoredTask.id
      /\ \A x \in SendResults : IsSendResult(x)
  BY CallsAssumption, PushConfigsArePushes
<1>5. ASSUME NEW task, NEW x, Value(v) \in checkPushNotificationConfigs(call, task, x)
      PROVE  v = x /\ task = StoredTask.id
  BY <1>3, <1>5 DEF checkPushNotificationConfigs
<1>6. CASE m = "SendMessage"
  <2>1. Value(v) \in SendMessage(r)
    BY <1>6 DEF Handle
  <2>2. v \in {StoredTask} \cup SendResults
    BY <1>3, <2>1 DEF SendMessage
  <2>3. IsSendResult(StoredTask)
    BY <1>4 DEF IsSendResult, IsTask
  <2>. QED  BY <1>4, <1>6, <2>2, <2>3 DEF IsResult
<1>7. CASE m = "GetTask"
  <2>1. Value(v) \in GetTask(r)
    BY <1>7 DEF Handle
  <2>2. v = TrimmedHistory(StoredTask, r.history)
    <3>1. CASE r.id = "" \/ r.id # StoredTask.id
      BY <1>3, <2>1, <3>1 DEF GetTask
    <3>2. CASE r.id # "" /\ r.id = StoredTask.id
      <4>1. GetTask(r) = {Value(TrimmedHistory(StoredTask, r.history))} \cup {Failure(e) : e \in call.failures}
        BY <3>2 DEF GetTask
      <4>. QED  BY <1>3, <2>1, <4>1
    <3>. QED  BY <3>1, <3>2
  <2>3. IsGetTaskRequest(q)
    BY <1>2, <1>7, RequestFields DEF Sends
  <2>4. r.history = CarriedLength(b, m, q.history)
    BY <1>7, <2>3, CarriedRequestsAre
  <2>5. IsNumber(r.history)
    <3>1. IsNumber(q.history)
      BY <2>3 DEF IsGetTaskRequest
    <3>2. \A n \in Int : int32(n) \in Int
      BY Int32Is
    <3>. QED  BY <2>4, <3>1, <3>2 DEF CarriedLength, IsNumber
  <2>6. IsTask(v)
    BY <1>4, <2>2, <2>5, TrimmedIsATask
  <2>. QED  BY <1>7, <2>6 DEF IsResult
<1>8. CASE m = "CancelTask"
  <2>1. Value(v) \in CancelTask(r)
    BY <1>8 DEF Handle
  <2>2. v = [StoredTask EXCEPT !.status.state = "canceled"]
    BY <1>3, <2>1 DEF CancelTask
  <2>3. IsTask(v)
    BY <1>4, <2>2, CanceledIsATask
  <2>. QED  BY <1>8, <2>3 DEF IsResult
<1>9. CASE m = "ListTasks"
  <2>1. Value(v) \in ListTasks(r)
    BY <1>9 DEF Handle
  <2>2. v = [tasks |-> <<StoredTask>>, total |-> 1, pageSize |-> 1, next |-> r.pageToken]
    BY <1>3, <2>1 DEF ListTasks
  <2>3. IsListOf(IsTask, <<StoredTask>>)
    BY <1>4 DEF IsListOf, IsList
  <2>4. IsTaskList(v)
    BY <2>2, <2>3, OneIs DEF IsTaskList
  <2>. QED  BY <1>9, <2>4 DEF IsResult
<1>10. CASE m = "CreateTaskPushConfig"
  <2>1. v = r
    BY <1>5, <1>10 DEF Handle, CreateTaskPushConfig
  <2>2. IsPushConfig(q)
    BY <1>2, <1>10, RequestFields DEF Sends
  <2>3. r = [tenant |-> CarriedTenant(b, q.tenant), task |-> CarriedId(b, q.task), id |-> q.id,
             url |-> q.url, token |-> q.token, auth |-> q.auth]
    BY <1>10, <2>2, CarriedRequestsAre
  <2>4. IsPush(q)
    BY <2>2, PushConfigsArePushes
  <2>5. IsPushOf(b, q, v)
    <3>. HIDE DEF b, q
    <3>. QED  BY <2>1, <2>3, <2>4 DEF IsPushOf, IsPush
  <2>. QED  BY <1>10, <2>5 DEF IsResult
<1>11. CASE m = "GetTaskPushConfig"
  <2>1. v = StoredConfig /\ r.task = StoredTask.id
    BY <1>5, <1>11 DEF Handle, GetTaskPushConfig
  <2>2. IsPushConfigRequest(q)
    BY <1>2, <1>11, RequestFields DEF Sends
  <2>3. r.task = CarriedId(b, q.task)
    BY <1>11, <2>2, CarriedRequestsAre
  <2>4. IsPushOf(b, q, v)
    BY <1>4, <2>1, <2>3 DEF IsPushOf
  <2>. QED  BY <1>11, <2>4 DEF IsResult
<1>12. CASE m = "ListTaskPushConfigs"
  <2>1. v = [configs |-> <<StoredConfig>>, next |-> ""] /\ r.task = StoredTask.id
    BY <1>5, <1>12 DEF Handle, ListTaskPushConfigs
  <2>2. IsListTaskPushConfigRequest(q)
    BY <1>2, <1>12, RequestFields DEF Sends
  <2>3. r.task = CarriedId(b, q.task)
    <3>1. r = CarriedRequest(b, "ListTaskPushConfigs", q)
      BY <1>12
    <3>. HIDE DEF b, q
    <3>. QED  BY <2>2, <3>1, TaskOfTheList
  <2>4. IsList(v.configs) /\ \A i \in DOMAIN v.configs : v.configs[i] = StoredConfig
    <3>1. /\ IsList(<<StoredConfig>>)
          /\ \A i \in DOMAIN <<StoredConfig>> : <<StoredConfig>>[i] = StoredConfig
      BY DEF IsList
    <3>. QED  BY <2>1, <3>1
  <2>5. IsPushList(b, q, v)
    BY <1>4, <2>1, <2>3, <2>4 DEF IsPushList, IsPushOf
  <2>. QED  BY <1>12, <2>5 DEF IsResult
<1>13. CASE m = "DeleteTaskPushConfig"
  <2>1. v = Empty
    BY <1>5, <1>13 DEF Handle, DeleteTaskPushConfig
  <2>. QED  BY <1>13, <2>1 DEF IsResult
<1>. QED  BY <1>6, <1>7, <1>8, <1>9, <1>10, <1>11, <1>12, <1>13
          DEF ResultMethods, Methods, StreamMethods

\* What a call of one result produces is of its method, up to what the binding
\* has no place for in the request; cards are not looked at.
ProducedResults ==
    Method(call) \in ResultMethods =>
        \A i \in DOMAIN produced : IsResult(call.binding, Method(call), Request(call), produced[i])

\* What leaves the interceptors is of the method.
LEMMA RespondReturns ==
    ASSUME Inv, ProducedResults, call' = call, NEW p, Respond(p),
           Method(call) \in ResultMethods /\ p.kind = "value" =>
                IsResult(call.binding, Method(call), Request(call), p.value)
    PROVE  ProducedResults'
<1>1. IsSequence(produced)
  BY DEF Inv, Types
<1>2. Method(call)' = Method(call) /\ Request(call)' = Request(call)
  BY DEF Method, Request
<1>3. CASE p.kind = "value"
  <2>1. produced' = Append(produced, p.value)
    BY <1>3 DEF Respond
  <2>2. /\ DOMAIN produced' = 1 .. Len(produced) + 1
        /\ \A i \in 1 .. Len(produced) : produced'[i] = produced[i]
        /\ produced'[Len(produced) + 1] = p.value
    BY <1>1, <2>1, AppendIs
  <2>3. DOMAIN produced = 1 .. Len(produced) /\ Len(produced) \in Nat
    BY <1>1, SequenceIs
  <2>4. ASSUME Method(call) \in ResultMethods, NEW i \in 1 .. Len(produced) + 1
        PROVE  IsResult(call.binding, Method(call), Request(call), produced'[i])
    <3>1. CASE i \in 1 .. Len(produced)
      BY <2>2, <2>3, <2>4, <3>1 DEF ProducedResults
    <3>2. CASE i = Len(produced) + 1
      BY <1>3, <2>2, <2>4, <3>2
    <3>. QED  BY <2>3, <3>1, <3>2
  <2>. QED  BY <1>2, <2>2, <2>4 DEF ProducedResults, ResultMethods
<1>4. CASE p.kind # "value"
  BY <1>2, <1>4 DEF Respond, ProducedResults, ResultMethods
<1>. QED  BY <1>3, <1>4

\* Every step keeps that results are of their method.
LEMMA NextReturns ==
    ASSUME NotAFunction(Nil), NotAFunction(Err), Inv, Accepted, ProducedResults, [Next]_vars
    PROVE  ProducedResults'
<1>0. ASSUME UNCHANGED <<call, produced>> PROVE ProducedResults'
  BY <1>0 DEF ProducedResults, Method, Request, ResultMethods
<1>1. CASE Before
  <2>1. call' = call
    BY <1>1 DEF Before
  <2>2. ASSUME NEW q \in {Failure(e) : e \in InterceptErrors} \cup
                         {Value(v) : v \in IF Sends(call.method) THEN SendResults ELSE {}},
               NEW p \in After(depth + 1, q), Respond(p)
        PROVE  ProducedResults'
    <3>1. IsItem(q)
      BY CallsAssumption, ValuesAre
    <3>2. p.kind = "value" => p = q
      BY <2>2, <3>1, AfterIs
    <3>3. ASSUME q.kind = "value", Method(call) \in ResultMethods
          PROVE  IsResult(call.binding, Method(call), Request(call), q.value)
      <4>1. Sends(call.method) /\ IsSendResult(q.value)
        <5>1. PICK v \in IF Sends(call.method) THEN SendResults ELSE {} : q = Value(v)
          BY <2>2, <3>3 DEF Failure
        <5>2. Sends(call.method) /\ v \in SendResults
          BY <5>1
        <5>3. IsSendResult(v)
          BY <5>2, CallsAssumption
        <5>. QED  BY <5>1, <5>2, <5>3 DEF Value
      <4>2. Method(call) = "SendMessage"
        BY <3>3, <4>1 DEF Method, Sends, ResultMethods, StreamMethods
      <4>. QED  BY <4>1, <4>2 DEF IsResult
    <3>. QED  BY <2>1, <2>2, <3>2, <3>3, RespondReturns
  <2>. QED  BY <1>0, <1>1, <2>1, <2>2 DEF Before
<1>2. CASE HandleCall
  <2>1. call' = call /\ server = "handler" /\ ~Streaming(call) /\ call \in Settings
    BY <1>2 DEF HandleCall, Inv, Types
  <2>2. PICK q \in Handle(call, seen) : \E p \in After(Interceptors, q) : Respond(p)
    BY <1>2 DEF HandleCall
  <2>3. PICK p \in After(Interceptors, q) : Respond(p)
    BY <2>2
  <2>4. IsItem(q)
    BY <2>1, HandlerYields
  <2>5. p.kind = "value" => p = q
    BY <2>3, <2>4, AfterIs
  <2>6. ASSUME q.kind = "value", Method(call) \in ResultMethods
        PROVE  IsResult(call.binding, Method(call), Request(call), q.value)
    <3>1. q = Value(q.value)
      BY <2>4, <2>6 DEF IsItem, Value, Failure
    <3>2. seen = Decoded(call) /\ Decoded(call) # Err /\ Sent(call) # Err
      BY <2>1 DEF Inv, Phase
    <3>3. seen = CarriedRequest(call.binding, Method(call), Request(call))
      BY <2>1, <3>2, DecodedIsCarried DEF Accepted
    <3>. QED  BY <2>1, <2>2, <2>6, <3>1, <3>3, HandlerReturns
  <2>. QED  BY <2>1, <2>3, <2>5, <2>6, RespondReturns
<1>3. CASE StreamEvent
  <2>1. call' = call /\ Streaming(call)
    BY <1>3 DEF StreamEvent
  <2>. QED  BY <2>1 DEF ProducedResults, Streaming, ResultMethods, Method
<1>4. ClientStep \/ Stop \/ Break \/ Panic \/ KeepAlive \/ UNCHANGED vars => UNCHANGED <<call, produced>>
  BY DEF ClientStep, Call, Read, ReadEnd, ReadBroken, Stop, Break, Panic, KeepAlive, vars, serverVars
<1>5. Receive \/ ReceivePanic \/ Enter \/ StreamEnd \/ grpcSend \/ SendCanceled => UNCHANGED <<call, produced>>
  BY DEF Receive, ReceivePanic, Enter, StreamEnd, grpcSend, SendCanceled
<1>6. WriterStep => UNCHANGED <<call, produced>>
  BY DEF WriterStep, TakeItem, TakeClosed, TakePanic, WriterGone
<1>. QED  BY <1>0, <1>1, <1>2, <1>3, <1>4, <1>5, <1>6 DEF Next, HandlerStep, Quiet

\* With the invariant, a result is the one that was produced.
LEMMA InvResultCarried ==
    ASSUME NotAFunction(Nil), NotAFunction(Err), Inv, Accepted, ProducedResults,
           Method(call) # "GetExtendedAgentCard"
    PROVE  ResultCarried
<1>. SUFFICES ASSUME answer # Nil, answer.kind = "value"
              PROVE  /\ Len(produced) = 1
                     /\ answer.value = CarriedResult(call.binding, Method(call), produced[1])
  BY DEF ResultCarried
<1>1. AnswerIsResult
  BY DEF Inv, Answered
<1>2. /\ ~Streaming(call) /\ server # "idle" /\ Len(produced) = 1
      /\ Enc(call, produced[1]) # Err
      /\ answer.value = Dec(call, Enc(call, produced[1])) /\ Dec(call, Enc(call, produced[1])) # Err
  BY <1>1 DEF AnswerIsResult
<1>3. call.binding \in Bindings /\ Method(call) \in ResultMethods
  <2>1. call.binding \in Bindings /\ Method(call) \in Methods
    BY CallsAssumption, RequestTyped DEF Inv, Types, IsSetting
  <2>. QED  BY <1>2, <2>1 DEF Streaming, ResultMethods
<1>4. ~(call.binding = "rpc0" /\ Method(call) = "ListTasks")
  BY <1>2, NoListOverRPC0
<1>5. IsResult(call.binding, Method(call), Request(call), produced[1])
  <2>1. 1 \in DOMAIN produced
    BY <1>2, SequenceIs DEF Inv, Types
  <2>. QED  BY <1>3, <2>1 DEF ProducedResults
<1>. QED  BY <1>2, <1>3, <1>4, <1>5, ResultCrosses DEF Enc, Dec

\* A caller that gets a result gets the one the server returned, up to what the
\* binding has no place for (ResultCarried), in every setting and over every
\* binding, for every method but the one that returns a card.
THEOREM ResultCarriedTheorem ==
    ASSUME NotAFunction(Nil), NotAFunction(Err)
    PROVE  Spec => [](Method(call) # "GetExtendedAgentCard" => ResultCarried)
<1>1. Init => Accepted /\ ProducedResults
  BY DEF Init, Accepted, ProducedResults
<1>2. Inv /\ Accepted /\ [Next]_vars => Accepted'
  BY NextAccepts
<1>3. Inv /\ Accepted /\ ProducedResults /\ [Next]_vars => ProducedResults'
  BY NextReturns
<1>4. Inv /\ Accepted /\ ProducedResults =>
        (Method(call) # "GetExtendedAgentCard" => ResultCarried)
  BY InvResultCarried
<1>. QED  BY <1>1, <1>2, <1>3, <1>4, CallControl, PTL DEF Spec
=============================================================================
