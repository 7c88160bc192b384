-------------------------------- MODULE Wire -------------------------------
(***************************************************************************)
(* What the conversions between the protocol's types and their wire forms  *)
(* share.  A value of the protocol is a record, a sequence, a string or a  *)
(* number; Nil is an absent one.  A conversion that returns an error has   *)
(* the value Err, and one field that does not convert fails the whole.     *)
(* Strings carry no text here but "" (which on the wire is absent); a nil  *)
(* and an empty list are the same.                                         *)
(***************************************************************************)
EXTENDS Integers, Sequences, FiniteSets

CONSTANTS
    Nil, Err,
    MaxInt32,       \* the largest int32; 2^31 - 1 in the code
    Millisecond     \* in units of time

ASSUME WireAssumption ==
    /\ MaxInt32 \in Nat \ {0} /\ Millisecond \in Nat \ {0}
    /\ Nil # Err
    /\ \A x \in {Nil, Err} : x \notin STRING /\ x \notin Int /\ x \notin BOOLEAN

\* f(v), with v evaluated once: TLC evaluates an argument wherever it is used.
Strict(f(_), v) == CHOOSE y \in {f(x) : x \in {v}} : TRUE

\* A struct literal whose fields were converted.
Struct(r) == Strict(LAMBDA s : IF \E f \in DOMAIN s : s[f] = Err THEN Err ELSE s, r)

\* A loop that converts every element and stops at the first error.
Each(convert(_), s) == Struct([i \in DOMAIN s |-> convert(s[i])])

\* A pointer that may be nil.
Opt(convert(_), v) == IF v = Nil THEN Nil ELSE convert(v)

\* A conversion that requires a field.
Require(condition, v) == IF condition THEN v ELSE Err

\* A loop that skips some elements: what a list has at the other places, in order.
Kept(s, places) ==
    LET Rank(i) == Cardinality({j \in places : j <= i})
    IN [n \in 1 .. Cardinality(places) |-> s[CHOOSE i \in places : Rank(i) = n]]

\* int32(n): the low 32 bits.
int32(n) == ((n + MaxInt32 + 1) % (2 * (MaxInt32 + 1))) - (MaxInt32 + 1)

\* A map[string]any is the set of its entries: "text", "ints" (an entry with
\* an integer in it) or "odd" (one that has no wire form).  structpb.NewStruct
\* makes every number a float, as decoding JSON does.
toProtoMap(m) == CASE m = Nil -> Nil
                   [] "odd" \in m -> Err
                   [] OTHER -> {IF e = "ints" THEN "floats" ELSE e : e \in m}

fromProtoMap(m) == m

\* json.Marshal of an optional map, which leaves an empty one out, and of a
\* time, which the protocol rounds down to a millisecond.
jsonMap(m) == IF m = {} THEN Nil ELSE toProtoMap(m)
jsonTimestamp(t) == IF t = Nil THEN Nil ELSE t - (t % Millisecond)

\* The states and roles of the protocol; "" is unspecified.
TaskStates == {"submitted", "working", "input-required", "auth-required", "completed",
               "canceled", "failed", "rejected"}
Roles == {"user", "agent"}

toProtoTaskState(s) == IF s \in TaskStates THEN s ELSE "unspecified"
fromProtoTaskState(s) == IF s \in TaskStates THEN s ELSE ""
toProtoRole(r) == IF r \in Roles THEN r ELSE "unspecified"
fromProtoRole(r) == IF r \in Roles THEN r ELSE ""
=============================================================================
