------------------------- MODULE Conversions_proofs -------------------------
(***************************************************************************)
(* What is written in one of the six bindings' forms and read again is     *)
(* what the binding carries (the references of Calls): every event of a    *)
(* stream, every request and every result but a card, whatever is in it.   *)
(***************************************************************************)
EXTENDS Calls, WellFoundedInduction, FiniteSetTheorems, TLAPS

\* What the theorems take of Nil and Err: neither is a function, and so
\* neither is a record or a sequence.
NotAFunction(x) == x # [i \in DOMAIN x |-> x[i]]

-----------------------------------------------------------------------------
(***************************************************************************)
(* Sequences of whatever elements.                                         *)
(***************************************************************************)
IsSequence(s) == s \in Seq({s[i] : i \in DOMAIN s})

\* A sequence has a length and is empty if that is 0.
LEMMA SequenceIs ==
    ASSUME NEW s, IsSequence(s)
    PROVE  /\ Len(s) \in Nat /\ DOMAIN s = 1 .. Len(s)
           /\ s = <<>> <=> Len(s) = 0
BY DEF IsSequence

\* The empty sequence is one.
LEMMA EmptyIs == IsSequence(<<>>) /\ Len(<<>>) = 0
BY DEF IsSequence

\* It is a function, too.
LEMMA EmptyIsAFunction == ASSUME NEW x, NotAFunction(x) PROVE x # <<>>
<1>1. <<>> \in Seq({})
  OBVIOUS
<1>2. \A s \in Seq({}) : s = [i \in DOMAIN s |-> s[i]]
  OBVIOUS
<1>3. <<>> = [i \in DOMAIN <<>> |-> <<>>[i]]
  BY <1>1, <1>2
<1>. QED  BY <1>3 DEF NotAFunction

\* A sequence of any set's elements is one of its own.
LEMMA OfASet ==
    ASSUME NEW S, NEW s \in Seq(S)
    PROVE  IsSequence(s)
<1>. DEFINE T == {s[i] : i \in DOMAIN s}
<1>1. Len(s) \in Nat /\ DOMAIN s = 1 .. Len(s) /\ s = [i \in 1 .. Len(s) |-> s[i]]
  OBVIOUS
<1>2. \A i \in 1 .. Len(s) : s[i] \in T
  BY <1>1
<1>3. s \in [1 .. Len(s) -> T]
  BY <1>1, <1>2
<1>4. s \in Seq(T)
  <2>. HIDE DEF T
  <2>. QED  BY <1>1, <1>3
<1>. QED  BY <1>4 DEF IsSequence

\* What Append, Tail and SubSeq make.
LEMMA AppendIs ==
    ASSUME NEW s, IsSequence(s), NEW x
    PROVE  /\ IsSequence(Append(s, x)) /\ Len(Append(s, x)) = Len(s) + 1
           /\ \A i \in 1 .. Len(s) : Append(s, x)[i] = s[i]
           /\ Append(s, x)[Len(s) + 1] = x
<1>. DEFINE S == {s[i] : i \in DOMAIN s} \cup {x}
<1>1. s \in Seq(S) /\ x \in S
  BY DEF IsSequence
<1>. HIDE DEF S
<1>2. Append(s, x) \in Seq(S)
  BY <1>1
<1>3. IsSequence(Append(s, x))
  BY <1>2, OfASet
<1>. QED  BY <1>1, <1>3

\* What is left of a sequence without its first element.
LEMMA TailIs ==
    ASSUME NEW s, IsSequence(s), s # <<>>
    PROVE  /\ IsSequence(Tail(s)) /\ Len(Tail(s)) = Len(s) - 1
           /\ Head(s) = s[1]
           /\ \A i \in 1 .. Len(s) - 1 : Tail(s)[i] = s[i + 1]
<1>. DEFINE S == {s[i] : i \in DOMAIN s}
<1>1. s \in Seq(S)
  BY DEF IsSequence
<1>. HIDE DEF S
<1>2. Tail(s) \in Seq(S)
  BY <1>1
<1>3. IsSequence(Tail(s))
  BY <1>2, OfASet
<1>. QED  BY <1>1, <1>3

\* The first n elements of a sequence.
LEMMA PrefixIs ==
    ASSUME NEW s, IsSequence(s), NEW n \in 0 .. Len(s)
    PROVE  /\ IsSequence(SubSeq(s, 1, n)) /\ Len(SubSeq(s, 1, n)) = n
           /\ \A i \in 1 .. n : SubSeq(s, 1, n)[i] = s[i]
<1>. DEFINE S == {s[i] : i \in DOMAIN s}
<1>1. s \in Seq(S)
  BY DEF IsSequence
<1>. HIDE DEF S
<1>2. n \in Int /\ Len(s) \in Nat /\ n <= Len(s) /\ 0 <= n
  BY <1>1
<1>3. \A i \in 1 .. n : i \in DOMAIN s /\ s[i] \in S
  BY <1>1, <1>2
<1>4. SubSeq(s, 1, n) = [i \in 1 .. n |-> s[i]]
  BY <1>1, <1>2
<1>5. [i \in 1 .. n |-> s[i]] \in Seq(S)
  BY <1>2, <1>3
<1>6. IsSequence(SubSeq(s, 1, n))
  BY <1>4, <1>5, OfASet
<1>7. Len([i \in 1 .. n |-> s[i]]) = n
  BY <1>2, <1>3, <1>5
<1>. QED  BY <1>4, <1>6, <1>7

\* A set of places that is not empty has a first one.
LEMMA Least ==
    ASSUME NEW S, S \subseteq Nat, S # {}
    PROVE  LET k == CHOOSE i \in S : \A j \in S : i <= j
           IN k \in S /\ \A j \in S : k <= j
<1>1. PICK k \in S : \A l \in S : ~(<<l, k>> \in OpToRel(<, Nat))
  BY WFMin, NatLessThanWellFounded
<1>2. \A l \in S : ~(l < k)
  BY <1>1 DEF OpToRel
<1>3. k \in Nat /\ \A l \in S : l \in Nat
  OBVIOUS
<1>4. \A l \in S : k <= l
  BY <1>2, <1>3
<1>. QED  BY <1>4

-----------------------------------------------------------------------------
(***************************************************************************)
(* Struct literals, lists and maps.                                        *)
(***************************************************************************)
\* A list of values is a sequence.
LEMMA ListIs ==
    ASSUME NEW s, IsList(s)
    PROVE  IsSequence(s) /\ s = [i \in DOMAIN s |-> s[i]]
<1>. DEFINE S == {s[i] : i \in DOMAIN s}
<1>1. /\ Len(s) \in Nat /\ s = [i \in 1 .. Len(s) |-> s[i]] /\ DOMAIN s = 1 .. Len(s)
  BY DEF IsList
<1>2. \A i \in 1 .. Len(s) : s[i] \in S
  BY <1>1
<1>. HIDE DEF S
<1>3. s \in Seq(S)
  BY <1>1, <1>2
<1>4. IsSequence(s)
  BY <1>3, OfASet
<1>. QED  BY <1>1, <1>4

\* A struct is its fields, unless one of them did not convert.
LEMMA StructIs ==
    ASSUME NEW r
    PROVE  Struct(r) = IF \E f \in DOMAIN r : r[f] = Err THEN Err ELSE r
<1>. DEFINE y == IF \E f \in DOMAIN r : r[f] = Err THEN Err ELSE r
<1>1. {IF \E f \in DOMAIN x : x[f] = Err THEN Err ELSE x : x \in {r}} = {y}
  OBVIOUS
<1>2. (CHOOSE z \in {y} : TRUE) = y
  OBVIOUS
<1>. QED  BY <1>1, <1>2 DEF Struct, Strict

\* A map is not absent, nor is one with the mark of version 0.3.
LEMMA MapsAre ==
    \A m \in SUBSET Entries :
        m # Nil /\ m # Err /\ (m \cup {Mark}) # Nil /\ (m \cup {Mark}) # Err
BY MapAssumption

\* A map's conversion fails if it has an entry without a wire form.
LEMMA MapIs ==
    ASSUME NEW m, m \in SUBSET Entries
    PROVE  /\ m # Nil
           /\ toProtoMap(m) = IF "odd" \in m THEN Err ELSE Numbers(m)
           /\ Numbers(m) \in SUBSET Entries /\ Numbers(m) # Err /\ Numbers(m) # Nil
           /\ Numbers(m) = {} <=> m = {}
<1>1. m # Nil
  BY MapsAre
<1>2. Numbers(m) = {IF e = "ints" THEN "floats" ELSE e : e \in m}
  BY <1>1 DEF Numbers
<1>3. Numbers(m) \in SUBSET Entries
  BY <1>2 DEF Entries
<1>4. Numbers(m) # Err /\ Numbers(m) # Nil
  BY <1>3, MapsAre
<1>5. Numbers(m) = {} <=> m = {}
  BY <1>2
<1>6. toProtoMap(m) = IF "odd" \in m THEN Err ELSE Numbers(m)
  BY <1>1, <1>2 DEF toProtoMap
<1>. QED  BY <1>1, <1>3, <1>4, <1>5, <1>6

-----------------------------------------------------------------------------
(***************************************************************************)
(* What the bindings carry, field by field.                                *)
(***************************************************************************)
\* A struct that did convert is its fields, and each of them did.
LEMMA Converted ==
    ASSUME NEW r, Struct(r) # Err
    PROVE  Struct(r) = r /\ \A f \in DOMAIN r : r[f] # Err
BY StructIs

\* The maps, roles and states on the wire.
LEMMA MapCrosses ==
    ASSUME NEW m, IsMap(m)
    PROVE  /\ \A b : b \notin HTTP /\ toProtoMap(m) # Err => toProtoMap(m) = CarriedMap(b, m)
           /\ \A b \in HTTP : jsonMap(m) # Err => jsonMap(m) = CarriedMap(b, m)
<1>1. CASE m = Nil
  <2>1. Nil # {}
    BY MapsAre
  <2>. QED  BY <1>1, <2>1 DEF toProtoMap, jsonMap, CarriedMap, Numbers
<1>2. CASE m # Nil
  <2>1. m \in SUBSET Entries
    BY <1>2 DEF IsMap
  <2>2. /\ toProtoMap(m) = IF "odd" \in m THEN Err ELSE Numbers(m)
        /\ Numbers(m) = {} <=> m = {}
    BY <2>1, MapIs
  <2>. QED  BY <2>2 DEF jsonMap, CarriedMap
<1>. QED  BY <1>1, <1>2

\* The mark of version 0.3 is in no map, and can be taken out again.
LEMMA Marks ==
    ASSUME NEW m, IsMap(m)
    PROVE  /\ m # Nil => m \in SUBSET Entries
           /\ Numbers(m) # Nil => Mark \notin Numbers(m)
           /\ LET n == IF m = Nil THEN {} ELSE m
                  marked == n \cup {Mark}
              IN /\ n \in SUBSET Entries /\ marked # Nil /\ marked # {}
                 /\ toProtoMap(marked) # Err =>
                       /\ toProtoMap(marked) = Numbers(n) \cup {Mark}
                       /\ Numbers(n) \cup {Mark} # Nil
                       /\ (Numbers(n) \cup {Mark}) \ {Mark} = Numbers(n)
<1>. DEFINE n == IF m = Nil THEN {} ELSE m
            marked == n \cup {Mark}
<1>1. m # Nil => m \in SUBSET Entries
  BY DEF IsMap
<1>2. n \in SUBSET Entries
  BY <1>1
<1>3. Mark \notin Entries
  BY DEF Mark, Entries
<1>4. Numbers(n) \in SUBSET Entries
  BY <1>2, MapIs
<1>5. Numbers(m) # Nil => Mark \notin Numbers(m)
  BY <1>3, <1>4 DEF Numbers
<1>6. n # Nil /\ marked # Nil /\ Numbers(n) \cup {Mark} # Nil
  BY <1>2, <1>4, MapsAre
<1>. HIDE DEF n
<1>7. ASSUME toProtoMap(marked) # Err PROVE toProtoMap(marked) = Numbers(n) \cup {Mark}
  <2>1. toProtoMap(marked) = {IF e = "ints" THEN "floats" ELSE e : e \in marked}
    BY <1>6, <1>7 DEF toProtoMap
  <2>2. Numbers(n) = {IF e = "ints" THEN "floats" ELSE e : e \in n}
    BY <1>6 DEF Numbers
  <2>3. Mark # "ints"
    BY DEF Mark
  <2>. QED  BY <2>1, <2>2, <2>3
<1>8. (Numbers(n) \cup {Mark}) \ {Mark} = Numbers(n)
  BY <1>3, <1>4
<1>. QED  BY <1>1, <1>2, <1>5, <1>6, <1>7, <1>8 DEF n

\* Roles and states have a number each, and come back from it.
LEMMA EnumsCross ==
    /\ \A r \in Roles \cup {""} : fromProtoRole(toProtoRole(r)) = r
    /\ \A s \in TaskStates \cup {""} : fromProtoTaskState(toProtoTaskState(s)) = s
BY DEF fromProtoRole, toProtoRole, fromProtoTaskState, toProtoTaskState, Roles, TaskStates

\* Records with some fields replaced, one at a time.
LEMMA MessageWith ==
    ASSUME NEW m, NEW x, NEW y, NEW z,
           IsMessage(m)
    PROVE  [m EXCEPT !.parts = x, !.metadata = y, !.refs = z]
           = [type |-> "message", id |-> m.id, context |-> m.context, task |-> m.task,
              role |-> m.role, parts |-> x, metadata |-> y, extensions |-> m.extensions, refs |-> z]
<1>0. m = [type |-> "message", id |-> m.id, context |-> m.context, task |-> m.task, role |-> m.role,
          parts |-> m.parts, metadata |-> m.metadata, extensions |-> m.extensions, refs |-> m.refs]
  BY DEF IsMessage
<1>. DEFINE m1 == [m EXCEPT !.parts = x]
            m2 == [m1 EXCEPT !.metadata = y]
            m3 == [m2 EXCEPT !.refs = z]
<1>1. m1 = [type |-> "message", id |-> m.id, context |-> m.context, task |-> m.task, role |-> m.role,
           parts |-> x, metadata |-> m.metadata, extensions |-> m.extensions, refs |-> m.refs]
  BY <1>0
<1>2. m2 = [type |-> "message", id |-> m.id, context |-> m.context, task |-> m.task, role |-> m.role,
           parts |-> x, metadata |-> y, extensions |-> m.extensions, refs |-> m.refs]
  <2>1. m2 = [m1 EXCEPT !.metadata = y]
    OBVIOUS
  <2>. HIDE DEF m1, m2
  <2>. QED  BY <1>1, <2>1
<1>3. m3 = [type |-> "message", id |-> m.id, context |-> m.context, task |-> m.task, role |-> m.role,
           parts |-> x, metadata |-> y, extensions |-> m.extensions, refs |-> z]
  <2>1. m3 = [m2 EXCEPT !.refs = z]
    OBVIOUS
  <2>. HIDE DEF m1, m2, m3
  <2>. QED  BY <1>2, <2>1
<1>4. [m EXCEPT !.parts = x, !.metadata = y, !.refs = z] = m3
  OBVIOUS
<1>. QED  BY <1>3, <1>4

\* The same for a task.
LEMMA TaskWith ==
    ASSUME NEW t, NEW x, NEW y, NEW z, NEW w,
           IsTask(t)
    PROVE  [t EXCEPT !.status = x, !.artifacts = y, !.history = z, !.metadata = w]
           = [type |-> "task", id |-> t.id, context |-> t.context, status |-> x, artifacts |-> y,
              history |-> z, metadata |-> w]
<1>0. t = [type |-> "task", id |-> t.id, context |-> t.context, status |-> t.status,
          artifacts |-> t.artifacts, history |-> t.history, metadata |-> t.metadata]
  BY DEF IsTask
<1>. DEFINE t1 == [t EXCEPT !.status = x]
            t2 == [t1 EXCEPT !.artifacts = y]
            t3 == [t2 EXCEPT !.history = z]
            t4 == [t3 EXCEPT !.metadata = w]
<1>1. t1 = [type |-> "task", id |-> t.id, context |-> t.context, status |-> x,
           artifacts |-> t.artifacts, history |-> t.history, metadata |-> t.metadata]
  BY <1>0
<1>2. t2 = [type |-> "task", id |-> t.id, context |-> t.context, status |-> x, artifacts |-> y,
           history |-> t.history, metadata |-> t.metadata]
  <2>1. t2 = [t1 EXCEPT !.artifacts = y]
    OBVIOUS
  <2>. HIDE DEF t1, t2
  <2>. QED  BY <1>1, <2>1
<1>3. t3 = [type |-> "task", id |-> t.id, context |-> t.context, status |-> x, artifacts |-> y,
           history |-> z, metadata |-> t.metadata]
  <2>1. t3 = [t2 EXCEPT !.history = z]
    OBVIOUS
  <2>. HIDE DEF t1, t2, t3
  <2>. QED  BY <1>2, <2>1
<1>4. t4 = [type |-> "task", id |-> t.id, context |-> t.context, status |-> x, artifacts |-> y,
           history |-> z, metadata |-> w]
  <2>1. t4 = [t3 EXCEPT !.metadata = w]
    OBVIOUS
  <2>. HIDE DEF t1, t2, t3, t4
  <2>. QED  BY <1>3, <2>1
<1>5. [t EXCEPT !.status = x, !.artifacts = y, !.history = z, !.metadata = w] = t4
  OBVIOUS
<1>. QED  BY <1>4, <1>5

\* The same for a status.
LEMMA StatusWith ==
    ASSUME NEW s, NEW x, NEW y,
           IsStatus(s)
    PROVE  [s EXCEPT !.message = x, !.time = y]
           = [state |-> s.state, message |-> x, time |-> y]
<1>0. s = [state |-> s.state, message |-> s.message, time |-> s.time]
  BY DEF IsStatus
<1>. DEFINE s1 == [s EXCEPT !.message = x]
            s2 == [s1 EXCEPT !.time = y]
<1>1. s1 = [state |-> s.state, message |-> x, time |-> s.time]
  BY <1>0
<1>2. s2 = [state |-> s.state, message |-> x, time |-> y]
  <2>1. s2 = [s1 EXCEPT !.time = y]
    OBVIOUS
  <2>. HIDE DEF s1, s2
  <2>. QED  BY <1>1, <2>1
<1>3. [s EXCEPT !.message = x, !.time = y] = s2
  OBVIOUS
<1>. QED  BY <1>2, <1>3

\* The same for a status update.
LEMMA StatusUpdateWith ==
    ASSUME NEW e, NEW x, NEW y,
           IsStatusUpdate(e)
    PROVE  [e EXCEPT !.status = x, !.metadata = y]
           = [type |-> "status", task |-> e.task, context |-> e.context, status |-> x, metadata |-> y]
<1>0. e = [type |-> "status", task |-> e.task, context |-> e.context, status |-> e.status,
          metadata |-> e.metadata]
  BY DEF IsStatusUpdate
<1>. DEFINE e1 == [e EXCEPT !.status = x]
            e2 == [e1 EXCEPT !.metadata = y]
<1>1. e1 = [type |-> "status", task |-> e.task, context |-> e.context, status |-> x,
           metadata |-> e.metadata]
  BY <1>0
<1>2. e2 = [type |-> "status", task |-> e.task, context |-> e.context, status |-> x, metadata |-> y]
  <2>1. e2 = [e1 EXCEPT !.metadata = y]
    OBVIOUS
  <2>. HIDE DEF e1, e2
  <2>. QED  BY <1>1, <2>1
<1>3. [e EXCEPT !.status = x, !.metadata = y] = e2
  OBVIOUS
<1>. QED  BY <1>2, <1>3

\* The same for a artifact update.
LEMMA ArtifactUpdateWith ==
    ASSUME NEW e, NEW x, NEW y,
           IsArtifactUpdate(e)
    PROVE  [e EXCEPT !.artifact = x, !.metadata = y]
           = [type |-> "artifact", task |-> e.task, context |-> e.context, append |-> e.append,
              lastChunk |-> e.lastChunk, artifact |-> x, metadata |-> y]
<1>0. e = [type |-> "artifact", task |-> e.task, context |-> e.context, append |-> e.append,
          lastChunk |-> e.lastChunk, artifact |-> e.artifact, metadata |-> e.metadata]
  BY DEF IsArtifactUpdate
<1>. DEFINE e1 == [e EXCEPT !.artifact = x]
            e2 == [e1 EXCEPT !.metadata = y]
<1>1. e1 = [type |-> "artifact", task |-> e.task, context |-> e.context, append |-> e.append,
           lastChunk |-> e.lastChunk, artifact |-> x, metadata |-> e.metadata]
  BY <1>0
<1>2. e2 = [type |-> "artifact", task |-> e.task, context |-> e.context, append |-> e.append,
           lastChunk |-> e.lastChunk, artifact |-> x, metadata |-> y]
  <2>1. e2 = [e1 EXCEPT !.metadata = y]
    OBVIOUS
  <2>. HIDE DEF e1, e2
  <2>. QED  BY <1>1, <2>1
<1>3. [e EXCEPT !.artifact = x, !.metadata = y] = e2
  OBVIOUS
<1>. QED  BY <1>2, <1>3

\* What is carried of a record, as a record.
LEMMA CarriedMessageIs ==
    ASSUME NEW b, NEW m, IsMessage(m), NotAFunction(Nil)
    PROVE  /\ m # Nil
           /\ CarriedMessage(b, m) =
                [type |-> "message", id |-> m.id, context |-> m.context, task |-> m.task,
                 role |-> m.role, parts |-> [i \in DOMAIN m.parts |-> CarriedPart(b, m.parts[i])],
                 metadata |-> CarriedMap(b, m.metadata), extensions |-> m.extensions,
                 refs |-> IF b = "rest0" THEN <<>> ELSE m.refs]
<1>1. m = [type |-> "message", id |-> m.id, context |-> m.context, task |-> m.task,
           role |-> m.role, parts |-> m.parts, metadata |-> m.metadata,
           extensions |-> m.extensions, refs |-> m.refs]
  BY DEF IsMessage
<1>2. m # Nil
  BY <1>1 DEF NotAFunction
<1>3. CarriedMessage(b, m) =
        [m EXCEPT !.parts = [i \in DOMAIN m.parts |-> CarriedPart(b, m.parts[i])],
                  !.metadata = CarriedMap(b, m.metadata),
                  !.refs = IF b = "rest0" THEN <<>> ELSE m.refs]
  BY <1>2 DEF CarriedMessage, Opt
<1>. DEFINE x == [i \in DOMAIN m.parts |-> CarriedPart(b, m.parts[i])]
            y == CarriedMap(b, m.metadata)
            z == IF b = "rest0" THEN <<>> ELSE m.refs
<1>4. CarriedMessage(b, m) = [m EXCEPT !.parts = x, !.metadata = y, !.refs = z]
  BY <1>3
<1>. HIDE DEF x, y, z
<1>5. CarriedMessage(b, m) =
        [type |-> "message", id |-> m.id, context |-> m.context, task |-> m.task,
         role |-> m.role, parts |-> x, metadata |-> y, extensions |-> m.extensions, refs |-> z]
  BY <1>4, MessageWith
<1>. QED  BY <1>2, <1>5 DEF x, y, z

\* What a binding carries of an artifact, as a record.
LEMMA CarriedArtifactIs ==
    ASSUME NEW b, NEW a, IsArtifact(a)
    PROVE  CarriedArtifact(b, a) =
                [id |-> a.id, name |-> a.name, description |-> a.description,
                 parts |-> [i \in DOMAIN a.parts |-> CarriedPart(b, a.parts[i])],
                 metadata |-> CarriedMap(b, a.metadata), extensions |-> a.extensions]
<1>1. a = [id |-> a.id, name |-> a.name, description |-> a.description, parts |-> a.parts,
           metadata |-> a.metadata, extensions |-> a.extensions]
  BY DEF IsArtifact
<1>2. CarriedArtifact(b, a) =
        [a EXCEPT !.parts = [i \in DOMAIN a.parts |-> CarriedPart(b, a.parts[i])],
                  !.metadata = CarriedMap(b, a.metadata)]
  BY DEF CarriedArtifact
<1>. QED  BY <1>1, <1>2

\* The same of a status.
LEMMA CarriedStatusIs ==
    ASSUME NEW b, NEW s, IsStatus(s)
    PROVE  CarriedStatus(b, s) =
                [state |-> s.state, message |-> CarriedMessage(b, s.message),
                 time |-> IF b \in {"rpc1", "rest1"} THEN jsonTimestamp(s.time) ELSE s.time]
<1>. DEFINE x == CarriedMessage(b, s.message)
            y == IF b \in {"rpc1", "rest1"} THEN jsonTimestamp(s.time) ELSE s.time
<1>1. s = [state |-> s.state, message |-> s.message, time |-> s.time]
  BY DEF IsStatus
<1>2. CarriedStatus(b, s) = [s EXCEPT !.message = x, !.time = y]
  BY DEF CarriedStatus
<1>. HIDE DEF x, y
<1>3. CarriedStatus(b, s) = [state |-> s.state, message |-> x, time |-> y]
  BY <1>1, <1>2, StatusWith
<1>. QED  BY <1>3 DEF x, y

\* The same of a task.
LEMMA CarriedTaskIs ==
    ASSUME NEW b, NEW t, IsTask(t)
    PROVE  CarriedTask(b, t) =
                [type |-> "task", id |-> t.id, context |-> t.context,
                 status |-> CarriedStatus(b, t.status),
                 artifacts |-> [i \in DOMAIN t.artifacts |-> CarriedArtifact(b, t.artifacts[i])],
                 history |-> [i \in DOMAIN t.history |-> CarriedMessage(b, t.history[i])],
                 metadata |-> CarriedMap(b, t.metadata)]
<1>1. t = [type |-> "task", id |-> t.id, context |-> t.context, status |-> t.status,
           artifacts |-> t.artifacts, history |-> t.history, metadata |-> t.metadata]
  BY DEF IsTask
<1>2. CarriedTask(b, t) =
        [t EXCEPT !.status = CarriedStatus(b, t.status),
                  !.artifacts = [i \in DOMAIN t.artifacts |-> CarriedArtifact(b, t.artifacts[i])],
                  !.history = [i \in DOMAIN t.history |-> CarriedMessage(b, t.history[i])],
                  !.metadata = CarriedMap(b, t.metadata)]
  BY DEF CarriedTask
<1>. DEFINE x == CarriedStatus(b, t.status)
            y == [i \in DOMAIN t.artifacts |-> CarriedArtifact(b, t.artifacts[i])]
            z == [i \in DOMAIN t.history |-> CarriedMessage(b, t.history[i])]
            w == CarriedMap(b, t.metadata)
<1>3. CarriedTask(b, t) = [t EXCEPT !.status = x, !.artifacts = y, !.history = z, !.metadata = w]
  BY <1>2
<1>. HIDE DEF x, y, z, w
<1>4. CarriedTask(b, t) =
        [type |-> "task", id |-> t.id, context |-> t.context, status |-> x, artifacts |-> y,
         history |-> z, metadata |-> w]
  BY <1>1, <1>3, TaskWith
<1>. QED  BY <1>4 DEF x, y, z, w

\* The same of an event, by its type.
LEMMA CarriedEventIs ==
    ASSUME NEW b, NEW e
    PROVE  /\ e.type = "message" => CarriedEvent(b, e) = CarriedMessage(b, e)
           /\ e.type = "task" => CarriedEvent(b, e) = CarriedTask(b, e)
           /\ e.type = "status" /\ IsStatusUpdate(e) =>
                CarriedEvent(b, e) =
                    [type |-> "status", task |-> e.task, context |-> e.context,
                     status |-> CarriedStatus(b, e.status), metadata |-> CarriedMap(b, e.metadata)]
           /\ e.type = "artifact" /\ IsArtifactUpdate(e) =>
                CarriedEvent(b, e) =
                    [type |-> "artifact", task |-> e.task, context |-> e.context,
                     append |-> e.append, lastChunk |-> e.lastChunk,
                     artifact |-> CarriedArtifact(b, e.artifact),
                     metadata |-> CarriedMap(b, e.metadata)]
<1>1. e.type = "message" => CarriedEvent(b, e) = CarriedMessage(b, e)
  BY DEF CarriedEvent
<1>2. e.type = "task" => CarriedEvent(b, e) = CarriedTask(b, e)
  BY DEF CarriedEvent
<1>3. ASSUME e.type = "status", IsStatusUpdate(e)
      PROVE  CarriedEvent(b, e) =
                    [type |-> "status", task |-> e.task, context |-> e.context,
                     status |-> CarriedStatus(b, e.status), metadata |-> CarriedMap(b, e.metadata)]
  <2>1. e = [type |-> "status", task |-> e.task, context |-> e.context, status |-> e.status,
             metadata |-> e.metadata]
    BY <1>3 DEF IsStatusUpdate
  <2>2. CarriedEvent(b, e) = [e EXCEPT !.status = CarriedStatus(b, e.status),
                                       !.metadata = CarriedMap(b, e.metadata)]
    BY <1>3 DEF CarriedEvent
  <2>. QED  BY <1>3, <2>2, StatusUpdateWith
<1>4. ASSUME e.type = "artifact", IsArtifactUpdate(e)
      PROVE  CarriedEvent(b, e) =
                    [type |-> "artifact", task |-> e.task, context |-> e.context,
                     append |-> e.append, lastChunk |-> e.lastChunk,
                     artifact |-> CarriedArtifact(b, e.artifact),
                     metadata |-> CarriedMap(b, e.metadata)]
  <2>1. e = [type |-> "artifact", task |-> e.task, context |-> e.context, append |-> e.append,
             lastChunk |-> e.lastChunk, artifact |-> e.artifact, metadata |-> e.metadata]
    BY <1>4 DEF IsArtifactUpdate
  <2>2. CarriedEvent(b, e) = [e EXCEPT !.artifact = CarriedArtifact(b, e.artifact),
                                       !.metadata = CarriedMap(b, e.metadata)]
    BY <1>4 DEF CarriedEvent
  <2>. QED  BY <1>4, <2>2, ArtifactUpdateWith
<1>. QED  BY <1>1, <1>2, <1>3, <1>4

-----------------------------------------------------------------------------
(* gRPC, version 1 *)

\* What gRPC of version 1 (pbconv) shares with the others.
LEMMA WireOfV1 ==
    /\ \A r : V1!Struct(r) = Struct(r)
    /\ \A m : V1!toProtoMap(m) = toProtoMap(m) /\ V1!fromProtoMap(m) = m
    /\ \A x : V1!toProtoRole(x) = toProtoRole(x) /\ V1!fromProtoRole(x) = fromProtoRole(x)
    /\ \A x : /\ V1!toProtoTaskState(x) = toProtoTaskState(x)
              /\ V1!fromProtoTaskState(x) = fromProtoTaskState(x)
<1>1. ASSUME NEW r PROVE V1!Struct(r) = Struct(r)
  BY DEF V1!Struct, V1!Strict, Struct, Strict
<1>2. ASSUME NEW m PROVE V1!toProtoMap(m) = toProtoMap(m) /\ V1!fromProtoMap(m) = m
  BY DEF V1!toProtoMap, V1!fromProtoMap, toProtoMap
<1>3. ASSUME NEW x
      PROVE  /\ V1!toProtoRole(x) = toProtoRole(x) /\ V1!fromProtoRole(x) = fromProtoRole(x)
             /\ V1!toProtoTaskState(x) = toProtoTaskState(x)
             /\ V1!fromProtoTaskState(x) = fromProtoTaskState(x)
  BY DEF V1!toProtoRole, V1!fromProtoRole, V1!toProtoTaskState, V1!fromProtoTaskState,
         toProtoRole, fromProtoRole, toProtoTaskState, fromProtoTaskState,
         V1!Roles, V1!TaskStates, Roles, TaskStates
<1>. QED  BY <1>1, <1>2, <1>3

\* A part that is sent arrives.
LEMMA PartOfV1 ==
    ASSUME NEW p, IsPart(p), V1!toProtoPart(p) # Err
    PROVE  /\ V1!fromProtoPart(V1!toProtoPart(p)) = CarriedPart("grpc1", p)
<1>. DEFINE content == [kind |-> p.content.kind,
                        value |-> IF p.content.kind \in {"data", "value"}
                                  THEN toProtoMap(p.content.value) ELSE p.content.value]
            sent == [content |-> Struct(content), filename |-> p.filename,
                     mediaType |-> p.mediaType, metadata |-> toProtoMap(p.metadata)]
<1>1. IsContent(p.content) /\ IsMap(p.metadata)
  BY DEF IsPart
<1>2. V1!toProtoPart(p) = Struct(sent)
  BY WireOfV1 DEF V1!toProtoPart, V1!Require
<1>3. Struct(sent) = sent /\ sent.content # Err /\ sent.metadata # Err
  BY <1>2, Converted
<1>4. sent.content = content /\ content.value # Err
  BY <1>3, Converted
<1>5. toProtoMap(p.metadata) = CarriedMap("grpc1", p.metadata)
  BY <1>1, <1>3, MapCrosses DEF HTTP
<1>6. p.content.kind \in {"data", "value"} => toProtoMap(p.content.value) = Numbers(p.content.value)
  <2>1. p.content.kind \in {"data", "value"} => p.content.value \in SUBSET Entries
    BY <1>1 DEF IsContent
  <2>. QED  BY <1>4, <2>1, MapIs
<1>7. p.content = [kind |-> p.content.kind, value |-> p.content.value]
  BY <1>1 DEF IsContent
<1>8. V1!fromProtoPart(V1!toProtoPart(p)) =
        [content |-> content, filename |-> p.filename, mediaType |-> p.mediaType,
         metadata |-> toProtoMap(p.metadata)]
  BY <1>2, <1>3, <1>4, WireOfV1 DEF V1!fromProtoPart
<1>9. CarriedPart("grpc1", p) =
        [content |-> [p.content EXCEPT !.value = IF p.content.kind \in {"data", "value"}
                                                 THEN Numbers(p.content.value) ELSE p.content.value],
         filename |-> p.filename, mediaType |-> p.mediaType,
         metadata |-> CarriedMap("grpc1", p.metadata)]
  BY DEF CarriedPart, Legacy
<1>. QED  BY <1>5, <1>6, <1>7, <1>8, <1>9

\* Nothing that is carried is an error.
LEMMA CarriedAreNoErrors ==
    ASSUME NotAFunction(Nil), NotAFunction(Err), NEW b
    PROVE  /\ \A p : CarriedPart(b, p) # Err
           /\ \A m : m = Nil \/ IsMessage(m) => CarriedMessage(b, m) # Err
           /\ \A a : IsArtifact(a) => CarriedArtifact(b, a) # Err
           /\ \A s : IsStatus(s) => CarriedStatus(b, s) # Err
           /\ \A t : IsTask(t) => CarriedTask(b, t) # Err
<1>1. ASSUME NEW p PROVE CarriedPart(b, p) # Err
  <2>. DEFINE rec(c, f, m, d) == [content |-> c, filename |-> f, mediaType |-> m, metadata |-> d]
  <2>1. \A c, f, m, d : rec(c, f, m, d) # Err
    BY DEF NotAFunction
  <2>2. \E c, f, m, d : CarriedPart(b, p) = rec(c, f, m, d)
    BY DEF CarriedPart
  <2>. QED  BY <2>1, <2>2
<1>2. ASSUME NEW m, m = Nil \/ IsMessage(m) PROVE CarriedMessage(b, m) # Err
  <2>1. CASE m = Nil
    BY <2>1, WireAssumption DEF CarriedMessage, Opt
  <2>2. CASE IsMessage(m)
    BY <2>2, CarriedMessageIs DEF NotAFunction
  <2>. QED  BY <1>2, <2>1, <2>2
<1>3. ASSUME NEW a, IsArtifact(a) PROVE CarriedArtifact(b, a) # Err
  BY <1>3, CarriedArtifactIs DEF NotAFunction
<1>4. ASSUME NEW s, IsStatus(s) PROVE CarriedStatus(b, s) # Err
  BY <1>4, CarriedStatusIs DEF NotAFunction
<1>5. ASSUME NEW t, IsTask(t) PROVE CarriedTask(b, t) # Err
  BY <1>5, CarriedTaskIs DEF NotAFunction
<1>. QED  BY <1>1, <1>2, <1>3, <1>4, <1>5

\* A message that is sent arrives, if it is read.
LEMMA MessageOfV1 ==
    ASSUME NotAFunction(Nil), NotAFunction(Err), NEW m, m = Nil \/ IsMessage(m),
           V1!toProtoMessage(m) # Err, V1!FromProtoMessage(V1!toProtoMessage(m)) # Err
    PROVE  V1!FromProtoMessage(V1!toProtoMessage(m)) = CarriedMessage("grpc1", m)
<1>1. CASE m = Nil
  BY <1>1 DEF V1!toProtoMessage, V1!FromProtoMessage, V1!Opt, CarriedMessage, Opt
<1>2. CASE IsMessage(m)
  <2>. DEFINE W == [i \in DOMAIN m.parts |-> V1!toProtoPart(m.parts[i])]
              D == [i \in DOMAIN W |-> V1!fromProtoPart(W[i])]
              C == [i \in DOMAIN m.parts |-> CarriedPart("grpc1", m.parts[i])]
              sent == [messageId |-> m.id, contextId |-> m.context, taskId |-> m.task,
                       role |-> toProtoRole(m.role), parts |-> Struct(W),
                       metadata |-> toProtoMap(m.metadata), extensions |-> m.extensions,
                       referenceTaskIds |-> m.refs]
              read == [type |-> "message", id |-> m.id, context |-> m.context, task |-> m.task,
                       role |-> m.role, parts |-> Struct(D), metadata |-> toProtoMap(m.metadata),
                       extensions |-> m.extensions, refs |-> m.refs]
  <2>1. m # Nil
    BY <1>2, CarriedMessageIs
  <2>2. V1!toProtoMessage(m) = Struct(sent)
    BY <2>1, WireOfV1 DEF V1!toProtoMessage, V1!Opt, V1!Each
  <2>3. Struct(sent) = sent /\ Struct(W) # Err /\ toProtoMap(m.metadata) # Err
    BY <2>2, Converted
  <2>4. Struct(W) = W /\ \A i \in DOMAIN m.parts : W[i] # Err
    BY <2>3, Converted
  <2>5. IsParts(m.parts) /\ IsMap(m.metadata) /\ m.role \in Roles \cup {""}
    BY <1>2 DEF IsMessage
  <2>6. \A i \in DOMAIN m.parts : IsPart(m.parts[i])
    BY <2>5 DEF IsParts, IsListOf
  <2>7. D = C
    <3>1. \A i \in DOMAIN m.parts : V1!fromProtoPart(V1!toProtoPart(m.parts[i])) = CarriedPart("grpc1", m.parts[i])
      BY <2>4, <2>6, PartOfV1
    <3>. QED  BY <3>1
  <2>8. Struct(C) = C
    BY StructIs, CarriedAreNoErrors
  <2>9. toProtoMap(m.metadata) = CarriedMap("grpc1", m.metadata)
    BY <2>3, <2>5, MapCrosses DEF HTTP
  <2>10. V1!FromProtoMessage(sent) \in {Err, Struct(read)}
    <3>1. sent # Nil
      BY DEF NotAFunction
    <3>2. fromProtoRole(sent.role) = m.role
      BY <2>5, EnumsCross
    <3>. QED  BY <2>4, <3>1, <3>2, WireOfV1 DEF V1!FromProtoMessage, V1!Opt, V1!Require, V1!Each
  <2>11. V1!FromProtoMessage(sent) = read
    BY <2>2, <2>3, <2>10, Converted
  <2>12. read = CarriedMessage("grpc1", m)
    <3>1. CarriedMessage("grpc1", m) =
            [type |-> "message", id |-> m.id, context |-> m.context, task |-> m.task,
             role |-> m.role, parts |-> C, metadata |-> CarriedMap("grpc1", m.metadata),
             extensions |-> m.extensions, refs |-> m.refs]
      BY <1>2, CarriedMessageIs
    <3>2. Struct(D) = C
      BY <2>7, <2>8
    <3>. HIDE DEF C, D
    <3>. QED  BY <2>9, <3>1, <3>2
  <2>. QED  BY <2>2, <2>3, <2>11, <2>12
<1>. QED  BY <1>1, <1>2

\* A status that crosses gRPC of version 1.
LEMMA StatusOfV1 ==
    ASSUME NotAFunction(Nil), NotAFunction(Err), NEW s, IsStatus(s),
           V1!toProtoTaskStatus(s) # Err, V1!fromProtoTaskStatus(V1!toProtoTaskStatus(s)) # Err
    PROVE  V1!fromProtoTaskStatus(V1!toProtoTaskStatus(s)) = CarriedStatus("grpc1", s)
<1>. DEFINE sent == [state |-> toProtoTaskState(s.state), message |-> V1!toProtoMessage(s.message), timestamp |-> s.time]
            read == [state |-> s.state, message |-> V1!FromProtoMessage(V1!toProtoMessage(s.message)), time |-> s.time]
<1>1. /\ s.message = Nil \/ IsMessage(s.message)
      /\ s.state \in TaskStates \cup {""}
  BY DEF IsStatus
<1>2. V1!toProtoTaskStatus(s) = Struct(sent)
  BY WireOfV1 DEF V1!toProtoTaskStatus
<1>3. Struct(sent) = sent /\ V1!toProtoMessage(s.message) # Err
  BY <1>2, Converted
<1>4. V1!fromProtoTaskStatus(sent) = Struct(read)
  <2>1. fromProtoTaskState(sent.state) = s.state
    BY <1>1, EnumsCross, WireOfV1
  <2>. QED  BY <2>1, WireOfV1 DEF V1!fromProtoTaskStatus
<1>5. Struct(read) = read /\ read.message # Err
  BY <1>2, <1>3, <1>4, Converted
<1>6. read.message = CarriedMessage("grpc1", s.message)
  BY <1>1, <1>3, <1>5, MessageOfV1
<1>. QED  BY <1>2, <1>3, <1>4, <1>5, <1>6, CarriedStatusIs

\* An artifact that crosses gRPC of version 1.
LEMMA ArtifactOfV1 ==
    ASSUME NotAFunction(Nil), NotAFunction(Err), NEW a, IsArtifact(a),
           V1!toProtoArtifact(a) # Err, V1!fromProtoArtifact(V1!toProtoArtifact(a)) # Err
    PROVE  V1!fromProtoArtifact(V1!toProtoArtifact(a)) = CarriedArtifact("grpc1", a)
<1>. DEFINE W == [i \in DOMAIN a.parts |-> V1!toProtoPart(a.parts[i])]
            D == [i \in DOMAIN W |-> V1!fromProtoPart(W[i])]
            C == [i \in DOMAIN a.parts |-> CarriedPart("grpc1", a.parts[i])]
            sent == [artifactId |-> a.id, name |-> a.name, description |-> a.description,
                     parts |-> Struct(W), metadata |-> toProtoMap(a.metadata),
                     extensions |-> a.extensions]
            read == [id |-> a.id, name |-> a.name, description |-> a.description,
                     parts |-> Struct(D), metadata |-> toProtoMap(a.metadata),
                     extensions |-> a.extensions]
<1>1. a # Nil
  <2>1. a = [id |-> a.id, name |-> a.name, description |-> a.description, parts |-> a.parts,
             metadata |-> a.metadata, extensions |-> a.extensions]
    BY DEF IsArtifact
  <2>. QED  BY <2>1 DEF NotAFunction
<1>2. V1!toProtoArtifact(a) = Struct(sent)
  BY <1>1, WireOfV1 DEF V1!toProtoArtifact, V1!Opt, V1!Each
<1>3. Struct(sent) = sent /\ Struct(W) # Err /\ toProtoMap(a.metadata) # Err
  BY <1>2, Converted
<1>4. Struct(W) = W /\ \A i \in DOMAIN a.parts : W[i] # Err
  BY <1>3, Converted
<1>5. IsParts(a.parts) /\ IsMap(a.metadata)
  BY DEF IsArtifact
<1>6. \A i \in DOMAIN a.parts : IsPart(a.parts[i])
  BY <1>5 DEF IsParts, IsListOf
<1>7. D = C
  <2>1. \A i \in DOMAIN a.parts : V1!fromProtoPart(V1!toProtoPart(a.parts[i])) = CarriedPart("grpc1", a.parts[i])
    BY <1>4, <1>6, PartOfV1
  <2>. QED  BY <2>1
<1>8. Struct(C) = C
  BY StructIs, CarriedAreNoErrors
<1>9. toProtoMap(a.metadata) = CarriedMap("grpc1", a.metadata)
  BY <1>3, <1>5, MapCrosses DEF HTTP
<1>10. V1!fromProtoArtifact(sent) \in {Err, Struct(read)}
  <2>1. sent # Nil
    BY DEF NotAFunction
  <2>. QED  BY <1>4, <2>1, WireOfV1 DEF V1!fromProtoArtifact, V1!Opt, V1!Require, V1!Each
<1>11. V1!fromProtoArtifact(sent) = read
  BY <1>2, <1>3, <1>10, Converted
<1>12. read = CarriedArtifact("grpc1", a)
  <2>1. CarriedArtifact("grpc1", a) =
          [id |-> a.id, name |-> a.name, description |-> a.description, parts |-> C,
           metadata |-> CarriedMap("grpc1", a.metadata), extensions |-> a.extensions]
    BY CarriedArtifactIs
  <2>2. Struct(D) = C
    BY <1>7, <1>8
  <2>. HIDE DEF C, D
  <2>. QED  BY <1>9, <2>1, <2>2
<1>. QED  BY <1>2, <1>3, <1>11, <1>12

\* A task that crosses gRPC of version 1.
LEMMA TaskOfV1 ==
    ASSUME NotAFunction(Nil), NotAFunction(Err), NEW t, IsTask(t),
           V1!ToProtoTask(t) # Err, V1!FromProtoTask(V1!ToProtoTask(t)) # Err
    PROVE  V1!FromProtoTask(V1!ToProtoTask(t)) = CarriedTask("grpc1", t)
<1>. DEFINE AW == [i \in DOMAIN t.artifacts |-> V1!toProtoArtifact(t.artifacts[i])]
            AD == [i \in DOMAIN AW |-> V1!fromProtoArtifact(AW[i])]
            AC == [i \in DOMAIN t.artifacts |-> CarriedArtifact("grpc1", t.artifacts[i])]
            HW == [i \in DOMAIN t.history |-> V1!toProtoMessage(t.history[i])]
            HD == [i \in DOMAIN HW |-> V1!FromProtoMessage(HW[i])]
            HC == [i \in DOMAIN t.history |-> CarriedMessage("grpc1", t.history[i])]
            S == V1!toProtoTaskStatus(t.status)
            sent == [id |-> t.id, contextId |-> t.context, status |-> S, artifacts |-> Struct(AW),
                     history |-> Struct(HW), metadata |-> toProtoMap(t.metadata)]
            read == [type |-> "task", id |-> t.id, context |-> t.context,
                     status |-> V1!fromProtoTaskStatus(S), artifacts |-> Struct(AD),
                     history |-> Struct(HD), metadata |-> toProtoMap(t.metadata)]
<1>1. /\ IsStatus(t.status) /\ IsMap(t.metadata)
      /\ \A i \in DOMAIN t.artifacts : IsArtifact(t.artifacts[i])
      /\ \A i \in DOMAIN t.history : IsMessage(t.history[i])
  BY DEF IsTask, IsListOf
<1>2. V1!ToProtoTask(t) = Struct(sent)
  BY WireOfV1 DEF V1!ToProtoTask, V1!Each
<1>3. /\ Struct(sent) = sent /\ S # Err /\ Struct(AW) # Err /\ Struct(HW) # Err
      /\ toProtoMap(t.metadata) # Err
  BY <1>2, Converted
<1>4. /\ Struct(AW) = AW /\ \A i \in DOMAIN t.artifacts : AW[i] # Err
      /\ Struct(HW) = HW /\ \A i \in DOMAIN t.history : HW[i] # Err
  BY <1>3, Converted
<1>5. V1!FromProtoTask(sent) \in {Err, Struct(read)}
  BY <1>4, WireOfV1 DEF V1!FromProtoTask, V1!Require, V1!Each
<1>6. /\ V1!FromProtoTask(sent) = read
      /\ read.status # Err /\ Struct(AD) # Err /\ Struct(HD) # Err
  BY <1>2, <1>3, <1>5, Converted
<1>7. /\ \A i \in DOMAIN t.artifacts : AD[i] # Err
      /\ \A i \in DOMAIN t.history : HD[i] # Err
  BY <1>6, Converted
<1>8. AD = AC
  <2>1. \A i \in DOMAIN t.artifacts : V1!fromProtoArtifact(V1!toProtoArtifact(t.artifacts[i])) = CarriedArtifact("grpc1", t.artifacts[i])
    BY <1>1, <1>4, <1>7, ArtifactOfV1
  <2>. QED  BY <2>1
<1>9. HD = HC
  <2>1. \A i \in DOMAIN t.history : V1!FromProtoMessage(V1!toProtoMessage(t.history[i])) = CarriedMessage("grpc1", t.history[i])
    BY <1>1, <1>4, <1>7, MessageOfV1
  <2>. QED  BY <2>1
<1>10. Struct(AC) = AC /\ Struct(HC) = HC
  BY <1>1, StructIs, CarriedAreNoErrors
<1>11. read.status = CarriedStatus("grpc1", t.status)
  BY <1>1, <1>3, <1>6, StatusOfV1
<1>12. toProtoMap(t.metadata) = CarriedMap("grpc1", t.metadata)
  BY <1>1, <1>3, MapCrosses DEF HTTP
<1>13. read = CarriedTask("grpc1", t)
  <2>1. CarriedTask("grpc1", t) =
          [type |-> "task", id |-> t.id, context |-> t.context,
           status |-> CarriedStatus("grpc1", t.status), artifacts |-> AC, history |-> HC,
           metadata |-> CarriedMap("grpc1", t.metadata)]
    BY CarriedTaskIs
  <2>2. Struct(AD) = AC /\ Struct(HD) = HC
    BY <1>8, <1>9, <1>10
  <2>3. V1!fromProtoTaskStatus(S) = CarriedStatus("grpc1", t.status)
    BY <1>11
  <2>. HIDE DEF AC, AD, HC, HD, S
  <2>. QED  BY <1>12, <2>1, <2>2, <2>3
<1>. QED  BY <1>2, <1>3, <1>6, <1>13

\* So does an event of a stream.
LEMMA EventOfV1 ==
    ASSUME NotAFunction(Nil), NotAFunction(Err), NEW e, IsEvent(e), V1!ToProtoStreamResponse(e) # Err,
           V1!FromProtoStreamResponse(V1!ToProtoStreamResponse(e)) # Err
    PROVE  V1!FromProtoStreamResponse(V1!ToProtoStreamResponse(e)) = CarriedEvent("grpc1", e)
<1>1. CASE e.type = "message" /\ IsMessage(e)
  <2>1. V1!toProtoMessage(e) # Err /\ V1!ToProtoStreamResponse(e) = [payload |-> "message", value |-> V1!toProtoMessage(e)]
    BY <1>1 DEF V1!ToProtoStreamResponse, V1!ToProtoSendMessageResponse, V1!Payload
  <2>2. V1!FromProtoStreamResponse(V1!ToProtoStreamResponse(e)) = V1!FromProtoMessage(V1!toProtoMessage(e))
    BY <2>1 DEF V1!FromProtoStreamResponse, V1!FromProtoSendMessageResponse
  <2>. QED  BY <1>1, <2>1, <2>2, MessageOfV1, CarriedEventIs
<1>2. CASE e.type = "task" /\ IsTask(e)
  <2>1. V1!ToProtoTask(e) # Err /\ V1!ToProtoStreamResponse(e) = [payload |-> "task", value |-> V1!ToProtoTask(e)]
    BY <1>2 DEF V1!ToProtoStreamResponse, V1!ToProtoSendMessageResponse, V1!Payload
  <2>2. V1!FromProtoStreamResponse(V1!ToProtoStreamResponse(e)) = V1!FromProtoTask(V1!ToProtoTask(e))
    BY <2>1 DEF V1!FromProtoStreamResponse, V1!FromProtoSendMessageResponse
  <2>. QED  BY <1>2, <2>1, <2>2, TaskOfV1, CarriedEventIs
<1>3. CASE e.type = "status" /\ IsStatusUpdate(e)
  <2>. DEFINE S == V1!toProtoTaskStatus(e.status)
              sent == [taskId |-> e.task, contextId |-> e.context, status |-> S,
                       metadata |-> toProtoMap(e.metadata)]
              read == [type |-> "status", task |-> e.task, context |-> e.context,
                       status |-> V1!fromProtoTaskStatus(S), metadata |-> toProtoMap(e.metadata)]
  <2>1. IsStatus(e.status) /\ IsMap(e.metadata)
    BY <1>3 DEF IsStatusUpdate
  <2>2. Struct(sent) # Err /\ V1!ToProtoStreamResponse(e) = [payload |-> "statusUpdate", value |-> Struct(sent)]
    BY <1>3, WireOfV1 DEF V1!ToProtoStreamResponse, V1!ToProtoSendMessageResponse, V1!Payload
  <2>3. Struct(sent) = sent /\ S # Err /\ toProtoMap(e.metadata) # Err
    BY <2>2, Converted
  <2>4. V1!FromProtoStreamResponse(V1!ToProtoStreamResponse(e)) = Struct(read)
    <3>. HIDE DEF S
    <3>. QED  BY <2>2, <2>3, WireOfV1 DEF V1!FromProtoStreamResponse, V1!FromProtoSendMessageResponse
  <2>5. Struct(read) = read /\ read.status = CarriedStatus("grpc1", e.status)
    <3>1. Struct(read) = read /\ read.status # Err
      BY <2>4, Converted
    <3>. QED  BY <2>1, <2>3, <3>1, StatusOfV1
  <2>6. toProtoMap(e.metadata) = CarriedMap("grpc1", e.metadata)
    BY <2>1, <2>3, MapCrosses DEF HTTP
  <2>. QED  BY <1>3, <2>4, <2>5, <2>6, CarriedEventIs
<1>4. CASE e.type = "artifact" /\ IsArtifactUpdate(e)
  <2>. DEFINE A == V1!toProtoArtifact(e.artifact)
              sent == [taskId |-> e.task, contextId |-> e.context, append |-> e.append,
                       lastChunk |-> e.lastChunk, artifact |-> A,
                       metadata |-> toProtoMap(e.metadata)]
              read == [type |-> "artifact", task |-> e.task, context |-> e.context,
                       append |-> e.append, lastChunk |-> e.lastChunk,
                       artifact |-> V1!fromProtoArtifact(A), metadata |-> toProtoMap(e.metadata)]
  <2>1. IsArtifact(e.artifact) /\ IsMap(e.metadata)
    BY <1>4 DEF IsArtifactUpdate
  <2>2. Struct(sent) # Err /\ V1!ToProtoStreamResponse(e) = [payload |-> "artifactUpdate", value |-> Struct(sent)]
    BY <1>4, WireOfV1 DEF V1!ToProtoStreamResponse, V1!ToProtoSendMessageResponse, V1!Payload
  <2>3. Struct(sent) = sent /\ A # Err /\ toProtoMap(e.metadata) # Err
    BY <2>2, Converted
  <2>4. V1!FromProtoStreamResponse(V1!ToProtoStreamResponse(e)) = Struct(read)
    <3>. HIDE DEF A
    <3>. QED  BY <2>2, <2>3, WireOfV1 DEF V1!FromProtoStreamResponse, V1!FromProtoSendMessageResponse
  <2>5. Struct(read) = read /\ read.artifact = CarriedArtifact("grpc1", e.artifact)
    <3>1. Struct(read) = read /\ read.artifact # Err
      BY <2>4, Converted
    <3>. QED  BY <2>1, <2>3, <3>1, ArtifactOfV1
  <2>6. toProtoMap(e.metadata) = CarriedMap("grpc1", e.metadata)
    BY <2>1, <2>3, MapCrosses DEF HTTP
  <2>. QED  BY <1>4, <2>4, <2>5, <2>6, CarriedEventIs
<1>. QED  BY <1>1, <1>2, <1>3, <1>4 DEF IsEvent, IsSendResult

-----------------------------------------------------------------------------
(* gRPC, version 0.3 *)

\* What gRPC of version 0.3 (pbconv of a2acompat) shares with the others.
LEMMA WireOfV0 ==
    /\ \A r : V0!Struct(r) = Struct(r)
    /\ \A m : V0!toProtoMap(m) = toProtoMap(m) /\ V0!fromProtoMap(m) = m
    /\ \A x : V0!toProtoRole(x) = toProtoRole(x) /\ V0!fromProtoRole(x) = fromProtoRole(x)
    /\ \A x : /\ V0!toProtoTaskState(x) = toProtoTaskState(x)
              /\ V0!fromProtoTaskState(x) = fromProtoTaskState(x)
<1>1. ASSUME NEW r PROVE V0!Struct(r) = Struct(r)
  BY DEF V0!Struct, V0!Strict, Struct, Strict
<1>2. ASSUME NEW m PROVE V0!toProtoMap(m) = toProtoMap(m) /\ V0!fromProtoMap(m) = m
  BY DEF V0!toProtoMap, V0!fromProtoMap, toProtoMap
<1>3. ASSUME NEW x
      PROVE  /\ V0!toProtoRole(x) = toProtoRole(x) /\ V0!fromProtoRole(x) = fromProtoRole(x)
             /\ V0!toProtoTaskState(x) = toProtoTaskState(x)
             /\ V0!fromProtoTaskState(x) = fromProtoTaskState(x)
  BY DEF V0!toProtoRole, V0!fromProtoRole, V0!toProtoTaskState, V0!fromProtoTaskState,
         toProtoRole, fromProtoRole, toProtoTaskState, fromProtoTaskState,
         V0!Roles, V0!TaskStates, Roles, TaskStates
<1>. QED  BY <1>1, <1>2, <1>3

\* A part that is sent arrives, data that is not a map in a map with a mark.
LEMMA PartOfV0 ==
    ASSUME NEW p, IsPart(p), V0!toProtoPart(p) # Err
    PROVE  V0!fromProtoPart(V0!toProtoPart(p)) = CarriedPart("grpc0", p)
<1>1. IsContent(p.content) /\ IsMap(p.metadata)
  BY DEF IsPart
<1>2. p.content = [kind |-> p.content.kind, value |-> p.content.value]
  BY <1>1 DEF IsContent
<1>. DEFINE file == [kind |-> p.content.kind, value |-> p.content.value]
            meta == toProtoMap(p.metadata)
<1>3. meta # Err => meta = Numbers(p.metadata) /\ meta = CarriedMap("grpc0", p.metadata)
  BY <1>1, MapCrosses DEF HTTP, CarriedMap
<1>4. CASE p.content.kind = "text"
  <2>. DEFINE sent == [part |-> "text", value |-> p.content.value, metadata |-> meta]
  <2>1. V0!toProtoPart(p) = Struct(sent)
    BY <1>4, WireOfV0 DEF V0!toProtoPart
  <2>2. Struct(sent) = sent /\ meta # Err
    BY <2>1, Converted
  <2>3. V0!fromProtoPart(sent) =
          [content |-> [kind |-> "text", value |-> p.content.value], filename |-> "",
           mediaType |-> "", metadata |-> meta]
    <3>. HIDE DEF meta
    <3>. QED  BY WireOfV0 DEF V0!fromProtoPart
  <2>4. CarriedPart("grpc0", p) =
          [content |-> [p.content EXCEPT !.value = p.content.value], filename |-> "", mediaType |-> "",
           metadata |-> CarriedMap("grpc0", p.metadata)]
    BY <1>4 DEF CarriedPart, Legacy
  <2>. QED  BY <1>2, <1>3, <1>4, <2>1, <2>2, <2>3, <2>4
<1>5. CASE p.content.kind = "data"
  <2>. DEFINE value == toProtoMap(p.content.value)
              inner == Struct([wrapped |-> FALSE, map |-> value])
              sent == [part |-> "data", value |-> inner, metadata |-> meta]
  <2>1. V0!toProtoPart(p) = Struct(sent)
    BY <1>5, WireOfV0 DEF V0!toProtoPart, V0!toProtoDataPart
  <2>2. Struct(sent) = sent /\ meta # Err /\ inner # Err
    BY <2>1, Converted
  <2>3. inner.wrapped = FALSE /\ inner.map = value /\ value # Err
    <3>. HIDE DEF value
    <3>. QED  BY <2>2, Converted
  <2>4. value = Numbers(p.content.value)
    BY <1>1, <1>5, <2>3, MapIs DEF IsContent
  <2>5. ~(meta # Nil /\ V0!Compat \in meta)
    BY <1>1, <1>3, <2>2, Marks DEF V0!Compat, Mark
  <2>6. V0!fromProtoPart(sent) =
          [content |-> [kind |-> "data", value |-> value], filename |-> "",
           mediaType |-> "", metadata |-> meta]
    <3>. HIDE DEF meta, value, inner
    <3>. QED  BY <2>3, <2>5, WireOfV0 DEF V0!fromProtoPart
  <2>7. CarriedPart("grpc0", p) =
          [content |-> [p.content EXCEPT !.value = Numbers(p.content.value)], filename |-> "",
           mediaType |-> "", metadata |-> CarriedMap("grpc0", p.metadata)]
    BY <1>5 DEF CarriedPart, Legacy
  <2>8. [p.content EXCEPT !.value = Numbers(p.content.value)] =
          [kind |-> "data", value |-> Numbers(p.content.value)]
    BY <1>2, <1>5
  <2>. HIDE DEF value, inner, meta
  <2>. QED  BY <1>3, <2>1, <2>2, <2>4, <2>6, <2>7, <2>8
<1>6. CASE p.content.kind = "value"
  <2>. DEFINE value == toProtoMap(p.content.value)
              n == IF p.metadata = Nil THEN {} ELSE p.metadata
              marked == toProtoMap(n \cup {Mark})
              inner == Struct([wrapped |-> TRUE, map |-> value])
              sent == [part |-> "data", value |-> inner, metadata |-> marked]
  <2>1. V0!toProtoPart(p) = Struct(sent)
    BY <1>6, WireOfV0 DEF V0!toProtoPart, V0!toProtoDataPart, V0!Compat, Mark
  <2>2. Struct(sent) = sent /\ marked # Err /\ inner # Err
    BY <2>1, Converted
  <2>3. inner.wrapped = TRUE /\ inner.map = value /\ value # Err
    <3>. HIDE DEF value
    <3>. QED  BY <2>2, Converted
  <2>4. value = Numbers(p.content.value)
    BY <1>1, <1>6, <2>3, MapIs DEF IsContent
  <2>5. marked # Nil /\ V0!Compat \in marked /\ marked \ {V0!Compat} = Numbers(n)
    BY <1>1, <2>2, Marks DEF V0!Compat, Mark
  <2>6. V0!fromProtoPart(sent) =
          [content |-> [kind |-> "value", value |-> value], filename |-> "",
           mediaType |-> "", metadata |-> Numbers(n)]
    <3>. HIDE DEF marked, value, n, inner
    <3>. QED  BY <2>3, <2>5, WireOfV0 DEF V0!fromProtoPart
  <2>7. CarriedPart("grpc0", p) =
          [content |-> [p.content EXCEPT !.value = Numbers(p.content.value)], filename |-> "",
           mediaType |-> "", metadata |-> Numbers(n)]
    BY <1>6 DEF CarriedPart, Legacy
  <2>8. [p.content EXCEPT !.value = Numbers(p.content.value)] =
          [kind |-> "value", value |-> Numbers(p.content.value)]
    BY <1>2, <1>6
  <2>. HIDE DEF value, inner, meta, marked, n
  <2>. QED  BY <1>3, <2>1, <2>2, <2>4, <2>6, <2>7, <2>8
<1>7. CASE p.content.kind \in {"raw", "url"}
  <2>. DEFINE sent == [part |-> "file", value |-> file, name |-> p.filename,
                       mimeType |-> p.mediaType, metadata |-> meta]
  <2>1. V0!toProtoPart(p) = Struct(sent)
    BY <1>7, WireOfV0 DEF V0!toProtoPart, V0!toProtoFilePart
  <2>2. Struct(sent) = sent /\ meta # Err
    BY <2>1, Converted
  <2>3. V0!fromProtoPart(sent) =
          [content |-> file, filename |-> p.filename, mediaType |-> p.mediaType, metadata |-> meta]
    <3>. HIDE DEF meta, file
    <3>. QED  BY WireOfV0 DEF V0!fromProtoPart, V0!fromProtoFilePart
  <2>4. CarriedPart("grpc0", p) =
          [content |-> [p.content EXCEPT !.value = p.content.value], filename |-> p.filename,
           mediaType |-> p.mediaType, metadata |-> CarriedMap("grpc0", p.metadata)]
    BY <1>7 DEF CarriedPart, Legacy
  <2>. QED  BY <1>2, <1>3, <1>7, <2>1, <2>2, <2>3, <2>4
<1>. QED  BY <1>1, <1>4, <1>5, <1>6, <1>7 DEF IsContent

\* A message that is sent arrives, if it is read.
LEMMA MessageOfV0 ==
    ASSUME NotAFunction(Nil), NotAFunction(Err), NEW m, m = Nil \/ IsMessage(m),
           V0!toProtoMessage(m) # Err, V0!FromProtoMessage(V0!toProtoMessage(m)) # Err
    PROVE  V0!FromProtoMessage(V0!toProtoMessage(m)) = CarriedMessage("grpc0", m)
<1>1. CASE m = Nil
  BY <1>1 DEF V0!toProtoMessage, V0!FromProtoMessage, V0!Opt, CarriedMessage, Opt
<1>2. CASE IsMessage(m)
  <2>. DEFINE W == [i \in DOMAIN m.parts |-> V0!toProtoPart(m.parts[i])]
              D == [i \in DOMAIN W |-> V0!fromProtoPart(W[i])]
              C == [i \in DOMAIN m.parts |-> CarriedPart("grpc0", m.parts[i])]
              sent == [messageId |-> m.id, contextId |-> m.context, taskId |-> m.task,
                       role |-> toProtoRole(m.role), parts |-> Struct(W),
                       metadata |-> toProtoMap(m.metadata), extensions |-> m.extensions,
                       referenceTaskIds |-> m.refs]
              read == [type |-> "message", id |-> m.id, context |-> m.context, task |-> m.task,
                       role |-> m.role, parts |-> Struct(D), metadata |-> toProtoMap(m.metadata),
                       extensions |-> m.extensions, refs |-> m.refs]
  <2>1. m # Nil
    BY <1>2, CarriedMessageIs
  <2>2. V0!toProtoMessage(m) = Struct(sent)
    BY <2>1, WireOfV0 DEF V0!toProtoMessage, V0!Opt, V0!Each
  <2>3. Struct(sent) = sent /\ Struct(W) # Err /\ toProtoMap(m.metadata) # Err
    BY <2>2, Converted
  <2>4. Struct(W) = W /\ \A i \in DOMAIN m.parts : W[i] # Err
    BY <2>3, Converted
  <2>5. IsParts(m.parts) /\ IsMap(m.metadata) /\ m.role \in Roles \cup {""}
    BY <1>2 DEF IsMessage
  <2>6. \A i \in DOMAIN m.parts : IsPart(m.parts[i])
    BY <2>5 DEF IsParts, IsListOf
  <2>7. D = C
    <3>1. \A i \in DOMAIN m.parts : V0!fromProtoPart(V0!toProtoPart(m.parts[i])) = CarriedPart("grpc0", m.parts[i])
      BY <2>4, <2>6, PartOfV0
    <3>. QED  BY <3>1
  <2>8. Struct(C) = C
    BY StructIs, CarriedAreNoErrors
  <2>9. toProtoMap(m.metadata) = CarriedMap("grpc0", m.metadata)
    BY <2>3, <2>5, MapCrosses DEF HTTP
  <2>10. V0!FromProtoMessage(sent) = Struct(read)
    <3>1. sent # Nil
      BY DEF NotAFunction
    <3>2. fromProtoRole(sent.role) = m.role
      BY <2>5, EnumsCross
    <3>. QED  BY <2>4, <3>1, <3>2, WireOfV0 DEF V0!FromProtoMessage, V0!Opt, V0!Each
  <2>11. V0!FromProtoMessage(sent) = read
    BY <2>2, <2>3, <2>10, Converted
  <2>12. read = CarriedMessage("grpc0", m)
    <3>1. CarriedMessage("grpc0", m) =
            [type |-> "message", id |-> m.id, context |-> m.context, task |-> m.task,
             role |-> m.role, parts |-> C, metadata |-> CarriedMap("grpc0", m.metadata),
             extensions |-> m.extensions, refs |-> m.refs]
      BY <1>2, CarriedMessageIs
    <3>2. Struct(D) = C
      BY <2>7, <2>8
    <3>. HIDE DEF C, D
    <3>. QED  BY <2>9, <3>1, <3>2
  <2>. QED  BY <2>2, <2>3, <2>11, <2>12
<1>. QED  BY <1>1, <1>2

\* A status that crosses gRPC of version 0.3.
LEMMA StatusOfV0 ==
    ASSUME NotAFunction(Nil), NotAFunction(Err), NEW s, IsStatus(s),
           V0!toProtoTaskStatus(s) # Err, V0!fromProtoTaskStatus(V0!toProtoTaskStatus(s)) # Err
    PROVE  V0!fromProtoTaskStatus(V0!toProtoTaskStatus(s)) = CarriedStatus("grpc0", s)
<1>. DEFINE sent == [state |-> toProtoTaskState(s.state), update |-> V0!toProtoMessage(s.message), timestamp |-> s.time]
            read == [state |-> s.state, message |-> V0!FromProtoMessage(V0!toProtoMessage(s.message)), time |-> s.time]
<1>1. /\ s.message = Nil \/ IsMessage(s.message)
      /\ s.state \in TaskStates \cup {""}
  BY DEF IsStatus
<1>2. V0!toProtoTaskStatus(s) = Struct(sent)
  BY WireOfV0 DEF V0!toProtoTaskStatus
<1>3. Struct(sent) = sent /\ V0!toProtoMessage(s.message) # Err
  BY <1>2, Converted
<1>4. V0!fromProtoTaskStatus(sent) = Struct(read)
  <2>1. fromProtoTaskState(sent.state) = s.state
    BY <1>1, EnumsCross, WireOfV0
  <2>. QED  BY <2>1, WireOfV0 DEF V0!fromProtoTaskStatus
<1>5. Struct(read) = read /\ read.message # Err
  BY <1>2, <1>3, <1>4, Converted
<1>6. read.message = CarriedMessage("grpc0", s.message)
  BY <1>1, <1>3, <1>5, MessageOfV0
<1>. QED  BY <1>2, <1>3, <1>4, <1>5, <1>6, CarriedStatusIs

\* An artifact that crosses gRPC of version 0.3.
LEMMA ArtifactOfV0 ==
    ASSUME NotAFunction(Nil), NotAFunction(Err), NEW a, IsArtifact(a),
           V0!toProtoArtifact(a) # Err, V0!fromProtoArtifact(V0!toProtoArtifact(a)) # Err
    PROVE  V0!fromProtoArtifact(V0!toProtoArtifact(a)) = CarriedArtifact("grpc0", a)
<1>. DEFINE W == [i \in DOMAIN a.parts |-> V0!toProtoPart(a.parts[i])]
            D == [i \in DOMAIN W |-> V0!fromProtoPart(W[i])]
            C == [i \in DOMAIN a.parts |-> CarriedPart("grpc0", a.parts[i])]
            sent == [artifactId |-> a.id, name |-> a.name, description |-> a.description,
                     parts |-> Struct(W), metadata |-> toProtoMap(a.metadata),
                     extensions |-> a.extensions]
            read == [id |-> a.id, name |-> a.name, description |-> a.description,
                     parts |-> Struct(D), metadata |-> toProtoMap(a.metadata),
                     extensions |-> a.extensions]
<1>1. a # Nil
  <2>1. a = [id |-> a.id, name |-> a.name, description |-> a.description, parts |-> a.parts,
             metadata |-> a.metadata, extensions |-> a.extensions]
    BY DEF IsArtifact
  <2>. QED  BY <2>1 DEF NotAFunction
<1>2. V0!toProtoArtifact(a) = Struct(sent)
  BY <1>1, WireOfV0 DEF V0!toProtoArtifact, V0!Opt, V0!Each
<1>3. Struct(sent) = sent /\ Struct(W) # Err /\ toProtoMap(a.metadata) # Err
  BY <1>2, Converted
<1>4. Struct(W) = W /\ \A i \in DOMAIN a.parts : W[i] # Err
  BY <1>3, Converted
<1>5. IsParts(a.parts) /\ IsMap(a.metadata)
  BY DEF IsArtifact
<1>6. \A i \in DOMAIN a.parts : IsPart(a.parts[i])
  BY <1>5 DEF IsParts, IsListOf
<1>7. D = C
  <2>1. \A i \in DOMAIN a.parts : V0!fromProtoPart(V0!toProtoPart(a.parts[i])) = CarriedPart("grpc0", a.parts[i])
    BY <1>4, <1>6, PartOfV0
  <2>. QED  BY <2>1
<1>8. Struct(C) = C
  BY StructIs, CarriedAreNoErrors
<1>9. toProtoMap(a.metadata) = CarriedMap("grpc0", a.metadata)
  BY <1>3, <1>5, MapCrosses DEF HTTP
<1>10. V0!fromProtoArtifact(sent) = Struct(read)
  <2>1. sent # Nil
    BY DEF NotAFunction
  <2>. QED  BY <1>4, <2>1, WireOfV0 DEF V0!fromProtoArtifact, V0!Opt, V0!Each
<1>11. V0!fromProtoArtifact(sent) = read
  BY <1>2, <1>3, <1>10, Converted
<1>12. read = CarriedArtifact("grpc0", a)
  <2>1. CarriedArtifact("grpc0", a) =
          [id |-> a.id, name |-> a.name, description |-> a.description, parts |-> C,
           metadata |-> CarriedMap("grpc0", a.metadata), extensions |-> a.extensions]
    BY CarriedArtifactIs
  <2>2. Struct(D) = C
    BY <1>7, <1>8
  <2>. HIDE DEF C, D
  <2>. QED  BY <1>9, <2>1, <2>2
<1>. QED  BY <1>2, <1>3, <1>11, <1>12

\* A task that crosses gRPC of version 0.3.
LEMMA TaskOfV0 ==
    ASSUME NotAFunction(Nil), NotAFunction(Err), NEW t, IsTask(t),
           V0!ToProtoTask(t) # Err, V0!FromProtoTask(V0!ToProtoTask(t)) # Err
    PROVE  V0!FromProtoTask(V0!ToProtoTask(t)) = CarriedTask("grpc0", t)
<1>. DEFINE AW == [i \in DOMAIN t.artifacts |-> V0!toProtoArtifact(t.artifacts[i])]
            AD == [i \in DOMAIN AW |-> V0!fromProtoArtifact(AW[i])]
            AC == [i \in DOMAIN t.artifacts |-> CarriedArtifact("grpc0", t.artifacts[i])]
            HW == [i \in DOMAIN t.history |-> V0!toProtoMessage(t.history[i])]
            HD == [i \in DOMAIN HW |-> V0!FromProtoMessage(HW[i])]
            HC == [i \in DOMAIN t.history |-> CarriedMessage("grpc0", t.history[i])]
            S == V0!toProtoTaskStatus(t.status)
            sent == [id |-> t.id, contextId |-> t.context, status |-> S, artifacts |-> Struct(AW),
                     history |-> Struct(HW), metadata |-> toProtoMap(t.metadata)]
            read == [type |-> "task", id |-> t.id, context |-> t.context,
                     status |-> V0!fromProtoTaskStatus(S), artifacts |-> Struct(AD),
                     history |-> Struct(HD), metadata |-> toProtoMap(t.metadata)]
<1>1. /\ IsStatus(t.status) /\ IsMap(t.metadata)
      /\ \A i \in DOMAIN t.artifacts : IsArtifact(t.artifacts[i])
      /\ \A i \in DOMAIN t.history : IsMessage(t.history[i])
  BY DEF IsTask, IsListOf
<1>2. V0!ToProtoTask(t) = Struct(sent)
  BY WireOfV0 DEF V0!ToProtoTask, V0!Each
<1>3. /\ Struct(sent) = sent /\ S # Err /\ Struct(AW) # Err /\ Struct(HW) # Err
      /\ toProtoMap(t.metadata) # Err
  BY <1>2, Converted
<1>4. /\ Struct(AW) = AW /\ \A i \in DOMAIN t.artifacts : AW[i] # Err
      /\ Struct(HW) = HW /\ \A i \in DOMAIN t.history : HW[i] # Err
  BY <1>3, Converted
<1>5. V0!FromProtoTask(sent) = Struct(read)
  BY <1>4, WireOfV0 DEF V0!FromProtoTask, V0!Each
<1>6. /\ V0!FromProtoTask(sent) = read
      /\ read.status # Err /\ Struct(AD) # Err /\ Struct(HD) # Err
  BY <1>2, <1>3, <1>5, Converted
<1>7. /\ \A i \in DOMAIN t.artifacts : AD[i] # Err
      /\ \A i \in DOMAIN t.history : HD[i] # Err
  BY <1>6, Converted
<1>8. AD = AC
  <2>1. \A i \in DOMAIN t.artifacts : V0!fromProtoArtifact(V0!toProtoArtifact(t.artifacts[i])) = CarriedArtifact("grpc0", t.artifacts[i])
    BY <1>1, <1>4, <1>7, ArtifactOfV0
  <2>. QED  BY <2>1
<1>9. HD = HC
  <2>1. \A i \in DOMAIN t.history : V0!FromProtoMessage(V0!toProtoMessage(t.history[i])) = CarriedMessage("grpc0", t.history[i])
    BY <1>1, <1>4, <1>7, MessageOfV0
  <2>. QED  BY <2>1
<1>10. Struct(AC) = AC /\ Struct(HC) = HC
  BY <1>1, StructIs, CarriedAreNoErrors
<1>11. read.status = CarriedStatus("grpc0", t.status)
  BY <1>1, <1>3, <1>6, StatusOfV0
<1>12. toProtoMap(t.metadata) = CarriedMap("grpc0", t.metadata)
  BY <1>1, <1>3, MapCrosses DEF HTTP
<1>13. read = CarriedTask("grpc0", t)
  <2>1. CarriedTask("grpc0", t) =
          [type |-> "task", id |-> t.id, context |-> t.context,
           status |-> CarriedStatus("grpc0", t.status), artifacts |-> AC, history |-> HC,
           metadata |-> CarriedMap("grpc0", t.metadata)]
    BY CarriedTaskIs
  <2>2. Struct(AD) = AC /\ Struct(HD) = HC
    BY <1>8, <1>9, <1>10
  <2>3. V0!fromProtoTaskStatus(S) = CarriedStatus("grpc0", t.status)
    BY <1>11
  <2>. HIDE DEF AC, AD, HC, HD, S
  <2>. QED  BY <1>12, <2>1, <2>2, <2>3
<1>. QED  BY <1>2, <1>3, <1>6, <1>13

\* So does an event of a stream.
LEMMA EventOfV0 ==
    ASSUME NotAFunction(Nil), NotAFunction(Err), NEW e, IsEvent(e), V0!ToProtoStreamResponse(e) # Err,
           V0!FromProtoStreamResponse(V0!ToProtoStreamResponse(e)) # Err
    PROVE  V0!FromProtoStreamResponse(V0!ToProtoStreamResponse(e)) = CarriedEvent("grpc0", e)
<1>1. CASE e.type = "message" /\ IsMessage(e)
  <2>1. V0!toProtoMessage(e) # Err /\ V0!ToProtoStreamResponse(e) = [payload |-> "msg", value |-> V0!toProtoMessage(e)]
    BY <1>1 DEF V0!ToProtoStreamResponse, V0!ToProtoSendMessageResponse, V0!Payload
  <2>2. V0!FromProtoStreamResponse(V0!ToProtoStreamResponse(e)) = V0!FromProtoMessage(V0!toProtoMessage(e))
    BY <2>1 DEF V0!FromProtoStreamResponse, V0!FromProtoSendMessageResponse
  <2>. QED  BY <1>1, <2>1, <2>2, MessageOfV0, CarriedEventIs
<1>2. CASE e.type = "task" /\ IsTask(e)
  <2>1. V0!ToProtoTask(e) # Err /\ V0!ToProtoStreamResponse(e) = [payload |-> "task", value |-> V0!ToProtoTask(e)]
    BY <1>2 DEF V0!ToProtoStreamResponse, V0!ToProtoSendMessageResponse, V0!Payload
  <2>2. V0!FromProtoStreamResponse(V0!ToProtoStreamResponse(e)) = V0!FromProtoTask(V0!ToProtoTask(e))
    BY <2>1 DEF V0!FromProtoStreamResponse, V0!FromProtoSendMessageResponse
  <2>. QED  BY <1>2, <2>1, <2>2, TaskOfV0, CarriedEventIs
<1>3. CASE e.type = "status" /\ IsStatusUpdate(e)
  <2>. DEFINE S == V0!toProtoTaskStatus(e.status)
              sent == [taskId |-> e.task, contextId |-> e.context, status |-> S,
                       metadata |-> toProtoMap(e.metadata)]
              read == [type |-> "status", task |-> e.task, context |-> e.context,
                       status |-> V0!fromProtoTaskStatus(S), metadata |-> toProtoMap(e.metadata)]
  <2>1. IsStatus(e.status) /\ IsMap(e.metadata)
    BY <1>3 DEF IsStatusUpdate
  <2>2. Struct(sent) # Err /\ V0!ToProtoStreamResponse(e) = [payload |-> "statusUpdate", value |-> Struct(sent)]
    BY <1>3, WireOfV0 DEF V0!ToProtoStreamResponse, V0!ToProtoSendMessageResponse, V0!Payload
  <2>3. Struct(sent) = sent /\ S # Err /\ toProtoMap(e.metadata) # Err
    BY <2>2, Converted
  <2>4. V0!FromProtoStreamResponse(V0!ToProtoStreamResponse(e)) = Struct(read)
    <3>. HIDE DEF S
    <3>. QED  BY <2>2, <2>3, WireOfV0 DEF V0!FromProtoStreamResponse, V0!FromProtoSendMessageResponse
  <2>5. Struct(read) = read /\ read.status = CarriedStatus("grpc0", e.status)
    <3>1. Struct(read) = read /\ read.status # Err
      BY <2>4, Converted
    <3>. QED  BY <2>1, <2>3, <3>1, StatusOfV0
  <2>6. toProtoMap(e.metadata) = CarriedMap("grpc0", e.metadata)
    BY <2>1, <2>3, MapCrosses DEF HTTP
  <2>. QED  BY <1>3, <2>4, <2>5, <2>6, CarriedEventIs
<1>4. CASE e.type = "artifact" /\ IsArtifactUpdate(e)
  <2>. DEFINE A == V0!toProtoArtifact(e.artifact)
              sent == [taskId |-> e.task, contextId |-> e.context, append |-> e.append,
                       lastChunk |-> e.lastChunk, artifact |-> A,
                       metadata |-> toProtoMap(e.metadata)]
              read == [type |-> "artifact", task |-> e.task, context |-> e.context,
                       append |-> e.append, lastChunk |-> e.lastChunk,
                       artifact |-> V0!fromProtoArtifact(A), metadata |-> toProtoMap(e.metadata)]
  <2>1. IsArtifact(e.artifact) /\ IsMap(e.metadata)
    BY <1>4 DEF IsArtifactUpdate
  <2>2. Struct(sent) # Err /\ V0!ToProtoStreamResponse(e) = [payload |-> "artifactUpdate", value |-> Struct(sent)]
    BY <1>4, WireOfV0 DEF V0!ToProtoStreamResponse, V0!ToProtoSendMessageResponse, V0!Payload
  <2>3. Struct(sent) = sent /\ A # Err /\ toProtoMap(e.metadata) # Err
    BY <2>2, Converted
  <2>4. V0!FromProtoStreamResponse(V0!ToProtoStreamResponse(e)) = Struct(read)
    <3>. HIDE DEF A
    <3>. QED  BY <2>2, <2>3, WireOfV0 DEF V0!FromProtoStreamResponse, V0!FromProtoSendMessageResponse
  <2>5. Struct(read) = read /\ read.artifact = CarriedArtifact("grpc0", e.artifact)
    <3>1. Struct(read) = read /\ read.artifact # Err
      BY <2>4, Converted
    <3>. QED  BY <2>1, <2>3, <3>1, ArtifactOfV0
  <2>6. toProtoMap(e.metadata) = CarriedMap("grpc0", e.metadata)
    BY <2>1, <2>3, MapCrosses DEF HTTP
  <2>. QED  BY <1>4, <2>4, <2>5, <2>6, CarriedEventIs
<1>. QED  BY <1>1, <1>2, <1>3, <1>4 DEF IsEvent, IsSendResult

-----------------------------------------------------------------------------
(* JSON-RPC, version 0.3 *)

\* What JSON-RPC of version 0.3 (conversions.go) shares with the others.
LEMMA WireOfC0 ==
    /\ \A r : C0!Struct(r) = Struct(r)
    /\ \A m : C0!toProtoMap(m) = toProtoMap(m) /\ C0!jsonMap(m) = jsonMap(m)
    /\ \A x : C0!toProtoRole(x) = toProtoRole(x) /\ C0!fromProtoRole(x) = fromProtoRole(x)
    /\ \A x : /\ C0!toProtoTaskState(x) = toProtoTaskState(x)
              /\ C0!fromProtoTaskState(x) = fromProtoTaskState(x)
<1>1. ASSUME NEW r PROVE C0!Struct(r) = Struct(r)
  BY DEF C0!Struct, C0!Strict, Struct, Strict
<1>2. ASSUME NEW m PROVE C0!toProtoMap(m) = toProtoMap(m) /\ C0!jsonMap(m) = jsonMap(m)
  BY DEF C0!toProtoMap, C0!jsonMap, toProtoMap, jsonMap
<1>3. ASSUME NEW x
      PROVE  /\ C0!toProtoRole(x) = toProtoRole(x) /\ C0!fromProtoRole(x) = fromProtoRole(x)
             /\ C0!toProtoTaskState(x) = toProtoTaskState(x)
             /\ C0!fromProtoTaskState(x) = fromProtoTaskState(x)
  BY DEF C0!toProtoRole, C0!fromProtoRole, C0!toProtoTaskState, C0!fromProtoTaskState,
         toProtoRole, fromProtoRole, toProtoTaskState, fromProtoTaskState,
         C0!Roles, C0!TaskStates, Roles, TaskStates
<1>. QED  BY <1>1, <1>2, <1>3

\* A part that is sent arrives, data that is not a map in a map with a mark.
LEMMA PartOfC0 ==
    ASSUME NEW p, IsPart(p), C0!FromV1Part(p) # Err
    PROVE  C0!ToV1Part(C0!FromV1Part(p)) = CarriedPart("rpc0", p)
<1>. DEFINE meta == jsonMap(p.metadata)
<1>1. IsContent(p.content) /\ IsMap(p.metadata)
  BY DEF IsPart
<1>2. p.content = [kind |-> p.content.kind, value |-> p.content.value]
  BY <1>1 DEF IsContent
<1>3. meta # Err => meta = CarriedMap("rpc0", p.metadata)
  BY <1>1, MapCrosses DEF HTTP, Bindings
<1>4. CASE p.content.kind = "text"
  <2>. DEFINE sent == [part |-> "text", value |-> p.content.value, metadata |-> meta]
  <2>1. C0!FromV1Part(p) = Struct(sent)
    BY <1>4, WireOfC0 DEF C0!FromV1Part
  <2>2. Struct(sent) = sent /\ meta # Err
    BY <2>1, Converted
  <2>3. C0!ToV1Part(sent) =
          [content |-> [kind |-> "text", value |-> p.content.value], filename |-> "",
           mediaType |-> "", metadata |-> meta]
    <3>. HIDE DEF meta
    <3>. QED  BY DEF C0!ToV1Part
  <2>4. CarriedPart("rpc0", p) =
          [content |-> [p.content EXCEPT !.value = p.content.value], filename |-> "", mediaType |-> "",
           metadata |-> CarriedMap("rpc0", p.metadata)]
    BY <1>4 DEF CarriedPart, Legacy
  <2>. HIDE DEF meta
  <2>. QED  BY <1>2, <1>3, <1>4, <2>1, <2>2, <2>3, <2>4
<1>5. CASE p.content.kind = "data"
  <2>. DEFINE value == toProtoMap(p.content.value)
              sent == [part |-> "data", wrapped |-> FALSE, value |-> value, metadata |-> meta]
  <2>1. C0!FromV1Part(p) = Struct(sent)
    BY <1>5, WireOfC0 DEF C0!FromV1Part
  <2>2. Struct(sent) = sent /\ meta # Err /\ value # Err
    BY <2>1, Converted
  <2>3. value = Numbers(p.content.value)
    BY <1>1, <1>5, <2>2, MapIs DEF IsContent
  <2>4. ~(meta # Nil /\ C0!Compat \in meta)
    <3>1. meta = Nil \/ meta = Numbers(p.metadata)
      BY <1>3, <2>2 DEF CarriedMap
    <3>. QED  BY <1>1, <3>1, Marks DEF C0!Compat, Mark
  <2>5. C0!ToV1Part(sent) =
          [content |-> [kind |-> "data", value |-> value], filename |-> "",
           mediaType |-> "", metadata |-> meta]
    <3>. HIDE DEF meta, value
    <3>. QED  BY <2>4 DEF C0!ToV1Part
  <2>6. CarriedPart("rpc0", p) =
          [content |-> [p.content EXCEPT !.value = Numbers(p.content.value)], filename |-> "",
           mediaType |-> "", metadata |-> CarriedMap("rpc0", p.metadata)]
    BY <1>5 DEF CarriedPart, Legacy
  <2>7. [p.content EXCEPT !.value = Numbers(p.content.value)] =
          [kind |-> "data", value |-> Numbers(p.content.value)]
    BY <1>2, <1>5
  <2>. HIDE DEF value, meta
  <2>. QED  BY <1>3, <2>1, <2>2, <2>3, <2>5, <2>6, <2>7
<1>6. CASE p.content.kind = "value"
  <2>. DEFINE value == toProtoMap(p.content.value)
              n == IF p.metadata = Nil THEN {} ELSE p.metadata
              marked == jsonMap(n \cup {Mark})
              sent == [part |-> "data", wrapped |-> TRUE, value |-> value, metadata |-> marked]
  <2>1. C0!FromV1Part(p) = Struct(sent)
    BY <1>6, WireOfC0 DEF C0!FromV1Part, C0!Compat, Mark
  <2>2. Struct(sent) = sent /\ marked # Err /\ value # Err
    BY <2>1, Converted
  <2>3. value = Numbers(p.content.value)
    BY <1>1, <1>6, <2>2, MapIs DEF IsContent
  <2>4. marked # Nil /\ C0!Compat \in marked /\ marked \ {C0!Compat} = Numbers(n)
    <3>1. marked = toProtoMap(n \cup {Mark})
      BY <1>1, Marks DEF jsonMap
    <3>2. /\ marked = Numbers(n) \cup {Mark} /\ Numbers(n) \cup {Mark} # Nil
          /\ (Numbers(n) \cup {Mark}) \ {Mark} = Numbers(n)
      <4>1. toProtoMap(n \cup {Mark}) # Err
        BY <2>2, <3>1
      <4>. QED  BY <1>1, <3>1, <4>1, Marks
    <3>3. C0!Compat = Mark
      BY DEF C0!Compat, Mark
    <3>. HIDE DEF marked, n
    <3>. QED  BY <3>2, <3>3
  <2>5. C0!ToV1Part(sent) =
          [content |-> [kind |-> "value", value |-> value], filename |-> "",
           mediaType |-> "", metadata |-> Numbers(n)]
    <3>. HIDE DEF marked, value, n
    <3>. QED  BY <2>4 DEF C0!ToV1Part
  <2>6. CarriedPart("rpc0", p) =
          [content |-> [p.content EXCEPT !.value = Numbers(p.content.value)], filename |-> "",
           mediaType |-> "", metadata |-> Numbers(n)]
    BY <1>6 DEF CarriedPart, Legacy
  <2>7. [p.content EXCEPT !.value = Numbers(p.content.value)] =
          [kind |-> "value", value |-> Numbers(p.content.value)]
    BY <1>2, <1>6
  <2>. HIDE DEF value, marked, n
  <2>. QED  BY <2>1, <2>2, <2>3, <2>5, <2>6, <2>7
<1>7. CASE p.content.kind \in {"raw", "url"}
  <2>. DEFINE sent == [part |-> "file", value |-> p.content, name |-> p.filename,
                       mimeType |-> p.mediaType, metadata |-> meta]
  <2>1. C0!FromV1Part(p) = Struct(sent)
    BY <1>7, WireOfC0 DEF C0!FromV1Part
  <2>2. Struct(sent) = sent /\ meta # Err
    BY <2>1, Converted
  <2>3. C0!ToV1Part(sent) =
          [content |-> p.content, filename |-> p.filename, mediaType |-> p.mediaType,
           metadata |-> meta]
    <3>. HIDE DEF meta
    <3>. QED  BY DEF C0!ToV1Part
  <2>4. CarriedPart("rpc0", p) =
          [content |-> [p.content EXCEPT !.value = p.content.value], filename |-> p.filename,
           mediaType |-> p.mediaType, metadata |-> CarriedMap("rpc0", p.metadata)]
    BY <1>7 DEF CarriedPart, Legacy
  <2>. HIDE DEF meta
  <2>. QED  BY <1>2, <1>3, <2>1, <2>2, <2>3, <2>4
<1>. QED  BY <1>1, <1>4, <1>5, <1>6, <1>7 DEF IsContent

\* A message that is sent arrives.
LEMMA MessageOfC0 ==
    ASSUME NotAFunction(Nil), NotAFunction(Err), NEW m, m = Nil \/ IsMessage(m),
           C0!FromV1Message(m) # Err
    PROVE  C0!ToV1Message(C0!FromV1Message(m)) = CarriedMessage("rpc0", m)
<1>1. CASE m = Nil
  BY <1>1 DEF C0!FromV1Message, C0!ToV1Message, C0!Opt, CarriedMessage, Opt
<1>2. CASE IsMessage(m)
  <2>. DEFINE W == [i \in DOMAIN m.parts |-> C0!FromV1Part(m.parts[i])]
              D == [i \in DOMAIN W |-> C0!ToV1Part(W[i])]
              C == [i \in DOMAIN m.parts |-> CarriedPart("rpc0", m.parts[i])]
              sent == [kind |-> "message", id |-> m.id, contextId |-> m.context, taskId |-> m.task,
                       role |-> toProtoRole(m.role), parts |-> Struct(W),
                       metadata |-> jsonMap(m.metadata), extensions |-> m.extensions,
                       referenceTaskIds |-> m.refs]
              read == [type |-> "message", id |-> m.id, context |-> m.context, task |-> m.task,
                       role |-> m.role, parts |-> Struct(D), metadata |-> jsonMap(m.metadata),
                       extensions |-> m.extensions, refs |-> m.refs]
  <2>1. m # Nil
    BY <1>2, CarriedMessageIs
  <2>2. C0!FromV1Message(m) = Struct(sent)
    BY <2>1, WireOfC0 DEF C0!FromV1Message, C0!Opt, C0!Each, C0!toCompatRole, C0!fromCompatRole
  <2>3. Struct(sent) = sent /\ Struct(W) # Err /\ jsonMap(m.metadata) # Err
    BY <2>2, Converted
  <2>4. Struct(W) = W /\ \A i \in DOMAIN m.parts : W[i] # Err
    BY <2>3, Converted
  <2>5. IsParts(m.parts) /\ IsMap(m.metadata) /\ m.role \in Roles \cup {""}
    BY <1>2 DEF IsMessage
  <2>6. \A i \in DOMAIN m.parts : IsPart(m.parts[i])
    BY <2>5 DEF IsParts, IsListOf
  <2>7. D = C
    <3>1. \A i \in DOMAIN m.parts : C0!ToV1Part(C0!FromV1Part(m.parts[i])) = CarriedPart("rpc0", m.parts[i])
      BY <2>4, <2>6, PartOfC0
    <3>. QED  BY <3>1
  <2>8. Struct(C) = C
    BY StructIs, CarriedAreNoErrors
  <2>9. jsonMap(m.metadata) = CarriedMap("rpc0", m.metadata)
    BY <2>3, <2>5, MapCrosses DEF HTTP, Bindings
  <2>10. C0!ToV1Message(sent) = read
    <3>1. sent # Nil
      BY DEF NotAFunction
    <3>2. fromProtoRole(sent.role) = m.role
      BY <2>5, EnumsCross
    <3>. QED  BY <2>4, <3>1, <3>2, WireOfC0 DEF C0!ToV1Message, C0!Opt, C0!Each, C0!toCompatRole, C0!fromCompatRole
  <2>12. read = CarriedMessage("rpc0", m)
    <3>1. CarriedMessage("rpc0", m) =
            [type |-> "message", id |-> m.id, context |-> m.context, task |-> m.task,
             role |-> m.role, parts |-> C, metadata |-> CarriedMap("rpc0", m.metadata),
             extensions |-> m.extensions, refs |-> m.refs]
      BY <1>2, CarriedMessageIs
    <3>2. Struct(D) = C
      BY <2>7, <2>8
    <3>. HIDE DEF C, D
    <3>. QED  BY <2>9, <3>1, <3>2
  <2>. QED  BY <2>2, <2>3, <2>10, <2>12
<1>. QED  BY <1>1, <1>2

\* A status that crosses JSON-RPC of version 0.3.
LEMMA StatusOfC0 ==
    ASSUME NotAFunction(Nil), NotAFunction(Err), NEW s, IsStatus(s),
           C0!fromV1Status(s) # Err
    PROVE  C0!toV1Status(C0!fromV1Status(s)) = CarriedStatus("rpc0", s)
<1>. DEFINE sent == [state |-> toProtoTaskState(s.state), message |-> C0!FromV1Message(s.message), timestamp |-> s.time]
            read == [state |-> s.state, message |-> C0!ToV1Message(C0!FromV1Message(s.message)), time |-> s.time]
<1>1. /\ s.message = Nil \/ IsMessage(s.message)
      /\ s.state \in TaskStates \cup {""}
  BY DEF IsStatus
<1>2. C0!fromV1Status(s) = Struct(sent)
  BY WireOfC0 DEF C0!fromV1Status, C0!FromV1TaskState, C0!ToV1TaskState
<1>3. Struct(sent) = sent /\ C0!FromV1Message(s.message) # Err
  BY <1>2, Converted
<1>4. C0!toV1Status(sent) = read
  <2>1. fromProtoTaskState(sent.state) = s.state
    BY <1>1, EnumsCross, WireOfC0
  <2>. QED  BY <2>1, WireOfC0 DEF C0!toV1Status, C0!FromV1TaskState, C0!ToV1TaskState
<1>5. C0!ToV1Message(C0!FromV1Message(s.message)) = CarriedMessage("rpc0", s.message)
  BY <1>1, <1>3, MessageOfC0
<1>. QED  BY <1>2, <1>3, <1>4, <1>5, CarriedStatusIs

\* An artifact that crosses JSON-RPC of version 0.3.
LEMMA ArtifactOfC0 ==
    ASSUME NotAFunction(Nil), NotAFunction(Err), NEW a, IsArtifact(a),
           C0!FromV1Artifact(a) # Err
    PROVE  C0!ToV1Artifact(C0!FromV1Artifact(a)) = CarriedArtifact("rpc0", a)
<1>. DEFINE W == [i \in DOMAIN a.parts |-> C0!FromV1Part(a.parts[i])]
            D == [i \in DOMAIN W |-> C0!ToV1Part(W[i])]
            C == [i \in DOMAIN a.parts |-> CarriedPart("rpc0", a.parts[i])]
            sent == [artifactId |-> a.id, name |-> a.name, description |-> a.description,
                     parts |-> Struct(W), metadata |-> jsonMap(a.metadata),
                     extensions |-> a.extensions]
            read == [id |-> a.id, name |-> a.name, description |-> a.description,
                     parts |-> Struct(D), metadata |-> jsonMap(a.metadata),
                     extensions |-> a.extensions]
<1>1. a # Nil
  <2>1. a = [id |-> a.id, name |-> a.name, description |-> a.description, parts |-> a.parts,
             metadata |-> a.metadata, extensions |-> a.extensions]
    BY DEF IsArtifact
  <2>. QED  BY <2>1 DEF NotAFunction
<1>2. C0!FromV1Artifact(a) = Struct(sent)
  BY <1>1, WireOfC0 DEF C0!FromV1Artifact, C0!Opt, C0!Each
<1>3. Struct(sent) = sent /\ Struct(W) # Err /\ jsonMap(a.metadata) # Err
  BY <1>2, Converted
<1>4. Struct(W) = W /\ \A i \in DOMAIN a.parts : W[i] # Err
  BY <1>3, Converted
<1>5. IsParts(a.parts) /\ IsMap(a.metadata)
  BY DEF IsArtifact
<1>6. \A i \in DOMAIN a.parts : IsPart(a.parts[i])
  BY <1>5 DEF IsParts, IsListOf
<1>7. D = C
  <2>1. \A i \in DOMAIN a.parts : C0!ToV1Part(C0!FromV1Part(a.parts[i])) = CarriedPart("rpc0", a.parts[i])
    BY <1>4, <1>6, PartOfC0
  <2>. QED  BY <2>1
<1>8. Struct(C) = C
  BY StructIs, CarriedAreNoErrors
<1>9. jsonMap(a.metadata) = CarriedMap("rpc0", a.metadata)
  BY <1>3, <1>5, MapCrosses DEF HTTP, Bindings
<1>10. C0!ToV1Artifact(sent) = read
  <2>1. sent # Nil
    BY DEF NotAFunction
  <2>. QED  BY <1>4, <2>1, WireOfC0 DEF C0!ToV1Artifact, C0!Opt, C0!Each
<1>12. read = CarriedArtifact("rpc0", a)
  <2>1. CarriedArtifact("rpc0", a) =
          [id |-> a.id, name |-> a.name, description |-> a.description, parts |-> C,
           metadata |-> CarriedMap("rpc0", a.metadata), extensions |-> a.extensions]
    BY CarriedArtifactIs
  <2>2. Struct(D) = C
    BY <1>7, <1>8
  <2>. HIDE DEF C, D
  <2>. QED  BY <1>9, <2>1, <2>2
<1>. QED  BY <1>2, <1>3, <1>10, <1>12

\* A task that crosses JSON-RPC of version 0.3.
LEMMA TaskOfC0 ==
    ASSUME NotAFunction(Nil), NotAFunction(Err), NEW t, IsTask(t),
           C0!FromV1Task(t) # Err
    PROVE  C0!ToV1Task(C0!FromV1Task(t)) = CarriedTask("rpc0", t)
<1>. DEFINE AW == [i \in DOMAIN t.artifacts |-> C0!FromV1Artifact(t.artifacts[i])]
            AD == [i \in DOMAIN AW |-> C0!ToV1Artifact(AW[i])]
            AC == [i \in DOMAIN t.artifacts |-> CarriedArtifact("rpc0", t.artifacts[i])]
            HW == [i \in DOMAIN t.history |-> C0!FromV1Message(t.history[i])]
            HD == [i \in DOMAIN HW |-> C0!ToV1Message(HW[i])]
            HC == [i \in DOMAIN t.history |-> CarriedMessage("rpc0", t.history[i])]
            S == C0!fromV1Status(t.status)
            sent == [kind |-> "task", id |-> t.id, contextId |-> t.context, status |-> S,
                     artifacts |-> Struct(AW), history |-> Struct(HW),
                     metadata |-> jsonMap(t.metadata)]
            read == [type |-> "task", id |-> t.id, context |-> t.context,
                     status |-> C0!toV1Status(S), artifacts |-> Struct(AD), history |-> Struct(HD),
                     metadata |-> jsonMap(t.metadata)]
<1>1. /\ IsStatus(t.status) /\ IsMap(t.metadata)
      /\ \A i \in DOMAIN t.artifacts : IsArtifact(t.artifacts[i])
      /\ \A i \in DOMAIN t.history : IsMessage(t.history[i])
  BY DEF IsTask, IsListOf
<1>2. C0!FromV1Task(t) = Struct(sent)
  BY WireOfC0 DEF C0!FromV1Task, C0!Each
<1>3. /\ Struct(sent) = sent /\ S # Err /\ Struct(AW) # Err /\ Struct(HW) # Err
      /\ jsonMap(t.metadata) # Err
  BY <1>2, Converted
<1>4. /\ Struct(AW) = AW /\ \A i \in DOMAIN t.artifacts : AW[i] # Err
      /\ Struct(HW) = HW /\ \A i \in DOMAIN t.history : HW[i] # Err
  BY <1>3, Converted
<1>5. C0!ToV1Task(sent) = read
  BY <1>4, WireOfC0 DEF C0!ToV1Task, C0!Each
<1>6. C0!ToV1Task(sent) = read
  BY <1>5
<1>8. AD = AC
  <2>1. \A i \in DOMAIN t.artifacts : C0!ToV1Artifact(C0!FromV1Artifact(t.artifacts[i])) = CarriedArtifact("rpc0", t.artifacts[i])
    BY <1>1, <1>4, ArtifactOfC0
  <2>. QED  BY <2>1
<1>9. HD = HC
  <2>1. \A i \in DOMAIN t.history : C0!ToV1Message(C0!FromV1Message(t.history[i])) = CarriedMessage("rpc0", t.history[i])
    BY <1>1, <1>4, MessageOfC0
  <2>. QED  BY <2>1
<1>10. Struct(AC) = AC /\ Struct(HC) = HC
  BY <1>1, StructIs, CarriedAreNoErrors
<1>11. read.status = CarriedStatus("rpc0", t.status)
  BY <1>1, <1>3, <1>6, StatusOfC0
<1>12. jsonMap(t.metadata) = CarriedMap("rpc0", t.metadata)
  BY <1>1, <1>3, MapCrosses DEF HTTP, Bindings
<1>13. read = CarriedTask("rpc0", t)
  <2>1. CarriedTask("rpc0", t) =
          [type |-> "task", id |-> t.id, context |-> t.context,
           status |-> CarriedStatus("rpc0", t.status), artifacts |-> AC, history |-> HC,
           metadata |-> CarriedMap("rpc0", t.metadata)]
    BY CarriedTaskIs
  <2>2. Struct(AD) = AC /\ Struct(HD) = HC
    BY <1>8, <1>9, <1>10
  <2>3. C0!toV1Status(S) = CarriedStatus("rpc0", t.status)
    BY <1>11
  <2>. HIDE DEF AC, AD, HC, HD, S
  <2>. QED  BY <1>12, <2>1, <2>2, <2>3
<1>. QED  BY <1>2, <1>3, <1>6, <1>13

\* So does an event of a stream.
LEMMA EventOfC0 ==
    ASSUME NotAFunction(Nil), NotAFunction(Err), NEW e, IsEvent(e), C0!FromV1Event(e) # Err
    PROVE  C0!ToV1Event(C0!FromV1Event(e)) = CarriedEvent("rpc0", e)
<1>1. CASE e.type = "message" /\ IsMessage(e)
  <2>1. C0!FromV1Message(e) # Err /\ C0!FromV1Event(e) = C0!FromV1Message(e)
    BY <1>1 DEF C0!FromV1Event
  <2>2. C0!FromV1Message(e).kind = "message"
    <3>1. e # Nil
      BY <1>1, CarriedMessageIs
    <3>. DEFINE parts == C0!Each(C0!FromV1Part, e.parts)
                sent == [kind |-> "message", id |-> e.id, contextId |-> e.context, taskId |-> e.task,
                         role |-> C0!toCompatRole(e.role), parts |-> parts,
                         metadata |-> C0!jsonMap(e.metadata), extensions |-> e.extensions,
                         referenceTaskIds |-> e.refs]
    <3>2. C0!FromV1Message(e) = Struct(sent)
      BY <3>1, WireOfC0 DEF C0!FromV1Message, C0!Opt
    <3>. HIDE DEF parts
    <3>3. C0!FromV1Message(e) = sent
      BY <2>1, <3>2, Converted
    <3>. QED  BY <3>3
  <2>3. C0!ToV1Event(C0!FromV1Event(e)) = C0!ToV1Message(C0!FromV1Message(e))
    BY <2>1, <2>2 DEF C0!ToV1Event
  <2>. QED  BY <1>1, <2>1, <2>3, MessageOfC0, CarriedEventIs
<1>2. CASE e.type = "task" /\ IsTask(e)
  <2>1. C0!FromV1Task(e) # Err /\ C0!FromV1Event(e) = C0!FromV1Task(e)
    BY <1>2 DEF C0!FromV1Event
  <2>2. C0!FromV1Task(e).kind = "task"
    <3>. DEFINE artifacts == C0!Each(C0!FromV1Artifact, e.artifacts)
                history == C0!Each(C0!FromV1Message, e.history)
                sent == [kind |-> "task", id |-> e.id, contextId |-> e.context,
                         status |-> C0!fromV1Status(e.status), artifacts |-> artifacts,
                         history |-> history, metadata |-> C0!jsonMap(e.metadata)]
    <3>1. C0!FromV1Task(e) = Struct(sent)
      BY WireOfC0 DEF C0!FromV1Task
    <3>. HIDE DEF artifacts, history
    <3>2. C0!FromV1Task(e) = sent
      BY <2>1, <3>1, Converted
    <3>. QED  BY <3>2
  <2>3. C0!ToV1Event(C0!FromV1Event(e)) = C0!ToV1Task(C0!FromV1Task(e))
    BY <2>1, <2>2 DEF C0!ToV1Event
  <2>. QED  BY <1>2, <2>1, <2>3, TaskOfC0, CarriedEventIs
<1>3. CASE e.type = "status" /\ IsStatusUpdate(e)
  <2>. DEFINE S == C0!fromV1Status(e.status)
              sent == [kind |-> "status-update", taskId |-> e.task, contextId |-> e.context,
                       status |-> S, metadata |-> jsonMap(e.metadata),
                       final |-> C0!Terminal(e.status.state) \/ e.status.state = "input-required"]
              read == [type |-> "status", task |-> e.task, context |-> e.context,
                       status |-> C0!toV1Status(S), metadata |-> jsonMap(e.metadata)]
  <2>1. IsStatus(e.status) /\ IsMap(e.metadata)
    BY <1>3 DEF IsStatusUpdate
  <2>2. Struct(sent) # Err /\ C0!FromV1Event(e) = Struct(sent)
    BY <1>3, WireOfC0 DEF C0!FromV1Event, C0!FromV1TaskStatusUpdateEvent
  <2>3. Struct(sent) = sent /\ S # Err /\ jsonMap(e.metadata) # Err
    BY <2>2, Converted
  <2>4. C0!ToV1Event(C0!FromV1Event(e)) = read
    <3>. HIDE DEF S
    <3>. QED  BY <2>2, <2>3 DEF C0!ToV1Event, C0!ToV1TaskStatusUpdateEvent
  <2>5. read.status = CarriedStatus("rpc0", e.status)
    BY <2>1, <2>3, StatusOfC0
  <2>6. jsonMap(e.metadata) = CarriedMap("rpc0", e.metadata)
    BY <2>1, <2>3, MapCrosses DEF HTTP, Bindings
  <2>. QED  BY <1>3, <2>4, <2>5, <2>6, CarriedEventIs
<1>4. CASE e.type = "artifact" /\ IsArtifactUpdate(e)
  <2>. DEFINE A == C0!FromV1Artifact(e.artifact)
              sent == [kind |-> "artifact-update", taskId |-> e.task, contextId |-> e.context,
                       append |-> e.append, lastChunk |-> e.lastChunk, artifact |-> A,
                       metadata |-> jsonMap(e.metadata)]
              read == [type |-> "artifact", task |-> e.task, context |-> e.context,
                       append |-> e.append, lastChunk |-> e.lastChunk,
                       artifact |-> C0!ToV1Artifact(A), metadata |-> jsonMap(e.metadata)]
  <2>1. IsArtifact(e.artifact) /\ IsMap(e.metadata)
    BY <1>4 DEF IsArtifactUpdate
  <2>2. Struct(sent) # Err /\ C0!FromV1Event(e) = Struct(sent)
    BY <1>4, WireOfC0 DEF C0!FromV1Event, C0!FromV1TaskArtifactUpdateEvent
  <2>3. Struct(sent) = sent /\ A # Err /\ jsonMap(e.metadata) # Err
    BY <2>2, Converted
  <2>4. C0!ToV1Event(C0!FromV1Event(e)) = read
    <3>. HIDE DEF A
    <3>. QED  BY <2>2, <2>3 DEF C0!ToV1Event, C0!ToV1TaskArtifactUpdateEvent
  <2>5. read.artifact = CarriedArtifact("rpc0", e.artifact)
    BY <2>1, <2>3, ArtifactOfC0
  <2>6. jsonMap(e.metadata) = CarriedMap("rpc0", e.metadata)
    BY <2>1, <2>3, MapCrosses DEF HTTP, Bindings
  <2>. QED  BY <1>4, <2>4, <2>5, <2>6, CarriedEventIs
<1>. QED  BY <1>1, <1>2, <1>3, <1>4 DEF IsEvent, IsSendResult

-----------------------------------------------------------------------------
(* HTTP+JSON, version 0.3 *)

\* What HTTP+JSON of version 0.3 (pbjson) shares with the others.
LEMMA WireOfP0 ==
    /\ \A r : P0!Struct(r) = Struct(r)
    /\ \A m : P0!toProtoMap(m) = toProtoMap(m) /\ P0!jsonMap(m) = jsonMap(m)
    /\ \A x : P0!toProtoRole(x) = toProtoRole(x) /\ P0!fromProtoRole(x) = fromProtoRole(x)
    /\ \A s \in TaskStates \cup {""} : P0!DecodeTaskState(P0!EncodeTaskState(s)) = s
<1>1. ASSUME NEW r PROVE P0!Struct(r) = Struct(r)
  BY DEF P0!Struct, P0!Strict, Struct, Strict
<1>2. ASSUME NEW m PROVE P0!toProtoMap(m) = toProtoMap(m) /\ P0!jsonMap(m) = jsonMap(m)
  BY DEF P0!toProtoMap, P0!jsonMap, toProtoMap, jsonMap
<1>3. ASSUME NEW x
      PROVE  P0!toProtoRole(x) = toProtoRole(x) /\ P0!fromProtoRole(x) = fromProtoRole(x)
  BY DEF P0!toProtoRole, P0!fromProtoRole, toProtoRole, fromProtoRole, P0!Roles, Roles
<1>4. ASSUME NEW s \in TaskStates \cup {""}
      PROVE  P0!DecodeTaskState(P0!EncodeTaskState(s)) = s
  BY DEF P0!EncodeTaskState, P0!DecodeTaskState, P0!toProtoTaskState, P0!fromProtoTaskState,
         P0!TaskStates, TaskStates
<1>. QED  BY <1>1, <1>2, <1>3, <1>4

\* A part that is sent arrives; an empty file arrives as no content.
LEMMA PartOfP0 ==
    ASSUME NEW p, IsPart(p), P0!partToWire(p) # Err
    PROVE  P0!partFromWire(P0!partToWire(p)) = CarriedPart("rest0", p)
<1>. DEFINE meta == jsonMap(p.metadata)
<1>1. IsContent(p.content) /\ IsMap(p.metadata)
  BY DEF IsPart
<1>2. p.content = [kind |-> p.content.kind, value |-> p.content.value]
  BY <1>1 DEF IsContent
<1>3. meta # Err => meta = CarriedMap("rest0", p.metadata)
  BY <1>1, MapCrosses DEF HTTP, Bindings
<1>4. CASE p.content.kind = "text"
  <2>. DEFINE sent == [part |-> "text", value |-> p.content.value, metadata |-> meta]
  <2>1. P0!partToWire(p) = Struct(sent)
    BY <1>4, WireOfP0 DEF P0!partToWire
  <2>2. Struct(sent) = sent /\ meta # Err
    BY <2>1, Converted
  <2>3. P0!partFromWire(sent) =
          [content |-> [kind |-> "text", value |-> p.content.value], filename |-> "",
           mediaType |-> "", metadata |-> meta]
    <3>. HIDE DEF meta
    <3>. QED  BY DEF P0!partFromWire
  <2>4. CarriedPart("rest0", p) =
          [content |-> [p.content EXCEPT !.value = p.content.value], filename |-> "", mediaType |-> "",
           metadata |-> CarriedMap("rest0", p.metadata)]
    BY <1>4 DEF CarriedPart, Legacy
  <2>. HIDE DEF meta
  <2>. QED  BY <1>2, <1>3, <1>4, <2>1, <2>2, <2>3, <2>4
<1>5. CASE p.content.kind \in {"data", "value"}
  <2>. DEFINE value == toProtoMap(p.content.value)
              inner == Struct([kind |-> p.content.kind, value |-> value])
              sent == [part |-> "data", value |-> inner, metadata |-> meta]
  <2>1. P0!partToWire(p) = Struct(sent)
    BY <1>5, WireOfP0 DEF P0!partToWire
  <2>2. Struct(sent) = sent /\ meta # Err /\ inner # Err
    BY <2>1, Converted
  <2>3. inner = [kind |-> p.content.kind, value |-> value] /\ value # Err
    <3>. HIDE DEF value
    <3>. QED  BY <2>2, Converted
  <2>4. value = Numbers(p.content.value)
    BY <1>1, <1>5, <2>3, MapIs DEF IsContent
  <2>5. P0!partFromWire(sent) =
          [content |-> inner, filename |-> "", mediaType |-> "", metadata |-> meta]
    <3>. HIDE DEF meta, value, inner
    <3>. QED  BY DEF P0!partFromWire
  <2>6. CarriedPart("rest0", p) =
          [content |-> [p.content EXCEPT !.value = Numbers(p.content.value)], filename |-> "",
           mediaType |-> "", metadata |-> CarriedMap("rest0", p.metadata)]
    BY <1>5 DEF CarriedPart, Legacy
  <2>7. [p.content EXCEPT !.value = Numbers(p.content.value)] =
          [kind |-> p.content.kind, value |-> Numbers(p.content.value)]
    BY <1>2
  <2>. HIDE DEF value, inner, meta
  <2>. QED  BY <1>3, <2>1, <2>2, <2>3, <2>4, <2>5, <2>6, <2>7
<1>6. CASE p.content.kind \in {"raw", "url"}
  <2>. DEFINE content == IF p.content.value = "" THEN P0!NoContent ELSE p.content
              sent == [part |-> "file", value |-> p.content, mimeType |-> p.mediaType,
                       name |-> p.filename, metadata |-> meta]
  <2>1. P0!partToWire(p) = Struct(sent)
    BY <1>6, WireOfP0 DEF P0!partToWire
  <2>2. Struct(sent) = sent /\ meta # Err
    BY <2>1, Converted
  <2>3. P0!partFromWire(sent) =
          [content |-> content, filename |-> p.filename, mediaType |-> p.mediaType,
           metadata |-> meta]
    <3>. HIDE DEF meta
    <3>. QED  BY DEF P0!partFromWire
  <2>4. CarriedPart("rest0", p) =
          [content |-> IF p.content.value = "" THEN P0!NoContent
                       ELSE [p.content EXCEPT !.value = p.content.value],
           filename |-> p.filename, mediaType |-> p.mediaType,
           metadata |-> CarriedMap("rest0", p.metadata)]
    BY <1>6 DEF CarriedPart, Legacy
  <2>5. [p.content EXCEPT !.value = p.content.value] = p.content
    BY <1>2
  <2>. HIDE DEF meta
  <2>. QED  BY <1>3, <2>1, <2>2, <2>3, <2>4, <2>5
<1>. QED  BY <1>1, <1>4, <1>5, <1>6 DEF IsContent

\* A message that is sent arrives.
LEMMA MessageOfP0 ==
    ASSUME NotAFunction(Nil), NotAFunction(Err), NEW m, m = Nil \/ IsMessage(m),
           P0!messageToWire(m) # Err
    PROVE  P0!messageFromWire(P0!messageToWire(m)) = CarriedMessage("rest0", m)
<1>1. CASE m = Nil
  BY <1>1 DEF P0!messageToWire, P0!messageFromWire, P0!Opt, CarriedMessage, Opt
<1>2. CASE IsMessage(m)
  <2>. DEFINE W == [i \in DOMAIN m.parts |-> P0!partToWire(m.parts[i])]
              D == [i \in DOMAIN W |-> P0!partFromWire(W[i])]
              C == [i \in DOMAIN m.parts |-> CarriedPart("rest0", m.parts[i])]
              sent == [messageId |-> m.id, contextId |-> m.context, taskId |-> m.task,
                       role |-> toProtoRole(m.role), content |-> Struct(W),
                       metadata |-> jsonMap(m.metadata), extensions |-> m.extensions]
              read == [type |-> "message", id |-> m.id, context |-> m.context, task |-> m.task,
                       role |-> m.role, parts |-> Struct(D), metadata |-> jsonMap(m.metadata),
                       extensions |-> m.extensions, refs |-> <<>>]
  <2>1. m # Nil
    BY <1>2, CarriedMessageIs
  <2>2. P0!messageToWire(m) = Struct(sent)
    BY <2>1, WireOfP0 DEF P0!messageToWire, P0!Opt, P0!Each
  <2>3. Struct(sent) = sent /\ Struct(W) # Err /\ jsonMap(m.metadata) # Err
    BY <2>2, Converted
  <2>4. Struct(W) = W /\ \A i \in DOMAIN m.parts : W[i] # Err
    BY <2>3, Converted
  <2>5. IsParts(m.parts) /\ IsMap(m.metadata) /\ m.role \in Roles \cup {""}
    BY <1>2 DEF IsMessage
  <2>6. \A i \in DOMAIN m.parts : IsPart(m.parts[i])
    BY <2>5 DEF IsParts, IsListOf
  <2>7. D = C
    <3>1. \A i \in DOMAIN m.parts : P0!partFromWire(P0!partToWire(m.parts[i])) = CarriedPart("rest0", m.parts[i])
      BY <2>4, <2>6, PartOfP0
    <3>. QED  BY <3>1
  <2>8. Struct(C) = C
    BY StructIs, CarriedAreNoErrors
  <2>9. jsonMap(m.metadata) = CarriedMap("rest0", m.metadata)
    BY <2>3, <2>5, MapCrosses DEF HTTP, Bindings
  <2>10. P0!messageFromWire(sent) = read
    <3>1. sent # Nil
      BY DEF NotAFunction
    <3>2. fromProtoRole(sent.role) = m.role
      BY <2>5, EnumsCross
    <3>. QED  BY <2>4, <3>1, <3>2, WireOfP0 DEF P0!messageFromWire, P0!Opt, P0!Each
  <2>12. read = CarriedMessage("rest0", m)
    <3>1. CarriedMessage("rest0", m) =
            [type |-> "message", id |-> m.id, context |-> m.context, task |-> m.task,
             role |-> m.role, parts |-> C, metadata |-> CarriedMap("rest0", m.metadata),
             extensions |-> m.extensions, refs |-> <<>>]
      BY <1>2, CarriedMessageIs
    <3>2. Struct(D) = C
      BY <2>7, <2>8
    <3>. HIDE DEF C, D
    <3>. QED  BY <2>9, <3>1, <3>2
  <2>. QED  BY <2>2, <2>3, <2>10, <2>12
<1>. QED  BY <1>1, <1>2

\* A status that crosses HTTP+JSON of version 0.3.
LEMMA StatusOfP0 ==
    ASSUME NotAFunction(Nil), NotAFunction(Err), NEW s, IsStatus(s),
           P0!taskStatusToWire(s) # Err
    PROVE  P0!taskStatusFromWire(P0!taskStatusToWire(s)) = CarriedStatus("rest0", s)
<1>. DEFINE sent == [state |-> P0!EncodeTaskState(s.state), message |-> P0!messageToWire(s.message), timestamp |-> s.time]
            read == [state |-> s.state, message |-> P0!messageFromWire(P0!messageToWire(s.message)), time |-> s.time]
<1>1. /\ s.message = Nil \/ IsMessage(s.message)
      /\ s.state \in TaskStates \cup {""}
  BY DEF IsStatus
<1>2. P0!taskStatusToWire(s) = Struct(sent)
  BY WireOfP0 DEF P0!taskStatusToWire
<1>3. Struct(sent) = sent /\ P0!messageToWire(s.message) # Err
  BY <1>2, Converted
<1>4. P0!taskStatusFromWire(sent) = read
  <2>1. P0!DecodeTaskState(sent.state) = s.state
    BY <1>1, EnumsCross, WireOfP0
  <2>. QED  BY <2>1, WireOfP0 DEF P0!taskStatusFromWire
<1>5. P0!messageFromWire(P0!messageToWire(s.message)) = CarriedMessage("rest0", s.message)
  BY <1>1, <1>3, MessageOfP0
<1>. QED  BY <1>2, <1>3, <1>4, <1>5, CarriedStatusIs

\* An artifact that crosses HTTP+JSON of version 0.3.
LEMMA ArtifactOfP0 ==
    ASSUME NotAFunction(Nil), NotAFunction(Err), NEW a, IsArtifact(a),
           P0!artifactToWire(a) # Err
    PROVE  P0!artifactFromWire(P0!artifactToWire(a)) = CarriedArtifact("rest0", a)
<1>. DEFINE W == [i \in DOMAIN a.parts |-> P0!partToWire(a.parts[i])]
            D == [i \in DOMAIN W |-> P0!partFromWire(W[i])]
            C == [i \in DOMAIN a.parts |-> CarriedPart("rest0", a.parts[i])]
            sent == [artifactId |-> a.id, name |-> a.name, description |-> a.description,
                     parts |-> Struct(W), metadata |-> jsonMap(a.metadata),
                     extensions |-> a.extensions]
            read == [id |-> a.id, name |-> a.name, description |-> a.description,
                     parts |-> Struct(D), metadata |-> jsonMap(a.metadata),
                     extensions |-> a.extensions]
<1>1. a # Nil
  <2>1. a = [id |-> a.id, name |-> a.name, description |-> a.description, parts |-> a.parts,
             metadata |-> a.metadata, extensions |-> a.extensions]
    BY DEF IsArtifact
  <2>. QED  BY <2>1 DEF NotAFunction
<1>2. P0!artifactToWire(a) = Struct(sent)
  BY <1>1, WireOfP0 DEF P0!artifactToWire, P0!Opt, P0!Each
<1>3. Struct(sent) = sent /\ Struct(W) # Err /\ jsonMap(a.metadata) # Err
  BY <1>2, Converted
<1>4. Struct(W) = W /\ \A i \in DOMAIN a.parts : W[i] # Err
  BY <1>3, Converted
<1>5. IsParts(a.parts) /\ IsMap(a.metadata)
  BY DEF IsArtifact
<1>6. \A i \in DOMAIN a.parts : IsPart(a.parts[i])
  BY <1>5 DEF IsParts, IsListOf
<1>7. D = C
  <2>1. \A i \in DOMAIN a.parts : P0!partFromWire(P0!partToWire(a.parts[i])) = CarriedPart("rest0", a.parts[i])
    BY <1>4, <1>6, PartOfP0
  <2>. QED  BY <2>1
<1>8. Struct(C) = C
  BY StructIs, CarriedAreNoErrors
<1>9. jsonMap(a.metadata) = CarriedMap("rest0", a.metadata)
  BY <1>3, <1>5, MapCrosses DEF HTTP, Bindings
<1>10. P0!artifactFromWire(sent) = read
  <2>1. sent # Nil
    BY DEF NotAFunction
  <2>. QED  BY <1>4, <2>1, WireOfP0 DEF P0!artifactFromWire, P0!Opt, P0!Each
<1>12. read = CarriedArtifact("rest0", a)
  <2>1. CarriedArtifact("rest0", a) =
          [id |-> a.id, name |-> a.name, description |-> a.description, parts |-> C,
           metadata |-> CarriedMap("rest0", a.metadata), extensions |-> a.extensions]
    BY CarriedArtifactIs
  <2>2. Struct(D) = C
    BY <1>7, <1>8
  <2>. HIDE DEF C, D
  <2>. QED  BY <1>9, <2>1, <2>2
<1>. QED  BY <1>2, <1>3, <1>10, <1>12

\* A task that crosses HTTP+JSON of version 0.3.
LEMMA TaskOfP0 ==
    ASSUME NotAFunction(Nil), NotAFunction(Err), NEW t, IsTask(t),
           P0!taskToWire(t) # Err
    PROVE  P0!taskFromWire(P0!taskToWire(t)) = CarriedTask("rest0", t)
<1>. DEFINE AW == [i \in DOMAIN t.artifacts |-> P0!artifactToWire(t.artifacts[i])]
            AD == [i \in DOMAIN AW |-> P0!artifactFromWire(AW[i])]
            AC == [i \in DOMAIN t.artifacts |-> CarriedArtifact("rest0", t.artifacts[i])]
            HW == [i \in DOMAIN t.history |-> P0!messageToWire(t.history[i])]
            HD == [i \in DOMAIN HW |-> P0!messageFromWire(HW[i])]
            HC == [i \in DOMAIN t.history |-> CarriedMessage("rest0", t.history[i])]
            S == P0!taskStatusToWire(t.status)
            sent == [id |-> t.id, contextId |-> t.context, status |-> S, artifacts |-> Struct(AW),
                     history |-> Struct(HW), metadata |-> jsonMap(t.metadata)]
            read == [type |-> "task", id |-> t.id, context |-> t.context,
                     status |-> P0!taskStatusFromWire(S), artifacts |-> Struct(AD),
                     history |-> Struct(HD), metadata |-> jsonMap(t.metadata)]
<1>1. /\ IsStatus(t.status) /\ IsMap(t.metadata)
      /\ \A i \in DOMAIN t.artifacts : IsArtifact(t.artifacts[i])
      /\ \A i \in DOMAIN t.history : IsMessage(t.history[i])
  BY DEF IsTask, IsListOf
<1>2. P0!taskToWire(t) = Struct(sent)
  BY WireOfP0 DEF P0!taskToWire, P0!Each
<1>3. /\ Struct(sent) = sent /\ S # Err /\ Struct(AW) # Err /\ Struct(HW) # Err
      /\ jsonMap(t.metadata) # Err
  BY <1>2, Converted
<1>4. /\ Struct(AW) = AW /\ \A i \in DOMAIN t.artifacts : AW[i] # Err
      /\ Struct(HW) = HW /\ \A i \in DOMAIN t.history : HW[i] # Err
  BY <1>3, Converted
<1>5. P0!taskFromWire(sent) = read
  BY <1>4, WireOfP0 DEF P0!taskFromWire, P0!Each
<1>6. P0!taskFromWire(sent) = read
  BY <1>5
<1>8. AD = AC
  <2>1. \A i \in DOMAIN t.artifacts : P0!artifactFromWire(P0!artifactToWire(t.artifacts[i])) = CarriedArtifact("rest0", t.artifacts[i])
    BY <1>1, <1>4, ArtifactOfP0
  <2>. QED  BY <2>1
<1>9. HD = HC
  <2>1. \A i \in DOMAIN t.history : P0!messageFromWire(P0!messageToWire(t.history[i])) = CarriedMessage("rest0", t.history[i])
    BY <1>1, <1>4, MessageOfP0
  <2>. QED  BY <2>1
<1>10. Struct(AC) = AC /\ Struct(HC) = HC
  BY <1>1, StructIs, CarriedAreNoErrors
<1>11. read.status = CarriedStatus("rest0", t.status)
  BY <1>1, <1>3, <1>6, StatusOfP0
<1>12. jsonMap(t.metadata) = CarriedMap("rest0", t.metadata)
  BY <1>1, <1>3, MapCrosses DEF HTTP, Bindings
<1>13. read = CarriedTask("rest0", t)
  <2>1. CarriedTask("rest0", t) =
          [type |-> "task", id |-> t.id, context |-> t.context,
           status |-> CarriedStatus("rest0", t.status), artifacts |-> AC, history |-> HC,
           metadata |-> CarriedMap("rest0", t.metadata)]
    BY CarriedTaskIs
  <2>2. Struct(AD) = AC /\ Struct(HD) = HC
    BY <1>8, <1>9, <1>10
  <2>3. P0!taskStatusFromWire(S) = CarriedStatus("rest0", t.status)
    BY <1>11
  <2>. HIDE DEF AC, AD, HC, HD, S
  <2>. QED  BY <1>12, <2>1, <2>2, <2>3
<1>. QED  BY <1>2, <1>3, <1>6, <1>13

\* So does an event of a stream.
LEMMA EventOfP0 ==
    ASSUME NotAFunction(Nil), NotAFunction(Err), NEW e, IsEvent(e), P0!ToProtoStreamEvent(e) # Err
    PROVE  P0!FromProtoStreamEvent(P0!ToProtoStreamEvent(e)) = CarriedEvent("rest0", e)
<1>1. CASE e.type = "message" /\ IsMessage(e)
  <2>1. P0!messageToWire(e) # Err /\ P0!ToProtoStreamEvent(e) = [key |-> "message", value |-> P0!messageToWire(e)]
    BY <1>1 DEF P0!ToProtoStreamEvent, P0!Key
  <2>2. P0!FromProtoStreamEvent(P0!ToProtoStreamEvent(e)) = P0!messageFromWire(P0!messageToWire(e))
    BY <2>1 DEF P0!FromProtoStreamEvent
  <2>. QED  BY <1>1, <2>1, <2>2, MessageOfP0, CarriedEventIs
<1>2. CASE e.type = "task" /\ IsTask(e)
  <2>1. P0!taskToWire(e) # Err /\ P0!ToProtoStreamEvent(e) = [key |-> "task", value |-> P0!taskToWire(e)]
    BY <1>2 DEF P0!ToProtoStreamEvent, P0!Key
  <2>2. P0!FromProtoStreamEvent(P0!ToProtoStreamEvent(e)) = P0!taskFromWire(P0!taskToWire(e))
    BY <2>1 DEF P0!FromProtoStreamEvent
  <2>. QED  BY <1>2, <2>1, <2>2, TaskOfP0, CarriedEventIs
<1>3. CASE e.type = "status" /\ IsStatusUpdate(e)
  <2>. DEFINE S == P0!taskStatusToWire(e.status)
              sent == [taskId |-> e.task, contextId |-> e.context, status |-> S,
                       final |-> P0!Final(e.status.state), metadata |-> jsonMap(e.metadata)]
              read == [type |-> "status", task |-> e.task, context |-> e.context,
                       status |-> P0!taskStatusFromWire(S), metadata |-> jsonMap(e.metadata)]
  <2>1. IsStatus(e.status) /\ IsMap(e.metadata)
    BY <1>3 DEF IsStatusUpdate
  <2>2. Struct(sent) # Err /\ P0!ToProtoStreamEvent(e) = [key |-> "statusUpdate", value |-> Struct(sent)]
    BY <1>3, WireOfP0 DEF P0!ToProtoStreamEvent, P0!Key, P0!taskStatusUpdateEventToWire
  <2>3. Struct(sent) = sent /\ S # Err /\ jsonMap(e.metadata) # Err
    BY <2>2, Converted
  <2>4. P0!FromProtoStreamEvent(P0!ToProtoStreamEvent(e)) = read
    <3>. HIDE DEF S
    <3>. QED  BY <2>2, <2>3 DEF P0!FromProtoStreamEvent, P0!statusUpdateFromWire
  <2>5. read.status = CarriedStatus("rest0", e.status)
    BY <2>1, <2>3, StatusOfP0
  <2>6. jsonMap(e.metadata) = CarriedMap("rest0", e.metadata)
    BY <2>1, <2>3, MapCrosses DEF HTTP, Bindings
  <2>. QED  BY <1>3, <2>4, <2>5, <2>6, CarriedEventIs
<1>4. CASE e.type = "artifact" /\ IsArtifactUpdate(e)
  <2>. DEFINE A == P0!artifactToWire(e.artifact)
              sent == [taskId |-> e.task, contextId |-> e.context, append |-> e.append,
                       lastChunk |-> e.lastChunk, artifact |-> A, metadata |-> jsonMap(e.metadata)]
              read == [type |-> "artifact", task |-> e.task, context |-> e.context,
                       append |-> e.append, lastChunk |-> e.lastChunk,
                       artifact |-> P0!artifactFromWire(A), metadata |-> jsonMap(e.metadata)]
  <2>1. IsArtifact(e.artifact) /\ IsMap(e.metadata)
    BY <1>4 DEF IsArtifactUpdate
  <2>2. Struct(sent) # Err /\ P0!ToProtoStreamEvent(e) = [key |-> "artifactUpdate", value |-> Struct(sent)]
    BY <1>4, WireOfP0 DEF P0!ToProtoStreamEvent, P0!Key, P0!taskArtifactUpdateEventToWire
  <2>3. Struct(sent) = sent /\ A # Err /\ jsonMap(e.metadata) # Err
    BY <2>2, Converted
  <2>4. P0!FromProtoStreamEvent(P0!ToProtoStreamEvent(e)) = read
    <3>. HIDE DEF A
    <3>. QED  BY <2>2, <2>3 DEF P0!FromProtoStreamEvent, P0!artifactUpdateFromWire
  <2>5. read.artifact = CarriedArtifact("rest0", e.artifact)
    BY <2>1, <2>3, ArtifactOfP0
  <2>6. jsonMap(e.metadata) = CarriedMap("rest0", e.metadata)
    BY <2>1, <2>3, MapCrosses DEF HTTP, Bindings
  <2>. QED  BY <1>4, <2>4, <2>5, <2>6, CarriedEventIs
<1>. QED  BY <1>1, <1>2, <1>3, <1>4 DEF IsEvent, IsSendResult

-----------------------------------------------------------------------------
(* JSON, version 1: over JSON-RPC and HTTP+JSON *)

JSON == {"rpc1", "rest1"}

\* What JSON of version 1 (package a2a) shares with the others.
LEMMA WireOfJ1 ==
    /\ \A r : J1!Struct(r) = Struct(r)
    /\ \A m : J1!toProtoMap(m) = toProtoMap(m) /\ J1!jsonMap(m) = jsonMap(m)
    /\ \A x : J1!toProtoRole(x) = toProtoRole(x) /\ J1!fromProtoRole(x) = fromProtoRole(x)
    /\ \A x : /\ J1!toProtoTaskState(x) = toProtoTaskState(x)
              /\ J1!fromProtoTaskState(x) = fromProtoTaskState(x)
              /\ J1!jsonTimestamp(x) = jsonTimestamp(x)
<1>1. ASSUME NEW r PROVE J1!Struct(r) = Struct(r)
  BY DEF J1!Struct, J1!Strict, Struct, Strict
<1>2. ASSUME NEW m PROVE J1!toProtoMap(m) = toProtoMap(m) /\ J1!jsonMap(m) = jsonMap(m)
  BY DEF J1!toProtoMap, J1!jsonMap, toProtoMap, jsonMap
<1>3. ASSUME NEW x
      PROVE  /\ J1!toProtoRole(x) = toProtoRole(x) /\ J1!fromProtoRole(x) = fromProtoRole(x)
             /\ J1!toProtoTaskState(x) = toProtoTaskState(x)
             /\ J1!fromProtoTaskState(x) = fromProtoTaskState(x)
  BY DEF J1!toProtoRole, J1!fromProtoRole, J1!toProtoTaskState, J1!fromProtoTaskState,
         toProtoRole, fromProtoRole, toProtoTaskState, fromProtoTaskState,
         J1!Roles, J1!TaskStates, Roles, TaskStates
<1>4. ASSUME NEW x PROVE J1!jsonTimestamp(x) = jsonTimestamp(x)
  BY DEF J1!jsonTimestamp, jsonTimestamp
<1>. QED  BY <1>1, <1>2, <1>3, <1>4

\* Records with some fields replaced, one at a time.
MessageFields(m) ==
    m = [type |-> "message", id |-> m.id, context |-> m.context, task |-> m.task, role |-> m.role,
         parts |-> m.parts, metadata |-> m.metadata, extensions |-> m.extensions, refs |-> m.refs]

TaskFields(t) ==
    t = [type |-> "task", id |-> t.id, context |-> t.context, status |-> t.status,
         artifacts |-> t.artifacts, history |-> t.history, metadata |-> t.metadata]

\* A message with three fields replaced by their JSON.
LEMMA MessageJSON ==
    ASSUME NEW m, MessageFields(m), NEW x, NEW y, NEW z
    PROVE  [m EXCEPT !.role = x, !.parts = y, !.metadata = z]
           = [type |-> "message", id |-> m.id, context |-> m.context, task |-> m.task,
              role |-> x, parts |-> y, metadata |-> z, extensions |-> m.extensions, refs |-> m.refs]
<1>. DEFINE m1 == [m EXCEPT !.role = x]
            m2 == [m1 EXCEPT !.parts = y]
            m3 == [m2 EXCEPT !.metadata = z]
<1>1. m1 = [type |-> "message", id |-> m.id, context |-> m.context, task |-> m.task, role |-> x,
            parts |-> m.parts, metadata |-> m.metadata, extensions |-> m.extensions,
            refs |-> m.refs]
  BY DEF MessageFields
<1>2. m2 = [type |-> "message", id |-> m.id, context |-> m.context, task |-> m.task, role |-> x,
            parts |-> y, metadata |-> m.metadata, extensions |-> m.extensions, refs |-> m.refs]
  <2>1. m2 = [m1 EXCEPT !.parts = y]
    OBVIOUS
  <2>. HIDE DEF m1, m2
  <2>. QED  BY <1>1, <2>1
<1>3. m3 = [type |-> "message", id |-> m.id, context |-> m.context, task |-> m.task, role |-> x,
            parts |-> y, metadata |-> z, extensions |-> m.extensions, refs |-> m.refs]
  <2>1. m3 = [m2 EXCEPT !.metadata = z]
    OBVIOUS
  <2>. HIDE DEF m1, m2, m3
  <2>. QED  BY <1>2, <2>1
<1>4. [m EXCEPT !.role = x, !.parts = y, !.metadata = z] = m3
  OBVIOUS
<1>. QED  BY <1>3, <1>4

\* A message with two fields read back from their JSON.
LEMMA MessageRead ==
    ASSUME NEW m, MessageFields(m), NEW x, NEW y
    PROVE  [m EXCEPT !.role = x, !.parts = y]
           = [type |-> "message", id |-> m.id, context |-> m.context, task |-> m.task,
              role |-> x, parts |-> y, metadata |-> m.metadata, extensions |-> m.extensions,
              refs |-> m.refs]
<1>. DEFINE m1 == [m EXCEPT !.role = x]
            m2 == [m1 EXCEPT !.parts = y]
<1>1. m1 = [type |-> "message", id |-> m.id, context |-> m.context, task |-> m.task, role |-> x,
            parts |-> m.parts, metadata |-> m.metadata, extensions |-> m.extensions,
            refs |-> m.refs]
  BY DEF MessageFields
<1>2. m2 = [type |-> "message", id |-> m.id, context |-> m.context, task |-> m.task, role |-> x,
            parts |-> y, metadata |-> m.metadata, extensions |-> m.extensions, refs |-> m.refs]
  <2>1. m2 = [m1 EXCEPT !.parts = y]
    OBVIOUS
  <2>. HIDE DEF m1, m2
  <2>. QED  BY <1>1, <2>1
<1>3. [m EXCEPT !.role = x, !.parts = y] = m2
  OBVIOUS
<1>. QED  BY <1>2, <1>3

\* A task with three fields replaced by their JSON.
LEMMA TaskJSON ==
    ASSUME NEW t, TaskFields(t), NEW x, NEW y, NEW z
    PROVE  [t EXCEPT !.status = x, !.artifacts = y, !.history = z]
           = [type |-> "task", id |-> t.id, context |-> t.context, status |-> x, artifacts |-> y,
              history |-> z, metadata |-> t.metadata]
<1>. DEFINE t1 == [t EXCEPT !.status = x]
            t2 == [t1 EXCEPT !.artifacts = y]
            t3 == [t2 EXCEPT !.history = z]
<1>1. t1 = [type |-> "task", id |-> t.id, context |-> t.context, status |-> x,
            artifacts |-> t.artifacts, history |-> t.history, metadata |-> t.metadata]
  BY DEF TaskFields
<1>2. t2 = [type |-> "task", id |-> t.id, context |-> t.context, status |-> x, artifacts |-> y,
            history |-> t.history, metadata |-> t.metadata]
  <2>1. t2 = [t1 EXCEPT !.artifacts = y]
    OBVIOUS
  <2>. HIDE DEF t1, t2
  <2>. QED  BY <1>1, <2>1
<1>3. t3 = [type |-> "task", id |-> t.id, context |-> t.context, status |-> x, artifacts |-> y,
            history |-> z, metadata |-> t.metadata]
  <2>1. t3 = [t2 EXCEPT !.history = z]
    OBVIOUS
  <2>. HIDE DEF t1, t2, t3
  <2>. QED  BY <1>2, <2>1
<1>4. [t EXCEPT !.status = x, !.artifacts = y, !.history = z] = t3
  OBVIOUS
<1>. QED  BY <1>3, <1>4

\* A part that is sent arrives, if it is read: an empty URL leaves no content.
LEMMA PartOfJ1 ==
    ASSUME NEW b \in JSON, NEW p, IsPart(p), J1!MarshalPart(p) # Err,
           J1!UnmarshalPart(J1!MarshalPart(p)) # Err
    PROVE  J1!UnmarshalPart(J1!MarshalPart(p)) = CarriedPart(b, p)
<1>. DEFINE meta == jsonMap(p.metadata)
            value == toProtoMap(p.content.value)
            inner == Struct([kind |-> p.content.kind, value |-> value])
            content == IF p.content.kind = "url" /\ p.content.value = "" THEN Nil
                       ELSE IF p.content.kind \in {"data", "value"} THEN inner
                       ELSE p.content
            sent == [content |-> content, filename |-> p.filename, mediaType |-> p.mediaType,
                     metadata |-> meta]
<1>1. IsContent(p.content) /\ IsMap(p.metadata)
  BY DEF IsPart
<1>2. p.content = [kind |-> p.content.kind, value |-> p.content.value]
  BY <1>1 DEF IsContent
<1>3. J1!MarshalPart(p) = Struct(sent)
  <2>1. p = [content |-> p.content, filename |-> p.filename, mediaType |-> p.mediaType,
             metadata |-> p.metadata]
    BY DEF IsPart
  <2>2. J1!MarshalPart(p) = Struct([p EXCEPT !.content = content, !.metadata = meta])
    BY <1>1, WireOfJ1 DEF J1!MarshalPart, IsContent
  <2>3. [p EXCEPT !.content = content, !.metadata = meta] = sent
    <3>. HIDE DEF content, meta
    <3>. DEFINE q == [p EXCEPT !.content = content]
    <3>1. q = [content |-> content, filename |-> p.filename, mediaType |-> p.mediaType,
               metadata |-> p.metadata]
      BY <2>1
    <3>2. [p EXCEPT !.content = content, !.metadata = meta] = [q EXCEPT !.metadata = meta]
      OBVIOUS
    <3>. HIDE DEF q
    <3>. QED  BY <3>1, <3>2
  <2>. QED  BY <2>2, <2>3
<1>4. Struct(sent) = sent /\ meta # Err /\ content # Err
  <2>. HIDE DEF content, meta
  <2>. QED  BY <1>3, Converted
<1>5. J1!UnmarshalPart(sent) = sent /\ content # Nil
  <2>. HIDE DEF content, meta
  <2>. QED  BY <1>3, <1>4 DEF J1!UnmarshalPart, J1!Require
<1>6. meta = CarriedMap(b, p.metadata)
  BY <1>1, <1>4, MapCrosses DEF HTTP, Bindings, JSON
<1>7. CASE p.content.kind \in {"data", "value"}
  <2>1. content = inner /\ inner # Err
    BY <1>4, <1>7
  <2>2. inner = [kind |-> p.content.kind, value |-> value] /\ value # Err
    <3>1. inner # Err
      BY <2>1
    <3>. HIDE DEF value, content
    <3>. QED  BY <3>1, Converted
  <2>3. value = Numbers(p.content.value)
    BY <1>1, <1>7, <2>2, MapIs DEF IsContent
  <2>4. CarriedPart(b, p) =
          [content |-> [p.content EXCEPT !.value = Numbers(p.content.value)],
           filename |-> p.filename, mediaType |-> p.mediaType,
           metadata |-> CarriedMap(b, p.metadata)]
    BY <1>7 DEF CarriedPart, Legacy, JSON
  <2>5. [p.content EXCEPT !.value = Numbers(p.content.value)] =
          [kind |-> p.content.kind, value |-> Numbers(p.content.value)]
    BY <1>2
  <2>. HIDE DEF inner, content, meta, value
  <2>. QED  BY <1>3, <1>4, <1>5, <1>6, <2>1, <2>2, <2>3, <2>4, <2>5
<1>8. CASE p.content.kind \notin {"data", "value"}
  <2>1. content = p.content
    BY <1>5, <1>8
  <2>2. CarriedPart(b, p) =
          [content |-> [p.content EXCEPT !.value = p.content.value],
           filename |-> p.filename, mediaType |-> p.mediaType,
           metadata |-> CarriedMap(b, p.metadata)]
    BY <1>8 DEF CarriedPart, Legacy, JSON
  <2>3. [p.content EXCEPT !.value = p.content.value] = p.content
    BY <1>2
  <2>. HIDE DEF content, meta
  <2>. QED  BY <1>3, <1>4, <1>5, <1>6, <2>1, <2>2, <2>3
<1>. QED  BY <1>7, <1>8

\* A message that is sent arrives, if it is read.
LEMMA MessageOfJ1 ==
    ASSUME NotAFunction(Nil), NotAFunction(Err), NEW b \in JSON, NEW m, m = Nil \/ IsMessage(m),
           J1!MarshalMessage(m) # Err, J1!UnmarshalMessage(J1!MarshalMessage(m)) # Err
    PROVE  J1!UnmarshalMessage(J1!MarshalMessage(m)) = CarriedMessage(b, m)
<1>1. CASE m = Nil
  BY <1>1 DEF J1!MarshalMessage, J1!UnmarshalMessage, J1!Opt, CarriedMessage, Opt
<1>2. CASE IsMessage(m)
  <2>. DEFINE W == [i \in DOMAIN m.parts |-> J1!MarshalPart(m.parts[i])]
              D == [i \in DOMAIN W |-> J1!UnmarshalPart(W[i])]
              C == [i \in DOMAIN m.parts |-> CarriedPart(b, m.parts[i])]
              SW == Struct(W)
              SD == Struct(D)
              meta == jsonMap(m.metadata)
              role == toProtoRole(m.role)
              sent == [type |-> "message", id |-> m.id, context |-> m.context, task |-> m.task,
                       role |-> role, parts |-> SW, metadata |-> meta,
                       extensions |-> m.extensions, refs |-> m.refs]
              read == [type |-> "message", id |-> m.id, context |-> m.context, task |-> m.task,
                       role |-> m.role, parts |-> SD, metadata |-> meta,
                       extensions |-> m.extensions, refs |-> m.refs]
  <2>1. m # Nil
    BY <1>2, CarriedMessageIs
  <2>2. J1!MarshalMessage(m) = Struct(sent)
    <3>1. MessageFields(m)
      BY <1>2 DEF IsMessage, MessageFields
    <3>2. J1!MarshalMessage(m) = Struct([m EXCEPT !.role = role, !.parts = SW, !.metadata = meta])
      BY <2>1, WireOfJ1 DEF J1!MarshalMessage, J1!Opt, J1!Each
    <3>. HIDE DEF role, SW, meta
    <3>3. [m EXCEPT !.role = role, !.parts = SW, !.metadata = meta] = sent
      BY <3>1, MessageJSON
    <3>. QED  BY <3>2, <3>3
  <2>3. Struct(sent) = sent /\ SW # Err /\ meta # Err
    <3>. HIDE DEF role, SW, meta
    <3>. QED  BY <2>2, Converted
  <2>4. SW = W /\ \A i \in DOMAIN m.parts : W[i] # Err
    BY <2>3, Converted
  <2>5. IsParts(m.parts) /\ IsMap(m.metadata) /\ m.role \in Roles \cup {""}
    BY <1>2 DEF IsMessage
  <2>6. \A i \in DOMAIN m.parts : IsPart(m.parts[i])
    BY <2>5 DEF IsParts, IsListOf
  <2>7. J1!UnmarshalMessage(sent) = Struct(read)
    <3>1. sent # Nil
      BY DEF NotAFunction
    <3>2. fromProtoRole(role) = m.role
      BY <2>5, EnumsCross
    <3>3. J1!UnmarshalMessage(sent) =
            Struct([sent EXCEPT !.role = fromProtoRole(sent.role), !.parts = SD])
      <4>. HIDE DEF role, meta
      <4>. QED  BY <2>4, <3>1, WireOfJ1 DEF J1!UnmarshalMessage, J1!Opt, J1!Each
    <3>4. [sent EXCEPT !.role = m.role, !.parts = SD] = read
      <4>1. /\ MessageFields(sent)
            /\ sent.id = m.id /\ sent.context = m.context /\ sent.task = m.task
            /\ sent.metadata = meta /\ sent.extensions = m.extensions /\ sent.refs = m.refs
        <5>. HIDE DEF role, SW, meta
        <5>. QED  BY DEF MessageFields
      <4>. HIDE DEF sent, SD, meta
      <4>2. [sent EXCEPT !.role = m.role, !.parts = SD] =
              [type |-> "message", id |-> sent.id, context |-> sent.context, task |-> sent.task,
               role |-> m.role, parts |-> SD, metadata |-> sent.metadata,
               extensions |-> sent.extensions, refs |-> sent.refs]
        <5>1. MessageFields(sent)
          BY <4>1
        <5>. QED  BY <5>1, MessageRead
      <4>. QED  BY <4>1, <4>2
    <3>5. sent.role = role
      OBVIOUS
    <3>. HIDE DEF sent, read, role, SD
    <3>. QED  BY <3>2, <3>3, <3>4, <3>5
  <2>8. Struct(read) = read /\ SD # Err
    <3>1. Struct(read) # Err
      <4>. HIDE DEF sent, read
      <4>. QED  BY <2>2, <2>3, <2>7
    <3>. HIDE DEF SD, meta
    <3>. QED  BY <3>1, Converted
  <2>9. \A i \in DOMAIN m.parts : D[i] # Err
    BY <2>8, Converted
  <2>10. D = C
    <3>1. \A i \in DOMAIN m.parts :
              J1!UnmarshalPart(J1!MarshalPart(m.parts[i])) = CarriedPart(b, m.parts[i])
      BY <2>4, <2>6, <2>9, PartOfJ1
    <3>. QED  BY <3>1
  <2>11. SD = C
    BY <2>8, <2>10, Converted
  <2>12. meta = CarriedMap(b, m.metadata)
    BY <2>3, <2>5, MapCrosses DEF HTTP, Bindings, JSON
  <2>13. CarriedMessage(b, m) =
           [type |-> "message", id |-> m.id, context |-> m.context, task |-> m.task,
            role |-> m.role, parts |-> C, metadata |-> CarriedMap(b, m.metadata),
            extensions |-> m.extensions, refs |-> m.refs]
    BY <1>2, CarriedMessageIs DEF JSON
  <2>14. read = CarriedMessage(b, m)
    <3>. HIDE DEF SD, C, meta
    <3>. QED  BY <2>11, <2>12, <2>13
  <2>. HIDE DEF sent, read
  <2>. QED  BY <2>2, <2>3, <2>7, <2>8, <2>14
<1>. QED  BY <1>1, <1>2

\* A status that crosses JSON of version 1.
LEMMA StatusOfJ1 ==
    ASSUME NotAFunction(Nil), NotAFunction(Err), NEW b \in JSON, NEW s, IsStatus(s),
           J1!MarshalTaskStatus(s) # Err, J1!UnmarshalTaskStatus(J1!MarshalTaskStatus(s)) # Err
    PROVE  J1!UnmarshalTaskStatus(J1!MarshalTaskStatus(s)) = CarriedStatus(b, s)
<1>. DEFINE M == J1!MarshalMessage(s.message)
            U == J1!UnmarshalMessage(M)
            time == jsonTimestamp(s.time)
            state == toProtoTaskState(s.state)
            sent == [state |-> state, message |-> M, time |-> time]
            read == [state |-> s.state, message |-> U, time |-> time]
<1>1. /\ s.message = Nil \/ IsMessage(s.message)
      /\ s.state \in TaskStates \cup {""}
  BY DEF IsStatus
<1>2. J1!MarshalTaskStatus(s) = Struct(sent)
  BY WireOfJ1 DEF J1!MarshalTaskStatus
<1>3. Struct(sent) = sent /\ M # Err
  <2>. HIDE DEF state, M, time
  <2>. QED  BY <1>2, Converted
<1>4. J1!UnmarshalTaskStatus(sent) = Struct(read)
  <2>1. fromProtoTaskState(state) = s.state
    BY <1>1, EnumsCross
  <2>. HIDE DEF state, M, time
  <2>. QED  BY <2>1, WireOfJ1 DEF J1!UnmarshalTaskStatus
<1>5. Struct(read) = read /\ U # Err
  <2>1. Struct(read) # Err
    <3>. HIDE DEF sent, read
    <3>. QED  BY <1>2, <1>3, <1>4
  <2>. HIDE DEF U, time
  <2>. QED  BY <2>1, Converted
<1>6. U = CarriedMessage(b, s.message)
  BY <1>1, <1>3, <1>5, MessageOfJ1
<1>7. CarriedStatus(b, s) =
        [state |-> s.state, message |-> CarriedMessage(b, s.message), time |-> time]
  BY CarriedStatusIs DEF JSON
<1>8. read = CarriedStatus(b, s)
  <2>. HIDE DEF U, time
  <2>. QED  BY <1>6, <1>7
<1>. HIDE DEF sent, read
<1>. QED  BY <1>2, <1>3, <1>4, <1>5, <1>8

\* An artifact that crosses JSON of version 1.
LEMMA ArtifactOfJ1 ==
    ASSUME NotAFunction(Nil), NotAFunction(Err), NEW b \in JSON, NEW a, IsArtifact(a),
           J1!MarshalArtifact(a) # Err, J1!UnmarshalArtifact(J1!MarshalArtifact(a)) # Err
    PROVE  J1!UnmarshalArtifact(J1!MarshalArtifact(a)) = CarriedArtifact(b, a)
<1>. DEFINE W == [i \in DOMAIN a.parts |-> J1!MarshalPart(a.parts[i])]
            D == [i \in DOMAIN W |-> J1!UnmarshalPart(W[i])]
            C == [i \in DOMAIN a.parts |-> CarriedPart(b, a.parts[i])]
            SW == Struct(W)
            SD == Struct(D)
            meta == jsonMap(a.metadata)
            sent == [id |-> a.id, name |-> a.name, description |-> a.description, parts |-> SW,
                     metadata |-> meta, extensions |-> a.extensions]
            read == [id |-> a.id, name |-> a.name, description |-> a.description, parts |-> SD,
                     metadata |-> meta, extensions |-> a.extensions]
<1>1. a = [id |-> a.id, name |-> a.name, description |-> a.description, parts |-> a.parts,
           metadata |-> a.metadata, extensions |-> a.extensions]
  BY DEF IsArtifact
<1>2. J1!MarshalArtifact(a) = Struct(sent)
  <2>1. a # Nil
    BY <1>1 DEF NotAFunction
  <2>2. J1!MarshalArtifact(a) = Struct([a EXCEPT !.parts = SW, !.metadata = meta])
    BY <2>1, WireOfJ1 DEF J1!MarshalArtifact, J1!Opt, J1!Each
  <2>3. [a EXCEPT !.parts = SW, !.metadata = meta] = sent
    <3>. HIDE DEF SW, meta
    <3>. DEFINE a1 == [a EXCEPT !.parts = SW]
    <3>1. a1 = [id |-> a.id, name |-> a.name, description |-> a.description, parts |-> SW,
                metadata |-> a.metadata, extensions |-> a.extensions]
      BY <1>1
    <3>2. [a EXCEPT !.parts = SW, !.metadata = meta] = [a1 EXCEPT !.metadata = meta]
      OBVIOUS
    <3>. HIDE DEF a1
    <3>. QED  BY <3>1, <3>2
  <2>. QED  BY <2>2, <2>3
<1>3. Struct(sent) = sent /\ SW # Err /\ meta # Err
  <2>. HIDE DEF SW, meta
  <2>. QED  BY <1>2, Converted
<1>4. SW = W /\ \A i \in DOMAIN a.parts : W[i] # Err
  BY <1>3, Converted
<1>5. IsParts(a.parts) /\ IsMap(a.metadata)
  BY DEF IsArtifact
<1>6. \A i \in DOMAIN a.parts : IsPart(a.parts[i])
  BY <1>5 DEF IsParts, IsListOf
<1>7. J1!UnmarshalArtifact(sent) = Struct(read)
  <2>1. sent # Nil
    BY DEF NotAFunction
  <2>2. J1!UnmarshalArtifact(sent) = Struct([sent EXCEPT !.parts = SD])
    <3>. HIDE DEF meta
    <3>. QED  BY <1>4, <2>1, WireOfJ1 DEF J1!UnmarshalArtifact, J1!Opt, J1!Each
  <2>3. [sent EXCEPT !.parts = SD] = read
    <3>. HIDE DEF SW, SD, meta
    <3>. QED  OBVIOUS
  <2>. HIDE DEF sent, read, SD
  <2>. QED  BY <2>2, <2>3
<1>8. Struct(read) = read /\ SD # Err
  <2>1. Struct(read) # Err
    <3>. HIDE DEF sent, read
    <3>. QED  BY <1>2, <1>3, <1>7
  <2>. HIDE DEF SD, meta
  <2>. QED  BY <2>1, Converted
<1>9. D = C
  <2>1. \A i \in DOMAIN a.parts : D[i] # Err
    BY <1>8, Converted
  <2>2. \A i \in DOMAIN a.parts :
            J1!UnmarshalPart(J1!MarshalPart(a.parts[i])) = CarriedPart(b, a.parts[i])
    BY <1>4, <1>6, <2>1, PartOfJ1
  <2>. QED  BY <2>2
<1>10. SD = C
  BY <1>8, <1>9, Converted
<1>11. meta = CarriedMap(b, a.metadata)
  BY <1>3, <1>5, MapCrosses DEF HTTP, Bindings, JSON
<1>12. CarriedArtifact(b, a) =
         [id |-> a.id, name |-> a.name, description |-> a.description, parts |-> C,
          metadata |-> CarriedMap(b, a.metadata), extensions |-> a.extensions]
  BY CarriedArtifactIs
<1>13. read = CarriedArtifact(b, a)
  <2>. HIDE DEF SD, C, meta
  <2>. QED  BY <1>10, <1>11, <1>12
<1>. HIDE DEF sent, read
<1>. QED  BY <1>2, <1>3, <1>7, <1>8, <1>13

\* A task that crosses JSON of version 1.
LEMMA TaskOfJ1 ==
    ASSUME NotAFunction(Nil), NotAFunction(Err), NEW b \in JSON, NEW t, IsTask(t),
           J1!MarshalTask(t) # Err, J1!UnmarshalTask(J1!MarshalTask(t)) # Err
    PROVE  J1!UnmarshalTask(J1!MarshalTask(t)) = CarriedTask(b, t)
<1>. DEFINE AW == [i \in DOMAIN t.artifacts |-> J1!MarshalArtifact(t.artifacts[i])]
            AD == [i \in DOMAIN AW |-> J1!UnmarshalArtifact(AW[i])]
            AC == [i \in DOMAIN t.artifacts |-> CarriedArtifact(b, t.artifacts[i])]
            HW == [i \in DOMAIN t.history |-> J1!MarshalMessage(t.history[i])]
            HD == [i \in DOMAIN HW |-> J1!UnmarshalMessage(HW[i])]
            HC == [i \in DOMAIN t.history |-> CarriedMessage(b, t.history[i])]
            SAW == Struct(AW)
            SAD == Struct(AD)
            SHW == Struct(HW)
            SHD == Struct(HD)
            S == J1!MarshalTaskStatus(t.status)
            U == J1!UnmarshalTaskStatus(S)
            meta == jsonMap(t.metadata)
            sent == [type |-> "task", id |-> t.id, context |-> t.context, status |-> S,
                     artifacts |-> SAW, history |-> SHW, metadata |-> meta]
            read == [type |-> "task", id |-> t.id, context |-> t.context, status |-> U,
                     artifacts |-> SAD, history |-> SHD, metadata |-> meta]
<1>1. /\ IsStatus(t.status) /\ IsMap(t.metadata)
      /\ \A i \in DOMAIN t.artifacts : IsArtifact(t.artifacts[i])
      /\ \A i \in DOMAIN t.history : IsMessage(t.history[i])
  BY DEF IsTask, IsListOf
<1>2. J1!MarshalTask(t) = Struct(sent)
  <2>1. J1!MarshalTask(t) =
          Struct([t EXCEPT !.status = S, !.artifacts = SAW, !.history = SHW, !.metadata = meta])
    BY WireOfJ1 DEF J1!MarshalTask, J1!Each
  <2>. HIDE DEF S, SAW, SHW, meta
  <2>2. [t EXCEPT !.status = S, !.artifacts = SAW, !.history = SHW, !.metadata = meta] = sent
    BY TaskWith
  <2>. QED  BY <2>1, <2>2
<1>3. Struct(sent) = sent /\ S # Err /\ SAW # Err /\ SHW # Err /\ meta # Err
  <2>. HIDE DEF S, SAW, SHW, meta
  <2>. QED  BY <1>2, Converted
<1>4. /\ SAW = AW /\ \A i \in DOMAIN t.artifacts : AW[i] # Err
      /\ SHW = HW /\ \A i \in DOMAIN t.history : HW[i] # Err
  BY <1>3, Converted
<1>5. J1!UnmarshalTask(sent) = Struct(read)
  <2>1. /\ TaskFields(sent)
        /\ sent.id = t.id /\ sent.context = t.context /\ sent.status = S
        /\ sent.artifacts = SAW /\ sent.history = SHW /\ sent.metadata = meta
    <3>. HIDE DEF S, SAW, SHW, meta
    <3>. QED  BY DEF TaskFields
  <2>2. J1!UnmarshalTask(sent) =
          Struct([sent EXCEPT !.status = U, !.artifacts = SAD, !.history = SHD])
    <3>. HIDE DEF sent, S, meta
    <3>. QED  BY <1>4, <2>1, WireOfJ1 DEF J1!UnmarshalTask, J1!Each
  <2>. HIDE DEF sent, U, SAD, SHD, meta
  <2>3. [sent EXCEPT !.status = U, !.artifacts = SAD, !.history = SHD] =
          [type |-> "task", id |-> sent.id, context |-> sent.context, status |-> U,
           artifacts |-> SAD, history |-> SHD, metadata |-> sent.metadata]
    <3>1. TaskFields(sent)
      BY <2>1
    <3>. QED  BY <3>1, TaskJSON
  <2>. QED  BY <2>1, <2>2, <2>3
<1>6. Struct(read) = read /\ U # Err /\ SAD # Err /\ SHD # Err
  <2>1. Struct(read) # Err
    <3>. HIDE DEF sent, read
    <3>. QED  BY <1>2, <1>3, <1>5
  <2>. HIDE DEF U, SAD, SHD, meta
  <2>. QED  BY <2>1, Converted
<1>7. AD = AC
  <2>1. \A i \in DOMAIN t.artifacts : AD[i] # Err
    BY <1>6, Converted
  <2>2. \A i \in DOMAIN t.artifacts :
            J1!UnmarshalArtifact(J1!MarshalArtifact(t.artifacts[i])) = CarriedArtifact(b, t.artifacts[i])
    BY <1>1, <1>4, <2>1, ArtifactOfJ1
  <2>. QED  BY <2>2
<1>8. HD = HC
  <2>1. \A i \in DOMAIN t.history : HD[i] # Err
    BY <1>6, Converted
  <2>2. \A i \in DOMAIN t.history :
            J1!UnmarshalMessage(J1!MarshalMessage(t.history[i])) = CarriedMessage(b, t.history[i])
    BY <1>1, <1>4, <2>1, MessageOfJ1
  <2>. QED  BY <2>2
<1>9. SAD = AC /\ SHD = HC
  BY <1>6, <1>7, <1>8, Converted
<1>10. U = CarriedStatus(b, t.status)
  BY <1>1, <1>3, <1>6, StatusOfJ1
<1>11. meta = CarriedMap(b, t.metadata)
  BY <1>1, <1>3, MapCrosses DEF HTTP, Bindings, JSON
<1>12. CarriedTask(b, t) =
         [type |-> "task", id |-> t.id, context |-> t.context,
          status |-> CarriedStatus(b, t.status), artifacts |-> AC, history |-> HC,
          metadata |-> CarriedMap(b, t.metadata)]
  BY CarriedTaskIs
<1>13. read = CarriedTask(b, t)
  <2>. HIDE DEF U, SAD, SHD, AC, HC, meta
  <2>. QED  BY <1>9, <1>10, <1>11, <1>12
<1>. HIDE DEF sent, read
<1>. QED  BY <1>2, <1>3, <1>5, <1>6, <1>13

\* So does an event of a stream.
LEMMA EventOfJ1 ==
    ASSUME NotAFunction(Nil), NotAFunction(Err), NEW b \in JSON, NEW e, IsEvent(e),
           J1!MarshalEvent(e) # Err, J1!UnmarshalEvent(J1!MarshalEvent(e)) # Err
    PROVE  J1!UnmarshalEvent(J1!MarshalEvent(e)) = CarriedEvent(b, e)
<1>. DEFINE meta == jsonMap(e.metadata)
<1>1. CASE e.type = "message" /\ IsMessage(e)
  <2>1. J1!MarshalEvent(e) = J1!MarshalMessage(e)
    BY <1>1 DEF J1!MarshalEvent
  <2>2. J1!MarshalMessage(e).type = "message"
    <3>. DEFINE role == J1!toProtoRole(e.role)
                parts == J1!Each(J1!MarshalPart, e.parts)
                map == J1!jsonMap(e.metadata)
    <3>1. e # Nil /\ MessageFields(e)
      BY <1>1, CarriedMessageIs DEF IsMessage, MessageFields
    <3>2. J1!MarshalMessage(e) = Struct([e EXCEPT !.role = role, !.parts = parts, !.metadata = map])
      BY <3>1, WireOfJ1 DEF J1!MarshalMessage, J1!Opt
    <3>. HIDE DEF role, parts, map
    <3>3. [e EXCEPT !.role = role, !.parts = parts, !.metadata = map] = J1!MarshalMessage(e)
      BY <2>1, <3>2, Converted
    <3>4. [e EXCEPT !.role = role, !.parts = parts, !.metadata = map] =
            [type |-> "message", id |-> e.id, context |-> e.context, task |-> e.task,
             role |-> role, parts |-> parts, metadata |-> map, extensions |-> e.extensions,
             refs |-> e.refs]
      BY <3>1, MessageJSON
    <3>. QED  BY <3>3, <3>4
  <2>3. J1!UnmarshalEvent(J1!MarshalEvent(e)) = J1!UnmarshalMessage(J1!MarshalMessage(e))
    BY <2>1, <2>2 DEF J1!UnmarshalEvent
  <2>. QED  BY <1>1, <2>1, <2>3, MessageOfJ1, CarriedEventIs
<1>2. CASE e.type = "task" /\ IsTask(e)
  <2>1. J1!MarshalEvent(e) = J1!MarshalTask(e)
    BY <1>2 DEF J1!MarshalEvent
  <2>2. J1!MarshalTask(e).type = "task"
    <3>. DEFINE status == J1!MarshalTaskStatus(e.status)
                artifacts == J1!Each(J1!MarshalArtifact, e.artifacts)
                history == J1!Each(J1!MarshalMessage, e.history)
                map == J1!jsonMap(e.metadata)
                new == [e EXCEPT !.status = status, !.artifacts = artifacts, !.history = history,
                                 !.metadata = map]
    <3>1. J1!MarshalTask(e) = Struct(new)
      BY WireOfJ1 DEF J1!MarshalTask
    <3>. HIDE DEF status, artifacts, history, map
    <3>2. new = [type |-> "task", id |-> e.id, context |-> e.context, status |-> status,
                 artifacts |-> artifacts, history |-> history, metadata |-> map]
      <4>1. IsTask(e)
        BY <1>2
      <4>. QED  BY <4>1, TaskWith
    <3>. HIDE DEF new
    <3>. QED  BY <2>1, <3>1, <3>2, Converted
  <2>3. J1!UnmarshalEvent(J1!MarshalEvent(e)) = J1!UnmarshalTask(J1!MarshalTask(e))
    BY <2>1, <2>2 DEF J1!UnmarshalEvent
  <2>. QED  BY <1>2, <2>1, <2>3, TaskOfJ1, CarriedEventIs
<1>3. CASE e.type = "status" /\ IsStatusUpdate(e)
  <2>. DEFINE S == J1!MarshalTaskStatus(e.status)
              U == J1!UnmarshalTaskStatus(S)
              sent == [type |-> "status", task |-> e.task, context |-> e.context, status |-> S,
                       metadata |-> meta]
              read == [type |-> "status", task |-> e.task, context |-> e.context, status |-> U,
                       metadata |-> meta]
  <2>1. IsStatus(e.status) /\ IsMap(e.metadata)
    BY <1>3 DEF IsStatusUpdate
  <2>2. J1!MarshalEvent(e) = Struct(sent)
    <3>1. J1!MarshalEvent(e) = Struct([e EXCEPT !.status = S, !.metadata = meta])
      BY <1>3, WireOfJ1 DEF J1!MarshalEvent
    <3>. HIDE DEF S, meta
    <3>2. [e EXCEPT !.status = S, !.metadata = meta] = sent
      BY <1>3, StatusUpdateWith
    <3>. QED  BY <3>1, <3>2
  <2>3. Struct(sent) = sent /\ S # Err /\ meta # Err
    <3>. HIDE DEF S, meta
    <3>. QED  BY <2>2, Converted
  <2>4. J1!UnmarshalEvent(sent) = Struct(read)
    <3>1. [sent EXCEPT !.status = U] = read
      <4>. HIDE DEF S, U, meta
      <4>. QED  OBVIOUS
    <3>2. sent.type = "status" /\ sent.status = S
      <4>. HIDE DEF S, meta
      <4>. QED  OBVIOUS
    <3>. HIDE DEF sent, read, S
    <3>. QED  BY <3>1, <3>2, WireOfJ1 DEF J1!UnmarshalEvent
  <2>5. Struct(read) = read /\ U # Err
    <3>1. Struct(read) # Err
      <4>. HIDE DEF sent, read
      <4>. QED  BY <2>2, <2>3, <2>4
    <3>. HIDE DEF U, meta
    <3>. QED  BY <3>1, Converted
  <2>6. U = CarriedStatus(b, e.status)
    BY <2>1, <2>3, <2>5, StatusOfJ1
  <2>7. meta = CarriedMap(b, e.metadata)
    BY <2>1, <2>3, MapCrosses DEF HTTP, Bindings, JSON
  <2>8. CarriedEvent(b, e) =
          [type |-> "status", task |-> e.task, context |-> e.context,
           status |-> CarriedStatus(b, e.status), metadata |-> CarriedMap(b, e.metadata)]
    BY <1>3, CarriedEventIs
  <2>9. read = CarriedEvent(b, e)
    <3>. HIDE DEF U, meta
    <3>. QED  BY <2>6, <2>7, <2>8
  <2>. HIDE DEF sent, read
  <2>. QED  BY <2>2, <2>3, <2>4, <2>5, <2>9
<1>4. CASE e.type = "artifact" /\ IsArtifactUpdate(e)
  <2>. DEFINE A == J1!MarshalArtifact(e.artifact)
              U == J1!UnmarshalArtifact(A)
              sent == [type |-> "artifact", task |-> e.task, context |-> e.context,
                       append |-> e.append, lastChunk |-> e.lastChunk, artifact |-> A,
                       metadata |-> meta]
              read == [type |-> "artifact", task |-> e.task, context |-> e.context,
                       append |-> e.append, lastChunk |-> e.lastChunk, artifact |-> U,
                       metadata |-> meta]
  <2>1. IsArtifact(e.artifact) /\ IsMap(e.metadata)
    BY <1>4 DEF IsArtifactUpdate
  <2>2. J1!MarshalEvent(e) = Struct(sent)
    <3>1. J1!MarshalEvent(e) = Struct([e EXCEPT !.artifact = A, !.metadata = meta])
      BY <1>4, WireOfJ1 DEF J1!MarshalEvent
    <3>. HIDE DEF A, meta
    <3>2. [e EXCEPT !.artifact = A, !.metadata = meta] = sent
      BY <1>4, ArtifactUpdateWith
    <3>. QED  BY <3>1, <3>2
  <2>3. Struct(sent) = sent /\ A # Err /\ meta # Err
    <3>. HIDE DEF A, meta
    <3>. QED  BY <2>2, Converted
  <2>4. J1!UnmarshalEvent(sent) = Struct(read)
    <3>1. [sent EXCEPT !.artifact = U] = read
      <4>. HIDE DEF A, U, meta
      <4>. QED  OBVIOUS
    <3>2. sent.type = "artifact" /\ sent.artifact = A
      <4>. HIDE DEF A, meta
      <4>. QED  OBVIOUS
    <3>. HIDE DEF sent, read, A
    <3>. QED  BY <3>1, <3>2, WireOfJ1 DEF J1!UnmarshalEvent
  <2>5. Struct(read) = read /\ U # Err
    <3>1. Struct(read) # Err
      <4>. HIDE DEF sent, read
      <4>. QED  BY <2>2, <2>3, <2>4
    <3>. HIDE DEF U, meta
    <3>. QED  BY <3>1, Converted
  <2>6. U = CarriedArtifact(b, e.artifact)
    BY <2>1, <2>3, <2>5, ArtifactOfJ1
  <2>7. meta = CarriedMap(b, e.metadata)
    BY <2>1, <2>3, MapCrosses DEF HTTP, Bindings, JSON
  <2>8. CarriedEvent(b, e) =
          [type |-> "artifact", task |-> e.task, context |-> e.context, append |-> e.append,
           lastChunk |-> e.lastChunk, artifact |-> CarriedArtifact(b, e.artifact),
           metadata |-> CarriedMap(b, e.metadata)]
    BY <1>4, CarriedEventIs
  <2>9. read = CarriedEvent(b, e)
    <3>. HIDE DEF U, meta
    <3>. QED  BY <2>6, <2>7, <2>8
  <2>. HIDE DEF sent, read
  <2>. QED  BY <2>2, <2>3, <2>4, <2>5, <2>9
<1>. QED  BY <1>1, <1>2, <1>3, <1>4 DEF IsEvent, IsSendResult

-----------------------------------------------------------------------------
(* Events, over every binding *)

\* The request of a call on the wire and as the server reads it, a result on
\* the wire and as the client reads it.
Sent(c) == EncodeRequest(c.binding, Method(c), Request(c))
Decoded(c) == DecodeRequest(c.binding, Method(c), Sent(c))
Enc(c, v) == EncodeResult(c.binding, Method(c), v)
Dec(c, w) == DecodeResult(c.binding, Method(c), w, Request(c))

\* An event of a stream that is written and read is the one the binding carries.
LEMMA EventCrosses ==
    ASSUME NotAFunction(Nil), NotAFunction(Err), NEW c, c.binding \in Bindings, Streaming(c),
           NEW e, IsEvent(e), Enc(c, e) # Err, Dec(c, Enc(c, e)) # Err
    PROVE  Dec(c, Enc(c, e)) = CarriedEvent(c.binding, e)
<1>1. /\ Method(c) \in StreamMethods
      /\ Method(c) \notin {"SendMessage", "GetTask", "CancelTask", "ListTasks", "CreateTaskPushConfig",
                           "GetTaskPushConfig", "ListTaskPushConfigs", "DeleteTaskPushConfig",
                           "GetExtendedAgentCard"}
  BY DEF Streaming, StreamMethods
<1>2. CASE c.binding = "grpc1"
  <2>1. Enc(c, e) = V1!ToProtoStreamResponse(e)
    BY <1>1, <1>2 DEF Enc, EncodeResult, grpc1Response
  <2>2. Dec(c, Enc(c, e)) = V1!FromProtoStreamResponse(V1!ToProtoStreamResponse(e))
    BY <1>1, <1>2, <2>1 DEF Dec, DecodeResult, grpc1Result
  <2>. QED  BY <1>2, <2>1, <2>2, EventOfV1
<1>3. CASE c.binding = "grpc0"
  <2>1. Enc(c, e) = V0!ToProtoStreamResponse(e)
    BY <1>1, <1>3 DEF Enc, EncodeResult, grpc0Response
  <2>2. Dec(c, Enc(c, e)) = V0!FromProtoStreamResponse(V0!ToProtoStreamResponse(e))
    BY <1>1, <1>3, <2>1 DEF Dec, DecodeResult, grpc0Result
  <2>. QED  BY <1>3, <2>1, <2>2, EventOfV0
<1>4. CASE c.binding = "rpc0"
  <2>1. Enc(c, e) = C0!FromV1Event(e)
    BY <1>1, <1>4 DEF Enc, EncodeResult, rpc0Response
  <2>2. Dec(c, Enc(c, e)) = C0!ToV1Event(C0!FromV1Event(e))
    BY <1>1, <1>4, <2>1 DEF Dec, DecodeResult, rpc0Result
  <2>. QED  BY <1>4, <2>1, <2>2, EventOfC0
<1>5. CASE c.binding = "rest0"
  <2>1. Enc(c, e) = P0!ToProtoStreamEvent(e)
    BY <1>1, <1>5 DEF Enc, EncodeResult, rest0Response
  <2>2. Dec(c, Enc(c, e)) = P0!FromProtoStreamEvent(P0!ToProtoStreamEvent(e))
    BY <1>1, <1>5, <2>1 DEF Dec, DecodeResult, rest0Result
  <2>. QED  BY <1>5, <2>1, <2>2, EventOfP0
<1>6. CASE c.binding \in JSON
  <2>1. Enc(c, e) = J1!MarshalEvent(e)
    BY <1>1, <1>6 DEF Enc, EncodeResult, rpc1Response, rest1Response, JSON
  <2>2. Dec(c, Enc(c, e)) = J1!UnmarshalEvent(J1!MarshalEvent(e))
    BY <1>1, <1>6, <2>1 DEF Dec, DecodeResult, rpc1Result, rest1Result, JSON
  <2>. QED  BY <1>6, <2>1, <2>2, EventOfJ1
<1>. QED  BY <1>2, <1>3, <1>4, <1>5, <1>6 DEF Bindings, JSON

-----------------------------------------------------------------------------
(***************************************************************************)
(* Requests: what each binding carries, as records.                        *)
(***************************************************************************)
\* The low 32 bits of a length are a length.
LEMMA Int32Is == \A n \in Int : int32(n) \in Int /\ int32(n) # Nil /\ n # Nil
<1>1. MaxInt32 \in Nat /\ Nil \notin Int
  BY WireAssumption
<1>2. \A n \in Int : int32(n) \in Int
  <2>1. \A a \in Int, c \in Nat \ {0} : (a % c) \in Int
    OBVIOUS
  <2>2. 2 * (MaxInt32 + 1) \in Nat \ {0} /\ \A n \in Int : n + MaxInt32 + 1 \in Int
    BY <1>1
  <2>3. \A n \in Int : ((n + MaxInt32 + 1) % (2 * (MaxInt32 + 1))) \in Int
    BY <2>1, <2>2
  <2>. QED  BY <1>1, <2>3 DEF int32
<1>. QED  BY <1>1, <1>2

\* The lengths of a history.
LEMMA LengthsCross ==
    ASSUME NEW n, IsNumber(n), NEW m
    PROVE  /\ V1!fromProtoHistoryLength(V1!toProtoHistoryLength(n)) = CarriedLength("grpc1", m, n)
           /\ V0!fromProtoHistoryLength(V0!toProtoHistoryLength(n)) = CarriedLength("grpc0", m, n)
           /\ \A b \in {"rpc1", "rpc0", "rest1"} : CarriedLength(b, m, n) = n
           /\ ~Sends(m) => CarriedLength("rest0", m, n) = n
           /\ Sends(m) => CarriedLength("rest0", m, n) =
                             IF n = Nil \/ int32(n) = 0 THEN Nil ELSE int32(n)
<1>1. CASE n = Nil
  <2>1. /\ V1!toProtoHistoryLength(n) = Nil /\ V1!fromProtoHistoryLength(Nil) = Nil
        /\ V0!toProtoHistoryLength(n) = 0 /\ V0!fromProtoHistoryLength(0) = Nil
    BY <1>1 DEF V1!toProtoHistoryLength, V1!fromProtoHistoryLength, V1!Opt,
                V0!toProtoHistoryLength, V0!fromProtoHistoryLength
  <2>2. \A b : CarriedLength(b, m, n) = Nil
    BY <1>1 DEF CarriedLength
  <2>. QED  BY <1>1, <2>1, <2>2
<1>2. CASE n # Nil
  <2>1. int32(n) \in Int /\ int32(n) # Nil
    BY <1>2, Int32Is DEF IsNumber
  <2>2. V1!int32(n) = int32(n) /\ V0!int32(n) = int32(n)
    BY DEF V1!int32, V0!int32, int32
  <2>3. /\ V1!toProtoHistoryLength(n) = int32(n)
        /\ V1!fromProtoHistoryLength(int32(n)) = IF int32(n) < 0 THEN Nil ELSE int32(n)
    BY <1>2, <2>1, <2>2 DEF V1!toProtoHistoryLength, V1!fromProtoHistoryLength, V1!Opt
  <2>4. /\ V0!toProtoHistoryLength(n) = int32(n)
        /\ V0!fromProtoHistoryLength(int32(n)) = IF int32(n) <= 0 THEN Nil ELSE int32(n)
    BY <1>2, <2>1, <2>2 DEF V0!toProtoHistoryLength, V0!fromProtoHistoryLength
  <2>5. CarriedLength("grpc1", m, n) = IF int32(n) < 0 THEN Nil ELSE int32(n)
    BY <1>2 DEF CarriedLength
  <2>6. CarriedLength("grpc0", m, n) = IF int32(n) <= 0 THEN Nil ELSE int32(n)
    BY <1>2 DEF CarriedLength
  <2>7. /\ \A b \in {"rpc1", "rpc0", "rest1"} : CarriedLength(b, m, n) = n
        /\ ~Sends(m) => CarriedLength("rest0", m, n) = n
        /\ Sends(m) => CarriedLength("rest0", m, n) = IF int32(n) = 0 THEN Nil ELSE int32(n)
    BY <1>2 DEF CarriedLength
  <2>. QED  BY <1>2, <2>3, <2>4, <2>5, <2>6, <2>7
<1>. QED  BY <1>1, <1>2

\* The tenant of a request and the push configuration of a message.
CarriedTenant(b, t) == IF b \in Legacy THEN "" ELSE t

CarriedPush(b, p, task) ==
    IF p = Nil \/ b \notin Legacy THEN p
    ELSE [tenant |-> "", task |-> IF b = "rpc0" THEN task ELSE "", id |-> p.id, url |-> p.url,
          token |-> p.token, auth |-> p.auth]

\* The same of the configuration of a message.
LEMMA CarriedConfigIs ==
    ASSUME NotAFunction(Nil), NEW b, NEW m, NEW r, NEW c, c = r.config,
           IsSendConfig(c)
    PROVE  /\ c # Nil
           /\ CarriedConfig(b, m, r) =
                [modes |-> c.modes, immediate |-> c.immediate,
                 push |-> CarriedPush(b, c.push, r.message.task),
                 history |-> CarriedLength(b, m, c.history)]
<1>. DEFINE h == CarriedLength(b, m, c.history)
            task == IF b = "rpc0" THEN r.message.task ELSE ""
            push == IF c.push = Nil THEN Nil
                    ELSE IF b \notin Legacy THEN c.push
                    ELSE [c.push EXCEPT !.tenant = "", !.task = task]
            c1 == [c EXCEPT !.history = h]
            c2 == [c1 EXCEPT !.push = push]
<1>1. c = [modes |-> c.modes, immediate |-> c.immediate, push |-> c.push, history |-> c.history]
  BY DEF IsSendConfig
<1>2. c # Nil
  BY <1>1 DEF NotAFunction
<1>3. c1 = [modes |-> c.modes, immediate |-> c.immediate, push |-> c.push, history |-> h]
  BY <1>1
<1>4. CarriedConfig(b, m, r) = [c EXCEPT !.history = h, !.push = push]
  BY <1>2 DEF CarriedConfig, Opt
<1>5. push = CarriedPush(b, c.push, r.message.task)
  <2>1. CASE c.push = Nil \/ b \notin Legacy
    BY <2>1 DEF CarriedPush
  <2>2. CASE c.push # Nil /\ b \in Legacy
    <3>1. IsPushConfig(c.push)
      BY <2>2 DEF IsSendConfig
    <3>. DEFINE p == c.push
    <3>2. p = [tenant |-> p.tenant, task |-> p.task, id |-> p.id, url |-> p.url, token |-> p.token,
               auth |-> p.auth]
      BY <3>1 DEF IsPushConfig
    <3>3. push = [p EXCEPT !.tenant = "", !.task = task]
      BY <2>2
    <3>. HIDE DEF p, push, task
    <3>4. push = [tenant |-> "", task |-> task, id |-> p.id, url |-> p.url, token |-> p.token,
                  auth |-> p.auth]
      BY <3>2, <3>3
    <3>. QED  BY <2>2, <3>4 DEF p, task, CarriedPush
  <2>. QED  BY <2>1, <2>2
<1>. HIDE DEF h, push
<1>6. c2 = [modes |-> c.modes, immediate |-> c.immediate, push |-> push, history |-> h]
  <2>. HIDE DEF c1
  <2>. QED  BY <1>3
<1>. QED  BY <1>2, <1>4, <1>5, <1>6 DEF h

\* The same of a request that sends a message.
LEMMA CarriedSendIs ==
    ASSUME NEW b, NEW m, Sends(m), NEW r, IsSendRequest(r)
    PROVE  CarriedRequest(b, m, r) =
             [tenant |-> CarriedTenant(b, r.tenant), message |-> CarriedMessage(b, r.message),
              metadata |-> CarriedMap(b, r.metadata), config |-> CarriedConfig(b, m, r)]
<1>. DEFINE t == CarriedTenant(b, r.tenant)
            x == CarriedMessage(b, r.message)
            y == CarriedMap(b, r.metadata)
            z == CarriedConfig(b, m, r)
            q == [r EXCEPT !.tenant = t]
            q1 == [q EXCEPT !.message = x]
            q2 == [q1 EXCEPT !.metadata = y]
            q3 == [q2 EXCEPT !.config = z]
<1>1. r = [tenant |-> r.tenant, message |-> r.message, metadata |-> r.metadata, config |-> r.config]
  BY DEF IsSendRequest
<1>2. q = [tenant |-> t, message |-> r.message, metadata |-> r.metadata, config |-> r.config]
  BY <1>1
<1>3. CarriedRequest(b, m, r) =
        [q EXCEPT !.message = CarriedMessage(b, q.message), !.metadata = CarriedMap(b, q.metadata),
                  !.config = z]
  BY DEF CarriedRequest, CarriedTenant, Sends
<1>4. CarriedRequest(b, m, r) = [q EXCEPT !.message = x, !.metadata = y, !.config = z]
  BY <1>2, <1>3
<1>. HIDE DEF t, x, y, z, q
<1>5. q1 = [tenant |-> t, message |-> x, metadata |-> r.metadata, config |-> r.config]
  BY <1>2
<1>6. q2 = [tenant |-> t, message |-> x, metadata |-> y, config |-> r.config]
  <2>. HIDE DEF q1
  <2>. QED  BY <1>5
<1>7. q3 = [tenant |-> t, message |-> x, metadata |-> y, config |-> z]
  <2>. HIDE DEF q2
  <2>. QED  BY <1>6
<1>. QED  BY <1>4, <1>7 DEF t, x, y, z

\* The other requests.
LEMMA CarriedRequestsAre ==
    ASSUME NEW b, NEW m, NEW r
    PROVE  /\ m = "GetTask" /\ IsGetTaskRequest(r) =>
                CarriedRequest(b, m, r) =
                  [tenant |-> CarriedTenant(b, r.tenant), id |-> CarriedId(b, r.id),
                   history |-> CarriedLength(b, m, r.history)]
           /\ m = "CancelTask" /\ IsCancelTaskRequest(r) =>
                CarriedRequest(b, m, r) =
                  [tenant |-> CarriedTenant(b, r.tenant), id |-> CarriedId(b, r.id),
                   metadata |-> IF b \in {"grpc0", "rest0"} THEN Nil ELSE CarriedMap(b, r.metadata)]
           /\ m = "SubscribeToTask" /\ IsSubscribeToTaskRequest(r) =>
                CarriedRequest(b, m, r) =
                  [tenant |-> CarriedTenant(b, r.tenant), id |-> CarriedId(b, r.id)]
           /\ m = "CreateTaskPushConfig" /\ IsPushConfig(r) =>
                CarriedRequest(b, m, r) =
                  [tenant |-> CarriedTenant(b, r.tenant), task |-> CarriedId(b, r.task), id |-> r.id,
                   url |-> r.url, token |-> r.token, auth |-> r.auth]
           /\ m \in {"GetTaskPushConfig", "DeleteTaskPushConfig"} /\ IsPushConfigRequest(r) =>
                CarriedRequest(b, m, r) =
                  [tenant |-> CarriedTenant(b, r.tenant), task |-> CarriedId(b, r.task),
                   id |-> CarriedId(b, r.id)]
           /\ m = "GetExtendedAgentCard" /\ IsGetExtendedAgentCardRequest(r) =>
                CarriedRequest(b, m, r) = [tenant |-> CarriedTenant(b, r.tenant)]
<1>. DEFINE t == CarriedTenant(b, r.tenant)
            q == [r EXCEPT !.tenant = t]
<1>1. ASSUME m = "GetTask", IsGetTaskRequest(r)
      PROVE  CarriedRequest(b, m, r) =
               [tenant |-> t, id |-> CarriedId(b, r.id), history |-> CarriedLength(b, m, r.history)]
  <2>1. r = [tenant |-> r.tenant, id |-> r.id, history |-> r.history]
    BY <1>1 DEF IsGetTaskRequest
  <2>2. q = [tenant |-> t, id |-> r.id, history |-> r.history]
    BY <2>1
  <2>3. CarriedRequest(b, m, r) =
          [q EXCEPT !.id = CarriedId(b, q.id), !.history = CarriedLength(b, m, q.history)]
    BY <1>1 DEF CarriedRequest, CarriedTenant, Sends
  <2>. HIDE DEF q, t
  <2>. QED  BY <2>2, <2>3
<1>2. ASSUME m = "CancelTask", IsCancelTaskRequest(r)
      PROVE  CarriedRequest(b, m, r) =
               [tenant |-> t, id |-> CarriedId(b, r.id),
                metadata |-> IF b \in {"grpc0", "rest0"} THEN Nil ELSE CarriedMap(b, r.metadata)]
  <2>1. r = [tenant |-> r.tenant, id |-> r.id, metadata |-> r.metadata]
    BY <1>2 DEF IsCancelTaskRequest
  <2>2. q = [tenant |-> t, id |-> r.id, metadata |-> r.metadata]
    BY <2>1
  <2>3. CarriedRequest(b, m, r) =
          [q EXCEPT !.id = CarriedId(b, q.id),
                    !.metadata = IF b \in {"grpc0", "rest0"} THEN Nil ELSE CarriedMap(b, q.metadata)]
    BY <1>2 DEF CarriedRequest, CarriedTenant, Sends
  <2>. HIDE DEF q, t
  <2>. QED  BY <2>2, <2>3
<1>3. ASSUME m = "SubscribeToTask", IsSubscribeToTaskRequest(r)
      PROVE  CarriedRequest(b, m, r) = [tenant |-> t, id |-> CarriedId(b, r.id)]
  <2>1. r = [tenant |-> r.tenant, id |-> r.id]
    BY <1>3 DEF IsSubscribeToTaskRequest
  <2>2. q = [tenant |-> t, id |-> r.id]
    BY <2>1
  <2>3. CarriedRequest(b, m, r) = [q EXCEPT !.id = CarriedId(b, q.id)]
    BY <1>3 DEF CarriedRequest, CarriedTenant, Sends
  <2>. HIDE DEF q, t
  <2>. QED  BY <2>2, <2>3
<1>4. ASSUME m = "CreateTaskPushConfig", IsPushConfig(r)
      PROVE  CarriedRequest(b, m, r) =
               [tenant |-> t, task |-> CarriedId(b, r.task), id |-> r.id, url |-> r.url,
                token |-> r.token, auth |-> r.auth]
  <2>1. r = [tenant |-> r.tenant, task |-> r.task, id |-> r.id, url |-> r.url, token |-> r.token,
             auth |-> r.auth]
    BY <1>4 DEF IsPushConfig
  <2>2. q = [tenant |-> t, task |-> r.task, id |-> r.id, url |-> r.url, token |-> r.token,
             auth |-> r.auth]
    BY <2>1
  <2>3. CarriedRequest(b, m, r) = [q EXCEPT !.task = CarriedId(b, q.task)]
    BY <1>4 DEF CarriedRequest, CarriedTenant, Sends
  <2>. HIDE DEF q, t
  <2>. QED  BY <2>2, <2>3
<1>5. ASSUME m \in {"GetTaskPushConfig", "DeleteTaskPushConfig"}, IsPushConfigRequest(r)
      PROVE  CarriedRequest(b, m, r) =
               [tenant |-> t, task |-> CarriedId(b, r.task), id |-> CarriedId(b, r.id)]
  <2>1. r = [tenant |-> r.tenant, task |-> r.task, id |-> r.id]
    BY <1>5 DEF IsPushConfigRequest
  <2>2. q = [tenant |-> t, task |-> r.task, id |-> r.id]
    BY <2>1
  <2>3. CarriedRequest(b, m, r) = [q EXCEPT !.task = CarriedId(b, q.task), !.id = CarriedId(b, q.id)]
    BY <1>5 DEF CarriedRequest, CarriedTenant, Sends
  <2>. HIDE DEF q, t
  <2>. QED  BY <2>2, <2>3
<1>6. ASSUME m = "GetExtendedAgentCard", IsGetExtendedAgentCardRequest(r)
      PROVE  CarriedRequest(b, m, r) = [tenant |-> t]
  <2>1. r = [tenant |-> r.tenant]
    BY <1>6 DEF IsGetExtendedAgentCardRequest
  <2>2. q = [tenant |-> t]
    BY <2>1
  <2>3. CarriedRequest(b, m, r) = q
    BY <1>6 DEF CarriedRequest, CarriedTenant, Sends
  <2>. QED  BY <2>2, <2>3
<1>. QED  BY <1>1, <1>2, <1>3, <1>4, <1>5, <1>6

\* The same of a request for a list of tasks.
LEMMA CarriedListTasksIs ==
    ASSUME NEW b, NEW r, IsListTasksRequest(r)
    PROVE  CarriedRequest(b, "ListTasks", r) =
             [tenant |-> CarriedTenant(b, r.tenant), context |-> r.context, status |-> r.status,
              pageSize |-> IF b \in {"grpc1", "grpc0"} THEN int32(r.pageSize) ELSE r.pageSize,
              pageToken |-> r.pageToken,
              after |-> CASE b \in {"rpc1", "rest1"} -> jsonTimestamp(r.after)
                          [] b = "rest0" /\ r.after # Nil -> r.after - (r.after % Second)
                          [] OTHER -> r.after,
              artifacts |-> r.artifacts, history |-> CarriedLength(b, "ListTasks", r.history)]
<1>. DEFINE t == CarriedTenant(b, r.tenant)
            x == CarriedLength(b, "ListTasks", r.history)
            y == IF b \in {"grpc1", "grpc0"} THEN int32(r.pageSize) ELSE r.pageSize
            z == CASE b \in {"rpc1", "rest1"} -> jsonTimestamp(r.after)
                   [] b = "rest0" /\ r.after # Nil -> r.after - (r.after % Second)
                   [] OTHER -> r.after
            q == [r EXCEPT !.tenant = t]
            q1 == [q EXCEPT !.history = x]
            q2 == [q1 EXCEPT !.pageSize = y]
            q3 == [q2 EXCEPT !.after = z]
<1>1. r = [tenant |-> r.tenant, context |-> r.context, status |-> r.status,
           pageSize |-> r.pageSize, pageToken |-> r.pageToken, after |-> r.after,
           artifacts |-> r.artifacts, history |-> r.history]
  BY DEF IsListTasksRequest
<1>2. q = [tenant |-> t, context |-> r.context, status |-> r.status,
           pageSize |-> r.pageSize, pageToken |-> r.pageToken, after |-> r.after,
           artifacts |-> r.artifacts, history |-> r.history]
  <2>. HIDE DEF t
  <2>. QED  BY <1>1
<1>3. q.history = r.history /\ q.pageSize = r.pageSize /\ q.after = r.after
  <2>. HIDE DEF t, q
  <2>. QED  BY <1>2
<1>4. CarriedRequest(b, "ListTasks", r) = [q EXCEPT !.history = x, !.pageSize = y, !.after = z]
  BY <1>3 DEF CarriedRequest, CarriedTenant, Sends
<1>. HIDE DEF t, x, y, z, q
<1>5. q1 = [tenant |-> t, context |-> r.context, status |-> r.status,
            pageSize |-> r.pageSize, pageToken |-> r.pageToken, after |-> r.after,
            artifacts |-> r.artifacts, history |-> x]
  BY <1>2
<1>6. q2 = [tenant |-> t, context |-> r.context, status |-> r.status,
            pageSize |-> y, pageToken |-> r.pageToken, after |-> r.after,
            artifacts |-> r.artifacts, history |-> x]
  <2>. HIDE DEF q1
  <2>. QED  BY <1>5
<1>7. q3 = [tenant |-> t, context |-> r.context, status |-> r.status,
            pageSize |-> y, pageToken |-> r.pageToken, after |-> z,
            artifacts |-> r.artifacts, history |-> x]
  <2>. HIDE DEF q2
  <2>. QED  BY <1>6
<1>. QED  BY <1>4, <1>7 DEF t, x, y, z

\* The same of a request for a list of push configurations.
LEMMA CarriedListPushIs ==
    ASSUME NEW b, NEW r, IsListTaskPushConfigRequest(r)
    PROVE  CarriedRequest(b, "ListTaskPushConfigs", r) =
             [tenant |-> CarriedTenant(b, r.tenant), task |-> CarriedId(b, r.task),
              pageSize |-> CASE b \in {"grpc1", "grpc0"} -> int32(r.pageSize)
                             [] b = "rpc1" -> r.pageSize
                             [] OTHER -> 0,
              pageToken |-> IF b \in {"grpc1", "grpc0", "rpc1"} THEN r.pageToken ELSE ""]
<1>. DEFINE t == CarriedTenant(b, r.tenant)
            x == CarriedId(b, r.task)
            y == CASE b \in {"grpc1", "grpc0"} -> int32(r.pageSize)
                   [] b = "rpc1" -> r.pageSize
                   [] OTHER -> 0
            z == IF b \in {"grpc1", "grpc0", "rpc1"} THEN r.pageToken ELSE ""
            q == [r EXCEPT !.tenant = t]
            q1 == [q EXCEPT !.task = x]
            q2 == [q1 EXCEPT !.pageSize = y]
            q3 == [q2 EXCEPT !.pageToken = z]
<1>1. r = [tenant |-> r.tenant, task |-> r.task, pageSize |-> r.pageSize, pageToken |-> r.pageToken]
  BY DEF IsListTaskPushConfigRequest
<1>2. q = [tenant |-> t, task |-> r.task, pageSize |-> r.pageSize, pageToken |-> r.pageToken]
  <2>. HIDE DEF t
  <2>. QED  BY <1>1
<1>3. q.task = r.task /\ q.pageSize = r.pageSize /\ q.pageToken = r.pageToken
  <2>. HIDE DEF t, q
  <2>. QED  BY <1>2
<1>4. CarriedRequest(b, "ListTaskPushConfigs", r) = [q EXCEPT !.task = x, !.pageSize = y, !.pageToken = z]
  BY <1>3 DEF CarriedRequest, CarriedTenant, Sends
<1>. HIDE DEF t, x, y, z, q
<1>5. q1 = [tenant |-> t, task |-> x, pageSize |-> r.pageSize, pageToken |-> r.pageToken]
  BY <1>2
<1>6. q2 = [tenant |-> t, task |-> x, pageSize |-> y, pageToken |-> r.pageToken]
  <2>. HIDE DEF q1
  <2>. QED  BY <1>5
<1>7. q3 = [tenant |-> t, task |-> x, pageSize |-> y, pageToken |-> z]
  <2>. HIDE DEF q2
  <2>. QED  BY <1>6
<1>. QED  BY <1>4, <1>7 DEF t, x, y, z

-----------------------------------------------------------------------------
(***************************************************************************)
(* Requests: each binding on its own.                                      *)
(***************************************************************************)
\* Lists of one element.
LEMMA SingleIs == \A x : <<x>> # <<>> /\ Head(<<x>>) = x
<1>. SUFFICES ASSUME NEW x PROVE <<x>> # <<>> /\ Head(<<x>>) = x
  OBVIOUS
<1>1. <<x>> \in Seq({x}) /\ Len(<<x>>) = 1 /\ <<x>>[1] = x
  OBVIOUS
<1>2. <<x>> # <<>>
  BY <1>1
<1>. QED  BY <1>1, <1>2

\* The fields of a push configuration, whatever the text in them.
IsPush(p) ==
    /\ p = [tenant |-> p.tenant, task |-> p.task, id |-> p.id, url |-> p.url,
            token |-> p.token, auth |-> p.auth]
    /\ p.auth # Nil => p.auth = [scheme |-> p.auth.scheme, credentials |-> p.auth.credentials]

\* A push configuration has them.
LEMMA PushConfigsArePushes == ASSUME NEW p, IsPushConfig(p) PROVE IsPush(p)
BY DEF IsPush, IsPushConfig, IsAuth

\* A push configuration is its fields.
LEMMA PushIs ==
    ASSUME NotAFunction(Nil), NEW p, IsPush(p)
    PROVE  /\ p = [tenant |-> p.tenant, task |-> p.task, id |-> p.id, url |-> p.url,
                   token |-> p.token, auth |-> p.auth]
           /\ p # Nil
           /\ p.auth # Nil => p.auth = [scheme |-> p.auth.scheme, credentials |-> p.auth.credentials]
<1>1. p = [tenant |-> p.tenant, task |-> p.task, id |-> p.id, url |-> p.url, token |-> p.token,
           auth |-> p.auth]
  BY DEF IsPush
<1>2. p # Nil
  BY <1>1 DEF NotAFunction
<1>3. p.auth # Nil => p.auth = [scheme |-> p.auth.scheme, credentials |-> p.auth.credentials]
  BY DEF IsPush
<1>. QED  BY <1>1, <1>2, <1>3

\* A push configuration that crosses gRPC of version 1.
LEMMA PushOfV1 ==
    ASSUME NotAFunction(Nil), NotAFunction(Err), NEW p, p = Nil \/ IsPush(p),
           V1!FromProtoTaskPushConfig(V1!ToProtoTaskPushConfig(p)) # Err
    PROVE  V1!FromProtoTaskPushConfig(V1!ToProtoTaskPushConfig(p)) = p
<1>1. CASE p = Nil
  BY <1>1 DEF V1!FromProtoTaskPushConfig, V1!ToProtoTaskPushConfig, V1!Opt
<1>2. CASE IsPush(p)
  <2>. DEFINE A == V1!toProtoAuthenticationInfo(p.auth)
              B == V1!fromProtoAuthenticationInfo(A)
              sent == [tenant |-> p.tenant, taskId |-> p.task, id |-> p.id, url |-> p.url,
                       token |-> p.token, authentication |-> A]
              read == [tenant |-> p.tenant, task |-> p.task, id |-> p.id, url |-> p.url,
                       token |-> p.token, auth |-> B]
  <2>1. /\ p = [tenant |-> p.tenant, task |-> p.task, id |-> p.id, url |-> p.url,
                token |-> p.token, auth |-> p.auth]
        /\ p # Nil
    BY <1>2, PushIs
  <2>2. V1!ToProtoTaskPushConfig(p) = sent
    BY <2>1 DEF V1!ToProtoTaskPushConfig, V1!Opt
  <2>3. sent # Nil
    BY DEF NotAFunction
  <2>4. V1!FromProtoTaskPushConfig(sent) \in {Err, Struct(read)}
    BY <2>3, WireOfV1 DEF V1!FromProtoTaskPushConfig, V1!Opt, V1!Require
  <2>5. Struct(read) = read /\ B # Err
    BY <2>2, <2>4, Converted
  <2>6. B = p.auth
    <3>1. CASE p.auth = Nil
      BY <3>1 DEF V1!toProtoAuthenticationInfo, V1!fromProtoAuthenticationInfo, V1!Opt
    <3>2. CASE p.auth # Nil
      <4>1. p.auth = [scheme |-> p.auth.scheme, credentials |-> p.auth.credentials]
        BY <1>2, <3>2, PushIs
      <4>2. A = [scheme |-> p.auth.scheme, credentials |-> p.auth.credentials]
        BY <3>2 DEF V1!toProtoAuthenticationInfo, V1!Opt
      <4>3. A = p.auth
        BY <4>1, <4>2
      <4>4. B \in {Err, A}
        <5>. HIDE DEF A
        <5>. QED  BY <3>2, <4>1, <4>3 DEF V1!fromProtoAuthenticationInfo, V1!Opt, V1!Require
      <4>. QED  BY <2>5, <4>3, <4>4
    <3>. QED  BY <3>1, <3>2
  <2>. HIDE DEF A, B
  <2>. QED  BY <2>1, <2>2, <2>4, <2>5, <2>6
<1>. QED  BY <1>1, <1>2

\* A push configuration that crosses gRPC of version 0.3.
LEMMA PushOfV0 ==
    ASSUME NotAFunction(Nil), NEW p, p = Nil \/ IsPush(p), NEW task
    PROVE  V0!fromProtoPushConfig(V0!toProtoPushConfig(p)) = CarriedPush("grpc0", p, task)
<1>1. CASE p = Nil
  BY <1>1 DEF V0!fromProtoPushConfig, V0!toProtoPushConfig, V0!Opt, CarriedPush
<1>2. CASE IsPush(p)
  <2>. DEFINE A == IF p.auth = Nil THEN Nil
                   ELSE [schemes |-> <<p.auth.scheme>>, credentials |-> p.auth.credentials]
              B == IF A = Nil \/ A.schemes = <<>> THEN Nil
                   ELSE [scheme |-> Head(A.schemes), credentials |-> A.credentials]
              sent == [id |-> p.id, url |-> p.url, token |-> p.token, authentication |-> A]
  <2>1. p # Nil
    BY <1>2, PushIs
  <2>2. V0!toProtoPushConfig(p) = sent
    BY <2>1 DEF V0!toProtoPushConfig, V0!Opt
  <2>3. sent # Nil
    BY DEF NotAFunction
  <2>4. V0!fromProtoPushConfig(sent) = [tenant |-> "", task |-> "", id |-> p.id, url |-> p.url,
                                        token |-> p.token, auth |-> B]
    <3>. HIDE DEF A
    <3>. QED  BY <2>3 DEF V0!fromProtoPushConfig, V0!Opt
  <2>5. B = p.auth
    <3>1. CASE p.auth = Nil
      BY <3>1
    <3>2. CASE p.auth # Nil
      <4>1. p.auth = [scheme |-> p.auth.scheme, credentials |-> p.auth.credentials]
        BY <1>2, <3>2, PushIs
      <4>2. A = [schemes |-> <<p.auth.scheme>>, credentials |-> p.auth.credentials] /\ A # Nil
        BY <3>2 DEF NotAFunction
      <4>3. A.schemes # <<>> /\ Head(A.schemes) = p.auth.scheme /\ A.credentials = p.auth.credentials
        <5>. HIDE DEF A
        <5>. QED  BY <4>2, SingleIs
      <4>. HIDE DEF A
      <4>. QED  BY <4>1, <4>2, <4>3
    <3>. QED  BY <3>1, <3>2
  <2>. HIDE DEF A, B
  <2>. QED  BY <2>1, <2>2, <2>4, <2>5 DEF CarriedPush, Legacy
<1>. QED  BY <1>1, <1>2

\* The legacy JSON of a configuration, of a task that is said beside it.
LEMMA PushOfC0 ==
    ASSUME NotAFunction(Nil), NEW p, IsPush(p), NEW task
    PROVE  /\ C0!FromV1PushConfig(p) = [taskId |-> p.task, config |-> C0!FromV1PushConfig(p).config]
           /\ C0!FromV1PushConfig(p).config # Nil
           /\ C0!ToV1PushConfig([taskId |-> task, config |-> C0!FromV1PushConfig(p).config]) =
                CarriedPush("rpc0", p, task)
<1>. DEFINE A == IF p.auth = Nil THEN Nil
                 ELSE [schemes |-> <<p.auth.scheme>>, credentials |-> p.auth.credentials]
            B == IF A = Nil THEN Nil
                 ELSE [scheme |-> IF A.schemes = <<>> THEN "" ELSE Head(A.schemes),
                       credentials |-> A.credentials]
            C == [id |-> p.id, url |-> p.url, token |-> p.token, auth |-> A]
            sent == [taskId |-> p.task, config |-> C]
            other == [taskId |-> task, config |-> C]
<1>1. p # Nil
  BY PushIs
<1>2. C0!FromV1PushConfig(p) = sent
  BY <1>1 DEF C0!FromV1PushConfig, C0!Opt
<1>3. other # Nil /\ C # Nil
  BY DEF NotAFunction
<1>4. C0!ToV1PushConfig(other) = [tenant |-> "", task |-> task, id |-> p.id, url |-> p.url,
                                  token |-> p.token, auth |-> B]
  <2>. HIDE DEF A
  <2>. QED  BY <1>3 DEF C0!ToV1PushConfig, C0!Opt
<1>5. B = p.auth
  <2>1. CASE p.auth = Nil
    BY <2>1
  <2>2. CASE p.auth # Nil
    <3>1. p.auth = [scheme |-> p.auth.scheme, credentials |-> p.auth.credentials]
      BY <2>2, PushIs
    <3>2. A = [schemes |-> <<p.auth.scheme>>, credentials |-> p.auth.credentials] /\ A # Nil
      BY <2>2 DEF NotAFunction
    <3>3. A.schemes # <<>> /\ Head(A.schemes) = p.auth.scheme /\ A.credentials = p.auth.credentials
      <4>. HIDE DEF A
      <4>. QED  BY <3>2, SingleIs
    <3>. HIDE DEF A
    <3>. QED  BY <3>1, <3>2, <3>3
  <2>. QED  BY <2>1, <2>2
<1>6. sent = [taskId |-> p.task, config |-> sent.config] /\ sent.config = C
  <2>. HIDE DEF C
  <2>. QED  OBVIOUS
<1>7. CarriedPush("rpc0", p, task) = [tenant |-> "", task |-> task, id |-> p.id, url |-> p.url,
                                      token |-> p.token, auth |-> p.auth]
  BY <1>1 DEF CarriedPush, Legacy
<1>. HIDE DEF A, B, C, sent
<1>. QED  BY <1>2, <1>3, <1>4, <1>5, <1>6, <1>7

\* A push configuration that crosses HTTP+JSON of version 0.3.
LEMMA PushOfP0 ==
    ASSUME NotAFunction(Nil), NEW p, p = Nil \/ IsPush(p), NEW task
    PROVE  P0!pushNotificationConfigFromWire(P0!pushNotificationConfigToWire(p)) =
             CarriedPush("rest0", p, task)
<1>1. CASE p = Nil
  BY <1>1 DEF P0!pushNotificationConfigFromWire, P0!pushNotificationConfigToWire, P0!Opt, CarriedPush
<1>2. CASE IsPush(p)
  <2>. DEFINE A == IF p.auth = Nil THEN Nil
                   ELSE [schemes |-> IF p.auth.scheme = "" THEN <<>> ELSE <<p.auth.scheme>>,
                         credentials |-> p.auth.credentials]
              B == IF A = Nil THEN Nil
                   ELSE [scheme |-> IF A.schemes = <<>> THEN "" ELSE Head(A.schemes),
                         credentials |-> A.credentials]
              sent == [id |-> p.id, url |-> p.url, token |-> p.token, authentication |-> A]
  <2>1. p # Nil
    BY <1>2, PushIs
  <2>2. P0!pushNotificationConfigToWire(p) = sent
    BY <2>1 DEF P0!pushNotificationConfigToWire, P0!Opt
  <2>3. sent # Nil
    BY DEF NotAFunction
  <2>4. P0!pushNotificationConfigFromWire(sent) =
          [tenant |-> "", task |-> "", id |-> p.id, url |-> p.url, token |-> p.token, auth |-> B]
    <3>. HIDE DEF A
    <3>. QED  BY <2>3 DEF P0!pushNotificationConfigFromWire, P0!Opt
  <2>5. B = p.auth
    <3>1. CASE p.auth = Nil
      BY <3>1
    <3>2. CASE p.auth # Nil
      <4>. DEFINE s == IF p.auth.scheme = "" THEN <<>> ELSE <<p.auth.scheme>>
      <4>1. p.auth = [scheme |-> p.auth.scheme, credentials |-> p.auth.credentials]
        BY <1>2, <3>2, PushIs
      <4>2. A = [schemes |-> s, credentials |-> p.auth.credentials] /\ A # Nil
        BY <3>2 DEF NotAFunction
      <4>3. (IF s = <<>> THEN "" ELSE Head(s)) = p.auth.scheme
        BY SingleIs
      <4>4. A.schemes = s /\ A.credentials = p.auth.credentials
        <5>. HIDE DEF A, s
        <5>. QED  BY <4>2
      <4>. HIDE DEF A, s
      <4>. QED  BY <4>1, <4>2, <4>3, <4>4
    <3>. QED  BY <3>1, <3>2
  <2>. HIDE DEF A, B
  <2>. QED  BY <2>1, <2>2, <2>4, <2>5 DEF CarriedPush, Legacy
<1>. QED  BY <1>1, <1>2

\* A request without a configuration has none.
LEMMA NoConfig == ASSUME NEW b, NEW m, NEW r, r.config = Nil PROVE CarriedConfig(b, m, r) = Nil
BY DEF CarriedConfig, Opt

\* A configuration of a message is its fields.
LEMMA ConfigIs ==
    ASSUME NotAFunction(Nil), NEW c, IsSendConfig(c)
    PROVE  /\ c = [modes |-> c.modes, immediate |-> c.immediate, push |-> c.push,
                   history |-> c.history]
           /\ c # Nil /\ c.immediate \in BOOLEAN /\ IsNumber(c.history)
           /\ c.push = Nil \/ IsPushConfig(c.push)
<1>1. c = [modes |-> c.modes, immediate |-> c.immediate, push |-> c.push, history |-> c.history]
  BY DEF IsSendConfig
<1>2. c # Nil
  BY <1>1 DEF NotAFunction
<1>. QED  BY <1>1, <1>2 DEF IsSendConfig

\* The configuration of a message that crosses gRPC of version 1.
LEMMA ConfigOfV1 ==
    ASSUME NotAFunction(Nil), NotAFunction(Err), NEW m, NEW r, r.config = Nil \/ IsSendConfig(r.config),
           V1!toProtoSendMessageConfig(r.config) # Err,
           V1!fromProtoSendMessageConfig(V1!toProtoSendMessageConfig(r.config)) # Err
    PROVE  V1!fromProtoSendMessageConfig(V1!toProtoSendMessageConfig(r.config)) =
             CarriedConfig("grpc1", m, r)
<1>1. CASE r.config = Nil
  BY <1>1, NoConfig DEF V1!toProtoSendMessageConfig, V1!fromProtoSendMessageConfig, V1!Opt
<1>2. CASE IsSendConfig(r.config)
  <2>. DEFINE c == r.config
              P == V1!ToProtoTaskPushConfig(c.push)
              H == V1!toProtoHistoryLength(c.history)
              sent == [acceptedOutputModes |-> c.modes, returnImmediately |-> c.immediate,
                       taskPushNotificationConfig |-> P, historyLength |-> H]
              read == [modes |-> c.modes, immediate |-> c.immediate,
                       push |-> V1!FromProtoTaskPushConfig(P), history |-> V1!fromProtoHistoryLength(H)]
  <2>1. c # Nil /\ IsNumber(c.history) /\ (c.push = Nil \/ IsPushConfig(c.push))
    BY <1>2, ConfigIs
  <2>2. V1!toProtoSendMessageConfig(c) = Struct(sent)
    BY <2>1, WireOfV1 DEF V1!toProtoSendMessageConfig, V1!Opt
  <2>3. Struct(sent) = sent
    BY <2>2, Converted
  <2>4. sent # Nil
    BY DEF NotAFunction
  <2>5. V1!fromProtoSendMessageConfig(sent) = Struct(read)
    <3>. HIDE DEF P, H
    <3>. QED  BY <2>4, WireOfV1 DEF V1!fromProtoSendMessageConfig, V1!Opt
  <2>6. Struct(read) = read /\ read.push # Err
    BY <2>2, <2>3, <2>5, Converted
  <2>7. V1!FromProtoTaskPushConfig(P) # Err
    <3>. HIDE DEF P
    <3>. QED  BY <2>6
  <2>8. V1!FromProtoTaskPushConfig(P) = c.push
    BY <2>1, <2>7, PushOfV1, PushConfigsArePushes
  <2>9. V1!fromProtoHistoryLength(H) = CarriedLength("grpc1", m, c.history)
    BY <2>1, LengthsCross
  <2>10. CarriedPush("grpc1", c.push, r.message.task) = c.push
    BY DEF CarriedPush, Legacy
  <2>11. CarriedConfig("grpc1", m, r) =
           [modes |-> c.modes, immediate |-> c.immediate, push |-> c.push,
            history |-> CarriedLength("grpc1", m, c.history)]
    BY <1>2, <2>10, CarriedConfigIs
  <2>. HIDE DEF P, H
  <2>12. read = CarriedConfig("grpc1", m, r)
    BY <2>8, <2>9, <2>11
  <2>. QED  BY <2>2, <2>3, <2>5, <2>6, <2>12
<1>. QED  BY <1>1, <1>2

\* The configuration of a message that crosses gRPC of version 0.3.
LEMMA ConfigOfV0 ==
    ASSUME NotAFunction(Nil), NEW m, NEW r, r.config = Nil \/ IsSendConfig(r.config)
    PROVE  V0!fromProtoSendMessageConfig(V0!toProtoSendMessageConfig(r.config)) =
             CarriedConfig("grpc0", m, r)
<1>1. CASE r.config = Nil
  BY <1>1, NoConfig DEF V0!toProtoSendMessageConfig, V0!fromProtoSendMessageConfig, V0!Opt
<1>2. CASE IsSendConfig(r.config)
  <2>. DEFINE c == r.config
              P == V0!toProtoPushConfig(c.push)
              H == V0!toProtoHistoryLength(c.history)
              sent == [acceptedOutputModes |-> c.modes, blocking |-> ~c.immediate,
                       pushNotification |-> P, historyLength |-> H]
              read == [modes |-> c.modes, immediate |-> ~~c.immediate,
                       push |-> V0!fromProtoPushConfig(P), history |-> V0!fromProtoHistoryLength(H)]
  <2>1. c # Nil /\ IsNumber(c.history) /\ (c.push = Nil \/ IsPushConfig(c.push))
    BY <1>2, ConfigIs
  <2>2. V0!toProtoSendMessageConfig(c) = sent
    BY <2>1 DEF V0!toProtoSendMessageConfig, V0!Opt
  <2>4. sent # Nil
    BY DEF NotAFunction
  <2>5. V0!fromProtoSendMessageConfig(sent) = read
    <3>. HIDE DEF P, H
    <3>. QED  BY <2>4 DEF V0!fromProtoSendMessageConfig, V0!Opt
  <2>6. (~~c.immediate) = c.immediate
    BY <1>2, ConfigIs
  <2>8. V0!fromProtoPushConfig(P) = CarriedPush("grpc0", c.push, r.message.task)
    BY <2>1, PushOfV0, PushConfigsArePushes
  <2>9. V0!fromProtoHistoryLength(H) = CarriedLength("grpc0", m, c.history)
    BY <2>1, LengthsCross
  <2>11. CarriedConfig("grpc0", m, r) =
           [modes |-> c.modes, immediate |-> c.immediate,
            push |-> CarriedPush("grpc0", c.push, r.message.task),
            history |-> CarriedLength("grpc0", m, c.history)]
    BY <1>2, CarriedConfigIs
  <2>. HIDE DEF P, H
  <2>12. read = CarriedConfig("grpc0", m, r)
    BY <2>6, <2>8, <2>9, <2>11
  <2>. QED  BY <2>2, <2>5, <2>12
<1>. QED  BY <1>1, <1>2

\* The configuration of a message that crosses HTTP+JSON of version 0.3.
LEMMA ConfigOfP0 ==
    ASSUME NotAFunction(Nil), NEW m, Sends(m), NEW r, r.config = Nil \/ IsSendConfig(r.config)
    PROVE  P0!Opt(P0!sendMessageConfigFromWire, P0!Opt(P0!sendMessageConfigToWire, r.config)) =
             CarriedConfig("rest0", m, r)
<1>1. CASE r.config = Nil
  BY <1>1, NoConfig DEF P0!Opt
<1>2. CASE IsSendConfig(r.config)
  <2>. DEFINE c == r.config
              P == P0!pushNotificationConfigToWire(c.push)
              H == IF c.history = Nil THEN 0 ELSE int32(c.history)
              K == IF H = 0 THEN Nil ELSE H
              sent == [acceptedOutputModes |-> c.modes, blocking |-> ~c.immediate,
                       historyLength |-> H, pushNotification |-> P]
              read == [modes |-> c.modes, immediate |-> ~~c.immediate,
                       history |-> K, push |-> P0!pushNotificationConfigFromWire(P)]
  <2>1. c # Nil /\ IsNumber(c.history) /\ (c.push = Nil \/ IsPushConfig(c.push))
    BY <1>2, ConfigIs
  <2>2. P0!Opt(P0!sendMessageConfigToWire, c) = sent
    <3>1. \A n : P0!int32(n) = int32(n)
      BY DEF P0!int32, int32
    <3>. QED  BY <2>1, <3>1 DEF P0!sendMessageConfigToWire, P0!Opt
  <2>4. sent # Nil
    BY DEF NotAFunction
  <2>5. P0!Opt(P0!sendMessageConfigFromWire, sent) = read
    <3>. HIDE DEF P, H
    <3>. QED  BY <2>4 DEF P0!sendMessageConfigFromWire, P0!Opt
  <2>6. (~~c.immediate) = c.immediate
    BY <1>2, ConfigIs
  <2>8. P0!pushNotificationConfigFromWire(P) = CarriedPush("rest0", c.push, r.message.task)
    BY <2>1, PushOfP0, PushConfigsArePushes
  <2>9. K = CarriedLength("rest0", m, c.history)
    <3>1. CarriedLength("rest0", m, c.history) =
            IF c.history = Nil \/ int32(c.history) = 0 THEN Nil ELSE int32(c.history)
      BY <2>1, LengthsCross
    <3>. QED  BY <3>1
  <2>11. CarriedConfig("rest0", m, r) =
           [modes |-> c.modes, immediate |-> c.immediate,
            push |-> CarriedPush("rest0", c.push, r.message.task),
            history |-> CarriedLength("rest0", m, c.history)]
    BY <1>2, CarriedConfigIs
  <2>. HIDE DEF P, H, K
  <2>12. read = CarriedConfig("rest0", m, r)
    BY <2>6, <2>8, <2>9, <2>11
  <2>. QED  BY <2>2, <2>5, <2>12
<1>. QED  BY <1>1, <1>2

\* JSON has the configuration as it is.
LEMMA ConfigOfJ1 ==
    ASSUME NotAFunction(Nil), NEW b \in {"rpc1", "rest1"}, NEW m, NEW r, r.config = Nil \/ IsSendConfig(r.config)
    PROVE  r.config = CarriedConfig(b, m, r)
<1>1. CASE r.config = Nil
  BY <1>1, NoConfig
<1>2. CASE IsSendConfig(r.config)
  <2>. DEFINE c == r.config
  <2>1. c = [modes |-> c.modes, immediate |-> c.immediate, push |-> c.push, history |-> c.history]
    BY <1>2, ConfigIs
  <2>2. IsNumber(c.history)
    BY <1>2, ConfigIs
  <2>3. CarriedLength(b, m, c.history) = c.history
    BY <2>2, LengthsCross
  <2>4. CarriedPush(b, c.push, r.message.task) = c.push
    BY DEF CarriedPush, Legacy
  <2>5. CarriedConfig(b, m, r) =
          [modes |-> c.modes, immediate |-> c.immediate,
           push |-> CarriedPush(b, c.push, r.message.task), history |-> CarriedLength(b, m, c.history)]
    BY <1>2, CarriedConfigIs
  <2>. QED  BY <2>1, <2>3, <2>4, <2>5
<1>. QED  BY <1>1, <1>2

\* A request that sends a message is its fields.
LEMMA SendRequestIs ==
    ASSUME NotAFunction(Nil), NEW r, IsSendRequest(r)
    PROVE  /\ r = [tenant |-> r.tenant, message |-> r.message, metadata |-> r.metadata,
                   config |-> r.config]
           /\ IsMap(r.metadata)
           /\ r.message = Nil \/ IsMessage(r.message)
           /\ r.config = Nil \/ IsSendConfig(r.config)
<1>1. r = [tenant |-> r.tenant, message |-> r.message, metadata |-> r.metadata, config |-> r.config]
  BY DEF IsSendRequest
<1>. QED  BY <1>1 DEF IsSendRequest

\* A request that sends a message that crosses gRPC of version 1.
LEMMA SendOfV1 ==
    ASSUME NotAFunction(Nil), NotAFunction(Err), NEW m, Sends(m), NEW r, IsSendRequest(r),
           V1!ToProtoSendMessageRequest(r) # Err,
           V1!FromProtoSendMessageRequest(V1!ToProtoSendMessageRequest(r)) # Err
    PROVE  V1!FromProtoSendMessageRequest(V1!ToProtoSendMessageRequest(r)) =
             CarriedRequest("grpc1", m, r)
<1>. DEFINE M == V1!toProtoMessage(r.message)
            C == V1!toProtoSendMessageConfig(r.config)
            D == toProtoMap(r.metadata)
            sent == [tenant |-> r.tenant, message |-> M, configuration |-> C, metadata |-> D]
            read == [tenant |-> r.tenant, message |-> V1!FromProtoMessage(M),
                     config |-> V1!fromProtoSendMessageConfig(C), metadata |-> D]
<1>1. /\ IsMap(r.metadata) /\ (r.message = Nil \/ IsMessage(r.message))
      /\ r.config = Nil \/ IsSendConfig(r.config)
  BY SendRequestIs
<1>2. V1!ToProtoSendMessageRequest(r) = Struct(sent)
  BY WireOfV1 DEF V1!ToProtoSendMessageRequest
<1>3. Struct(sent) = sent /\ M # Err /\ C # Err /\ D # Err
  <2>. HIDE DEF M, C, D
  <2>. QED  BY <1>2, Converted
<1>4. V1!FromProtoSendMessageRequest(sent) \in {Err, Struct(read)}
  <2>. HIDE DEF M, C, D
  <2>. QED  BY WireOfV1 DEF V1!FromProtoSendMessageRequest, V1!Require
<1>5. Struct(read) = read /\ V1!FromProtoMessage(M) # Err /\ V1!fromProtoSendMessageConfig(C) # Err
  <2>. HIDE DEF M, C, D
  <2>. QED  BY <1>2, <1>3, <1>4, Converted
<1>6. V1!FromProtoMessage(M) = CarriedMessage("grpc1", r.message)
  BY <1>1, <1>3, <1>5, MessageOfV1
<1>7. V1!fromProtoSendMessageConfig(C) = CarriedConfig("grpc1", m, r)
  BY <1>1, <1>3, <1>5, ConfigOfV1
<1>8. D = CarriedMap("grpc1", r.metadata)
  BY <1>1, <1>3, MapCrosses DEF HTTP
<1>9. CarriedRequest("grpc1", m, r) =
        [tenant |-> CarriedTenant("grpc1", r.tenant), message |-> CarriedMessage("grpc1", r.message),
         metadata |-> CarriedMap("grpc1", r.metadata), config |-> CarriedConfig("grpc1", m, r)]
  BY CarriedSendIs
<1>10. CarriedTenant("grpc1", r.tenant) = r.tenant
  BY DEF CarriedTenant, Legacy
<1>. HIDE DEF M, C, D
<1>11. read = CarriedRequest("grpc1", m, r)
  BY <1>6, <1>7, <1>8, <1>9, <1>10
<1>. QED  BY <1>2, <1>3, <1>4, <1>5, <1>11

\* A request that sends a message that crosses gRPC of version 0.3.
LEMMA SendOfV0 ==
    ASSUME NotAFunction(Nil), NotAFunction(Err), NEW m, Sends(m), NEW r, IsSendRequest(r),
           V0!ToProtoSendMessageRequest(r) # Err,
           V0!FromProtoSendMessageRequest(V0!ToProtoSendMessageRequest(r)) # Err
    PROVE  V0!FromProtoSendMessageRequest(V0!ToProtoSendMessageRequest(r)) =
             CarriedRequest("grpc0", m, r)
<1>. DEFINE M == V0!toProtoMessage(r.message)
            C == V0!toProtoSendMessageConfig(r.config)
            D == toProtoMap(r.metadata)
            sent == [request |-> M, configuration |-> C, metadata |-> D]
            read == [tenant |-> "", message |-> V0!FromProtoMessage(M),
                     config |-> V0!fromProtoSendMessageConfig(C), metadata |-> D]
<1>1. /\ IsMap(r.metadata) /\ (r.message = Nil \/ IsMessage(r.message))
      /\ r.config = Nil \/ IsSendConfig(r.config)
  BY SendRequestIs
<1>2. V0!ToProtoSendMessageRequest(r) = Struct(sent)
  BY WireOfV0 DEF V0!ToProtoSendMessageRequest
<1>3. Struct(sent) = sent /\ M # Err /\ D # Err
  <2>. HIDE DEF M, C, D
  <2>. QED  BY <1>2, Converted
<1>4. V0!FromProtoSendMessageRequest(sent) = Struct(read)
  <2>. HIDE DEF M, C, D
  <2>. QED  BY WireOfV0 DEF V0!FromProtoSendMessageRequest
<1>5. Struct(read) = read /\ V0!FromProtoMessage(M) # Err
  <2>1. Struct(read) # Err
    <3>. HIDE DEF read, sent
    <3>. QED  BY <1>2, <1>3, <1>4
  <2>2. Struct(read) = read /\ read.message # Err
    <3>. HIDE DEF M, C, D
    <3>. QED  BY <2>1, Converted
  <2>. HIDE DEF M, C, D
  <2>. QED  BY <2>2
<1>6. V0!FromProtoMessage(M) = CarriedMessage("grpc0", r.message)
  BY <1>1, <1>3, <1>5, MessageOfV0
<1>7. V0!fromProtoSendMessageConfig(C) = CarriedConfig("grpc0", m, r)
  BY <1>1, ConfigOfV0
<1>8. D = CarriedMap("grpc0", r.metadata)
  BY <1>1, <1>3, MapCrosses DEF HTTP
<1>9. CarriedRequest("grpc0", m, r) =
        [tenant |-> CarriedTenant("grpc0", r.tenant), message |-> CarriedMessage("grpc0", r.message),
         metadata |-> CarriedMap("grpc0", r.metadata), config |-> CarriedConfig("grpc0", m, r)]
  BY CarriedSendIs
<1>10. CarriedTenant("grpc0", r.tenant) = ""
  BY DEF CarriedTenant, Legacy
<1>. HIDE DEF M, C, D
<1>11. read = CarriedRequest("grpc0", m, r)
  BY <1>6, <1>7, <1>8, <1>9, <1>10
<1>. QED  BY <1>2, <1>3, <1>4, <1>5, <1>11

\* A request that sends a message that crosses HTTP+JSON of version 0.3.
LEMMA SendOfP0 ==
    ASSUME NotAFunction(Nil), NotAFunction(Err), NEW m, Sends(m), NEW r, IsSendRequest(r),
           P0!ToProtoSendMessageRequest(r) # Err
    PROVE  P0!FromProtoSendMessageRequest(P0!ToProtoSendMessageRequest(r)) =
             CarriedRequest("rest0", m, r)
<1>. DEFINE M == P0!messageToWire(r.message)
            C == P0!Opt(P0!sendMessageConfigToWire, r.config)
            D == jsonMap(r.metadata)
            sent == [message |-> M, metadata |-> D, configuration |-> C]
            read == [tenant |-> "", message |-> P0!messageFromWire(M), metadata |-> D,
                     config |-> P0!Opt(P0!sendMessageConfigFromWire, C)]
<1>1. /\ IsMap(r.metadata) /\ (r.message = Nil \/ IsMessage(r.message))
      /\ r.config = Nil \/ IsSendConfig(r.config)
  BY SendRequestIs
<1>2. P0!ToProtoSendMessageRequest(r) = Struct(sent)
  BY WireOfP0 DEF P0!ToProtoSendMessageRequest
<1>3. Struct(sent) = sent /\ M # Err /\ D # Err
  <2>. HIDE DEF M, C, D
  <2>. QED  BY <1>2, Converted
<1>4. P0!FromProtoSendMessageRequest(sent) = read
  <2>. HIDE DEF M, C, D
  <2>. QED  BY DEF P0!FromProtoSendMessageRequest, P0!Opt
<1>6. P0!messageFromWire(M) = CarriedMessage("rest0", r.message)
  BY <1>1, <1>3, MessageOfP0
<1>7. P0!Opt(P0!sendMessageConfigFromWire, C) = CarriedConfig("rest0", m, r)
  BY <1>1, ConfigOfP0
<1>8. D = CarriedMap("rest0", r.metadata)
  BY <1>1, <1>3, MapCrosses DEF HTTP, Bindings
<1>9. CarriedRequest("rest0", m, r) =
        [tenant |-> CarriedTenant("rest0", r.tenant), message |-> CarriedMessage("rest0", r.message),
         metadata |-> CarriedMap("rest0", r.metadata), config |-> CarriedConfig("rest0", m, r)]
  BY CarriedSendIs
<1>10. CarriedTenant("rest0", r.tenant) = ""
  BY DEF CarriedTenant, Legacy
<1>11. read = CarriedRequest("rest0", m, r)
  <2>. DEFINE X == P0!messageFromWire(M)
              Y == P0!Opt(P0!sendMessageConfigFromWire, C)
  <2>1. read = [tenant |-> "", message |-> X, metadata |-> D, config |-> Y]
    OBVIOUS
  <2>2. X = CarriedMessage("rest0", r.message) /\ Y = CarriedConfig("rest0", m, r)
    BY <1>6, <1>7
  <2>. HIDE DEF X, Y, D, read
  <2>. QED  BY <1>8, <1>9, <1>10, <2>1, <2>2
<1>. QED  BY <1>2, <1>3, <1>4, <1>11

\* A configuration is read with the message's task: there must be a message.
LEMMA SendOfC0 ==
    ASSUME NotAFunction(Nil), NotAFunction(Err), NEW m, Sends(m), NEW r, IsSendRequest(r),
           C0!FromV1SendMessageRequest(r) # Err,
           r.message # Nil \/ r.config = Nil \/ r.config.push = Nil
    PROVE  C0!ToV1SendMessageRequest(C0!FromV1SendMessageRequest(r)) = CarriedRequest("rpc0", m, r)
<1>. DEFINE c == r.config
            M == C0!FromV1Message(r.message)
            P == IF c.push = Nil THEN Nil ELSE C0!FromV1PushConfig(c.push).config
            C == IF c = Nil THEN Nil
                 ELSE [acceptedOutputModes |-> c.modes, historyLength |-> c.history,
                       blocking |-> ~c.immediate, pushConfig |-> P]
            D == jsonMap(r.metadata)
            sent == [message |-> M, metadata |-> D, config |-> C]
            K == IF C = Nil THEN Nil
                 ELSE [modes |-> C.acceptedOutputModes, history |-> C.historyLength,
                       immediate |-> IF C.blocking = Nil THEN FALSE ELSE ~C.blocking,
                       push |-> IF C.pushConfig = Nil THEN Nil
                                ELSE C0!ToV1PushConfig([taskId |-> M.taskId, config |-> C.pushConfig])]
            read == [tenant |-> "", message |-> C0!ToV1Message(M), metadata |-> D, config |-> K]
<1>1. /\ IsMap(r.metadata) /\ (r.message = Nil \/ IsMessage(r.message))
      /\ c = Nil \/ IsSendConfig(c)
  BY SendRequestIs
<1>2. C0!FromV1SendMessageRequest(r) = Struct(sent)
  BY WireOfC0 DEF C0!FromV1SendMessageRequest, C0!Opt
<1>3. Struct(sent) = sent /\ M # Err /\ D # Err
  <2>. HIDE DEF M, C, D
  <2>. QED  BY <1>2, Converted
<1>4. C0!ToV1SendMessageRequest(sent) = read
  <2>. HIDE DEF M, C, D
  <2>. QED  BY DEF C0!ToV1SendMessageRequest, C0!Opt
<1>6. C0!ToV1Message(M) = CarriedMessage("rpc0", r.message)
  BY <1>1, <1>3, MessageOfC0
<1>7. K = CarriedConfig("rpc0", m, r)
  <2>1. CASE c = Nil
    BY <2>1, NoConfig
  <2>2. CASE IsSendConfig(c)
    <3>1. /\ c # Nil /\ IsNumber(c.history) /\ c.immediate \in BOOLEAN
          /\ c.push = Nil \/ IsPushConfig(c.push)
      BY <2>2, ConfigIs
    <3>2. C = [acceptedOutputModes |-> c.modes, historyLength |-> c.history,
               blocking |-> ~c.immediate, pushConfig |-> P] /\ C # Nil
      <4>. HIDE DEF P
      <4>. QED  BY <3>1 DEF NotAFunction
    <3>. DEFINE Q == IF P = Nil THEN Nil
                     ELSE C0!ToV1PushConfig([taskId |-> M.taskId, config |-> P])
                I == IF (~c.immediate) = Nil THEN FALSE ELSE ~~c.immediate
    <3>3. K = [modes |-> c.modes, history |-> c.history, immediate |-> I, push |-> Q]
      <4>. HIDE DEF C, P, M
      <4>. QED  BY <3>2
    <3>4. I = c.immediate
      <4>1. (~c.immediate) \in BOOLEAN /\ (~~c.immediate) = c.immediate
        BY <3>1
      <4>2. (~c.immediate) # Nil
        BY <4>1, WireAssumption
      <4>. QED  BY <4>1, <4>2
    <3>5. Q = CarriedPush("rpc0", c.push, r.message.task)
      <4>1. CASE c.push = Nil
        BY <4>1 DEF CarriedPush
      <4>2. CASE IsPushConfig(c.push)
        <5>1. c.push # Nil
          BY <4>2, PushIs, PushConfigsArePushes
        <5>2. r.message # Nil
          BY <3>1, <5>1
        <5>3. M.taskId = r.message.task
          <6>1. \E s : M = Struct(s) /\ s.taskId = r.message.task
            BY <5>2 DEF C0!FromV1Message, C0!Opt, C0!Struct, C0!Strict, Struct, Strict
          <6>. QED  BY <1>3, <6>1, Converted
        <5>4. /\ P = C0!FromV1PushConfig(c.push).config /\ P # Nil
              /\ \A task : C0!ToV1PushConfig([taskId |-> task, config |-> P]) =
                             CarriedPush("rpc0", c.push, task)
          BY <4>2, <5>1, PushOfC0, PushConfigsArePushes
        <5>. HIDE DEF P, M
        <5>. QED  BY <5>3, <5>4
      <4>. QED  BY <3>1, <4>1, <4>2
    <3>6. CarriedConfig("rpc0", m, r) =
            [modes |-> c.modes, immediate |-> c.immediate,
             push |-> CarriedPush("rpc0", c.push, r.message.task),
             history |-> CarriedLength("rpc0", m, c.history)]
      BY <2>2, CarriedConfigIs
    <3>7. CarriedLength("rpc0", m, c.history) = c.history
      BY <3>1, LengthsCross
    <3>. HIDE DEF K, I, Q
    <3>. QED  BY <3>3, <3>4, <3>5, <3>6, <3>7
  <2>. QED  BY <1>1, <2>1, <2>2
<1>8. D = CarriedMap("rpc0", r.metadata)
  BY <1>1, <1>3, MapCrosses DEF HTTP, Bindings
<1>9. CarriedRequest("rpc0", m, r) =
        [tenant |-> CarriedTenant("rpc0", r.tenant), message |-> CarriedMessage("rpc0", r.message),
         metadata |-> CarriedMap("rpc0", r.metadata), config |-> CarriedConfig("rpc0", m, r)]
  BY CarriedSendIs
<1>10. CarriedTenant("rpc0", r.tenant) = ""
  BY DEF CarriedTenant, Legacy
<1>. HIDE DEF M, C, D, K
<1>11. read = CarriedRequest("rpc0", m, r)
  BY <1>6, <1>7, <1>8, <1>9, <1>10
<1>. QED  BY <1>2, <1>3, <1>4, <1>11

\* JSON of version 1 keeps the tenant.
LEMMA SendOfJ1 ==
    ASSUME NotAFunction(Nil), NotAFunction(Err), NEW b \in JSON, NEW m, Sends(m), NEW r, IsSendRequest(r),
           J1!MarshalSendMessageRequest(r) # Err,
           J1!UnmarshalSendMessageRequest(J1!MarshalSendMessageRequest(r)) # Err
    PROVE  /\ J1!UnmarshalSendMessageRequest(J1!MarshalSendMessageRequest(r)) = CarriedRequest(b, m, r)
           /\ fillTenant(r.tenant, CarriedRequest(b, m, r)) = CarriedRequest(b, m, r)
<1>. DEFINE M == J1!MarshalMessage(r.message)
            N == J1!UnmarshalMessage(M)
            D == jsonMap(r.metadata)
            sent == [tenant |-> r.tenant, message |-> M, metadata |-> D, config |-> r.config]
            read == [tenant |-> r.tenant, message |-> N, metadata |-> D, config |-> r.config]
<1>1. /\ r = [tenant |-> r.tenant, message |-> r.message, metadata |-> r.metadata, config |-> r.config]
      /\ IsMap(r.metadata) /\ (r.message = Nil \/ IsMessage(r.message))
      /\ r.config = Nil \/ IsSendConfig(r.config)
  BY SendRequestIs
<1>2. J1!MarshalSendMessageRequest(r) = Struct(sent)
  <2>1. J1!MarshalSendMessageRequest(r) = Struct([r EXCEPT !.message = M, !.metadata = D])
    BY WireOfJ1 DEF J1!MarshalSendMessageRequest
  <2>. DEFINE r1 == [r EXCEPT !.message = M]
              r2 == [r1 EXCEPT !.metadata = D]
  <2>2. [r EXCEPT !.message = M, !.metadata = D] = r2
    OBVIOUS
  <2>. HIDE DEF M, D
  <2>3. r1 = [tenant |-> r.tenant, message |-> M, metadata |-> r.metadata, config |-> r.config]
    BY <1>1
  <2>4. r2 = sent
    <3>. HIDE DEF r1
    <3>. QED  BY <2>3
  <2>. QED  BY <2>1, <2>2, <2>4
<1>3. Struct(sent) = sent /\ M # Err /\ D # Err
  <2>. HIDE DEF M, D
  <2>. QED  BY <1>2, Converted
<1>4. J1!UnmarshalSendMessageRequest(sent) = Struct(read)
  <2>1. J1!UnmarshalSendMessageRequest(sent) =
          Struct([sent EXCEPT !.message = J1!UnmarshalMessage(sent.message)])
    BY WireOfJ1 DEF J1!UnmarshalSendMessageRequest
  <2>2. sent.message = M
    OBVIOUS
  <2>3. [sent EXCEPT !.message = N] = read
    <3>. HIDE DEF M, N, D
    <3>. QED  OBVIOUS
  <2>. HIDE DEF sent, read, M
  <2>. QED  BY <2>1, <2>2, <2>3
<1>5. Struct(read) = read /\ N # Err
  <2>. HIDE DEF M, N, D
  <2>. QED  BY <1>2, <1>3, <1>4, Converted
<1>6. N = CarriedMessage(b, r.message)
  BY <1>1, <1>3, <1>5, MessageOfJ1
<1>7. r.config = CarriedConfig(b, m, r)
  BY <1>1, ConfigOfJ1 DEF JSON
<1>8. D = CarriedMap(b, r.metadata)
  <2>1. b \in HTTP
    BY DEF JSON, HTTP, Bindings
  <2>. QED  BY <1>1, <1>3, <2>1, MapCrosses
<1>9. CarriedRequest(b, m, r) =
        [tenant |-> CarriedTenant(b, r.tenant), message |-> CarriedMessage(b, r.message),
         metadata |-> CarriedMap(b, r.metadata), config |-> CarriedConfig(b, m, r)]
  BY CarriedSendIs
<1>10. CarriedTenant(b, r.tenant) = r.tenant
  BY DEF CarriedTenant, Legacy, JSON
<1>. HIDE DEF M, N, D
<1>11. read = CarriedRequest(b, m, r)
  BY <1>6, <1>7, <1>8, <1>9, <1>10
<1>12. fillTenant(r.tenant, read) = read
  BY DEF fillTenant
<1>. QED  BY <1>2, <1>3, <1>4, <1>5, <1>11, <1>12

\* The fields of a request, by its method.
LEMMA RequestFields ==
    ASSUME NEW m \in Methods, NEW r, IsRequest(m, r)
    PROVE  \/ Sends(m) /\ IsSendRequest(r)
           \/ m = "GetTask" /\ IsGetTaskRequest(r)
           \/ m = "ListTasks" /\ IsListTasksRequest(r)
           \/ m = "CancelTask" /\ IsCancelTaskRequest(r)
           \/ m = "SubscribeToTask" /\ IsSubscribeToTaskRequest(r)
           \/ m = "CreateTaskPushConfig" /\ IsPushConfig(r)
           \/ m \in {"GetTaskPushConfig", "DeleteTaskPushConfig"} /\ IsPushConfigRequest(r)
           \/ m = "ListTaskPushConfigs" /\ IsListTaskPushConfigRequest(r)
           \/ m = "GetExtendedAgentCard" /\ IsGetExtendedAgentCardRequest(r)
<1>1. CASE Sends(m)
  BY <1>1 DEF IsRequest
<1>2. CASE m = "GetTask"
  BY <1>2 DEF IsRequest, Sends
<1>3. CASE m = "ListTasks"
  BY <1>3 DEF IsRequest, Sends
<1>4. CASE m = "CancelTask"
  BY <1>4 DEF IsRequest, Sends
<1>5. CASE m = "SubscribeToTask"
  BY <1>5 DEF IsRequest, Sends
<1>6. CASE m = "CreateTaskPushConfig"
  BY <1>6 DEF IsRequest, Sends
<1>7. CASE m \in {"GetTaskPushConfig", "DeleteTaskPushConfig"}
  BY <1>7 DEF IsRequest, Sends
<1>8. CASE m = "ListTaskPushConfigs"
  BY <1>8 DEF IsRequest, Sends
<1>9. CASE m = "GetExtendedAgentCard"
  BY <1>9 DEF IsRequest, Sends
<1>. QED  BY <1>1, <1>2, <1>3, <1>4, <1>5, <1>6, <1>7, <1>8, <1>9 DEF Methods, StreamMethods, Sends

-----------------------------------------------------------------------------
(* gRPC, version 1 *)

\* A request of any method that crosses gRPC of version 1.
LEMMA RequestOfV1 ==
    ASSUME NotAFunction(Nil), NotAFunction(Err), NEW m \in Methods, NEW r, IsRequest(m, r),
           grpc1Request(m, r) # Err, grpc1Received(m, grpc1Request(m, r)) # Err
    PROVE  grpc1Received(m, grpc1Request(m, r)) = CarriedRequest("grpc1", m, r)
<1>. DEFINE w == grpc1Request(m, r)
            t == r.tenant
<1>0. /\ \A x : CarriedTenant("grpc1", x) = x /\ CarriedId("grpc1", x) = x
      /\ "grpc1" \in {"grpc1", "grpc0"} /\ "grpc1" \notin {"grpc0", "rest0"}
  BY DEF CarriedTenant, CarriedId, Legacy
<1>1. CASE Sends(m) /\ IsSendRequest(r)
  <2>1. w = V1!ToProtoSendMessageRequest(r)
    BY <1>1 DEF grpc1Request, Sends
  <2>2. grpc1Received(m, w) = V1!FromProtoSendMessageRequest(w)
    BY <1>1 DEF grpc1Received, Sends
  <2>. QED  BY <1>1, <2>1, <2>2, SendOfV1
<1>2. CASE m = "GetTask" /\ IsGetTaskRequest(r)
  <2>. DEFINE H == V1!toProtoHistoryLength(r.history)
              sent == [tenant |-> t, id |-> r.id, historyLength |-> H]
  <2>1. w = sent
    BY <1>2 DEF grpc1Request, Sends, V1!ToProtoGetTaskRequest
  <2>2. grpc1Received(m, sent) \in {Err, [tenant |-> t, id |-> r.id, history |-> V1!fromProtoHistoryLength(H)]}
    <3>. HIDE DEF H
    <3>. QED  BY <1>2 DEF grpc1Received, Sends, V1!FromProtoGetTaskRequest, V1!Require
  <2>3. IsNumber(r.history)
    BY <1>2 DEF IsGetTaskRequest
  <2>4. V1!fromProtoHistoryLength(H) = CarriedLength("grpc1", m, r.history)
    BY <2>3, LengthsCross
  <2>5. CarriedRequest("grpc1", m, r) =
          [tenant |-> CarriedTenant("grpc1", t), id |-> CarriedId("grpc1", r.id),
           history |-> CarriedLength("grpc1", m, r.history)]
    BY <1>2, CarriedRequestsAre
  <2>. HIDE DEF H
  <2>. QED  BY <1>0, <2>1, <2>2, <2>4, <2>5
<1>3. CASE m = "ListTasks" /\ IsListTasksRequest(r)
  <2>. DEFINE H == V1!toProtoHistoryLength(r.history)
              S == toProtoTaskState(r.status)
              n == int32(r.pageSize)
              sent == [tenant |-> t, contextId |-> r.context, status |-> S, pageSize |-> n,
                       pageToken |-> r.pageToken, statusTimestampAfter |-> r.after,
                       includeArtifacts |-> r.artifacts, historyLength |-> H]
              a == CASE "grpc1" \in {"rpc1", "rest1"} -> jsonTimestamp(r.after)
                     [] "grpc1" = "rest0" /\ r.after # Nil -> r.after - (r.after % Second)
                     [] OTHER -> r.after
  <2>0. \A x : V1!int32(x) = int32(x)
    BY DEF V1!int32, int32
  <2>1. w = sent
    BY <1>3, <2>0, WireOfV1 DEF grpc1Request, Sends, V1!ToProtoListTasksRequest
  <2>2. grpc1Received(m, sent) =
          [tenant |-> t, context |-> r.context, status |-> fromProtoTaskState(S), pageSize |-> n,
           pageToken |-> r.pageToken, after |-> r.after, artifacts |-> r.artifacts,
           history |-> V1!fromProtoHistoryLength(H)]
    <3>. HIDE DEF H, S, n
    <3>. QED  BY <1>3, WireOfV1 DEF grpc1Received, Sends, V1!FromProtoListTasksRequest
  <2>3. IsNumber(r.history) /\ r.status \in TaskStates \cup {""}
    BY <1>3 DEF IsListTasksRequest
  <2>4. V1!fromProtoHistoryLength(H) = CarriedLength("grpc1", "ListTasks", r.history)
    BY <2>3, LengthsCross
  <2>5. fromProtoTaskState(S) = r.status
    BY <2>3, EnumsCross
  <2>6. a = r.after
    OBVIOUS
  <2>7. CarriedRequest("grpc1", "ListTasks", r) =
          [tenant |-> CarriedTenant("grpc1", t), context |-> r.context, status |-> r.status,
           pageSize |-> IF "grpc1" \in {"grpc1", "grpc0"} THEN n ELSE r.pageSize,
           pageToken |-> r.pageToken, after |-> a, artifacts |-> r.artifacts,
           history |-> CarriedLength("grpc1", "ListTasks", r.history)]
    BY <1>3, CarriedListTasksIs
  <2>. HIDE DEF H, S, n, a
  <2>8. CarriedRequest("grpc1", "ListTasks", r) =
          [tenant |-> t, context |-> r.context, status |-> r.status, pageSize |-> n,
           pageToken |-> r.pageToken, after |-> r.after, artifacts |-> r.artifacts,
           history |-> CarriedLength("grpc1", "ListTasks", r.history)]
    BY <1>0, <2>6, <2>7
  <2>. QED  BY <1>3, <2>1, <2>2, <2>4, <2>5, <2>8
<1>4. CASE m = "CancelTask" /\ IsCancelTaskRequest(r)
  <2>. DEFINE D == toProtoMap(r.metadata)
              sent == [tenant |-> t, id |-> r.id, metadata |-> D]
  <2>1. w = Struct(sent)
    BY <1>4, WireOfV1 DEF grpc1Request, Sends, V1!ToProtoCancelTaskRequest
  <2>2. Struct(sent) = sent /\ D # Err
    <3>. HIDE DEF D
    <3>. QED  BY <2>1, Converted
  <2>3. grpc1Received(m, sent) \in {Err, sent}
    <3>. HIDE DEF D
    <3>. QED  BY <1>4, WireOfV1 DEF grpc1Received, Sends, V1!FromProtoCancelTaskRequest, V1!Require
  <2>4. IsMap(r.metadata)
    BY <1>4 DEF IsCancelTaskRequest
  <2>5. D = CarriedMap("grpc1", r.metadata)
    BY <2>2, <2>4, MapCrosses DEF HTTP
  <2>6. CarriedRequest("grpc1", m, r) =
          [tenant |-> CarriedTenant("grpc1", t), id |-> CarriedId("grpc1", r.id),
           metadata |-> IF "grpc1" \in {"grpc0", "rest0"} THEN Nil ELSE CarriedMap("grpc1", r.metadata)]
    BY <1>4, CarriedRequestsAre
  <2>. HIDE DEF D
  <2>. QED  BY <1>0, <2>1, <2>2, <2>3, <2>5, <2>6
<1>5. CASE m = "SubscribeToTask" /\ IsSubscribeToTaskRequest(r)
  <2>1. w = [tenant |-> t, id |-> r.id]
    BY <1>5 DEF grpc1Request, Sends, V1!ToProtoSubscribeToTaskRequest
  <2>2. grpc1Received(m, w) \in {Err, [tenant |-> t, id |-> r.id]}
    BY <1>5, <2>1 DEF grpc1Received, Sends, V1!FromProtoSubscribeToTaskRequest, V1!Require
  <2>3. CarriedRequest("grpc1", m, r) = [tenant |-> CarriedTenant("grpc1", t), id |-> CarriedId("grpc1", r.id)]
    BY <1>5, CarriedRequestsAre
  <2>. QED  BY <1>0, <2>2, <2>3
<1>6. CASE m = "CreateTaskPushConfig" /\ IsPushConfig(r)
  <2>1. w = V1!ToProtoTaskPushConfig(r)
    BY <1>6 DEF grpc1Request, Sends
  <2>2. grpc1Received(m, w) = V1!FromProtoTaskPushConfig(w)
    BY <1>6 DEF grpc1Received, Sends
  <2>3. grpc1Received(m, w) = r
    BY <1>6, <2>1, <2>2, PushOfV1, PushConfigsArePushes
  <2>4. CarriedRequest("grpc1", m, r) =
          [tenant |-> CarriedTenant("grpc1", r.tenant), task |-> CarriedId("grpc1", r.task),
           id |-> r.id, url |-> r.url, token |-> r.token, auth |-> r.auth]
    BY <1>6, CarriedRequestsAre
  <2>5. r = [tenant |-> r.tenant, task |-> r.task, id |-> r.id, url |-> r.url, token |-> r.token,
             auth |-> r.auth]
    BY <1>6, PushIs, PushConfigsArePushes
  <2>. QED  BY <1>0, <2>3, <2>4, <2>5
<1>7. CASE m \in {"GetTaskPushConfig", "DeleteTaskPushConfig"} /\ IsPushConfigRequest(r)
  <2>1. w = [tenant |-> t, taskId |-> r.task, id |-> r.id]
    BY <1>7 DEF grpc1Request, Sends, V1!ToProtoGetTaskPushConfigRequest,
                V1!ToProtoDeleteTaskPushConfigRequest
  <2>2. grpc1Received(m, w) \in {Err, [tenant |-> t, task |-> r.task, id |-> r.id]}
    <3>. HIDE DEF w
    <3>1. CASE m = "GetTaskPushConfig"
      BY <2>1, <3>1 DEF grpc1Received, Sends, V1!FromProtoGetTaskPushConfigRequest, V1!Require
    <3>2. CASE m = "DeleteTaskPushConfig"
      BY <2>1, <3>2 DEF grpc1Received, Sends, V1!FromProtoDeleteTaskPushConfigRequest, V1!Require
    <3>. QED  BY <1>7, <3>1, <3>2
  <2>3. CarriedRequest("grpc1", m, r) =
          [tenant |-> CarriedTenant("grpc1", t), task |-> CarriedId("grpc1", r.task),
           id |-> CarriedId("grpc1", r.id)]
    BY <1>7, CarriedRequestsAre
  <2>. QED  BY <1>0, <2>2, <2>3
<1>8. CASE m = "ListTaskPushConfigs" /\ IsListTaskPushConfigRequest(r)
  <2>. DEFINE n == int32(r.pageSize)
              k == CASE "grpc1" \in {"grpc1", "grpc0"} -> n
                     [] "grpc1" = "rpc1" -> r.pageSize
                     [] OTHER -> 0
  <2>0. \A x : V1!int32(x) = int32(x)
    BY DEF V1!int32, int32
  <2>1. w = [tenant |-> t, taskId |-> r.task, pageSize |-> n, pageToken |-> r.pageToken]
    BY <1>8, <2>0 DEF grpc1Request, Sends, V1!ToProtoListTaskPushConfigRequest
  <2>2. grpc1Received(m, w) \in
          {Err, [tenant |-> t, task |-> r.task, pageSize |-> n, pageToken |-> r.pageToken]}
    <3>. HIDE DEF n, w
    <3>. QED  BY <1>8, <2>1 DEF grpc1Received, Sends, V1!FromProtoListTaskPushConfigRequest, V1!Require
  <2>3. CarriedRequest("grpc1", m, r) =
          [tenant |-> CarriedTenant("grpc1", t), task |-> CarriedId("grpc1", r.task), pageSize |-> k,
           pageToken |-> IF "grpc1" \in {"grpc1", "grpc0", "rpc1"} THEN r.pageToken ELSE ""]
    BY <1>8, CarriedListPushIs
  <2>4. k = n
    OBVIOUS
  <2>. HIDE DEF k, n
  <2>. QED  BY <1>0, <2>2, <2>3, <2>4
<1>9. CASE m = "GetExtendedAgentCard" /\ IsGetExtendedAgentCardRequest(r)
  <2>1. w = [tenant |-> t]
    BY <1>9 DEF grpc1Request, Sends, V1!ToProtoGetExtendedAgentCardRequest
  <2>2. grpc1Received(m, w) = [tenant |-> t]
    BY <1>9, <2>1 DEF grpc1Received, Sends, V1!FromProtoGetExtendedAgentCardRequest
  <2>3. CarriedRequest("grpc1", m, r) = [tenant |-> CarriedTenant("grpc1", t)]
    BY <1>9, CarriedRequestsAre
  <2>. QED  BY <1>0, <2>2, <2>3
<1>. QED  BY <1>1, <1>2, <1>3, <1>4, <1>5, <1>6, <1>7, <1>8, <1>9, RequestFields

-----------------------------------------------------------------------------
(* gRPC, version 0.3 *)

\* A request of any method that crosses gRPC of version 0.3.
LEMMA RequestOfV0 ==
    ASSUME NotAFunction(Nil), NotAFunction(Err), NEW m \in Methods, NEW r, IsRequest(m, r),
           grpc0Request(m, r) # Err, grpc0Received(m, grpc0Request(m, r)) # Err
    PROVE  grpc0Received(m, grpc0Request(m, r)) = CarriedRequest("grpc0", m, r)
<1>. DEFINE w == grpc0Request(m, r)
<1>0. /\ \A x : CarriedTenant("grpc0", x) = "" /\ CarriedId("grpc0", x) = V0!Segment(x)
      /\ "grpc0" \in {"grpc1", "grpc0"} /\ "grpc0" \in {"grpc0", "rest0"}
  BY DEF CarriedTenant, CarriedId, Legacy
<1>a. \A x : V0!ExtractTaskID(V0!MakeTaskName(x)) \in {Err, V0!Segment(x)}
  BY DEF V0!ExtractTaskID, V0!MakeTaskName, V0!Require
<1>b. \A x, y : /\ V0!ExtractTaskID(V0!MakeConfigName(x, y)) \in {Err, V0!Segment(x)}
                /\ V0!ExtractConfigID(V0!MakeConfigName(x, y)) \in {Err, V0!Segment(y)}
  BY DEF V0!ExtractTaskID, V0!ExtractConfigID, V0!MakeConfigName, V0!Require
<1>c. \A x : V0!int32(x) = int32(x)
  BY DEF V0!int32, int32
<1>1. CASE Sends(m) /\ IsSendRequest(r)
  <2>1. w = V0!ToProtoSendMessageRequest(r)
    BY <1>1 DEF grpc0Request, Sends
  <2>2. grpc0Received(m, w) \in {Err, V0!FromProtoSendMessageRequest(w)}
    <3>. HIDE DEF w
    <3>. QED  BY <1>1 DEF grpc0Received, Sends, Require
  <2>. QED  BY <1>1, <2>1, <2>2, SendOfV0
<1>2. CASE m = "GetTask" /\ IsGetTaskRequest(r)
  <2>. DEFINE H == V0!toProtoHistoryLength(r.history)
              N == V0!MakeTaskName(r.id)
              T == V0!ExtractTaskID(N)
              read == [tenant |-> "", id |-> T, history |-> V0!fromProtoHistoryLength(H)]
  <2>1. w = [name |-> N, historyLength |-> H]
    BY <1>2 DEF grpc0Request, Sends, V0!ToProtoGetTaskRequest
  <2>2. grpc0Received(m, w) = Struct(read)
    <3>. HIDE DEF H, N, w
    <3>. QED  BY <1>2, <2>1, WireOfV0 DEF grpc0Received, Sends, V0!FromProtoGetTaskRequest
  <2>3. Struct(read) = read /\ T # Err
    <3>1. Struct(read) # Err
      <4>. HIDE DEF read
      <4>. QED  BY <2>2
    <3>2. \A f \in DOMAIN read : read[f] # Err
      <4>. HIDE DEF read
      <4>. QED  BY <3>1, Converted
    <3>3. Struct(read) = read
      <4>. HIDE DEF read
      <4>. QED  BY <3>1, Converted
    <3>. HIDE DEF H, T
    <3>. QED  BY <3>2, <3>3
  <2>4. T = V0!Segment(r.id)
    BY <1>a, <2>3
  <2>5. V0!fromProtoHistoryLength(H) = CarriedLength("grpc0", m, r.history)
    <3>1. IsNumber(r.history)
      BY <1>2 DEF IsGetTaskRequest
    <3>. QED  BY <3>1, LengthsCross
  <2>6. CarriedRequest("grpc0", m, r) =
          [tenant |-> CarriedTenant("grpc0", r.tenant), id |-> CarriedId("grpc0", r.id),
           history |-> CarriedLength("grpc0", m, r.history)]
    BY <1>2, CarriedRequestsAre
  <2>. HIDE DEF H, T
  <2>. QED  BY <1>0, <2>2, <2>3, <2>4, <2>5, <2>6
<1>3. CASE m = "ListTasks" /\ IsListTasksRequest(r)
  <2>. DEFINE H == V0!toProtoHistoryLength(r.history)
              S == toProtoTaskState(r.status)
              n == int32(r.pageSize)
              a == CASE "grpc0" \in {"rpc1", "rest1"} -> jsonTimestamp(r.after)
                     [] "grpc0" = "rest0" /\ r.after # Nil -> r.after - (r.after % Second)
                     [] OTHER -> r.after
  <2>1. w = [contextId |-> r.context, status |-> S, pageSize |-> n,
             pageToken |-> r.pageToken, lastUpdatedTime |-> r.after,
             includeArtifacts |-> r.artifacts, historyLength |-> H]
    BY <1>3, <1>c, WireOfV0 DEF grpc0Request, Sends, V0!ToProtoListTasksRequest
  <2>2. grpc0Received(m, w) =
          [tenant |-> "", context |-> r.context, status |-> fromProtoTaskState(S), pageSize |-> n,
           pageToken |-> r.pageToken, after |-> r.after, artifacts |-> r.artifacts,
           history |-> V0!fromProtoHistoryLength(H)]
    <3>. HIDE DEF H, S, n, w
    <3>. QED  BY <1>3, <2>1, WireOfV0 DEF grpc0Received, Sends, V0!FromProtoListTasksRequest
  <2>3. IsNumber(r.history) /\ r.status \in TaskStates \cup {""}
    BY <1>3 DEF IsListTasksRequest
  <2>4. V0!fromProtoHistoryLength(H) = CarriedLength("grpc0", "ListTasks", r.history)
    BY <2>3, LengthsCross
  <2>5. fromProtoTaskState(S) = r.status
    BY <2>3, EnumsCross
  <2>6. a = r.after
    OBVIOUS
  <2>7. CarriedRequest("grpc0", "ListTasks", r) =
          [tenant |-> CarriedTenant("grpc0", r.tenant), context |-> r.context, status |-> r.status,
           pageSize |-> IF "grpc0" \in {"grpc1", "grpc0"} THEN n ELSE r.pageSize,
           pageToken |-> r.pageToken, after |-> a, artifacts |-> r.artifacts,
           history |-> CarriedLength("grpc0", "ListTasks", r.history)]
    BY <1>3, CarriedListTasksIs
  <2>. HIDE DEF H, S, n, a
  <2>8. CarriedRequest("grpc0", "ListTasks", r) =
          [tenant |-> "", context |-> r.context, status |-> r.status, pageSize |-> n,
           pageToken |-> r.pageToken, after |-> r.after, artifacts |-> r.artifacts,
           history |-> CarriedLength("grpc0", "ListTasks", r.history)]
    BY <1>0, <2>6, <2>7
  <2>. QED  BY <1>3, <2>2, <2>4, <2>5, <2>8
<1>4. CASE m = "CancelTask" /\ IsCancelTaskRequest(r)
  <2>. DEFINE N == V0!MakeTaskName(r.id)
              T == V0!ExtractTaskID(N)
              read == [tenant |-> "", id |-> T, metadata |-> Nil]
  <2>1. w = [name |-> N]
    BY <1>4 DEF grpc0Request, Sends, V0!ToProtoCancelTaskRequest
  <2>2. grpc0Received(m, w) = Struct(read)
    <3>. HIDE DEF N, w
    <3>. QED  BY <1>4, <2>1, WireOfV0 DEF grpc0Received, Sends, V0!FromProtoCancelTaskRequest
  <2>3. Struct(read) = read /\ T # Err
    <3>1. Struct(read) # Err
      <4>. HIDE DEF read
      <4>. QED  BY <2>2
    <3>2. \A f \in DOMAIN read : read[f] # Err
      <4>. HIDE DEF read
      <4>. QED  BY <3>1, Converted
    <3>3. Struct(read) = read
      <4>. HIDE DEF read
      <4>. QED  BY <3>1, Converted
    <3>. HIDE DEF T
    <3>. QED  BY <3>2, <3>3
  <2>4. T = V0!Segment(r.id)
    BY <1>a, <2>3
  <2>5. CarriedRequest("grpc0", m, r) =
          [tenant |-> CarriedTenant("grpc0", r.tenant), id |-> CarriedId("grpc0", r.id),
           metadata |-> IF "grpc0" \in {"grpc0", "rest0"} THEN Nil ELSE CarriedMap("grpc0", r.metadata)]
    BY <1>4, CarriedRequestsAre
  <2>. HIDE DEF T
  <2>. QED  BY <1>0, <2>2, <2>3, <2>4, <2>5
<1>5. CASE m = "SubscribeToTask" /\ IsSubscribeToTaskRequest(r)
  <2>. DEFINE N == V0!MakeTaskName(r.id)
              T == V0!ExtractTaskID(N)
              read == [tenant |-> "", id |-> T]
  <2>1. w = [name |-> N]
    BY <1>5 DEF grpc0Request, Sends, V0!ToProtoTaskSubscriptionRequest
  <2>2. grpc0Received(m, w) = Struct(read)
    <3>. HIDE DEF N, w
    <3>. QED  BY <1>5, <2>1, WireOfV0 DEF grpc0Received, Sends, V0!FromProtoTaskSubscriptionRequest
  <2>3. Struct(read) = read /\ T # Err
    <3>1. Struct(read) # Err
      <4>. HIDE DEF read
      <4>. QED  BY <2>2
    <3>2. \A f \in DOMAIN read : read[f] # Err
      <4>. HIDE DEF read
      <4>. QED  BY <3>1, Converted
    <3>3. Struct(read) = read
      <4>. HIDE DEF read
      <4>. QED  BY <3>1, Converted
    <3>. HIDE DEF T
    <3>. QED  BY <3>2, <3>3
  <2>4. T = V0!Segment(r.id)
    BY <1>a, <2>3
  <2>5. CarriedRequest("grpc0", m, r) =
          [tenant |-> CarriedTenant("grpc0", r.tenant), id |-> CarriedId("grpc0", r.id)]
    BY <1>5, CarriedRequestsAre
  <2>. HIDE DEF T
  <2>. QED  BY <1>0, <2>2, <2>3, <2>4, <2>5
<1>6. CASE m = "CreateTaskPushConfig" /\ IsPushConfig(r)
  <2>. DEFINE N == V0!MakeTaskName(r.task)
              T == V0!ExtractTaskID(N)
              P == V0!toProtoPushConfig(r)
              Q == V0!fromProtoPushConfig(P)
              read == [Q EXCEPT !.task = T]
  <2>1. w = [parent |-> N, configId |-> r.id, config |-> P]
    BY <1>6 DEF grpc0Request, Sends, V0!ToProtoCreateTaskPushConfigRequest
  <2>2. grpc0Received(m, w) = Struct(read)
    <3>. HIDE DEF N, P, w
    <3>. QED  BY <1>6, <2>1, WireOfV0 DEF grpc0Received, Sends, V0!FromProtoCreateTaskPushConfigRequest
  <2>3. Q = [tenant |-> "", task |-> "", id |-> r.id, url |-> r.url, token |-> r.token, auth |-> r.auth]
    <3>1. Q = CarriedPush("grpc0", r, "")
      BY <1>6, PushOfV0, PushConfigsArePushes
    <3>. QED  BY <1>6, <3>1, PushIs, PushConfigsArePushes DEF CarriedPush, Legacy
  <2>4. read = [tenant |-> "", task |-> T, id |-> r.id, url |-> r.url, token |-> r.token, auth |-> r.auth]
    <3>1. read = [Q EXCEPT !.task = T]
      OBVIOUS
    <3>. HIDE DEF Q, T, read
    <3>. QED  BY <2>3, <3>1
  <2>5. Struct(read) = read /\ \A f \in DOMAIN read : read[f] # Err
    <3>. HIDE DEF read
    <3>. QED  BY <2>2, Converted
  <2>6. T # Err
    <3>. HIDE DEF read, T
    <3>. QED  BY <2>4, <2>5
  <2>7. T = V0!Segment(r.task)
    BY <1>a, <2>6
  <2>8. CarriedRequest("grpc0", m, r) =
          [tenant |-> CarriedTenant("grpc0", r.tenant), task |-> CarriedId("grpc0", r.task),
           id |-> r.id, url |-> r.url, token |-> r.token, auth |-> r.auth]
    BY <1>6, CarriedRequestsAre
  <2>. HIDE DEF T, read
  <2>. QED  BY <1>0, <2>2, <2>4, <2>5, <2>7, <2>8
<1>7. CASE m \in {"GetTaskPushConfig", "DeleteTaskPushConfig"} /\ IsPushConfigRequest(r)
  <2>. DEFINE N == V0!MakeConfigName(r.task, r.id)
              T == V0!ExtractTaskID(N)
              C == V0!ExtractConfigID(N)
              read == [tenant |-> "", task |-> T, id |-> C]
  <2>1. w = [name |-> N]
    BY <1>7 DEF grpc0Request, Sends, V0!ToProtoGetTaskPushConfigRequest,
                V0!ToProtoDeleteTaskPushConfigRequest
  <2>2. grpc0Received(m, w) = Struct(read)
    <3>. HIDE DEF N, w
    <3>1. CASE m = "GetTaskPushConfig"
      BY <2>1, <3>1, WireOfV0 DEF grpc0Received, Sends, V0!FromProtoGetTaskPushConfigRequest
    <3>2. CASE m = "DeleteTaskPushConfig"
      BY <2>1, <3>2, WireOfV0 DEF grpc0Received, Sends, V0!FromProtoDeleteTaskPushConfigRequest
    <3>. QED  BY <1>7, <3>1, <3>2
  <2>3. Struct(read) = read /\ T # Err /\ C # Err
    <3>1. Struct(read) # Err
      <4>. HIDE DEF read
      <4>. QED  BY <2>2
    <3>2. \A f \in DOMAIN read : read[f] # Err
      <4>. HIDE DEF read
      <4>. QED  BY <3>1, Converted
    <3>3. Struct(read) = read
      <4>. HIDE DEF read
      <4>. QED  BY <3>1, Converted
    <3>. HIDE DEF T, C
    <3>. QED  BY <3>2, <3>3
  <2>4. T = V0!Segment(r.task) /\ C = V0!Segment(r.id)
    BY <1>b, <2>3
  <2>5. CarriedRequest("grpc0", m, r) =
          [tenant |-> CarriedTenant("grpc0", r.tenant), task |-> CarriedId("grpc0", r.task),
           id |-> CarriedId("grpc0", r.id)]
    BY <1>7, CarriedRequestsAre
  <2>. HIDE DEF T, C
  <2>. QED  BY <1>0, <2>2, <2>3, <2>4, <2>5
<1>8. CASE m = "ListTaskPushConfigs" /\ IsListTaskPushConfigRequest(r)
  <2>. DEFINE N == V0!MakeTaskName(r.task)
              T == V0!ExtractTaskID(N)
              n == int32(r.pageSize)
              k == CASE "grpc0" \in {"grpc1", "grpc0"} -> n
                     [] "grpc0" = "rpc1" -> r.pageSize
                     [] OTHER -> 0
              read == [tenant |-> "", task |-> T, pageSize |-> n, pageToken |-> r.pageToken]
  <2>1. w = [parent |-> N, pageSize |-> n, pageToken |-> r.pageToken]
    BY <1>8, <1>c DEF grpc0Request, Sends, V0!ToProtoListTaskPushConfigRequest
  <2>2. grpc0Received(m, w) = Struct(read)
    <3>. HIDE DEF N, n, w
    <3>. QED  BY <1>8, <2>1, WireOfV0 DEF grpc0Received, Sends, V0!FromProtoListTaskPushConfigRequest
  <2>3. Struct(read) = read /\ T # Err
    <3>1. Struct(read) # Err
      <4>. HIDE DEF read
      <4>. QED  BY <2>2
    <3>2. \A f \in DOMAIN read : read[f] # Err
      <4>. HIDE DEF read
      <4>. QED  BY <3>1, Converted
    <3>3. Struct(read) = read
      <4>. HIDE DEF read
      <4>. QED  BY <3>1, Converted
    <3>. HIDE DEF T, n
    <3>. QED  BY <3>2, <3>3
  <2>4. T = V0!Segment(r.task)
    BY <1>a, <2>3
  <2>5. CarriedRequest("grpc0", m, r) =
          [tenant |-> CarriedTenant("grpc0", r.tenant), task |-> CarriedId("grpc0", r.task),
           pageSize |-> k,
           pageToken |-> IF "grpc0" \in {"grpc1", "grpc0", "rpc1"} THEN r.pageToken ELSE ""]
    BY <1>8, CarriedListPushIs
  <2>6. k = n
    OBVIOUS
  <2>. HIDE DEF k, n, T
  <2>. QED  BY <1>0, <2>2, <2>3, <2>4, <2>5, <2>6
<1>9. CASE m = "GetExtendedAgentCard" /\ IsGetExtendedAgentCardRequest(r)
  <2>1. grpc0Received(m, w) = [tenant |-> ""]
    BY <1>9 DEF grpc0Received, Sends, V0!FromProtoGetAgentCardRequest
  <2>2. CarriedRequest("grpc0", m, r) = [tenant |-> CarriedTenant("grpc0", r.tenant)]
    BY <1>9, CarriedRequestsAre
  <2>. QED  BY <1>0, <2>1, <2>2
<1>. QED  BY <1>1, <1>2, <1>3, <1>4, <1>5, <1>6, <1>7, <1>8, <1>9, RequestFields

-----------------------------------------------------------------------------
(* JSON-RPC, version 0.3 *)

\* A request of any method that crosses JSON-RPC of version 0.3.
LEMMA RequestOfC0 ==
    ASSUME NotAFunction(Nil), NotAFunction(Err), NEW m \in Methods \ {"ListTasks"}, NEW r,
           IsRequest(m, r), rpc0Request(m, r) # Err,
           Sends(m) => \/ r.message # Nil \/ r.config = Nil \/ r.config.push = Nil
    PROVE  rpc0Received(m, rpc0Request(m, r)) = CarriedRequest("rpc0", m, r)
<1>. DEFINE w == rpc0Request(m, r)
<1>0. /\ \A x : CarriedTenant("rpc0", x) = "" /\ CarriedId("rpc0", x) = x
      /\ "rpc0" \notin {"grpc0", "rest0"}
  BY DEF CarriedTenant, CarriedId, Legacy
<1>1. CASE Sends(m) /\ IsSendRequest(r)
  <2>1. w = C0!FromV1SendMessageRequest(r)
    BY <1>1 DEF rpc0Request, Sends
  <2>2. rpc0Received(m, w) = C0!ToV1SendMessageRequest(w)
    BY <1>1 DEF rpc0Received, Sends
  <2>. QED  BY <1>1, <2>1, <2>2, SendOfC0
<1>2. CASE m = "GetTask" /\ IsGetTaskRequest(r)
  <2>1. w = [id |-> r.id, historyLength |-> r.history]
    BY <1>2 DEF rpc0Request, Sends, C0!FromV1GetTaskRequest
  <2>2. rpc0Received(m, w) = [tenant |-> "", id |-> r.id, history |-> r.history]
    <3>. HIDE DEF w
    <3>. QED  BY <1>2, <2>1 DEF rpc0Received, Sends, C0!ToV1GetTaskRequest
  <2>3. CarriedLength("rpc0", m, r.history) = r.history
    <3>1. IsNumber(r.history)
      BY <1>2 DEF IsGetTaskRequest
    <3>. QED  BY <3>1, LengthsCross
  <2>4. CarriedRequest("rpc0", m, r) =
          [tenant |-> CarriedTenant("rpc0", r.tenant), id |-> CarriedId("rpc0", r.id),
           history |-> CarriedLength("rpc0", m, r.history)]
    BY <1>2, CarriedRequestsAre
  <2>. QED  BY <1>0, <2>2, <2>3, <2>4
<1>4. CASE m = "CancelTask" /\ IsCancelTaskRequest(r)
  <2>. DEFINE D == jsonMap(r.metadata)
              sent == [id |-> r.id, metadata |-> D]
  <2>1. w = Struct(sent)
    BY <1>4, WireOfC0 DEF rpc0Request, Sends, C0!FromV1CancelTaskRequest
  <2>2. Struct(sent) # Err
    <3>. HIDE DEF sent
    <3>. QED  BY <2>1
  <2>3. Struct(sent) = sent /\ D # Err
    <3>. HIDE DEF D
    <3>. QED  BY <2>2, Converted
  <2>4. rpc0Received(m, sent) = [tenant |-> "", id |-> r.id, metadata |-> D]
    <3>. HIDE DEF D
    <3>. QED  BY <1>4 DEF rpc0Received, Sends, C0!ToV1CancelTaskRequest
  <2>5. D = CarriedMap("rpc0", r.metadata)
    <3>1. IsMap(r.metadata)
      BY <1>4 DEF IsCancelTaskRequest
    <3>. QED  BY <2>3, <3>1, MapCrosses DEF HTTP, Bindings
  <2>6. CarriedRequest("rpc0", m, r) =
          [tenant |-> CarriedTenant("rpc0", r.tenant), id |-> CarriedId("rpc0", r.id),
           metadata |-> IF "rpc0" \in {"grpc0", "rest0"} THEN Nil ELSE CarriedMap("rpc0", r.metadata)]
    BY <1>4, CarriedRequestsAre
  <2>. HIDE DEF D, sent
  <2>. QED  BY <1>0, <2>1, <2>3, <2>4, <2>5, <2>6
<1>5. CASE m = "SubscribeToTask" /\ IsSubscribeToTaskRequest(r)
  <2>1. w = [id |-> r.id]
    BY <1>5 DEF rpc0Request, Sends, C0!FromV1SubscribeToTaskRequest
  <2>2. rpc0Received(m, w) = [tenant |-> "", id |-> r.id]
    <3>. HIDE DEF w
    <3>. QED  BY <1>5, <2>1 DEF rpc0Received, Sends, C0!ToV1SubscribeToTaskRequest
  <2>3. CarriedRequest("rpc0", m, r) =
          [tenant |-> CarriedTenant("rpc0", r.tenant), id |-> CarriedId("rpc0", r.id)]
    BY <1>5, CarriedRequestsAre
  <2>. QED  BY <1>0, <2>2, <2>3
<1>6. CASE m = "CreateTaskPushConfig" /\ IsPushConfig(r)
  <2>. DEFINE C == C0!FromV1PushConfig(r).config
  <2>1. w = [taskId |-> r.task, config |-> C]
    <3>1. w = C0!FromV1PushConfig(r)
      BY <1>6 DEF rpc0Request, Sends
    <3>. QED  BY <1>6, <3>1, PushOfC0, PushConfigsArePushes
  <2>2. rpc0Received(m, w) = C0!ToV1PushConfig(w)
    BY <1>6 DEF rpc0Received, Sends
  <2>3. C0!ToV1PushConfig([taskId |-> r.task, config |-> C]) = CarriedPush("rpc0", r, r.task)
    BY <1>6, PushOfC0, PushConfigsArePushes
  <2>4. CarriedPush("rpc0", r, r.task) =
          [tenant |-> "", task |-> r.task, id |-> r.id, url |-> r.url, token |-> r.token,
           auth |-> r.auth]
    BY <1>6, PushIs, PushConfigsArePushes DEF CarriedPush, Legacy
  <2>5. CarriedRequest("rpc0", m, r) =
          [tenant |-> CarriedTenant("rpc0", r.tenant), task |-> CarriedId("rpc0", r.task),
           id |-> r.id, url |-> r.url, token |-> r.token, auth |-> r.auth]
    BY <1>6, CarriedRequestsAre
  <2>. HIDE DEF C
  <2>. QED  BY <1>0, <2>1, <2>2, <2>3, <2>4, <2>5
<1>7. CASE m \in {"GetTaskPushConfig", "DeleteTaskPushConfig"} /\ IsPushConfigRequest(r)
  <2>1. w = [taskId |-> r.task, configId |-> r.id]
    BY <1>7 DEF rpc0Request, Sends, C0!FromV1GetTaskPushConfigRequest,
                C0!FromV1DeleteTaskPushConfigRequest
  <2>2. rpc0Received(m, w) = [tenant |-> "", task |-> r.task, id |-> r.id]
    <3>. HIDE DEF w
    <3>1. CASE m = "GetTaskPushConfig"
      BY <2>1, <3>1 DEF rpc0Received, Sends, C0!ToV1GetTaskPushConfigRequest
    <3>2. CASE m = "DeleteTaskPushConfig"
      BY <2>1, <3>2 DEF rpc0Received, Sends, C0!ToV1DeleteTaskPushConfigRequest
    <3>. QED  BY <1>7, <3>1, <3>2
  <2>3. CarriedRequest("rpc0", m, r) =
          [tenant |-> CarriedTenant("rpc0", r.tenant), task |-> CarriedId("rpc0", r.task),
           id |-> CarriedId("rpc0", r.id)]
    BY <1>7, CarriedRequestsAre
  <2>. QED  BY <1>0, <2>2, <2>3
<1>8. CASE m = "ListTaskPushConfigs" /\ IsListTaskPushConfigRequest(r)
  <2>. DEFINE k == CASE "rpc0" \in {"grpc1", "grpc0"} -> int32(r.pageSize)
                     [] "rpc0" = "rpc1" -> r.pageSize
                     [] OTHER -> 0
              p == IF "rpc0" \in {"grpc1", "grpc0", "rpc1"} THEN r.pageToken ELSE ""
  <2>1. w = [taskId |-> r.task]
    BY <1>8 DEF rpc0Request, Sends, C0!FromV1ListTaskPushConfigRequest
  <2>2. rpc0Received(m, w) = [tenant |-> "", task |-> r.task, pageSize |-> 0, pageToken |-> ""]
    <3>. HIDE DEF w
    <3>. QED  BY <1>8, <2>1 DEF rpc0Received, Sends, C0!ToV1ListTaskPushConfigRequest
  <2>3. CarriedRequest("rpc0", m, r) =
          [tenant |-> CarriedTenant("rpc0", r.tenant), task |-> CarriedId("rpc0", r.task),
           pageSize |-> k, pageToken |-> p]
    BY <1>8, CarriedListPushIs
  <2>4. k = 0 /\ p = ""
    OBVIOUS
  <2>. HIDE DEF k, p
  <2>. QED  BY <1>0, <2>2, <2>3, <2>4
<1>9. CASE m = "GetExtendedAgentCard" /\ IsGetExtendedAgentCardRequest(r)
  <2>1. rpc0Received(m, w) = [tenant |-> ""]
    BY <1>9 DEF rpc0Received, Sends
  <2>2. CarriedRequest("rpc0", m, r) = [tenant |-> CarriedTenant("rpc0", r.tenant)]
    BY <1>9, CarriedRequestsAre
  <2>. QED  BY <1>0, <2>1, <2>2
<1>. QED  BY <1>1, <1>2, <1>4, <1>5, <1>6, <1>7, <1>8, <1>9, RequestFields

-----------------------------------------------------------------------------
(* HTTP+JSON, version 0.3 *)

\* A request of any method that crosses HTTP+JSON of version 0.3.
LEMMA RequestOfP0 ==
    ASSUME NotAFunction(Nil), NotAFunction(Err), NEW m \in Methods, NEW r, IsRequest(m, r),
           rest0Request(m, r) # Err, rest0Received(m, rest0Request(m, r)) # Err
    PROVE  rest0Received(m, rest0Request(m, r)) = CarriedRequest("rest0", m, r)
<1>. DEFINE w == rest0Request(m, r)
<1>0. /\ \A x : CarriedTenant("rest0", x) = "" /\ CarriedId("rest0", x) = x
      /\ "rest0" \in {"grpc0", "rest0"}
  BY DEF CarriedTenant, CarriedId, Legacy
<1>1. CASE Sends(m) /\ IsSendRequest(r)
  <2>1. w = P0!ToProtoSendMessageRequest(r)
    BY <1>1 DEF rest0Request, Sends
  <2>2. rest0Received(m, w) = P0!FromProtoSendMessageRequest(w)
    BY <1>1 DEF rest0Received, Sends
  <2>. QED  BY <1>1, <2>1, <2>2, SendOfP0
<1>2. CASE m = "GetTask" /\ IsGetTaskRequest(r)
  <2>1. w = r
    BY <1>2 DEF rest0Request, Sends
  <2>2. rest0Received(m, w) \in {Err, [tenant |-> "", id |-> r.id, history |-> r.history]}
    BY <1>2, <2>1 DEF rest0Received, Sends, Require
  <2>3. CarriedLength("rest0", m, r.history) = r.history
    <3>1. IsNumber(r.history) /\ ~Sends(m)
      BY <1>2 DEF IsGetTaskRequest, Sends
    <3>. QED  BY <3>1, LengthsCross
  <2>4. CarriedRequest("rest0", m, r) =
          [tenant |-> CarriedTenant("rest0", r.tenant), id |-> CarriedId("rest0", r.id),
           history |-> CarriedLength("rest0", m, r.history)]
    BY <1>2, CarriedRequestsAre
  <2>. QED  BY <1>0, <2>2, <2>3, <2>4
<1>3. CASE m = "ListTasks" /\ IsListTasksRequest(r)
  <2>. DEFINE s == IF r.status = "" THEN "" ELSE P0!EncodeTaskState(r.status)
              u == P0!DecodeTaskState(s)
              e == IF r.after = Nil THEN Nil ELSE r.after - (r.after % Second)
              a == CASE "rest0" \in {"rpc1", "rest1"} -> jsonTimestamp(r.after)
                     [] "rest0" = "rest0" /\ r.after # Nil -> r.after - (r.after % Second)
                     [] OTHER -> r.after
              r1 == [r EXCEPT !.status = s]
              r2 == [r1 EXCEPT !.after = e]
              x1 == [r2 EXCEPT !.tenant = ""]
              x2 == [x1 EXCEPT !.status = u]
  <2>1. r = [tenant |-> r.tenant, context |-> r.context, status |-> r.status,
             pageSize |-> r.pageSize, pageToken |-> r.pageToken, after |-> r.after,
             artifacts |-> r.artifacts, history |-> r.history]
    BY <1>3 DEF IsListTasksRequest
  <2>2. w = r2
    <3>1. w = [r EXCEPT !.status = s, !.after = e]
      BY <1>3 DEF rest0Request, Sends, Opt
    <3>. QED  BY <3>1
  <2>3. r2 = [tenant |-> r.tenant, context |-> r.context, status |-> s,
              pageSize |-> r.pageSize, pageToken |-> r.pageToken, after |-> e,
              artifacts |-> r.artifacts, history |-> r.history]
    <3>. HIDE DEF s, e
    <3>1. r1 = [tenant |-> r.tenant, context |-> r.context, status |-> s,
                pageSize |-> r.pageSize, pageToken |-> r.pageToken, after |-> r.after,
                artifacts |-> r.artifacts, history |-> r.history]
      BY <2>1
    <3>2. r2 = [r1 EXCEPT !.after = e]
      OBVIOUS
    <3>. HIDE DEF r1, r2
    <3>. QED  BY <3>1, <3>2
  <2>4. r2.status = s
    <3>. HIDE DEF r2, s, e
    <3>. QED  BY <2>3
  <2>5. rest0Received(m, r2) = x2
    <3>1. rest0Received(m, r2) = [r2 EXCEPT !.tenant = "", !.status = P0!DecodeTaskState(r2.status)]
      <4>. HIDE DEF r2
      <4>. QED  BY <1>3 DEF rest0Received, Sends
    <3>2. [r2 EXCEPT !.tenant = "", !.status = u] = x2
      <4>. HIDE DEF r2, u
      <4>. QED  OBVIOUS
    <3>. HIDE DEF r2, x2, s
    <3>. QED  BY <2>4, <3>1, <3>2
  <2>6. x2 = [tenant |-> "", context |-> r.context, status |-> u,
              pageSize |-> r.pageSize, pageToken |-> r.pageToken, after |-> e,
              artifacts |-> r.artifacts, history |-> r.history]
    <3>1. x1 = [tenant |-> "", context |-> r.context, status |-> s,
                pageSize |-> r.pageSize, pageToken |-> r.pageToken, after |-> e,
                artifacts |-> r.artifacts, history |-> r.history]
      <4>1. x1 = [r2 EXCEPT !.tenant = ""]
        OBVIOUS
      <4>. HIDE DEF r2, x1, s, e
      <4>. QED  BY <2>3, <4>1
    <3>2. x2 = [x1 EXCEPT !.status = u]
      OBVIOUS
    <3>. HIDE DEF x1, x2, s, e, u
    <3>. QED  BY <3>1, <3>2
  <2>7. IsNumber(r.history) /\ r.status \in TaskStates \cup {""} /\ ~Sends("ListTasks")
    BY <1>3 DEF IsListTasksRequest, Sends
  <2>8. u = r.status
    <3>1. P0!DecodeTaskState("") = ""
      BY DEF P0!DecodeTaskState, P0!fromProtoTaskState, P0!TaskStates
    <3>. QED  BY <2>7, <3>1, WireOfP0
  <2>9. CarriedLength("rest0", "ListTasks", r.history) = r.history
    BY <2>7, LengthsCross
  <2>10. a = e
    BY <1>0
  <2>11. CarriedRequest("rest0", "ListTasks", r) =
           [tenant |-> CarriedTenant("rest0", r.tenant), context |-> r.context, status |-> r.status,
            pageSize |-> IF "rest0" \in {"grpc1", "grpc0"} THEN int32(r.pageSize) ELSE r.pageSize,
            pageToken |-> r.pageToken, after |-> a, artifacts |-> r.artifacts,
            history |-> CarriedLength("rest0", "ListTasks", r.history)]
    BY <1>3, CarriedListTasksIs
  <2>. HIDE DEF a, e, u, x2, r2
  <2>12. CarriedRequest("rest0", "ListTasks", r) =
           [tenant |-> "", context |-> r.context, status |-> r.status, pageSize |-> r.pageSize,
            pageToken |-> r.pageToken, after |-> e, artifacts |-> r.artifacts, history |-> r.history]
    BY <1>0, <2>9, <2>10, <2>11
  <2>. QED  BY <1>3, <2>2, <2>5, <2>6, <2>8, <2>12
<1>4. CASE m = "CancelTask" /\ IsCancelTaskRequest(r)
  <2>1. w = r
    BY <1>4 DEF rest0Request, Sends
  <2>2. rest0Received(m, w) = [tenant |-> "", id |-> r.id, metadata |-> Nil]
    BY <1>4, <2>1 DEF rest0Received, Sends
  <2>3. CarriedRequest("rest0", m, r) =
          [tenant |-> CarriedTenant("rest0", r.tenant), id |-> CarriedId("rest0", r.id),
           metadata |-> IF "rest0" \in {"grpc0", "rest0"} THEN Nil ELSE CarriedMap("rest0", r.metadata)]
    BY <1>4, CarriedRequestsAre
  <2>. QED  BY <1>0, <2>2, <2>3
<1>5. CASE m = "SubscribeToTask" /\ IsSubscribeToTaskRequest(r)
  <2>1. w = r
    BY <1>5 DEF rest0Request, Sends
  <2>2. rest0Received(m, w) = [tenant |-> "", id |-> r.id]
    BY <1>5, <2>1 DEF rest0Received, Sends
  <2>3. CarriedRequest("rest0", m, r) =
          [tenant |-> CarriedTenant("rest0", r.tenant), id |-> CarriedId("rest0", r.id)]
    BY <1>5, CarriedRequestsAre
  <2>. QED  BY <1>0, <2>2, <2>3
<1>6. CASE m = "CreateTaskPushConfig" /\ IsPushConfig(r)
  <2>. DEFINE P == P0!pushNotificationConfigToWire(r)
              Q == P0!pushNotificationConfigFromWire(P)
              name == P0!formatPushConfigResourceName(r.task, r.id)
              x == P0!parsePushConfigResourceName(name)
              body == [parent |-> r.task, configId |-> r.id,
                       config |-> [name |-> name, pushNotificationConfig |-> P]]
              Q1 == [Q EXCEPT !.task = x]
  <2>1. w = [task |-> r.task, body |-> body]
    BY <1>6 DEF rest0Request, Sends, P0!ToProtoCreatePushConfigRequest,
                P0!taskPushNotificationConfigToWire
  <2>2. Q = [tenant |-> "", task |-> "", id |-> r.id, url |-> r.url, token |-> r.token, auth |-> r.auth]
    <3>1. Q = CarriedPush("rest0", r, "")
      BY <1>6, PushOfP0, PushConfigsArePushes
    <3>. QED  BY <1>6, <3>1, PushIs, PushConfigsArePushes DEF CarriedPush, Legacy
  <2>3. Q1 = [tenant |-> "", task |-> x, id |-> r.id, url |-> r.url, token |-> r.token, auth |-> r.auth]
    <3>1. Q1 = [Q EXCEPT !.task = x]
      OBVIOUS
    <3>. HIDE DEF Q, x, Q1
    <3>. QED  BY <2>2, <3>1
  <2>4. P0!taskPushNotificationConfigFromWire(body.config) = Q1
    <3>. HIDE DEF P, name
    <3>. QED  BY DEF P0!taskPushNotificationConfigFromWire
  <2>5. rest0Received(m, w) =
          [Q1 EXCEPT !.task = r.task, !.id = IF Q1.id = "" THEN r.id ELSE Q1.id]
    <3>1. rest0Received(m, w) = P0!FromProtoCreatePushConfigRequest(body, r.task)
      <4>. HIDE DEF w, body
      <4>. QED  BY <1>6, <2>1 DEF rest0Received, Sends
    <3>2. P0!FromProtoCreatePushConfigRequest(body, r.task) =
            [P0!taskPushNotificationConfigFromWire(body.config) EXCEPT
               !.task = r.task, !.id = IF @ = "" THEN body.configId ELSE @]
      <4>. HIDE DEF body
      <4>. QED  BY DEF P0!FromProtoCreatePushConfigRequest
    <3>3. body.configId = r.id
      <4>. HIDE DEF P, name
      <4>. QED  OBVIOUS
    <3>. HIDE DEF w, body, Q1
    <3>. QED  BY <2>4, <3>1, <3>2, <3>3
  <2>6. Q1.id = r.id
    <3>. HIDE DEF Q1, x
    <3>. QED  BY <2>3
  <2>7. rest0Received(m, w) = [Q1 EXCEPT !.task = r.task, !.id = r.id]
    <3>. HIDE DEF Q1, w
    <3>. QED  BY <2>5, <2>6
  <2>8. [Q1 EXCEPT !.task = r.task, !.id = r.id] =
          [tenant |-> "", task |-> r.task, id |-> r.id, url |-> r.url, token |-> r.token,
           auth |-> r.auth]
    <3>. DEFINE y1 == [Q1 EXCEPT !.task = r.task]
                y2 == [y1 EXCEPT !.id = r.id]
    <3>1. [Q1 EXCEPT !.task = r.task, !.id = r.id] = y2
      OBVIOUS
    <3>. HIDE DEF Q1, x
    <3>2. y1 = [tenant |-> "", task |-> r.task, id |-> r.id, url |-> r.url, token |-> r.token,
                auth |-> r.auth]
      <4>1. y1 = [Q1 EXCEPT !.task = r.task]
        OBVIOUS
      <4>. HIDE DEF y1
      <4>. QED  BY <2>3, <4>1
    <3>3. y2 = [tenant |-> "", task |-> r.task, id |-> r.id, url |-> r.url, token |-> r.token,
                auth |-> r.auth]
      <4>1. y2 = [y1 EXCEPT !.id = r.id]
        OBVIOUS
      <4>. HIDE DEF y1, y2
      <4>. QED  BY <3>2, <4>1
    <3>. QED  BY <3>1, <3>3
  <2>9. CarriedRequest("rest0", m, r) =
          [tenant |-> CarriedTenant("rest0", r.tenant), task |-> CarriedId("rest0", r.task),
           id |-> r.id, url |-> r.url, token |-> r.token, auth |-> r.auth]
    BY <1>6, CarriedRequestsAre
  <2>. HIDE DEF Q1
  <2>. QED  BY <1>0, <2>7, <2>8, <2>9
<1>7. CASE m \in {"GetTaskPushConfig", "DeleteTaskPushConfig"} /\ IsPushConfigRequest(r)
  <2>1. w = r
    BY <1>7 DEF rest0Request, Sends
  <2>2. rest0Received(m, w) = [tenant |-> "", task |-> r.task, id |-> r.id]
    BY <1>7, <2>1 DEF rest0Received, Sends
  <2>3. CarriedRequest("rest0", m, r) =
          [tenant |-> CarriedTenant("rest0", r.tenant), task |-> CarriedId("rest0", r.task),
           id |-> CarriedId("rest0", r.id)]
    BY <1>7, CarriedRequestsAre
  <2>. QED  BY <1>0, <2>2, <2>3
<1>8. CASE m = "ListTaskPushConfigs" /\ IsListTaskPushConfigRequest(r)
  <2>. DEFINE k == CASE "rest0" \in {"grpc1", "grpc0"} -> int32(r.pageSize)
                     [] "rest0" = "rpc1" -> r.pageSize
                     [] OTHER -> 0
              p == IF "rest0" \in {"grpc1", "grpc0", "rpc1"} THEN r.pageToken ELSE ""
  <2>1. w = r
    BY <1>8 DEF rest0Request, Sends
  <2>2. rest0Received(m, w) = [tenant |-> "", task |-> r.task, pageSize |-> 0, pageToken |-> ""]
    BY <1>8, <2>1 DEF rest0Received, Sends
  <2>3. CarriedRequest("rest0", m, r) =
          [tenant |-> CarriedTenant("rest0", r.tenant), task |-> CarriedId("rest0", r.task),
           pageSize |-> k, pageToken |-> p]
    BY <1>8, CarriedListPushIs
  <2>4. k = 0 /\ p = ""
    OBVIOUS
  <2>. HIDE DEF k, p
  <2>. QED  BY <1>0, <2>2, <2>3, <2>4
<1>9. CASE m = "GetExtendedAgentCard" /\ IsGetExtendedAgentCardRequest(r)
  <2>1. rest0Received(m, w) = [tenant |-> ""]
    BY <1>9 DEF rest0Received, Sends
  <2>2. CarriedRequest("rest0", m, r) = [tenant |-> CarriedTenant("rest0", r.tenant)]
    BY <1>9, CarriedRequestsAre
  <2>. QED  BY <1>0, <2>1, <2>2
<1>. QED  BY <1>1, <1>2, <1>3, <1>4, <1>5, <1>6, <1>7, <1>8, <1>9, RequestFields

-----------------------------------------------------------------------------
(* JSON-RPC and HTTP+JSON, version 1: most requests are their own JSON *)

\* What is carried of a request that is its own JSON is the request.
LEMMA CarriedByJSON ==
    ASSUME NotAFunction(Nil), NEW b \in JSON, NEW m \in Methods, NEW r, IsRequest(m, r)
    PROVE  /\ m \in {"GetTask", "SubscribeToTask", "CreateTaskPushConfig", "GetTaskPushConfig",
                     "DeleteTaskPushConfig", "GetExtendedAgentCard"} => CarriedRequest(b, m, r) = r
           /\ m = "ListTaskPushConfigs" /\ b = "rpc1" => CarriedRequest(b, m, r) = r
           /\ m = "ListTaskPushConfigs" /\ b = "rest1" =>
                CarriedRequest(b, m, r) = [tenant |-> r.tenant, task |-> r.task,
                                           pageSize |-> 0, pageToken |-> ""]
<1>0. /\ \A x : CarriedTenant(b, x) = x /\ CarriedId(b, x) = x
      /\ b \in {"rpc1", "rpc0", "rest1"} /\ b \notin {"grpc1", "grpc0"}
  BY DEF CarriedTenant, CarriedId, Legacy, JSON
<1>1. CASE Sends(m)
  BY <1>1 DEF Sends
<1>2. CASE m = "GetTask" /\ IsGetTaskRequest(r)
  <2>1. r = [tenant |-> r.tenant, id |-> r.id, history |-> r.history] /\ IsNumber(r.history)
    BY <1>2 DEF IsGetTaskRequest
  <2>2. CarriedLength(b, m, r.history) = r.history
    BY <1>0, <2>1, LengthsCross
  <2>3. CarriedRequest(b, m, r) =
          [tenant |-> CarriedTenant(b, r.tenant), id |-> CarriedId(b, r.id),
           history |-> CarriedLength(b, m, r.history)]
    BY <1>2, CarriedRequestsAre
  <2>4. CarriedRequest(b, m, r) = r
    BY <1>0, <2>1, <2>2, <2>3
  <2>. QED  BY <1>2, <2>4
<1>3. CASE m \in {"ListTasks", "CancelTask"}
  BY <1>3
<1>5. CASE m = "SubscribeToTask" /\ IsSubscribeToTaskRequest(r)
  <2>1. r = [tenant |-> r.tenant, id |-> r.id]
    BY <1>5 DEF IsSubscribeToTaskRequest
  <2>2. CarriedRequest(b, m, r) = [tenant |-> CarriedTenant(b, r.tenant), id |-> CarriedId(b, r.id)]
    BY <1>5, CarriedRequestsAre
  <2>3. CarriedRequest(b, m, r) = r
    BY <1>0, <2>1, <2>2
  <2>. QED  BY <1>5, <2>3
<1>6. CASE m = "CreateTaskPushConfig" /\ IsPushConfig(r)
  <2>1. r = [tenant |-> r.tenant, task |-> r.task, id |-> r.id, url |-> r.url, token |-> r.token,
             auth |-> r.auth]
    BY <1>6 DEF IsPushConfig
  <2>2. CarriedRequest(b, m, r) =
          [tenant |-> CarriedTenant(b, r.tenant), task |-> CarriedId(b, r.task),
           id |-> r.id, url |-> r.url, token |-> r.token, auth |-> r.auth]
    BY <1>6, CarriedRequestsAre
  <2>3. CarriedRequest(b, m, r) = r
    BY <1>0, <2>1, <2>2
  <2>. QED  BY <1>6, <2>3
<1>7. CASE m \in {"GetTaskPushConfig", "DeleteTaskPushConfig"} /\ IsPushConfigRequest(r)
  <2>1. r = [tenant |-> r.tenant, task |-> r.task, id |-> r.id]
    BY <1>7 DEF IsPushConfigRequest
  <2>2. CarriedRequest(b, m, r) =
          [tenant |-> CarriedTenant(b, r.tenant), task |-> CarriedId(b, r.task),
           id |-> CarriedId(b, r.id)]
    BY <1>7, CarriedRequestsAre
  <2>3. CarriedRequest(b, m, r) = r
    BY <1>0, <2>1, <2>2
  <2>. QED  BY <1>7, <2>3
<1>8. CASE m = "ListTaskPushConfigs" /\ IsListTaskPushConfigRequest(r)
  <2>. DEFINE k == CASE b \in {"grpc1", "grpc0"} -> int32(r.pageSize)
                     [] b = "rpc1" -> r.pageSize
                     [] OTHER -> 0
              p == IF b \in {"grpc1", "grpc0", "rpc1"} THEN r.pageToken ELSE ""
  <2>1. r = [tenant |-> r.tenant, task |-> r.task, pageSize |-> r.pageSize, pageToken |-> r.pageToken]
    BY <1>8 DEF IsListTaskPushConfigRequest
  <2>2. CarriedRequest(b, m, r) =
          [tenant |-> CarriedTenant(b, r.tenant), task |-> CarriedId(b, r.task),
           pageSize |-> k, pageToken |-> p]
    BY <1>8, CarriedListPushIs
  <2>3. /\ b = "rpc1" => k = r.pageSize /\ p = r.pageToken
        /\ b # "rpc1" => k = 0 /\ p = ""
    BY <1>0 DEF JSON
  <2>. HIDE DEF k, p
  <2>4. b = "rpc1" => CarriedRequest(b, m, r) = r
    BY <1>0, <2>1, <2>2, <2>3
  <2>5. b = "rest1" => CarriedRequest(b, m, r) = [tenant |-> r.tenant, task |-> r.task,
                                                 pageSize |-> 0, pageToken |-> ""]
    BY <1>0, <2>2, <2>3
  <2>. QED  BY <1>8, <2>4, <2>5
<1>9. CASE m = "GetExtendedAgentCard" /\ IsGetExtendedAgentCardRequest(r)
  <2>1. r = [tenant |-> r.tenant]
    BY <1>9 DEF IsGetExtendedAgentCardRequest
  <2>2. CarriedRequest(b, m, r) = [tenant |-> CarriedTenant(b, r.tenant)]
    BY <1>9, CarriedRequestsAre
  <2>3. CarriedRequest(b, m, r) = r
    BY <1>0, <2>1, <2>2
  <2>. QED  BY <1>9, <2>3
<1>. QED  BY <1>1, <1>2, <1>3, <1>5, <1>6, <1>7, <1>8, <1>9, RequestFields

\* A request to cancel a task is written as JSON of version 1.
LEMMA CancelOfJ1 ==
    ASSUME NEW b \in JSON, NEW r, IsCancelTaskRequest(r), J1!MarshalCancelTaskRequest(r) # Err
    PROVE  J1!MarshalCancelTaskRequest(r) = CarriedRequest(b, "CancelTask", r)
<1>. DEFINE D == jsonMap(r.metadata)
            sent == [tenant |-> r.tenant, id |-> r.id, metadata |-> D]
<1>1. r = [tenant |-> r.tenant, id |-> r.id, metadata |-> r.metadata] /\ IsMap(r.metadata)
  BY DEF IsCancelTaskRequest
<1>2. J1!MarshalCancelTaskRequest(r) = Struct(sent)
  <2>1. J1!MarshalCancelTaskRequest(r) = Struct([r EXCEPT !.metadata = D])
    BY WireOfJ1 DEF J1!MarshalCancelTaskRequest
  <2>2. [r EXCEPT !.metadata = D] = sent
    <3>. HIDE DEF D
    <3>. QED  BY <1>1
  <2>. QED  BY <2>1, <2>2
<1>3. Struct(sent) # Err
  <2>. HIDE DEF sent
  <2>. QED  BY <1>2
<1>4. Struct(sent) = sent /\ D # Err
  <2>. HIDE DEF D
  <2>. QED  BY <1>3, Converted
<1>5. D = CarriedMap(b, r.metadata)
  <2>1. b \in HTTP
    BY DEF JSON, HTTP, Bindings
  <2>. QED  BY <1>1, <1>4, <2>1, MapCrosses
<1>6. CarriedRequest(b, "CancelTask", r) =
        [tenant |-> CarriedTenant(b, r.tenant), id |-> CarriedId(b, r.id),
         metadata |-> IF b \in {"grpc0", "rest0"} THEN Nil ELSE CarriedMap(b, r.metadata)]
  BY CarriedRequestsAre
<1>7. CarriedTenant(b, r.tenant) = r.tenant /\ CarriedId(b, r.id) = r.id /\ b \notin {"grpc0", "rest0"}
  BY DEF CarriedTenant, CarriedId, Legacy, JSON
<1>. HIDE DEF D
<1>. QED  BY <1>2, <1>4, <1>5, <1>6, <1>7

\* JSON-RPC writes the state of a list in the wire's words, HTTP+JSON as it is.
LEMMA ListOfJ1 ==
    ASSUME NEW b \in JSON, NEW r, IsListTasksRequest(r)
    PROVE  /\ J1!UnmarshalListTasksRequest(J1!MarshalListTasksRequest(r)) =
                CarriedRequest(b, "ListTasks", r)
           /\ LET w == [r EXCEPT !.after = jsonTimestamp(r.after)]
              IN [w EXCEPT !.status = fromProtoTaskState(w.status)] = CarriedRequest(b, "ListTasks", r)
<1>. DEFINE e == jsonTimestamp(r.after)
            S == toProtoTaskState(r.status)
            r1 == [r EXCEPT !.after = e]
            r2 == [r1 EXCEPT !.status = S]
            x1 == [r2 EXCEPT !.status = r.status]
            x2 == [r1 EXCEPT !.status = r.status]
            a == CASE b \in {"rpc1", "rest1"} -> jsonTimestamp(r.after)
                   [] b = "rest0" /\ r.after # Nil -> r.after - (r.after % Second)
                   [] OTHER -> r.after
            read == [tenant |-> r.tenant, context |-> r.context, status |-> r.status,
                     pageSize |-> r.pageSize, pageToken |-> r.pageToken, after |-> e,
                     artifacts |-> r.artifacts, history |-> r.history]
<1>1. r = [tenant |-> r.tenant, context |-> r.context, status |-> r.status,
           pageSize |-> r.pageSize, pageToken |-> r.pageToken, after |-> r.after,
           artifacts |-> r.artifacts, history |-> r.history]
  BY DEF IsListTasksRequest
<1>2. /\ r.status \in TaskStates \cup {""} /\ IsNumber(r.history)
      /\ fromProtoTaskState(S) = r.status /\ fromProtoTaskState(r.status) = r.status
  <2>1. r.status \in TaskStates \cup {""} /\ IsNumber(r.history)
    BY DEF IsListTasksRequest
  <2>2. fromProtoTaskState(r.status) = r.status
    BY <2>1 DEF fromProtoTaskState
  <2>. QED  BY <2>1, <2>2, EnumsCross
<1>3. J1!MarshalListTasksRequest(r) = r2
  <2>1. J1!MarshalListTasksRequest(r) = [r EXCEPT !.after = e, !.status = S]
    BY DEF J1!MarshalListTasksRequest, J1!jsonTimestamp, jsonTimestamp,
           J1!toProtoTaskState, toProtoTaskState, J1!TaskStates, TaskStates
  <2>. HIDE DEF e, S
  <2>. QED  BY <2>1
<1>4. r1 = read
  <2>. HIDE DEF e
  <2>. QED  BY <1>1
<1>5. r2 = [tenant |-> r.tenant, context |-> r.context, status |-> S,
            pageSize |-> r.pageSize, pageToken |-> r.pageToken, after |-> e,
            artifacts |-> r.artifacts, history |-> r.history]
  <2>1. r2 = [r1 EXCEPT !.status = S]
    OBVIOUS
  <2>. HIDE DEF r1, r2, e, S
  <2>. QED  BY <1>4, <2>1
<1>6. x1 = read
  <2>1. x1 = [r2 EXCEPT !.status = r.status]
    OBVIOUS
  <2>. HIDE DEF r2, x1, e, S
  <2>. QED  BY <1>5, <2>1
<1>7. x2 = read
  <2>1. x2 = [r1 EXCEPT !.status = r.status]
    OBVIOUS
  <2>. HIDE DEF r1, x2, e
  <2>. QED  BY <1>4, <2>1
<1>8. J1!UnmarshalListTasksRequest(r2) = x1
  <2>1. r2.status = S
    <3>. HIDE DEF r2, S, e
    <3>. QED  BY <1>5
  <2>2. J1!UnmarshalListTasksRequest(r2) = [r2 EXCEPT !.status = fromProtoTaskState(r2.status)]
    <3>. HIDE DEF r2
    <3>. QED  BY DEF J1!UnmarshalListTasksRequest, J1!fromProtoTaskState, fromProtoTaskState,
                     J1!TaskStates, TaskStates
  <2>. HIDE DEF r2, S
  <2>. QED  BY <1>2, <2>1, <2>2
<1>9. [r1 EXCEPT !.status = fromProtoTaskState(r1.status)] = x2
  <2>1. r1.status = r.status
    <3>. HIDE DEF r1, e
    <3>. QED  BY <1>4
  <2>. HIDE DEF r1
  <2>. QED  BY <1>2, <2>1
<1>10. read = CarriedRequest(b, "ListTasks", r)
  <2>1. a = e
    BY DEF JSON
  <2>2. /\ CarriedTenant(b, r.tenant) = r.tenant /\ b \notin {"grpc1", "grpc0"}
        /\ CarriedLength(b, "ListTasks", r.history) = r.history
    <3>1. b \in {"rpc1", "rpc0", "rest1"} /\ b \notin Legacy
      BY DEF JSON, Legacy
    <3>2. CarriedLength(b, "ListTasks", r.history) = r.history
      BY <1>2, <3>1, LengthsCross
    <3>3. CarriedTenant(b, r.tenant) = r.tenant
      BY <3>1 DEF CarriedTenant
    <3>. QED  BY <3>1, <3>2, <3>3 DEF JSON
  <2>3. CarriedRequest(b, "ListTasks", r) =
          [tenant |-> CarriedTenant(b, r.tenant), context |-> r.context, status |-> r.status,
           pageSize |-> IF b \in {"grpc1", "grpc0"} THEN int32(r.pageSize) ELSE r.pageSize,
           pageToken |-> r.pageToken, after |-> a, artifacts |-> r.artifacts,
           history |-> CarriedLength(b, "ListTasks", r.history)]
    BY CarriedListTasksIs
  <2>. HIDE DEF a, e
  <2>. QED  BY <2>1, <2>2, <2>3
<1>. HIDE DEF r2, x1, x2, read
<1>. QED  BY <1>3, <1>6, <1>7, <1>8, <1>9, <1>10

\* A request of any method that crosses JSON-RPC of version 1.
LEMMA RequestOfJ1 ==
    ASSUME NotAFunction(Nil), NotAFunction(Err), NEW m \in Methods, NEW r, IsRequest(m, r),
           rpc1Request(m, r) # Err, rpc1Received(m, rpc1Request(m, r)) # Err
    PROVE  rpc1Received(m, rpc1Request(m, r)) = CarriedRequest("rpc1", m, r)
<1>. DEFINE w == rpc1Request(m, r)
<1>0. "rpc1" \in JSON
  BY DEF JSON
<1>1. CASE Sends(m) /\ IsSendRequest(r)
  <2>1. w = J1!MarshalSendMessageRequest(r)
    BY <1>1 DEF rpc1Request, Sends
  <2>2. rpc1Received(m, w) = J1!UnmarshalSendMessageRequest(w)
    BY <1>1 DEF rpc1Received, Sends
  <2>. QED  BY <1>0, <1>1, <2>1, <2>2, SendOfJ1
<1>2. CASE m \in {"GetTask", "SubscribeToTask", "CreateTaskPushConfig", "GetTaskPushConfig",
                  "DeleteTaskPushConfig", "GetExtendedAgentCard", "ListTaskPushConfigs"}
  <2>1. w = r
    BY <1>2 DEF rpc1Request, Sends
  <2>2. rpc1Received(m, w) = w
    BY <1>2 DEF rpc1Received, Sends
  <2>3. CarriedRequest("rpc1", m, r) = r
    <3>1. CASE m = "ListTaskPushConfigs"
      BY <1>0, <3>1, CarriedByJSON
    <3>2. CASE m \in {"GetTask", "SubscribeToTask", "CreateTaskPushConfig", "GetTaskPushConfig",
                      "DeleteTaskPushConfig", "GetExtendedAgentCard"}
      BY <1>0, <3>2, CarriedByJSON
    <3>. QED  BY <1>2, <3>1, <3>2
  <2>. QED  BY <2>1, <2>2, <2>3
<1>3. CASE m = "ListTasks" /\ IsListTasksRequest(r)
  <2>1. w = J1!MarshalListTasksRequest(r)
    BY <1>3 DEF rpc1Request, Sends
  <2>2. rpc1Received(m, w) = J1!UnmarshalListTasksRequest(w)
    BY <1>3 DEF rpc1Received, Sends
  <2>. QED  BY <1>0, <1>3, <2>1, <2>2, ListOfJ1
<1>4. CASE m = "CancelTask" /\ IsCancelTaskRequest(r)
  <2>1. w = J1!MarshalCancelTaskRequest(r)
    BY <1>4 DEF rpc1Request, Sends
  <2>2. rpc1Received(m, w) = w
    BY <1>4 DEF rpc1Received, Sends
  <2>. QED  BY <1>0, <1>4, <2>1, <2>2, CancelOfJ1
<1>. QED  BY <1>1, <1>2, <1>3, <1>4, RequestFields

\* The path has the tenant and the ids, and they are the body's.
LEMMA RequestOfRest1 ==
    ASSUME NotAFunction(Nil), NotAFunction(Err), NEW m \in Methods, NEW r, IsRequest(m, r),
           rest1Request(m, r) # Err, rest1Received(m, rest1Request(m, r)) # Err
    PROVE  rest1Received(m, rest1Request(m, r)) = CarriedRequest("rest1", m, r)
<1>. DEFINE w == rest1Request(m, r)
<1>0. "rest1" \in JSON
  BY DEF JSON
<1>1. CASE Sends(m) /\ IsSendRequest(r)
  <2>. DEFINE body == J1!MarshalSendMessageRequest(r)
              v == J1!UnmarshalSendMessageRequest(body)
  <2>1. w = IF body = Err THEN Err ELSE [tenant |-> r.tenant, body |-> body]
    BY <1>1 DEF rest1Request, Sends
  <2>2. body # Err /\ w = [tenant |-> r.tenant, body |-> body]
    BY <2>1
  <2>3. rest1Received(m, w) = fillTenant(r.tenant, v)
    <3>. HIDE DEF body, w
    <3>. QED  BY <1>1, <2>2 DEF rest1Received, Sends
  <2>4. v # Err
    <3>. HIDE DEF v
    <3>. QED  BY <2>3 DEF fillTenant
  <2>. QED  BY <1>0, <1>1, <2>2, <2>3, <2>4, SendOfJ1
<1>2. CASE m \in {"GetTask", "SubscribeToTask", "GetTaskPushConfig", "DeleteTaskPushConfig",
                  "GetExtendedAgentCard"}
  <2>1. w = r
    BY <1>2 DEF rest1Request, Sends
  <2>2. rest1Received(m, w) \in {Err, w}
    <3>. HIDE DEF w
    <3>. QED  BY <1>2 DEF rest1Received, Sends, Require
  <2>. QED  BY <1>0, <1>2, <2>1, <2>2, CarriedByJSON
<1>3. CASE m = "ListTasks" /\ IsListTasksRequest(r)
  <2>. DEFINE v == [r EXCEPT !.after = jsonTimestamp(r.after)]
  <2>1. w = v
    BY <1>3 DEF rest1Request, Sends
  <2>2. rest1Received(m, v) = [v EXCEPT !.status = fromProtoTaskState(v.status)]
    <3>. HIDE DEF v
    <3>. QED  BY <1>3 DEF rest1Received, Sends
  <2>3. [v EXCEPT !.status = fromProtoTaskState(v.status)] = CarriedRequest("rest1", "ListTasks", r)
    BY <1>0, <1>3, ListOfJ1
  <2>. QED  BY <1>3, <2>1, <2>2, <2>3
<1>4. CASE m = "CancelTask" /\ IsCancelTaskRequest(r)
  <2>1. w = J1!MarshalCancelTaskRequest(r)
    BY <1>4 DEF rest1Request, Sends
  <2>2. rest1Received(m, w) = w
    BY <1>4 DEF rest1Received, Sends
  <2>. QED  BY <1>0, <1>4, <2>1, <2>2, CancelOfJ1
<1>5. CASE m = "CreateTaskPushConfig" /\ IsPushConfig(r)
  <2>1. w = [tenant |-> r.tenant, task |-> r.task, body |-> r]
    BY <1>5 DEF rest1Request, Sends
  <2>2. rest1Received(m, w) = fillTenant(r.tenant, [r EXCEPT !.task = r.task])
    <3>. HIDE DEF w
    <3>. QED  BY <1>5, <2>1 DEF rest1Received, Sends
  <2>3. r = [tenant |-> r.tenant, task |-> r.task, id |-> r.id, url |-> r.url, token |-> r.token,
             auth |-> r.auth]
    BY <1>5 DEF IsPushConfig
  <2>4. [r EXCEPT !.task = r.task] = r
    BY <2>3
  <2>5. [r EXCEPT !.tenant = r.tenant] = r
    BY <2>3
  <2>6. rest1Received(m, w) = r
    <3>. HIDE DEF w
    <3>. QED  BY <2>2, <2>4, <2>5 DEF fillTenant
  <2>. QED  BY <1>0, <1>5, <2>6, CarriedByJSON
<1>6. CASE m = "ListTaskPushConfigs"
  <2>1. w = [tenant |-> r.tenant, task |-> r.task]
    BY <1>6 DEF rest1Request, Sends
  <2>2. rest1Received(m, w) = [tenant |-> r.tenant, task |-> r.task, pageSize |-> 0, pageToken |-> ""]
    <3>. HIDE DEF w
    <3>. QED  BY <1>6, <2>1 DEF rest1Received, Sends
  <2>3. CarriedRequest("rest1", m, r) =
          [tenant |-> r.tenant, task |-> r.task, pageSize |-> 0, pageToken |-> ""]
    BY <1>0, <1>6, CarriedByJSON
  <2>. QED  BY <2>2, <2>3
<1>. QED  BY <1>1, <1>2, <1>3, <1>4, <1>5, <1>6, RequestFields

-----------------------------------------------------------------------------
(* Every binding *)

\* A request that is written and read is the one the binding carries.  JSON-RPC
\* of version 0.3 has no list of tasks, and does not return from a message that
\* is not there but has a push configuration.
LEMMA RequestCrosses ==
    ASSUME NotAFunction(Nil), NotAFunction(Err), NEW b \in Bindings, NEW m \in Methods, NEW r,
           IsRequest(m, r), EncodeRequest(b, m, r) # Err,
           DecodeRequest(b, m, EncodeRequest(b, m, r)) # Err,
           ~(b = "rpc0" /\ m = "ListTasks"),
           b = "rpc0" /\ Sends(m) => \/ r.message # Nil \/ r.config = Nil \/ r.config.push = Nil
    PROVE  DecodeRequest(b, m, EncodeRequest(b, m, r)) = CarriedRequest(b, m, r)
<1>1. CASE b = "grpc1"
  <2>1. EncodeRequest(b, m, r) = grpc1Request(m, r)
    BY <1>1 DEF EncodeRequest
  <2>2. DecodeRequest(b, m, grpc1Request(m, r)) = grpc1Received(m, grpc1Request(m, r))
    BY <1>1 DEF DecodeRequest
  <2>. QED  BY <1>1, <2>1, <2>2, RequestOfV1
<1>2. CASE b = "grpc0"
  <2>1. EncodeRequest(b, m, r) = grpc0Request(m, r)
    BY <1>2 DEF EncodeRequest
  <2>2. DecodeRequest(b, m, grpc0Request(m, r)) = grpc0Received(m, grpc0Request(m, r))
    BY <1>2 DEF DecodeRequest
  <2>. QED  BY <1>2, <2>1, <2>2, RequestOfV0
<1>3. CASE b = "rpc1"
  <2>1. EncodeRequest(b, m, r) = rpc1Request(m, r)
    BY <1>3 DEF EncodeRequest
  <2>2. DecodeRequest(b, m, rpc1Request(m, r)) = rpc1Received(m, rpc1Request(m, r))
    BY <1>3 DEF DecodeRequest
  <2>. QED  BY <1>3, <2>1, <2>2, RequestOfJ1
<1>4. CASE b = "rpc0"
  <2>1. EncodeRequest(b, m, r) = rpc0Request(m, r)
    BY <1>4 DEF EncodeRequest
  <2>2. DecodeRequest(b, m, rpc0Request(m, r)) = rpc0Received(m, rpc0Request(m, r))
    BY <1>4 DEF DecodeRequest
  <2>3. m \in Methods \ {"ListTasks"}
    BY <1>4
  <2>. QED  BY <1>4, <2>1, <2>2, <2>3, RequestOfC0
<1>5. CASE b = "rest1"
  <2>1. EncodeRequest(b, m, r) = rest1Request(m, r)
    BY <1>5 DEF EncodeRequest
  <2>2. DecodeRequest(b, m, rest1Request(m, r)) = rest1Received(m, rest1Request(m, r))
    BY <1>5 DEF DecodeRequest
  <2>. QED  BY <1>5, <2>1, <2>2, RequestOfRest1
<1>6. CASE b = "rest0"
  <2>1. EncodeRequest(b, m, r) = rest0Request(m, r)
    BY <1>6 DEF EncodeRequest
  <2>2. DecodeRequest(b, m, rest0Request(m, r)) = rest0Received(m, rest0Request(m, r))
    BY <1>6 DEF DecodeRequest
  <2>. QED  BY <1>6, <2>1, <2>2, RequestOfP0
<1>. QED  BY <1>1, <1>2, <1>3, <1>4, <1>5, <1>6 DEF Bindings

-----------------------------------------------------------------------------
(***************************************************************************)
(* Results of one call: what each binding carries, as records.             *)
(***************************************************************************)
\* The lists that a handler returns.
IsTaskList(v) ==
    /\ v = [tasks |-> v.tasks, total |-> v.total, pageSize |-> v.pageSize, next |-> v.next]
    /\ IsListOf(IsTask, v.tasks)
    /\ int32(v.total) = v.total /\ int32(v.pageSize) = v.pageSize

\* A push configuration that is returned is one of the task that was asked for.
IsPushOf(b, r, v) == IsPush(v) /\ v.task = CarriedId(b, r.task)

IsPushList(b, r, v) ==
    /\ v = [configs |-> v.configs, next |-> v.next] /\ IsList(v.configs)
    /\ \A i \in DOMAIN v.configs : IsPushOf(b, r, v.configs[i])

\* What the methods return, but for the one that returns a card.
IsResult(b, m, r, v) ==
    \/ m = "SendMessage" /\ IsSendResult(v)
    \/ m \in {"GetTask", "CancelTask"} /\ IsTask(v)
    \/ m = "ListTasks" /\ IsTaskList(v)
    \/ m \in {"CreateTaskPushConfig", "GetTaskPushConfig"} /\ IsPushOf(b, r, v)
    \/ m = "ListTaskPushConfigs" /\ IsPushList(b, r, v)
    \/ m = "DeleteTaskPushConfig" /\ v = Empty

\* A task or a message that is returned is an event.
LEMMA CarriedSendResultIs ==
    ASSUME NEW b, NEW m, NEW v
    PROVE  /\ m = "SendMessage" => CarriedResult(b, m, v) = CarriedEvent(b, v)
           /\ m \in {"GetTask", "CancelTask"} /\ IsTask(v) =>
                 CarriedResult(b, m, v) = CarriedTask(b, v)
<1>1. m \in {"SendMessage", "GetTask", "CancelTask"} => CarriedResult(b, m, v) = CarriedEvent(b, v)
  BY DEF CarriedResult
<1>2. ASSUME IsTask(v) PROVE CarriedEvent(b, v) = CarriedTask(b, v)
  <2>1. v.type = "task"
    BY <1>2 DEF IsTask
  <2>. QED  BY <2>1 DEF CarriedEvent
<1>. QED  BY <1>1, <1>2

\* A list of tasks.
LEMMA CarriedTaskListIs ==
    ASSUME NEW b, NEW v, IsTaskList(v)
    PROVE  CarriedResult(b, "ListTasks", v) =
             [tasks |-> [i \in DOMAIN v.tasks |-> CarriedTask(b, v.tasks[i])],
              total |-> IF b = "rest0" THEN 0 ELSE v.total,
              pageSize |-> CASE b = "rest0" -> 0
                             [] b = "grpc0" -> Len(v.tasks)
                             [] OTHER -> v.pageSize,
              next |-> v.next]
<1>. DEFINE x == [i \in DOMAIN v.tasks |-> CarriedTask(b, v.tasks[i])]
            y == IF b = "rest0" THEN 0 ELSE v.total
            z == CASE b = "rest0" -> 0
                   [] b = "grpc0" -> Len(v.tasks)
                   [] OTHER -> v.pageSize
            v1 == [v EXCEPT !.tasks = x]
            v2 == [v1 EXCEPT !.total = y]
            v3 == [v2 EXCEPT !.pageSize = z]
<1>1. v = [tasks |-> v.tasks, total |-> v.total, pageSize |-> v.pageSize, next |-> v.next]
  BY DEF IsTaskList
<1>2. CarriedResult(b, "ListTasks", v) = [v EXCEPT !.tasks = x, !.total = y, !.pageSize = z]
  BY DEF CarriedResult, StreamMethods
<1>. HIDE DEF x, y, z
<1>3. v1 = [tasks |-> x, total |-> v.total, pageSize |-> v.pageSize, next |-> v.next]
  BY <1>1
<1>4. v2 = [tasks |-> x, total |-> y, pageSize |-> v.pageSize, next |-> v.next]
  <2>. HIDE DEF v1
  <2>. QED  BY <1>3
<1>5. v3 = [tasks |-> x, total |-> y, pageSize |-> z, next |-> v.next]
  <2>. HIDE DEF v2
  <2>. QED  BY <1>4
<1>. QED  BY <1>2, <1>5 DEF x, y, z

\* Push configurations.
CarriedName(b, p) == IF b = "rest0" /\ "a/b" \in {p.task, p.id} THEN "" ELSE p.task

LEMMA CarriedPushIs ==
    ASSUME NEW b, NEW m \in {"CreateTaskPushConfig", "GetTaskPushConfig"}, NEW p, IsPush(p)
    PROVE  CarriedResult(b, m, p) =
             [tenant |-> CarriedTenant(b, p.tenant), task |-> CarriedName(b, p), id |-> p.id,
              url |-> p.url, token |-> p.token, auth |-> p.auth]
<1>. DEFINE x == CarriedTenant(b, p.tenant)
            y == CarriedName(b, p)
            p1 == [p EXCEPT !.tenant = x]
            p2 == [p1 EXCEPT !.task = y]
<1>1. p = [tenant |-> p.tenant, task |-> p.task, id |-> p.id, url |-> p.url,
           token |-> p.token, auth |-> p.auth]
  BY DEF IsPush
<1>2. CarriedResult(b, m, p) = [p EXCEPT !.tenant = x, !.task = y]
  <2>1. m \notin {"SendMessage", "GetTask", "CancelTask"} \cup StreamMethods /\ m # "ListTasks"
    BY DEF StreamMethods
  <2>. QED  BY <1>1, <2>1 DEF CarriedResult, CarriedTenant, CarriedName
<1>. HIDE DEF x, y
<1>3. p1 = [tenant |-> x, task |-> p.task, id |-> p.id, url |-> p.url,
            token |-> p.token, auth |-> p.auth]
  BY <1>1
<1>4. p2 = [tenant |-> x, task |-> y, id |-> p.id, url |-> p.url,
            token |-> p.token, auth |-> p.auth]
  <2>. HIDE DEF p1
  <2>. QED  BY <1>3
<1>. QED  BY <1>2, <1>4 DEF x, y

\* The bindings of version 1 carry all of it, the others all but the tenant and
\* over HTTP+JSON, when an id has a slash, the task.
LEMMA CarriedPushResult ==
    ASSUME NEW m, m = "CreateTaskPushConfig" \/ m = "GetTaskPushConfig", NEW p, IsPush(p)
    PROVE  /\ CarriedResult("grpc1", m, p) = p
           /\ CarriedResult("rpc1", m, p) = p
           /\ CarriedResult("rest1", m, p) = p
           /\ CarriedResult("grpc0", m, p) =
               [tenant |-> "", task |-> p.task, id |-> p.id,
                url |-> p.url, token |-> p.token, auth |-> p.auth]
           /\ CarriedResult("rpc0", m, p) =
               [tenant |-> "", task |-> p.task, id |-> p.id,
                url |-> p.url, token |-> p.token, auth |-> p.auth]
           /\ CarriedResult("rest0", m, p) =
               [tenant |-> "", task |-> CarriedName("rest0", p), id |-> p.id,
                url |-> p.url, token |-> p.token, auth |-> p.auth]
<1>0. m \in {"CreateTaskPushConfig", "GetTaskPushConfig"}
  OBVIOUS
<1>1. ASSUME NEW b
      PROVE  CarriedResult(b, m, p) =
               [tenant |-> CarriedTenant(b, p.tenant), task |-> CarriedName(b, p), id |-> p.id,
                url |-> p.url, token |-> p.token, auth |-> p.auth]
  BY <1>0, CarriedPushIs
<1>2. p = [tenant |-> p.tenant, task |-> p.task, id |-> p.id, url |-> p.url,
           token |-> p.token, auth |-> p.auth]
  BY DEF IsPush
<1>3. /\ CarriedTenant("grpc1", p.tenant) = p.tenant /\ CarriedName("grpc1", p) = p.task
      /\ CarriedTenant("rpc1", p.tenant) = p.tenant /\ CarriedName("rpc1", p) = p.task
      /\ CarriedTenant("rest1", p.tenant) = p.tenant /\ CarriedName("rest1", p) = p.task
      /\ CarriedTenant("grpc0", p.tenant) = "" /\ CarriedName("grpc0", p) = p.task
      /\ CarriedTenant("rpc0", p.tenant) = "" /\ CarriedName("rpc0", p) = p.task
      /\ CarriedTenant("rest0", p.tenant) = ""
  BY DEF CarriedTenant, CarriedName, Legacy
<1>4. CarriedResult("grpc1", m, p) = p
  BY <1>1, <1>2, <1>3
<1>5. CarriedResult("rpc1", m, p) = p
  BY <1>1, <1>2, <1>3
<1>6. CarriedResult("rest1", m, p) = p
  BY <1>1, <1>2, <1>3
<1>7. CarriedResult("grpc0", m, p) =
               [tenant |-> "", task |-> p.task, id |-> p.id,
                url |-> p.url, token |-> p.token, auth |-> p.auth]
  BY <1>1, <1>3
<1>8. CarriedResult("rpc0", m, p) =
               [tenant |-> "", task |-> p.task, id |-> p.id,
                url |-> p.url, token |-> p.token, auth |-> p.auth]
  BY <1>1, <1>3
<1>9. CarriedResult("rest0", m, p) =
               [tenant |-> "", task |-> CarriedName("rest0", p), id |-> p.id,
                url |-> p.url, token |-> p.token, auth |-> p.auth]
  BY <1>1, <1>3
<1>. QED  BY <1>4, <1>5, <1>6, <1>7, <1>8, <1>9

\* A list of them.
LEMMA CarriedPushListIs ==
    ASSUME NEW b, NEW r, NEW v, IsPushList(b, r, v)
    PROVE  CarriedResult(b, "ListTaskPushConfigs", v) =
             [i \in DOMAIN v.configs |->
                [tenant |-> CarriedTenant(b, v.configs[i].tenant), task |-> v.configs[i].task,
                 id |-> v.configs[i].id, url |-> v.configs[i].url, token |-> v.configs[i].token,
                 auth |-> v.configs[i].auth]]
<1>1. CarriedResult(b, "ListTaskPushConfigs", v) =
        [i \in DOMAIN v.configs |-> [v.configs[i] EXCEPT !.tenant = CarriedTenant(b, @)]]
  BY DEF CarriedResult, StreamMethods, CarriedTenant
<1>2. ASSUME NEW i \in DOMAIN v.configs
      PROVE  [v.configs[i] EXCEPT !.tenant = CarriedTenant(b, @)] =
               [tenant |-> CarriedTenant(b, v.configs[i].tenant), task |-> v.configs[i].task,
                id |-> v.configs[i].id, url |-> v.configs[i].url, token |-> v.configs[i].token,
                auth |-> v.configs[i].auth]
  <2>. DEFINE p == v.configs[i]
  <2>1. IsPush(p)
    BY DEF IsPushList, IsPushOf
  <2>2. p = [tenant |-> p.tenant, task |-> p.task, id |-> p.id, url |-> p.url,
             token |-> p.token, auth |-> p.auth]
    BY <2>1 DEF IsPush
  <2>. HIDE DEF p
  <2>3. [p EXCEPT !.tenant = CarriedTenant(b, @)] =
          [tenant |-> CarriedTenant(b, p.tenant), task |-> p.task, id |-> p.id, url |-> p.url,
           token |-> p.token, auth |-> p.auth]
    BY <2>2
  <2>. QED  BY <2>3 DEF p
<1>. QED  BY <1>1, <1>2

-----------------------------------------------------------------------------
(***************************************************************************)
(* Results of one call: each binding on its own.                           *)
(***************************************************************************)
\* A loop makes a list as long as the one it is over.
LEMMA SameLength ==
    ASSUME NEW s, IsList(s), NEW F(_)
    PROVE  Len([i \in DOMAIN s |-> F(s[i])]) = Len(s)
<1>. DEFINE t == [i \in DOMAIN s |-> F(s[i])]
            S == {t[i] : i \in DOMAIN s}
<1>1. Len(s) \in Nat /\ DOMAIN s = 1 .. Len(s)
  BY ListIs, SequenceIs
<1>2. t \in [1 .. Len(s) -> S]
  BY <1>1
<1>. HIDE DEF S, t
<1>3. t \in Seq(S) /\ DOMAIN t = 1 .. Len(s)
  BY <1>1, <1>2
<1>4. Len(t) = Len(s)
  BY <1>1, <1>3
<1>. QED  BY <1>4 DEF t

\* A list of tasks that crosses gRPC of version 1.
LEMMA TaskListOfV1 ==
    ASSUME NotAFunction(Nil), NotAFunction(Err), NEW v, IsTaskList(v),
           V1!ToProtoListTasksResponse(v) # Err,
           V1!FromProtoListTasksResponse(V1!ToProtoListTasksResponse(v)) # Err
    PROVE  V1!FromProtoListTasksResponse(V1!ToProtoListTasksResponse(v)) =
             CarriedResult("grpc1", "ListTasks", v)
<1>. DEFINE TW == [i \in DOMAIN v.tasks |-> V1!ToProtoTask(v.tasks[i])]
            TD == [i \in DOMAIN TW |-> V1!FromProtoTask(TW[i])]
            TC == [i \in DOMAIN v.tasks |-> CarriedTask("grpc1", v.tasks[i])]
            sent == [tasks |-> Struct(TW), totalSize |-> v.total, pageSize |-> v.pageSize,
                     nextPageToken |-> v.next]
            read == [tasks |-> Struct(TD), total |-> v.total, pageSize |-> v.pageSize,
                     next |-> v.next]
<1>1. /\ \A i \in DOMAIN v.tasks : IsTask(v.tasks[i])
      /\ V1!int32(v.total) = v.total /\ V1!int32(v.pageSize) = v.pageSize
  BY DEF IsTaskList, IsListOf, V1!int32, int32
<1>2. V1!ToProtoListTasksResponse(v) = Struct(sent)
  BY <1>1, WireOfV1 DEF V1!ToProtoListTasksResponse, V1!Each
<1>3. Struct(sent) = sent /\ Struct(TW) # Err
  BY <1>2, Converted
<1>4. Struct(TW) = TW /\ \A i \in DOMAIN v.tasks : TW[i] # Err
  BY <1>3, Converted
<1>5. V1!FromProtoListTasksResponse(sent) = Struct(read)
  BY <1>4, WireOfV1 DEF V1!FromProtoListTasksResponse, V1!Each
<1>6. Struct(read) = read /\ Struct(TD) # Err
  BY <1>2, <1>3, <1>5, Converted
<1>7. Struct(TD) = TD /\ \A i \in DOMAIN v.tasks : TD[i] # Err
  BY <1>6, Converted
<1>8. TD = TC
  <2>1. \A i \in DOMAIN v.tasks : V1!FromProtoTask(V1!ToProtoTask(v.tasks[i])) = CarriedTask("grpc1", v.tasks[i])
    BY <1>1, <1>4, <1>7, TaskOfV1
  <2>. QED  BY <2>1
<1>9. CarriedResult("grpc1", "ListTasks", v) =
        [tasks |-> TC, total |-> v.total, pageSize |-> v.pageSize, next |-> v.next]
  BY CarriedTaskListIs
<1>. HIDE DEF TW, TD, TC
<1>. QED  BY <1>2, <1>3, <1>5, <1>6, <1>7, <1>8, <1>9

\* A list of tasks that crosses gRPC of version 0.3.
LEMMA TaskListOfV0 ==
    ASSUME NotAFunction(Nil), NotAFunction(Err), NEW v, IsTaskList(v),
           V0!ToProtoListTasksResponse(v) # Err,
           V0!FromProtoListTasksResponse(V0!ToProtoListTasksResponse(v)) # Err
    PROVE  V0!FromProtoListTasksResponse(V0!ToProtoListTasksResponse(v)) =
             CarriedResult("grpc0", "ListTasks", v)
<1>. DEFINE TW == [i \in DOMAIN v.tasks |-> V0!ToProtoTask(v.tasks[i])]
            TD == [i \in DOMAIN TW |-> V0!FromProtoTask(TW[i])]
            TC == [i \in DOMAIN v.tasks |-> CarriedTask("grpc0", v.tasks[i])]
            sent == [tasks |-> Struct(TW), totalSize |-> v.total,
                     nextPageToken |-> v.next]
            read == [tasks |-> Struct(TD), total |-> v.total, pageSize |-> Len(TW),
                     next |-> v.next]
<1>1. /\ \A i \in DOMAIN v.tasks : IsTask(v.tasks[i])
      /\ V0!int32(v.total) = v.total /\ V0!int32(v.pageSize) = v.pageSize
  BY DEF IsTaskList, IsListOf, V0!int32, int32
<1>2. V0!ToProtoListTasksResponse(v) = Struct(sent)
  BY <1>1, WireOfV0 DEF V0!ToProtoListTasksResponse, V0!Each
<1>3. Struct(sent) = sent /\ Struct(TW) # Err
  BY <1>2, Converted
<1>4. Struct(TW) = TW /\ \A i \in DOMAIN v.tasks : TW[i] # Err
  BY <1>3, Converted
<1>5. V0!FromProtoListTasksResponse(sent) = Struct(read)
  BY <1>4, WireOfV0 DEF V0!FromProtoListTasksResponse, V0!Each
<1>6. Struct(read) = read /\ Struct(TD) # Err
  BY <1>2, <1>3, <1>5, Converted
<1>7. Struct(TD) = TD /\ \A i \in DOMAIN v.tasks : TD[i] # Err
  BY <1>6, Converted
<1>8. TD = TC
  <2>1. \A i \in DOMAIN v.tasks : V0!FromProtoTask(V0!ToProtoTask(v.tasks[i])) = CarriedTask("grpc0", v.tasks[i])
    BY <1>1, <1>4, <1>7, TaskOfV0
  <2>. QED  BY <2>1
<1>9. CarriedResult("grpc0", "ListTasks", v) =
        [tasks |-> TC, total |-> v.total, pageSize |-> Len(v.tasks), next |-> v.next]
  BY CarriedTaskListIs
<1>10. Len(TW) = Len(v.tasks)
  BY SameLength DEF IsTaskList, IsListOf
<1>. HIDE DEF TW, TD, TC
<1>. QED  BY <1>2, <1>3, <1>5, <1>6, <1>7, <1>8, <1>9, <1>10

\* A list of tasks that crosses JSON of version 1.
LEMMA TaskListOfJ1 ==
    ASSUME NotAFunction(Nil), NotAFunction(Err), NEW b \in JSON, NEW v, IsTaskList(v),
           J1!MarshalListTasksResponse(v) # Err,
           J1!UnmarshalListTasksResponse(J1!MarshalListTasksResponse(v)) # Err
    PROVE  J1!UnmarshalListTasksResponse(J1!MarshalListTasksResponse(v)) =
             CarriedResult(b, "ListTasks", v)
<1>. DEFINE TW == [i \in DOMAIN v.tasks |-> J1!MarshalTask(v.tasks[i])]
            TD == [i \in DOMAIN TW |-> J1!UnmarshalTask(TW[i])]
            TC == [i \in DOMAIN v.tasks |-> CarriedTask(b, v.tasks[i])]
            sent == [tasks |-> Struct(TW), total |-> v.total, pageSize |-> v.pageSize, next |-> v.next]
            read == [tasks |-> Struct(TD), total |-> v.total, pageSize |-> v.pageSize, next |-> v.next]
<1>1. /\ \A i \in DOMAIN v.tasks : IsTask(v.tasks[i])
      /\ v = [tasks |-> v.tasks, total |-> v.total, pageSize |-> v.pageSize, next |-> v.next]
  BY DEF IsTaskList, IsListOf
<1>2. J1!MarshalListTasksResponse(v) = Struct(sent)
  <2>1. J1!MarshalListTasksResponse(v) = Struct([v EXCEPT !.tasks = Struct(TW)])
    BY WireOfJ1 DEF J1!MarshalListTasksResponse, J1!Each
  <2>2. [v EXCEPT !.tasks = Struct(TW)] = sent
    <3>. HIDE DEF TW
    <3>. QED  BY <1>1
  <2>. QED  BY <2>1, <2>2
<1>3. Struct(sent) = sent /\ Struct(TW) # Err
  BY <1>2, Converted
<1>4. Struct(TW) = TW /\ \A i \in DOMAIN v.tasks : TW[i] # Err
  BY <1>3, Converted
<1>5. J1!UnmarshalListTasksResponse(sent) = Struct(read)
  <2>1. J1!UnmarshalListTasksResponse(sent) = Struct([sent EXCEPT !.tasks = Struct(TD)])
    BY <1>4, WireOfJ1 DEF J1!UnmarshalListTasksResponse, J1!Each
  <2>2. [sent EXCEPT !.tasks = Struct(TD)] = read
    <3>. HIDE DEF TW, TD
    <3>. QED  OBVIOUS
  <2>. QED  BY <2>1, <2>2
<1>6. Struct(read) = read /\ Struct(TD) # Err
  BY <1>2, <1>3, <1>5, Converted
<1>7. Struct(TD) = TD /\ \A i \in DOMAIN v.tasks : TD[i] # Err
  BY <1>6, Converted
<1>8. TD = TC
  <2>1. \A i \in DOMAIN v.tasks : J1!UnmarshalTask(J1!MarshalTask(v.tasks[i])) = CarriedTask(b, v.tasks[i])
    BY <1>1, <1>4, <1>7, TaskOfJ1
  <2>. QED  BY <2>1
<1>9. CarriedResult(b, "ListTasks", v) =
        [tasks |-> TC, total |-> v.total, pageSize |-> v.pageSize, next |-> v.next]
  BY CarriedTaskListIs DEF JSON
<1>. HIDE DEF TW, TD, TC
<1>. QED  BY <1>2, <1>3, <1>5, <1>6, <1>7, <1>8, <1>9

\* A list of tasks that crosses HTTP+JSON of version 0.3.
LEMMA TaskListOfP0 ==
    ASSUME NotAFunction(Nil), NotAFunction(Err), NEW v, IsTaskList(v),
           P0!ToProtoListTasksResponse(v) # Err
    PROVE  P0!FromProtoListTasksResponse(P0!ToProtoListTasksResponse(v)) =
             CarriedResult("rest0", "ListTasks", v)
<1>. DEFINE TW == [i \in DOMAIN v.tasks |-> P0!taskToWire(v.tasks[i])]
            TD == [i \in DOMAIN TW |-> P0!taskFromWire(TW[i])]
            TC == [i \in DOMAIN v.tasks |-> CarriedTask("rest0", v.tasks[i])]
            sent == [tasks |-> Struct(TW), nextPageToken |-> v.next]
<1>1. \A i \in DOMAIN v.tasks : IsTask(v.tasks[i])
  BY DEF IsTaskList, IsListOf
<1>2. P0!ToProtoListTasksResponse(v) = Struct(sent)
  BY WireOfP0 DEF P0!ToProtoListTasksResponse, P0!Each
<1>3. Struct(sent) = sent /\ Struct(TW) # Err
  BY <1>2, Converted
<1>4. Struct(TW) = TW /\ \A i \in DOMAIN v.tasks : TW[i] # Err
  BY <1>3, Converted
<1>5. P0!FromProtoListTasksResponse(sent) =
        [tasks |-> Struct(TD), total |-> 0, pageSize |-> 0, next |-> v.next]
  BY <1>4, WireOfP0 DEF P0!FromProtoListTasksResponse, P0!Each
<1>6. TD = TC
  <2>1. \A i \in DOMAIN v.tasks : P0!taskFromWire(P0!taskToWire(v.tasks[i])) = CarriedTask("rest0", v.tasks[i])
    BY <1>1, <1>4, TaskOfP0
  <2>. QED  BY <2>1
<1>7. Struct(TC) = TC
  BY <1>1, StructIs, CarriedAreNoErrors
<1>8. CarriedResult("rest0", "ListTasks", v) = [tasks |-> TC, total |-> 0, pageSize |-> 0, next |-> v.next]
  BY CarriedTaskListIs
<1>. HIDE DEF TW, TD, TC
<1>. QED  BY <1>2, <1>3, <1>5, <1>6, <1>7, <1>8

\* A push configuration that is returned crosses gRPC of version 0.3.
LEMMA PushResultOfV0 ==
    ASSUME NotAFunction(Nil), NEW r, NEW p, IsPushOf("grpc0", r, p),
           V0!ToProtoTaskPushConfig(p) # Err,
           V0!FromProtoTaskPushConfig(V0!ToProtoTaskPushConfig(p)) # Err
    PROVE  V0!FromProtoTaskPushConfig(V0!ToProtoTaskPushConfig(p)) =
             [tenant |-> "", task |-> p.task, id |-> p.id, url |-> p.url, token |-> p.token,
              auth |-> p.auth]
<1>. DEFINE N == V0!MakeConfigName(p.task, p.id)
            P == V0!toProtoPushConfig(p)
            Q == V0!fromProtoPushConfig(P)
            T == V0!ExtractTaskID(N)
            sent == [name |-> N, config |-> P]
            read == [Q EXCEPT !.task = T]
<1>1. IsPush(p) /\ p # Nil /\ V0!Segment(p.task) = p.task
  <2>1. IsPush(p) /\ p.task = V0!Segment(r.task)
    BY DEF IsPushOf, CarriedId
  <2>2. V0!Segment(V0!Segment(r.task)) = V0!Segment(r.task)
    BY DEF V0!Segment
  <2>. QED  BY <2>1, <2>2, PushIs
<1>2. V0!ToProtoTaskPushConfig(p) = sent /\ p.task # ""
  BY <1>1 DEF V0!ToProtoTaskPushConfig, V0!Opt, V0!Require
<1>3. T = p.task
  BY <1>1, <1>2 DEF V0!ExtractTaskID, V0!MakeConfigName, V0!Require
<1>4. sent # Nil
  BY DEF NotAFunction
<1>5. V0!FromProtoTaskPushConfig(sent) \in {Err, Struct(read)}
  <2>. HIDE DEF N, P
  <2>. QED  BY <1>4, WireOfV0 DEF V0!FromProtoTaskPushConfig, V0!Opt, V0!Require
<1>6. Q = [tenant |-> "", task |-> "", id |-> p.id, url |-> p.url, token |-> p.token, auth |-> p.auth]
  <2>1. Q = CarriedPush("grpc0", p, "")
    BY <1>1, PushOfV0
  <2>. QED  BY <1>1, <2>1 DEF CarriedPush, Legacy
<1>7. read = [tenant |-> "", task |-> p.task, id |-> p.id, url |-> p.url, token |-> p.token,
              auth |-> p.auth]
  <2>1. read = [Q EXCEPT !.task = p.task]
    BY <1>3
  <2>. HIDE DEF Q, T, read
  <2>. QED  BY <1>6, <2>1
<1>8. Struct(read) = read
  <2>. HIDE DEF read, sent
  <2>. QED  BY <1>2, <1>5, Converted
<1>. HIDE DEF read, sent
<1>. QED  BY <1>2, <1>5, <1>7, <1>8

\* The same over JSON-RPC of version 0.3.
LEMMA PushResultOfC0 ==
    ASSUME NotAFunction(Nil), NEW p, IsPush(p)
    PROVE  C0!ToV1PushConfig(C0!FromV1PushConfig(p)) =
             [tenant |-> "", task |-> p.task, id |-> p.id, url |-> p.url, token |-> p.token,
              auth |-> p.auth]
<1>. DEFINE C == C0!FromV1PushConfig(p).config
<1>1. /\ C0!FromV1PushConfig(p) = [taskId |-> p.task, config |-> C]
      /\ C0!ToV1PushConfig([taskId |-> p.task, config |-> C]) = CarriedPush("rpc0", p, p.task)
  BY PushOfC0
<1>2. p # Nil
  BY PushIs
<1>. HIDE DEF C
<1>. QED  BY <1>1, <1>2 DEF CarriedPush, Legacy

\* The same over HTTP+JSON of version 0.3.
LEMMA PushResultOfP0 ==
    ASSUME NotAFunction(Nil), NEW p, IsPush(p)
    PROVE  P0!taskPushNotificationConfigFromWire(P0!taskPushNotificationConfigToWire(p)) =
             [tenant |-> "", task |-> CarriedName("rest0", p), id |-> p.id, url |-> p.url,
              token |-> p.token, auth |-> p.auth]
<1>. DEFINE N == P0!formatPushConfigResourceName(p.task, p.id)
            P == P0!pushNotificationConfigToWire(p)
            Q == P0!pushNotificationConfigFromWire(P)
            T == P0!parsePushConfigResourceName(N)
            sent == [name |-> N, pushNotificationConfig |-> P]
<1>1. P0!taskPushNotificationConfigToWire(p) = sent
  BY DEF P0!taskPushNotificationConfigToWire
<1>2. P0!taskPushNotificationConfigFromWire(sent) = [Q EXCEPT !.task = T]
  <2>. HIDE DEF N, P
  <2>. QED  BY DEF P0!taskPushNotificationConfigFromWire
<1>3. T = CarriedName("rest0", p)
  BY DEF P0!parsePushConfigResourceName, P0!formatPushConfigResourceName, CarriedName
<1>4. Q = [tenant |-> "", task |-> "", id |-> p.id, url |-> p.url, token |-> p.token, auth |-> p.auth]
  <2>1. Q = CarriedPush("rest0", p, "")
    BY PushOfP0
  <2>2. p # Nil
    BY PushIs
  <2>. QED  BY <2>1, <2>2 DEF CarriedPush, Legacy
<1>. HIDE DEF Q, T, sent
<1>. QED  BY <1>1, <1>2, <1>3, <1>4

\* A list of push configurations that is returned crosses gRPC of version 1.
LEMMA PushListOfV1 ==
    ASSUME NotAFunction(Nil), NotAFunction(Err), NEW r, NEW v, IsPushList("grpc1", r, v),
           V1!ToProtoListTaskPushConfigResponse(v) # Err,
           V1!FromProtoListTaskPushConfigResponse(V1!ToProtoListTaskPushConfigResponse(v)) # Err
    PROVE  V1!FromProtoListTaskPushConfigResponse(V1!ToProtoListTaskPushConfigResponse(v)).configs =
             CarriedResult("grpc1", "ListTaskPushConfigs", v)
<1>. DEFINE W == [i \in DOMAIN v.configs |-> V1!ToProtoTaskPushConfig(v.configs[i])]
            D == [i \in DOMAIN W |-> V1!FromProtoTaskPushConfig(W[i])]
            sent == [configs |-> Struct(W), nextPageToken |-> v.next]
            read == [configs |-> Struct(D), next |-> v.next]
<1>1. \A i \in DOMAIN v.configs : IsPush(v.configs[i]) /\ IsPushOf("grpc1", r, v.configs[i])
  BY DEF IsPushList, IsPushOf
<1>2. V1!ToProtoListTaskPushConfigResponse(v) = Struct(sent)
  BY WireOfV1 DEF V1!ToProtoListTaskPushConfigResponse, V1!Each
<1>3. Struct(sent) = sent /\ Struct(W) # Err
  BY <1>2, Converted
<1>4. Struct(W) = W /\ \A i \in DOMAIN v.configs : W[i] # Err
  BY <1>3, Converted
<1>5. V1!FromProtoListTaskPushConfigResponse(sent) = Struct(read)
  BY <1>4, WireOfV1 DEF V1!FromProtoListTaskPushConfigResponse, V1!Each
<1>6. Struct(read) = read /\ Struct(D) # Err
  BY <1>2, <1>3, <1>5, Converted
<1>7. Struct(D) = D /\ \A i \in DOMAIN v.configs : D[i] # Err
  BY <1>6, Converted
<1>8. D = CarriedResult("grpc1", "ListTaskPushConfigs", v)
  <2>1. ASSUME NEW i \in DOMAIN v.configs
        PROVE  V1!FromProtoTaskPushConfig(V1!ToProtoTaskPushConfig(v.configs[i])) =
                [tenant |-> CarriedTenant("grpc1", v.configs[i].tenant), task |-> v.configs[i].task,
                 id |-> v.configs[i].id, url |-> v.configs[i].url, token |-> v.configs[i].token,
                 auth |-> v.configs[i].auth]
    <3>. DEFINE p == v.configs[i]
    <3>1. V1!FromProtoTaskPushConfig(V1!ToProtoTaskPushConfig(p)) = p
      BY <1>1, <1>4, <1>7, PushOfV1
    <3>2. p = [tenant |-> p.tenant, task |-> p.task, id |-> p.id, url |-> p.url, token |-> p.token,
               auth |-> p.auth]
      BY <1>1 DEF IsPush
    <3>3. CarriedTenant("grpc1", p.tenant) = p.tenant
      BY DEF CarriedTenant, Legacy
    <3>. HIDE DEF p
    <3>4. V1!FromProtoTaskPushConfig(V1!ToProtoTaskPushConfig(p)) =
            [tenant |-> CarriedTenant("grpc1", p.tenant), task |-> p.task, id |-> p.id, url |-> p.url,
             token |-> p.token, auth |-> p.auth]
      BY <3>1, <3>2, <3>3
    <3>. QED  BY <3>4 DEF p
  <2>. QED  BY <2>1, CarriedPushListIs
<1>. HIDE DEF W, D
<1>. QED  BY <1>2, <1>3, <1>5, <1>6, <1>7, <1>8

\* A list of push configurations that is returned crosses gRPC of version 0.3.
LEMMA PushListOfV0 ==
    ASSUME NotAFunction(Nil), NotAFunction(Err), NEW r, NEW v, IsPushList("grpc0", r, v),
           V0!ToProtoListTaskPushConfigResponse(v) # Err,
           V0!FromProtoListTaskPushConfigResponse(V0!ToProtoListTaskPushConfigResponse(v)) # Err
    PROVE  V0!FromProtoListTaskPushConfigResponse(V0!ToProtoListTaskPushConfigResponse(v)).configs =
             CarriedResult("grpc0", "ListTaskPushConfigs", v)
<1>. DEFINE W == [i \in DOMAIN v.configs |-> V0!ToProtoTaskPushConfig(v.configs[i])]
            D == [i \in DOMAIN W |-> V0!FromProtoTaskPushConfig(W[i])]
            sent == [configs |-> Struct(W), nextPageToken |-> v.next]
            read == [configs |-> Struct(D), next |-> v.next]
<1>1. \A i \in DOMAIN v.configs : IsPush(v.configs[i]) /\ IsPushOf("grpc0", r, v.configs[i])
  BY DEF IsPushList, IsPushOf
<1>2. V0!ToProtoListTaskPushConfigResponse(v) = Struct(sent)
  BY WireOfV0 DEF V0!ToProtoListTaskPushConfigResponse, V0!Each
<1>3. Struct(sent) = sent /\ Struct(W) # Err
  BY <1>2, Converted
<1>4. Struct(W) = W /\ \A i \in DOMAIN v.configs : W[i] # Err
  BY <1>3, Converted
<1>5. V0!FromProtoListTaskPushConfigResponse(sent) = Struct(read)
  BY <1>4, WireOfV0 DEF V0!FromProtoListTaskPushConfigResponse, V0!Each
<1>6. Struct(read) = read /\ Struct(D) # Err
  BY <1>2, <1>3, <1>5, Converted
<1>7. Struct(D) = D /\ \A i \in DOMAIN v.configs : D[i] # Err
  BY <1>6, Converted
<1>8. D = CarriedResult("grpc0", "ListTaskPushConfigs", v)
  <2>1. ASSUME NEW i \in DOMAIN v.configs
        PROVE  V0!FromProtoTaskPushConfig(V0!ToProtoTaskPushConfig(v.configs[i])) =
                [tenant |-> CarriedTenant("grpc0", v.configs[i].tenant), task |-> v.configs[i].task,
                 id |-> v.configs[i].id, url |-> v.configs[i].url, token |-> v.configs[i].token,
                 auth |-> v.configs[i].auth]
    <3>. DEFINE p == v.configs[i]
    <3>1. V0!FromProtoTaskPushConfig(V0!ToProtoTaskPushConfig(p)) =
            [tenant |-> "", task |-> p.task, id |-> p.id, url |-> p.url, token |-> p.token,
             auth |-> p.auth]
      BY <1>1, <1>4, <1>7, PushResultOfV0
    <3>2. CarriedTenant("grpc0", p.tenant) = ""
      BY DEF CarriedTenant, Legacy
    <3>. HIDE DEF p
    <3>3. V0!FromProtoTaskPushConfig(V0!ToProtoTaskPushConfig(p)) =
            [tenant |-> CarriedTenant("grpc0", p.tenant), task |-> p.task, id |-> p.id, url |-> p.url,
             token |-> p.token, auth |-> p.auth]
      BY <3>1, <3>2
    <3>. QED  BY <3>3 DEF p
  <2>. QED  BY <2>1, CarriedPushListIs
<1>. HIDE DEF W, D
<1>. QED  BY <1>2, <1>3, <1>5, <1>6, <1>7, <1>8

\* The same over JSON-RPC of version 0.3.
LEMMA PushListOfC0 ==
    ASSUME NotAFunction(Nil), NotAFunction(Err), NEW r, NEW v, IsPushList("rpc0", r, v),
           C0!FromV1PushConfigs(v.configs) # Err
    PROVE  C0!ToV1PushConfigs(C0!FromV1PushConfigs(v.configs)) =
             CarriedResult("rpc0", "ListTaskPushConfigs", v)
<1>. DEFINE W == [i \in DOMAIN v.configs |-> C0!FromV1PushConfig(v.configs[i])]
            D == [i \in DOMAIN W |->
                    C0!ToV1PushConfig(W[i])]
<1>1. \A i \in DOMAIN v.configs : IsPush(v.configs[i]) /\ IsPushOf("rpc0", r, v.configs[i])
  BY DEF IsPushList, IsPushOf
<1>2. C0!FromV1PushConfigs(v.configs) = Struct(W)
  BY WireOfC0 DEF C0!FromV1PushConfigs, C0!Each
<1>3. Struct(W) = W
  BY <1>2, Converted
<1>4. C0!ToV1PushConfigs(W) = Struct(D)
  BY WireOfC0 DEF C0!ToV1PushConfigs, C0!Each
<1>5. ASSUME NEW i \in DOMAIN v.configs
      PROVE  D[i] =
                [tenant |-> CarriedTenant("rpc0", v.configs[i].tenant), task |-> v.configs[i].task,
                 id |-> v.configs[i].id, url |-> v.configs[i].url, token |-> v.configs[i].token,
                 auth |-> v.configs[i].auth]
  <2>. DEFINE p == v.configs[i]
  <2>1. C0!ToV1PushConfig(C0!FromV1PushConfig(p)) =
          [tenant |-> "", task |-> p.task, id |-> p.id, url |-> p.url, token |-> p.token,
           auth |-> p.auth]
    BY <1>1, PushResultOfC0
  <2>2. CarriedTenant("rpc0", p.tenant) = ""
    BY DEF CarriedTenant, Legacy
  <2>3. W[i] = C0!FromV1PushConfig(p) /\ D[i] = C0!ToV1PushConfig(W[i])
    OBVIOUS
  <2>. HIDE DEF p, W, D
  <2>4. D[i] = [tenant |-> CarriedTenant("rpc0", p.tenant), task |-> p.task, id |-> p.id,
                url |-> p.url, token |-> p.token, auth |-> p.auth]
    BY <2>1, <2>2, <2>3
  <2>. QED  BY <2>4 DEF p
<1>6. D = CarriedResult("rpc0", "ListTaskPushConfigs", v)
  <2>1. CarriedResult("rpc0", "ListTaskPushConfigs", v) =
          [i \in DOMAIN v.configs |->
             [tenant |-> CarriedTenant("rpc0", v.configs[i].tenant), task |-> v.configs[i].task,
              id |-> v.configs[i].id, url |-> v.configs[i].url, token |-> v.configs[i].token,
              auth |-> v.configs[i].auth]]
    BY CarriedPushListIs
  <2>2. DOMAIN D = DOMAIN v.configs /\ D = [i \in DOMAIN D |-> D[i]]
    OBVIOUS
  <2>. HIDE DEF D
  <2>. QED  BY <1>5, <2>1, <2>2
<1>7. \A i \in DOMAIN D : D[i] # Err
  <2>1. DOMAIN D = DOMAIN v.configs
    OBVIOUS
  <2>. HIDE DEF D
  <2>. QED  BY <1>5, <2>1 DEF NotAFunction
<1>8. Struct(D) = D
  <2>. HIDE DEF D
  <2>. QED  BY <1>7, StructIs
<1>. HIDE DEF W, D
<1>. QED  BY <1>2, <1>3, <1>4, <1>6, <1>8

\* The same over HTTP+JSON of version 0.3: a configuration whose name has no task has the one asked for.
LEMMA PushListOfP0 ==
    ASSUME NotAFunction(Nil), NotAFunction(Err), NEW r, NEW v, IsPushList("rest0", r, v),
           P0!ToProtoListPushConfigsResponse(v.configs) # Err
    PROVE  P0!FromProtoListPushConfigsResponse(P0!ToProtoListPushConfigsResponse(v.configs), r.task) =
             CarriedResult("rest0", "ListTaskPushConfigs", v)
<1>. DEFINE W == [i \in DOMAIN v.configs |-> P0!taskPushNotificationConfigToWire(v.configs[i])]
            D == [i \in DOMAIN W |->
                    [P0!taskPushNotificationConfigFromWire(W[i]) EXCEPT !.task = IF @ = "" THEN r.task ELSE @]]
<1>1. \A i \in DOMAIN v.configs : IsPush(v.configs[i]) /\ IsPushOf("rest0", r, v.configs[i])
  BY DEF IsPushList, IsPushOf
<1>2. P0!ToProtoListPushConfigsResponse(v.configs) = Struct(W)
  BY WireOfP0 DEF P0!ToProtoListPushConfigsResponse, P0!Each
<1>3. Struct(W) = W
  BY <1>2, Converted
<1>4. P0!FromProtoListPushConfigsResponse(W, r.task) = Struct(D)
  BY WireOfP0 DEF P0!FromProtoListPushConfigsResponse, P0!Each
<1>5. ASSUME NEW i \in DOMAIN v.configs
      PROVE  D[i] =
                [tenant |-> CarriedTenant("rest0", v.configs[i].tenant), task |-> v.configs[i].task,
                 id |-> v.configs[i].id, url |-> v.configs[i].url, token |-> v.configs[i].token,
                 auth |-> v.configs[i].auth]
  <2>. DEFINE p == v.configs[i]
              q == P0!taskPushNotificationConfigFromWire(W[i])
  <2>1. /\ P0!taskPushNotificationConfigFromWire(P0!taskPushNotificationConfigToWire(p)) =
             [tenant |-> "", task |-> CarriedName("rest0", p), id |-> p.id, url |-> p.url,
              token |-> p.token, auth |-> p.auth]
        /\ p.task = r.task
    BY <1>1, PushResultOfP0 DEF IsPushOf, CarriedId
  <2>2. CarriedTenant("rest0", p.tenant) = "" /\ CarriedName("rest0", p) \in {"", p.task}
    BY DEF CarriedTenant, Legacy, CarriedName
  <2>3. W[i] = P0!taskPushNotificationConfigToWire(p)
    OBVIOUS
  <2>4. D[i] = [q EXCEPT !.task = IF @ = "" THEN r.task ELSE @]
    OBVIOUS
  <2>. HIDE DEF p, W, D
  <2>5. q = [tenant |-> "", task |-> CarriedName("rest0", p), id |-> p.id, url |-> p.url,
             token |-> p.token, auth |-> p.auth]
    BY <2>1, <2>3
  <2>. HIDE DEF q
  <2>6. D[i] = [tenant |-> CarriedTenant("rest0", p.tenant), task |-> p.task, id |-> p.id,
                url |-> p.url, token |-> p.token, auth |-> p.auth]
    BY <2>1, <2>2, <2>4, <2>5
  <2>. QED  BY <2>6 DEF p
<1>6. D = CarriedResult("rest0", "ListTaskPushConfigs", v)
  <2>1. CarriedResult("rest0", "ListTaskPushConfigs", v) =
          [i \in DOMAIN v.configs |->
             [tenant |-> CarriedTenant("rest0", v.configs[i].tenant), task |-> v.configs[i].task,
              id |-> v.configs[i].id, url |-> v.configs[i].url, token |-> v.configs[i].token,
              auth |-> v.configs[i].auth]]
    BY CarriedPushListIs
  <2>2. DOMAIN D = DOMAIN v.configs /\ D = [i \in DOMAIN D |-> D[i]]
    OBVIOUS
  <2>. HIDE DEF D
  <2>. QED  BY <1>5, <2>1, <2>2
<1>7. \A i \in DOMAIN D : D[i] # Err
  <2>1. DOMAIN D = DOMAIN v.configs
    OBVIOUS
  <2>. HIDE DEF D
  <2>. QED  BY <1>5, <2>1 DEF NotAFunction
<1>8. Struct(D) = D
  <2>. HIDE DEF D
  <2>. QED  BY <1>7, StructIs
<1>. HIDE DEF W, D
<1>. QED  BY <1>2, <1>3, <1>4, <1>6, <1>8

\* A list of push configurations in JSON of version 1 is its own.
LEMMA PushListOfJ1 ==
    ASSUME NEW b \in JSON, NEW r, NEW v, IsPushList(b, r, v)
    PROVE  v.configs = CarriedResult(b, "ListTaskPushConfigs", v)
<1>. DEFINE C == [i \in DOMAIN v.configs |->
                    [tenant |-> CarriedTenant(b, v.configs[i].tenant), task |-> v.configs[i].task,
                     id |-> v.configs[i].id, url |-> v.configs[i].url, token |-> v.configs[i].token,
                     auth |-> v.configs[i].auth]]
<1>1. v.configs = [i \in DOMAIN v.configs |-> v.configs[i]]
  BY ListIs DEF IsPushList
<1>2. ASSUME NEW i \in DOMAIN v.configs PROVE C[i] = v.configs[i]
  <2>1. IsPush(v.configs[i])
    BY DEF IsPushList, IsPushOf
  <2>2. CarriedTenant(b, v.configs[i].tenant) = v.configs[i].tenant
    BY DEF CarriedTenant, JSON, Legacy
  <2>. QED  BY <2>1, <2>2 DEF IsPush
<1>3. CarriedResult(b, "ListTaskPushConfigs", v) = C
  BY CarriedPushListIs
<1>4. C = [i \in DOMAIN v.configs |-> C[i]]
  OBVIOUS
<1>. HIDE DEF C
<1>. QED  BY <1>1, <1>2, <1>3, <1>4

\* The result of a message that crosses gRPC of version 1.
LEMMA SendResultOfV1 ==
    ASSUME NotAFunction(Nil), NotAFunction(Err), NEW v, IsSendResult(v),
           V1!ToProtoSendMessageResponse(v) # Err,
           V1!FromProtoSendMessageResponse(V1!ToProtoSendMessageResponse(v)) # Err
    PROVE  V1!FromProtoSendMessageResponse(V1!ToProtoSendMessageResponse(v)) = CarriedEvent("grpc1", v)
<1>1. CASE v.type = "message" /\ IsMessage(v)
  <2>1. /\ V1!toProtoMessage(v) # Err
        /\ V1!ToProtoSendMessageResponse(v) = [payload |-> "message", value |-> V1!toProtoMessage(v)]
    BY <1>1 DEF V1!ToProtoSendMessageResponse, V1!Payload
  <2>2. V1!FromProtoSendMessageResponse(V1!ToProtoSendMessageResponse(v)) = V1!FromProtoMessage(V1!toProtoMessage(v))
    BY <2>1 DEF V1!FromProtoSendMessageResponse
  <2>. QED  BY <1>1, <2>1, <2>2, MessageOfV1, CarriedEventIs
<1>2. CASE v.type = "task" /\ IsTask(v)
  <2>1. /\ V1!ToProtoTask(v) # Err
        /\ V1!ToProtoSendMessageResponse(v) = [payload |-> "task", value |-> V1!ToProtoTask(v)]
    BY <1>2 DEF V1!ToProtoSendMessageResponse, V1!Payload
  <2>2. V1!FromProtoSendMessageResponse(V1!ToProtoSendMessageResponse(v)) = V1!FromProtoTask(V1!ToProtoTask(v))
    BY <2>1 DEF V1!FromProtoSendMessageResponse
  <2>. QED  BY <1>2, <2>1, <2>2, TaskOfV1, CarriedEventIs
<1>. QED  BY <1>1, <1>2 DEF IsSendResult

\* The result of a message that crosses gRPC of version 0.3.
LEMMA SendResultOfV0 ==
    ASSUME NotAFunction(Nil), NotAFunction(Err), NEW v, IsSendResult(v),
           V0!ToProtoSendMessageResponse(v) # Err,
           V0!FromProtoSendMessageResponse(V0!ToProtoSendMessageResponse(v)) # Err
    PROVE  V0!FromProtoSendMessageResponse(V0!ToProtoSendMessageResponse(v)) = CarriedEvent("grpc0", v)
<1>1. CASE v.type = "message" /\ IsMessage(v)
  <2>1. /\ V0!toProtoMessage(v) # Err
        /\ V0!ToProtoSendMessageResponse(v) = [payload |-> "msg", value |-> V0!toProtoMessage(v)]
    BY <1>1 DEF V0!ToProtoSendMessageResponse, V0!Payload
  <2>2. V0!FromProtoSendMessageResponse(V0!ToProtoSendMessageResponse(v)) = V0!FromProtoMessage(V0!toProtoMessage(v))
    BY <2>1 DEF V0!FromProtoSendMessageResponse
  <2>. QED  BY <1>1, <2>1, <2>2, MessageOfV0, CarriedEventIs
<1>2. CASE v.type = "task" /\ IsTask(v)
  <2>1. /\ V0!ToProtoTask(v) # Err
        /\ V0!ToProtoSendMessageResponse(v) = [payload |-> "task", value |-> V0!ToProtoTask(v)]
    BY <1>2 DEF V0!ToProtoSendMessageResponse, V0!Payload
  <2>2. V0!FromProtoSendMessageResponse(V0!ToProtoSendMessageResponse(v)) = V0!FromProtoTask(V0!ToProtoTask(v))
    BY <2>1 DEF V0!FromProtoSendMessageResponse
  <2>. QED  BY <1>2, <2>1, <2>2, TaskOfV0, CarriedEventIs
<1>. QED  BY <1>1, <1>2 DEF IsSendResult

\* The result of a message that crosses HTTP+JSON of version 0.3.
LEMMA SendResultOfP0 ==
    ASSUME NotAFunction(Nil), NotAFunction(Err), NEW v, IsSendResult(v),
           P0!ToProtoSendMessageResult(v) # Err
    PROVE  P0!FromProtoSendMessageResponse(P0!ToProtoSendMessageResult(v)) = CarriedEvent("rest0", v)
<1>1. CASE v.type = "message" /\ IsMessage(v)
  <2>1. /\ P0!messageToWire(v) # Err
        /\ P0!ToProtoSendMessageResult(v) = [key |-> "message", value |-> P0!messageToWire(v)]
    BY <1>1 DEF P0!ToProtoSendMessageResult, P0!Key
  <2>2. P0!FromProtoSendMessageResponse(P0!ToProtoSendMessageResult(v)) = P0!messageFromWire(P0!messageToWire(v))
    BY <2>1 DEF P0!FromProtoSendMessageResponse
  <2>. QED  BY <1>1, <2>1, <2>2, MessageOfP0, CarriedEventIs
<1>2. CASE v.type = "task" /\ IsTask(v)
  <2>1. /\ P0!taskToWire(v) # Err
        /\ P0!ToProtoSendMessageResult(v) = [key |-> "task", value |-> P0!taskToWire(v)]
    BY <1>2 DEF P0!ToProtoSendMessageResult, P0!Key
  <2>2. P0!FromProtoSendMessageResponse(P0!ToProtoSendMessageResult(v)) = P0!taskFromWire(P0!taskToWire(v))
    BY <2>1 DEF P0!FromProtoSendMessageResponse
  <2>. QED  BY <1>2, <2>1, <2>2, TaskOfP0, CarriedEventIs
<1>. QED  BY <1>1, <1>2 DEF IsSendResult
-----------------------------------------------------------------------------
(* Results of one call, over every binding *)

\* The methods with one result that is not a card.
ResultMethods == Methods \ (StreamMethods \cup {"GetExtendedAgentCard"})

\* A result is one of its method.
LEMMA ResultIs ==
    ASSUME NEW b, NEW m \in ResultMethods, NEW r, NEW v, IsResult(b, m, r, v)
    PROVE  /\ m \in {"SendMessage", "GetTask", "CancelTask", "ListTasks", "CreateTaskPushConfig",
                      "GetTaskPushConfig", "ListTaskPushConfigs", "DeleteTaskPushConfig"}
           /\ m = "SendMessage" => IsSendResult(v)
           /\ m \in {"GetTask", "CancelTask"} => IsTask(v)
           /\ m = "ListTasks" => IsTaskList(v)
           /\ m \in {"CreateTaskPushConfig", "GetTaskPushConfig"} => IsPushOf(b, r, v) /\ IsPush(v)
           /\ m = "ListTaskPushConfigs" => IsPushList(b, r, v)
           /\ m = "DeleteTaskPushConfig" => v = Empty
<1>1. m \in {"SendMessage", "GetTask", "CancelTask", "ListTasks", "CreateTaskPushConfig",
            "GetTaskPushConfig", "ListTaskPushConfigs", "DeleteTaskPushConfig"}
  BY DEF ResultMethods, Methods, StreamMethods
<1>2. IsPushOf(b, r, v) => IsPush(v)
  BY DEF IsPushOf
<1>. QED  BY <1>1, <1>2, ZenonT(30) DEF IsResult

\* What has no content carries it.
LEMMA CarriedEmpty == ASSUME NEW b PROVE CarriedResult(b, "DeleteTaskPushConfig", Empty) = Empty
BY DEF CarriedResult, StreamMethods

\* A result that crosses gRPC of version 1.
LEMMA ResultOfV1 ==
    ASSUME NotAFunction(Nil), NotAFunction(Err), NEW m \in ResultMethods, NEW r, NEW v,
           IsResult("grpc1", m, r, v), grpc1Response(m, v) # Err, grpc1Result(m, grpc1Response(m, v)) # Err
    PROVE  grpc1Result(m, grpc1Response(m, v)) = CarriedResult("grpc1", m, v)
<1>1. CASE m = "SendMessage"
  <2>1. grpc1Response(m, v) = V1!ToProtoSendMessageResponse(v)
    BY <1>1 DEF grpc1Response, StreamMethods
  <2>2. grpc1Result(m, grpc1Response(m, v)) = V1!FromProtoSendMessageResponse(V1!ToProtoSendMessageResponse(v))
    BY <1>1, <2>1 DEF grpc1Result, StreamMethods
  <2>. QED  BY <1>1, <2>1, <2>2, ResultIs, SendResultOfV1, CarriedSendResultIs
<1>2. CASE m \in {"GetTask", "CancelTask"}
  <2>1. grpc1Response(m, v) = V1!ToProtoTask(v)
    BY <1>2 DEF grpc1Response, StreamMethods
  <2>2. grpc1Result(m, grpc1Response(m, v)) = V1!FromProtoTask(V1!ToProtoTask(v))
    BY <1>2, <2>1 DEF grpc1Result, StreamMethods
  <2>. QED  BY <1>2, <2>1, <2>2, ResultIs, TaskOfV1, CarriedSendResultIs
<1>3. CASE m = "ListTasks"
  <2>1. grpc1Response(m, v) = V1!ToProtoListTasksResponse(v)
    BY <1>3 DEF grpc1Response, StreamMethods
  <2>2. grpc1Result(m, grpc1Response(m, v)) = V1!FromProtoListTasksResponse(V1!ToProtoListTasksResponse(v))
    BY <1>3, <2>1 DEF grpc1Result, StreamMethods
  <2>. QED  BY <1>3, <2>1, <2>2, ResultIs, TaskListOfV1
<1>4. CASE m \in {"CreateTaskPushConfig", "GetTaskPushConfig"}
  <2>1. grpc1Response(m, v) = V1!ToProtoTaskPushConfig(v)
    BY <1>4 DEF grpc1Response, StreamMethods
  <2>2. grpc1Result(m, grpc1Response(m, v)) = V1!FromProtoTaskPushConfig(V1!ToProtoTaskPushConfig(v))
    BY <1>4, <2>1 DEF grpc1Result, StreamMethods
  <2>3. IsPush(v)
    BY <1>4, ResultIs
  <2>4. V1!FromProtoTaskPushConfig(V1!ToProtoTaskPushConfig(v)) = v
    BY <2>2, <2>3, PushOfV1
  <2>5. CarriedResult("grpc1", m, v) = v
    BY <1>4, <2>3, CarriedPushResult
  <2>. QED  BY <2>2, <2>4, <2>5
<1>5. CASE m = "ListTaskPushConfigs"
  <2>1. grpc1Response(m, v) = V1!ToProtoListTaskPushConfigResponse(v)
    BY <1>5 DEF grpc1Response, StreamMethods
  <2>2. grpc1Result(m, grpc1Response(m, v)) = (LET q == V1!FromProtoListTaskPushConfigResponse(V1!ToProtoListTaskPushConfigResponse(v))
                IN IF q = Err THEN Err ELSE q.configs)
    BY <1>5, <2>1 DEF grpc1Result, StreamMethods
  <2>. QED  BY <1>5, <2>1, <2>2, ResultIs, PushListOfV1
<1>6. CASE m = "DeleteTaskPushConfig"
  <2>1. grpc1Response(m, v) = Empty
    BY <1>6 DEF grpc1Response, StreamMethods
  <2>2. grpc1Result(m, grpc1Response(m, v)) = Empty
    BY <1>6, <2>1 DEF grpc1Result, StreamMethods
  <2>. QED  BY <1>6, <2>1, <2>2, ResultIs, CarriedEmpty
<1>. QED  BY <1>1, <1>2, <1>3, <1>4, <1>5, <1>6, ResultIs

\* A result that crosses gRPC of version 0.3.
LEMMA ResultOfV0 ==
    ASSUME NotAFunction(Nil), NotAFunction(Err), NEW m \in ResultMethods, NEW r, NEW v,
           IsResult("grpc0", m, r, v), grpc0Response(m, v) # Err, grpc0Result(m, grpc0Response(m, v)) # Err
    PROVE  grpc0Result(m, grpc0Response(m, v)) = CarriedResult("grpc0", m, v)
<1>1. CASE m = "SendMessage"
  <2>1. grpc0Response(m, v) = V0!ToProtoSendMessageResponse(v)
    BY <1>1 DEF grpc0Response, StreamMethods
  <2>2. grpc0Result(m, grpc0Response(m, v)) = V0!FromProtoSendMessageResponse(V0!ToProtoSendMessageResponse(v))
    BY <1>1, <2>1 DEF grpc0Result, StreamMethods
  <2>. QED  BY <1>1, <2>1, <2>2, ResultIs, SendResultOfV0, CarriedSendResultIs
<1>2. CASE m \in {"GetTask", "CancelTask"}
  <2>1. grpc0Response(m, v) = V0!ToProtoTask(v)
    BY <1>2 DEF grpc0Response, StreamMethods
  <2>2. grpc0Result(m, grpc0Response(m, v)) = V0!FromProtoTask(V0!ToProtoTask(v))
    BY <1>2, <2>1 DEF grpc0Result, StreamMethods
  <2>. QED  BY <1>2, <2>1, <2>2, ResultIs, TaskOfV0, CarriedSendResultIs
<1>3. CASE m = "ListTasks"
  <2>1. grpc0Response(m, v) = V0!ToProtoListTasksResponse(v)
    BY <1>3 DEF grpc0Response, StreamMethods
  <2>2. grpc0Result(m, grpc0Response(m, v)) = V0!FromProtoListTasksResponse(V0!ToProtoListTasksResponse(v))
    BY <1>3, <2>1 DEF grpc0Result, StreamMethods
  <2>. QED  BY <1>3, <2>1, <2>2, ResultIs, TaskListOfV0
<1>4. CASE m \in {"CreateTaskPushConfig", "GetTaskPushConfig"}
  <2>1. grpc0Response(m, v) = V0!ToProtoTaskPushConfig(v)
    BY <1>4 DEF grpc0Response, StreamMethods
  <2>2. grpc0Result(m, grpc0Response(m, v)) = V0!FromProtoTaskPushConfig(V0!ToProtoTaskPushConfig(v))
    BY <1>4, <2>1 DEF grpc0Result, StreamMethods
  <2>3. IsPushOf("grpc0", r, v) /\ IsPush(v)
    BY <1>4, ResultIs
  <2>4. V0!ToProtoTaskPushConfig(v) # Err
    BY <2>1
  <2>5. V0!FromProtoTaskPushConfig(V0!ToProtoTaskPushConfig(v)) # Err
    BY <2>2
  <2>6. CarriedResult("grpc0", m, v) =
          [tenant |-> "", task |-> v.task, id |-> v.id, url |-> v.url, token |-> v.token,
           auth |-> v.auth]
    BY <1>4, <2>3, CarriedPushResult
  <2>. QED  BY <2>2, <2>3, <2>4, <2>5, <2>6, PushResultOfV0
<1>5. CASE m = "ListTaskPushConfigs"
  <2>1. grpc0Response(m, v) = V0!ToProtoListTaskPushConfigResponse(v)
    BY <1>5 DEF grpc0Response, StreamMethods
  <2>2. grpc0Result(m, grpc0Response(m, v)) = (LET q == V0!FromProtoListTaskPushConfigResponse(V0!ToProtoListTaskPushConfigResponse(v))
                IN IF q = Err THEN Err ELSE q.configs)
    BY <1>5, <2>1 DEF grpc0Result, StreamMethods
  <2>. QED  BY <1>5, <2>1, <2>2, ResultIs, PushListOfV0
<1>6. CASE m = "DeleteTaskPushConfig"
  <2>1. grpc0Response(m, v) = Empty
    BY <1>6 DEF grpc0Response, StreamMethods
  <2>2. grpc0Result(m, grpc0Response(m, v)) = Empty
    BY <1>6, <2>1 DEF grpc0Result, StreamMethods
  <2>. QED  BY <1>6, <2>1, <2>2, ResultIs, CarriedEmpty
<1>. QED  BY <1>1, <1>2, <1>3, <1>4, <1>5, <1>6, ResultIs

\* A result that crosses JSON-RPC of version 0.3.
LEMMA ResultOfC0 ==
    ASSUME NotAFunction(Nil), NotAFunction(Err), NEW m \in ResultMethods \ {"ListTasks"},
           NEW r, NEW v,
           IsResult("rpc0", m, r, v), rpc0Response(m, v) # Err, rpc0Result(m, rpc0Response(m, v)) # Err
    PROVE  rpc0Result(m, rpc0Response(m, v)) = CarriedResult("rpc0", m, v)
<1>1. CASE m = "SendMessage"
  <2>0. IsSendResult(v)
    BY <1>1, ResultIs
  <2>1. rpc0Response(m, v) = C0!FromV1Event(v)
    BY <1>1, <2>0 DEF IsSendResult, Require, rpc0Response, StreamMethods
  <2>2. rpc0Result(m, rpc0Response(m, v)) = C0!ToV1Event(C0!FromV1Event(v))
    BY <1>1, <2>1 DEF rpc0Result, StreamMethods
  <2>. QED  BY <1>1, <2>1, <2>2, ResultIs, EventOfC0, CarriedSendResultIs DEF IsEvent
<1>2. CASE m \in {"GetTask", "CancelTask"}
  <2>1. rpc0Response(m, v) = C0!FromV1Task(v)
    BY <1>2 DEF rpc0Response, StreamMethods
  <2>2. rpc0Result(m, rpc0Response(m, v)) = C0!ToV1Task(C0!FromV1Task(v))
    BY <1>2, <2>1 DEF rpc0Result, StreamMethods
  <2>. QED  BY <1>2, <2>1, <2>2, ResultIs, TaskOfC0, CarriedSendResultIs
<1>3. CASE m \in {"CreateTaskPushConfig", "GetTaskPushConfig"}
  <2>1. rpc0Response(m, v) = C0!FromV1PushConfig(v)
    BY <1>3 DEF rpc0Response, StreamMethods
  <2>2. rpc0Result(m, rpc0Response(m, v)) = C0!ToV1PushConfig(C0!FromV1PushConfig(v))
    BY <1>3, <2>1 DEF rpc0Result, StreamMethods
  <2>3. IsPush(v)
    BY <1>3, ResultIs
  <2>4. C0!ToV1PushConfig(C0!FromV1PushConfig(v)) =
          [tenant |-> "", task |-> v.task, id |-> v.id, url |-> v.url, token |-> v.token,
           auth |-> v.auth]
    BY <2>3, PushResultOfC0
  <2>5. CarriedResult("rpc0", m, v) =
          [tenant |-> "", task |-> v.task, id |-> v.id, url |-> v.url, token |-> v.token,
           auth |-> v.auth]
    BY <1>3, <2>3, CarriedPushResult
  <2>. QED  BY <2>2, <2>4, <2>5
<1>4. CASE m = "ListTaskPushConfigs"
  <2>1. rpc0Response(m, v) = C0!FromV1PushConfigs(v.configs)
    BY <1>4 DEF rpc0Response, StreamMethods
  <2>2. rpc0Result(m, rpc0Response(m, v)) = C0!ToV1PushConfigs(C0!FromV1PushConfigs(v.configs))
    BY <1>4, <2>1 DEF rpc0Result, StreamMethods
  <2>. QED  BY <1>4, <2>1, <2>2, ResultIs, PushListOfC0
<1>5. CASE m = "DeleteTaskPushConfig"
  <2>1. rpc0Response(m, v) = Empty
    BY <1>5 DEF rpc0Response, StreamMethods
  <2>2. rpc0Result(m, rpc0Response(m, v)) = Empty
    BY <1>5, <2>1 DEF rpc0Result, StreamMethods
  <2>. QED  BY <1>5, <2>1, <2>2, ResultIs, CarriedEmpty
<1>. QED  BY <1>1, <1>2, <1>3, <1>4, <1>5, ResultIs

\* A result that crosses HTTP+JSON of version 0.3.
LEMMA ResultOfP0 ==
    ASSUME NotAFunction(Nil), NotAFunction(Err), NEW m \in ResultMethods, NEW r, NEW v,
           IsResult("rest0", m, r, v), rest0Response(m, v) # Err, rest0Result(m, rest0Response(m, v), r) # Err
    PROVE  rest0Result(m, rest0Response(m, v), r) = CarriedResult("rest0", m, v)
<1>1. CASE m = "SendMessage"
  <2>1. rest0Response(m, v) = P0!ToProtoSendMessageResult(v)
    BY <1>1 DEF rest0Response, StreamMethods
  <2>2. rest0Result(m, rest0Response(m, v), r) = P0!FromProtoSendMessageResponse(P0!ToProtoSendMessageResult(v))
    BY <1>1, <2>1 DEF rest0Result, StreamMethods
  <2>. QED  BY <1>1, <2>1, <2>2, ResultIs, SendResultOfP0, CarriedSendResultIs
<1>2. CASE m \in {"GetTask", "CancelTask"}
  <2>1. rest0Response(m, v) = P0!taskToWire(v)
    BY <1>2 DEF rest0Response, StreamMethods, P0!ToProtoTask
  <2>2. rest0Result(m, rest0Response(m, v), r) = P0!taskFromWire(P0!taskToWire(v))
    BY <1>2, <2>1 DEF P0!FromProtoTask, rest0Result, StreamMethods
  <2>. QED  BY <1>2, <2>1, <2>2, ResultIs, TaskOfP0, CarriedSendResultIs
<1>3. CASE m = "ListTasks"
  <2>1. rest0Response(m, v) = P0!ToProtoListTasksResponse(v)
    BY <1>3 DEF rest0Response, StreamMethods
  <2>2. rest0Result(m, rest0Response(m, v), r) = P0!FromProtoListTasksResponse(P0!ToProtoListTasksResponse(v))
    BY <1>3, <2>1 DEF rest0Result, StreamMethods
  <2>. QED  BY <1>3, <2>1, <2>2, ResultIs, TaskListOfP0
<1>4. CASE m \in {"CreateTaskPushConfig", "GetTaskPushConfig"}
  <2>1. rest0Response(m, v) = P0!taskPushNotificationConfigToWire(v)
    BY <1>4 DEF P0!ToProtoPushConfigResponse, rest0Response, StreamMethods
  <2>2. rest0Result(m, rest0Response(m, v), r) = P0!taskPushNotificationConfigFromWire(P0!taskPushNotificationConfigToWire(v))
    BY <1>4, <2>1 DEF P0!FromProtoPushConfigResponse, rest0Result, StreamMethods
  <2>3. IsPush(v)
    BY <1>4, ResultIs
  <2>4. P0!taskPushNotificationConfigFromWire(P0!taskPushNotificationConfigToWire(v)) =
          [tenant |-> "", task |-> CarriedName("rest0", v), id |-> v.id, url |-> v.url,
           token |-> v.token, auth |-> v.auth]
    BY <2>3, PushResultOfP0
  <2>5. CarriedResult("rest0", m, v) =
          [tenant |-> "", task |-> CarriedName("rest0", v), id |-> v.id, url |-> v.url,
           token |-> v.token, auth |-> v.auth]
    BY <1>4, <2>3, CarriedPushResult
  <2>. QED  BY <2>2, <2>4, <2>5
<1>5. CASE m = "ListTaskPushConfigs"
  <2>1. rest0Response(m, v) = P0!ToProtoListPushConfigsResponse(v.configs)
    BY <1>5 DEF rest0Response, StreamMethods
  <2>2. rest0Result(m, rest0Response(m, v), r) = P0!FromProtoListPushConfigsResponse(P0!ToProtoListPushConfigsResponse(v.configs), r.task)
    BY <1>5, <2>1 DEF rest0Result, StreamMethods
  <2>. QED  BY <1>5, <2>1, <2>2, ResultIs, PushListOfP0
<1>6. CASE m = "DeleteTaskPushConfig"
  <2>1. rest0Response(m, v) = Empty
    BY <1>6 DEF rest0Response, StreamMethods
  <2>2. rest0Result(m, rest0Response(m, v), r) = Empty
    BY <1>6, <2>1 DEF rest0Result, StreamMethods
  <2>. QED  BY <1>6, <2>1, <2>2, ResultIs, CarriedEmpty
<1>. QED  BY <1>1, <1>2, <1>3, <1>4, <1>5, <1>6, ResultIs

\* A result that crosses the JSON of version 1.
LEMMA ResultOfJ1 ==
    ASSUME NotAFunction(Nil), NotAFunction(Err), NEW b \in JSON, NEW m \in ResultMethods, NEW r, NEW v,
           IsResult(b, m, r, v), rpc1Response(m, v) # Err, rpc1Result(m, rpc1Response(m, v)) # Err
    PROVE  rpc1Result(m, rpc1Response(m, v)) = CarriedResult(b, m, v)
<1>1. CASE m = "SendMessage"
  <2>1. rpc1Response(m, v) = J1!MarshalEvent(v)
    BY <1>1 DEF rpc1Response, StreamMethods
  <2>2. rpc1Result(m, rpc1Response(m, v)) = J1!UnmarshalSendMessageResult(J1!MarshalEvent(v))
    BY <1>1, <2>1 DEF rpc1Result, StreamMethods
  <2>3. J1!UnmarshalSendMessageResult(J1!MarshalEvent(v)) = J1!UnmarshalEvent(J1!MarshalEvent(v))
    BY <2>2 DEF J1!UnmarshalSendMessageResult, J1!Require
  <2>. QED  BY <1>1, <2>1, <2>2, ResultIs, <2>3, EventOfJ1, CarriedSendResultIs DEF IsEvent
<1>2. CASE m \in {"GetTask", "CancelTask"}
  <2>1. rpc1Response(m, v) = J1!MarshalTask(v)
    BY <1>2 DEF rpc1Response, StreamMethods
  <2>2. rpc1Result(m, rpc1Response(m, v)) = J1!UnmarshalTask(J1!MarshalTask(v))
    BY <1>2, <2>1 DEF rpc1Result, StreamMethods
  <2>. QED  BY <1>2, <2>1, <2>2, ResultIs, TaskOfJ1, CarriedSendResultIs
<1>3. CASE m = "ListTasks"
  <2>1. rpc1Response(m, v) = J1!MarshalListTasksResponse(v)
    BY <1>3 DEF rpc1Response, StreamMethods
  <2>2. rpc1Result(m, rpc1Response(m, v)) = J1!UnmarshalListTasksResponse(J1!MarshalListTasksResponse(v))
    BY <1>3, <2>1 DEF rpc1Result, StreamMethods
  <2>. QED  BY <1>3, <2>1, <2>2, ResultIs, TaskListOfJ1
<1>4. CASE m \in {"CreateTaskPushConfig", "GetTaskPushConfig"}
  <2>1. rpc1Response(m, v) = v
    BY <1>4 DEF rpc1Response, StreamMethods
  <2>2. rpc1Result(m, rpc1Response(m, v)) = v
    BY <1>4, <2>1 DEF rpc1Result, StreamMethods
  <2>3. IsPush(v)
    BY <1>4, ResultIs
  <2>4. CarriedResult("rpc1", m, v) = v /\ CarriedResult("rest1", m, v) = v
    BY <1>4, <2>3, CarriedPushResult
  <2>. QED  BY <2>2, <2>4 DEF JSON
<1>5. CASE m = "ListTaskPushConfigs"
  <2>1. rpc1Response(m, v) = v
    BY <1>5 DEF rpc1Response, StreamMethods
  <2>2. rpc1Result(m, rpc1Response(m, v)) = v.configs
    BY <1>5, <2>1 DEF rpc1Result, StreamMethods
  <2>3. IsPushList(b, r, v)
    BY <1>5, ResultIs
  <2>. QED  BY <1>5, <2>2, <2>3, PushListOfJ1
<1>6. CASE m = "DeleteTaskPushConfig"
  <2>1. rpc1Response(m, v) = v
    BY <1>6 DEF rpc1Response, StreamMethods
  <2>2. rpc1Result(m, rpc1Response(m, v)) = v
    BY <1>6, <2>1 DEF rpc1Result, StreamMethods
  <2>. QED  BY <1>6, <2>1, <2>2, ResultIs, CarriedEmpty
<1>. QED  BY <1>1, <1>2, <1>3, <1>4, <1>5, <1>6, ResultIs

\* A result that is written and read is the one the binding carries.
LEMMA ResultCrosses ==
    ASSUME NotAFunction(Nil), NotAFunction(Err), NEW b \in Bindings, NEW m \in ResultMethods,
           ~(b = "rpc0" /\ m = "ListTasks"), NEW r, NEW v, IsResult(b, m, r, v),
           EncodeResult(b, m, v) # Err, DecodeResult(b, m, EncodeResult(b, m, v), r) # Err
    PROVE  DecodeResult(b, m, EncodeResult(b, m, v), r) = CarriedResult(b, m, v)
<1>1. CASE b = "grpc1"
  <2>1. EncodeResult(b, m, v) = grpc1Response(m, v)
    BY <1>1 DEF EncodeResult
  <2>2. DecodeResult(b, m, EncodeResult(b, m, v), r) = grpc1Result(m, grpc1Response(m, v))
    BY <1>1, <2>1 DEF DecodeResult
  <2>. QED  BY <1>1, <2>1, <2>2, ResultOfV1
<1>2. CASE b = "grpc0"
  <2>1. EncodeResult(b, m, v) = grpc0Response(m, v)
    BY <1>2 DEF EncodeResult
  <2>2. DecodeResult(b, m, EncodeResult(b, m, v), r) = grpc0Result(m, grpc0Response(m, v))
    BY <1>2, <2>1 DEF DecodeResult
  <2>. QED  BY <1>2, <2>1, <2>2, ResultOfV0
<1>3. CASE b = "rpc0"
  <2>1. EncodeResult(b, m, v) = rpc0Response(m, v)
    BY <1>3 DEF EncodeResult
  <2>2. DecodeResult(b, m, EncodeResult(b, m, v), r) = rpc0Result(m, rpc0Response(m, v))
    BY <1>3, <2>1 DEF DecodeResult
  <2>3. m \in ResultMethods \ {"ListTasks"}
    BY <1>3
  <2>. QED  BY <1>3, <2>1, <2>2, <2>3, ResultOfC0
<1>4. CASE b = "rest0"
  <2>1. EncodeResult(b, m, v) = rest0Response(m, v)
    BY <1>4 DEF EncodeResult
  <2>2. DecodeResult(b, m, EncodeResult(b, m, v), r) = rest0Result(m, rest0Response(m, v), r)
    BY <1>4, <2>1 DEF DecodeResult
  <2>. QED  BY <1>4, <2>1, <2>2, ResultOfP0
<1>5. CASE b = "rpc1"
  <2>1. EncodeResult(b, m, v) = rpc1Response(m, v)
    BY <1>5 DEF EncodeResult
  <2>2. DecodeResult(b, m, EncodeResult(b, m, v), r) = rpc1Result(m, rpc1Response(m, v))
    BY <1>5, <2>1 DEF DecodeResult
  <2>. QED  BY <1>5, <2>1, <2>2, ResultOfJ1 DEF JSON
<1>6. CASE b = "rest1"
  <2>1. EncodeResult(b, m, v) = rpc1Response(m, v)
    BY <1>6 DEF EncodeResult, rest1Response
  <2>2. DecodeResult(b, m, EncodeResult(b, m, v), r) = rpc1Result(m, rpc1Response(m, v))
    BY <1>6, <2>1 DEF DecodeResult, rest1Result
  <2>. QED  BY <1>6, <2>1, <2>2, ResultOfJ1 DEF JSON
<1>. QED  BY <1>1, <1>2, <1>3, <1>4, <1>5, <1>6 DEF Bindings
=============================================================================
