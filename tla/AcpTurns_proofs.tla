------------------------- MODULE AcpTurns_proofs --------------------------
(***************************************************************************)
(* Proofs about the turns of the ACP executor: its books, that a question  *)
(* is answered at most once, that the end of a turn is reported and that   *)
(* an answer beats the exit of the agent that gave it.                     *)
(***************************************************************************)
EXTENDS AcpTurns, FiniteSetTheorems, WellFoundedInduction, TLAPS

LEMMA Bounds ==
    /\ MaxTurns \in Nat /\ MaxQuestions \in Nat /\ MaxCalls \in Nat /\ MaxProcs \in Nat \ {0}
    /\ 0 \in 0..MaxTurns /\ 0 \in 0..MaxQuestions /\ 0 \in 0..MaxCalls /\ 0 \in 0..MaxProcs
    /\ ContextOf \in [Tasks -> Contexts] /\ None \notin Tasks
BY ConnAssumption, TurnsAssumption

-----------------------------------------------------------------------------
(***************************************************************************)
(* The invariant.                                                          *)
(***************************************************************************)
\* The program points at which Execute works on a turn.
OnTurn == {"answer", "take", "reply", "interrupt", "working", "pump", "ask", "pausing"}

\* Execute waits while it is locking or starting, holds the lock of its
\* context while it starts, and works on turns of its own task.  An Execute is
\* given up only for a task that has ended.
ExecOK(t) ==
    LET e == exec[t]
    IN  /\ t \in waiting <=> e.pc = "lock" \/ Starting(t)
        /\ Starting(t) => holder[ContextOf[t]] = t
        /\ e.pc \in OnTurn => e.turn \in TurnIds /\ turns[e.turn].task = t
        /\ e.pc \in {"answer", "take", "interrupt"} => e.q # 0
        /\ e.pc \in {"session", "call", "register"} => e.proc \in Procs
        /\ e.load \/ e.pc = "register" => session[ContextOf[t]] # 0
        /\ e.gone => stored[t] \in Terminal
        /\ cancel[t].turn # 0 => cancel[t].turn \in TurnIds /\ turns[cancel[t].turn].task = t

\* A turn is in the maps until its prompt goroutine is done, has ended when
\* that goroutine has passed end, and holds the lock of its context.
TurnOK(i) ==
    LET tr == turns[i]
    IN  /\ tr.registered <=> tr.prompt # "done"
        /\ tr.ended <=> tr.prompt \in {"ended", "reported", "done"}
        /\ tr.prompt \in {"responded", "ended", "reported"}
              => tr.result \in Terminal /\ tr.report \in Terminal
        /\ tr.registered => holder[ContextOf[tr.task]] = tr.task /\ ~Starting(tr.task)
        /\ tr.registered => \A j \in TurnIds : turns[j].registered /\ turns[j].task = tr.task => j = i

DrainOK ==
    /\ shut.drained => shut.draining
    /\ DrainedIsQuiet

\* Every session/new that succeeded or is under way was a call of its own.
Callers == {t \in Tasks : exec[t].pc = "call"}
SessionsOK == IsFiniteSet(Callers) /\ nextSession + Cardinality(Callers) <= nextID + 1

LockInv ==
    /\ TypeOK
    /\ \A t \in Tasks : ExecOK(t)
    /\ \A i \in TurnIds : TurnOK(i)
    /\ DrainOK /\ SessionsOK

-----------------------------------------------------------------------------
\* A question is with the reader, in the queue of its turn, in the hands of
\* Execute or pending, in one of these places only, and not answered there.
Queued(i, q) ==
    \E k \in DOMAIN turns[i].events : IsQuestion(turns[i].events[k]) /\ turns[i].events[k].q = q
InHand(t) == exec[t].pc \in {"ask", "reply"}
Open(i, q) == q \in DOMAIN questions /\ questions[q].turn = i /\ questions[q].answers = 0

QueueOK(i) ==
    LET events == turns[i].events
    IN  /\ \A k \in DOMAIN events : IsQuestion(events[k]) => Open(i, events[k].q)
        /\ \A k, l \in DOMAIN events :
              IsQuestion(events[k]) /\ IsQuestion(events[l]) /\ events[k].q = events[l].q => k = l
        /\ turns[i].pending # 0 =>
              /\ ~turns[i].canceled /\ ~turns[i].ended
              /\ Open(i, turns[i].pending) /\ ~Queued(i, turns[i].pending)

HandOK(t) ==
    InHand(t) =>
        LET i == exec[t].turn
            q == exec[t].q
        IN  Open(i, q) /\ ~Queued(i, q) /\ turns[i].pending # q

ReaderOK(p) ==
    reader[p] # 0 =>
        LET q == reader[p]
            i == questions[q].turn
        IN  /\ i \in TurnIds /\ turns[i].proc = p
            /\ Open(i, q) /\ ~Queued(i, q) /\ turns[i].pending # q
            /\ ~(InHand(turns[i].task) /\ exec[turns[i].task].q = q)

QuestionInv ==
    /\ Len(questions) <= MaxQuestions
    /\ \A q \in DOMAIN questions : questions[q].answers <= 1 /\ questions[q].turn \in TurnIds
    /\ \A i \in TurnIds : QueueOK(i)
    /\ \A t \in Tasks : HandOK(t)
    /\ \A p \in Procs : ReaderOK(p)

-----------------------------------------------------------------------------
\* The end of turn i was reported or will be: it is paused, or about to be
\* reported.
WillReport(i) ==
    \/ turns[i].paused /\ ~turns[i].ended
    \/ turns[i].prompt = "ended"
    \/ i \in abandoned

\* An Execute begins on a task that waits for an answer or has no turn yet.
NoTurnOf(t) == \A i \in TurnIds : turns[i].task # t

ReportOK(t) ==
    /\ stored[t] = "none" => exec[t].pc = "idle" /\ NoTurnOf(t)
    /\ exec[t].pc = "decide" => stored[t] \in Terminal \cup {"input-required"} \/ NoTurnOf(t)
    /\ stored[t] = "input-required" /\ exec[t].pc \in {"idle", "decide"}
          => \E i \in TurnIds : turns[i].task = t /\ WillReport(i)
    /\ exec[t].pc = "pausing" /\ stored[t] \notin Terminal => WillReport(exec[t].turn)

ReportInv == \A t \in Tasks : ReportOK(t)

Inv == LockInv /\ QuestionInv /\ ReportInv

-----------------------------------------------------------------------------
(***************************************************************************)
(* Single turns.                                                           *)
(***************************************************************************)
\* The numbers up to some bound that are in S are finitely many, and S has an
\* n-th element.
LEMMA NthExists ==
    ASSUME NEW m \in Nat, NEW S, S \subseteq 1..m, NEW n \in 1..Cardinality(S)
    PROVE  Nth(S, n) \in S
<1>. DEFINE UpTo(k) == {j \in S : j <= k}
<1>0. \A j \in S : j \in Nat /\ 1 <= j /\ j <= m
  OBVIOUS
<1>1. IsFiniteSet(S) /\ Cardinality(S) \in Nat
  <2>1. IsFiniteSet(1..m)
    BY FS_Interval
  <2>. QED  BY <2>1, FS_Subset, FS_CardinalityType
<1>2. ASSUME NEW k \in Nat  PROVE IsFiniteSet(UpTo(k)) /\ Cardinality(UpTo(k)) \in Nat
  BY <1>1, FS_Subset, FS_CardinalityType
<1>. DEFINE T == {k \in Nat : n <= Cardinality(UpTo(k))}
<1>3. m \in T
  <2>1. UpTo(m) = S
    BY <1>0
  <2>. QED  BY <1>1, <2>1
<1>4. PICK x \in T : \A y \in T : ~(<<y, x>> \in OpToRel(<, Nat))
  <2>1. T \subseteq Nat /\ T # {}
    BY <1>3
  <2>. HIDE DEF T
  <2>. QED  BY <2>1, WFMin, NatLessThanWellFounded
<1>5. \A y \in T : ~(y < x)
  BY <1>4 DEF OpToRel
<1>6. x # 0
  <2>0. \A j \in S : ~(j <= 0)
    BY <1>0
  <2>1. UpTo(0) = {}
    BY <2>0
  <2>2. Cardinality(UpTo(0)) = 0
    BY <2>1, FS_EmptySet
  <2>. QED  BY <2>2
<1>7. x - 1 \in Nat /\ x - 1 < x /\ x \in Nat
  BY <1>6
<1>8. Cardinality(UpTo(x - 1)) < n
  <2>1. ~(n <= Cardinality(UpTo(x - 1)))
    BY <1>5, <1>7
  <2>2. Cardinality(UpTo(x - 1)) \in Nat
    BY <1>2, <1>7
  <2>. HIDE DEF UpTo
  <2>. QED  BY <1>1, <2>1, <2>2
<1>9. x \in S
  <2>1. SUFFICES ASSUME x \notin S  PROVE FALSE
    OBVIOUS
  <2>2. \A j \in S : j <= x <=> j <= x - 1
    BY <1>0, <1>7, <2>1
  <2>3. UpTo(x) = UpTo(x - 1)
    BY <2>2
  <2>4. n <= Cardinality(UpTo(x)) /\ Cardinality(UpTo(x)) \in Nat
    BY <1>2, <1>7
  <2>. HIDE DEF UpTo
  <2>. QED  BY <1>1, <1>8, <2>3, <2>4
<1>10. Cardinality(UpTo(x)) = Cardinality(UpTo(x - 1)) + 1
  <2>0. \A j \in S : (j <= x <=> j <= x - 1 \/ j = x) /\ ~(x <= x - 1)
    BY <1>0, <1>7
  <2>1. UpTo(x) = UpTo(x - 1) \cup {x} /\ x \notin UpTo(x - 1)
    BY <1>9, <2>0
  <2>. HIDE DEF UpTo
  <2>. QED  BY <1>2, <1>7, <2>1, FS_AddElement
<1>11. Cardinality(UpTo(x)) = n
  <2>1. n <= Cardinality(UpTo(x)) /\ Cardinality(UpTo(x - 1)) \in Nat
    BY <1>2, <1>7
  <2>. HIDE DEF UpTo
  <2>. QED  BY <1>1, <1>8, <1>10, <2>1
<1>. QED  BY <1>9, <1>11 DEF Nth

\* removeIf leaves no question.
LEMMA Removed ==
    ASSUME NEW events \in Seq(Event)
    PROVE  /\ removeIf(events) \in Seq(Event)
           /\ \A k \in DOMAIN removeIf(events) : ~IsQuestion(removeIf(events)[k])
<1>. DEFINE S == Kept(events)
<1>1. Len(events) \in Nat /\ S \subseteq 1..Len(events)
  BY DEF Kept
<1>2. Cardinality(S) \in Nat
  <2>1. IsFiniteSet(1..Len(events))
    BY <1>1, FS_Interval
  <2>. HIDE DEF S
  <2>. QED  BY <1>1, <2>1, FS_Subset, FS_CardinalityType
<1>3. \A n \in 1..Cardinality(S) : events[Nth(S, n)] \in Event /\ ~IsQuestion(events[Nth(S, n)])
  BY <1>1, NthExists DEF Kept
<1>. HIDE DEF S
<1>. QED  BY <1>2, <1>3 DEF removeIf, S
\* What cancelTurn and the timers leave alone of a turn.
Alike(a, b) ==
    /\ a.task = b.task /\ a.proc = b.proc /\ a.prompt = b.prompt /\ a.result = b.result
    /\ a.report = b.report /\ a.ended = b.ended /\ a.registered = b.registered

\* Only turn i changes.
OneTurn(i) ==
    /\ turns' \in Seq(Turn) /\ Len(turns') = Len(turns)
    /\ \A j \in TurnIds : j # i => turns'[j] = turns[j]

NoQuestions(tr) == tr.pending = 0 /\ \A k \in DOMAIN tr.events : ~IsQuestion(tr.events[k])

LEMMA CanceledTurn ==
    ASSUME NEW tr \in Turn
    PROVE  /\ Canceled(tr) \in Turn /\ Alike(Canceled(tr), tr)
           /\ Canceled(tr).paused = tr.paused /\ Canceled(tr).canceled
           /\ tr.canceled => Canceled(tr) = tr
           /\ ~tr.canceled => NoQuestions(Canceled(tr))
<1>1. tr.events \in Seq(Event)
  BY DEF Turn
<1>2. removeIf(tr.events) \in Seq(Event)
  BY <1>1, Removed
<1>3. CASE tr.canceled
  BY <1>3 DEF Canceled, Alike
<1>4. CASE ~tr.canceled
  <2>. DEFINE r == [tr EXCEPT !.canceled = TRUE, !.pending = 0, !.events = removeIf(@)]
  <2>1. Canceled(tr) = r
    BY <1>4 DEF Canceled
  <2>2. r \in Turn
    BY <1>2, Bounds DEF Turn
  <2>3. Alike(r, tr) /\ r.paused = tr.paused /\ r.canceled /\ r.pending = 0
        /\ r.events = removeIf(tr.events)
    BY DEF Turn, Alike
  <2>. HIDE DEF r
  <2>4. NoQuestions(r)
    BY <1>1, <2>3, Removed DEF NoQuestions
  <2>. QED  BY <1>4, <2>1, <2>2, <2>3, <2>4
<1>. QED  BY <1>3, <1>4

LEMMA TouchedTurn ==
    ASSUME NEW tr \in Turn
    PROVE  /\ touch(tr) \in Turn /\ Alike(touch(tr), tr)
           /\ touch(tr).paused = tr.paused /\ touch(tr).canceled = tr.canceled
           /\ touch(tr).events = tr.events /\ touch(tr).pending = tr.pending
<1>1. CASE touch(tr) = tr
  BY <1>1 DEF Alike
<1>2. CASE touch(tr) = [tr EXCEPT !.watched = TRUE]
  BY <1>2 DEF Turn, Alike
<1>. QED  BY <1>1, <1>2 DEF touch

\* Turn i becomes r.
Put(i, r) == turns' = [turns EXCEPT ![i] = r]

LEMMA PutOne ==
    ASSUME turns \in Seq(Turn), NEW i \in TurnIds, NEW r \in Turn, Put(i, r)
    PROVE  OneTurn(i) /\ turns'[i] = r
BY DEF OneTurn, TurnIds, Put

LEMMA TurnType ==
    ASSUME turns \in Seq(Turn), NEW i \in TurnIds
    PROVE  turns[i] \in Turn
BY DEF TurnIds

-----------------------------------------------------------------------------
(***************************************************************************)
(* What the questions of a turn become.                                    *)
(***************************************************************************)
\* Turn a has become b, which has no questions but those of a that are not
\* in S.
Less(b, a, S) ==
    /\ \E d \in {0, 1} : \A k \in DOMAIN b.events : IsQuestion(b.events[k]) =>
          /\ k + d \in DOMAIN a.events /\ b.events[k] = a.events[k + d]
          /\ b.events[k].q \notin S
    /\ b.pending # 0 => b.pending = a.pending /\ b.pending \notin S /\ b.canceled = a.canceled

LEMMA CanceledLess ==
    ASSUME NEW tr \in Turn, NEW a, NEW X, Less(tr, a, X)
    PROVE  Less(Canceled(tr), a, X \cup CanceledQuestions(tr))
<1>1. CASE tr.canceled
  <2>1. Canceled(tr) = tr /\ X \cup CanceledQuestions(tr) = X
    BY <1>1 DEF Canceled, CanceledQuestions
  <2>. QED  BY <2>1
<1>2. CASE ~tr.canceled
  BY <1>2, CanceledTurn DEF NoQuestions, Less
<1>. QED  BY <1>1, <1>2

\* A turn whose queue and pending question are those of another.
LEMMA SameLess ==
    ASSUME NEW a, NEW b, b.events = a.events, b.pending = a.pending \/ b.pending = 0,
           b.canceled = a.canceled, NEW S, a.events \in Seq(Event),
           b.pending # 0 => b.pending \notin S,
           \A k \in DOMAIN a.events : IsQuestion(a.events[k]) => a.events[k].q \notin S
    PROVE  Less(b, a, S)
<1>1. \A k \in DOMAIN b.events : IsQuestion(b.events[k]) =>
          /\ k + 0 \in DOMAIN a.events /\ b.events[k] = a.events[k + 0]
          /\ b.events[k].q \notin S
  OBVIOUS
<1>. QED  BY <1>1 DEF Less

\* The questions in S are answered.
Answered(S) ==
    /\ questions' = Respond(S)
    /\ \A q \in DOMAIN questions : q \in S => questions[q].answers = 0

\* No place has a question it did not have, or one of those in S.
TurnsLess(S) ==
    /\ turns' \in Seq(Turn) /\ Len(turns') >= Len(turns)
    /\ \A i \in TurnIds :
          /\ Less(turns'[i], turns[i], S)
          /\ turns'[i].task = turns[i].task /\ turns'[i].proc = turns[i].proc
          /\ turns'[i].pending # 0 => turns'[i].ended = turns[i].ended
    /\ \A i \in 1..Len(turns') : i \notin TurnIds => NoQuestions(turns'[i])

HandsLess(S) ==
    \A t \in Tasks : InHand(t)' =>
        /\ InHand(t) /\ exec'[t].turn = exec[t].turn /\ exec'[t].q = exec[t].q
        /\ exec[t].q \notin S

ReadersLess(S) ==
    \A p \in Procs : reader'[p] # 0 => reader'[p] = reader[p] /\ reader[p] \notin S

Asked == [turn : 1..MaxTurns, answers : Nat]

LEMMA AnsweredOpen ==
    ASSUME NEW S, Answered(S), questions \in Seq(Asked),
           \A q \in DOMAIN questions : questions[q].answers <= 1
    PROVE  /\ questions' \in Seq(Asked)
           /\ Len(questions') = Len(questions)
           /\ \A q \in DOMAIN questions :
                  questions'[q].answers <= 1 /\ questions'[q].turn = questions[q].turn
           /\ \A i, q : Open(i, q) /\ q \notin S => Open(i, q)'
<1>0. \A n \in 1..MaxTurns : [turn |-> n, answers |-> 1] \in Asked
  BY DEF Asked
<1>a. \A r \in Asked : r.turn \in 1..MaxTurns /\ (r.answers = 0 =>
                      [r EXCEPT !.answers = @ + 1] = [turn |-> r.turn, answers |-> 1])
  BY DEF Asked
<1>1. questions \in Seq(Asked) /\ Len(questions) \in Nat /\ DOMAIN questions = 1..Len(questions)
  OBVIOUS
<1>2. \A q \in DOMAIN questions : questions[q] \in Asked
  BY <1>1
<1>3. DOMAIN questions' = DOMAIN questions
  BY DEF Answered, Respond
<1>4. ASSUME NEW q \in DOMAIN questions
      PROVE  /\ questions'[q] \in Asked
             /\ questions'[q].turn = questions[q].turn /\ questions'[q].answers <= 1
             /\ q \notin S => questions'[q] = questions[q]
  <2>1. CASE q \in S
    <3>1. questions'[q] = [questions[q] EXCEPT !.answers = @ + 1] /\ questions[q].answers = 0
      BY <2>1 DEF Answered, Respond
    <3>2. questions'[q] = [turn |-> questions[q].turn, answers |-> 1]
      BY <1>2, <1>a, <3>1
    <3>3. questions'[q].turn = questions[q].turn /\ questions'[q].answers = 1
      BY <3>2
    <3>4. questions'[q] \in Asked
      BY <1>0, <1>2, <1>a, <3>2
    <3>. QED  BY <2>1, <3>3, <3>4
  <2>2. CASE q \notin S
    BY <1>2, <2>2 DEF Answered, Respond
  <2>. QED  BY <2>1, <2>2
<1>5. questions' \in Seq(Asked) /\ Len(questions') = Len(questions)
  <2>1. questions' = [q \in 1..Len(questions) |-> questions'[q]]
    BY <1>1, <1>3 DEF Answered, Respond
  <2>2. \A q \in 1..Len(questions) : questions'[q] \in Asked
    BY <1>1, <1>4
  <2>3. questions' \in [1..Len(questions) -> Asked]
    BY <2>1, <2>2
  <2>4. questions' \in Seq(Asked)
    BY <1>1, <2>3
  <2>. QED  BY <1>1, <1>3, <2>4
<1>. QED  BY <1>3, <1>4, <1>5 DEF Open

LEMMA SameSum ==
    ASSUME NEW k \in Int, NEW l \in Int, NEW d \in Int, k + d = l + d
    PROVE  k = l
OBVIOUS

\* A step that moves no question keeps them in order.
LEMMA Release ==
    ASSUME LockInv, QuestionInv, NEW S, Answered(S), TurnsLess(S), HandsLess(S), ReadersLess(S)
    PROVE  QuestionInv'
<1>1. /\ turns \in Seq(Turn) /\ questions \in Seq(Asked)
      /\ reader \in [Procs -> 0..MaxQuestions]
  BY DEF LockInv, TypeOK, Asked
<1>2. /\ Len(questions') = Len(questions) /\ DOMAIN questions' = DOMAIN questions
      /\ \A q \in DOMAIN questions :
             questions'[q].answers <= 1 /\ questions'[q].turn = questions[q].turn
      /\ \A i, q : Open(i, q) /\ q \notin S => Open(i, q)'
  <2>1. \A q \in DOMAIN questions : questions[q].answers <= 1
    BY DEF QuestionInv
  <2>. QED  BY <1>1, <2>1, AnsweredOpen
<1>3. turns' \in Seq(Turn) /\ TurnIds \subseteq 1..Len(turns') /\ TurnIds' = 1..Len(turns')
  BY <1>1 DEF TurnsLess, TurnIds
<1>4. ASSUME NEW i \in TurnIds, NEW q, q \in S \/ ~Queued(i, q)
      PROVE  ~Queued(i, q)'
  BY <1>3, <1>4 DEF TurnsLess, Less, Queued
<1>5. ASSUME NEW i \in TurnIds'  PROVE QueueOK(i)'
  <2>1. CASE i \notin TurnIds
    BY <1>3, <2>1 DEF TurnsLess, NoQuestions, QueueOK, Queued
  <2>2. CASE i \in TurnIds
    <3>0. PICK a, b : a = turns[i] /\ b = turns'[i]
      OBVIOUS
    <3>1. QueueOK(i) /\ Less(b, a, S)
      BY <2>2, <3>0 DEF QuestionInv, TurnsLess
    <3>2. PICK d \in {0, 1} : \A k \in DOMAIN b.events : IsQuestion(b.events[k]) =>
              /\ k + d \in DOMAIN a.events /\ b.events[k] = a.events[k + d]
              /\ b.events[k].q \notin S
      BY <3>1 DEF Less
    <3>3. \A k \in DOMAIN b.events : k \in Int
      <4>1. b \in Turn
        BY <1>3, <3>0
      <4>2. b.events \in Seq(Event)
        BY <4>1 DEF Turn
      <4>. QED  BY <4>2
    <3>4. \A k \in DOMAIN b.events : IsQuestion(b.events[k]) => Open(i, b.events[k].q)'
      BY <1>2, <3>0, <3>1, <3>2 DEF QueueOK
    <3>5. \A k, l \in DOMAIN b.events :
              IsQuestion(b.events[k]) /\ IsQuestion(b.events[l]) /\ b.events[k].q = b.events[l].q
                => k = l
      <4>1. SUFFICES ASSUME NEW k \in DOMAIN b.events, NEW l \in DOMAIN b.events,
                            IsQuestion(b.events[k]), IsQuestion(b.events[l]),
                            b.events[k].q = b.events[l].q
                     PROVE  k = l
        OBVIOUS
      <4>2. k + d = l + d
        BY <3>0, <3>1, <3>2, <4>1 DEF QueueOK
      <4>3. d \in Int
        BY <3>2
      <4>4. k \in Int /\ l \in Int
        BY <3>3
      <4>. QED  BY <4>2, <4>3, <4>4, SameSum
    <3>6. b.pending # 0 => /\ ~b.canceled /\ ~b.ended
                           /\ Open(i, b.pending)' /\ ~Queued(i, b.pending)'
      <4>1. SUFFICES ASSUME b.pending # 0
                     PROVE  /\ ~b.canceled /\ ~b.ended
                            /\ Open(i, b.pending)' /\ ~Queued(i, b.pending)'
        OBVIOUS
      <4>2. /\ b.pending = a.pending /\ b.pending \notin S /\ b.canceled = a.canceled
            /\ b.ended = a.ended
        BY <2>2, <3>0, <3>1, <4>1 DEF Less, TurnsLess
      <4>3. PICK q : q = b.pending
        OBVIOUS
      <4>4. /\ ~a.canceled /\ ~a.ended /\ Open(i, q) /\ ~Queued(i, q) /\ q \notin S
        BY <3>0, <3>1, <4>1, <4>2, <4>3 DEF QueueOK
      <4>5. Open(i, q)' /\ ~Queued(i, q)'
        BY <1>2, <1>4, <2>2, <4>4
      <4>. QED  BY <4>2, <4>3, <4>4, <4>5
    <3>. QED  BY <3>0, <3>4, <3>5, <3>6 DEF QueueOK
  <2>. QED  BY <2>1, <2>2
<1>6. ASSUME NEW i \in TurnIds, NEW q, turns[i].pending # q, q # 0
      PROVE  turns'[i].pending # q
  BY <1>6 DEF TurnsLess, Less
<1>7. ASSUME NEW t \in Tasks  PROVE HandOK(t)'
  <2>1. SUFFICES ASSUME InHand(t)'  PROVE HandOK(t)'
    BY DEF HandOK, InHand
  <2>2. PICK i, q : i = exec[t].turn /\ q = exec[t].q /\ i = exec'[t].turn /\ q = exec'[t].q
    BY <2>1 DEF HandsLess
  <2>3. InHand(t) /\ q \notin S /\ i \in TurnIds
    BY <2>1, <2>2 DEF HandsLess, LockInv, ExecOK, InHand, OnTurn
  <2>4. Open(i, q) /\ ~Queued(i, q) /\ turns[i].pending # q
    BY <2>2, <2>3 DEF QuestionInv, HandOK
  <2>5. q # 0
    BY <1>1, <2>4 DEF Open
  <2>6. Open(i, q)' /\ ~Queued(i, q)' /\ turns'[i].pending # q
    BY <1>2, <1>4, <1>6, <2>3, <2>4, <2>5
  <2>. QED  BY <2>2, <2>6 DEF HandOK, Open, Queued
<1>8. ASSUME NEW p \in Procs  PROVE ReaderOK(p)'
  <2>1. SUFFICES ASSUME reader'[p] # 0  PROVE ReaderOK(p)'
    BY DEF ReaderOK
  <2>2. PICK q : q = reader[p] /\ q = reader'[p] /\ q # 0 /\ q \notin S
    BY <2>1 DEF ReadersLess
  <2>3. PICK i : i = questions[q].turn
    OBVIOUS
  <2>4. /\ i \in TurnIds /\ turns[i].proc = p
        /\ Open(i, q) /\ ~Queued(i, q) /\ turns[i].pending # q
        /\ ~(InHand(turns[i].task) /\ exec[turns[i].task].q = q)
    BY <2>2, <2>3 DEF QuestionInv, ReaderOK
  <2>5. i = questions'[q].turn
    BY <1>2, <2>3, <2>4 DEF Open
  <2>6. Open(i, q)' /\ ~Queued(i, q)' /\ turns'[i].pending # q
    BY <1>2, <1>4, <1>6, <2>2, <2>4
  <2>7. PICK t : t = turns[i].task /\ t = turns'[i].task /\ turns'[i].proc = p
    BY <2>4 DEF TurnsLess
  <2>8. t \in Tasks
    BY <1>1, <2>4, <2>7, TurnType DEF Turn
  <2>9. ~(InHand(t)' /\ exec'[t].q = q)
    BY <2>4, <2>7, <2>8 DEF HandsLess
  <2>10. i \in TurnIds'
    BY <1>3, <2>4
  <2>. QED  BY <2>2, <2>5, <2>6, <2>7, <2>9, <2>10 DEF ReaderOK, Open, Queued, InHand
<1>9. \A q \in DOMAIN questions' : questions'[q].answers <= 1 /\ questions'[q].turn \in TurnIds'
  BY <1>2, <1>3 DEF QuestionInv
<1>. QED  BY <1>2, <1>5, <1>7, <1>8, <1>9 DEF QuestionInv

\* Turns whose own questions are not in S.
LEMMA UntouchedLess ==
    ASSUME LockInv, QuestionInv, NEW j \in TurnIds, NEW S,
           \A q \in S : ~Queued(j, q) /\ turns[j].pending # q
    PROVE  Less(turns[j], turns[j], S)
<1>1. turns[j] \in Turn
  BY TurnType DEF LockInv, TypeOK
<1>2. turns[j].events \in Seq(Event)
  BY <1>1 DEF Turn
<1>. QED  BY <1>2, SameLess DEF Queued

\* Turn i, changed to tr, is canceled, and its questions and X are answered.
Cancels(i, tr, X) ==
    /\ tr \in Turn /\ Alike(tr, turns[i]) /\ Less(tr, turns[i], X)
    /\ Put(i, Canceled(tr))
    /\ questions' = Respond(X \cup CanceledQuestions(tr))

LEMMA CancelTurn ==
    ASSUME LockInv, NEW i \in TurnIds, NEW tr, NEW X, Cancels(i, tr, X)
    PROVE  /\ OneTurn(i) /\ Alike(turns'[i], turns[i])
           /\ turns'[i].paused = tr.paused /\ turns'[i] = Canceled(tr)
<1>1. Canceled(tr) \in Turn /\ Alike(Canceled(tr), tr) /\ Canceled(tr).paused = tr.paused
  BY CanceledTurn DEF Cancels
<1>2. OneTurn(i) /\ turns'[i] = Canceled(tr)
  BY <1>1, PutOne DEF Cancels, LockInv, TypeOK
<1>. QED  BY <1>1, <1>2 DEF Cancels, Alike

LEMMA CancelStep ==
    ASSUME LockInv, QuestionInv, NEW i \in TurnIds, NEW tr, NEW X, Cancels(i, tr, X),
           \A q \in X : Open(i, q), HandsLess(X), ReadersLess(X)
    PROVE  QuestionInv'
<1>. DEFINE S == X \cup CanceledQuestions(tr)
<1>1. QueueOK(i) /\ tr \in Turn /\ Less(tr, turns[i], X)
  BY DEF QuestionInv, Cancels
<1>2. ASSUME NEW q \in CanceledQuestions(tr)
      PROVE  Open(i, q) /\ (Queued(i, q) \/ turns[i].pending = q)
  <2>1. q \in OpenQuestions(tr)
    BY <1>2 DEF CanceledQuestions
  <2>2. CASE \E k \in DOMAIN tr.events : IsQuestion(tr.events[k]) /\ tr.events[k].q = q
    <3>1. Queued(i, q)
      BY <1>1, <2>2 DEF Less, Queued
    <3>. QED  BY <1>1, <3>1 DEF QueueOK, Queued
  <2>3. CASE q = tr.pending /\ q # 0
    BY <1>1, <2>3 DEF Less, QueueOK
  <2>. QED  BY <2>1, <2>2, <2>3 DEF OpenQuestions
<1>3. \A q \in S : Open(i, q)
  BY <1>2
<1>4. Answered(S)
  BY <1>3 DEF Answered, Cancels, Open
<1>5. HandsLess(S)
  <2>1. SUFFICES ASSUME NEW t \in Tasks, InHand(t)', exec[t].q \in CanceledQuestions(tr)
                 PROVE  FALSE
    BY DEF HandsLess
  <2>2. InHand(t)
    BY <2>1 DEF HandsLess
  <2>3. /\ Open(exec[t].turn, exec[t].q) /\ ~Queued(exec[t].turn, exec[t].q)
        /\ turns[exec[t].turn].pending # exec[t].q
    BY <2>2 DEF QuestionInv, HandOK
  <2>. QED  BY <1>2, <2>1, <2>3 DEF Open
<1>6. ReadersLess(S)
  <2>1. SUFFICES ASSUME NEW p \in Procs, reader'[p] # 0, reader[p] \in CanceledQuestions(tr)
                 PROVE  FALSE
    BY DEF ReadersLess
  <2>2. reader[p] # 0
    BY <2>1 DEF ReadersLess
  <2>3. Open(i, reader[p]) /\ (Queued(i, reader[p]) \/ turns[i].pending = reader[p])
    BY <1>2, <2>1
  <2>4. questions[reader[p]].turn = i
    BY <2>3 DEF Open
  <2>. QED  BY <2>2, <2>3, <2>4 DEF QuestionInv, ReaderOK
<1>. HIDE DEF S
<1>7. TurnsLess(S)
  <2>1. OneTurn(i) /\ Alike(turns'[i], turns[i]) /\ turns'[i] = Canceled(tr)
    BY CancelTurn
  <2>2. Less(turns'[i], turns[i], S)
    BY <1>1, <2>1, CanceledLess DEF S
  <2>3. ASSUME NEW j \in TurnIds, j # i  PROVE Less(turns'[j], turns[j], S)
    <3>1. QueueOK(j) /\ turns'[j] = turns[j]
      BY <2>1, <2>3 DEF QuestionInv, OneTurn
    <3>2. \A q \in S : q # 0
      BY <1>3 DEF Open, LockInv, TypeOK
    <3>3. ASSUME NEW q \in S  PROVE ~Queued(j, q) /\ turns[j].pending # q
      BY <1>3, <2>3, <3>1, <3>2 DEF QueueOK, Queued, Open
    <3>. QED  BY <3>1, <3>3, UntouchedLess
  <2>4. Len(turns) \in Nat
    BY DEF LockInv, TypeOK
  <2>. QED  BY <2>1, <2>2, <2>3, <2>4 DEF TurnsLess, OneTurn, Alike, TurnIds
<1>. QED  BY <1>4, <1>5, <1>6, <1>7, Release

\* A step that answers nothing.
LEMMA QuietStep ==
    ASSUME LockInv, QuestionInv, questions' = questions, TurnsLess({}), HandsLess({}),
           ReadersLess({})
    PROVE  QuestionInv'
<1>1. questions' = Respond({})
  BY DEF Respond, LockInv, TypeOK
<1>2. Answered({})
  BY <1>1 DEF Answered
<1>. QED  BY <1>2, Release

LEMMA UnchangedLess ==
    ASSUME LockInv, QuestionInv, turns' = turns
    PROVE  TurnsLess({})
<1>1. turns \in Seq(Turn) /\ Len(turns) \in Nat
  BY DEF LockInv, TypeOK
<1>2. \A i \in TurnIds : Less(turns[i], turns[i], {})
  BY UntouchedLess
<1>. QED  BY <1>1, <1>2 DEF TurnsLess, TurnIds

\* Nor does one that changes one turn and leaves its questions alone.
LEMMA OneTurnLess ==
    ASSUME LockInv, QuestionInv, NEW i \in TurnIds, OneTurn(i), Less(turns'[i], turns[i], {}),
           turns'[i].task = turns[i].task, turns'[i].proc = turns[i].proc,
           turns'[i].pending # 0 => turns'[i].ended = turns[i].ended
    PROVE  TurnsLess({})
<1>1. turns \in Seq(Turn) /\ Len(turns) \in Nat
  BY DEF LockInv, TypeOK
<1>2. \A j \in TurnIds : Less(turns[j], turns[j], {})
  BY UntouchedLess
<1>. QED  BY <1>1, <1>2 DEF TurnsLess, TurnIds, OneTurn

-----------------------------------------------------------------------------
(***************************************************************************)
(* What the actions do to turns and questions.                             *)
(***************************************************************************)
\* Turns go on as they are, as far as the lock and the maps are concerned.
CalmTurns ==
    /\ turns' \in Seq(Turn) /\ Len(turns') = Len(turns)
    /\ \A i \in TurnIds : Alike(turns'[i], turns[i])

PausedKept(X) == \A i \in TurnIds : i \notin X => turns'[i].paused = turns[i].paused

\* Only the Execute of t moves.
OnlyExec(t) == \A u \in Tasks : u # t => exec'[u] = exec[u]

LEMMA OneTurnCalm ==
    ASSUME NEW i \in TurnIds, OneTurn(i), Alike(turns'[i], turns[i])
    PROVE  CalmTurns /\ PausedKept({i})
BY DEF OneTurn, CalmTurns, PausedKept, Alike

LEMMA NoTurn ==
    ASSUME LockInv, QuestionInv, turns' = turns, questions' = questions, reader' = reader,
           HandsLess({})
    PROVE  CalmTurns /\ PausedKept({}) /\ QuestionInv'
<1>1. turns \in Seq(Turn)
  BY DEF LockInv, TypeOK
<1>2. ReadersLess({})
  BY DEF ReadersLess
<1>. QED  BY <1>1, <1>2, QuietStep, UnchangedLess DEF CalmTurns, PausedKept, Alike

LEMMA HandsEmpty ==
    ASSUME NEW t \in Tasks, OnlyExec(t), exec'[t].pc \notin {"ask", "reply"}, NEW X,
           \A u \in Tasks : u # t /\ InHand(u) => exec[u].q \notin X
    PROVE  HandsLess(X)
BY DEF HandsLess, InHand, OnlyExec

LEMMA HandsNone ==
    ASSUME NEW t \in Tasks, OnlyExec(t), exec'[t].pc \notin {"ask", "reply"}
    PROVE  HandsLess({})
BY HandsEmpty

LEMMA HandsSame ==
    ASSUME exec' = exec
    PROVE  HandsLess({})
BY DEF HandsLess, InHand

\* A step that cancels a turn of Execute, whose question in hand is answered
\* with the others.
LEMMA HandAnswered ==
    ASSUME LockInv, QuestionInv, NEW t \in Tasks, InHand(t), NEW i, i = exec[t].turn,
           OnlyExec(t), exec'[t].pc \notin {"ask", "reply"}, reader' = reader
    PROVE  /\ i \in TurnIds /\ Open(i, exec[t].q) /\ ~Queued(i, exec[t].q)
           /\ turns[i].pending # exec[t].q
           /\ HandsLess({exec[t].q}) /\ ReadersLess({exec[t].q})
<1>1. /\ i \in TurnIds /\ turns[i].task = t
      /\ Open(i, exec[t].q) /\ ~Queued(i, exec[t].q) /\ turns[i].pending # exec[t].q
  BY DEF LockInv, ExecOK, InHand, OnTurn, QuestionInv, HandOK
<1>2. ASSUME NEW u \in Tasks, u # t, InHand(u)  PROVE exec[u].q # exec[t].q
  <2>1. Open(exec[u].turn, exec[u].q) /\ turns[exec[u].turn].task = u
    BY <1>2 DEF LockInv, ExecOK, InHand, OnTurn, QuestionInv, HandOK
  <2>. QED  BY <1>1, <1>2, <2>1 DEF Open
<1>3. HandsLess({exec[t].q})
  BY <1>2, HandsEmpty
<1>4. ReadersLess({exec[t].q})
  BY <1>1 DEF ReadersLess, QuestionInv, ReaderOK, Open
<1>. QED  BY <1>1, <1>3, <1>4

LEMMA OwnTurn ==
    ASSUME LockInv, NEW t \in Tasks, exec[t].pc \in OnTurn
    PROVE  /\ exec[t].turn \in TurnIds /\ turns[exec[t].turn] \in Turn
           /\ turns[exec[t].turn].task = t
BY TurnType DEF LockInv, TypeOK, ExecOK

LEMMA FinishExec ==
    ASSUME LockInv, NEW t \in Tasks, exec' = [exec EXCEPT ![t] = NoExec]
    PROVE  OnlyExec(t) /\ exec'[t] = NoExec /\ exec'[t].pc \notin {"ask", "reply"}
BY DEF LockInv, TypeOK, OnlyExec, NoExec

LEMMA GotoExec ==
    ASSUME LockInv, NEW t \in Tasks, NEW pc, Goto(t, pc)
    PROVE  /\ OnlyExec(t) /\ exec'[t] = [exec[t] EXCEPT !.pc = pc] /\ exec'[t].pc = pc
           /\ exec'[t].turn = exec[t].turn /\ exec'[t].q = exec[t].q
<1>1. exec \in [Tasks -> Exec] /\ exec[t] \in Exec
  BY DEF LockInv, TypeOK
<1>2. OnlyExec(t) /\ exec'[t] = [exec[t] EXCEPT !.pc = pc]
  BY <1>1 DEF OnlyExec, Goto
<1>. QED  BY <1>1, <1>2 DEF Exec

\* cancelTurn without a question of its own, and the end of Execute.
LEMMA PlainCancel ==
    ASSUME LockInv, QuestionInv, NEW i \in TurnIds, NEW tr \in Turn, Alike(tr, turns[i]),
           Less(tr, turns[i], {}), Put(i, Canceled(tr)), questions' = Respond(CanceledQuestions(tr)),
           HandsLess({}), reader' = reader
    PROVE  CalmTurns /\ PausedKept({i}) /\ turns'[i].paused = tr.paused /\ QuestionInv'
<1>1. {} \cup CanceledQuestions(tr) = CanceledQuestions(tr)
  OBVIOUS
<1>2. Cancels(i, tr, {})
  BY <1>1 DEF Cancels
<1>3. OneTurn(i) /\ Alike(turns'[i], turns[i]) /\ turns'[i].paused = tr.paused
  BY <1>2, CancelTurn
<1>4. ReadersLess({})
  BY DEF ReadersLess
<1>5. QuestionInv'
  BY <1>2, <1>4, CancelStep
<1>. QED  BY <1>3, <1>5, OneTurnCalm

\* A turn canceled as it is.
LEMMA CancelAsIs ==
    ASSUME LockInv, QuestionInv, NEW i \in TurnIds, cancelTurn(i), HandsLess({}), reader' = reader
    PROVE  CalmTurns /\ PausedKept({}) /\ QuestionInv'
<1>. DEFINE tr == turns[i]
<1>1. tr \in Turn /\ Alike(tr, turns[i])
  BY TurnType DEF LockInv, TypeOK, Alike
<1>2. Less(tr, turns[i], {})
  BY UntouchedLess
<1>3. Put(i, Canceled(tr)) /\ questions' = Respond(CanceledQuestions(tr))
  BY DEF cancelTurn, Put
<1>. HIDE DEF tr
<1>4. CalmTurns /\ PausedKept({i}) /\ turns'[i].paused = tr.paused /\ QuestionInv'
  BY <1>1, <1>2, <1>3, PlainCancel
<1>. QED  BY <1>4 DEF tr, PausedKept

\* Turns keep their place in the maps, and but for those in X stay paused or
\* not; the questions stay in order.
Effect(X) == CalmTurns /\ PausedKept(X) /\ QuestionInv'

LEMMA PlainPut ==
    ASSUME LockInv, QuestionInv, NEW i \in TurnIds, NEW tr \in Turn, Alike(tr, turns[i]),
           Less(tr, turns[i], {}), Put(i, tr), questions' = questions, HandsLess({}),
           reader' = reader
    PROVE  Effect({i}) /\ turns'[i] = tr
<1>1. OneTurn(i) /\ turns'[i] = tr
  BY PutOne DEF LockInv, TypeOK
<1>2. TurnsLess({})
  BY <1>1, OneTurnLess DEF Alike
<1>3. ReadersLess({})
  BY DEF ReadersLess
<1>. QED  BY <1>1, <1>2, <1>3, QuietStep, OneTurnCalm DEF Effect

LEMMA SameQueue ==
    ASSUME LockInv, NEW i \in TurnIds, NEW tr, tr.events = turns[i].events,
           tr.pending = turns[i].pending \/ tr.pending = 0, tr.canceled = turns[i].canceled
    PROVE  Less(tr, turns[i], {})
<1>1. turns[i] \in Turn
  BY TurnType DEF LockInv, TypeOK
<1>2. turns[i].events \in Seq(Event)
  BY <1>1 DEF Turn
<1>. QED  BY <1>2, SameLess

\* Places that a step leaves alone, while questions that are open stay open.
OpenStay == \A i, q : Open(i, q) => Open(i, q)'

LEMMA QueueStays ==
    ASSUME NEW i \in TurnIds, QueueOK(i), OpenStay, turns'[i].events = turns[i].events,
           turns'[i].pending = turns[i].pending \/ turns'[i].pending = 0,
           turns'[i].canceled = turns[i].canceled, turns'[i].ended = turns[i].ended
    PROVE  QueueOK(i)'
<1>1. PICK a, b : a = turns[i] /\ b = turns'[i]
  OBVIOUS
<1>2. /\ b.events = a.events /\ (b.pending = a.pending \/ b.pending = 0)
      /\ b.canceled = a.canceled /\ b.ended = a.ended
  BY <1>1
<1>3. \A k \in DOMAIN b.events : IsQuestion(b.events[k]) => Open(i, b.events[k].q)'
  BY <1>1, <1>2 DEF QueueOK, OpenStay
<1>4. \A k, l \in DOMAIN b.events :
          IsQuestion(b.events[k]) /\ IsQuestion(b.events[l]) /\ b.events[k].q = b.events[l].q
            => k = l
  BY <1>1, <1>2 DEF QueueOK
<1>5. b.pending # 0 => ~b.canceled /\ ~b.ended /\ Open(i, b.pending)' /\ ~Queued(i, b.pending)'
  <2>1. SUFFICES ASSUME b.pending # 0
                 PROVE  ~b.canceled /\ ~b.ended /\ Open(i, b.pending)' /\ ~Queued(i, b.pending)'
    OBVIOUS
  <2>2. ~a.canceled /\ ~a.ended /\ Open(i, b.pending) /\ ~Queued(i, b.pending)
    BY <1>1, <1>2, <2>1 DEF QueueOK
  <2>3. ~Queued(i, b.pending)'
    BY <1>1, <1>2, <2>2 DEF Queued
  <2>. QED  BY <1>2, <2>2, <2>3 DEF OpenStay
<1>. QED  BY <1>1, <1>3, <1>4, <1>5 DEF QueueOK

LEMMA HandStays ==
    ASSUME NEW u \in Tasks, HandOK(u), OpenStay, exec'[u] = exec[u],
           InHand(u) => /\ turns'[exec[u].turn].events = turns[exec[u].turn].events
                        /\ turns'[exec[u].turn].pending = turns[exec[u].turn].pending
    PROVE  HandOK(u)'
<1>1. SUFFICES ASSUME InHand(u)  PROVE HandOK(u)'
  BY DEF HandOK, InHand
<1>2. PICK i, q : i = exec[u].turn /\ q = exec[u].q
  OBVIOUS
<1>3. Open(i, q) /\ ~Queued(i, q) /\ turns[i].pending # q
  BY <1>1, <1>2 DEF HandOK
<1>4. Open(i, q)' /\ ~Queued(i, q)' /\ turns'[i].pending # q
  BY <1>1, <1>2, <1>3 DEF OpenStay, Queued
<1>. QED  BY <1>2, <1>4 DEF HandOK, Open, Queued

LEMMA ReaderStays ==
    ASSUME LockInv, NEW p \in Procs, ReaderOK(p), OpenStay, reader'[p] = reader[p],
           Len(turns') = Len(turns),
           \A i \in TurnIds : turns'[i].task = turns[i].task /\ turns'[i].proc = turns[i].proc,
           \A i \in TurnIds, u \in Tasks : \A q :
               q = reader[p] /\ q # 0 /\ Open(i, q) /\ ~Queued(i, q) /\ turns[i].pending # q
                   /\ u = turns[i].task /\ ~(InHand(u) /\ exec[u].q = q)
               => ~Queued(i, q)' /\ turns'[i].pending # q /\ ~(InHand(u)' /\ exec'[u].q = q)
    PROVE  ReaderOK(p)'
<1>1. SUFFICES ASSUME reader[p] # 0  PROVE ReaderOK(p)'
  BY DEF ReaderOK
<1>2. PICK q, i : q = reader[p] /\ i = questions[q].turn
  OBVIOUS
<1>3. PICK u : u = turns[i].task
  OBVIOUS
<1>4. /\ i \in TurnIds /\ turns[i].proc = p /\ Open(i, q) /\ ~Queued(i, q)
      /\ turns[i].pending # q /\ ~(InHand(u) /\ exec[u].q = q)
  BY <1>1, <1>2, <1>3 DEF ReaderOK
<1>5. u \in Tasks
  BY <1>3, <1>4, TurnType DEF LockInv, TypeOK, Turn
<1>6. Open(i, q)' /\ ~Queued(i, q)' /\ turns'[i].pending # q /\ ~(InHand(u)' /\ exec'[u].q = q)
  BY <1>1, <1>2, <1>3, <1>4, <1>5 DEF OpenStay
<1>7. /\ reader'[p] = q /\ questions'[q].turn = i /\ i \in TurnIds'
      /\ turns'[i].proc = p /\ turns'[i].task = u
  BY <1>2, <1>3, <1>4, <1>6 DEF Open, TurnIds
<1>. QED  BY <1>6, <1>7 DEF ReaderOK, Open, Queued, InHand

LEMMA DoesResume ==
    ASSUME LockInv, QuestionInv, NEW t \in Tasks, Resume(t)
    PROVE  Effect({exec[t].turn})
<1>. DEFINE i == exec[t].turn
            tr == [turns[i] EXCEPT !.paused = FALSE]
<1>1. i \in TurnIds /\ turns[i] \in Turn
  BY OwnTurn DEF Resume, OnTurn
<1>2. tr \in Turn /\ Alike(tr, turns[i])
  BY <1>1 DEF Turn, Alike
<1>3. tr.events = turns[i].events /\ tr.pending = turns[i].pending /\ tr.canceled = turns[i].canceled
  BY <1>1 DEF Turn
<1>4. Put(i, tr)
  BY <1>1 DEF Resume, Put, LockInv, TypeOK, TurnIds
<1>5. HandsLess({}) /\ questions' = questions /\ reader' = reader
  <2>1. Goto(t, "take") /\ questions' = questions /\ reader' = reader
    BY DEF Resume
  <2>2. OnlyExec(t) /\ exec'[t].pc = "take"
    BY <2>1, GotoExec
  <2>. QED  BY <2>1, <2>2, HandsNone
<1>. HIDE DEF i, tr
<1>6. Less(tr, turns[i], {})
  BY <1>1, <1>3, SameQueue
<1>. QED  BY <1>1, <1>2, <1>4, <1>5, <1>6, PlainPut DEF i

LEMMA DoesTakePending ==
    ASSUME LockInv, QuestionInv, NEW t \in Tasks, TakePending(t)
    PROVE  Effect({})
<1>0. PICK i, q : i = exec[t].turn /\ q = exec[t].q
  OBVIOUS
<1>. DEFINE tr == [turns[i] EXCEPT !.pending = 0]
<1>1. i \in TurnIds /\ turns[i] \in Turn /\ turns[i].task = t /\ q # 0
  BY <1>0, OwnTurn DEF TakePending, OnTurn, LockInv, ExecOK
<1>2. questions' = questions /\ reader' = reader
  BY DEF TakePending
<1>3. CASE exec' = [exec EXCEPT ![t] = NoExec] /\ turns' = turns
  BY <1>2, <1>3, FinishExec, HandsNone, NoTurn DEF Effect
<1>4. CASE /\ turns[i].pending = q /\ Goto(t, "reply")
           /\ turns' = [turns EXCEPT ![i].pending = 0]
  <2>1. tr \in Turn /\ Alike(tr, turns[i]) /\ tr.paused = turns[i].paused
    BY <1>1, Bounds DEF Turn, Alike
  <2>2. tr.events = turns[i].events /\ tr.pending = 0 /\ tr.canceled = turns[i].canceled
    BY <1>1 DEF Turn
  <2>3. Put(i, tr)
    BY <1>1, <1>4 DEF Put, LockInv, TypeOK, TurnIds
  <2>4. OneTurn(i) /\ turns'[i] = tr
    BY <1>1, <2>1, <2>3, PutOne DEF LockInv, TypeOK
  <2>5. OnlyExec(t) /\ exec'[t].pc = "reply" /\ exec'[t].turn = i /\ exec'[t].q = q
    BY <1>0, <1>4, GotoExec
  <2>6. QueueOK(i) /\ Open(i, q) /\ ~Queued(i, q)
    BY <1>1, <1>4 DEF QuestionInv, QueueOK
  <2>7. OpenStay
    BY <1>2 DEF Open, OpenStay
  <2>8. TurnIds' = TurnIds /\ \A j \in TurnIds :
              /\ turns'[j].events = turns[j].events /\ turns'[j].canceled = turns[j].canceled
              /\ turns'[j].ended = turns[j].ended /\ turns'[j].task = turns[j].task
              /\ turns'[j].proc = turns[j].proc
              /\ turns'[j].pending = IF j = i THEN 0 ELSE turns[j].pending
    BY <1>1, <2>1, <2>2, <2>4 DEF OneTurn, TurnIds, Alike
  <2>. HIDE DEF tr
  <2>9. \A j \in TurnIds : \A k : Queued(j, k)' <=> Queued(j, k)
    BY <2>8 DEF Queued
  <2>10. ASSUME NEW j \in TurnIds  PROVE QueueOK(j)'
    BY <2>7, <2>8, QueueStays DEF QuestionInv
  <2>11. ASSUME NEW u \in Tasks  PROVE HandOK(u)'
    <3>1. CASE u = t
      <4>1. Open(i, q)' /\ ~Queued(i, q)' /\ turns'[i].pending # q
        BY <1>1, <2>6, <2>7, <2>8, <2>9 DEF OpenStay
      <4>. QED  BY <2>5, <3>1, <4>1 DEF HandOK, Open, Queued
    <3>2. CASE u # t
      <4>1. exec'[u] = exec[u] /\ HandOK(u)
        BY <2>5, <3>2 DEF OnlyExec, QuestionInv
      <4>2. InHand(u) => exec[u].turn \in TurnIds /\ turns[exec[u].turn].task = u
        BY DEF LockInv, ExecOK, InHand, OnTurn
      <4>. QED  BY <1>1, <2>7, <2>8, <3>2, <4>1, <4>2, HandStays
    <3>. QED  BY <3>1, <3>2
  <2>12. ASSUME NEW p \in Procs  PROVE ReaderOK(p)'
    <3>1. ReaderOK(p) /\ reader'[p] = reader[p] /\ Len(turns') = Len(turns)
      BY <1>2, <2>4 DEF QuestionInv, OneTurn
    <3>2. ASSUME NEW j \in TurnIds, NEW u \in Tasks, NEW k, k # 0, Open(j, k), ~Queued(j, k),
                 turns[j].pending # k, u = turns[j].task, ~(InHand(u) /\ exec[u].q = k)
          PROVE  ~Queued(j, k)' /\ turns'[j].pending # k /\ ~(InHand(u)' /\ exec'[u].q = k)
      <4>1. k # q
        BY <1>4, <2>6, <3>2 DEF Open
      <4>2. ~(InHand(u)' /\ exec'[u].q = k)
        BY <2>5, <3>2, <4>1 DEF OnlyExec, InHand
      <4>. QED  BY <2>8, <2>9, <3>2, <4>2
    <3>. QED  BY <2>7, <2>8, <3>1, <3>2, ReaderStays
  <2>14. QuestionInv'
    BY <1>2, <2>8, <2>10, <2>11, <2>12 DEF QuestionInv
  <2>15. CalmTurns /\ PausedKept({})
    BY <1>1, <2>1, <2>4, OneTurnCalm DEF PausedKept
  <2>. QED  BY <2>14, <2>15 DEF Effect
<1>. QED  BY <1>0, <1>3, <1>4 DEF TakePending, Finish

\* The question in the hands of Execute is answered.
LEMMA AnswerHand ==
    ASSUME LockInv, QuestionInv, NEW t \in Tasks, InHand(t), NEW i, i = exec[t].turn,
           OnlyExec(t), exec'[t].pc \notin {"ask", "reply"}, reader' = reader,
           questions' = Respond({exec[t].q}), OneTurn(i),
           turns'[i].events = turns[i].events, turns'[i].pending = turns[i].pending,
           turns'[i].canceled = turns[i].canceled, Alike(turns'[i], turns[i])
    PROVE  QuestionInv'
<1>. DEFINE S == {exec[t].q}
<1>1. /\ i \in TurnIds /\ Open(i, exec[t].q) /\ ~Queued(i, exec[t].q)
      /\ turns[i].pending # exec[t].q /\ HandsLess(S) /\ ReadersLess(S)
  BY HandAnswered
<1>2. Answered(S)
  BY <1>1 DEF Answered, Open
<1>3. ASSUME NEW j \in TurnIds  PROVE Less(turns'[j], turns[j], S)
  <2>1. exec[t].q # 0 /\ turns[j] \in Turn /\ QueueOK(j)
    BY <1>1, TurnType DEF Open, LockInv, TypeOK, QuestionInv
  <2>2. ~Queued(j, exec[t].q) /\ turns[j].pending # exec[t].q
    BY <1>1, <2>1 DEF QueueOK, Queued, Open
  <2>3. /\ turns'[j].events = turns[j].events /\ turns'[j].pending = turns[j].pending
        /\ turns'[j].canceled = turns[j].canceled
    BY DEF OneTurn
  <2>4. turns[j].events \in Seq(Event)
    BY <2>1 DEF Turn
  <2>. QED  BY <2>2, <2>3, <2>4, SameLess DEF Queued
<1>. HIDE DEF S
<1>4. TurnsLess(S)
  <2>1. Len(turns) \in Nat
    BY DEF LockInv, TypeOK
  <2>. QED  BY <1>3, <2>1 DEF TurnsLess, OneTurn, Alike, TurnIds
<1>. QED  BY <1>1, <1>2, <1>4, Release

\* The pending question of a turn is nowhere else.
LEMMA PendingFree ==
    ASSUME LockInv, QuestionInv, NEW i \in TurnIds, turns[i].pending # 0
    PROVE  /\ Open(i, turns[i].pending) /\ ~Queued(i, turns[i].pending)
           /\ \A u \in Tasks : InHand(u) => exec[u].q # turns[i].pending
           /\ \A p \in Procs : reader[p] # 0 => reader[p] # turns[i].pending
<1>1. Open(i, turns[i].pending) /\ ~Queued(i, turns[i].pending)
  BY DEF QuestionInv, QueueOK
<1>2. ASSUME NEW u \in Tasks, InHand(u)  PROVE exec[u].q # turns[i].pending
  <2>1. Open(exec[u].turn, exec[u].q) /\ turns[exec[u].turn].pending # exec[u].q
    BY <1>2 DEF QuestionInv, HandOK
  <2>. QED  BY <1>1, <2>1 DEF Open
<1>3. ASSUME NEW p \in Procs, reader[p] # 0  PROVE reader[p] # turns[i].pending
  BY <1>1, <1>3 DEF QuestionInv, ReaderOK, Open
<1>. QED  BY <1>1, <1>2, <1>3

\* A turn that loses its pending question, which is answered, and is canceled.
LEMMA CancelPending ==
    ASSUME LockInv, QuestionInv, NEW i \in TurnIds, turns[i].pending # 0,
           NEW X, X = {turns[i].pending}, NEW tr, Cancels(i, tr, X),
           NEW t \in Tasks, OnlyExec(t), exec'[t] = exec[t] \/ exec'[t].pc \notin {"ask", "reply"},
           reader' = reader
    PROVE  CalmTurns /\ PausedKept({i}) /\ turns'[i].paused = tr.paused /\ QuestionInv'
<1>1. HandsLess(X) /\ ReadersLess(X) /\ \A q \in X : Open(i, q)
  BY PendingFree DEF HandsLess, ReadersLess, OnlyExec, InHand
<1>2. QuestionInv'
  BY <1>1, CancelStep
<1>. QED  BY <1>2, CancelTurn, OneTurnCalm

LEMMA DoesSendReply ==
    ASSUME LockInv, QuestionInv, NEW t \in Tasks, SendReply(t)
    PROVE  Effect({})
<1>0. PICK i, q : i = exec[t].turn /\ q = exec[t].q
  OBVIOUS
<1>1. i \in TurnIds /\ turns[i] \in Turn /\ InHand(t) /\ reader' = reader
  BY <1>0, OwnTurn DEF SendReply, OnTurn, InHand
<1>2. CASE /\ turns' = [turns EXCEPT ![i] = Canceled(@)]
           /\ questions' = Respond(CanceledQuestions(turns[i]) \cup {q})
           /\ exec' = [exec EXCEPT ![t] = NoExec]
  <2>1. OnlyExec(t) /\ exec'[t].pc \notin {"ask", "reply"}
    BY <1>2, FinishExec
  <2>2. /\ Open(i, q) /\ ~Queued(i, q) /\ turns[i].pending # q
        /\ HandsLess({q}) /\ ReadersLess({q})
    BY <1>0, <1>1, <2>1, HandAnswered
  <2>3. Less(turns[i], turns[i], {q})
    BY <1>1, <2>2, UntouchedLess
  <2>4. CanceledQuestions(turns[i]) \cup {q} = {q} \cup CanceledQuestions(turns[i])
    OBVIOUS
  <2>5. Cancels(i, turns[i], {q})
    BY <1>1, <1>2, <2>3, <2>4 DEF Cancels, Put, Alike
  <2>6. QuestionInv'
    BY <1>1, <2>2, <2>5, CancelStep
  <2>. QED  BY <1>1, <2>5, <2>6, CancelTurn, OneTurnCalm DEF Effect, PausedKept
<1>3. CASE /\ turns' = [turns EXCEPT ![i] = touch(@)]
           /\ questions' = Respond({q}) /\ Goto(t, "working")
  <2>0. OnlyExec(t) /\ exec'[t].pc = "working"
    BY <1>3, GotoExec
  <2>1. OnlyExec(t) /\ exec'[t].pc \notin {"ask", "reply"}
    BY <2>0
  <2>2. Put(i, touch(turns[i]))
    BY <1>3 DEF Put
  <2>3. OneTurn(i) /\ turns'[i] = touch(turns[i])
    BY <1>1, <2>2, PutOne, TouchedTurn DEF LockInv, TypeOK
  <2>4. /\ Alike(turns'[i], turns[i]) /\ turns'[i].paused = turns[i].paused
        /\ turns'[i].events = turns[i].events /\ turns'[i].pending = turns[i].pending
        /\ turns'[i].canceled = turns[i].canceled
    BY <1>1, <2>3, TouchedTurn
  <2>5. QuestionInv'
    BY <1>0, <1>1, <1>3, <2>1, <2>3, <2>4, AnswerHand
  <2>. QED  BY <1>1, <2>3, <2>4, <2>5, OneTurnCalm DEF Effect, PausedKept
<1>. QED  BY <1>0, <1>2, <1>3 DEF SendReply, Finish

LEMMA DoesInterrupt ==
    ASSUME LockInv, QuestionInv, NEW t \in Tasks, Interrupt(t)
    PROVE  Effect({exec[t].turn})
<1>0. PICK i, q : i = exec[t].turn /\ q = exec[t].q
  OBVIOUS
<1>1. i \in TurnIds /\ turns[i] \in Turn /\ q # 0 /\ reader' = reader
  BY <1>0, OwnTurn DEF Interrupt, OnTurn, LockInv, ExecOK
<1>2. OnlyExec(t) /\ exec'[t].pc \notin {"ask", "reply"}
  BY DEF Interrupt, LockInv, TypeOK, OnlyExec, NoExec
<1>3. CASE turns[i].pending = q
  <2>. DEFINE tr == [turns[i] EXCEPT !.paused = FALSE, !.pending = 0]
  <2>1. Put(i, Canceled(tr)) /\ questions' = Respond({q} \cup CanceledQuestions(tr))
    <3>1. {turns[i].pending} \cap {q} = {q}
      BY <1>3
    <3>. QED  BY <1>0, <3>1 DEF Interrupt, Put
  <2>2. tr \in Turn /\ Alike(tr, turns[i])
    BY <1>1, Bounds DEF Turn, Alike
  <2>3. tr.events = turns[i].events /\ tr.pending = 0 /\ tr.canceled = turns[i].canceled
    BY <1>1 DEF Turn
  <2>. HIDE DEF tr
  <2>4. turns[i].events \in Seq(Event) /\ ~Queued(i, q)
    BY <1>1, <1>3, PendingFree DEF Turn
  <2>5. Less(tr, turns[i], {q})
    BY <2>3, <2>4, SameLess DEF Queued
  <2>6. Cancels(i, tr, {q})
    BY <2>1, <2>2, <2>5 DEF Cancels
  <2>. QED  BY <1>0, <1>1, <1>2, <1>3, <2>6, CancelPending DEF Effect
<1>4. CASE turns[i].pending # q
  <2>. DEFINE tr == [turns[i] EXCEPT !.paused = FALSE]
  <2>1. Put(i, Canceled(tr)) /\ questions' = Respond(CanceledQuestions(tr))
    <3>1. {turns[i].pending} \cap {q} = {} /\ {} \cup CanceledQuestions(tr) = CanceledQuestions(tr)
      BY <1>4
    <3>2. [turns[i] EXCEPT !.paused = FALSE, !.pending = @] = tr
      BY <1>1 DEF Turn
    <3>. HIDE DEF tr
    <3>. QED  BY <1>0, <3>1, <3>2 DEF Interrupt, Put
  <2>2. tr \in Turn /\ Alike(tr, turns[i])
    BY <1>1, Bounds DEF Turn, Alike
  <2>3. tr.events = turns[i].events /\ tr.pending = turns[i].pending
        /\ tr.canceled = turns[i].canceled
    BY <1>1 DEF Turn
  <2>. HIDE DEF tr
  <2>4. Less(tr, turns[i], {}) /\ HandsLess({})
    BY <1>1, <1>2, <2>3, SameQueue, HandsNone
  <2>. QED  BY <1>0, <1>1, <2>1, <2>2, <2>4, PlainCancel DEF Effect
<1>. QED  BY <1>3, <1>4

LEMMA DoesWorking ==
    ASSUME LockInv, QuestionInv, NEW t \in Tasks, Working(t)
    PROVE  Effect({})
<1>1. exec[t].turn \in TurnIds /\ reader' = reader
  BY OwnTurn DEF Working, OnTurn, pumpVars
<1>2. CASE Goto(t, "pump") /\ turns' = turns /\ questions' = questions
  <2>1. OnlyExec(t) /\ exec'[t].pc = "pump"
    BY <1>2, GotoExec
  <2>. QED  BY <1>1, <1>2, <2>1, HandsNone, NoTurn DEF Effect
<1>3. CASE exec' = [exec EXCEPT ![t] = NoExec] /\ cancelTurn(exec[t].turn)
  BY <1>1, <1>3, FinishExec, HandsNone, CancelAsIs DEF Effect
<1>. QED  BY <1>2, <1>3 DEF Working

LEMMA DoesPause ==
    ASSUME LockInv, QuestionInv, NEW t \in Tasks, Pause(t)
    PROVE  Effect({})
<1>1. exec[t].turn \in TurnIds /\ reader' = reader /\ HandsLess({})
  BY OwnTurn, FinishExec, HandsNone DEF Pause, OnTurn, pumpVars, Finish
<1>2. CASE turns' = turns /\ questions' = questions
  BY <1>1, <1>2, NoTurn DEF Effect
<1>3. CASE cancelTurn(exec[t].turn)
  BY <1>1, <1>3, CancelAsIs DEF Effect
<1>. QED  BY <1>2, <1>3 DEF Pause

\* The first event leaves the queue.
Popped(tr) == [tr EXCEPT !.events = Tail(@)]

LEMMA PoppedTurn ==
    ASSUME NEW tr \in Turn, tr.events # <<>>
    PROVE  /\ Popped(tr) \in Turn /\ Alike(Popped(tr), tr) /\ Less(Popped(tr), tr, {})
           /\ Popped(tr).paused = tr.paused /\ Popped(tr).events = Tail(tr.events)
           /\ Popped(tr).pending = tr.pending /\ Popped(tr).canceled = tr.canceled
           /\ Head(tr.events) \in Event /\ Head(tr.events) = tr.events[1]
           /\ 1 \in DOMAIN tr.events
           /\ \A k \in DOMAIN Tail(tr.events) :
                  k \in Nat /\ k # 0 /\ k + 1 \in DOMAIN tr.events /\ Tail(tr.events)[k] = tr.events[k + 1]
<1>1. tr.events \in Seq(Event)
  BY DEF Turn
<1>2. /\ Tail(tr.events) \in Seq(Event) /\ Head(tr.events) \in Event
      /\ Head(tr.events) = tr.events[1] /\ 1 \in DOMAIN tr.events
      /\ \A k \in DOMAIN Tail(tr.events) :
            k \in Nat /\ k # 0 /\ k + 1 \in DOMAIN tr.events /\ Tail(tr.events)[k] = tr.events[k + 1]
  BY <1>1
<1>3. /\ Popped(tr) \in Turn /\ Alike(Popped(tr), tr)
      /\ Popped(tr).paused = tr.paused /\ Popped(tr).events = Tail(tr.events)
      /\ Popped(tr).pending = tr.pending /\ Popped(tr).canceled = tr.canceled
  BY <1>2 DEF Turn, Alike, Popped
<1>4. Less(Popped(tr), tr, {})
  BY <1>2, <1>3 DEF Less
<1>. QED  BY <1>2, <1>3, <1>4

\* pump takes a question out of the queue.
LEMMA PumpsQuestion ==
    ASSUME LockInv, QuestionInv, NEW t \in Tasks, exec[t].pc = "pump", NEW i, i = exec[t].turn,
           turns[i].events # <<>>, IsQuestion(Head(turns[i].events)), Put(i, Popped(turns[i])),
           NEW q, q = Head(turns[i].events).q, OnlyExec(t), exec'[t].pc = "ask",
           exec'[t].turn = i, exec'[t].q = q, questions' = questions, reader' = reader
    PROVE  Effect({})
<1>1. i \in TurnIds /\ turns[i] \in Turn /\ turns[i].task = t
  BY OwnTurn DEF OnTurn
<1>2. PICK a, b : a = turns[i] /\ b = Popped(turns[i])
  OBVIOUS
<1>3. /\ b \in Turn /\ Alike(b, a) /\ b.paused = a.paused /\ b.pending = a.pending
      /\ b.canceled = a.canceled /\ 1 \in DOMAIN a.events /\ a.events[1].q = q
      /\ IsQuestion(a.events[1])
      /\ \A k \in DOMAIN b.events :
            k \in Nat /\ k # 0 /\ k + 1 \in DOMAIN a.events /\ b.events[k] = a.events[k + 1]
  BY ZenonT(60), <1>1, <1>2, PoppedTurn
<1>4. OneTurn(i) /\ turns'[i] = b
  BY <1>1, <1>2, <1>3, PutOne DEF LockInv, TypeOK
<1>5. OpenStay
  BY DEF OpenStay, Open
<1>6. Queued(i, q) /\ Open(i, q) /\ q # 0 /\ a.pending # q
  <2>1. Queued(i, q)
    BY <1>2, <1>3 DEF Queued
  <2>2. QueueOK(i)
    BY <1>1 DEF QuestionInv
  <2>3. (Open(i, q) /\ a.pending # q) \/ (a.pending = 0 /\ Open(i, q))
    BY <1>2, <1>3, <2>1, <2>2 DEF QueueOK
  <2>4. q # 0
    <3>1. questions \in Seq([turn : 1..MaxTurns, answers : Nat])
      BY DEF LockInv, TypeOK
    <3>2. 0 \notin DOMAIN questions
      BY <3>1
    <3>. QED  BY <2>3, <3>2 DEF Open
  <2>. QED  BY <2>1, <2>3, <2>4
<1>7. \A k : Queued(i, k)' => Queued(i, k) /\ k # q
  <2>1. SUFFICES ASSUME NEW l \in DOMAIN b.events, IsQuestion(b.events[l])
                 PROVE  Queued(i, b.events[l].q) /\ b.events[l].q # q
    BY <1>4 DEF Queued
  <2>2. b.events[l] = a.events[l + 1] /\ l + 1 \in DOMAIN a.events /\ l + 1 # 1
    BY <1>3
  <2>3. QueueOK(i)
    BY <1>1 DEF QuestionInv
  <2>. QED  BY <1>2, <1>3, <2>1, <2>2, <2>3 DEF QueueOK, Queued
<1>8. QueueOK(i)'
  <2>1. QueueOK(i)
    BY <1>1 DEF QuestionInv
  <2>2. \A k \in DOMAIN b.events : IsQuestion(b.events[k]) => Open(i, b.events[k].q)'
    BY <1>2, <1>3, <1>5, <2>1 DEF QueueOK, OpenStay
  <2>3. ASSUME NEW k \in DOMAIN b.events, NEW l \in DOMAIN b.events, IsQuestion(b.events[k]),
               IsQuestion(b.events[l]), b.events[k].q = b.events[l].q
        PROVE  k = l
    <3>1. PICK m, n : m = k + 1 /\ n = l + 1 /\ k \in Nat /\ l \in Nat
      BY <1>3
    <3>2. /\ m \in DOMAIN a.events /\ n \in DOMAIN a.events /\ IsQuestion(a.events[m])
          /\ IsQuestion(a.events[n]) /\ a.events[m].q = a.events[n].q
      BY <1>3, <2>3, <3>1
    <3>3. m = n
      BY <1>2, <2>1, <3>2 DEF QueueOK
    <3>. QED  BY <3>1, <3>3
  <2>4. b.pending # 0 => ~b.canceled /\ ~b.ended /\ Open(i, b.pending)' /\ ~Queued(i, b.pending)'
    BY <1>2, <1>3, <1>5, <1>7, <2>1 DEF QueueOK, OpenStay, Alike
  <2>. QED  BY <1>4, <2>2, <2>3, <2>4 DEF QueueOK
<1>9. ASSUME NEW j \in TurnIds  PROVE QueueOK(j)'
  BY <1>4, <1>5, <1>8, QueueStays DEF QuestionInv, OneTurn
<1>10. ASSUME NEW u \in Tasks  PROVE HandOK(u)'
  <2>1. CASE u = t
    <3>1. Open(i, q)' /\ ~Queued(i, q)' /\ turns'[i].pending # q
      BY <1>3, <1>4, <1>5, <1>6, <1>7 DEF OpenStay
    <3>. QED  BY <2>1, <3>1 DEF HandOK, Open, Queued
  <2>2. CASE u # t
    <3>1. exec'[u] = exec[u] /\ HandOK(u)
      BY <2>2 DEF OnlyExec, QuestionInv
    <3>2. InHand(u) => exec[u].turn \in TurnIds /\ exec[u].turn # i
      BY <1>1, <2>2 DEF LockInv, ExecOK, InHand, OnTurn
    <3>. QED  BY <1>4, <1>5, <3>1, <3>2, HandStays DEF OneTurn
  <2>. QED  BY <2>1, <2>2
<1>11. ASSUME NEW p \in Procs  PROVE ReaderOK(p)'
  <2>1. ReaderOK(p) /\ reader'[p] = reader[p] /\ Len(turns') = Len(turns)
    BY <1>4 DEF QuestionInv, OneTurn
  <2>2. \A j \in TurnIds : turns'[j].task = turns[j].task /\ turns'[j].proc = turns[j].proc
    BY <1>2, <1>3, <1>4 DEF OneTurn, Alike
  <2>3. ASSUME NEW j \in TurnIds, NEW u \in Tasks, NEW k, k # 0, Open(j, k), ~Queued(j, k),
               turns[j].pending # k, u = turns[j].task, ~(InHand(u) /\ exec[u].q = k)
        PROVE  ~Queued(j, k)' /\ turns'[j].pending # k /\ ~(InHand(u)' /\ exec'[u].q = k)
    <3>1. k # q
      BY <1>6, <2>3 DEF Open
    <3>2. ~(InHand(u)' /\ exec'[u].q = k)
      BY <2>3, <3>1 DEF OnlyExec, InHand
    <3>3. ~Queued(j, k)' /\ turns'[j].pending # k
      <4>1. CASE j = i
        BY <1>2, <1>3, <1>4, <1>7, <2>3, <4>1
      <4>2. CASE j # i
        BY <1>4, <2>3, <4>2 DEF OneTurn, Queued
      <4>. QED  BY <4>1, <4>2
    <3>. QED  BY <3>2, <3>3
  <2>. QED  BY <1>5, <2>1, <2>2, <2>3, ReaderStays
<1>12. TurnIds' = TurnIds
  BY <1>4 DEF OneTurn, TurnIds
<1>13. QuestionInv'
  BY <1>9, <1>10, <1>11, <1>12 DEF QuestionInv
<1>. QED  BY <1>1, <1>2, <1>3, <1>4, <1>13, OneTurnCalm DEF Effect, PausedKept

LEMMA DoesPump ==
    ASSUME LockInv, QuestionInv, NEW t \in Tasks, Pump(t)
    PROVE  Effect({})
<1>0. PICK i : i = exec[t].turn
  OBVIOUS
<1>1. /\ i \in TurnIds /\ turns[i] \in Turn /\ exec[t].pc = "pump" /\ reader' = reader
      /\ exec \in [Tasks -> Exec] /\ turns \in Seq(Turn)
  BY <1>0, OwnTurn DEF Pump, OnTurn, pumpVars, LockInv, TypeOK
<1>2. CASE turns[i].events = <<>>
  <2>1. cancelTurn(i) /\ exec' = [exec EXCEPT ![t] = NoExec]
    BY <1>0, <1>2 DEF Pump
  <2>. QED  BY <1>1, <2>1, FinishExec, HandsNone, CancelAsIs DEF Effect
<1>3. CASE turns[i].events # <<>>
  <2>. DEFINE tr == Popped(turns[i])
              e == Head(turns[i].events)
  <2>1. /\ tr \in Turn /\ Alike(tr, turns[i]) /\ Less(tr, turns[i], {})
        /\ tr.paused = turns[i].paused /\ e \in Event
    BY <1>1, <1>3, PoppedTurn
  <2>2. [turns EXCEPT ![i].events = Tail(@)] = [turns EXCEPT ![i] = tr]
    BY <1>1 DEF Popped, TurnIds
  <2>3. [[turns EXCEPT ![i] = tr] EXCEPT ![i] = Canceled(@)] = [turns EXCEPT ![i] = Canceled(tr)]
    BY <1>1 DEF TurnIds
  <2>4. [turns EXCEPT ![i] = tr][i] = tr
    BY <1>1 DEF TurnIds
  <2>. HIDE DEF tr
  <2>5. CASE Put(i, tr) /\ questions' = questions /\ HandsLess({})
    BY <1>1, <2>1, <2>5, PlainPut DEF Effect, PausedKept
  <2>6. CASE /\ Put(i, Canceled(tr)) /\ questions' = Respond(CanceledQuestions(tr))
             /\ HandsLess({})
    BY <1>1, <2>1, <2>6, PlainCancel DEF Effect, PausedKept
  <2>7. CASE /\ Put(i, tr) /\ questions' = questions
             /\ exec' = [exec EXCEPT ![t].pc = "ask", ![t].q = e.q] /\ e.kind = "question"
    <3>1. PICK q : q = e.q
      OBVIOUS
    <3>2. exec[t] \in Exec /\ exec'[t] = [exec[t] EXCEPT !.pc = "ask", !.q = q]
      BY <1>1, <2>7, <3>1
    <3>3. OnlyExec(t) /\ exec'[t].pc = "ask" /\ exec'[t].turn = i /\ exec'[t].q = q
      BY <1>0, <1>1, <2>7, <3>2 DEF Exec, OnlyExec
    <3>4. IsQuestion(e)
      BY <2>7 DEF IsQuestion
    <3>. QED  BY <1>0, <1>1, <1>3, <2>7, <3>1, <3>3, <3>4, PumpsQuestion DEF tr
  <2>8. CASE e.kind = "update"
    <3>1. \/ turns' = [turns EXCEPT ![i] = tr] /\ questions' = questions /\ exec' = exec
          \/ /\ turns' = [turns EXCEPT ![i] = Canceled(tr)]
             /\ questions' = Respond(CanceledQuestions(tr)) /\ exec' = [exec EXCEPT ![t] = NoExec]
      BY <1>0, <1>3, <2>2, <2>3, <2>4, <2>8 DEF Pump, Finish
    <3>. QED  BY <2>5, <2>6, <3>1, HandsSame, FinishExec, HandsNone DEF Put
  <2>9. CASE e.kind = "question"
    <3>1. /\ turns' = [turns EXCEPT ![i] = tr] /\ questions' = questions
          /\ exec' = [exec EXCEPT ![t].pc = "ask", ![t].q = e.q]
      BY <1>0, <1>3, <2>2, <2>9 DEF Pump
    <3>. QED  BY <2>7, <2>9, <3>1 DEF Put
  <2>10. CASE e.kind = "result"
    <3>1. /\ turns' = [turns EXCEPT ![i] = tr] /\ questions' = questions
          /\ exec' = [exec EXCEPT ![t] = NoExec]
      BY <1>0, <1>3, <2>2, <2>10 DEF Pump, Finish
    <3>. QED  BY <2>5, <3>1, FinishExec, HandsNone DEF Put
  <2>11. e.kind \in {"update", "question", "result"}
    BY <2>1 DEF Event
  <2>. QED  BY <2>8, <2>9, <2>10, <2>11
<1>. QED  BY <1>2, <1>3

\* pump makes a question the pending one.
LEMMA AsksCaller ==
    ASSUME LockInv, QuestionInv, NEW t \in Tasks, exec[t].pc = "ask", NEW i, i = exec[t].turn,
           NEW q, q = exec[t].q, ~turns[i].canceled, ~turns[i].ended,
           Put(i, [turns[i] EXCEPT !.pending = q, !.paused = TRUE]), OnlyExec(t),
           exec'[t].pc = "pausing", questions' = questions, reader' = reader
    PROVE  Effect({i}) /\ turns'[i].paused
<1>1. i \in TurnIds /\ turns[i] \in Turn /\ turns[i].task = t
  BY OwnTurn DEF OnTurn
<1>2. PICK a, b : a = turns[i] /\ b = [turns[i] EXCEPT !.pending = q, !.paused = TRUE]
  OBVIOUS
<1>3. Open(i, q) /\ ~Queued(i, q) /\ q # 0 /\ q \in 0..MaxQuestions
  BY DEF QuestionInv, HandOK, InHand, Open, LockInv, TypeOK, Exec
<1>4. /\ b \in Turn /\ Alike(b, a) /\ b.paused /\ b.pending = q
      /\ b.canceled = a.canceled /\ b.events = a.events
  BY <1>1, <1>2, <1>3 DEF Turn, Alike
<1>5. OneTurn(i) /\ turns'[i] = b
  BY <1>1, <1>2, <1>4, PutOne DEF LockInv, TypeOK
<1>6. OpenStay
  BY DEF OpenStay, Open
<1>7. \A j \in TurnIds : turns'[j].events = turns[j].events
  BY <1>2, <1>4, <1>5 DEF OneTurn
<1>8. \A j \in TurnIds : \A k : Queued(j, k)' <=> Queued(j, k)
  BY <1>7 DEF Queued
<1>9. QueueOK(i)'
  <2>1. QueueOK(i)
    BY <1>1 DEF QuestionInv
  <2>2. \A k \in DOMAIN b.events : IsQuestion(b.events[k]) => Open(i, b.events[k].q)'
    BY <1>2, <1>4, <1>6, <2>1 DEF QueueOK, OpenStay
  <2>3. Open(i, q)' /\ ~Queued(i, q)' /\ ~b.canceled /\ ~b.ended
    BY <1>1, <1>2, <1>3, <1>4, <1>6, <1>8 DEF OpenStay, Alike
  <2>4. b.pending # 0 => ~b.canceled /\ ~b.ended /\ Open(i, b.pending)' /\ ~Queued(i, b.pending)'
    BY <1>4, <2>3
  <2>5. \A k, l \in DOMAIN b.events :
            IsQuestion(b.events[k]) /\ IsQuestion(b.events[l]) /\ b.events[k].q = b.events[l].q
              => k = l
    <3>1. b.events = turns[i].events
      BY <1>2, <1>4
    <3>. QED  BY <2>1, <3>1 DEF QueueOK
  <2>. QED  BY <1>5, <2>2, <2>4, <2>5 DEF QueueOK
<1>10. ASSUME NEW j \in TurnIds  PROVE QueueOK(j)'
  BY <1>5, <1>6, <1>9, QueueStays DEF QuestionInv, OneTurn
<1>11. ASSUME NEW u \in Tasks  PROVE HandOK(u)'
  <2>1. CASE u = t
    BY <2>1 DEF HandOK, InHand
  <2>2. CASE u # t
    <3>1. exec'[u] = exec[u] /\ HandOK(u)
      BY <2>2 DEF OnlyExec, QuestionInv
    <3>2. InHand(u) => exec[u].turn \in TurnIds /\ exec[u].turn # i
      BY <1>1, <2>2 DEF LockInv, ExecOK, InHand, OnTurn
    <3>. QED  BY <1>5, <1>6, <3>1, <3>2, HandStays DEF OneTurn
  <2>. QED  BY <2>1, <2>2
<1>12. ASSUME NEW p \in Procs  PROVE ReaderOK(p)'
  <2>1. ReaderOK(p) /\ reader'[p] = reader[p] /\ Len(turns') = Len(turns)
    BY <1>5 DEF QuestionInv, OneTurn
  <2>2. \A j \in TurnIds : turns'[j].task = turns[j].task /\ turns'[j].proc = turns[j].proc
    <3>1. Alike(turns'[i], turns[i])
      BY <1>2, <1>4, <1>5
    <3>. QED  BY <1>5, <3>1 DEF OneTurn, Alike
  <2>3. ASSUME NEW j \in TurnIds, NEW u \in Tasks, NEW k, k # 0, Open(j, k), ~Queued(j, k),
               turns[j].pending # k, u = turns[j].task, ~(InHand(u) /\ exec[u].q = k)
        PROVE  ~Queued(j, k)' /\ turns'[j].pending # k /\ ~(InHand(u)' /\ exec'[u].q = k)
    <3>1. k # q
      BY <1>1, <1>3, <2>3 DEF Open, InHand
    <3>2. ~(InHand(u)' /\ exec'[u].q = k)
      BY <2>3 DEF OnlyExec, InHand
    <3>3. turns'[j].pending # k
      BY <1>4, <1>5, <2>3, <3>1 DEF OneTurn
    <3>. QED  BY <1>8, <2>3, <3>2, <3>3
  <2>. QED  BY <1>6, <2>1, <2>2, <2>3, ReaderStays
<1>13. TurnIds' = TurnIds
  BY <1>5 DEF OneTurn, TurnIds
<1>14. QuestionInv'
  BY <1>10, <1>11, <1>12, <1>13 DEF QuestionInv
<1>. QED  BY <1>1, <1>2, <1>4, <1>5, <1>14, OneTurnCalm DEF Effect

LEMMA DoesAsk ==
    ASSUME LockInv, QuestionInv, NEW t \in Tasks, Ask(t)
    PROVE  /\ Effect({exec[t].turn})
           /\ turns'[exec[t].turn].paused \/ Effect({})
<1>0. PICK i, q : i = exec[t].turn /\ q = exec[t].q
  OBVIOUS
<1>1. /\ i \in TurnIds /\ turns[i] \in Turn /\ exec[t].pc = "ask" /\ InHand(t) /\ reader' = reader
      /\ turns \in Seq(Turn)
  BY <1>0, OwnTurn DEF Ask, OnTurn, InHand, pumpVars, LockInv, TypeOK
<1>2. CASE Effect({})
  BY <1>0, <1>2 DEF Effect, PausedKept
<1>3. CASE questions' = Respond({q}) /\ Goto(t, "pump") /\ turns' = turns
  <2>1. OnlyExec(t) /\ exec'[t].pc = "pump"
    BY <1>3, GotoExec
  <2>2. OneTurn(i) /\ Alike(turns'[i], turns[i])
    BY <1>1, <1>3 DEF OneTurn, Alike
  <2>3. QuestionInv'
    BY <1>0, <1>1, <1>3, <2>1, <2>2, AnswerHand
  <2>4. Effect({})
    BY <1>1, <1>3, <2>2, <2>3, OneTurnCalm DEF Effect, PausedKept
  <2>. QED  BY <1>2, <2>4
<1>4. CASE /\ turns' = [turns EXCEPT ![i] = Canceled(@)]
           /\ questions' = Respond({q} \cup CanceledQuestions(turns[i]))
           /\ exec' = [exec EXCEPT ![t] = NoExec]
  <2>1. OnlyExec(t) /\ exec'[t].pc \notin {"ask", "reply"}
    BY <1>4, FinishExec
  <2>2. /\ Open(i, q) /\ ~Queued(i, q) /\ turns[i].pending # q
        /\ HandsLess({q}) /\ ReadersLess({q})
    BY <1>0, <1>1, <2>1, HandAnswered
  <2>3. Less(turns[i], turns[i], {q})
    BY <1>1, <2>2, UntouchedLess
  <2>4. Cancels(i, turns[i], {q})
    BY <1>1, <1>4, <2>3 DEF Cancels, Put, Alike
  <2>5. QuestionInv'
    BY <1>1, <2>2, <2>4, CancelStep
  <2>6. Effect({})
    BY <1>1, <2>4, <2>5, CancelTurn, OneTurnCalm DEF Effect, PausedKept
  <2>. QED  BY <1>2, <2>6
<1>5. CASE /\ ~turns[i].canceled /\ ~turns[i].ended /\ Goto(t, "pausing")
           /\ turns' = [turns EXCEPT ![i].pending = q, ![i].paused = TRUE]
           /\ questions' = questions
  <2>1. OnlyExec(t) /\ exec'[t].pc = "pausing"
    BY <1>5, GotoExec
  <2>2. Put(i, [turns[i] EXCEPT !.pending = q, !.paused = TRUE])
    BY <1>1, <1>5 DEF Put, TurnIds
  <2>. QED  BY <1>0, <1>1, <1>5, <2>1, <2>2, AsksCaller
<1>. QED  BY <1>0, <1>3, <1>4, <1>5 DEF Ask, Finish

LEMMA DoesCancelActs ==
    ASSUME LockInv, QuestionInv, NEW t \in Tasks, CancelActs(t)
    PROVE  Effect({i \in TurnIds : turns[i].task = t})
<1>. DEFINE Own == {i \in TurnIds : turns[i].task = t}
<1>0. PICK i : i = cancel[t].turn
  OBVIOUS
<1>1. reader' = reader /\ exec \in [Tasks -> Exec] /\ turns \in Seq(Turn)
  BY DEF CancelActs, LockInv, TypeOK
<1>2. HandsLess({})
  <2>1. CASE exec' = exec
    BY <2>1, HandsSame
  <2>2. CASE exec' = [exec EXCEPT ![t].ctx = "canceled"]
    <3>1. ASSUME NEW u \in Tasks
          PROVE  exec'[u].pc = exec[u].pc /\ exec'[u].turn = exec[u].turn /\ exec'[u].q = exec[u].q
      <4>1. exec[u] \in Exec
        BY <1>1
      <4>. QED  BY <1>1, <2>2, <4>1 DEF Exec
    <3>. QED  BY <3>1 DEF HandsLess, InHand
  <2>. QED  BY <2>1, <2>2 DEF CancelActs
<1>3. CASE i = 0
  <2>1. turns' = turns /\ questions' = questions
    BY <1>0, <1>3 DEF CancelActs
  <2>. QED  BY <1>1, <1>2, <2>1, NoTurn DEF Effect, PausedKept
<1>4. CASE i # 0
  <2>. DEFINE tr == [turns[i] EXCEPT !.paused = FALSE]
  <2>1. i \in TurnIds /\ turns[i] \in Turn /\ i \in Own
    BY <1>0, <1>4, TurnType DEF LockInv, TypeOK, ExecOK
  <2>2. tr \in Turn /\ Alike(tr, turns[i])
    BY <2>1 DEF Turn, Alike
  <2>3. /\ tr.events = turns[i].events /\ tr.pending = turns[i].pending
        /\ tr.canceled = turns[i].canceled
    BY <2>1 DEF Turn
  <2>4. Put(i, Canceled(tr))
    BY <1>0, <1>4 DEF CancelActs, Put
  <2>5. questions' = Respond(CanceledQuestions(turns[i]))
    BY <1>0, <1>4 DEF CancelActs
  <2>. HIDE DEF tr
  <2>6. CanceledQuestions(tr) = CanceledQuestions(turns[i])
    BY <2>3 DEF CanceledQuestions, OpenQuestions
  <2>7. Effect({i})
    BY <1>1, <1>2, <2>1, <2>2, <2>3, <2>4, <2>5, <2>6, SameQueue, PlainCancel DEF Effect
  <2>. QED  BY <2>1, <2>7 DEF Effect, PausedKept
<1>. QED  BY <1>3, <1>4

LEMMA DoesExpire ==
    ASSUME LockInv, QuestionInv, NEW i \in TurnIds, Expire(i)
    PROVE  Effect({})
<1>. DEFINE tr == [turns[i] EXCEPT !.expired = TRUE, !.pending = 0]
            q == turns[i].pending
<1>1. turns[i] \in Turn /\ reader' = reader /\ exec' = exec /\ q # 0
  BY TurnType DEF Expire, agentVars, LockInv, TypeOK
<1>2. tr \in Turn /\ Alike(tr, turns[i]) /\ tr.paused = turns[i].paused
  BY <1>1, Bounds DEF Turn, Alike
<1>3. tr.events = turns[i].events /\ tr.pending = 0 /\ tr.canceled = turns[i].canceled
  BY <1>1 DEF Turn
<1>4. Put(i, Canceled(tr)) /\ questions' = Respond({q} \cup CanceledQuestions(tr))
  BY DEF Expire, Put
<1>. HIDE DEF tr
<1>5. turns[i].events \in Seq(Event) /\ ~Queued(i, q)
  BY <1>1, PendingFree DEF Turn
<1>6. Less(tr, turns[i], {q})
  BY <1>3, <1>5, SameLess DEF Queued
<1>7. Cancels(i, tr, {q})
  BY <1>2, <1>4, <1>6 DEF Cancels
<1>8. \A t \in Tasks : OnlyExec(t)
  BY <1>1 DEF OnlyExec
<1>9. turns[i].task \in Tasks
  BY <1>1 DEF Turn
<1>10. CalmTurns /\ PausedKept({i}) /\ turns'[i].paused = tr.paused /\ QuestionInv'
  BY <1>1, <1>7, <1>8, <1>9, CancelPending
<1>. QED  BY <1>2, <1>10 DEF Effect, PausedKept

LEMMA DoesInactive ==
    ASSUME LockInv, QuestionInv, NEW i \in TurnIds, Inactive(i)
    PROVE  Effect({})
<1>1. turns[i] \in Turn /\ reader' = reader /\ exec' = exec /\ HandsLess({}) /\ turns \in Seq(Turn)
  BY TurnType, HandsSame DEF Inactive, agentVars, LockInv, TypeOK
<1>2. CASE turns' = [turns EXCEPT ![i].watched = FALSE] /\ questions' = questions
  <2>. DEFINE tr == [turns[i] EXCEPT !.watched = FALSE]
  <2>1. tr \in Turn /\ Alike(tr, turns[i]) /\ tr.paused = turns[i].paused
    BY <1>1 DEF Turn, Alike
  <2>2. /\ tr.events = turns[i].events /\ tr.pending = turns[i].pending
        /\ tr.canceled = turns[i].canceled
    BY <1>1 DEF Turn
  <2>3. Put(i, tr)
    BY <1>1, <1>2 DEF Put, TurnIds
  <2>. HIDE DEF tr
  <2>. QED  BY <1>1, <1>2, <2>1, <2>2, <2>3, SameQueue, PlainPut DEF Effect, PausedKept
<1>3. CASE /\ turns' = [turns EXCEPT ![i] = Canceled([@ EXCEPT !.watched = FALSE, !.inactive = TRUE])]
           /\ questions' = Respond(CanceledQuestions(turns[i]))
  <2>. DEFINE tr == [turns[i] EXCEPT !.watched = FALSE, !.inactive = TRUE]
  <2>1. tr \in Turn /\ Alike(tr, turns[i]) /\ tr.paused = turns[i].paused
    BY <1>1 DEF Turn, Alike
  <2>2. /\ tr.events = turns[i].events /\ tr.pending = turns[i].pending
        /\ tr.canceled = turns[i].canceled
    BY <1>1 DEF Turn
  <2>3. Put(i, Canceled(tr))
    BY <1>3 DEF Put
  <2>. HIDE DEF tr
  <2>4. CanceledQuestions(tr) = CanceledQuestions(turns[i])
    BY <2>2 DEF CanceledQuestions, OpenQuestions
  <2>. QED  BY <1>1, <1>3, <2>1, <2>2, <2>3, <2>4, SameQueue, PlainCancel DEF Effect, PausedKept
<1>. QED  BY <1>2, <1>3 DEF Inactive

\* An event that is no question joins the queue of a turn.
LEMMA AppendedLess ==
    ASSUME NEW a, NEW b, a.events \in Seq(Event), NEW e \in Event, ~IsQuestion(e),
           b.events = Append(a.events, e), b.pending = a.pending \/ b.pending = 0,
           b.canceled = a.canceled
    PROVE  Less(b, a, {})
<1>1. \A k \in DOMAIN b.events : IsQuestion(b.events[k]) =>
          k + 0 \in DOMAIN a.events /\ b.events[k] = a.events[k + 0]
  <2>1. SUFFICES ASSUME NEW k \in DOMAIN b.events, IsQuestion(b.events[k])
                 PROVE  k + 0 \in DOMAIN a.events /\ b.events[k] = a.events[k + 0]
    OBVIOUS
  <2>2. k # Len(a.events) + 1
    BY <2>1
  <2>. QED  BY <2>1, <2>2
<1>. QED  BY <1>1 DEF Less

LEMMA DoesSessionUpdate ==
    ASSUME LockInv, QuestionInv, NEW i \in TurnIds, SessionUpdate(i)
    PROVE  Effect({})
<1>. DEFINE e == [kind |-> "update"]
            tr == [touch(turns[i]) EXCEPT !.updated = TRUE, !.events = Append(@, e)]
<1>1. turns[i] \in Turn /\ reader' = reader /\ HandsLess({}) /\ questions' = questions
  BY TurnType, HandsSame DEF SessionUpdate, agentVars, LockInv, TypeOK
<1>2. PICK a : a = touch(turns[i])
  OBVIOUS
<1>3. /\ a \in Turn /\ Alike(a, turns[i]) /\ a.paused = turns[i].paused
      /\ a.canceled = turns[i].canceled /\ a.events = turns[i].events
      /\ a.pending = turns[i].pending
  BY <1>1, <1>2, TouchedTurn
<1>4. e \in Event /\ ~IsQuestion(e)
  BY DEF Event, IsQuestion
<1>5. a.events \in Seq(Event)
  BY <1>3 DEF Turn
<1>6. Put(i, tr)
  BY DEF SessionUpdate, Put
<1>. HIDE DEF e
<1>7. Append(a.events, e) \in Seq(Event)
  BY <1>4, <1>5
<1>8. /\ tr \in Turn /\ Alike(tr, a) /\ tr.paused = a.paused
      /\ tr.canceled = a.canceled /\ tr.events = Append(a.events, e) /\ tr.pending = a.pending
  BY <1>2, <1>3, <1>7 DEF Turn, Alike
<1>. HIDE DEF tr
<1>9. Alike(tr, turns[i])
  BY <1>3, <1>8 DEF Alike
<1>10. Less(tr, turns[i], {})
  BY <1>3, <1>4, <1>5, <1>8, AppendedLess
<1>. QED  BY <1>1, <1>3, <1>6, <1>8, <1>9, <1>10, PlainPut DEF Effect, PausedKept

LEMMA DoesQueueQuestion ==
    ASSUME LockInv, QuestionInv, NEW p \in Procs, QueueQuestion(p)
    PROVE  Effect({})
<1>0. PICK q, i : q = reader[p] /\ i = questions[q].turn
  OBVIOUS
<1>1. /\ q # 0 /\ i \in TurnIds /\ turns[i].proc = p /\ Open(i, q) /\ ~Queued(i, q)
      /\ turns[i].pending # q /\ ~(InHand(turns[i].task) /\ exec[turns[i].task].q = q)
  BY <1>0 DEF QueueQuestion, QuestionInv, ReaderOK
<1>2. turns[i] \in Turn /\ exec' = exec /\ questions' = questions
  BY <1>1, TurnType DEF QueueQuestion, agentVars, LockInv, TypeOK
<1>3. reader'[p] = 0 /\ \A o \in Procs : o # p => reader'[o] = reader[o]
  BY DEF QueueQuestion, LockInv, TypeOK
<1>. DEFINE e == [kind |-> "question", q |-> q]
            tr == [touch(turns[i]) EXCEPT !.events = Append(@, e)]
<1>4. Put(i, tr)
  BY <1>0 DEF QueueQuestion, Put
<1>5. e \in Event /\ IsQuestion(e) /\ e.q = q
  <2>1. q \in 1..MaxQuestions
    BY <1>0, <1>1 DEF LockInv, TypeOK
  <2>. QED  BY <2>1 DEF Event, IsQuestion
<1>. HIDE DEF e
<1>6. PICK a : a = touch(turns[i])
  OBVIOUS
<1>7. /\ a \in Turn /\ Alike(a, turns[i]) /\ a.paused = turns[i].paused
      /\ a.canceled = turns[i].canceled /\ a.events = turns[i].events
      /\ a.pending = turns[i].pending
  BY <1>2, <1>6, TouchedTurn
<1>8. a.events \in Seq(Event) /\ Append(a.events, e) \in Seq(Event)
  BY <1>5, <1>7 DEF Turn
<1>9. PICK b : b = tr
  OBVIOUS
<1>10. /\ b \in Turn /\ Alike(b, a) /\ b.paused = a.paused
       /\ b.canceled = a.canceled /\ b.events = Append(a.events, e) /\ b.pending = a.pending
  BY <1>6, <1>7, <1>8, <1>9 DEF Turn, Alike
<1>. HIDE DEF tr
<1>11. OneTurn(i) /\ turns'[i] = b /\ Alike(b, turns[i])
  BY <1>1, <1>4, <1>7, <1>9, <1>10, PutOne DEF LockInv, TypeOK, Alike
<1>12. OpenStay /\ QueueOK(i)
  BY <1>1, <1>2 DEF OpenStay, Open, QuestionInv
<1>13. \A k \in DOMAIN b.events : \/ k \in DOMAIN a.events /\ b.events[k] = a.events[k]
                                  \/ k = Len(a.events) + 1 /\ b.events[k] = e
  BY <1>5, <1>8, <1>10
<1>14. \A k : Queued(i, k)' => Queued(i, k) \/ k = q
  BY <1>5, <1>7, <1>11, <1>13 DEF Queued
<1>15. QueueOK(i)'
  <2>1. \A k \in DOMAIN b.events : IsQuestion(b.events[k]) => Open(i, b.events[k].q)'
    <3>1. ASSUME NEW k \in DOMAIN b.events, IsQuestion(b.events[k])  PROVE Open(i, b.events[k].q)
      BY <1>1, <1>5, <1>7, <1>12, <1>13, <3>1 DEF QueueOK
    <3>. QED  BY <1>12, <3>1 DEF OpenStay
  <2>2. ASSUME NEW k \in DOMAIN b.events, NEW l \in DOMAIN b.events, IsQuestion(b.events[k]),
               IsQuestion(b.events[l]), b.events[k].q = b.events[l].q
        PROVE  k = l
    <3>1. \A m \in DOMAIN a.events : IsQuestion(a.events[m]) => a.events[m].q # q
      BY <1>1, <1>7 DEF Queued
    <3>2. \A m, n \in DOMAIN a.events :
              IsQuestion(a.events[m]) /\ IsQuestion(a.events[n]) /\ a.events[m].q = a.events[n].q
                => m = n
      BY <1>7, <1>12 DEF QueueOK
    <3>. QED  BY <1>5, <1>13, <2>2, <3>1, <3>2
  <2>3. b.pending # 0 => ~b.canceled /\ ~b.ended /\ Open(i, b.pending)' /\ ~Queued(i, b.pending)'
    <3>1. b.pending # 0 => /\ ~b.canceled /\ ~b.ended /\ Open(i, b.pending)
                           /\ ~Queued(i, b.pending) /\ b.pending # q
      BY <1>1, <1>7, <1>10, <1>12 DEF QueueOK, Alike
    <3>. QED  BY <1>12, <1>14, <3>1 DEF OpenStay
  <2>. QED  BY <1>11, <2>1, <2>2, <2>3 DEF QueueOK
<1>16. ASSUME NEW j \in TurnIds  PROVE QueueOK(j)'
  BY <1>11, <1>12, <1>15, QueueStays DEF QuestionInv, OneTurn
<1>17. ASSUME NEW u \in Tasks  PROVE HandOK(u)'
  <2>1. SUFFICES ASSUME InHand(u)  PROVE HandOK(u)'
    BY <1>2 DEF HandOK, InHand
  <2>2. PICK j, k : j = exec[u].turn /\ k = exec[u].q
    OBVIOUS
  <2>3. Open(j, k) /\ ~Queued(j, k) /\ turns[j].pending # k /\ j \in TurnIds /\ turns[j].task = u
    BY <2>1, <2>2 DEF QuestionInv, HandOK, LockInv, ExecOK, InHand, OnTurn
  <2>4. ~Queued(j, k)' /\ turns'[j].pending # k
    <3>1. CASE j = i
      <4>1. k # q
        BY <1>1, <2>1, <2>2, <2>3, <3>1
      <4>. QED  BY <1>7, <1>10, <1>11, <1>14, <2>3, <3>1, <4>1
    <3>2. CASE j # i
      BY <1>11, <2>3, <3>2 DEF OneTurn, Queued
    <3>. QED  BY <3>1, <3>2
  <2>5. Open(j, k)' /\ exec'[u].turn = j /\ exec'[u].q = k
    BY <1>2, <1>12, <2>2, <2>3 DEF OpenStay
  <2>. QED  BY <2>4, <2>5 DEF HandOK, Open, Queued
<1>18. ASSUME NEW o \in Procs  PROVE ReaderOK(o)'
  <2>1. CASE o = p
    BY <1>3, <2>1 DEF ReaderOK
  <2>2. CASE o # p
    <3>1. ReaderOK(o) /\ reader'[o] = reader[o] /\ Len(turns') = Len(turns)
      BY <1>3, <1>11, <2>2 DEF QuestionInv, OneTurn
    <3>2. \A j \in TurnIds : turns'[j].task = turns[j].task /\ turns'[j].proc = turns[j].proc
      BY <1>11 DEF OneTurn, Alike
    <3>3. ASSUME NEW j \in TurnIds, NEW u \in Tasks, NEW k, k = reader[o], k # 0, Open(j, k),
                 ~Queued(j, k), turns[j].pending # k, u = turns[j].task,
                 ~(InHand(u) /\ exec[u].q = k)
          PROVE  ~Queued(j, k)' /\ turns'[j].pending # k /\ ~(InHand(u)' /\ exec'[u].q = k)
      <4>1. turns[j].proc = o
        BY <3>1, <3>3 DEF ReaderOK, Open
      <4>2. j # i
        BY <1>1, <2>2, <4>1
      <4>. QED  BY <1>2, <1>11, <3>3, <4>2 DEF OneTurn, Queued, InHand
    <3>. QED  BY <1>12, <3>1, <3>2, <3>3, ReaderStays
  <2>. QED  BY <2>1, <2>2
<1>19. TurnIds' = TurnIds
  BY <1>11 DEF OneTurn, TurnIds
<1>20. QuestionInv'
  BY <1>2, <1>16, <1>17, <1>18, <1>19 DEF QuestionInv
<1>. QED  BY <1>1, <1>7, <1>10, <1>11, <1>20, OneTurnCalm DEF Effect, PausedKept

LEMMA DoesAgentAsk ==
    ASSUME LockInv, QuestionInv, NEW i \in TurnIds, AgentAsks(i)
    PROVE  /\ Effect({}) /\ questions' \in Seq(Asked)
           /\ reader' \in [Procs -> 0..MaxQuestions]
<1>0. PICK q, n, p : /\ q = Len(questions) + 1 /\ n \in {0, 1} /\ p = turns[i].proc
                     /\ questions' = Append(questions, [turn |-> i, answers |-> n])
                     /\ reader' = [reader EXCEPT ![p] = IF n = 0 THEN q ELSE 0]
  <2>1. CASE turns[i].registered /\ ~turns[i].canceled
    BY <2>1 DEF AgentAsks
  <2>2. CASE ~(turns[i].registered /\ ~turns[i].canceled)
    <3>1. /\ questions' = Append(questions, [turn |-> i, answers |-> 1])
          /\ reader' = [reader EXCEPT ![turns[i].proc] = 0]
      BY <2>2 DEF AgentAsks
    <3>2. reader' = [reader EXCEPT ![turns[i].proc] = IF 1 = 0 THEN Len(questions) + 1 ELSE 0]
      BY <3>1
    <3>. QED  BY <3>1, <3>2
  <2>. QED  BY <2>1, <2>2
<1>1. turns' = turns /\ exec' = exec /\ q <= MaxQuestions
  BY <1>0 DEF AgentAsks, agentVars
<1>2. /\ turns \in Seq(Turn) /\ questions \in Seq(Asked) /\ turns[i] \in Turn
      /\ reader \in [Procs -> 0..MaxQuestions] /\ p \in Procs /\ Len(turns) <= MaxTurns
  BY <1>0, TurnType DEF LockInv, TypeOK, Asked, Turn
<1>3. [turn |-> i, answers |-> n] \in Asked
  <2>1. i \in 1..MaxTurns
    BY <1>2, Bounds DEF TurnIds
  <2>. QED  BY <1>0, <2>1 DEF Asked
<1>4. /\ questions' \in Seq(Asked) /\ Len(questions') = q /\ q \in Nat /\ q # 0
      /\ DOMAIN questions' = DOMAIN questions \cup {q} /\ q \notin DOMAIN questions
      /\ \A k \in DOMAIN questions : questions'[k] = questions[k]
      /\ questions'[q] = [turn |-> i, answers |-> n]
  BY <1>0, <1>2, <1>3
<1>5. reader' \in [Procs -> 0..MaxQuestions]
  BY <1>0, <1>1, <1>2, <1>4, Bounds
<1>6. OpenStay
  BY <1>4 DEF OpenStay, Open
<1>7. ASSUME NEW j \in TurnIds  PROVE QueueOK(j)'
  BY <1>1, <1>6, QueueStays DEF QuestionInv
<1>8. ASSUME NEW u \in Tasks  PROVE HandOK(u)'
  BY <1>1, <1>6, HandStays DEF QuestionInv
<1>9. ASSUME NEW o \in Procs  PROVE ReaderOK(o)'
  <2>1. CASE o = p /\ n = 0
    <3>1. reader'[o] = q
      BY <1>0, <1>2, <2>1
    <3>2. Open(i, q)' /\ questions'[q].turn = i
      BY <1>4, <2>1 DEF Open
    <3>3. ~Queued(i, q) /\ turns[i].pending # q
      BY <1>4 DEF QuestionInv, QueueOK, Queued, Open
    <3>4. turns[i].task \in Tasks
      BY <1>2 DEF Turn
    <3>5. ~(InHand(turns[i].task) /\ exec[turns[i].task].q = q)
      BY <1>4, <3>4 DEF QuestionInv, HandOK, Open
    <3>6. PICK u : u = turns[i].task
      OBVIOUS
    <3>7. ~Queued(i, q)' /\ ~(InHand(u)' /\ exec'[u].q = q)
      BY <1>1, <3>3, <3>5, <3>6 DEF Queued, InHand
    <3>. QED  BY ZenonT(60), <1>0, <1>1, <2>1, <3>1, <3>2, <3>3, <3>6, <3>7 DEF ReaderOK, Open, Queued, InHand, TurnIds
  <2>2. CASE o = p /\ n = 1
    BY <1>0, <1>2, <2>2 DEF ReaderOK
  <2>3. CASE o # p
    <3>1. ReaderOK(o) /\ reader'[o] = reader[o]
      BY <1>0, <1>2, <2>3 DEF QuestionInv
    <3>2. ASSUME NEW j \in TurnIds, NEW u \in Tasks, NEW k, ~Queued(j, k),
                 ~(InHand(u) /\ exec[u].q = k)
          PROVE  ~Queued(j, k)' /\ ~(InHand(u)' /\ exec'[u].q = k)
      BY <1>1, <3>2 DEF Queued, InHand
    <3>. QED  BY <1>1, <1>6, <3>1, <3>2, ReaderStays
  <2>. QED  BY <1>0, <2>1, <2>2, <2>3
<1>10. \A k \in DOMAIN questions' : questions'[k].answers <= 1 /\ questions'[k].turn \in TurnIds
  BY <1>0, <1>4 DEF QuestionInv
<1>11. TurnIds' = TurnIds
  BY <1>1 DEF TurnIds
<1>12. QuestionInv'
  BY <1>1, <1>4, <1>7, <1>8, <1>9, <1>10, <1>11 DEF QuestionInv
<1>. QED  BY <1>1, <1>2, <1>4, <1>5, <1>12 DEF Effect, CalmTurns, PausedKept, Alike

\* Shutdown cancels all turns at once.
LEMMA DoesShutdownWaits ==
    ASSUME LockInv, QuestionInv, ShutdownWaits
    PROVE  /\ Effect({})
           /\ \A t \in Tasks : \/ exec'[t] = exec[t]
                               \/ t \in waiting /\ exec'[t] = [exec[t] EXCEPT !.ctx = "draining"]
           /\ exec' \in [Tasks -> Exec]
<1>1. /\ turns \in Seq(Turn) /\ Len(turns) \in Nat /\ exec \in [Tasks -> Exec] /\ reader' = reader
      /\ \A i \in TurnIds : turns[i] \in Turn /\ turns[i].events \in Seq(Event)
  BY TurnType DEF LockInv, TypeOK, ShutdownWaits, shutVars, Turn
<1>2. CASE exec' = exec /\ turns' = turns /\ questions' = questions
  BY <1>1, <1>2, HandsSame, NoTurn DEF Effect
<1>. DEFINE Left == {i \in TurnIds : turns[i].registered}
            S == UNION {CanceledQuestions(turns[i]) : i \in Left}
<1>3. CASE /\ exec' = [t \in Tasks |-> IF t \in waiting /\ exec[t].ctx = "live"
                                THEN [exec[t] EXCEPT !.ctx = "draining"] ELSE exec[t]]
           /\ turns' = [i \in TurnIds |-> IF turns[i].registered THEN Canceled(turns[i]) ELSE turns[i]]
           /\ questions' = Respond(S)
  <2>1. ASSUME NEW t \in Tasks
        PROVE  /\ exec'[t] \in Exec
               /\ \/ exec'[t] = exec[t]
                  \/ t \in waiting /\ exec'[t] = [exec[t] EXCEPT !.ctx = "draining"]
               /\ exec'[t].pc = exec[t].pc /\ exec'[t].turn = exec[t].turn /\ exec'[t].q = exec[t].q
    <3>1. exec[t] \in Exec
      BY <1>1
    <3>2. CASE exec'[t] = exec[t]
      BY <3>1, <3>2
    <3>3. CASE t \in waiting /\ exec'[t] = [exec[t] EXCEPT !.ctx = "draining"]
      BY <3>1, <3>3 DEF Exec
    <3>. QED  BY <1>3, <3>2, <3>3
  <2>2. exec' \in [Tasks -> Exec]
    BY <1>3, <2>1
  <2>3. ASSUME NEW q \in S
        PROVE  \E i \in TurnIds : /\ ~turns[i].canceled /\ turns[i].registered
                                  /\ Open(i, q) /\ (Queued(i, q) \/ turns[i].pending = q)
    <3>1. PICK i \in Left : q \in CanceledQuestions(turns[i])
      OBVIOUS
    <3>2. ~turns[i].canceled /\ q \in OpenQuestions(turns[i]) /\ QueueOK(i)
      BY <3>1 DEF CanceledQuestions, QuestionInv
    <3>3. Open(i, q) /\ (Queued(i, q) \/ turns[i].pending = q)
      BY <3>2 DEF OpenQuestions, QueueOK, Queued
    <3>. QED  BY <3>1, <3>2, <3>3
  <2>4. ASSUME NEW i \in Left, ~turns[i].canceled, NEW q,
               Queued(i, q) \/ (turns[i].pending = q /\ q # 0)
        PROVE  q \in S
    <3>1. q \in CanceledQuestions(turns[i])
      BY <2>4 DEF CanceledQuestions, OpenQuestions, Queued
    <3>. QED  BY <3>1
  <2>. HIDE DEF S
  <2>5. Answered(S)
    BY <1>3, <2>3 DEF Answered, Open
  <2>6. HandsLess(S)
    <3>1. SUFFICES ASSUME NEW t \in Tasks, InHand(t), exec[t].q \in S  PROVE FALSE
      BY <2>1 DEF HandsLess, InHand
    <3>2. /\ Open(exec[t].turn, exec[t].q) /\ ~Queued(exec[t].turn, exec[t].q)
          /\ turns[exec[t].turn].pending # exec[t].q
      BY <3>1 DEF QuestionInv, HandOK
    <3>. QED  BY <2>3, <3>1, <3>2 DEF Open
  <2>7. ReadersLess(S)
    <3>1. SUFFICES ASSUME NEW p \in Procs, reader[p] # 0, reader[p] \in S  PROVE FALSE
      BY <1>1 DEF ReadersLess
    <3>2. ReaderOK(p)
      BY DEF QuestionInv
    <3>. QED  BY <2>3, <3>1, <3>2 DEF ReaderOK, Open
  <2>8. /\ DOMAIN turns' = 1..Len(turns)
        /\ \A i \in TurnIds : turns'[i] = IF turns[i].registered THEN Canceled(turns[i]) ELSE turns[i]
    BY <1>3 DEF TurnIds
  <2>9. ASSUME NEW i \in TurnIds
        PROVE  /\ turns'[i] \in Turn /\ Alike(turns'[i], turns[i])
               /\ turns'[i].paused = turns[i].paused
    <3>1. CASE turns[i].registered
      BY <1>1, <2>8, <3>1, CanceledTurn
    <3>2. CASE ~turns[i].registered
      BY <1>1, <2>8, <3>2 DEF Alike
    <3>. QED  BY <3>1, <3>2
  <2>10. turns' \in Seq(Turn) /\ Len(turns') = Len(turns)
    <3>1. turns' = [i \in 1..Len(turns) |-> turns'[i]]
      BY <1>3, <2>8 DEF TurnIds
    <3>2. turns' \in [1..Len(turns) -> Turn]
      BY <2>9, <3>1 DEF TurnIds
    <3>3. turns' \in Seq(Turn)
      BY <1>1, <3>2
    <3>. QED  BY <1>1, <2>8, <3>3
  <2>11. ASSUME NEW i \in TurnIds  PROVE Less(turns'[i], turns[i], S)
    <3>1. QueueOK(i)
      BY DEF QuestionInv
    <3>2. CASE turns[i].registered /\ ~turns[i].canceled
      <4>1. NoQuestions(turns'[i])
        BY <1>1, <2>8, <3>2, CanceledTurn
      <4>. QED  BY <4>1 DEF NoQuestions, Less
    <3>3. CASE ~(turns[i].registered /\ ~turns[i].canceled)
      <4>1. turns'[i] = turns[i]
        BY <1>1, <2>8, <3>3, CanceledTurn
      <4>2. ASSUME NEW q \in S  PROVE ~Queued(i, q) /\ turns[i].pending # q
        <5>1. PICK j \in TurnIds : /\ ~turns[j].canceled /\ turns[j].registered /\ Open(j, q)
          BY <2>3
        <5>2. j # i
          BY <3>3, <5>1
        <5>3. q # 0
          BY <5>1 DEF Open, LockInv, TypeOK
        <5>. QED  BY <3>1, <5>1, <5>2, <5>3 DEF QueueOK, Queued, Open
      <4>. QED  BY <4>1, <4>2, UntouchedLess
    <3>. QED  BY <3>2, <3>3
  <2>12. TurnsLess(S)
    BY <1>1, <2>9, <2>10, <2>11 DEF TurnsLess, Alike, TurnIds
  <2>13. QuestionInv'
    BY <2>5, <2>6, <2>7, <2>12, Release
  <2>. QED  BY <2>1, <2>2, <2>9, <2>10, <2>13 DEF Effect, CalmTurns, PausedKept
<1>. QED  BY <1>1, <1>2, <1>3 DEF ShutdownWaits

-----------------------------------------------------------------------------
(***************************************************************************)
(* The prompt goroutine.                                                   *)
(***************************************************************************)
LEMMA OutcomeTerminal ==
    ASSUME NEW r, NEW c, NEW f
    PROVE  outcome(r, c, f) \in Terminal /\ abandonState(r, c, f) \in Terminal
BY DEF outcome, abandonState, Terminal

\* Turn i has become b, without a new question.
LEMMA PromptPut ==
    ASSUME LockInv, QuestionInv, NEW i \in TurnIds, NEW b \in Turn, Put(i, b),
           b.task = turns[i].task, b.proc = turns[i].proc, Less(b, turns[i], {}),
           b.pending # 0 => b.ended = turns[i].ended, questions' = questions, exec' = exec,
           reader' = reader
    PROVE  OneTurn(i) /\ turns'[i] = b /\ QuestionInv'
<1>1. OneTurn(i) /\ turns'[i] = b
  BY PutOne DEF LockInv, TypeOK
<1>2. TurnsLess({})
  BY <1>1, OneTurnLess
<1>3. ReadersLess({}) /\ HandsLess({})
  BY HandsSame DEF ReadersLess
<1>. QED  BY <1>1, <1>2, <1>3, QuietStep

\* What a step of the prompt goroutine makes of turn a.
Prompting(a, b) ==
    /\ b.task = a.task /\ b.proc = a.proc /\ b.paused = a.paused /\ a.registered
    /\ b.registered <=> b.prompt # "done"
    /\ b.ended <=> b.prompt \in {"ended", "reported", "done"}
    /\ b.prompt \in {"responded", "ended", "reported"} => b.result \in Terminal /\ b.report \in Terminal

PromptEffect(i) ==
    /\ OneTurn(i) /\ Prompting(turns[i], turns'[i]) /\ QuestionInv'
    /\ WillReport(i) => WillReport(i)'

LEMMA DoesSendPrompt ==
    ASSUME LockInv, QuestionInv, NEW i \in TurnIds, SendPrompt(i)
    PROVE  PromptEffect(i)
<1>0. PICK a : a = turns[i]
  OBVIOUS
<1>1. /\ a \in Turn /\ reader' = reader /\ exec' = exec /\ questions' = questions
      /\ abandoned' = abandoned /\ turns \in Seq(Turn) /\ TurnOK(i) /\ a.prompt = "new"
      /\ nextID \in 0..MaxCalls
  BY <1>0, TurnType DEF SendPrompt, goVars, LockInv, TypeOK, ConnTypeOK
<1>2. /\ a.registered /\ ~a.ended
  BY <1>0, <1>1 DEF TurnOK
<1>3. PICK b : /\ Put(i, b) /\ b \in Turn /\ Prompting(a, b) /\ b.paused = a.paused
               /\ b.events = a.events /\ b.pending = a.pending /\ b.canceled = a.canceled
               /\ b.ended = a.ended /\ b.prompt # "ended"
  <2>1. CASE conn[a.proc] = "done"
    <3>0. PICK r, s : /\ r = outcome("exited", a.canceled, a.inactive)
                      /\ s = abandonState("exited", a.canceled, a.inactive)
      OBVIOUS
    <3>1. r \in Terminal /\ s \in Terminal
      BY <3>0, OutcomeTerminal
    <3>2. PICK b : b = [a EXCEPT !.prompt = "responded", !.result = r, !.report = s]
      OBVIOUS
    <3>3. turns' = [turns EXCEPT ![i].prompt = "responded", ![i].result = r, ![i].report = s]
      BY <1>0, <2>1, <3>0 DEF SendPrompt
    <3>4. Put(i, b)
      BY <1>0, <1>1, <3>2, <3>3 DEF Put, TurnIds
    <3>5. b \in Turn
      BY <1>1, <3>1, <3>2 DEF Turn
    <3>6. /\ b.task = a.task /\ b.proc = a.proc /\ b.paused = a.paused
          /\ b.registered = a.registered /\ b.ended = a.ended /\ b.prompt = "responded"
          /\ b.result = r /\ b.report = s
          /\ b.events = a.events /\ b.pending = a.pending /\ b.canceled = a.canceled
      BY <1>1, <3>2 DEF Turn
    <3>. QED  BY <1>2, <3>1, <3>4, <3>5, <3>6 DEF Prompting
  <2>2. CASE conn[a.proc] # "done"
    <3>1. nextID + 1 \in 0..MaxCalls
      BY <1>0, <1>1, <2>2, Bounds DEF SendPrompt, Call
    <3>2. PICK b : b = [a EXCEPT !.prompt = "sent", !.call = nextID + 1]
      OBVIOUS
    <3>3. turns' = [turns EXCEPT ![i].prompt = "sent", ![i].call = nextID + 1]
      BY <1>0, <2>2 DEF SendPrompt
    <3>4. Put(i, b)
      BY <1>0, <1>1, <3>2, <3>3 DEF Put, TurnIds
    <3>5. b \in Turn
      BY <1>1, <3>1, <3>2 DEF Turn
    <3>6. /\ b.task = a.task /\ b.proc = a.proc /\ b.paused = a.paused
          /\ b.registered = a.registered /\ b.ended = a.ended /\ b.prompt = "sent"
          /\ b.events = a.events /\ b.pending = a.pending /\ b.canceled = a.canceled
      BY <1>1, <3>2 DEF Turn
    <3>. QED  BY <1>2, <3>4, <3>5, <3>6 DEF Prompting
  <2>. QED  BY <2>1, <2>2
<1>4. Less(b, a, {})
  BY <1>0, <1>3, SameQueue
<1>5. OneTurn(i) /\ turns'[i] = b /\ QuestionInv'
  BY <1>0, <1>1, <1>2, <1>3, <1>4, PromptPut DEF Prompting
<1>6. WillReport(i) => WillReport(i)'
  BY <1>0, <1>1, <1>3, <1>5 DEF WillReport
<1>. QED  BY <1>0, <1>3, <1>5, <1>6 DEF PromptEffect

LEMMA DoesPromptReturns ==
    ASSUME LockInv, QuestionInv, NEW i \in TurnIds, PromptReturns(i)
    PROVE  PromptEffect(i)
<1>0. PICK a : a = turns[i]
  OBVIOUS
<1>1. /\ a \in Turn /\ reader' = reader /\ exec' = exec /\ questions' = questions
      /\ abandoned' = abandoned /\ turns \in Seq(Turn) /\ TurnOK(i) /\ a.prompt = "sent"
  BY <1>0, TurnType DEF PromptReturns, goVars, LockInv, TypeOK
<1>2. PICK r, s : /\ r \in Terminal /\ s \in Terminal
                  /\ turns' = [turns EXCEPT ![i].prompt = "responded", ![i].result = r,
                                            ![i].report = s]
  BY OutcomeTerminal DEF PromptReturns
<1>3. PICK b : b = [a EXCEPT !.prompt = "responded", !.result = r, !.report = s]
  OBVIOUS
<1>4. Put(i, b)
  BY <1>0, <1>1, <1>2, <1>3 DEF Put, TurnIds
<1>5. b \in Turn
  BY <1>1, <1>2, <1>3 DEF Turn
<1>6. /\ b.task = a.task /\ b.proc = a.proc /\ b.paused = a.paused
      /\ b.registered = a.registered /\ b.ended = a.ended /\ b.prompt = "responded"
      /\ b.result = r /\ b.report = s
      /\ b.events = a.events /\ b.pending = a.pending /\ b.canceled = a.canceled
  BY <1>1, <1>3 DEF Turn
<1>7. a.registered /\ ~a.ended
  BY <1>0, <1>1 DEF TurnOK
<1>8. Less(b, a, {})
  BY <1>0, <1>6, SameQueue
<1>9. OneTurn(i) /\ turns'[i] = b /\ QuestionInv'
  BY <1>0, <1>1, <1>4, <1>5, <1>6, <1>8, PromptPut
<1>10. WillReport(i) => WillReport(i)'
  BY <1>0, <1>1, <1>6, <1>7, <1>9 DEF WillReport
<1>11. Prompting(a, b)
  BY <1>2, <1>6, <1>7 DEF Prompting
<1>. QED  BY <1>0, <1>9, <1>10, <1>11 DEF PromptEffect

LEMMA DoesEndTurn ==
    ASSUME LockInv, QuestionInv, NEW i \in TurnIds, EndTurn(i)
    PROVE  PromptEffect(i)
<1>0. PICK a : a = turns[i]
  OBVIOUS
<1>1. /\ a \in Turn /\ reader' = reader /\ exec' = exec /\ questions' = questions
      /\ abandoned' = abandoned /\ turns \in Seq(Turn) /\ TurnOK(i) /\ a.prompt = "responded"
  BY <1>0, TurnType DEF EndTurn, goVars, LockInv, TypeOK
<1>2. a.registered /\ ~a.ended /\ a.result \in Terminal /\ a.report \in Terminal
  BY <1>0, <1>1 DEF TurnOK
<1>3. PICK e, r, p : /\ e = [kind |-> "result", state |-> a.result]
                     /\ r = (IF a.expired THEN "failed" ELSE a.report)
                     /\ p = (IF a.paused THEN "ended" ELSE "reported")
  OBVIOUS
<1>4. e \in Event /\ ~IsQuestion(e) /\ r \in Terminal /\ p \in {"ended", "reported"}
  BY <1>2, <1>3 DEF Event, IsQuestion, Terminal
<1>5. a.events \in Seq(Event) /\ Append(a.events, e) \in Seq(Event)
  BY <1>1, <1>4 DEF Turn
<1>6. PICK b : b = [a EXCEPT !.ended = TRUE, !.pending = 0, !.watched = FALSE,
                             !.events = Append(a.events, e), !.report = r, !.prompt = p]
  OBVIOUS
<1>7. turns' = [turns EXCEPT ![i].ended = TRUE, ![i].pending = 0, ![i].watched = FALSE,
                             ![i].events = Append(@, e), ![i].report = r, ![i].prompt = p]
  BY <1>0, <1>1, <1>3 DEF EndTurn, TurnIds, Turn
<1>8. Put(i, b)
  BY <1>0, <1>1, <1>6, <1>7 DEF Put, TurnIds
<1>9. b \in Turn
  BY <1>1, <1>4, <1>5, <1>6, Bounds DEF Turn
<1>10. /\ b.task = a.task /\ b.proc = a.proc /\ b.paused = a.paused
       /\ b.registered = a.registered /\ b.ended = TRUE /\ b.prompt = p
       /\ b.result = a.result /\ b.report = r
       /\ b.events = Append(a.events, e) /\ b.pending = 0 /\ b.canceled = a.canceled
  BY <1>1, <1>6 DEF Turn
<1>11. Less(b, a, {})
  BY <1>4, <1>5, <1>10, AppendedLess
<1>12. OneTurn(i) /\ turns'[i] = b /\ QuestionInv'
  BY <1>0, <1>1, <1>8, <1>9, <1>10, <1>11, PromptPut
<1>13. WillReport(i) => WillReport(i)'
  BY <1>0, <1>1, <1>3, <1>12, <1>10 DEF WillReport
<1>14. Prompting(a, b)
  BY <1>2, <1>4, <1>10 DEF Prompting
<1>. QED  BY <1>0, <1>12, <1>13, <1>14 DEF PromptEffect

LEMMA DoesAbandon ==
    ASSUME LockInv, QuestionInv, NEW i \in TurnIds, Abandon(i)
    PROVE  PromptEffect(i)
<1>0. PICK a : a = turns[i]
  OBVIOUS
<1>1. /\ a \in Turn /\ reader' = reader /\ exec' = exec /\ questions' = questions
      /\ i \in abandoned' /\ turns \in Seq(Turn) /\ TurnOK(i) /\ a.prompt = "ended"
  BY <1>0, TurnType DEF Abandon, goVars, LockInv, TypeOK
<1>2. PICK b : b = [a EXCEPT !.prompt = "reported"]
  OBVIOUS
<1>3. Put(i, b)
  BY <1>0, <1>1, <1>2 DEF Abandon, Put, TurnIds
<1>4. b \in Turn
  BY <1>1, <1>2 DEF Turn
<1>5. /\ b.task = a.task /\ b.proc = a.proc /\ b.paused = a.paused
      /\ b.registered = a.registered /\ b.ended = a.ended /\ b.prompt = "reported"
      /\ b.result = a.result /\ b.report = a.report
      /\ b.events = a.events /\ b.pending = a.pending /\ b.canceled = a.canceled
  BY <1>1, <1>2 DEF Turn
<1>6. a.registered /\ a.ended /\ a.result \in Terminal /\ a.report \in Terminal
  BY <1>0, <1>1 DEF TurnOK
<1>7. Less(b, a, {})
  BY <1>0, <1>5, SameQueue
<1>8. OneTurn(i) /\ turns'[i] = b /\ QuestionInv'
  BY <1>0, <1>1, <1>3, <1>4, <1>5, <1>7, PromptPut
<1>9. WillReport(i)'
  BY <1>1 DEF WillReport
<1>10. Prompting(a, b)
  BY <1>5, <1>6 DEF Prompting
<1>. QED  BY <1>0, <1>8, <1>9, <1>10 DEF PromptEffect

LEMMA DoesLeave ==
    ASSUME LockInv, QuestionInv, NEW i \in TurnIds, Leave(i)
    PROVE  PromptEffect(i) /\ ~turns'[i].registered
<1>0. PICK a : a = turns[i]
  OBVIOUS
<1>1. /\ a \in Turn /\ reader' = reader /\ exec' = exec /\ questions' = questions
      /\ abandoned' = abandoned /\ turns \in Seq(Turn) /\ TurnOK(i) /\ a.prompt = "reported"
  BY <1>0, TurnType DEF Leave, goVars, LockInv, TypeOK
<1>2. PICK b : b = [a EXCEPT !.registered = FALSE, !.prompt = "done", !.call = 0,
                             !.result = None, !.report = None]
  OBVIOUS
<1>3. turns' = [turns EXCEPT ![i].registered = FALSE, ![i].prompt = "done", ![i].call = 0,
                             ![i].result = None, ![i].report = None]
  BY DEF Leave
<1>4. Put(i, b)
  BY <1>0, <1>1, <1>2, <1>3 DEF Put, TurnIds
<1>5. b \in Turn
  BY <1>1, <1>2, Bounds DEF Turn
<1>6. /\ b.task = a.task /\ b.proc = a.proc /\ b.paused = a.paused
      /\ b.registered = FALSE /\ b.ended = a.ended /\ b.prompt = "done"
      /\ b.events = a.events /\ b.pending = a.pending /\ b.canceled = a.canceled
  BY <1>1, <1>2 DEF Turn
<1>7. a.registered /\ a.ended
  BY <1>0, <1>1 DEF TurnOK
<1>8. Less(b, a, {})
  BY <1>0, <1>6, SameQueue
<1>9. OneTurn(i) /\ turns'[i] = b /\ QuestionInv'
  BY <1>0, <1>1, <1>4, <1>5, <1>6, <1>8, PromptPut
<1>10. WillReport(i) => WillReport(i)'
  BY <1>0, <1>1, <1>6, <1>7, <1>9 DEF WillReport
<1>11. Prompting(a, b)
  BY <1>6, <1>7 DEF Prompting
<1>. QED  BY <1>0, <1>6, <1>9, <1>10, <1>11 DEF PromptEffect

-----------------------------------------------------------------------------
(***************************************************************************)
(* The frame of a step: what it leaves alone.                              *)
(***************************************************************************)
Stored == {"none", "submitted", "working", "input-required"} \cup Terminal

\* A task that a step leaves alone; that its context of startTurn ends does
\* not matter.
Rests(u) ==
    /\ exec'[u].pc = exec[u].pc /\ exec'[u].turn = exec[u].turn /\ exec'[u].q = exec[u].q
    /\ exec'[u].proc = exec[u].proc /\ exec'[u].load = exec[u].load
    /\ exec'[u].gone = exec[u].gone
    /\ cancel'[u] = cancel[u]
    /\ u \in waiting' <=> u \in waiting
    /\ stored'[u] = stored[u] \/ stored'[u] \in Terminal

\* The lock of a context is taken when it is free or given back by task t.
HolderBy(t) == \A c \in Contexts : holder'[c] = holder[c] \/ holder[c] \in {None, t}

SessionsStay == \A c \in Contexts : session[c] # 0 => session'[c] # 0

TurnsStay == Len(turns') >= Len(turns) /\ \A i \in TurnIds : turns'[i].task = turns[i].task

\* The end of a turn of task u is still reported, if it is to be, and task u
\* gets no turn.
ReportStays(u) ==
    /\ \A i \in TurnIds : turns[i].task = u /\ WillReport(i) => WillReport(i)'
    /\ \A i \in 1..Len(turns') : i \notin TurnIds => turns'[i].task # u

LEMMA ExecStays ==
    ASSUME LockInv, NEW u \in Tasks, Rests(u), NEW t, HolderBy(t),
           u = t /\ Starting(u) => holder'[ContextOf[u]] = holder[ContextOf[u]], SessionsStay,
           TurnsStay
    PROVE  ExecOK(u)'
<1>0. PICK e, f : e = exec[u] /\ f = exec'[u]
  OBVIOUS
<1>1. ExecOK(u)
  BY DEF LockInv
<1>2. /\ f.pc = e.pc /\ f.turn = e.turn /\ f.q = e.q /\ f.proc = e.proc /\ f.load = e.load
      /\ f.gone = e.gone /\ cancel'[u] = cancel[u] /\ (u \in waiting' <=> u \in waiting)
  BY <1>0 DEF Rests
<1>3. ContextOf[u] \in Contexts /\ u # None /\ Len(turns) \in Nat
  BY Bounds DEF LockInv, TypeOK
<1>4. Starting(u)' <=> Starting(u)
  BY <1>0, <1>2 DEF Starting
<1>5. \A i : i \in TurnIds /\ turns[i].task = u => i \in TurnIds' /\ turns'[i].task = u
  BY <1>3 DEF TurnsStay, TurnIds
<1>6. Starting(u)' => holder'[ContextOf[u]] = u
  BY <1>1, <1>3, <1>4 DEF ExecOK, HolderBy
<1>7. /\ u \in waiting' <=> (f.pc = "lock" \/ Starting(u)')
      /\ f.pc \in OnTurn => f.turn \in TurnIds' /\ turns'[f.turn].task = u
      /\ f.pc \in {"answer", "take", "interrupt"} => f.q # 0
      /\ f.pc \in {"session", "call", "register"} => f.proc \in Procs
      /\ (f.load \/ f.pc = "register") => session'[ContextOf[u]] # 0
      /\ cancel'[u].turn # 0 => cancel'[u].turn \in TurnIds' /\ turns'[cancel'[u].turn].task = u
  BY <1>0, <1>1, <1>2, <1>3, <1>4, <1>5 DEF ExecOK, SessionsStay
<1>8. f.gone => stored'[u] \in Terminal
  BY <1>0, <1>1, <1>2 DEF ExecOK, Rests
<1>. QED  BY <1>0, <1>6, <1>7, <1>8 DEF ExecOK

LEMMA ReportRests ==
    ASSUME NEW u \in Tasks, exec'[u].pc = exec[u].pc, exec'[u].turn = exec[u].turn,
           stored'[u] = stored[u] \/ stored'[u] \in Terminal,
           ReportOK(u), ReportStays(u), TurnsStay,
           Len(turns) \in Nat, Len(turns') \in Nat,
           exec[u].pc = "pausing" => exec[u].turn \in TurnIds /\ turns[exec[u].turn].task = u
    PROVE  ReportOK(u)'
<1>0. PICK e, f : e = exec[u] /\ f = exec'[u]
  OBVIOUS
<1>1. f.pc = e.pc /\ f.turn = e.turn /\ (stored'[u] = stored[u] \/ stored'[u] \in Terminal)
  BY <1>0
<1>2. /\ NoTurnOf(u) => NoTurnOf(u)'
      /\ \A i \in TurnIds : i \in TurnIds' /\ turns'[i].task = turns[i].task
  BY DEF NoTurnOf, ReportStays, TurnsStay, TurnIds
<1>3. /\ stored'[u] = "none" => f.pc = "idle" /\ NoTurnOf(u)'
      /\ f.pc = "decide" => stored'[u] \in Terminal \cup {"input-required"} \/ NoTurnOf(u)'
  BY <1>0, <1>1, <1>2 DEF ReportOK, Terminal
<1>4. stored'[u] = "input-required" /\ f.pc \in {"idle", "decide"}
          => \E i \in TurnIds' : turns'[i].task = u /\ WillReport(i)'
  BY <1>0, <1>1, <1>2 DEF ReportOK, ReportStays, Terminal
<1>5. f.pc = "pausing" /\ stored'[u] \notin Terminal => WillReport(f.turn)'
  BY <1>0, <1>1, <1>2 DEF ReportOK, ReportStays
<1>. QED  BY <1>0, <1>3, <1>4, <1>5 DEF ReportOK, WillReport

LEMMA CalmStays ==
    ASSUME CalmTurns
    PROVE  /\ TurnsStay /\ TurnIds' = TurnIds
           /\ \A i \in TurnIds : /\ turns'[i].registered = turns[i].registered
                                 /\ turns'[i].ended = turns[i].ended
                                 /\ turns'[i].prompt = turns[i].prompt
BY DEF CalmTurns, TurnsStay, TurnIds, Alike

LEMMA TurnsRest ==
    ASSUME LockInv, CalmTurns, NEW t, HolderBy(t),
           holder'[ContextOf[t]] = holder[ContextOf[t]]
             \/ \A i \in TurnIds : turns[i].registered => turns[i].task # t,
           \A i \in TurnIds : turns[i].registered => ~Starting(turns[i].task)'
    PROVE  \A i \in TurnIds' : TurnOK(i)'
<1>1. SUFFICES ASSUME NEW i \in TurnIds  PROVE TurnOK(i)'
  BY CalmStays
<1>2. PICK a, b : a = turns[i] /\ b = turns'[i]
  OBVIOUS
<1>3. TurnOK(i) /\ Alike(b, a) /\ a \in Turn
  BY <1>2, TurnType DEF LockInv, TypeOK, CalmTurns
<1>4. a.task \in Tasks /\ ContextOf[a.task] \in Contexts /\ None \notin Tasks
  BY <1>3, Bounds DEF Turn
<1>5. /\ b.task = a.task /\ b.prompt = a.prompt /\ b.result = a.result
      /\ b.report = a.report /\ b.ended = a.ended /\ b.registered = a.registered
  BY <1>3 DEF Alike
<1>6. a.registered => holder'[ContextOf[a.task]] = a.task
  BY <1>2, <1>3, <1>4 DEF TurnOK, HolderBy
<1>7. a.registered => ~Starting(b.task)'
  BY <1>2, <1>5 DEF Starting
<1>8. a.registered => \A j \in TurnIds' : turns'[j].registered /\ turns'[j].task = b.task => j = i
  <2>1. \A j \in TurnIds' : j \in TurnIds /\ turns'[j].registered = turns[j].registered
                            /\ turns'[j].task = turns[j].task
    BY CalmStays DEF TurnsStay
  <2>. QED  BY <1>2, <1>3, <1>5, <2>1 DEF TurnOK
<1>9. /\ b.registered <=> b.prompt # "done"
      /\ b.ended <=> b.prompt \in {"ended", "reported", "done"}
      /\ b.prompt \in {"responded", "ended", "reported"} => b.result \in Terminal /\ b.report \in Terminal
  BY <1>2, <1>3, <1>5 DEF TurnOK
<1>. QED  BY <1>2, <1>5, <1>6, <1>7, <1>8, <1>9 DEF TurnOK, Starting

\* A step in which task t moves, and turns go on as they are.
LEMMA StepKeeps ==
    ASSUME Inv, TypeOK', NEW t, NEW X, Effect(X),
           \A i \in TurnIds : i \in X => turns[i].task = t,
           \A u \in Tasks : u # t => Rests(u),
           HolderBy(t),
           holder'[ContextOf[t]] = holder[ContextOf[t]]
             \/ \A i \in TurnIds : turns[i].registered => turns[i].task # t,
           t \in Tasks /\ Starting(t)' => Starting(t) \/ holder[ContextOf[t]] = None,
           SessionsStay, abandoned \subseteq abandoned',
           t \in Tasks => ExecOK(t)' /\ ReportOK(t)', DrainOK', SessionsOK'
    PROVE  Inv'
<1>1. LockInv /\ QuestionInv /\ ReportInv /\ CalmTurns /\ PausedKept(X) /\ QuestionInv'
  BY DEF Inv, Effect
<1>2. /\ TurnsStay /\ TurnIds' = TurnIds /\ Len(turns) \in Nat /\ Len(turns') \in Nat
      /\ Len(turns') = Len(turns)
      /\ \A i \in TurnIds : /\ turns'[i].registered = turns[i].registered
                            /\ turns'[i].ended = turns[i].ended
                            /\ turns'[i].prompt = turns[i].prompt
  BY <1>1, CalmStays DEF LockInv, TypeOK, CalmTurns
<1>3. \A u \in Tasks : ExecOK(u)'
  <2>1. SUFFICES ASSUME NEW u \in Tasks, u # t  PROVE ExecOK(u)'
    OBVIOUS
  <2>. QED  BY <1>1, <1>2, <2>1, ExecStays
<1>4. \A i \in TurnIds' : TurnOK(i)'
  <2>1. ASSUME NEW i \in TurnIds, turns[i].registered  PROVE ~Starting(turns[i].task)'
    <3>1. PICK u : u = turns[i].task
      OBVIOUS
    <3>2. /\ u \in Tasks /\ u # None /\ holder[ContextOf[u]] = u /\ ~Starting(u)
      BY <1>1, <2>1, <3>1, TurnType, Bounds DEF LockInv, TypeOK, TurnOK, Turn
    <3>3. u # t => ~Starting(u)'
      BY <3>2 DEF Rests, Starting
    <3>4. turns'[i].task = u
      BY <1>2, <3>1 DEF TurnsStay
    <3>. QED  BY <3>2, <3>3, <3>4 DEF Starting
  <2>. QED  BY <1>1, <2>1, TurnsRest
<1>5. ASSUME NEW u \in Tasks, u # t  PROVE ReportOK(u)'
  <2>1. ReportStays(u)
    <3>1. ASSUME NEW i \in TurnIds, turns[i].task = u, WillReport(i)  PROVE WillReport(i)'
      <4>1. turns'[i].paused = turns[i].paused
        BY <1>1, <1>5, <3>1 DEF PausedKept
      <4>. QED  BY <1>2, <3>1, <4>1 DEF WillReport
    <3>. QED  BY <1>2, <3>1 DEF ReportStays, TurnIds
  <2>2. exec[u].pc = "pausing" => exec[u].turn \in TurnIds /\ turns[exec[u].turn].task = u
    BY <1>1 DEF LockInv, ExecOK, OnTurn
  <2>. QED  BY <1>1, <1>2, <1>5, <2>1, <2>2, ReportRests DEF ReportInv, Rests
<1>6. LockInv'
  BY <1>3, <1>4 DEF LockInv
<1>7. ReportInv'
  BY <1>5 DEF ReportInv
<1>. QED  BY <1>1, <1>6, <1>7 DEF Inv

LEMMA DrainStays ==
    ASSUME LockInv, CalmTurns, shut' = shut, waiting' \subseteq waiting \/ ~shut.draining
    PROVE  DrainOK'
<1>1. TurnIds' = TurnIds /\ \A i \in TurnIds : turns'[i].registered = turns[i].registered
  BY CalmStays
<1>. QED  BY <1>1 DEF LockInv, DrainOK, DrainedIsQuiet

LEMMA SessionsStayOK ==
    ASSUME LockInv, \A u \in Tasks : exec'[u].pc = "call" => exec[u].pc = "call",
           nextSession' = nextSession, nextID' \in Nat, nextID' >= nextID
    PROVE  SessionsOK'
<1>1. Callers' \subseteq Callers
  BY DEF Callers
<1>2. IsFiniteSet(Callers) /\ nextSession + Cardinality(Callers) <= nextID + 1
  BY DEF LockInv, SessionsOK
<1>3. PICK S, T : S = Callers /\ T = Callers'
  OBVIOUS
<1>4. IsFiniteSet(T) /\ Cardinality(T) <= Cardinality(S) /\ Cardinality(S) \in Nat /\ Cardinality(T) \in Nat
  BY <1>1, <1>2, <1>3, FS_Subset, FS_CardinalityType
<1>5. nextSession + Cardinality(T) <= nextID' + 1
  BY <1>2, <1>3, <1>4 DEF LockInv, TypeOK, ConnTypeOK
<1>. QED  BY <1>3, <1>4, <1>5 DEF SessionsOK

\* Only what agents and timers change is changed.
LEMMA AgentKeeps ==
    ASSUME Inv, Effect({}), UNCHANGED <<setting, agentVars>>, ConnTypeOK', nextID' = nextID,
           questions' \in Seq(Asked), reader' \in [Procs -> 0..MaxQuestions]
    PROVE  Inv'
<1>0. PICK t : t = None
  OBVIOUS
<1>1. LockInv /\ CalmTurns
  BY DEF Inv, Effect
<1>2. /\ setting' = setting /\ exec' = exec /\ requests' = requests /\ cancel' = cancel
      /\ stored' = stored /\ waiting' = waiting /\ holder' = holder /\ session' = session
      /\ known' = known /\ nextSession' = nextSession /\ abandoned' = abandoned /\ shut' = shut
  BY DEF agentVars, reqVars, sessVars
<1>3. TypeOK'
  BY <1>1, <1>2 DEF LockInv, TypeOK, CalmTurns, Asked
<1>4. \A u \in Tasks : Rests(u)
  BY <1>2 DEF Rests
<1>5. TurnsStay /\ HolderBy(t) /\ SessionsStay /\ Len(turns) \in Nat /\ Len(turns') \in Nat
  BY <1>1, <1>2, CalmStays DEF HolderBy, SessionsStay, CalmTurns, LockInv, TypeOK
<1>6. ASSUME t \in Tasks  PROVE ExecOK(t)'
  BY <1>1, <1>2, <1>4, <1>5, <1>6, ExecStays
<1>7. ASSUME t \in Tasks  PROVE ReportOK(t)'
  <2>1. ReportStays(t)
    BY <1>1, <1>2, CalmStays DEF ReportStays, WillReport, Effect, PausedKept, TurnIds
  <2>2. exec[t].pc = "pausing" => exec[t].turn \in TurnIds /\ turns[exec[t].turn].task = t
    BY <1>1, <1>7 DEF LockInv, ExecOK, OnTurn
  <2>. QED  BY <1>4, <1>5, <1>7, <2>1, <2>2, ReportRests DEF Inv, ReportInv, Rests
<1>8. DrainOK'
  BY <1>1, <1>2, DrainStays
<1>9. SessionsOK'
  BY <1>1, <1>2, SessionsStayOK DEF LockInv, TypeOK, ConnTypeOK
<1>10. Starting(t)' => Starting(t)
  BY <1>2 DEF Starting
<1>. QED  BY <1>2, <1>3, <1>4, <1>5, <1>6, <1>7, <1>8, <1>9, <1>10, StepKeeps

LEMMA RespondType ==
    ASSUME questions \in Seq(Asked), NEW S
    PROVE  Respond(S) \in Seq(Asked)
<1>1. Len(questions) \in Nat /\ DOMAIN questions = 1..Len(questions)
  OBVIOUS
<1>2. ASSUME NEW q \in 1..Len(questions)
      PROVE  (IF q \in S THEN [questions[q] EXCEPT !.answers = @ + 1] ELSE questions[q]) \in Asked
  <2>1. questions[q] \in Asked
    BY <1>1
  <2>. QED  BY <2>1 DEF Asked
<1>3. Respond(S) = [q \in 1..Len(questions) |->
          IF q \in S THEN [questions[q] EXCEPT !.answers = @ + 1] ELSE questions[q]]
  BY <1>1 DEF Respond
<1>4. Respond(S) \in [1..Len(questions) -> Asked]
  BY <1>2, <1>3
<1>. QED  BY <1>1, <1>4

LEMMA Yields ==
    ASSUME LockInv, NEW t \in Tasks, NEW state \in Stored, Yield(t, state)
    PROVE  /\ stored' \in [Tasks -> Stored]
           /\ \A u \in Tasks : u # t => stored'[u] = stored[u]
           /\ stored[t] \in Terminal => stored'[t] \in Terminal
           /\ exec[t].gone => stored'[t] \in Terminal
           /\ ~Accepts(t) => stored'[t] \in Terminal
           /\ Accepts(t) => stored'[t] = state
<1>1. stored \in [Tasks -> Stored]
  BY DEF LockInv, TypeOK, Stored
<1>2. exec[t].gone => stored[t] \in Terminal
  BY DEF LockInv, ExecOK
<1>3. CASE Accepts(t)
  BY <1>1, <1>2, <1>3 DEF Yield, Accepts
<1>4. CASE ~Accepts(t)
  <2>1. stored' = stored
    BY <1>4 DEF Yield
  <2>2. exec[t].gone \/ stored[t] \in Terminal
    BY <1>4 DEF Accepts
  <2>. QED  BY <1>1, <1>2, <1>4, <2>1, <2>2
<1>. QED  BY <1>3, <1>4

-----------------------------------------------------------------------------
(***************************************************************************)
(* Execute, working on a turn.                                             *)
(***************************************************************************)
\* The program points at which Execute is in waiting, and holds the lock at
\* most of them.
StartPoints == {"lock", "acquire", "session", "call", "register"}

WorkFrame == UNCHANGED <<setting, startVars, reqVars, reader, abandoned>>

\* Task t works on its turn, and the others stay as they are.
Works(t, X) ==
    /\ Effect(X) /\ \A i \in TurnIds : i \in X => turns[i].task = t
    /\ WorkFrame /\ questions' \in Seq(Asked)
    /\ exec[t].pc \notin StartPoints /\ exec'[t].pc \notin StartPoints
    /\ OnlyExec(t) /\ exec' \in [Tasks -> Exec]
    /\ stored' \in [Tasks -> Stored] /\ \A u \in Tasks : u # t => stored'[u] = stored[u]

LEMMA WorkKeeps ==
    ASSUME Inv, NEW t \in Tasks, NEW X, Works(t, X),
           exec'[t].pc \in OnTurn => exec'[t].turn \in TurnIds /\ turns[exec'[t].turn].task = t,
           exec'[t].pc \in {"answer", "take", "interrupt"} => exec'[t].q # 0,
           exec'[t].load => exec[t].load, exec'[t].gone => stored'[t] \in Terminal,
           ReportOK(t)'
    PROVE  Inv'
<1>1. LockInv /\ Effect(X) /\ CalmTurns
  BY DEF Inv, Works, Effect
<1>2. /\ setting' = setting /\ requests' = requests /\ cancel' = cancel /\ reader' = reader
      /\ conn' = conn /\ nextID' = nextID /\ pending' = pending /\ chan' = chan /\ owed' = owed
      /\ waiting' = waiting /\ holder' = holder /\ session' = session
      /\ known' = known /\ nextSession' = nextSession /\ abandoned' = abandoned /\ shut' = shut
  BY DEF Works, WorkFrame, startVars, reqVars, sessVars, connVars
<1>3. TypeOK'
  <2>1. turns' \in Seq(Turn) /\ Len(turns') <= MaxTurns
    BY <1>1 DEF CalmTurns, LockInv, TypeOK
  <2>2. exec' \in [Tasks -> Exec] /\ stored' \in [Tasks -> Stored] /\ questions' \in Seq(Asked)
    BY DEF Works
  <2>3. ConnTypeOK'
    BY <1>1, <1>2 DEF LockInv, TypeOK, ConnTypeOK
  <2>. QED  BY <1>1, <1>2, <2>1, <2>2, <2>3 DEF LockInv, TypeOK, Stored, Asked
<1>4. \A u \in Tasks : u # t => Rests(u)
  BY <1>2 DEF Works, OnlyExec, Rests
<1>5. HolderBy(t) /\ SessionsStay
  BY <1>2 DEF HolderBy, SessionsStay
<1>6. ~Starting(t) /\ ~Starting(t)' /\ t \notin waiting
  BY <1>1 DEF Works, StartPoints, Starting, LockInv, ExecOK
<1>7. ExecOK(t)'
  <2>1. ExecOK(t)
    BY <1>1 DEF LockInv
  <2>2. TurnIds' = TurnIds /\ \A i \in TurnIds : turns'[i].task = turns[i].task
    BY <1>1, CalmStays DEF TurnsStay
  <2>3. exec'[t].pc \notin StartPoints
    BY DEF Works
  <2>4. PICK f, c : f = exec'[t] /\ c = cancel[t]
    OBVIOUS
  <2>5. /\ t \notin waiting' /\ f.pc # "lock" /\ ~Starting(t)'
        /\ f.pc \in OnTurn => f.turn \in TurnIds' /\ turns'[f.turn].task = t
        /\ f.pc \in {"answer", "take", "interrupt"} => f.q # 0
        /\ f.pc \notin {"session", "call", "register"}
    BY <1>2, <1>6, <2>2, <2>3, <2>4 DEF StartPoints
  <2>6. (f.load \/ f.pc = "register") => session'[ContextOf[t]] # 0
    BY <1>2, <2>1, <2>4, <2>5 DEF ExecOK
  <2>7. c.turn # 0 => c.turn \in TurnIds' /\ turns'[c.turn].task = t
    BY <2>1, <2>2, <2>4 DEF ExecOK
  <2>8. f.gone => stored'[t] \in Terminal
    BY <2>4
  <2>. QED  BY <1>2, <2>4, <2>5, <2>6, <2>7, <2>8 DEF ExecOK
<1>8. DrainOK'
  BY <1>1, <1>2, DrainStays
<1>9. SessionsOK'
  <2>1. \A u \in Tasks : exec'[u].pc = "call" => exec[u].pc = "call"
    BY DEF Works, StartPoints, OnlyExec
  <2>. QED  BY <1>1, <1>2, <2>1, SessionsStayOK DEF LockInv, TypeOK, ConnTypeOK
<1>10. \A i \in TurnIds : i \in X => turns[i].task = t
  BY DEF Works
<1>. QED  BY <1>1, <1>2, <1>3, <1>4, <1>5, <1>6, <1>7, <1>8, <1>9, <1>10, StepKeeps

LEMMA FinishWorks ==
    ASSUME Inv, NEW t \in Tasks, exec[t].pc \in OnTurn \cup {"decide"}, NEW X, Effect(X),
           \A i \in TurnIds : i \in X => turns[i].task = t, WorkFrame, questions' \in Seq(Asked),
           NEW state \in Stored, state # "none", Finish(t, state),
           state = "input-required" /\ Accepts(t)
             => \E i \in TurnIds' : turns'[i].task = t /\ WillReport(i)'
    PROVE  Inv'
<1>1. LockInv /\ Yield(t, state) /\ exec' = [exec EXCEPT ![t] = NoExec]
  BY DEF Inv, Finish
<1>2. OnlyExec(t) /\ exec'[t] = NoExec
  BY <1>1, FinishExec
<1>3. exec' \in [Tasks -> Exec]
  <2>1. NoExec \in Exec
    BY Bounds DEF NoExec, Exec
  <2>. QED  BY <1>1, <2>1 DEF LockInv, TypeOK
<1>4. /\ stored' \in [Tasks -> Stored]
      /\ \A u \in Tasks : u # t => stored'[u] = stored[u]
      /\ ~Accepts(t) => stored'[t] \in Terminal
      /\ Accepts(t) => stored'[t] = state
  BY <1>1, Yields
<1>5. Works(t, X)
  <2>1. exec[t].pc \notin StartPoints /\ exec'[t].pc \notin StartPoints
    BY <1>2 DEF StartPoints, OnTurn, NoExec
  <2>. QED  BY <1>2, <1>3, <1>4, <2>1 DEF Works
<1>6. /\ exec'[t].pc = "idle" /\ exec'[t].pc \notin OnTurn \cup {"answer", "take", "interrupt"}
      /\ ~exec'[t].load /\ ~exec'[t].gone
  BY <1>2 DEF NoExec, OnTurn
<1>7. ReportOK(t)'
  <2>1. stored'[t] # "none"
    BY <1>4 DEF Terminal
  <2>2. stored'[t] = "input-required" => \E i \in TurnIds' : turns'[i].task = t /\ WillReport(i)'
    BY <1>4 DEF Terminal
  <2>. QED  BY <1>6, <2>1, <2>2 DEF ReportOK
<1>. QED  BY <1>1, <1>5, <1>6, <1>7, WorkKeeps

LEMMA GotoWorks ==
    ASSUME Inv, NEW t \in Tasks, exec[t].pc \in OnTurn \cup {"decide"}, NEW X, Effect(X),
           \A i \in TurnIds : i \in X => turns[i].task = t, WorkFrame, questions' \in Seq(Asked),
           OnlyExec(t), exec' \in [Tasks -> Exec], stored' \in [Tasks -> Stored],
           \A u \in Tasks : u # t => stored'[u] = stored[u],
           stored'[t] = stored[t] \/ (stored[t] \notin Terminal /\ stored'[t] = "working"),
           exec'[t].pc \notin StartPoints \cup {"idle", "decide"},
           exec'[t].pc \in OnTurn => exec'[t].turn \in TurnIds /\ turns[exec'[t].turn].task = t,
           exec'[t].pc \in {"answer", "take", "interrupt"} => exec'[t].q # 0,
           exec'[t].load => exec[t].load, exec'[t].gone => exec[t].gone,
           exec'[t].pc = "pausing" => WillReport(exec[t].turn)'
    PROVE  Inv'
<1>1. LockInv /\ ReportOK(t)
  BY DEF Inv, ReportInv
<1>2. Works(t, X)
  <2>1. exec[t].pc \notin StartPoints
    BY DEF StartPoints, OnTurn
  <2>. QED  BY <2>1 DEF Works
<1>3. exec'[t].gone => stored'[t] \in Terminal
  BY <1>1 DEF LockInv, ExecOK
<1>4. ReportOK(t)'
  <2>1. stored'[t] # "none"
    BY <1>1 DEF ReportOK, OnTurn
  <2>2. exec'[t].pc \notin {"idle", "decide"}
    OBVIOUS
  <2>. QED  BY <2>1, <2>2 DEF ReportOK
<1>. QED  BY <1>1, <1>2, <1>3, <1>4, WorkKeeps

Points == OnTurn \cup StartPoints \cup {"idle", "decide", "start"}

\* Goto changes nothing but the point Execute is at.
LEMMA Going ==
    ASSUME LockInv, NEW t \in Tasks, NEW pc \in Points, Goto(t, pc)
    PROVE  /\ OnlyExec(t) /\ exec' \in [Tasks -> Exec] /\ exec'[t].pc = pc
           /\ exec'[t].turn = exec[t].turn /\ exec'[t].q = exec[t].q
           /\ exec'[t].proc = exec[t].proc /\ exec'[t].call = exec[t].call
           /\ exec'[t].load = exec[t].load /\ exec'[t].gone = exec[t].gone
<1>1. exec \in [Tasks -> Exec] /\ exec[t] \in Exec
  BY DEF LockInv, TypeOK
<1>2. OnlyExec(t) /\ exec' = [exec EXCEPT ![t] = [exec[t] EXCEPT !.pc = pc]]
  BY <1>1 DEF OnlyExec, Goto
<1>3. PICK r : r = [exec[t] EXCEPT !.pc = pc]
  OBVIOUS
<1>4. /\ r \in Exec /\ r.pc = pc /\ r.turn = exec[t].turn /\ r.q = exec[t].q
      /\ r.proc = exec[t].proc /\ r.call = exec[t].call
      /\ r.load = exec[t].load /\ r.gone = exec[t].gone
  BY <1>1, <1>3 DEF Exec, Points, OnTurn, StartPoints
<1>. QED  BY <1>1, <1>2, <1>3, <1>4

\* Execute goes from a point on a turn to another one.
LEMMA GoesOn ==
    ASSUME Inv, NEW t \in Tasks, exec[t].pc \in OnTurn, NEW X, Effect(X),
           \A i \in TurnIds : i \in X => turns[i].task = t, WorkFrame, questions' \in Seq(Asked),
           NEW pc \in OnTurn, Goto(t, pc), pc # "answer" /\ pc # "interrupt",
           pc = "take" => exec[t].q # 0, stored' \in [Tasks -> Stored],
           \A u \in Tasks : u # t => stored'[u] = stored[u],
           stored'[t] = stored[t] \/ (stored[t] \notin Terminal /\ stored'[t] = "working"),
           pc = "pausing" => WillReport(exec[t].turn)'
    PROVE  Inv'
<1>1. LockInv
  BY DEF Inv
<1>2. /\ OnlyExec(t) /\ exec' \in [Tasks -> Exec] /\ exec'[t].pc = pc
      /\ exec'[t].turn = exec[t].turn /\ exec'[t].q = exec[t].q
      /\ exec'[t].load = exec[t].load /\ exec'[t].gone = exec[t].gone
  BY <1>1, Going DEF Points
<1>3. exec[t].turn \in TurnIds /\ turns[exec[t].turn].task = t
  BY <1>1, OwnTurn
<1>4. pc \notin StartPoints \cup {"idle", "decide"}
  BY DEF StartPoints, OnTurn
<1>. QED  BY <1>2, <1>3, <1>4, GotoWorks

LEMMA StoredType ==
    ASSUME LockInv
    PROVE  stored \in [Tasks -> Stored] /\ questions \in Seq(Asked)
BY DEF LockInv, TypeOK, Stored, Asked

\* The turn of a task, if it has one in the maps.
LEMMA TurnOfOwn ==
    ASSUME NEW t, TurnOf(t) # 0
    PROVE  TurnOf(t) \in TurnIds /\ turns[TurnOf(t)].task = t
<1>1. TurnOf(t) \in TurnIds /\ turns[TurnOf(t)].registered /\ turns[TurnOf(t)].task = t
  BY DEF TurnOf
<1>. QED  BY <1>1

LEMMA KeepsDecide ==
    ASSUME Inv, NEW t \in Tasks, Decide(t), setting' = setting
    PROVE  Inv'
<1>0. PICK i, p : i = TurnOf(t) /\ p = IF i = 0 THEN 0 ELSE turns[i].pending
  OBVIOUS
<1>1. /\ exec[t].pc = "decide" /\ LockInv /\ QuestionInv /\ ReportOK(t) /\ turns' = turns
      /\ questions' = questions /\ reader' = reader /\ abandoned' = abandoned /\ WorkFrame
      /\ questions' \in Seq(Asked) /\ exec \in [Tasks -> Exec] /\ exec[t] \in Exec
  BY StoredType DEF Decide, Inv, ReportInv, WorkFrame, LockInv, TypeOK
<1>2. ASSUME OnlyExec(t), exec'[t].pc \notin {"ask", "reply"}  PROVE Effect({})
  BY <1>1, <1>2, HandsNone, NoTurn DEF Effect
<1>3. ASSUME NEW state \in {"input-required", "failed"}, Finish(t, state),
             state = "input-required" => p # 0
      PROVE  Inv'
  <2>1. Effect({})
    BY <1>1, <1>2, <1>3, FinishExec DEF Finish
  <2>2. state = "input-required" /\ Accepts(t) => \E j \in TurnIds' : turns'[j].task = t /\ WillReport(j)'
    <3>1. SUFFICES ASSUME state = "input-required", Accepts(t)
                   PROVE  \E j \in TurnIds : turns[j].task = t /\ WillReport(j)
      BY <1>1 DEF TurnIds, WillReport
    <3>2. i \in TurnIds /\ turns[i].task = t
      BY <1>0, <1>3, <3>1, TurnOfOwn
    <3>3. stored[t] = "input-required"
      BY <1>1, <3>1, <3>2 DEF ReportOK, Accepts, NoTurnOf
    <3>. QED  BY <1>1, <3>3 DEF ReportOK
  <2>. QED  BY <1>1, <1>3, <2>1, <2>2, FinishWorks DEF Stored, Terminal
<1>4. ASSUME p # 0, NEW pc \in {"answer", "interrupt"}, stored' = stored,
             exec' = [exec EXCEPT ![t].pc = pc, ![t].turn = i, ![t].q = p]
      PROVE  Inv'
  <2>1. i \in TurnIds /\ turns[i].task = t
    BY <1>0, <1>4, TurnOfOwn
  <2>2. i \in 0..MaxTurns /\ p \in 0..MaxQuestions
    <3>1. turns[i] \in Turn /\ Len(turns) \in Nat /\ Len(turns) <= MaxTurns /\ MaxTurns \in Nat
      BY <1>1, <2>1, TurnType, Bounds DEF LockInv, TypeOK
    <3>2. turns[i].pending \in 0..MaxQuestions
      BY <3>1 DEF Turn
    <3>. QED  BY <1>0, <2>1, <3>1, <3>2 DEF TurnIds
  <2>3. PICK r : r = [exec[t] EXCEPT !.pc = pc, !.turn = i, !.q = p]
    OBVIOUS
  <2>4. r \in Exec /\ r.pc = pc /\ r.turn = i /\ r.q = p /\ r.load = exec[t].load /\ r.gone = exec[t].gone
    BY <1>1, <2>2, <2>3 DEF Exec
  <2>5. exec' = [exec EXCEPT ![t] = r]
    BY <1>1, <1>4, <2>3
  <2>6. OnlyExec(t) /\ exec' \in [Tasks -> Exec] /\ exec'[t] = r
    BY <1>1, <2>4, <2>5 DEF OnlyExec
  <2>7. Effect({})
    BY <1>2, <2>4, <2>6
  <2>8. /\ exec'[t].pc \notin StartPoints \cup {"idle", "decide"} /\ exec'[t].pc # "pausing"
        /\ stored' \in [Tasks -> Stored]
    BY <1>1, <1>4, <2>4, <2>6, StoredType DEF StartPoints
  <2>. QED  BY <1>1, <1>4, <2>1, <2>4, <2>6, <2>7, <2>8, GotoWorks
<1>5. ASSUME stored' = stored,
             exec' = [exec EXCEPT ![t].pc = "start", ![t].wait = ~setting.reject]
      PROVE  Inv'
  <2>1. PICK w : w = ~setting.reject
    OBVIOUS
  <2>2. w \in BOOLEAN
    BY <2>1
  <2>3. PICK r : r = [exec[t] EXCEPT !.pc = "start", !.wait = w]
    OBVIOUS
  <2>4. r \in Exec /\ r.pc = "start" /\ r.load = exec[t].load /\ r.gone = exec[t].gone
    BY <1>1, <2>2, <2>3 DEF Exec
  <2>5. exec' = [exec EXCEPT ![t] = r]
    BY <1>1, <1>5, <2>1, <2>3
  <2>6. OnlyExec(t) /\ exec' \in [Tasks -> Exec] /\ exec'[t] = r
    BY <1>1, <2>4, <2>5 DEF OnlyExec
  <2>7. Effect({})
    BY <1>2, <2>4, <2>6
  <2>8. /\ exec'[t].pc \notin StartPoints \cup {"idle", "decide"} \cup OnTurn
        /\ stored' \in [Tasks -> Stored]
    BY <1>1, <1>5, <2>4, <2>6, StoredType DEF StartPoints, OnTurn
  <2>9. exec'[t].pc \notin {"pausing", "answer", "take", "interrupt"}
    BY <2>8 DEF OnTurn
  <2>. QED  BY <1>1, <1>5, <2>4, <2>6, <2>7, <2>8, <2>9, GotoWorks
<1>. QED  BY <1>0, <1>3, <1>4, <1>5 DEF Decide

LEMMA KeepsResume ==
    ASSUME Inv, NEW t \in Tasks, Resume(t), setting' = setting
    PROVE  Inv'
<1>1. /\ exec[t].pc \in OnTurn /\ LockInv /\ QuestionInv /\ WorkFrame /\ stored' = stored
      /\ questions' \in Seq(Asked) /\ exec[t].q # 0 /\ Goto(t, "take") /\ stored' \in [Tasks -> Stored]
  BY StoredType DEF Resume, Inv, WorkFrame, LockInv, ExecOK, OnTurn
<1>2. Effect({exec[t].turn}) /\ \A i \in TurnIds : i \in {exec[t].turn} => turns[i].task = t
  BY <1>1, DoesResume, OwnTurn
<1>. QED  BY <1>1, <1>2, GoesOn DEF OnTurn

LEMMA KeepsTakePending ==
    ASSUME Inv, NEW t \in Tasks, TakePending(t), setting' = setting
    PROVE  Inv'
<1>1. /\ exec[t].pc \in OnTurn /\ LockInv /\ QuestionInv /\ WorkFrame
      /\ questions' \in Seq(Asked)
  BY StoredType DEF TakePending, Inv, WorkFrame, OnTurn
<1>2. Effect({})
  BY <1>1, DoesTakePending
<1>3. CASE Finish(t, "failed")
  BY <1>1, <1>2, <1>3, FinishWorks DEF Stored, Terminal
<1>4. CASE Goto(t, "reply") /\ stored' = stored
  <2>1. stored' \in [Tasks -> Stored]
    BY <1>1, <1>4, StoredType
  <2>. QED  BY <1>1, <1>2, <1>4, <2>1, GoesOn DEF OnTurn
<1>. QED  BY <1>3, <1>4 DEF TakePending

LEMMA KeepsSendReply ==
    ASSUME Inv, NEW t \in Tasks, SendReply(t), setting' = setting
    PROVE  Inv'
<1>1. exec[t].pc \in OnTurn /\ LockInv /\ QuestionInv
  BY DEF SendReply, Inv, OnTurn
<1>2. WorkFrame /\ questions' \in Seq(Asked)
  BY <1>1, StoredType, RespondType DEF SendReply, WorkFrame
<1>3. Effect({})
  BY <1>1, DoesSendReply
<1>4. CASE Finish(t, "failed")
  BY <1>1, <1>2, <1>3, <1>4, FinishWorks DEF Stored, Terminal
<1>5. CASE Goto(t, "working") /\ stored' = stored
  <2>1. stored' \in [Tasks -> Stored]
    BY <1>1, <1>5, StoredType
  <2>. QED  BY <1>1, <1>2, <1>3, <1>5, <2>1, GoesOn DEF OnTurn
<1>. QED  BY <1>4, <1>5 DEF SendReply

LEMMA KeepsInterrupt ==
    ASSUME Inv, NEW t \in Tasks, Interrupt(t), setting' = setting
    PROVE  Inv'
<1>1. exec[t].pc \in OnTurn /\ LockInv /\ QuestionInv /\ stored' = stored
  BY DEF Interrupt, Inv, OnTurn
<1>2. WorkFrame /\ questions' \in Seq(Asked) /\ stored' \in [Tasks -> Stored]
  BY <1>1, StoredType, RespondType DEF Interrupt, WorkFrame
<1>3. Effect({exec[t].turn}) /\ \A i \in TurnIds : i \in {exec[t].turn} => turns[i].task = t
  BY <1>1, DoesInterrupt, OwnTurn
<1>4. PICK r : r = [NoExec EXCEPT !.pc = "start", !.wait = TRUE, !.gone = exec[t].gone]
  OBVIOUS
<1>5. exec \in [Tasks -> Exec] /\ exec[t] \in Exec /\ exec' = [exec EXCEPT ![t] = r]
  BY <1>1, <1>4 DEF Interrupt, LockInv, TypeOK
<1>6. exec[t].gone \in BOOLEAN
  BY <1>5 DEF Exec
<1>7. r \in Exec /\ r.pc = "start" /\ ~r.load /\ r.gone = exec[t].gone
  BY <1>4, <1>6, Bounds DEF Exec, NoExec
<1>8. OnlyExec(t) /\ exec' \in [Tasks -> Exec] /\ exec'[t] = r
  BY <1>5, <1>7 DEF OnlyExec
<1>9. exec'[t].pc \notin StartPoints \cup {"idle", "decide"} \cup OnTurn
  BY <1>7, <1>8 DEF StartPoints, OnTurn
<1>10. exec'[t].pc \notin {"pausing", "answer", "take", "interrupt"}
  BY <1>9 DEF OnTurn
<1>. QED  BY <1>1, <1>2, <1>3, <1>7, <1>8, <1>9, <1>10, GotoWorks

LEMMA KeepsWorking ==
    ASSUME Inv, NEW t \in Tasks, Working(t), setting' = setting
    PROVE  Inv'
<1>1. exec[t].pc \in OnTurn /\ LockInv /\ QuestionInv
  BY DEF Working, Inv, OnTurn
<1>2. WorkFrame /\ questions' \in Seq(Asked)
  BY <1>1, StoredType, RespondType DEF Working, WorkFrame, pumpVars, cancelTurn
<1>3. Effect({})
  BY <1>1, DoesWorking
<1>4. Yield(t, "working") /\ "working" \in Stored
  BY DEF Working, Stored
<1>5. CASE exec' = [exec EXCEPT ![t] = NoExec]
  <2>1. Finish(t, "working")
    BY <1>4, <1>5 DEF Finish
  <2>. QED  BY <1>1, <1>2, <1>3, <1>4, <2>1, FinishWorks
<1>6. CASE Goto(t, "pump") /\ Accepts(t)
  <2>1. /\ stored' \in [Tasks -> Stored] /\ \A u \in Tasks : u # t => stored'[u] = stored[u]
        /\ stored'[t] = "working" /\ stored[t] \notin Terminal
    BY <1>1, <1>4, <1>6, Yields DEF Accepts
  <2>. QED  BY <1>1, <1>2, <1>3, <1>6, <2>1, GoesOn DEF OnTurn
<1>. QED  BY <1>5, <1>6 DEF Working

LEMMA KeepsPump ==
    ASSUME Inv, NEW t \in Tasks, Pump(t), setting' = setting
    PROVE  Inv'
<1>0. PICK i, queue : i = exec[t].turn /\ queue = turns[i].events
  OBVIOUS
<1>1. exec[t].pc \in OnTurn /\ LockInv /\ QuestionInv /\ exec[t].pc = "pump"
  BY DEF Pump, Inv, OnTurn
<1>2. i \in TurnIds /\ turns[i] \in Turn /\ turns[i].task = t /\ queue \in Seq(Event)
  BY <1>0, <1>1, OwnTurn DEF Turn
<1>3. Effect({})
  BY <1>1, DoesPump
<1>4. WorkFrame
  BY DEF Pump, WorkFrame, pumpVars
<1>5. stored \in [Tasks -> Stored] /\ questions \in Seq(Asked)
      /\ exec \in [Tasks -> Exec] /\ exec[t] \in Exec
  BY <1>1, StoredType DEF LockInv, TypeOK
<1>6. CASE queue = <<>>
  <2>1. /\ exec[t].gone /\ exec' = [exec EXCEPT ![t] = NoExec] /\ stored' = stored
        /\ questions' \in Seq(Asked)
    BY <1>0, <1>5, <1>6, RespondType DEF Pump, cancelTurn
  <2>2. Finish(t, "failed")
    BY <2>1 DEF Finish, Yield, Accepts
  <2>. QED  BY <1>1, <1>3, <1>4, <2>1, <2>2, FinishWorks DEF Stored, Terminal
<1>7. CASE queue # <<>>
  <2>0. PICK e : e = Head(queue)
    OBVIOUS
  <2>1. e \in Event
    BY <1>2, <1>7, <2>0
  <2>2. ASSUME NEW state \in Terminal, Finish(t, state), questions' \in Seq(Asked)
        PROVE  Inv'
    BY <1>1, <1>3, <1>4, <2>2, FinishWorks DEF Stored, Terminal
  <2>3. CASE e.kind = "update"
    <3>1. questions' \in Seq(Asked)
      BY <1>0, <1>5, <1>7, <2>0, <2>3, RespondType DEF Pump
    <3>2. \/ (Accepts(t) /\ Yield(t, "working") /\ exec' = exec)
          \/ Finish(t, "failed")
      BY <1>0, <1>7, <2>0, <2>3 DEF Pump
    <3>3. CASE Accepts(t) /\ Yield(t, "working") /\ exec' = exec
      <4>1. /\ stored' \in [Tasks -> Stored] /\ \A u \in Tasks : u # t => stored'[u] = stored[u]
            /\ stored'[t] = "working" /\ stored[t] \notin Terminal
        BY <1>1, <3>3, Yields DEF Accepts, Stored
      <4>2. Goto(t, "pump")
        BY <1>1, <1>5, <3>3 DEF Goto, Exec
      <4>. QED  BY <1>1, <1>3, <1>4, <3>1, <4>1, <4>2, GoesOn DEF OnTurn
    <3>. QED  BY <2>2, <3>1, <3>2, <3>3 DEF Terminal
  <2>4. CASE e.kind = "question"
    <3>0. PICK q : q = e.q
      OBVIOUS
    <3>1. /\ exec' = [exec EXCEPT ![t].pc = "ask", ![t].q = q] /\ questions' = questions
          /\ stored' = stored
      BY <1>0, <1>7, <2>0, <2>4, <3>0 DEF Pump
    <3>2. q \in 0..MaxQuestions
      <4>1. e.q \in 1..MaxQuestions
        BY <2>1, <2>4 DEF Event
      <4>. QED  BY <3>0, <4>1, Bounds
    <3>3. PICK r : r = [exec[t] EXCEPT !.pc = "ask", !.q = q]
      OBVIOUS
    <3>4. /\ r \in Exec /\ r.pc = "ask" /\ r.turn = exec[t].turn
          /\ r.load = exec[t].load /\ r.gone = exec[t].gone
      BY <1>5, <3>2, <3>3 DEF Exec
    <3>5. exec' = [exec EXCEPT ![t] = r]
      BY <1>5, <3>1, <3>3
    <3>6. OnlyExec(t) /\ exec' \in [Tasks -> Exec] /\ exec'[t] = r
      BY <1>5, <3>4, <3>5 DEF OnlyExec
    <3>7. /\ exec'[t].pc \notin StartPoints \cup {"idle", "decide"}
          /\ exec'[t].pc \notin {"answer", "take", "interrupt"} /\ exec'[t].pc # "pausing"
      BY <3>4, <3>6 DEF StartPoints
    <3>. QED  BY <1>0, <1>1, <1>2, <1>3, <1>4, <1>5, <3>1, <3>4, <3>6, <3>7, GotoWorks
  <2>5. CASE e.kind = "result"
    <3>1. Finish(t, e.state) /\ questions' = questions
      BY <1>0, <1>7, <2>0, <2>5 DEF Pump
    <3>2. e.state \in Terminal
      BY <2>1, <2>5 DEF Event
    <3>. QED  BY <1>5, <2>2, <3>1, <3>2
  <2>. QED  BY <2>1, <2>3, <2>4, <2>5 DEF Event
<1>. QED  BY <1>6, <1>7

LEMMA KeepsAsk ==
    ASSUME Inv, NEW t \in Tasks, Ask(t), setting' = setting
    PROVE  Inv'
<1>0. PICK i : i = exec[t].turn
  OBVIOUS
<1>1. exec[t].pc \in OnTurn /\ LockInv /\ QuestionInv
  BY DEF Ask, Inv, OnTurn
<1>2. WorkFrame /\ questions' \in Seq(Asked)
  BY <1>1, StoredType, RespondType DEF Ask, WorkFrame, pumpVars
<1>3. i \in TurnIds /\ turns[i] \in Turn /\ \A j \in TurnIds : j \in {i} => turns[j].task = t
  BY <1>0, <1>1, OwnTurn
<1>4. Effect({i}) /\ (turns'[i].paused \/ Effect({}))
  BY <1>0, <1>1, DoesAsk
<1>5. stored \in [Tasks -> Stored]
  BY <1>1, StoredType
<1>6. CASE Finish(t, "failed")
  BY <1>1, <1>2, <1>3, <1>4, <1>6, FinishWorks DEF Stored, Terminal
<1>7. CASE Goto(t, "pump") /\ stored' = stored
  BY <1>1, <1>2, <1>3, <1>4, <1>5, <1>7, GoesOn DEF OnTurn
<1>8. CASE /\ ~turns[i].ended /\ turns' = [turns EXCEPT ![i].pending = exec[t].q, ![i].paused = TRUE]
           /\ Goto(t, "pausing") /\ stored' = stored
  <2>1. turns'[i].paused /\ ~turns'[i].ended
    <3>1. PICK b : b = [turns[i] EXCEPT !.pending = exec[t].q, !.paused = TRUE]
      OBVIOUS
    <3>2. b.paused /\ ~b.ended
      BY <1>3, <1>8, <3>1 DEF Turn
    <3>3. turns \in Seq(Turn) /\ i \in DOMAIN turns
      BY <1>1, <1>3 DEF LockInv, TypeOK, TurnIds
    <3>4. turns' = [turns EXCEPT ![i] = b]
      BY <1>8, <3>1, <3>3
    <3>. QED  BY <3>2, <3>3, <3>4
  <2>2. exec'[t].turn = i
    BY <1>0, <1>1, <1>8, Going DEF Points, OnTurn
  <2>3. WillReport(exec[t].turn)'
    BY <2>1, <2>2 DEF WillReport
  <2>. QED  BY <1>1, <1>2, <1>3, <1>4, <1>5, <1>8, <2>3, GoesOn DEF OnTurn
<1>. QED  BY <1>0, <1>6, <1>7, <1>8 DEF Ask

LEMMA KeepsPause ==
    ASSUME Inv, NEW t \in Tasks, Pause(t), setting' = setting
    PROVE  Inv'
<1>0. PICK i : i = exec[t].turn
  OBVIOUS
<1>1. exec[t].pc \in OnTurn /\ LockInv /\ QuestionInv /\ exec[t].pc = "pausing" /\ ReportOK(t)
  BY DEF Pause, Inv, OnTurn, ReportInv
<1>2. WorkFrame /\ questions' \in Seq(Asked)
  BY <1>1, StoredType, RespondType DEF Pause, WorkFrame, pumpVars, cancelTurn
<1>3. Effect({})
  BY <1>1, DoesPause
<1>4. CASE Finish(t, "failed")
  BY <1>1, <1>2, <1>3, <1>4, FinishWorks DEF Stored, Terminal
<1>5. CASE Finish(t, "input-required") /\ turns' = turns
  <2>1. ASSUME Accepts(t)  PROVE \E j \in TurnIds' : turns'[j].task = t /\ WillReport(j)'
    <3>1. i \in TurnIds /\ turns[i].task = t
      BY <1>0, <1>1, OwnTurn
    <3>2. WillReport(i)
      BY <1>0, <1>1, <2>1 DEF ReportOK, Accepts
    <3>3. abandoned' = abandoned
      BY <1>2 DEF WorkFrame
    <3>. QED  BY <1>5, <3>1, <3>2, <3>3 DEF WillReport, TurnIds
  <2>. QED  BY <1>1, <1>2, <1>3, <1>5, <2>1, FinishWorks DEF Stored
<1>. QED  BY <1>4, <1>5 DEF Pause

-----------------------------------------------------------------------------
(***************************************************************************)
(* Agents and timers.                                                      *)
(***************************************************************************)
LEMMA AgentStep ==
    ASSUME Inv, Effect({}), UNCHANGED <<setting, agentVars, connVars>>,
           questions' \in Seq(Asked), reader' \in [Procs -> 0..MaxQuestions]
    PROVE  Inv'
<1>1. ConnTypeOK' /\ nextID' = nextID
  BY DEF Inv, LockInv, TypeOK, ConnTypeOK, connVars
<1>. QED  BY <1>1, AgentKeeps

LEMMA ConnStep ==
    ASSUME Inv, UNCHANGED <<setting, agentVars, turns, reader, questions>>, ConnTypeOK',
           nextID' = nextID
    PROVE  Inv'
<1>1. LockInv /\ QuestionInv /\ turns' = turns /\ questions' = questions /\ reader' = reader
      /\ exec' = exec
  BY DEF Inv, agentVars
<1>2. Effect({})
  BY <1>1, HandsSame, NoTurn DEF Effect
<1>3. questions' \in Seq(Asked) /\ reader' \in [Procs -> 0..MaxQuestions]
  BY <1>1 DEF LockInv, TypeOK, Asked
<1>. QED  BY <1>2, <1>3, AgentKeeps

LEMMA KeepsTimers ==
    ASSUME Inv, NEW i \in TurnIds, Expire(i) \/ Inactive(i) \/ SessionUpdate(i) \/ AgentAsks(i),
           setting' = setting
    PROVE  Inv'
<1>1. /\ LockInv /\ QuestionInv /\ questions \in Seq(Asked)
      /\ reader \in [Procs -> 0..MaxQuestions]
  BY StoredType DEF Inv, LockInv, TypeOK
<1>2. CASE Expire(i)
  <2>1. questions' \in Seq(Asked) /\ reader' = reader /\ UNCHANGED <<setting, agentVars, connVars>>
    BY <1>1, <1>2, RespondType DEF Expire
  <2>. QED  BY <1>1, <1>2, <2>1, DoesExpire, AgentStep
<1>3. CASE Inactive(i)
  <2>1. questions' \in Seq(Asked) /\ reader' = reader /\ UNCHANGED <<setting, agentVars, connVars>>
    BY <1>1, <1>3, RespondType DEF Inactive
  <2>. QED  BY <1>1, <1>3, <2>1, DoesInactive, AgentStep
<1>4. CASE SessionUpdate(i)
  <2>1. questions' = questions /\ reader' = reader /\ UNCHANGED <<setting, agentVars, connVars>>
    BY <1>4 DEF SessionUpdate
  <2>. QED  BY <1>1, <1>4, <2>1, DoesSessionUpdate, AgentStep
<1>5. CASE AgentAsks(i)
  <2>1. UNCHANGED <<setting, agentVars, connVars>>
    BY <1>5 DEF AgentAsks
  <2>. QED  BY <1>1, <1>5, <2>1, DoesAgentAsk, AgentStep
<1>. QED  BY <1>2, <1>3, <1>4, <1>5

LEMMA KeepsQueueQuestion ==
    ASSUME Inv, NEW p \in Procs, QueueQuestion(p), setting' = setting
    PROVE  Inv'
<1>1. /\ LockInv /\ QuestionInv /\ questions \in Seq(Asked)
      /\ reader \in [Procs -> 0..MaxQuestions]
  BY StoredType DEF Inv, LockInv, TypeOK
<1>2. questions' = questions /\ UNCHANGED <<setting, agentVars, connVars>>
  BY DEF QueueQuestion
<1>3. reader' \in [Procs -> 0..MaxQuestions]
  BY <1>1, Bounds DEF QueueQuestion
<1>. QED  BY <1>1, <1>2, <1>3, DoesQueueQuestion, AgentStep

LEMMA KeepsAgentResponds ==
    ASSUME Inv, NEW o \in owed, AgentResponds(o), setting' = setting
    PROVE  Inv'
<1>1. ConnTypeOK
  BY DEF Inv, LockInv, TypeOK
<1>2. PICK r \in AnswersOf(o) : receive(o.id, r)
  BY DEF AgentResponds
<1>3. r \in Responses
  BY <1>2 DEF AnswersOf, Responses
<1>4. conn' = conn /\ nextID' = nextID /\ owed' \subseteq owed
  BY DEF AgentResponds
<1>5. ConnTypeOK'
  BY <1>1, <1>2, <1>3, <1>4 DEF receive, ConnTypeOK
<1>6. UNCHANGED <<setting, agentVars, turns, reader, questions>>
  BY DEF AgentResponds
<1>. QED  BY <1>4, <1>5, <1>6, ConnStep

LEMMA KeepsFail ==
    ASSUME Inv, NEW p \in Procs, fail(p),
           UNCHANGED <<setting, nextID, pending, chan, agentVars, turns, reader, questions>>
    PROVE  Inv'
<1>1. ConnTypeOK
  BY DEF Inv, LockInv, TypeOK
<1>2. ConnTypeOK'
  BY <1>1 DEF fail, ConnTypeOK
<1>. QED  BY <1>2, ConnStep

LEMMA KeepsCancelTimeout ==
    ASSUME Inv, NEW i \in TurnIds, CancelTimeout(i), setting' = setting
    PROVE  Inv'
<1>1. turns[i] \in Turn
  BY TurnType DEF Inv, LockInv, TypeOK
<1>2. turns[i].proc \in Procs
  BY <1>1 DEF Turn
<1>. QED  BY <1>2, KeepsFail DEF CancelTimeout

LEMMA KeepsAgentExits ==
    ASSUME Inv, NEW p \in Procs, AgentExits(p), setting' = setting
    PROVE  Inv'
BY KeepsFail DEF AgentExits

-----------------------------------------------------------------------------
(***************************************************************************)
(* The server, Cancel and Shutdown.                                        *)
(***************************************************************************)
LEMMA ExecSame ==
    ASSUME LockInv, NEW u \in Tasks,
           exec'[u].pc = exec[u].pc, exec'[u].turn = exec[u].turn, exec'[u].q = exec[u].q,
           exec'[u].proc = exec[u].proc, exec'[u].load = exec[u].load,
           u \in waiting' <=> u \in waiting, holder' = holder, session' = session, TurnsStay,
           exec'[u].gone => stored'[u] \in Terminal,
           cancel'[u].turn # 0 => cancel'[u].turn \in TurnIds /\ turns[cancel'[u].turn].task = u
    PROVE  ExecOK(u)'
<1>0. PICK e, f, c : e = exec[u] /\ f = exec'[u] /\ c = cancel'[u]
  OBVIOUS
<1>1. ExecOK(u) /\ Len(turns) \in Nat
  BY DEF LockInv, TypeOK
<1>2. Starting(u)' <=> Starting(u)
  BY DEF Starting
<1>3. \A i : i \in TurnIds /\ turns[i].task = u => i \in TurnIds' /\ turns'[i].task = u
  BY <1>1 DEF TurnsStay, TurnIds
<1>4. /\ u \in waiting' <=> (f.pc = "lock" \/ Starting(u)')
      /\ Starting(u)' => holder'[ContextOf[u]] = u
      /\ f.pc \in OnTurn => f.turn \in TurnIds' /\ turns'[f.turn].task = u
      /\ f.pc \in {"answer", "take", "interrupt"} => f.q # 0
      /\ f.pc \in {"session", "call", "register"} => f.proc \in Procs
      /\ (f.load \/ f.pc = "register") => session'[ContextOf[u]] # 0
      /\ f.gone => stored'[u] \in Terminal
      /\ c.turn # 0 => c.turn \in TurnIds' /\ turns'[c.turn].task = u
  BY <1>0, <1>1, <1>2, <1>3 DEF ExecOK
<1>. QED  BY <1>0, <1>4 DEF ExecOK

LEMMA TerminalReported ==
    ASSUME NEW t, stored'[t] \in Terminal
    PROVE  ReportOK(t)'
<1>1. stored'[t] \notin {"none", "input-required"}
  BY DEF Terminal
<1>. QED  BY <1>1 DEF ReportOK

\* Steps on an Execute or a Cancel that leave turns, locks and starts alone.
ServerFrame ==
    UNCHANGED <<setting, connVars, waiting, holder, sessVars, reader, abandoned, shut>>

\* Nobody's Execute moves, and only task t is touched.
Touches(t) ==
    /\ ServerFrame /\ questions' \in Seq(Asked)
    /\ exec' \in [Tasks -> Exec] /\ stored' \in [Tasks -> Stored]
    /\ cancel' \in [Tasks -> [pc : {"none", "found", "over"}, turn : 0..MaxTurns, request : Nat]]
    /\ requests' = requests
    /\ exec'[t].pc = exec[t].pc /\ exec'[t].turn = exec[t].turn /\ exec'[t].q = exec[t].q
    /\ exec'[t].proc = exec[t].proc /\ exec'[t].load = exec[t].load
    /\ \A u \in Tasks : u # t =>
          exec'[u] = exec[u] /\ stored'[u] = stored[u] /\ cancel'[u] = cancel[u]

LEMMA TouchKeeps ==
    ASSUME Inv, NEW t \in Tasks, NEW X, Effect(X),
           \A i \in TurnIds : i \in X => turns[i].task = t, Touches(t),
           exec'[t].gone => stored'[t] \in Terminal,
           cancel'[t].turn # 0 => cancel'[t].turn \in TurnIds /\ turns[cancel'[t].turn].task = t,
           \/ stored'[t] \in Terminal
           \/ Effect({}) /\ stored'[t] = stored[t]
    PROVE  Inv'
<1>1. LockInv /\ CalmTurns
  BY DEF Inv, Effect
<1>2. /\ setting' = setting /\ reader' = reader /\ requests' = requests
      /\ conn' = conn /\ nextID' = nextID /\ pending' = pending /\ chan' = chan /\ owed' = owed
      /\ waiting' = waiting /\ holder' = holder /\ session' = session
      /\ known' = known /\ nextSession' = nextSession /\ abandoned' = abandoned /\ shut' = shut
  BY DEF Touches, ServerFrame, sessVars, connVars
<1>3. TypeOK'
  <2>1. turns' \in Seq(Turn) /\ Len(turns') <= MaxTurns
    BY <1>1 DEF CalmTurns, LockInv, TypeOK
  <2>2. exec' \in [Tasks -> Exec] /\ stored' \in [Tasks -> Stored] /\ questions' \in Seq(Asked)
    BY DEF Touches
  <2>3. ConnTypeOK'
    BY <1>1, <1>2 DEF LockInv, TypeOK, ConnTypeOK
  <2>4. cancel' \in [Tasks -> [pc : {"none", "found", "over"}, turn : 0..MaxTurns, request : Nat]]
    BY DEF Touches
  <2>. QED  BY <1>1, <1>2, <2>1, <2>2, <2>3, <2>4 DEF LockInv, TypeOK, Stored, Asked
<1>4. \A u \in Tasks : u # t => Rests(u)
  BY <1>2 DEF Touches, Rests
<1>5. TurnsStay /\ HolderBy(t) /\ SessionsStay /\ Len(turns) \in Nat /\ Len(turns') \in Nat
  BY <1>1, <1>2, CalmStays DEF HolderBy, SessionsStay, CalmTurns, LockInv, TypeOK
<1>6. ExecOK(t)'
  BY <1>1, <1>2, <1>5, ExecSame DEF Touches
<1>7. ReportOK(t)'
  <2>1. CASE stored'[t] \in Terminal
    BY <2>1, TerminalReported
  <2>2. CASE Effect({}) /\ stored'[t] = stored[t]
    <3>1. ReportStays(t)
      BY <1>1, <1>2, <2>2, CalmStays DEF ReportStays, WillReport, Effect, PausedKept, TurnIds
    <3>2. exec[t].pc = "pausing" => exec[t].turn \in TurnIds /\ turns[exec[t].turn].task = t
      BY <1>1 DEF LockInv, ExecOK, OnTurn
    <3>3. exec'[t].pc = exec[t].pc /\ exec'[t].turn = exec[t].turn /\ ReportOK(t)
      BY DEF Touches, Inv, ReportInv
    <3>. QED  BY <1>5, <2>2, <3>1, <3>2, <3>3, ReportRests
  <2>. QED  BY <2>1, <2>2
<1>8. DrainOK'
  BY <1>1, <1>2, DrainStays
<1>9. SessionsOK'
  <2>1. \A u \in Tasks : exec'[u].pc = "call" => exec[u].pc = "call"
    BY DEF Touches
  <2>. QED  BY <1>1, <1>2, <2>1, SessionsStayOK DEF LockInv, TypeOK, ConnTypeOK
<1>10. Starting(t)' => Starting(t)
  BY DEF Starting, Touches
<1>. QED  BY <1>2, <1>3, <1>4, <1>5, <1>6, <1>7, <1>8, <1>9, <1>10, StepKeeps

LEMMA ExecGone ==
    ASSUME LockInv, NEW t \in Tasks, exec' = [exec EXCEPT ![t].gone = TRUE]
    PROVE  /\ exec' \in [Tasks -> Exec] /\ OnlyExec(t)
           /\ exec'[t].pc = exec[t].pc /\ exec'[t].turn = exec[t].turn /\ exec'[t].q = exec[t].q
           /\ exec'[t].proc = exec[t].proc /\ exec'[t].load = exec[t].load
<1>1. exec \in [Tasks -> Exec] /\ exec[t] \in Exec
  BY DEF LockInv, TypeOK
<1>2. PICK r : r = [exec[t] EXCEPT !.gone = TRUE]
  OBVIOUS
<1>3. /\ r \in Exec /\ r.pc = exec[t].pc /\ r.turn = exec[t].turn /\ r.q = exec[t].q
      /\ r.proc = exec[t].proc /\ r.load = exec[t].load
  BY <1>1, <1>2 DEF Exec
<1>4. exec' = [exec EXCEPT ![t] = r]
  BY <1>1, <1>2
<1>. QED  BY <1>1, <1>3, <1>4 DEF OnlyExec

LEMMA KeepsStopped ==
    ASSUME Inv, NEW t \in Tasks, RequestEnds(t) \/ ServerStops(t), setting' = setting
    PROVE  Inv'
<1>1. /\ LockInv /\ QuestionInv /\ stored \in [Tasks -> Stored] /\ questions \in Seq(Asked)
      /\ cancel \in [Tasks -> [pc : {"none", "found", "over"}, turn : 0..MaxTurns, request : Nat]]
  BY StoredType DEF Inv, LockInv, TypeOK
<1>2. /\ exec' = [exec EXCEPT ![t].gone = TRUE] /\ turns' = turns /\ questions' = questions
      /\ requests' = requests /\ cancel' = cancel /\ ServerFrame
  BY DEF RequestEnds, ServerStops, ServerFrame
<1>3. /\ stored' \in [Tasks -> Stored] /\ stored'[t] \in Terminal
      /\ \A u \in Tasks : u # t => stored'[u] = stored[u]
  <2>1. CASE stored[t] \in Terminal /\ stored' = stored
    BY <1>1, <2>1
  <2>2. CASE stored' = [stored EXCEPT ![t] = "failed"]
    BY <1>1, <2>2 DEF Stored, Terminal
  <2>. QED  BY <2>1, <2>2 DEF RequestEnds, ServerStops
<1>4. /\ exec' \in [Tasks -> Exec] /\ OnlyExec(t)
      /\ exec'[t].pc = exec[t].pc /\ exec'[t].turn = exec[t].turn /\ exec'[t].q = exec[t].q
      /\ exec'[t].proc = exec[t].proc /\ exec'[t].load = exec[t].load
  BY <1>1, <1>2, ExecGone
<1>5. HandsLess({})
  BY <1>4 DEF HandsLess, InHand, OnlyExec
<1>6. Effect({})
  BY <1>1, <1>2, <1>5, NoTurn DEF Effect, ServerFrame
<1>7. Touches(t)
  BY <1>1, <1>2, <1>3, <1>4 DEF Touches, OnlyExec
<1>8. cancel'[t].turn # 0 => cancel'[t].turn \in TurnIds /\ turns[cancel'[t].turn].task = t
  BY <1>1, <1>2 DEF LockInv, ExecOK
<1>. QED  BY <1>3, <1>6, <1>7, <1>8, TouchKeeps

LEMMA KeepsCancelFinds ==
    ASSUME Inv, NEW t \in Tasks, CancelFinds(t), setting' = setting
    PROVE  Inv'
<1>1. /\ LockInv /\ QuestionInv /\ stored \in [Tasks -> Stored] /\ questions \in Seq(Asked)
      /\ cancel \in [Tasks -> [pc : {"none", "found", "over"}, turn : 0..MaxTurns, request : Nat]]
      /\ requests \in [Tasks -> Nat] /\ exec \in [Tasks -> Exec]
      /\ Len(turns) \in Nat /\ Len(turns) <= MaxTurns
  <2>1. LockInv /\ QuestionInv /\ TypeOK
    BY DEF Inv, LockInv
  <2>2. turns \in Seq(Turn) /\ Len(turns) <= MaxTurns
    BY <2>1 DEF TypeOK
  <2>3. Len(turns) \in Nat
    BY <2>2
  <2>. QED  BY <2>1, <2>2, <2>3, StoredType DEF TypeOK
<1>2. /\ exec' = exec /\ turns' = turns /\ questions' = questions /\ stored' = stored
      /\ requests' = requests /\ ServerFrame
  BY DEF CancelFinds, ServerFrame
<1>3. PICK i, n : /\ i = TurnOf(t) /\ n = IF t \in waiting THEN requests[t] ELSE 0
                  /\ cancel' = [cancel EXCEPT ![t] = [pc |-> "found", turn |-> i, request |-> n]]
  BY DEF CancelFinds
<1>4. i # 0 => i \in TurnIds /\ turns[i].task = t
  BY <1>3, TurnOfOwn
<1>5. i \in 0..MaxTurns /\ n \in Nat
  BY <1>1, <1>3, <1>4, Bounds DEF TurnIds
<1>6. PICK c : c = [pc |-> "found", turn |-> i, request |-> n]
  OBVIOUS
<1>7. c \in [pc : {"none", "found", "over"}, turn : 0..MaxTurns, request : Nat] /\ c.turn = i
  BY <1>5, <1>6
<1>8. /\ cancel' \in [Tasks -> [pc : {"none", "found", "over"}, turn : 0..MaxTurns, request : Nat]]
      /\ cancel'[t] = c /\ \A u \in Tasks : u # t => cancel'[u] = cancel[u]
  BY <1>1, <1>3, <1>6, <1>7
<1>9. Effect({})
  BY <1>1, <1>2, HandsSame, NoTurn DEF Effect, ServerFrame
<1>10. Touches(t)
  BY <1>1, <1>2, <1>8 DEF Touches
<1>11. exec'[t].gone => stored'[t] \in Terminal
  BY <1>1, <1>2 DEF LockInv, ExecOK
<1>. QED  BY <1>2, <1>4, <1>7, <1>8, <1>9, <1>10, <1>11, TouchKeeps

LEMMA KeepsCancelActs ==
    ASSUME Inv, NEW t \in Tasks, CancelActs(t), setting' = setting
    PROVE  Inv'
<1>. DEFINE Own == {i \in TurnIds : turns[i].task = t}
<1>1. /\ LockInv /\ QuestionInv /\ stored \in [Tasks -> Stored] /\ questions \in Seq(Asked)
      /\ cancel \in [Tasks -> [pc : {"none", "found", "over"}, turn : 0..MaxTurns, request : Nat]]
      /\ exec \in [Tasks -> Exec] /\ exec[t] \in Exec
  BY StoredType DEF Inv, LockInv, TypeOK
<1>2. requests' = requests /\ ServerFrame
  BY DEF CancelActs, ServerFrame
<1>3. /\ stored' \in [Tasks -> Stored] /\ stored'[t] \in Terminal
      /\ \A u \in Tasks : u # t => stored'[u] = stored[u]
  BY <1>1 DEF CancelActs, Stored, Terminal
<1>4. /\ exec' \in [Tasks -> Exec] /\ OnlyExec(t)
      /\ exec'[t].pc = exec[t].pc /\ exec'[t].turn = exec[t].turn /\ exec'[t].q = exec[t].q
      /\ exec'[t].proc = exec[t].proc /\ exec'[t].load = exec[t].load
  <2>1. CASE exec' = exec
    BY <1>1, <2>1 DEF OnlyExec
  <2>2. CASE exec' = [exec EXCEPT ![t].ctx = "canceled"]
    <3>1. PICK r : r = [exec[t] EXCEPT !.ctx = "canceled"]
      OBVIOUS
    <3>2. /\ r \in Exec /\ r.pc = exec[t].pc /\ r.turn = exec[t].turn /\ r.q = exec[t].q
          /\ r.proc = exec[t].proc /\ r.load = exec[t].load
      BY <1>1, <3>1 DEF Exec
    <3>3. exec' = [exec EXCEPT ![t] = r]
      BY <1>1, <2>2, <3>1
    <3>. QED  BY <1>1, <3>2, <3>3 DEF OnlyExec
  <2>. QED  BY <2>1, <2>2 DEF CancelActs
<1>5. PICK c : c = [pc |-> "over", turn |-> 0, request |-> 0]
  OBVIOUS
<1>6. c \in [pc : {"none", "found", "over"}, turn : 0..MaxTurns, request : Nat] /\ c.turn = 0
  BY <1>5, Bounds
<1>7. /\ cancel' \in [Tasks -> [pc : {"none", "found", "over"}, turn : 0..MaxTurns, request : Nat]]
      /\ cancel'[t] = c /\ \A u \in Tasks : u # t => cancel'[u] = cancel[u]
  BY <1>1, <1>5, <1>6 DEF CancelActs
<1>8. Effect(Own)
  BY <1>1, DoesCancelActs
<1>9. questions' \in Seq(Asked)
  BY <1>1, RespondType DEF CancelActs
<1>10. Touches(t)
  BY <1>2, <1>3, <1>4, <1>7, <1>9 DEF Touches, OnlyExec
<1>. QED  BY <1>3, <1>6, <1>7, <1>8, <1>10, TouchKeeps

LEMMA KeepsExecuteBegins ==
    ASSUME Inv, NEW t \in Tasks, ExecuteBegins(t), setting' = setting
    PROVE  Inv'
<1>1. /\ LockInv /\ QuestionInv /\ stored \in [Tasks -> Stored] /\ questions \in Seq(Asked)
      /\ requests \in [Tasks -> Nat] /\ \A u \in Tasks : requests[u] <= setting.requests[u]
      /\ setting \in Settings /\ ExecOK(t) /\ ReportOK(t)
  BY StoredType DEF Inv, LockInv, TypeOK, ReportInv
<1>2. /\ turns' = turns /\ questions' = questions /\ cancel' = cancel /\ waiting' = waiting
      /\ holder' = holder /\ session' = session /\ known' = known /\ nextSession' = nextSession
      /\ reader' = reader /\ abandoned' = abandoned /\ shut' = shut
      /\ conn' = conn /\ nextID' = nextID /\ pending' = pending /\ chan' = chan /\ owed' = owed
      /\ exec[t].pc = "idle"
  BY DEF ExecuteBegins, sessVars, connVars
<1>3. /\ OnlyExec(t) /\ exec' \in [Tasks -> Exec] /\ exec'[t].pc = "decide"
      /\ exec'[t].turn = exec[t].turn /\ exec'[t].q = exec[t].q
      /\ exec'[t].load = exec[t].load /\ exec'[t].gone = exec[t].gone
  <2>1. PICK a : a = (stored[t] = "input-required")
    OBVIOUS
  <2>2. a \in BOOLEAN
    BY <2>1
  <2>3. exec \in [Tasks -> Exec] /\ exec[t] \in Exec
    BY <1>1 DEF LockInv, TypeOK
  <2>4. PICK r : r = [exec[t] EXCEPT !.pc = "decide", !.asked = a]
    OBVIOUS
  <2>5. /\ r \in Exec /\ r.pc = "decide" /\ r.turn = exec[t].turn /\ r.q = exec[t].q
        /\ r.load = exec[t].load /\ r.gone = exec[t].gone
    BY <2>2, <2>3, <2>4 DEF Exec
  <2>6. exec' = [exec EXCEPT ![t] = r]
    BY <2>1, <2>3, <2>4 DEF ExecuteBegins
  <2>. QED  BY <2>3, <2>5, <2>6 DEF OnlyExec
<1>4. /\ stored' \in [Tasks -> Stored] /\ \A u \in Tasks : u # t => stored'[u] = stored[u]
      /\ \/ stored[t] = "none" /\ stored'[t] = "submitted"
         \/ stored[t] = "input-required" /\ stored'[t] = "input-required"
  BY <1>1 DEF ExecuteBegins, Stored
<1>5. requests' \in [Tasks -> Nat] /\ \A u \in Tasks : requests'[u] <= setting.requests[u]
  <2>1. setting.requests \in [Tasks -> Nat]
    BY <1>1, TurnsAssumption DEF Setting
  <2>2. requests'[t] = requests[t] + 1 /\ requests[t] + 1 <= setting.requests[t]
    BY <1>1, <2>1 DEF ExecuteBegins
  <2>. QED  BY <1>1, <2>2 DEF ExecuteBegins
<1>6. Effect({})
  BY <1>1, <1>2, <1>3, HandsNone, NoTurn DEF Effect
<1>7. TypeOK'
  <2>1. ConnTypeOK'
    BY <1>1, <1>2 DEF LockInv, TypeOK, ConnTypeOK
  <2>. QED  BY <1>1, <1>2, <1>3, <1>4, <1>5, <2>1 DEF LockInv, TypeOK, Stored
<1>8. \A u \in Tasks : u # t => Rests(u)
  BY <1>2, <1>3, <1>4 DEF OnlyExec, Rests
<1>9. HolderBy(t) /\ SessionsStay /\ TurnIds' = TurnIds
  BY <1>2 DEF HolderBy, SessionsStay, TurnIds
<1>10. ~Starting(t)' /\ t \notin waiting
  BY <1>1, <1>2, <1>3 DEF Starting, ExecOK
<1>11. ~exec[t].gone
  BY <1>1, <1>4 DEF ExecOK, Terminal
<1>12. ExecOK(t)'
  BY <1>1, <1>2, <1>3, <1>9, <1>10, <1>11 DEF ExecOK, OnTurn
<1>13. ReportOK(t)'
  <2>1. CASE stored[t] = "none"
    BY <1>1, <1>2, <1>3, <1>4, <1>9, <2>1 DEF ReportOK, NoTurnOf
  <2>2. CASE stored[t] = "input-required"
    <3>1. \E i \in TurnIds' : turns'[i].task = t /\ WillReport(i)'
      BY <1>1, <1>2, <1>9, <2>2 DEF ReportOK, WillReport
    <3>. QED  BY <1>3, <1>4, <2>2, <3>1 DEF ReportOK
  <2>. QED  BY <1>4, <2>1, <2>2
<1>14. DrainOK'
  BY <1>1, <1>2, <1>6, DrainStays DEF Effect
<1>15. SessionsOK'
  <2>1. \A u \in Tasks : exec'[u].pc = "call" => exec[u].pc = "call"
    BY <1>3 DEF OnlyExec
  <2>. QED  BY <1>1, <1>2, <2>1, SessionsStayOK DEF LockInv, TypeOK, ConnTypeOK
<1>. QED  BY <1>2, <1>6, <1>7, <1>8, <1>9, <1>10, <1>12, <1>13, <1>14, <1>15, StepKeeps

\* Steps of Shutdown: exec changes in the contexts of starts only.
LEMMA ShutKeeps ==
    ASSUME Inv, Effect({}), UNCHANGED <<setting, shutVars>>, ConnTypeOK', nextID' = nextID,
           questions' \in Seq(Asked), exec' \in [Tasks -> Exec],
           \A u \in Tasks : \/ exec'[u] = exec[u]
                            \/ (u \in waiting /\ exec'[u] = [exec[u] EXCEPT !.ctx = "draining"]),
           shut' \in [draining : BOOLEAN, drained : BOOLEAN, closed : BOOLEAN,
                      pc : {"none", "wait", "close", "over"}],
           DrainOK'
    PROVE  Inv'
<1>1. LockInv /\ CalmTurns
  BY DEF Inv, Effect
<1>2. /\ setting' = setting /\ requests' = requests /\ cancel' = cancel /\ reader' = reader
      /\ stored' = stored /\ waiting' = waiting /\ holder' = holder /\ session' = session
      /\ known' = known /\ nextSession' = nextSession /\ abandoned' = abandoned
  BY DEF shutVars, reqVars, sessVars
<1>3. TypeOK'
  <2>1. turns' \in Seq(Turn) /\ Len(turns') <= MaxTurns
    BY <1>1 DEF CalmTurns, LockInv, TypeOK
  <2>. QED  BY <1>1, <1>2, <2>1 DEF LockInv, TypeOK, Asked
<1>4. ASSUME NEW u \in Tasks
      PROVE  /\ exec'[u].pc = exec[u].pc /\ exec'[u].turn = exec[u].turn /\ exec'[u].q = exec[u].q
             /\ exec'[u].proc = exec[u].proc /\ exec'[u].load = exec[u].load
             /\ exec'[u].gone = exec[u].gone
  <2>1. exec[u] \in Exec
    BY <1>1 DEF LockInv, TypeOK
  <2>. QED  BY <2>1 DEF Exec
<1>5. \A u \in Tasks : Rests(u)
  BY <1>2, <1>4 DEF Rests
<1>6. HolderBy(None) /\ SessionsStay /\ None \notin Tasks
  BY <1>2, Bounds DEF HolderBy, SessionsStay
<1>7. SessionsOK'
  BY <1>1, <1>2, <1>4, SessionsStayOK DEF LockInv, TypeOK, ConnTypeOK
<1>8. holder'[ContextOf[None]] = holder[ContextOf[None]]
  BY <1>2
<1>. QED  BY <1>2, <1>3, <1>5, <1>6, <1>7, <1>8, StepKeeps

LEMMA KeepsShutdown ==
    ASSUME Inv, Shutdown, setting' = setting
    PROVE  Inv'
<1>1. /\ LockInv /\ QuestionInv /\ questions \in Seq(Asked) /\ exec \in [Tasks -> Exec]
      /\ shut \in [draining : BOOLEAN, drained : BOOLEAN, closed : BOOLEAN,
                   pc : {"none", "wait", "close", "over"}]
  BY StoredType DEF Inv, LockInv, TypeOK
<1>2. /\ turns' = turns /\ questions' = questions /\ exec' = exec /\ reader' = reader
      /\ waiting' = waiting /\ nextID' = nextID
      /\ UNCHANGED <<setting, connVars, shutVars>>
  BY DEF Shutdown, shutVars, connVars
<1>3. PICK d : /\ d = (waiting = {} /\ \A i \in TurnIds : ~turns[i].registered)
               /\ shut' = [shut EXCEPT !.draining = TRUE, !.pc = "wait", !.drained = d]
  BY DEF Shutdown
<1>4. d \in BOOLEAN
  BY <1>3
<1>5. /\ shut' \in [draining : BOOLEAN, drained : BOOLEAN, closed : BOOLEAN,
                    pc : {"none", "wait", "close", "over"}]
      /\ shut'.draining /\ shut'.drained = d
  BY <1>1, <1>3, <1>4
<1>6. DrainOK'
  BY <1>2, <1>3, <1>5 DEF DrainOK, DrainedIsQuiet, TurnIds
<1>7. Effect({})
  BY <1>1, <1>2, HandsSame, NoTurn DEF Effect
<1>8. ConnTypeOK'
  BY <1>1, <1>2 DEF LockInv, TypeOK, ConnTypeOK, connVars
<1>. QED  BY <1>1, <1>2, <1>5, <1>6, <1>7, <1>8, ShutKeeps

LEMMA KeepsShutdownWaits ==
    ASSUME Inv, ShutdownWaits, setting' = setting
    PROVE  Inv'
<1>1. /\ LockInv /\ QuestionInv /\ questions \in Seq(Asked)
      /\ shut \in [draining : BOOLEAN, drained : BOOLEAN, closed : BOOLEAN,
                   pc : {"none", "wait", "close", "over"}]
  BY StoredType DEF Inv, LockInv, TypeOK
<1>2. waiting' = waiting /\ nextID' = nextID /\ UNCHANGED <<setting, connVars, shutVars>>
  BY DEF ShutdownWaits, shutVars, connVars
<1>3. questions' \in Seq(Asked)
  BY <1>1, RespondType DEF ShutdownWaits
<1>4. /\ shut' \in [draining : BOOLEAN, drained : BOOLEAN, closed : BOOLEAN,
                    pc : {"none", "wait", "close", "over"}]
      /\ shut'.draining = shut.draining /\ shut'.drained = shut.drained
  BY <1>1 DEF ShutdownWaits
<1>5. /\ Effect({}) /\ exec' \in [Tasks -> Exec]
      /\ \A u \in Tasks : \/ exec'[u] = exec[u]
                           \/ (u \in waiting /\ exec'[u] = [exec[u] EXCEPT !.ctx = "draining"])
  BY <1>1, DoesShutdownWaits
<1>6. DrainOK'
  <2>1. TurnIds' = TurnIds /\ \A i \in TurnIds : turns'[i].registered = turns[i].registered
    BY <1>5, CalmStays DEF Effect
  <2>. QED  BY <1>1, <1>2, <1>4, <2>1 DEF DrainOK, DrainedIsQuiet, LockInv
<1>7. ConnTypeOK'
  BY <1>1, <1>2 DEF LockInv, TypeOK, ConnTypeOK, connVars
<1>. QED  BY <1>2, <1>3, <1>4, <1>5, <1>6, <1>7, ShutKeeps

LEMMA KeepsClose ==
    ASSUME Inv, Close, setting' = setting
    PROVE  Inv'
<1>1. /\ LockInv /\ QuestionInv /\ questions \in Seq(Asked) /\ exec \in [Tasks -> Exec]
      /\ shut \in [draining : BOOLEAN, drained : BOOLEAN, closed : BOOLEAN,
                   pc : {"none", "wait", "close", "over"}]
      /\ ConnTypeOK
  BY StoredType DEF Inv, LockInv, TypeOK
<1>2. /\ turns' = turns /\ questions' = questions /\ exec' = exec /\ reader' = reader
      /\ waiting' = waiting /\ nextID' = nextID /\ UNCHANGED <<setting, shutVars>>
  BY DEF Close, shutVars
<1>3. /\ shut' \in [draining : BOOLEAN, drained : BOOLEAN, closed : BOOLEAN,
                    pc : {"none", "wait", "close", "over"}]
      /\ shut'.draining = shut.draining /\ shut'.drained = shut.drained
  BY <1>1 DEF Close
<1>4. DrainOK'
  BY <1>1, <1>2, <1>3 DEF DrainOK, DrainedIsQuiet, LockInv, TurnIds
<1>5. Effect({})
  BY <1>1, <1>2, HandsSame, NoTurn DEF Effect
<1>6. ConnTypeOK'
  BY <1>1 DEF Close, ConnTypeOK
<1>. QED  BY <1>1, <1>2, <1>3, <1>4, <1>5, <1>6, ShutKeeps

-----------------------------------------------------------------------------
(***************************************************************************)
(* The prompt goroutine keeps the invariant.                               *)
(***************************************************************************)
LEMMA PromptKeeps ==
    ASSUME Inv, NEW i \in TurnIds, PromptEffect(i), UNCHANGED <<setting, goVars>>, ConnTypeOK',
           nextID' >= nextID, stored' \in [Tasks -> Stored],
           \A u \in Tasks : stored'[u] = stored[u] \/ stored'[u] \in Terminal,
           abandoned \subseteq abandoned', abandoned' \subseteq 1..MaxTurns,
           \/ holder' = holder
           \/ /\ holder' = [holder EXCEPT ![ContextOf[turns[i].task]] = None]
              /\ ~turns'[i].registered,
           shut' \in [draining : BOOLEAN, drained : BOOLEAN, closed : BOOLEAN,
                      pc : {"none", "wait", "close", "over"}],
           DrainOK'
    PROVE  Inv'
<1>0. PICK a, b, t : a = turns[i] /\ b = turns'[i] /\ t = a.task
  OBVIOUS
<1>1. /\ LockInv /\ QuestionInv' /\ OneTurn(i) /\ Prompting(a, b) /\ TurnOK(i) /\ a \in Turn
      /\ (WillReport(i) => WillReport(i)') /\ Len(turns) \in Nat
  BY <1>0, TurnType DEF Inv, PromptEffect, LockInv, TypeOK
<1>2. /\ setting' = setting /\ exec' = exec /\ requests' = requests /\ cancel' = cancel
      /\ waiting' = waiting /\ session' = session /\ known' = known
      /\ nextSession' = nextSession /\ reader' = reader /\ questions' = questions
  BY DEF goVars, reqVars, sessVars
<1>3. t \in Tasks /\ ContextOf[t] \in Contexts /\ None \notin Tasks /\ a.registered
  BY <1>0, <1>1, Bounds DEF Turn, Prompting
<1>4. holder[ContextOf[t]] = t /\ ~Starting(t)
  BY <1>0, <1>1, <1>3 DEF TurnOK
<1>5. /\ turns' \in Seq(Turn) /\ Len(turns') = Len(turns) /\ TurnIds' = TurnIds /\ TurnsStay
      /\ \A j \in TurnIds : turns'[j].task = turns[j].task
  BY SMTT(30), <1>0, <1>1 DEF OneTurn, TurnIds, TurnsStay, Prompting
<1>6. holder' \in [Contexts -> Tasks \cup {None}]
  BY <1>1 DEF LockInv, TypeOK
<1>7. TypeOK'
  BY <1>1, <1>2, <1>5, <1>6 DEF LockInv, TypeOK, Stored
<1>8. \A u \in Tasks : Rests(u)
  BY <1>2 DEF Rests
<1>9. HolderBy(t) /\ SessionsStay
  <2>1. holder \in [Contexts -> Tasks \cup {None}]
    BY <1>1 DEF LockInv, TypeOK
  <2>. QED  BY <1>0, <1>2, <1>4, <2>1 DEF HolderBy, SessionsStay
<1>10. \A u \in Tasks : ExecOK(u)'
  BY <1>1, <1>4, <1>5, <1>8, <1>9, ExecStays
<1>11. ASSUME NEW j \in TurnIds, turns'[j].registered  PROVE turns[j].registered
  BY <1>0, <1>1, <1>3, <1>11 DEF OneTurn
<1>12. ASSUME NEW j \in TurnIds  PROVE TurnOK(j)'
  <2>0. PICK c, d : c = turns[j] /\ d = turns'[j]
    OBVIOUS
  <2>1. TurnOK(j) /\ c \in Turn /\ d.task = c.task /\ c.task \in Tasks
    BY <1>1, <1>5, <2>0, TurnType DEF LockInv, TypeOK, Turn
  <2>2. /\ d.registered <=> d.prompt # "done"
        /\ d.ended <=> d.prompt \in {"ended", "reported", "done"}
        /\ d.prompt \in {"responded", "ended", "reported"} => d.result \in Terminal /\ d.report \in Terminal
    <3>1. CASE j = i
      BY <1>0, <1>1, <2>0, <3>1 DEF Prompting
    <3>2. CASE j # i
      <4>1. d = c
        BY <1>1, <2>0, <3>2 DEF OneTurn
      <4>. QED  BY <2>0, <2>1, <4>1 DEF TurnOK
    <3>. QED  BY <3>1, <3>2
  <2>3. d.registered => holder'[ContextOf[d.task]] = d.task /\ exec'[d.task] = exec[d.task] /\ ~Starting(c.task)
    <3>1. SUFFICES ASSUME d.registered
                   PROVE  holder'[ContextOf[d.task]] = d.task /\ ~Starting(c.task)
      BY <1>2
    <3>2. c.registered /\ holder[ContextOf[c.task]] = c.task /\ ~Starting(c.task)
      BY <1>11, <2>0, <2>1, <3>1 DEF TurnOK
    <3>3. CASE holder' = holder
      BY <2>1, <3>2, <3>3
    <3>4. CASE holder' = [holder EXCEPT ![ContextOf[t]] = None] /\ ~b.registered
      <4>1. j # i
        BY <1>0, <2>0, <3>1, <3>4
      <4>2. c.task # t
        BY <1>0, <1>1, <1>3, <2>0, <3>2, <4>1 DEF TurnOK
      <4>3. ContextOf[c.task] # ContextOf[t]
        BY <1>4, <3>2, <4>2
      <4>. QED  BY <2>1, <3>2, <3>4, <4>3
    <3>. QED  BY <1>0, <3>3, <3>4
  <2>4. d.registered => \A k \in TurnIds' : turns'[k].registered /\ turns'[k].task = d.task => k = j
    BY <1>5, <1>11, <2>0, <2>1 DEF TurnOK
  <2>. QED  BY <1>2, <2>0, <2>1, <2>2, <2>3, <2>4 DEF TurnOK, Starting
<1>13. SessionsOK'
  BY <1>1, <1>2, <1>7, SessionsStayOK DEF TypeOK, ConnTypeOK
<1>14. LockInv'
  BY <1>5, <1>7, <1>10, <1>12, <1>13 DEF LockInv
<1>15. ASSUME NEW u \in Tasks  PROVE ReportOK(u)'
  <2>1. ReportStays(u)
    <3>1. ASSUME NEW j \in TurnIds, WillReport(j)  PROVE WillReport(j)'
      <4>1. CASE j = i
        BY <1>1, <3>1, <4>1
      <4>2. CASE j # i
        BY <1>1, <3>1, <4>2 DEF OneTurn, WillReport
      <4>. QED  BY <4>1, <4>2
    <3>. QED  BY <1>5, <3>1 DEF ReportStays, TurnIds
  <2>2. exec[u].pc = "pausing" => exec[u].turn \in TurnIds /\ turns[exec[u].turn].task = u
    BY <1>1 DEF LockInv, ExecOK, OnTurn
  <2>. QED  BY <1>1, <1>2, <1>5, <2>1, <2>2, ReportRests DEF Inv, ReportInv
<1>. QED  BY <1>1, <1>14, <1>15 DEF Inv, ReportInv

LEMMA ReturnsType ==
    ASSUME ConnTypeOK, NEW id, CallOver(id)
    PROVE  ConnTypeOK' /\ nextID' = nextID /\ nextID \in Nat /\ nextID' >= nextID
<1>1. /\ conn' = conn /\ nextID' = nextID /\ owed' = owed /\ pending' = pending \ {id}
      /\ chan' = [chan EXCEPT ![id] = "empty"]
  BY DEF CallOver
<1>2. chan' \in [Calls -> Responses \cup {"empty"}]
  BY <1>1 DEF ConnTypeOK
<1>3. nextID \in Nat
  BY Bounds DEF ConnTypeOK
<1>. QED  BY <1>1, <1>2, <1>3 DEF ConnTypeOK

LEMMA KeepsPromptStep ==
    ASSUME Inv, NEW i \in TurnIds, PromptStep(i), setting' = setting
    PROVE  Inv'
<1>0. PICK t : t = turns[i].task
  OBVIOUS
<1>1. /\ LockInv /\ QuestionInv /\ stored \in [Tasks -> Stored] /\ TurnOK(i) /\ turns[i] \in Turn
      /\ shut \in [draining : BOOLEAN, drained : BOOLEAN, closed : BOOLEAN,
                   pc : {"none", "wait", "close", "over"}]
      /\ ConnTypeOK /\ abandoned \subseteq 1..MaxTurns
  BY StoredType, TurnType DEF Inv, LockInv, TypeOK
<1>2. \A u \in Tasks : stored[u] = stored[u] \/ stored[u] \in Terminal
  OBVIOUS
<1>3. ASSUME PromptEffect(i), UNCHANGED <<waiting, shut>>
      PROVE  DrainOK'
  <2>1. TurnIds' = TurnIds /\ \A j \in TurnIds : turns'[j].registered => turns[j].registered
    BY <1>3 DEF PromptEffect, OneTurn, Prompting, TurnIds
  <2>. QED  BY <1>1, <1>3, <2>1 DEF LockInv, DrainOK, DrainedIsQuiet
<1>4. CASE SendPrompt(i)
  <2>1. /\ UNCHANGED <<setting, goVars, stored, holder, abandoned, shut>>
        /\ \/ UNCHANGED connVars
           \/ Call(turns[i].proc) /\ conn' = conn
    BY <1>4 DEF SendPrompt
  <2>2. turns[i].proc \in Procs
    BY <1>1 DEF Turn
  <2>3. ConnTypeOK' /\ nextID' >= nextID
    <3>1. CASE UNCHANGED connVars
      BY <1>1, <3>1 DEF ConnTypeOK, connVars
    <3>2. CASE Call(turns[i].proc) /\ conn' = conn
      BY <1>1, <2>2, <3>2, Bounds DEF ConnTypeOK, Call, Calls
    <3>. QED  BY <2>1, <3>1, <3>2
  <2>4. PromptEffect(i)
    BY <1>1, <1>4, DoesSendPrompt
  <2>5. DrainOK'
    BY <1>3, <2>1, <2>4 DEF goVars
  <2>. QED  BY <1>1, <2>1, <2>3, <2>4, <2>5, PromptKeeps
<1>5. CASE PromptReturns(i)
  <2>1. UNCHANGED <<setting, goVars, stored, holder, abandoned, shut>> /\ CallOver(turns[i].call)
    BY <1>5 DEF PromptReturns
  <2>2. ConnTypeOK' /\ nextID' >= nextID
    BY <1>1, <2>1, ReturnsType
  <2>3. PromptEffect(i)
    BY <1>1, <1>5, DoesPromptReturns
  <2>4. DrainOK'
    BY <1>3, <2>1, <2>3 DEF goVars
  <2>. QED  BY <1>1, <2>1, <2>2, <2>3, <2>4, PromptKeeps
<1>6. ASSUME UNCHANGED connVars  PROVE ConnTypeOK' /\ nextID' >= nextID
  BY <1>1, <1>6 DEF ConnTypeOK, connVars
<1>7. CASE EndTurn(i)
  <2>1. UNCHANGED <<setting, goVars, stored, holder, abandoned, shut>> /\ UNCHANGED connVars
    BY <1>7 DEF EndTurn
  <2>2. PromptEffect(i)
    BY <1>1, <1>7, DoesEndTurn
  <2>3. DrainOK'
    BY <1>3, <2>1, <2>2 DEF goVars
  <2>. QED  BY <1>1, <1>6, <2>1, <2>2, <2>3, PromptKeeps
<1>8. CASE Abandon(i)
  <2>1. UNCHANGED <<setting, goVars, holder, shut>> /\ UNCHANGED connVars
    BY <1>8 DEF Abandon
  <2>2. PromptEffect(i)
    BY <1>1, <1>8, DoesAbandon
  <2>3. DrainOK'
    BY <1>3, <2>1, <2>2 DEF goVars
  <2>4. abandoned \subseteq abandoned' /\ abandoned' \subseteq 1..MaxTurns
    <3>1. i \in 1..MaxTurns
      <4>1. Len(turns) \in Nat /\ Len(turns) <= MaxTurns
        BY <1>1 DEF LockInv, TypeOK
      <4>. QED  BY <4>1, Bounds DEF TurnIds
    <3>. QED  BY <1>1, <1>8, <3>1 DEF Abandon
  <2>5. t \in Tasks /\ turns[i].report \in Terminal
    BY <1>0, <1>1, <1>8 DEF Turn, TurnOK, Abandon
  <2>6. /\ stored' \in [Tasks -> Stored]
        /\ \A u \in Tasks : stored'[u] = stored[u] \/ stored'[u] \in Terminal
    BY <1>0, <1>1, <1>8, <2>5 DEF Abandon, Stored
  <2>. QED  BY <1>1, <1>6, <2>1, <2>2, <2>3, <2>4, <2>6, PromptKeeps
<1>9. CASE Leave(i)
  <2>1. /\ UNCHANGED <<setting, goVars, stored, abandoned>> /\ UNCHANGED connVars
        /\ holder' = [holder EXCEPT ![ContextOf[turns[i].task]] = None]
        /\ waiting' = waiting
    BY <1>9 DEF Leave, goVars
  <2>2. PromptEffect(i) /\ ~turns'[i].registered
    BY <1>1, <1>9, DoesLeave
  <2>3. PICK d : /\ d = (shut.drained \/ (shut.draining /\ waiting = {}
                                            /\ \A j \in DOMAIN turns' : ~turns'[j].registered))
                 /\ shut' = [shut EXCEPT !.drained = d]
    BY <1>9 DEF Leave, checkDrained
  <2>4. /\ shut' \in [draining : BOOLEAN, drained : BOOLEAN, closed : BOOLEAN,
                      pc : {"none", "wait", "close", "over"}]
        /\ shut'.draining = shut.draining /\ shut'.drained = d
    <3>1. d \in BOOLEAN
      BY <1>1, <2>3
    <3>. QED  BY <1>1, <2>3, <3>1
  <2>5. DrainOK'
    <3>1. /\ TurnIds' = TurnIds /\ DOMAIN turns' = TurnIds
          /\ \A j \in TurnIds : turns'[j].registered => turns[j].registered
      <4>1. turns' \in Seq(Turn) /\ Len(turns') = Len(turns)
        BY <2>2 DEF PromptEffect, OneTurn
      <4>. QED  BY <2>2, <4>1 DEF PromptEffect, OneTurn, Prompting, TurnIds
    <3>2. shut.drained => shut.draining /\ waiting = {} /\ \A j \in TurnIds : ~turns[j].registered
      BY <1>1 DEF LockInv, DrainOK, DrainedIsQuiet
    <3>. QED  BY <2>1, <2>3, <2>4, <3>1, <3>2 DEF DrainOK, DrainedIsQuiet
  <2>. QED  BY <1>1, <1>6, <2>1, <2>2, <2>4, <2>5, PromptKeeps
<1>. QED  BY <1>4, <1>5, <1>7, <1>8, <1>9 DEF PromptStep

-----------------------------------------------------------------------------
(***************************************************************************)
(* Starting a turn keeps the invariant.                                    *)
(***************************************************************************)
ShutType == [draining : BOOLEAN, drained : BOOLEAN, closed : BOOLEAN,
             pc : {"none", "wait", "close", "over"}]

NoneRegistered == \A i \in TurnIds : ~turns[i].registered

\* Task t goes on starting its turn, or gives it up and ends.
StartStep(t) ==
    /\ OnlyExec(t) /\ exec' \in [Tasks -> Exec] /\ exec'[t].pc \in StartPoints \cup {"idle"}
    /\ stored' \in [Tasks -> Stored] /\ \A u \in Tasks : u # t => stored'[u] = stored[u]
    /\ \/ stored'[t] \in Terminal
       \/ stored' = stored /\ exec'[t].pc # "idle" /\ exec'[t].gone = exec[t].gone
    /\ waiting' \subseteq Tasks /\ \A u \in Tasks : u # t => (u \in waiting' <=> u \in waiting)
    /\ t \in waiting' <=> exec'[t].pc \in StartPoints
    /\ waiting' \subseteq waiting \/ ~shut.draining
    /\ holder' \in [Contexts -> Tasks \cup {None}] /\ HolderBy(t)
    /\ holder'[ContextOf[t]] = holder[ContextOf[t]] \/ Starting(t) \/ holder[ContextOf[t]] = None
    /\ Starting(t)' => /\ holder'[ContextOf[t]] = t
                       /\ Starting(t) \/ holder[ContextOf[t]] = None
    /\ shut' \in ShutType /\ shut'.draining = shut.draining
    /\ shut'.drained => shut.drained \/ (shut.draining /\ waiting' = {} /\ NoneRegistered)

LEMMA StartKeeps ==
    ASSUME Inv, NEW t \in Tasks, exec[t].pc \in StartPoints \cup {"start"}, StartStep(t),
           UNCHANGED <<setting, reqVars, turns, reader, questions, abandoned>>, ConnTypeOK',
           session' \in [Contexts -> 0..MaxCalls], known' \in [Procs -> SUBSET (1..MaxCalls)],
           nextSession' \in 1..MaxCalls + 1, SessionsStay,
           exec'[t].pc \in {"session", "call", "register"} => exec'[t].proc \in Procs,
           exec'[t].load \/ exec'[t].pc = "register" => session'[ContextOf[t]] # 0,
           SessionsOK'
    PROVE  Inv'
<1>1. LockInv /\ QuestionInv /\ ReportOK(t) /\ ExecOK(t)
  BY DEF Inv, LockInv, ReportInv
<1>2. /\ setting' = setting /\ requests' = requests /\ cancel' = cancel /\ turns' = turns
      /\ reader' = reader /\ questions' = questions /\ abandoned' = abandoned
      /\ TurnIds' = TurnIds
  BY DEF reqVars, TurnIds
<1>3. OnlyExec(t) /\ exec'[t].pc \in StartPoints \cup {"idle"}
  BY DEF StartStep
<1>4. exec'[t].pc \notin OnTurn \cup {"decide"}
  BY <1>3 DEF StartPoints, OnTurn
<1>5. Effect({})
  <2>1. HandsLess({})
    BY <1>3, <1>4, HandsNone DEF OnTurn
  <2>. QED  BY <1>1, <1>2, <2>1, NoTurn DEF Effect
<1>6. TypeOK'
  <2>1. exec' \in [Tasks -> Exec] /\ stored' \in [Tasks -> Stored] /\ waiting' \subseteq Tasks
        /\ holder' \in [Contexts -> Tasks \cup {None}] /\ shut' \in ShutType
    BY DEF StartStep
  <2>. QED  BY <1>1, <1>2, <2>1 DEF LockInv, TypeOK, Stored, ShutType
<1>7. \A u \in Tasks : u # t => Rests(u)
  BY <1>2, <1>3 DEF StartStep, OnlyExec, Rests
<1>8. ~Starting(t) \/ \A i \in TurnIds : turns[i].registered => turns[i].task # t
  BY <1>1 DEF LockInv, TurnOK
<1>9. holder[ContextOf[t]] = None => \A i \in TurnIds : turns[i].registered => turns[i].task # t
  BY <1>1, Bounds DEF LockInv, TurnOK
<1>10. holder'[ContextOf[t]] = holder[ContextOf[t]]
         \/ \A i \in TurnIds : turns[i].registered => turns[i].task # t
  BY <1>8, <1>9 DEF StartStep
<1>11. ExecOK(t)'
  <2>1. PICK f, c : f = exec'[t] /\ c = cancel[t]
    OBVIOUS
  <2>2. Starting(t)' <=> f.pc \in {"acquire", "session", "call", "register"}
    BY <2>1 DEF Starting
  <2>3. t \in waiting' <=> f.pc = "lock" \/ Starting(t)'
    BY <2>1, <2>2 DEF StartStep, StartPoints
  <2>4. Starting(t)' => holder'[ContextOf[t]] = t
    BY DEF StartStep
  <2>5. f.pc \notin OnTurn /\ f.pc \notin {"answer", "take", "interrupt"}
    BY <1>4, <2>1 DEF OnTurn
  <2>6. f.gone => stored'[t] \in Terminal
    BY <1>1, <2>1 DEF StartStep, ExecOK
  <2>7. c.turn # 0 => c.turn \in TurnIds' /\ turns'[c.turn].task = t
    BY <1>1, <1>2, <2>1 DEF ExecOK
  <2>. QED  BY <1>2, <2>1, <2>3, <2>4, <2>5, <2>6, <2>7 DEF ExecOK
<1>12. ReportOK(t)'
  <2>1. stored[t] # "none"
    BY <1>1 DEF ReportOK, StartPoints
  <2>2. PICK f, s : f = exec'[t] /\ s = stored'[t]
    OBVIOUS
  <2>3. f.pc \notin {"decide", "pausing"} /\ s # "none" /\ (f.pc = "idle" => s \in Terminal)
    BY <1>4, <2>1, <2>2 DEF StartStep, OnTurn, Terminal
  <2>. QED  BY <2>2, <2>3 DEF ReportOK, Terminal
<1>13. DrainOK'
  <2>1. shut.drained => shut.draining /\ waiting = {} /\ NoneRegistered
    BY <1>1 DEF LockInv, DrainOK, DrainedIsQuiet, NoneRegistered
  <2>. QED  BY <1>2, <2>1 DEF StartStep, DrainOK, DrainedIsQuiet, NoneRegistered
<1>14. t \in Tasks /\ Starting(t)' => Starting(t) \/ holder[ContextOf[t]] = None
  BY DEF StartStep
<1>15. HolderBy(t)
  BY DEF StartStep
<1>16. abandoned \subseteq abandoned' /\ \A i \in TurnIds : i \in {} => turns[i].task = t
  BY <1>2
<1>. QED  BY <1>5, <1>6, <1>7, <1>10, <1>11, <1>12, <1>13, <1>14, <1>15, <1>16, StepKeeps

\* The start fails, with the lock or without.
LEMMA FailedStart ==
    ASSUME LockInv, NEW t \in Tasks, NEW locked \in BOOLEAN, locked => Starting(t),
           StartFails(t, locked)
    PROVE  StartStep(t) /\ exec'[t] = NoExec
<1>1. /\ exec \in [Tasks -> Exec] /\ holder \in [Contexts -> Tasks \cup {None}]
      /\ waiting \subseteq Tasks /\ shut \in ShutType /\ ContextOf[t] \in Contexts /\ ExecOK(t)
      /\ Len(turns) \in Nat
  BY Bounds DEF LockInv, TypeOK, ShutType
<1>2. PICK state \in {"canceled", "failed"} : Finish(t, state)
  BY DEF StartFails
<1>3. state \in Stored /\ state \in Terminal
  BY DEF Stored, Terminal
<1>4. Yield(t, state) /\ exec' = [exec EXCEPT ![t] = NoExec]
  BY <1>2 DEF Finish
<1>5. OnlyExec(t) /\ exec'[t] = NoExec
  BY <1>4, FinishExec
<1>6. exec' \in [Tasks -> Exec]
  <2>1. NoExec \in Exec
    BY Bounds DEF NoExec, Exec
  <2>. QED  BY <1>1, <1>4, <2>1
<1>7. /\ stored' \in [Tasks -> Stored] /\ \A u \in Tasks : u # t => stored'[u] = stored[u]
      /\ stored'[t] \in Terminal
  BY <1>3, <1>4, Yields
<1>8. waiting' = waiting \ {t}
  BY DEF StartFails
<1>9. exec'[t].pc = "idle"
  BY <1>5 DEF NoExec
<1>10. holder' \in [Contexts -> Tasks \cup {None}] /\ HolderBy(t)
       /\ (holder'[ContextOf[t]] = holder[ContextOf[t]] \/ Starting(t))
  <2>1. CASE locked
    <3>1. holder' = [holder EXCEPT ![ContextOf[t]] = None] /\ holder[ContextOf[t]] = t /\ Starting(t)
      BY <1>1, <2>1 DEF StartFails, ExecOK
    <3>. QED  BY <1>1, <3>1 DEF HolderBy
  <2>2. CASE ~locked
    <3>1. holder' = holder
      BY <2>2 DEF StartFails
    <3>. QED  BY <1>1, <3>1 DEF HolderBy
  <2>. QED  BY <2>1, <2>2
<1>11. /\ shut' \in ShutType /\ shut'.draining = shut.draining
       /\ shut'.drained => shut.drained \/ (shut.draining /\ waiting' = {} /\ NoneRegistered)
  <2>1. DOMAIN turns = TurnIds
    BY <1>1 DEF LockInv, TypeOK, TurnIds
  <2>2. PICK d : /\ d = (shut.drained \/ (shut.draining /\ waiting \ {t} = {} /\ NoneRegistered))
                 /\ shut' = [shut EXCEPT !.drained = d]
    BY <2>1 DEF StartFails, checkDrained, NoneRegistered
  <2>3. d \in BOOLEAN
    BY <1>1, <2>2 DEF ShutType
  <2>. QED  BY <1>1, <1>8, <2>2, <2>3 DEF ShutType
<1>12. ~Starting(t)' /\ exec'[t].pc \notin StartPoints
  BY <1>9 DEF Starting, StartPoints
<1>. QED  BY <1>1, <1>5, <1>6, <1>7, <1>8, <1>9, <1>10, <1>11, <1>12 DEF StartStep

\* The start goes on, with the lock.
LEMMA MovedStart ==
    ASSUME LockInv, NEW t \in Tasks, Starting(t), OnlyExec(t), exec' \in [Tasks -> Exec],
           Starting(t)', exec'[t].gone = exec[t].gone, UNCHANGED <<stored, waiting, holder, shut>>
    PROVE  StartStep(t)
<1>1. /\ stored \in [Tasks -> Stored] /\ waiting \subseteq Tasks
      /\ holder \in [Contexts -> Tasks \cup {None}] /\ shut \in ShutType /\ ExecOK(t)
  BY StoredType DEF LockInv, TypeOK, ShutType
<1>2. exec'[t].pc \in StartPoints /\ exec'[t].pc # "idle"
  BY DEF Starting, StartPoints
<1>3. t \in waiting /\ holder[ContextOf[t]] = t
  BY <1>1 DEF ExecOK
<1>. QED  BY <1>1, <1>2, <1>3 DEF StartStep, HolderBy

LEMMA ExitedStart ==
    ASSUME LockInv, NEW t \in Tasks, Starting(t), AgentExited(t)
    PROVE  /\ StartStep(t) /\ exec'[t].pc \in {"idle", "acquire"}
           /\ exec'[t].load => exec[t].load
<1>1. CASE exec[t].again
  <2>1. StartFails(t, TRUE)
    BY <1>1 DEF AgentExited
  <2>2. StartStep(t) /\ exec'[t] = NoExec
    BY <2>1, FailedStart
  <2>. QED  BY <2>2 DEF NoExec
<1>2. CASE ~exec[t].again
  <2>1. PICK r : r = [exec[t] EXCEPT !.pc = "acquire", !.again = TRUE, !.proc = 0, !.call = 0]
    OBVIOUS
  <2>2. exec \in [Tasks -> Exec] /\ exec[t] \in Exec
    BY DEF LockInv, TypeOK
  <2>3. exec' = [exec EXCEPT ![t] = r] /\ UNCHANGED <<stored, waiting, holder, shut>>
    BY <1>2, <2>1, <2>2 DEF AgentExited
  <2>4. r \in Exec /\ r.pc = "acquire" /\ r.gone = exec[t].gone /\ r.load = exec[t].load
    BY <2>1, <2>2, Bounds DEF Exec
  <2>5. OnlyExec(t) /\ exec'[t] = r /\ exec' \in [Tasks -> Exec]
    BY <2>2, <2>3, <2>4 DEF OnlyExec
  <2>6. Starting(t)'
    BY <2>4, <2>5 DEF Starting
  <2>7. StartStep(t)
    BY <2>3, <2>4, <2>5, <2>6, MovedStart
  <2>. QED  BY <2>4, <2>5, <2>7
<1>. QED  BY <1>1, <1>2

LEMMA StartFrame ==
    ASSUME Inv, NEW t \in Tasks, StartStep(t), UNCHANGED sessVars, ConnTypeOK', nextID' >= nextID,
           exec'[t].pc # "call"
    PROVE  /\ session' \in [Contexts -> 0..MaxCalls] /\ known' \in [Procs -> SUBSET (1..MaxCalls)]
           /\ nextSession' \in 1..MaxCalls + 1 /\ SessionsStay /\ SessionsOK'
<1>1. LockInv /\ TypeOK
  BY DEF Inv, LockInv
<1>2. session' = session /\ known' = known /\ nextSession' = nextSession
  BY DEF sessVars
<1>3. \A u \in Tasks : exec'[u].pc = "call" => exec[u].pc = "call"
  BY DEF StartStep, OnlyExec
<1>4. SessionsOK'
  BY <1>1, <1>2, <1>3, SessionsStayOK, Bounds DEF ConnTypeOK
<1>. QED  BY <1>1, <1>2, <1>4 DEF TypeOK, SessionsStay

LEMMA ConnSame ==
    ASSUME LockInv, UNCHANGED connVars
    PROVE  ConnTypeOK' /\ nextID' >= nextID
<1>1. ConnTypeOK /\ nextID \in Nat
  BY Bounds DEF LockInv, TypeOK, ConnTypeOK
<1>. QED  BY <1>1 DEF ConnTypeOK, connVars

LEMMA KeepsStartTurn ==
    ASSUME Inv, NEW t \in Tasks, StartTurn(t), setting' = setting
    PROVE  Inv'
<1>1. LockInv /\ TypeOK /\ ExecOK(t)
  BY DEF Inv, LockInv
<1>2. /\ UNCHANGED <<setting, reqVars, turns, reader, questions, abandoned>>
      /\ UNCHANGED connVars /\ UNCHANGED sessVars /\ holder' = holder /\ shut' = shut
      /\ exec[t].pc = "start"
  BY DEF StartTurn
<1>3. ConnTypeOK' /\ nextID' >= nextID
  BY <1>1, <1>2, ConnSame
<1>4. ~Starting(t) /\ t \notin waiting
  BY <1>1, <1>2 DEF Starting, ExecOK
<1>5. HolderBy(t) /\ shut' \in ShutType /\ holder' \in [Contexts -> Tasks \cup {None}]
      /\ (shut'.drained => shut.drained)
  BY <1>1, <1>2 DEF HolderBy, ShutType, TypeOK
<1>6. StartStep(t) /\ exec'[t].pc \in {"idle", "lock"} /\ (exec'[t].load => exec[t].load)
  <2>1. CASE shut.draining
    <3>1. Finish(t, "failed") /\ waiting' = waiting
      BY <2>1 DEF StartTurn
    <3>2. Yield(t, "failed") /\ exec' = [exec EXCEPT ![t] = NoExec]
      BY <3>1 DEF Finish
    <3>3. OnlyExec(t) /\ exec'[t] = NoExec
      BY <1>1, <3>2, FinishExec
    <3>4. exec' \in [Tasks -> Exec]
      <4>1. NoExec \in Exec
        BY Bounds DEF NoExec, Exec
      <4>. QED  BY <1>1, <3>2, <4>1 DEF TypeOK
    <3>5. /\ stored' \in [Tasks -> Stored] /\ \A u \in Tasks : u # t => stored'[u] = stored[u]
          /\ stored'[t] \in Terminal
      <4>1. "failed" \in Stored /\ "failed" \in Terminal
        BY DEF Stored, Terminal
      <4>. QED  BY <1>1, <3>2, <4>1, Yields
    <3>6. exec'[t].pc = "idle" /\ exec'[t].load = FALSE
      BY <3>3 DEF NoExec
    <3>7. ~Starting(t)' /\ exec'[t].pc \notin StartPoints
      BY <3>6 DEF Starting, StartPoints
    <3>8. waiting' \subseteq Tasks
      BY <1>1, <3>1 DEF TypeOK
    <3>9. StartStep(t)
      BY <1>2, <1>4, <1>5, <3>1, <3>3, <3>4, <3>5, <3>6, <3>7, <3>8 DEF StartStep
    <3>. QED  BY <3>6, <3>9
  <2>2. CASE ~shut.draining
    <3>1. waiting' = waiting \cup {t} /\ Goto(t, "lock") /\ stored' = stored
      BY <2>2 DEF StartTurn
    <3>2. /\ OnlyExec(t) /\ exec' \in [Tasks -> Exec] /\ exec'[t].pc = "lock"
          /\ exec'[t].load = exec[t].load /\ exec'[t].gone = exec[t].gone
      BY <1>1, <3>1, Going DEF Points, StartPoints
    <3>3. ~Starting(t)' /\ exec'[t].pc \in StartPoints /\ exec'[t].pc # "idle"
      BY <3>2 DEF Starting, StartPoints
    <3>4. waiting' \subseteq Tasks /\ stored' \in [Tasks -> Stored]
      BY <1>1, <3>1, StoredType DEF TypeOK
    <3>5. StartStep(t)
      BY <1>2, <1>5, <2>2, <3>1, <3>2, <3>3, <3>4 DEF StartStep
    <3>. QED  BY <3>2, <3>5
  <2>. QED  BY <2>1, <2>2
<1>7. /\ session' \in [Contexts -> 0..MaxCalls] /\ known' \in [Procs -> SUBSET (1..MaxCalls)]
      /\ nextSession' \in 1..MaxCalls + 1 /\ SessionsStay /\ SessionsOK'
  BY <1>2, <1>3, <1>6, StartFrame
<1>8. exec'[t].load => session'[ContextOf[t]] # 0
  BY <1>1, <1>2, <1>6 DEF ExecOK, sessVars
<1>9. exec[t].pc \in StartPoints \cup {"start"} /\ exec'[t].pc \notin {"session", "call", "register"}
  BY <1>2, <1>6
<1>. QED  BY <1>2, <1>3, <1>6, <1>7, <1>8, <1>9, StartKeeps

LEMMA KeepsLockContext ==
    ASSUME Inv, NEW t \in Tasks, LockContext(t), setting' = setting
    PROVE  Inv'
<1>1. LockInv /\ TypeOK /\ ExecOK(t)
  BY DEF Inv, LockInv
<1>2. /\ UNCHANGED <<setting, reqVars, turns, reader, questions, abandoned>>
      /\ UNCHANGED connVars /\ UNCHANGED sessVars /\ exec[t].pc = "lock"
  BY DEF LockContext
<1>3. ConnTypeOK' /\ nextID' >= nextID
  BY <1>1, <1>2, ConnSame
<1>4. StartStep(t) /\ exec'[t].pc \in {"idle", "acquire"} /\ (exec'[t].load => exec[t].load)
  <2>1. CASE StartFails(t, FALSE)
    <3>1. StartStep(t) /\ exec'[t] = NoExec
      BY <1>1, <2>1, FailedStart
    <3>. QED  BY <3>1 DEF NoExec
  <2>2. CASE /\ holder[ContextOf[t]] = None
             /\ holder' = [holder EXCEPT ![ContextOf[t]] = t]
             /\ Goto(t, "acquire")
             /\ UNCHANGED <<stored, waiting, shut>>
    <3>1. /\ OnlyExec(t) /\ exec' \in [Tasks -> Exec] /\ exec'[t].pc = "acquire"
          /\ exec'[t].load = exec[t].load /\ exec'[t].gone = exec[t].gone
      BY <1>1, <2>2, Going DEF Points, StartPoints
    <3>2. exec'[t].pc \in StartPoints /\ exec'[t].pc # "idle"
      BY <3>1 DEF StartPoints
    <3>3. /\ holder' \in [Contexts -> Tasks \cup {None}] /\ HolderBy(t)
          /\ holder'[ContextOf[t]] = t /\ holder[ContextOf[t]] = None
      <4>1. holder \in [Contexts -> Tasks \cup {None}] /\ ContextOf[t] \in Contexts
        BY <1>1, Bounds DEF TypeOK
      <4>. QED  BY <2>2, <4>1 DEF HolderBy
    <3>4. waiting \subseteq Tasks /\ stored \in [Tasks -> Stored] /\ shut \in ShutType /\ t \in waiting
      BY <1>1, <1>2, StoredType DEF TypeOK, ShutType, ExecOK
    <3>5. StartStep(t)
      BY <2>2, <3>1, <3>2, <3>3, <3>4 DEF StartStep
    <3>. QED  BY <3>1, <3>5
  <2>. QED  BY <2>1, <2>2 DEF LockContext
<1>7. /\ session' \in [Contexts -> 0..MaxCalls] /\ known' \in [Procs -> SUBSET (1..MaxCalls)]
      /\ nextSession' \in 1..MaxCalls + 1 /\ SessionsStay /\ SessionsOK'
  BY <1>2, <1>3, <1>4, StartFrame
<1>8. exec'[t].load => session'[ContextOf[t]] # 0
  BY <1>1, <1>2, <1>4 DEF ExecOK, sessVars
<1>9. exec[t].pc \in StartPoints \cup {"start"} /\ exec'[t].pc \notin {"session", "call", "register"}
  BY <1>2, <1>4 DEF StartPoints
<1>. QED  BY <1>2, <1>3, <1>4, <1>7, <1>8, <1>9, StartKeeps

LEMMA KeepsAcquireAgent ==
    ASSUME Inv, NEW t \in Tasks, AcquireAgent(t), setting' = setting
    PROVE  Inv'
<1>1. LockInv /\ TypeOK /\ ExecOK(t)
  BY DEF Inv, LockInv
<1>2. /\ UNCHANGED <<setting, reqVars, turns, reader, questions, abandoned>>
      /\ UNCHANGED sessVars /\ exec[t].pc = "acquire" /\ nextID' = nextID
      /\ pending' = pending /\ chan' = chan /\ owed' = owed
  BY DEF AcquireAgent
<1>3. Starting(t)
  BY <1>2 DEF Starting
<1>4. nextID \in Nat
  BY <1>1, Bounds DEF TypeOK, ConnTypeOK
<1>5. /\ StartStep(t) /\ exec'[t].pc \in {"idle", "session"} /\ ConnTypeOK'
      /\ exec'[t].pc = "session" => exec'[t].proc \in Procs
      /\ exec'[t].load => session[ContextOf[t]] # 0
  <2>1. CASE StartFails(t, TRUE) /\ conn' = conn
    <3>1. StartStep(t) /\ exec'[t] = NoExec
      BY <1>1, <1>3, <2>1, FailedStart
    <3>2. ConnTypeOK'
      BY <1>1, <1>2, <2>1 DEF TypeOK, ConnTypeOK
    <3>. QED  BY <3>1, <3>2 DEF NoExec
  <2>2. ASSUME NEW p \in Procs, conn' = conn \/ NewConn(p),
               exec' = [exec EXCEPT ![t].pc = "session", ![t].proc = p,
                              ![t].load = setting.canLoad /\ session[ContextOf[t]] # 0],
               UNCHANGED <<stored, waiting, holder, shut>>
        PROVE  /\ StartStep(t) /\ exec'[t].pc = "session" /\ ConnTypeOK'
               /\ exec'[t].proc \in Procs
               /\ exec'[t].load => session[ContextOf[t]] # 0
    <3>0. PICK l : l = (setting.canLoad /\ session[ContextOf[t]] # 0)
      OBVIOUS
    <3>1. l \in BOOLEAN /\ (l => session[ContextOf[t]] # 0)
      BY <3>0
    <3>2. PICK r : r = [exec[t] EXCEPT !.pc = "session", !.proc = p, !.load = l]
      OBVIOUS
    <3>3. exec \in [Tasks -> Exec] /\ exec[t] \in Exec /\ p \in 0..MaxProcs
      BY <1>1, Bounds DEF TypeOK, Procs
    <3>4. exec' = [exec EXCEPT ![t] = r]
      BY <2>2, <3>0, <3>2, <3>3
    <3>5. r \in Exec /\ r.pc = "session" /\ r.proc = p /\ r.load = l /\ r.gone = exec[t].gone
      BY <3>1, <3>2, <3>3 DEF Exec
    <3>6. OnlyExec(t) /\ exec'[t] = r /\ exec' \in [Tasks -> Exec]
      BY <3>3, <3>4, <3>5 DEF OnlyExec
    <3>7. Starting(t)'
      BY <3>5, <3>6 DEF Starting
    <3>8. StartStep(t)
      BY <1>1, <1>3, <2>2, <3>5, <3>6, <3>7, MovedStart
    <3>9. ConnTypeOK'
      BY <1>1, <1>2, <2>2 DEF TypeOK, ConnTypeOK, NewConn
    <3>. QED  BY <3>1, <3>5, <3>6, <3>8, <3>9
  <2>. QED  BY <2>1, <2>2 DEF AcquireAgent
<1>6. /\ session' \in [Contexts -> 0..MaxCalls] /\ known' \in [Procs -> SUBSET (1..MaxCalls)]
      /\ nextSession' \in 1..MaxCalls + 1 /\ SessionsStay /\ SessionsOK'
  BY <1>2, <1>4, <1>5, StartFrame
<1>7. exec'[t].load => session'[ContextOf[t]] # 0
  BY <1>2, <1>5 DEF sessVars
<1>8. /\ exec[t].pc \in StartPoints \cup {"start"} /\ exec'[t].pc # "register"
      /\ exec'[t].pc \in {"session", "call", "register"} => exec'[t].proc \in Procs
  BY <1>2, <1>5 DEF StartPoints
<1>. QED  BY <1>2, <1>5, <1>6, <1>7, <1>8, StartKeeps

\* A task begins or ends a call of session.
LEMMA CallerEnds ==
    ASSUME LockInv, NEW t \in Tasks, OnlyExec(t), exec[t].pc = "call", exec'[t].pc # "call"
    PROVE  /\ IsFiniteSet(Callers') /\ Cardinality(Callers') \in Nat
           /\ nextSession + Cardinality(Callers') <= nextID
<1>1. PICK S, T : S = Callers /\ T = Callers'
  OBVIOUS
<1>2. IsFiniteSet(S) /\ nextSession + Cardinality(S) <= nextID + 1 /\ t \in S /\ T = S \ {t}
  BY <1>1 DEF LockInv, SessionsOK, Callers, OnlyExec
<1>3. Cardinality(S) \in Nat /\ Cardinality(T) = Cardinality(S) - 1 /\ IsFiniteSet(T)
      /\ Cardinality(T) \in Nat
  BY <1>2, FS_RemoveElement, FS_CardinalityType
<1>4. nextSession \in Int /\ nextID \in Int
  BY Bounds DEF LockInv, TypeOK, ConnTypeOK
<1>. QED  BY <1>1, <1>2, <1>3, <1>4

LEMMA CallerBegins ==
    ASSUME LockInv, NEW t \in Tasks, OnlyExec(t), exec[t].pc # "call", exec'[t].pc = "call",
           nextSession' = nextSession, nextID' = nextID + 1
    PROVE  SessionsOK'
<1>1. PICK S, T : S = Callers /\ T = Callers'
  OBVIOUS
<1>2. IsFiniteSet(S) /\ nextSession + Cardinality(S) <= nextID + 1 /\ t \notin S /\ T = S \cup {t}
  BY <1>1 DEF LockInv, SessionsOK, Callers, OnlyExec
<1>3. Cardinality(S) \in Nat /\ Cardinality(T) = Cardinality(S) + 1 /\ IsFiniteSet(T)
  BY <1>2, FS_AddElement, FS_CardinalityType
<1>4. nextSession \in Int /\ nextID \in Int
  BY Bounds DEF LockInv, TypeOK, ConnTypeOK
<1>. QED  BY <1>1, <1>2, <1>3, <1>4 DEF SessionsOK

LEMMA KeepsBeginSession ==
    ASSUME Inv, NEW t \in Tasks, BeginSession(t), setting' = setting
    PROVE  Inv'
<1>1. LockInv /\ TypeOK /\ ExecOK(t) /\ nextID \in Nat
  <2>1. LockInv /\ TypeOK /\ ExecOK(t)
    BY DEF Inv, LockInv
  <2>2. nextID \in 0..MaxCalls
    BY <2>1 DEF TypeOK, ConnTypeOK
  <2>. QED  BY <2>1, <2>2
<1>2. /\ UNCHANGED <<setting, reqVars, turns, reader, questions, abandoned>>
      /\ UNCHANGED sessVars /\ exec[t].pc = "session"
  BY DEF BeginSession
<1>3. Starting(t) /\ exec[t].proc \in Procs /\ (exec[t].load => session[ContextOf[t]] # 0)
  BY <1>1, <1>2 DEF Starting, ExecOK
<1>4. session' = session /\ nextSession' = nextSession /\ exec[t].pc \in StartPoints \cup {"start"}
  BY <1>2 DEF sessVars, StartPoints
<1>5. CASE /\ session[ContextOf[t]] \in known[exec[t].proc]
           /\ Goto(t, "register")
           /\ UNCHANGED <<connVars, stored, waiting, holder, shut>>
  <2>1. /\ OnlyExec(t) /\ exec' \in [Tasks -> Exec] /\ exec'[t].pc = "register"
        /\ exec'[t].proc = exec[t].proc
        /\ exec'[t].load = exec[t].load /\ exec'[t].gone = exec[t].gone
    BY <1>1, <1>5, Going DEF Points, StartPoints
  <2>2. Starting(t)'
    BY <2>1 DEF Starting
  <2>3. StartStep(t)
    BY <1>1, <1>3, <1>5, <2>1, <2>2, MovedStart
  <2>4. ConnTypeOK' /\ nextID' >= nextID
    BY <1>1, <1>5, ConnSame
  <2>5. session[ContextOf[t]] # 0
    <3>1. known[exec[t].proc] \subseteq 1..MaxCalls
      BY <1>1, <1>3 DEF TypeOK
    <3>. QED  BY <1>5, <3>1, Bounds
  <2>6. /\ session' \in [Contexts -> 0..MaxCalls] /\ known' \in [Procs -> SUBSET (1..MaxCalls)]
        /\ nextSession' \in 1..MaxCalls + 1 /\ SessionsStay /\ SessionsOK'
    BY <1>2, <2>1, <2>3, <2>4, StartFrame
  <2>. QED  BY <1>2, <1>3, <1>4, <2>1, <2>3, <2>4, <2>5, <2>6, StartKeeps
<1>6. CASE AgentExited(t) /\ UNCHANGED connVars
  <2>1. /\ StartStep(t) /\ exec'[t].pc \in {"idle", "acquire"}
        /\ exec'[t].load => exec[t].load
    BY <1>1, <1>3, <1>6, ExitedStart
  <2>2. ConnTypeOK' /\ nextID' >= nextID
    BY <1>1, <1>6, ConnSame
  <2>3. /\ session' \in [Contexts -> 0..MaxCalls] /\ known' \in [Procs -> SUBSET (1..MaxCalls)]
        /\ nextSession' \in 1..MaxCalls + 1 /\ SessionsStay /\ SessionsOK'
    BY <1>2, <2>1, <2>2, StartFrame
  <2>4. exec'[t].pc \notin {"session", "call", "register"}
    BY <2>1
  <2>. QED  BY <1>2, <1>3, <1>4, <2>1, <2>2, <2>3, <2>4, StartKeeps
<1>7. CASE /\ Call(exec[t].proc)
           /\ exec' = [exec EXCEPT ![t].pc = "call", ![t].call = nextID + 1]
           /\ UNCHANGED <<conn, stored, waiting, holder, shut>>
  <2>0. nextID' = nextID + 1 /\ nextID + 1 \in 1..MaxCalls /\ nextID + 1 \in 0..MaxCalls
    BY <1>1, <1>7, Bounds DEF Call
  <2>1. PICK r : r = [exec[t] EXCEPT !.pc = "call", !.call = nextID + 1]
    OBVIOUS
  <2>2. exec \in [Tasks -> Exec] /\ exec[t] \in Exec
    BY <1>1 DEF TypeOK
  <2>3. exec' = [exec EXCEPT ![t] = r]
    BY <1>7, <2>1, <2>2
  <2>4. /\ r \in Exec /\ r.pc = "call" /\ r.proc = exec[t].proc /\ r.load = exec[t].load
        /\ r.gone = exec[t].gone
    BY <2>0, <2>1, <2>2 DEF Exec
  <2>5. OnlyExec(t) /\ exec'[t] = r /\ exec' \in [Tasks -> Exec]
    BY <2>2, <2>3, <2>4 DEF OnlyExec
  <2>6. Starting(t)'
    BY <2>4, <2>5 DEF Starting
  <2>7. StartStep(t)
    BY <1>1, <1>3, <1>7, <2>4, <2>5, <2>6, MovedStart
  <2>8. ConnTypeOK'
    BY <1>1, <1>3, <1>7, <2>0 DEF TypeOK, ConnTypeOK, Call, Calls
  <2>9. SessionsOK'
    BY <1>1, <1>2, <1>4, <2>0, <2>4, <2>5, CallerBegins
  <2>10. /\ session' \in [Contexts -> 0..MaxCalls] /\ known' \in [Procs -> SUBSET (1..MaxCalls)]
         /\ nextSession' \in 1..MaxCalls + 1 /\ SessionsStay
    BY <1>1, <1>2 DEF TypeOK, sessVars, SessionsStay
  <2>. QED  BY <1>2, <1>3, <1>4, <2>4, <2>5, <2>7, <2>8, <2>9, <2>10, StartKeeps
<1>. QED  BY <1>5, <1>6, <1>7 DEF BeginSession

LEMMA KeepsEndSession ==
    ASSUME Inv, NEW t \in Tasks, EndSession(t), setting' = setting
    PROVE  Inv'
<1>1. LockInv /\ TypeOK /\ ConnTypeOK /\ ExecOK(t) /\ nextID \in 0..MaxCalls
      /\ nextSession \in 1..MaxCalls + 1 /\ ContextOf[t] \in Contexts
      /\ session \in [Contexts -> 0..MaxCalls] /\ known \in [Procs -> SUBSET (1..MaxCalls)]
  BY Bounds DEF Inv, LockInv, TypeOK, ConnTypeOK
<1>2. /\ UNCHANGED <<setting, reqVars, turns, reader, questions, abandoned>>
      /\ exec[t].pc = "call" /\ CallOver(exec[t].call)
  BY DEF EndSession
<1>3. Starting(t) /\ exec[t].proc \in Procs /\ (exec[t].load => session[ContextOf[t]] # 0)
      /\ exec[t].pc \in StartPoints \cup {"start"}
  BY <1>1, <1>2 DEF Starting, ExecOK, StartPoints
<1>4. ConnTypeOK' /\ nextID' = nextID /\ nextID \in Nat /\ nextID' >= nextID
  BY <1>1, <1>2, ReturnsType
<1>5. PICK s : s = IF exec[t].load THEN session[ContextOf[t]] ELSE nextSession
  OBVIOUS
<1>6. CASE /\ known' = [known EXCEPT ![exec[t].proc] = @ \cup {s}]
           /\ session' = [session EXCEPT ![ContextOf[t]] = s]
           /\ nextSession' = IF exec[t].load THEN nextSession ELSE nextSession + 1
           /\ Goto(t, "register")
           /\ UNCHANGED <<stored, waiting, holder, shut>>
  <2>1. /\ OnlyExec(t) /\ exec' \in [Tasks -> Exec] /\ exec'[t].pc = "register"
        /\ exec'[t].proc = exec[t].proc
        /\ exec'[t].load = exec[t].load /\ exec'[t].gone = exec[t].gone
    BY <1>1, <1>6, Going DEF Points, StartPoints
  <2>2. Starting(t)'
    BY <2>1 DEF Starting
  <2>3. StartStep(t)
    BY <1>1, <1>3, <1>6, <2>1, <2>2, MovedStart
  <2>4. /\ IsFiniteSet(Callers') /\ Cardinality(Callers') \in Nat
        /\ nextSession + Cardinality(Callers') <= nextID
    BY <1>1, <1>2, <2>1, CallerEnds
  <2>5. nextSession \in 1..MaxCalls
    BY <1>1, <2>4, Bounds
  <2>6. s \in 1..MaxCalls
    BY <1>1, <1>3, <1>5, <2>5, Bounds
  <2>7. nextSession' \in 1..MaxCalls + 1 /\ nextSession' <= nextSession + 1
    BY <1>6, <2>5, Bounds
  <2>8. SessionsOK'
    <3>1. PICK n : n = Cardinality(Callers')
      OBVIOUS
    <3>2. nextSession' + n <= nextID' + 1
      BY <1>4, <2>4, <2>5, <2>7, <3>1
    <3>. QED  BY <2>4, <3>1, <3>2 DEF SessionsOK
  <2>9. /\ session' \in [Contexts -> 0..MaxCalls] /\ known' \in [Procs -> SUBSET (1..MaxCalls)]
        /\ SessionsStay /\ session'[ContextOf[t]] # 0
    <3>1. s \in 0..MaxCalls /\ s # 0
      BY <2>6, Bounds
    <3>2. session' \in [Contexts -> 0..MaxCalls] /\ session'[ContextOf[t]] = s
      BY <1>1, <1>6, <3>1
    <3>3. known' \in [Procs -> SUBSET (1..MaxCalls)]
      BY <1>1, <1>3, <1>6, <2>6
    <3>4. ASSUME NEW c \in Contexts, session[c] # 0  PROVE session'[c] # 0
      BY <1>1, <1>6, <3>1, <3>4
    <3>. QED  BY <3>1, <3>2, <3>3, <3>4 DEF SessionsStay
  <2>. QED  BY <1>2, <1>3, <1>4, <2>1, <2>3, <2>7, <2>8, <2>9, StartKeeps
<1>7. CASE /\ UNCHANGED sessVars
           /\ IF exec[t].load
              THEN /\ exec' = [exec EXCEPT ![t].pc = "session", ![t].load = FALSE]
                   /\ UNCHANGED <<stored, waiting, holder, shut>>
              ELSE AgentExited(t) \/ StartFails(t, TRUE)
  <2>1. /\ StartStep(t) /\ exec'[t].pc \in {"idle", "acquire", "session"}
        /\ (exec'[t].load => exec[t].load) /\ (exec'[t].pc = "session" => exec'[t].proc \in Procs)
    <3>1. CASE exec[t].load
      <4>1. PICK r : r = [exec[t] EXCEPT !.pc = "session", !.load = FALSE]
        OBVIOUS
      <4>2. exec \in [Tasks -> Exec] /\ exec[t] \in Exec
        BY <1>1 DEF TypeOK
      <4>3. exec' = [exec EXCEPT ![t] = r]
        BY <1>7, <3>1, <4>1, <4>2
      <4>4. /\ r \in Exec /\ r.pc = "session" /\ r.proc = exec[t].proc /\ r.load = FALSE
            /\ r.gone = exec[t].gone
        BY <4>1, <4>2 DEF Exec
      <4>5. OnlyExec(t) /\ exec'[t] = r /\ exec' \in [Tasks -> Exec]
        BY <4>2, <4>3, <4>4 DEF OnlyExec
      <4>6. Starting(t)'
        BY <4>4, <4>5 DEF Starting
      <4>7. StartStep(t)
        BY <1>1, <1>3, <1>7, <3>1, <4>4, <4>5, <4>6, MovedStart
      <4>. QED  BY <1>3, <4>4, <4>5, <4>7
    <3>2. CASE AgentExited(t)
      BY <1>1, <1>3, <3>2, ExitedStart
    <3>3. CASE StartFails(t, TRUE)
      <4>1. StartStep(t) /\ exec'[t] = NoExec
        BY <1>1, <1>3, <3>3, FailedStart
      <4>. QED  BY <4>1 DEF NoExec
    <3>. QED  BY <1>7, <3>1, <3>2, <3>3
  <2>2. /\ session' \in [Contexts -> 0..MaxCalls] /\ known' \in [Procs -> SUBSET (1..MaxCalls)]
        /\ nextSession' \in 1..MaxCalls + 1 /\ SessionsStay /\ SessionsOK'
    BY <1>4, <1>7, <2>1, StartFrame
  <2>3. session' = session
    BY <1>7 DEF sessVars
  <2>4. /\ exec'[t].pc \in {"session", "call", "register"} => exec'[t].proc \in Procs
        /\ exec'[t].load \/ exec'[t].pc = "register" => session'[ContextOf[t]] # 0
    BY <1>3, <2>1, <2>3
  <2>. QED  BY <1>2, <1>3, <1>4, <2>1, <2>2, <2>4, StartKeeps
<1>. QED  BY <1>5, <1>6, <1>7 DEF EndSession

\* A turn is registered: the lock passes from the start to the turn.
LEMMA KeepsNewTurn ==
    ASSUME Inv, NEW t \in Tasks, exec[t].pc = "register", Len(turns) < MaxTurns,
           Cause(t) = "live", waiting' = waiting \ {t},
           turns' = Append(turns, newTurn(t, exec[t].proc, session[ContextOf[t]])),
           exec' = [exec EXCEPT ![t] = [NoExec EXCEPT !.pc = "working",
                                 !.turn = Len(turns) + 1, !.gone = exec[t].gone]],
           UNCHANGED <<setting, stored, holder, shut>>,
           UNCHANGED <<connVars, reqVars, sessVars, reader, questions, abandoned>>
    PROVE  Inv'
<1>1. LockInv /\ QuestionInv /\ TypeOK /\ ExecOK(t) /\ ReportOK(t) /\ turns \in Seq(Turn)
      /\ Len(turns) \in Nat /\ setting \in Settings /\ exec \in [Tasks -> Exec]
      /\ stored \in [Tasks -> Stored]
  <2>1. LockInv /\ QuestionInv /\ ReportInv
    BY DEF Inv
  <2>2. TypeOK /\ ExecOK(t) /\ ReportOK(t)
    BY <2>1 DEF LockInv, ReportInv
  <2>3. turns \in Seq(Turn) /\ setting \in Settings /\ exec \in [Tasks -> Exec]
    BY <2>2 DEF TypeOK
  <2>. QED  BY <2>1, <2>2, <2>3, StoredType
<1>2. /\ setting' = setting /\ stored' = stored /\ holder' = holder /\ shut' = shut
      /\ requests' = requests /\ cancel' = cancel /\ session' = session /\ known' = known
      /\ nextSession' = nextSession /\ reader' = reader /\ questions' = questions
      /\ abandoned' = abandoned
  BY DEF reqVars, sessVars
<1>3. Starting(t) /\ t \in waiting /\ holder[ContextOf[t]] = t /\ exec[t].proc \in Procs
      /\ session[ContextOf[t]] # 0
  BY <1>1 DEF Starting, ExecOK
<1>4. PICK tr, n : tr = newTurn(t, exec[t].proc, session[ContextOf[t]]) /\ n = Len(turns) + 1
  OBVIOUS
<1>5. /\ tr.task = t /\ tr.prompt = "new" /\ tr.registered /\ ~tr.ended
      /\ tr.pending = 0 /\ tr.events = <<>>
  BY <1>4 DEF newTurn
<1>6. tr \in Turn
  <2>1. session[ContextOf[t]] \in 1..MaxCalls
    <3>1. session[ContextOf[t]] \in 0..MaxCalls
      BY <1>1, Bounds DEF TypeOK
    <3>. QED  BY <1>3, <3>1, Bounds
  <2>2. setting.inactivity \in BOOLEAN
    BY <1>1, TurnsAssumption DEF Setting
  <2>3. <<>> \in Seq(Event)
    OBVIOUS
  <2>. QED  BY <1>3, <1>4, <2>1, <2>2, <2>3, Bounds DEF newTurn, Turn
<1>7. /\ turns' \in Seq(Turn) /\ Len(turns') = n /\ turns'[n] = tr
      /\ \A i \in TurnIds : turns'[i] = turns[i]
      /\ TurnIds' = TurnIds \cup {n} /\ n \notin TurnIds /\ n \in 1..MaxTurns
  <2>1. /\ turns' \in Seq(Turn) /\ Len(turns') = n /\ turns'[n] = tr
        /\ \A i \in TurnIds : turns'[i] = turns[i]
    BY <1>1, <1>4, <1>6 DEF TurnIds
  <2>2. TurnIds' = TurnIds \cup {n} /\ n \notin TurnIds
    BY <1>1, <1>4, <2>1 DEF TurnIds
  <2>3. n \in 1..MaxTurns
    BY <1>1, <1>4, Bounds
  <2>. QED  BY <2>1, <2>2, <2>3
<1>8. ~exec[t].gone
  BY DEF Cause
<1>9. PICK r : r = [NoExec EXCEPT !.pc = "working", !.turn = n, !.gone = FALSE]
  OBVIOUS
<1>10. r \in Exec /\ r.pc = "working" /\ r.turn = n /\ ~r.gone /\ ~r.load
  <2>1. n \in 0..MaxTurns
    BY <1>7
  <2>. QED  BY <1>9, <2>1, Bounds DEF NoExec, Exec
<1>11. exec' = [exec EXCEPT ![t] = r]
  <2>1. exec[t].gone = FALSE
    BY <1>1, <1>8 DEF Exec
  <2>. QED  BY <1>4, <1>9, <2>1
<1>12. OnlyExec(t) /\ exec'[t] = r /\ exec' \in [Tasks -> Exec] /\ exec'[t].pc = "working"
  BY <1>1, <1>10, <1>11 DEF OnlyExec
<1>13. ~Starting(t)'
  BY <1>12 DEF Starting
<1>14. QuestionInv'
  <2>1. HandsLess({}) /\ ReadersLess({})
    BY <1>2, <1>12, HandsNone DEF ReadersLess
  <2>2. NoQuestions(tr)
    BY <1>5 DEF NoQuestions
  <2>3. \A i \in TurnIds : Less(turns[i], turns[i], {})
    BY <1>1, UntouchedLess
  <2>4. \A i \in 1..Len(turns') : i \notin TurnIds => i = n
    BY <1>1, <1>4, <1>7 DEF TurnIds
  <2>5. TurnsLess({})
    <3>1. Len(turns') >= Len(turns)
      BY <1>1, <1>4, <1>7
    <3>2. \A i \in TurnIds :
              /\ Less(turns'[i], turns[i], {})
              /\ turns'[i].task = turns[i].task /\ turns'[i].proc = turns[i].proc
              /\ turns'[i].pending # 0 => turns'[i].ended = turns[i].ended
      BY <1>7, <2>3
    <3>3. \A i \in 1..Len(turns') : i \notin TurnIds => NoQuestions(turns'[i])
      BY <1>7, <2>2, <2>4
    <3>. QED  BY <1>7, <3>1, <3>2, <3>3 DEF TurnsLess
  <2>. QED  BY <1>1, <1>2, <2>1, <2>5, QuietStep
<1>15. ConnTypeOK' /\ nextID' >= nextID /\ nextID' \in Nat
  <2>1. ConnTypeOK' /\ nextID' >= nextID
    BY <1>1, ConnSame
  <2>. QED  BY <2>1, Bounds DEF ConnTypeOK
<1>16. TypeOK'
  <2>1. Len(turns') <= MaxTurns
    BY <1>7, Bounds
  <2>2. waiting' \subseteq Tasks
    BY <1>1 DEF TypeOK
  <2>. QED  BY <1>1, <1>2, <1>7, <1>12, <1>15, <2>1, <2>2 DEF TypeOK
<1>17. TurnsStay /\ HolderBy(t) /\ SessionsStay
  <2>1. Len(turns') >= Len(turns)
    BY <1>1, <1>4, <1>7
  <2>2. \A i \in TurnIds : turns'[i].task = turns[i].task
    BY <1>7
  <2>. QED  BY <1>2, <2>1, <2>2 DEF TurnsStay, HolderBy, SessionsStay
<1>18. \A u \in Tasks : u # t => Rests(u)
  BY <1>2, <1>12 DEF OnlyExec, Rests
<1>19. ASSUME NEW u \in Tasks, u # t  PROVE ExecOK(u)'
  BY <1>1, <1>17, <1>18, <1>19, ExecStays
<1>20. ExecOK(t)'
  <2>1. PICK c : c = cancel[t]
    OBVIOUS
  <2>2. c.turn # 0 => c.turn \in TurnIds' /\ turns'[c.turn].task = t
    BY <1>1, <1>7, <2>1 DEF ExecOK
  <2>3. /\ t \notin waiting' /\ n \in TurnIds' /\ turns'[n].task = t
    BY <1>5, <1>7
  <2>. QED  BY <1>2, <1>10, <1>12, <1>13, <2>1, <2>2, <2>3 DEF ExecOK
<1>21. ASSUME NEW i \in TurnIds'  PROVE TurnOK(i)'
  <2>1. CASE i = n
    <3>1. ASSUME NEW j \in TurnIds', turns'[j].registered, turns'[j].task = t  PROVE j = n
      <4>1. CASE j \in TurnIds
        <5>1. turns[j].registered /\ turns[j].task = t /\ TurnOK(j)
          BY <1>1, <1>7, <3>1, <4>1 DEF LockInv
        <5>. QED  BY <1>3, <5>1 DEF TurnOK
      <4>. QED  BY <1>7, <4>1
    <3>2. turns'[i] = tr /\ tr.prompt \notin {"responded", "ended", "reported", "done"}
      BY <1>5, <1>7, <2>1
    <3>3. holder'[ContextOf[t]] = t
      BY <1>2, <1>3
    <3>. QED  BY <1>5, <1>13, <2>1, <3>1, <3>2, <3>3 DEF TurnOK
  <2>2. CASE i \in TurnIds
    <3>1. PICK a : a = turns[i]
      OBVIOUS
    <3>2. TurnOK(i) /\ turns'[i] = a /\ a \in Turn
      BY <1>1, <1>7, <2>2, <3>1, TurnType DEF LockInv
    <3>3. a.task \in Tasks
      BY <3>2 DEF Turn
    <3>4. a.registered => a.task # t /\ ~Starting(a.task)
      BY <1>3, <3>1, <3>2 DEF TurnOK
    <3>5. a.registered => ~(exec'[a.task].pc \in {"acquire", "session", "call", "register"})
      BY <1>12, <3>3, <3>4 DEF OnlyExec, Starting
    <3>6. a.registered => \A j \in TurnIds' : turns'[j].registered /\ turns'[j].task = a.task => j = i
      <4>1. ASSUME a.registered, NEW j \in TurnIds', turns'[j].registered, turns'[j].task = a.task
            PROVE  j = i
        <5>1. j # n
          BY <1>5, <1>7, <3>4, <4>1
        <5>2. j \in TurnIds /\ turns[j].registered /\ turns[j].task = a.task
          BY <1>7, <4>1, <5>1
        <5>. QED  BY <3>1, <3>2, <4>1, <5>2 DEF TurnOK
      <4>. QED  BY <4>1
    <3>7. /\ a.registered <=> a.prompt # "done"
          /\ a.ended <=> a.prompt \in {"ended", "reported", "done"}
          /\ a.prompt \in {"responded", "ended", "reported"}
                => a.result \in Terminal /\ a.report \in Terminal
          /\ a.registered => holder'[ContextOf[a.task]] = a.task
      BY <1>2, <3>1, <3>2 DEF TurnOK
    <3>. QED  BY <3>2, <3>5, <3>6, <3>7 DEF TurnOK, Starting
  <2>. QED  BY <1>7, <2>1, <2>2
<1>22. DrainOK'
  BY <1>1, <1>2, <1>3 DEF LockInv, DrainOK, DrainedIsQuiet
<1>23. SessionsOK'
  <2>1. \A u \in Tasks : exec'[u].pc = "call" => exec[u].pc = "call"
    BY <1>12 DEF OnlyExec
  <2>. QED  BY <1>1, <1>2, <1>15, <2>1, SessionsStayOK
<1>24. ASSUME NEW u \in Tasks  PROVE ReportOK(u)'
  <2>1. CASE u = t
    <3>1. stored[t] # "none"
      BY <1>1 DEF ReportOK
    <3>. QED  BY <1>2, <1>12, <2>1, <3>1 DEF ReportOK
  <2>2. CASE u # t
    <3>1. ReportStays(u)
      <4>1. \A i \in TurnIds : WillReport(i) => WillReport(i)'
        BY <1>2, <1>7 DEF WillReport
      <4>2. \A i \in 1..Len(turns') : i \notin TurnIds => turns'[i].task = t
        BY <1>1, <1>4, <1>5, <1>7 DEF TurnIds
      <4>. QED  BY <2>2, <4>1, <4>2 DEF ReportStays
    <3>2. exec[u].pc = "pausing" => exec[u].turn \in TurnIds /\ turns[exec[u].turn].task = u
      BY <1>1 DEF LockInv, ExecOK, OnTurn
    <3>3. ReportOK(u) /\ exec'[u] = exec[u] /\ stored'[u] = stored[u]
      BY <1>2, <1>12, <2>2 DEF Inv, ReportInv, OnlyExec
    <3>4. Len(turns') \in Nat
      BY <1>7
    <3>. QED  BY <1>1, <1>17, <3>1, <3>2, <3>3, <3>4, ReportRests
  <2>. QED  BY <2>1, <2>2
<1>. QED  BY <1>14, <1>16, <1>19, <1>20, <1>21, <1>22, <1>23, <1>24 DEF Inv, LockInv, ReportInv

LEMMA KeepsRegister ==
    ASSUME Inv, NEW t \in Tasks, Register(t), setting' = setting
    PROVE  Inv'
<1>1. LockInv /\ TypeOK /\ ExecOK(t)
  BY DEF Inv, LockInv
<1>2. /\ UNCHANGED connVars /\ UNCHANGED <<setting, reqVars, reader, questions, abandoned>>
      /\ UNCHANGED sessVars /\ exec[t].pc = "register" /\ Len(turns) < MaxTurns
  BY DEF Register
<1>3. Starting(t) /\ (exec[t].load => session[ContextOf[t]] # 0)
      /\ exec[t].pc \in StartPoints \cup {"start"} /\ session' = session
  BY <1>1, <1>2 DEF Starting, ExecOK, StartPoints, sessVars
<1>4. CASE /\ StartStep(t) /\ exec'[t].pc \in {"idle", "acquire"} /\ (exec'[t].load => exec[t].load)
           /\ turns' = turns
  <2>1. ConnTypeOK' /\ nextID' >= nextID
    BY <1>1, <1>2, ConnSame
  <2>2. /\ session' \in [Contexts -> 0..MaxCalls] /\ known' \in [Procs -> SUBSET (1..MaxCalls)]
        /\ nextSession' \in 1..MaxCalls + 1 /\ SessionsStay /\ SessionsOK'
    BY <1>2, <1>4, <2>1, StartFrame
  <2>3. exec'[t].pc \notin {"session", "call", "register"}
    BY <1>4
  <2>. QED  BY <1>2, <1>3, <1>4, <2>1, <2>2, <2>3, StartKeeps
<1>5. CASE AgentExited(t) /\ turns' = turns
  BY <1>1, <1>3, <1>4, <1>5, ExitedStart
<1>6. CASE StartFails(t, TRUE) /\ turns' = turns
  <2>1. StartStep(t) /\ exec'[t] = NoExec
    BY <1>1, <1>3, <1>6, FailedStart
  <2>2. exec'[t].pc = "idle" /\ ~exec'[t].load
    BY <2>1 DEF NoExec
  <2>. QED  BY <1>4, <1>6, <2>1, <2>2
<1>7. CASE /\ Cause(t) = "live"
           /\ waiting' = waiting \ {t}
           /\ turns' = Append(turns, newTurn(t, exec[t].proc, session[ContextOf[t]]))
           /\ exec' = [exec EXCEPT ![t] = [NoExec EXCEPT !.pc = "working",
                                 !.turn = Len(turns) + 1, !.gone = exec[t].gone]]
           /\ UNCHANGED <<stored, holder, shut>>
  BY <1>2, <1>7, KeepsNewTurn
<1>. QED  BY <1>5, <1>6, <1>7 DEF Register

-----------------------------------------------------------------------------
(***************************************************************************)
(* The theorems.                                                           *)
(***************************************************************************)
LEMMA InitInv == Init => Inv
<1>. SUFFICES ASSUME Init  PROVE Inv
  OBVIOUS
<1>1. \A t \in Tasks : exec[t].pc = "idle" /\ exec[t].load = FALSE /\ exec[t].gone = FALSE
  BY DEF Init, NoExec
<1>2. turns = <<>> /\ TurnIds = {}
  BY DEF Init, TurnIds
<1>3. TypeOK
  <2>1. ConnTypeOK
    BY Bounds DEF Init, ConnTypeOK, Procs, Calls
  <2>2. turns \in Seq(Turn) /\ Len(turns) <= MaxTurns
    BY <1>2, Bounds
  <2>3. exec \in [Tasks -> Exec]
    <3>1. NoExec \in Exec
      BY Bounds DEF NoExec, Exec
    <3>. QED  BY <3>1 DEF Init
  <2>4. cancel \in [Tasks -> [pc : {"none", "found", "over"}, turn : 0..MaxTurns, request : Nat]]
    BY Bounds DEF Init
  <2>5. \A t \in Tasks : requests[t] <= setting.requests[t]
    <3>1. setting.requests \in [Tasks -> Nat]
      BY TurnsAssumption DEF Init, Setting
    <3>. QED  BY <3>1 DEF Init
  <2>6. /\ setting \in Settings /\ requests \in [Tasks -> Nat] /\ waiting \subseteq Tasks
        /\ stored \in [Tasks -> {"none", "submitted", "working", "input-required"} \cup Terminal]
        /\ holder \in [Contexts -> Tasks \cup {None}]
    BY DEF Init
  <2>7. /\ session \in [Contexts -> 0..MaxCalls] /\ known \in [Procs -> SUBSET (1..MaxCalls)]
        /\ nextSession \in 1..MaxCalls + 1 /\ reader \in [Procs -> 0..MaxQuestions]
    BY Bounds DEF Init
  <2>8. /\ questions \in Seq([turn : 1..MaxTurns, answers : Nat]) /\ abandoned \subseteq 1..MaxTurns
        /\ shut \in [draining : BOOLEAN, drained : BOOLEAN, closed : BOOLEAN,
                     pc : {"none", "wait", "close", "over"}]
    BY DEF Init
  <2>. QED  BY <2>1, <2>2, <2>3, <2>4, <2>5, <2>6, <2>7, <2>8 DEF TypeOK
<1>4. ASSUME NEW t \in Tasks  PROVE ExecOK(t)
  <2>1. cancel[t].turn = 0 /\ waiting = {} /\ ~Starting(t)
    BY <1>1 DEF Init, Starting
  <2>. QED  BY <1>1, <2>1 DEF ExecOK, OnTurn
<1>5. DrainOK
  BY DEF Init, DrainOK, DrainedIsQuiet
<1>6. SessionsOK
  <2>1. Callers = {}
    BY <1>1 DEF Callers
  <2>2. IsFiniteSet({}) /\ Cardinality({}) = 0
    BY FS_EmptySet
  <2>3. nextSession = 1 /\ nextID = 0
    BY DEF Init
  <2>. QED  BY <2>1, <2>2, <2>3 DEF SessionsOK
<1>7. LockInv
  BY <1>2, <1>3, <1>4, <1>5, <1>6 DEF LockInv
<1>8. QuestionInv
  <2>1. questions = <<>> /\ \A p \in Procs : reader[p] = 0
    BY DEF Init
  <2>2. \A t \in Tasks : HandOK(t)
    BY <1>1 DEF HandOK, InHand
  <2>. QED  BY <1>2, <2>1, <2>2, Bounds DEF QuestionInv, ReaderOK
<1>9. ReportInv
  <2>1. \A t \in Tasks : stored[t] = "none"
    BY DEF Init
  <2>. QED  BY <1>1, <1>2, <2>1 DEF ReportInv, ReportOK, NoTurnOf
<1>. QED  BY <1>7, <1>8, <1>9 DEF Inv

LEMMA ExecuteKeeps ==
    ASSUME Inv, NEW t \in Tasks, ExecuteStep(t), setting' = setting
    PROVE  Inv'
BY KeepsDecide, KeepsResume, KeepsTakePending, KeepsSendReply, KeepsInterrupt, KeepsStartTurn,
   KeepsLockContext, KeepsAcquireAgent, KeepsBeginSession, KeepsEndSession, KeepsRegister,
   KeepsWorking, KeepsPump, KeepsAsk, KeepsPause DEF ExecuteStep

LEMMA ArrivalsKeep ==
    ASSUME Inv, Arrivals
    PROVE  Inv'
BY KeepsExecuteBegins, KeepsCancelFinds, KeepsStopped, KeepsTimers, KeepsAgentResponds,
   KeepsAgentExits, KeepsShutdown DEF Arrivals

LEMMA ProgressKeeps ==
    ASSUME Inv, Progress
    PROVE  Inv'
BY ExecuteKeeps, KeepsCancelActs, KeepsStopped, KeepsPromptStep, KeepsTimers,
   KeepsCancelTimeout, KeepsQueueQuestion, KeepsShutdownWaits, KeepsClose DEF Progress

LEMMA StutterKeeps ==
    ASSUME Inv, UNCHANGED vars
    PROVE  Inv'
<1>1. /\ setting' = setting /\ conn' = conn /\ nextID' = nextID /\ pending' = pending
      /\ chan' = chan /\ owed' = owed /\ turns' = turns /\ exec' = exec /\ requests' = requests
      /\ cancel' = cancel /\ stored' = stored /\ waiting' = waiting /\ holder' = holder
      /\ session' = session /\ known' = known /\ nextSession' = nextSession /\ reader' = reader
      /\ questions' = questions /\ abandoned' = abandoned /\ shut' = shut
  BY DEF vars, connVars, reqVars, sessVars
<1>2. LockInv'
  BY <1>1 DEF Inv, LockInv, TypeOK, ConnTypeOK, ExecOK, TurnOK, DrainOK, DrainedIsQuiet, SessionsOK,
              Callers, Starting, TurnIds
<1>3. QuestionInv'
  BY <1>1, HandsSame, NoTurn DEF Inv
<1>4. ReportInv'
  BY <1>1 DEF Inv, ReportInv, ReportOK, NoTurnOf, WillReport, TurnIds
<1>. QED  BY <1>2, <1>3, <1>4 DEF Inv

\* The invariant of the executor holds whatever is called, answered, given
\* up, timed out or shut down, and in whatever order.
THEOREM Invariance == Spec => []Inv
<1>1. Init => Inv
  BY InitInv
<1>2. Inv /\ [Next]_vars => Inv'
  BY ArrivalsKeep, ProgressKeeps, StutterKeeps DEF Next
<1>. QED  BY <1>1, <1>2, PTL DEF Spec

\* At most one turn of a context is starting or registered: the lock passes
\* from Execute to the prompt goroutine and is given back on every path.
LEMMA OnePerContext ==
    ASSUME LockInv
    PROVE  OneTurnPerContext
<1>. SUFFICES ASSUME NEW c \in Contexts
              PROVE  Cardinality({t \in Tasks : ContextOf[t] = c /\ Starting(t)})
                       + Cardinality({i \in TurnIds : ContextOf[turns[i].task] = c
                                                        /\ turns[i].registered}) <= 1
  BY DEF OneTurnPerContext
<1>. DEFINE S == {t \in Tasks : ContextOf[t] = c /\ Starting(t)}
            T == {i \in TurnIds : ContextOf[turns[i].task] = c /\ turns[i].registered}
<1>1. \A t \in S : t = holder[c]
  BY DEF LockInv, ExecOK
<1>2. \A i \in T : turns[i].task = holder[c] /\ ~Starting(holder[c])
  BY DEF LockInv, TurnOK
<1>3. \A i, j \in T : i = j
  BY <1>2 DEF LockInv, TurnOK
<1>4. S = {} \/ T = {}
  BY <1>1, <1>2
<1>5. S = {} \/ S = {holder[c]}
  BY <1>1
<1>6. T = {} \/ \E i : T = {i}
  BY <1>3
<1>7. Cardinality({}) = 0
  BY FS_EmptySet
<1>8. \A x : Cardinality({x}) = 1
  BY FS_Singleton
<1>9. /\ S = {} => Cardinality(S) = 0
      /\ T = {} => Cardinality(T) = 0
      /\ Cardinality(S) \in {0, 1} /\ Cardinality(T) \in {0, 1}
  BY <1>5, <1>6, <1>7, <1>8
<1>. HIDE DEF S, T
<1>10. Cardinality(S) + Cardinality(T) <= 1
  BY <1>4, <1>9
<1>. QED  BY <1>10 DEF S, T

\* The books of the executor are exact: turns of one context never overlap,
\* and once Shutdown has found the executor drained nothing runs or starts.
THEOREM TurnBooks == Spec => []TurnsExact
<1>1. Inv => TurnsExact
  BY OnePerContext DEF Inv, LockInv, DrainOK, TurnsExact
<1>. QED  BY <1>1, Invariance, PTL

\* The agent gets at most one answer to a question, whoever of the caller, the
\* timers, Cancel and Shutdown gives it, and no question waits for the caller
\* on a turn that cannot use the answer any more.
THEOREM AnsweredAtMostOnce == Spec => []AnsweredOnce
<1>1. Inv => AnsweredOnce
  <2>. SUFFICES ASSUME LockInv, QuestionInv  PROVE AnsweredOnce
    BY DEF Inv
  <2>1. \A q \in DOMAIN questions : questions[q].answers <= 1
    BY DEF QuestionInv
  <2>2. ASSUME NEW i \in TurnIds, turns[i].pending # 0
        PROVE  /\ ~turns[i].canceled /\ ~turns[i].ended /\ turns[i].registered
               /\ questions[turns[i].pending].answers = 0
    <3>1. QueueOK(i) /\ TurnOK(i)
      BY DEF LockInv, QuestionInv
    <3>2. ~turns[i].canceled /\ ~turns[i].ended /\ questions[turns[i].pending].answers = 0
      BY <2>2, <3>1 DEF QueueOK, Open
    <3>. QED  BY <3>1, <3>2 DEF TurnOK
  <2>. QED  BY <2>1, <2>2 DEF AnsweredOnce
<1>. QED  BY <1>1, Invariance, PTL

\* No task is left waiting for an answer to a turn that is over without
\* anybody having been told.
THEOREM EndsReported == Spec => []EndReported
<1>1. Inv => EndReported
  <2>. SUFFICES ASSUME Inv, NEW t \in Tasks, stored[t] = "input-required", exec[t].pc = "idle"
                PROVE  \E i \in TurnIds : /\ turns[i].task = t
                                         /\ turns[i].prompt \in {"reported", "done"} => i \in abandoned
    BY DEF EndReported
  <2>1. PICK i \in TurnIds : turns[i].task = t /\ WillReport(i)
    BY DEF Inv, ReportInv, ReportOK
  <2>2. TurnOK(i)
    BY DEF Inv, LockInv
  <2>3. turns[i].prompt \in {"reported", "done"} => i \in abandoned
    BY <2>1, <2>2 DEF TurnOK, WillReport
  <2>. QED  BY <2>1, <2>3
<1>. QED  BY <1>1, Invariance, PTL

\* Only the return of its prompt makes a turn that waits for the agent
\* answered.
LEMMA OnlyReturns ==
    ASSUME Inv, Next, NEW i \in TurnIds, turns[i].prompt = "sent", turns'[i].prompt = "responded"
    PROVE  PromptReturns(i)
<1>0. LockInv /\ QuestionInv
  BY DEF Inv
<1>1. turns' # turns
  OBVIOUS
<1>2. ASSUME NEW X, Effect(X)  PROVE FALSE
  BY <1>2 DEF Effect, CalmTurns, Alike
<1>3. ASSUME NEW t \in Tasks, ExecuteStep(t)  PROVE FALSE
  <2>1. Resume(t) \/ TakePending(t) \/ SendReply(t) \/ Interrupt(t) \/ Register(t)
          \/ Working(t) \/ Pump(t) \/ Ask(t) \/ Pause(t)
    BY <1>1, <1>3 DEF ExecuteStep, Decide, StartTurn, LockContext, AcquireAgent, BeginSession,
                      EndSession
  <2>2. ~Register(t)
    <3>1. turns \in Seq(Turn)
      BY <1>0 DEF LockInv, TypeOK
    <3>2. ASSUME NEW tr, turns' = Append(turns, tr)  PROVE turns'[i] = turns[i]
      BY <3>1, <3>2 DEF TurnIds
    <3>. QED  BY <1>1, <3>2 DEF Register
  <2>. QED  BY <1>0, <1>2, <2>1, <2>2, DoesResume, DoesTakePending, DoesSendReply, DoesInterrupt,
               DoesWorking, DoesPump, DoesAsk, DoesPause
<1>4. ASSUME NEW j \in TurnIds, PromptStep(j)  PROVE PromptReturns(i)
  <2>1. PromptEffect(j)
    BY <1>0, <1>4, DoesSendPrompt, DoesPromptReturns, DoesEndTurn, DoesAbandon, DoesLeave
       DEF PromptStep
  <2>2. j = i
    BY <2>1 DEF PromptEffect, OneTurn
  <2>. QED  BY <1>4, <2>2 DEF PromptStep, SendPrompt, EndTurn, Abandon, Leave
<1>5. CASE Arrivals
  BY <1>0, <1>1, <1>2, <1>5, DoesSessionUpdate
     DEF Arrivals, ExecuteBegins, CancelFinds, RequestEnds, AgentAsks, AgentResponds, AgentExits,
         Shutdown
<1>6. CASE Progress
  <2>1. \/ \E t \in Tasks : ExecuteStep(t) \/ CancelActs(t)
        \/ \E j \in TurnIds : PromptStep(j) \/ Expire(j) \/ Inactive(j)
        \/ \E p \in Procs : QueueQuestion(p)
        \/ ShutdownWaits
    BY <1>1, <1>6 DEF Progress, ServerStops, CancelTimeout, Close
  <2>. QED  BY <1>0, <1>2, <1>3, <1>4, <2>1, DoesCancelActs, DoesExpire, DoesInactive,
               DoesQueueQuestion, DoesShutdownWaits
<1>. QED  BY <1>5, <1>6 DEF Next

\* A prompt the agent has answered ends as the answer says, although the agent
\* may exit and its connection fail before Prompt looks.
THEOREM AnswerWins == Spec => AnswerBeatsExit
<1>1. Inv /\ [Next]_vars =>
        [\A i \in TurnIds :
            turns[i].prompt = "sent" /\ turns'[i].prompt = "responded"
               /\ chan[turns[i].call] = "end_turn" /\ ~turns[i].inactive
            => turns'[i].result = "completed"]_vars
  <2>. SUFFICES ASSUME Inv, Next, NEW i \in TurnIds, turns[i].prompt = "sent",
                       turns'[i].prompt = "responded", chan[turns[i].call] = "end_turn",
                       ~turns[i].inactive
                PROVE  turns'[i].result = "completed"
    OBVIOUS
  <2>1. PromptReturns(i)
    BY OnlyReturns
  <2>2. PICK r \in CallReturns(turns[i].call, turns[i].proc) :
            turns' = [turns EXCEPT ![i].prompt = "responded",
                        ![i].result = outcome(r, turns[i].canceled, turns[i].inactive),
                        ![i].report = abandonState(r, turns[i].canceled, turns[i].inactive)]
    BY <2>1 DEF PromptReturns
  <2>3. r = "end_turn"
    BY <2>2 DEF CallReturns
  <2>4. PICK o, w : /\ o = outcome(r, turns[i].canceled, turns[i].inactive)
                   /\ w = abandonState(r, turns[i].canceled, turns[i].inactive)
    OBVIOUS
  <2>5. turns \in Seq(Turn) /\ turns[i] \in Turn
    BY TurnType DEF Inv, LockInv, TypeOK
  <2>6. PICK b : b = [turns[i] EXCEPT !.prompt = "responded", !.result = o, !.report = w]
    OBVIOUS
  <2>7. b.result = o
    BY <2>5, <2>6 DEF Turn
  <2>8. turns' = [turns EXCEPT ![i] = b]
    BY <2>2, <2>4, <2>5, <2>6 DEF TurnIds
  <2>9. turns'[i] = b
    BY <2>5, <2>8 DEF TurnIds
  <2>10. o = "completed"
    BY <2>3, <2>4 DEF outcome
  <2>. QED  BY <2>7, <2>9, <2>10
<1>. QED  BY <1>1, Invariance, PTL DEF Spec, AnswerBeatsExit
=============================================================================
