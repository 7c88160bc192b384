----------------------------- MODULE AcpTurns ------------------------------
(***************************************************************************)
(* The turns of the ACP executor (integrations/executor/a2aacp): one ACP    *)
(* prompt per turn, run by three goroutines that share it: Execute, which   *)
(* starts the turn and pumps its events into the task, the goroutine that   *)
(* waits for the agent's response to the prompt, and the reader of the      *)
(* connection, which queues updates and questions.  Cancel, Shutdown and    *)
(* three timers (question, inactivity, cancel) act on a turn as well.       *)
(*                                                                         *)
(* A task that asks a question pauses: Execute returns and the turn lives   *)
(* on until a later Execute answers, interrupts, or the turn ends by        *)
(* itself.  The pool is reduced to "the running process, or a new one":     *)
(* AcpPool models it.  Updates, tool calls and texts carry no data here.    *)
(***************************************************************************)
EXTENDS AcpConn

CONSTANTS
    Tasks, Contexts,
    ContextOf,      \* the context of a task
    Settings,       \* the configurations and workloads considered
    MaxTurns,       \* bound: turns started, at least the Execute calls
    MaxQuestions,   \* bound: questions asked by the agents
    None

\* A configuration of the executor, and what its callers may do.
Setting == [requests : [Tasks -> Nat],      \* bound: Execute calls per task
            cancelable : SUBSET Tasks,      \* tasks somebody may cancel
            stoppable : SUBSET Tasks,       \* tasks whose running Execute the server may give up
            canLoad : BOOLEAN,              \* the agents support session/load
            reject : BOOLEAN,               \* Config.RejectBusyContext
            shutdown : BOOLEAN,             \* Shutdown may be called
            inactivity : BOOLEAN,           \* Config.InactivityTimeout is set
            exits : BOOLEAN]                \* an agent may exit by itself

ASSUME TurnsAssumption ==
    /\ ContextOf \in [Tasks -> Contexts]
    /\ Settings \subseteq Setting
    /\ {MaxTurns, MaxQuestions} \subseteq Nat
    /\ None \notin Tasks

VARIABLES
    setting,        \* the configuration, which does not change
    turns,          \* sequence of all turns ever started
    exec,           \* per task: the running Execute
    cancel,         \* per task: the running Cancel
    stored,         \* per task: its stored state
    requests,       \* per task: Execute calls made
    waiting,        \* tasks that have an entry in Executor.waiting
    holder,         \* per context: the task that holds the turn lock
    session,        \* per context: the stored ACP session, 0 if there is none
    known,          \* per process: the sessions it has created or loaded
    nextSession,
    reader,         \* per process: the question its reader is about to queue
    questions,      \* sequence: [turn, answers] of every question asked
    abandoned,      \* turns whose end was reported to Config.Abandoned
    shut            \* [draining, drained, closed, pc] of Shutdown

sessVars == <<session, known, nextSession>>
reqVars == <<requests, cancel>>
vars == <<setting, connVars, turns, exec, reqVars, stored, waiting, holder,
          sessVars, reader, questions, abandoned, shut>>

Terminal == {"completed", "canceled", "failed"}
Event == [kind : {"update"}] \cup [kind : {"question"}, q : 1..MaxQuestions]
            \cup [kind : {"result"}, state : Terminal]

\* turn: "prompt" is where its prompt goroutine is, "call" its session/prompt.
Turn == [task : Tasks, proc : Procs, session : 1..MaxCalls, call : 0..MaxCalls,
         prompt : {"new", "sent", "responded", "ended", "reported", "done"},
         result : Terminal \cup {None}, report : Terminal \cup {None},
         pending : 0..MaxQuestions, canceled : BOOLEAN, ended : BOOLEAN,
         paused : BOOLEAN, expired : BOOLEAN, inactive : BOOLEAN, watched : BOOLEAN,
         updated : BOOLEAN, events : Seq(Event), registered : BOOLEAN]

\* Execute: where it is, the turn and question it works on, and of a start
\* the process, the call in flight, whether session/load may be tried,
\* whether it is the second attempt, whether it waits for the lock, and why
\* the context of startTurn ended; "gone" when the server has given it up;
\* "asked" when the StoredTask of its execCtx, read before it began, is
\* input-required.
Exec == [pc : {"idle", "decide", "answer", "take", "reply", "interrupt", "start", "lock",
               "acquire", "session", "call", "register", "working", "pump", "ask", "pausing"},
         turn : 0..MaxTurns, q : 0..MaxQuestions, proc : 0..MaxProcs, call : 0..MaxCalls,
         load : BOOLEAN, again : BOOLEAN, wait : BOOLEAN,
         ctx : {"live", "canceled", "draining"}, gone : BOOLEAN, asked : BOOLEAN]

\* The variables have the types of the code's fields: in particular a turn
\* ends in a state a task can end in.
TypeOK ==
    /\ ConnTypeOK
    /\ setting \in Settings
    /\ turns \in Seq(Turn) /\ Len(turns) <= MaxTurns
    /\ exec \in [Tasks -> Exec]
    /\ cancel \in [Tasks -> [pc : {"none", "found", "over"}, turn : 0..MaxTurns,
                             request : Nat]]
    /\ stored \in [Tasks -> {"none", "submitted", "working", "input-required"} \cup Terminal]
    /\ requests \in [Tasks -> Nat] /\ \A t \in Tasks : requests[t] <= setting.requests[t]
    /\ waiting \subseteq Tasks
    /\ holder \in [Contexts -> Tasks \cup {None}]
    /\ session \in [Contexts -> 0..MaxCalls]
    /\ known \in [Procs -> SUBSET (1..MaxCalls)]
    /\ nextSession \in 1..MaxCalls + 1
    /\ reader \in [Procs -> 0..MaxQuestions]
    /\ questions \in Seq([turn : 1..MaxTurns, answers : Nat])
    /\ abandoned \subseteq 1..MaxTurns
    /\ shut \in [draining : BOOLEAN, drained : BOOLEAN, closed : BOOLEAN,
                 pc : {"none", "wait", "close", "over"}]

NoExec == [pc |-> "idle", turn |-> 0, q |-> 0, proc |-> 0, call |-> 0,
           load |-> FALSE, again |-> FALSE, wait |-> FALSE, ctx |-> "live", gone |-> FALSE,
           asked |-> FALSE]

\* NewExecutor: without a pool the first process is started right away.
Init ==
    /\ setting \in Settings
    /\ conn = [p \in Procs |-> IF p = 1 THEN "open" ELSE "unborn"]
    /\ nextID = 0
    /\ pending = {}
    /\ chan = [i \in Calls |-> "empty"]
    /\ owed = {}
    /\ turns = <<>>
    /\ exec = [t \in Tasks |-> NoExec]
    /\ cancel = [t \in Tasks |-> [pc |-> "none", turn |-> 0, request |-> 0]]
    /\ stored = [t \in Tasks |-> "none"]
    /\ requests = [t \in Tasks |-> 0]
    /\ waiting = {}
    /\ holder = [c \in Contexts |-> None]
    /\ session = [c \in Contexts |-> 0]
    /\ known = [p \in Procs |-> {}]
    /\ nextSession = 1
    /\ reader = [p \in Procs |-> 0]
    /\ questions = <<>>
    /\ abandoned = {}
    /\ shut = [draining |-> FALSE, drained |-> FALSE, closed |-> FALSE, pc |-> "none"]
-----------------------------------------------------------------------------
(* Turns (turn.go) *)

TurnIds == 1..Len(turns)

\* e.turns[taskID] and e.routes: a turn enters and leaves both maps in the
\* same critical sections.
TurnOf(t) ==
    IF \E i \in TurnIds : turns[i].registered /\ turns[i].task = t
    THEN CHOOSE i \in TurnIds : turns[i].registered /\ turns[i].task = t
    ELSE 0

newTurn(t, p, s) ==
    [task |-> t, proc |-> p, session |-> s, call |-> 0, prompt |-> "new",
     result |-> None, report |-> None, pending |-> 0, canceled |-> FALSE,
     ended |-> FALSE, paused |-> FALSE, expired |-> FALSE, inactive |-> FALSE,
     watched |-> setting.inactivity, updated |-> FALSE, events |-> <<>>, registered |-> TRUE]

IsQuestion(e) == e.kind = "question"

\* The questions of a turn that wait for an answer on the client's side.
OpenQuestions(tr) ==
    {tr.events[k].q : k \in {k \in DOMAIN tr.events : IsQuestion(tr.events[k])}}
        \cup ({tr.pending} \ {0})

\* removeIf, of the questions: the events that are kept, in their order.
Kept(events) == {k \in DOMAIN events : ~IsQuestion(events[k])}
Nth(S, n) == CHOOSE k \in S : Cardinality({j \in S : j <= k}) = n
removeIf(events) == [n \in 1..Cardinality(Kept(events)) |-> events[Nth(Kept(events), n)]]

\* Responses to the agent's requests.  A write to an agent that has exited
\* is lost, which changes nothing on this side.
Respond(S) == [q \in DOMAIN questions |->
                  IF q \in S THEN [questions[q] EXCEPT !.answers = @ + 1] ELSE questions[q]]

\* cancelTurn: turn.cancel, session/cancel to the agent, and the open
\* questions answered as canceled; the turn's cancel timer runs from now on.
\* A second cancelTurn does nothing.
Canceled(tr) ==
    IF tr.canceled THEN tr
    ELSE [tr EXCEPT !.canceled = TRUE, !.pending = 0, !.events = removeIf(@)]

CanceledQuestions(tr) == IF tr.canceled THEN {} ELSE OpenQuestions(tr)

cancelTurn(i) ==
    /\ turns' = [turns EXCEPT ![i] = Canceled(@)]
    /\ questions' = Respond(CanceledQuestions(turns[i]))

touch(tr) ==
    IF ~setting.inactivity \/ tr.canceled \/ tr.ended THEN tr ELSE [tr EXCEPT !.watched = TRUE]

\* outcome of a promptResult: the state the task ends in.
outcome(r, canceled, failure) ==
    CASE failure -> "failed"
      [] r \in {"exited", "error"} -> IF canceled THEN "canceled" ELSE "failed"
      [] r = "end_turn" -> "completed"
      [] r = "cancelled" -> "canceled"
      [] OTHER -> "failed"

\* What abandon reports for it: a turn that was canceled fails its task.
abandonState(r, canceled, failure) ==
    IF canceled /\ ~failure THEN "failed" ELSE outcome(r, canceled, failure)

\* checkDrainedLocked, for the turns and waiting tasks after a step.
checkDrained(ts, w) ==
    shut' = [shut EXCEPT !.drained =
                @ \/ (shut.draining /\ w = {} /\ \A i \in DOMAIN ts : ~ts[i].registered)]

-----------------------------------------------------------------------------
(* Execute (executor.go) *)

\* Whether the server still takes events of the request: it stops iterating
\* when the task has ended or the execution was given up.
Accepts(t) == ~exec[t].gone /\ stored[t] \notin Terminal

\* yield of a status event.
Yield(t, state) == stored' = IF Accepts(t) THEN [stored EXCEPT ![t] = state] ELSE stored

Goto(t, pc) == exec' = [exec EXCEPT ![t].pc = pc]

\* Execute returns, with the event state as its last.
Finish(t, state) == Yield(t, state) /\ exec' = [exec EXCEPT ![t] = NoExec]

startVars == <<connVars, waiting, holder, sessVars, shut>>

\* A request for a new task or with a reply to a paused one; the server runs
\* one Execute per task at a time.
ExecuteBegins(t) ==
    /\ exec[t].pc = "idle" /\ requests[t] < setting.requests[t]
    /\ stored[t] \in {"none", "input-required"}
    /\ requests' = [requests EXCEPT ![t] = @ + 1]
    /\ stored' = [stored EXCEPT ![t] = IF @ = "none" THEN "submitted" ELSE @]
    /\ exec' = [exec EXCEPT ![t].pc = "decide", ![t].asked = stored[t] = "input-required"]
    /\ UNCHANGED <<connVars, turns, cancel, waiting, holder, sessVars, reader, questions,
                   abandoned, shut>>

\* Execute looks for a pending question, and without one at the stored task it
\* was given, which may have ended since.  parseReply finds in the caller's
\* message an answer, no answer at all, an answer to ask again for, or fails.
Decide(t) ==
    LET i == TurnOf(t)
        p == IF i = 0 THEN 0 ELSE turns[i].pending
    IN  /\ exec[t].pc = "decide"
        /\ \/ /\ p # 0
              /\ \E pc \in {"answer", "interrupt"} :
                    exec' = [exec EXCEPT ![t].pc = pc, ![t].turn = i, ![t].q = p]
              /\ UNCHANGED stored
           \/ p # 0 /\ \E state \in {"input-required", "failed"} : Finish(t, state)
           \/ p = 0 /\ exec[t].asked /\ Finish(t, "failed")
           \/ /\ p = 0 /\ ~exec[t].asked
              /\ exec' = [exec EXCEPT ![t].pc = "start", ![t].wait = ~setting.reject]
              /\ UNCHANGED stored
        /\ UNCHANGED <<startVars, reqVars, turns, reader, questions, abandoned>>

\* answer: resume, so that this request reports how the turn ends.
Resume(t) ==
    /\ exec[t].pc = "answer"
    /\ turns' = [turns EXCEPT ![exec[t].turn].paused = FALSE]
    /\ Goto(t, "take")
    /\ UNCHANGED <<startVars, reqVars, stored, reader, questions, abandoned>>

\* Mutant: takePending without the comparison.
TakePendingBlindly(t) ==
    LET i == exec[t].turn
    IN  /\ exec[t].pc = "take"
        /\ IF conn[turns[i].proc] = "done"
           THEN Finish(t, "failed") /\ UNCHANGED turns
           ELSE /\ turns' = [turns EXCEPT ![i].pending = 0]
                /\ Goto(t, "reply")
                /\ UNCHANGED stored
        /\ UNCHANGED <<startVars, reqVars, reader, questions, abandoned>>

\* answer: the question is taken if it is still the pending one.
TakePending(t) ==
    LET i == exec[t].turn
    IN  /\ exec[t].pc = "take"
        /\ IF conn[turns[i].proc] = "done" \/ turns[i].pending # exec[t].q
           THEN Finish(t, "failed") /\ UNCHANGED turns
           ELSE /\ turns' = [turns EXCEPT ![i].pending = 0]
                /\ Goto(t, "reply")
                /\ UNCHANGED stored
        /\ UNCHANGED <<startVars, reqVars, reader, questions, abandoned>>

\* answer: the reply is written to the agent.  If that fails the turn is
\* canceled and the task fails.
SendReply(t) ==
    LET i == exec[t].turn
    IN  /\ exec[t].pc = "reply"
        /\ IF conn[turns[i].proc] = "done"
           THEN /\ turns' = [turns EXCEPT ![i] = Canceled(@)]
                /\ questions' = Respond(CanceledQuestions(turns[i]) \cup {exec[t].q})
                /\ Finish(t, "failed")
           ELSE /\ turns' = [turns EXCEPT ![i] = touch(@)]
                /\ questions' = Respond({exec[t].q})
                /\ Goto(t, "working")
                /\ UNCHANGED stored
        /\ UNCHANGED <<startVars, reqVars, reader, abandoned>>

\* interrupt: resume, reject the question if it is still pending, cancel the
\* turn; the message then starts a turn of its own, whatever Reject says.
Interrupt(t) ==
    LET i == exec[t].turn
        mine == {turns[i].pending} \cap {exec[t].q}
        resumed == [turns[i] EXCEPT !.paused = FALSE, !.pending = IF mine = {} THEN @ ELSE 0]
    IN  /\ exec[t].pc = "interrupt"
        /\ turns' = [turns EXCEPT ![i] = Canceled(resumed)]
        /\ questions' = Respond(mine \cup CanceledQuestions(resumed))
        /\ exec' = [exec EXCEPT ![t] = [NoExec EXCEPT !.pc = "start", !.wait = TRUE,
                                                            !.gone = exec[t].gone]]
        /\ UNCHANGED <<startVars, reqVars, stored, reader, abandoned>>

-----------------------------------------------------------------------------
(* startTurn, lockAndPrompt, prompt, promptAgent, session *)

\* context.Cause of the context of startTurn.
Cause(t) == IF exec[t].gone THEN "done" ELSE exec[t].ctx

\* startTurn returns an error: the lock is released if it is held, the entry
\* in waiting removed, and the event ends the task (startFailed).
StartFails(t, locked) ==
    /\ holder' = IF locked THEN [holder EXCEPT ![ContextOf[t]] = None] ELSE holder
    /\ waiting' = waiting \ {t}
    /\ checkDrained(turns, waiting \ {t})
    /\ Finish(t, IF exec[t].ctx = "canceled" THEN "canceled" ELSE "failed")

\* startTurn up to lockContext.
StartTurn(t) ==
    /\ exec[t].pc = "start"
    /\ IF shut.draining
       THEN Finish(t, "failed") /\ UNCHANGED waiting
       ELSE /\ waiting' = waiting \cup {t}
            /\ Goto(t, "lock")
            /\ UNCHANGED stored
    /\ UNCHANGED <<connVars, reqVars, turns, holder, sessVars, reader, questions,
                   abandoned, shut>>

\* Mutant: a turn does not wait for the previous one.
LockContextBusy(t) ==
    /\ exec[t].pc = "lock"
    /\ \/ /\ holder' = [holder EXCEPT ![ContextOf[t]] = t]
          /\ Goto(t, "acquire")
          /\ UNCHANGED <<stored, waiting, shut>>
       \/ Cause(t) # "live" /\ StartFails(t, FALSE)
    /\ UNCHANGED <<connVars, reqVars, turns, sessVars, reader, questions, abandoned>>

\* lockContext: the lock is taken, or found busy, or the wait is given up.
LockContext(t) ==
    /\ exec[t].pc = "lock"
    /\ \/ /\ holder[ContextOf[t]] = None
          /\ holder' = [holder EXCEPT ![ContextOf[t]] = t]
          /\ Goto(t, "acquire")
          /\ UNCHANGED <<stored, waiting, shut>>
       \/ holder[ContextOf[t]] # None /\ ~exec[t].wait /\ StartFails(t, FALSE)
       \/ exec[t].wait /\ Cause(t) # "live" /\ StartFails(t, FALSE)
    /\ UNCHANGED <<connVars, reqVars, turns, sessVars, reader, questions, abandoned>>

\* acquireAgent: the running process, or a new one; refused when the executor
\* is closed or draining.  Preparing the prompt or starting may fail.
AcquireAgent(t) ==
    /\ exec[t].pc = "acquire"
    /\ \/ /\ ~shut.closed /\ ~shut.draining
          /\ \E p \in Procs :
                /\ \/ conn[p] = "open" /\ UNCHANGED conn
                   \/ /\ conn[p] = "unborn" /\ \A o \in Procs : conn[o] # "open"
                      /\ \A o \in 1..p - 1 : conn[o] = "done"
                      /\ NewConn(p)
                /\ exec' = [exec EXCEPT ![t].pc = "session", ![t].proc = p,
                              ![t].load = setting.canLoad /\ session[ContextOf[t]] # 0]
          /\ UNCHANGED <<stored, waiting, holder, shut>>
       \/ StartFails(t, TRUE) /\ UNCHANGED conn
    /\ UNCHANGED <<nextID, pending, chan, owed, reqVars, turns, sessVars, reader, questions,
                   abandoned>>

\* promptAgent failed with ErrAgentExited before the prompt was sent: prompt
\* tries a second time with a new process.
AgentExited(t) ==
    IF exec[t].again THEN StartFails(t, TRUE)
    ELSE /\ exec' = [exec EXCEPT ![t].pc = "acquire", ![t].again = TRUE, ![t].proc = 0,
                       ![t].call = 0]
         /\ UNCHANGED <<stored, waiting, holder, shut>>

\* session: a session the process knows is used as it is; otherwise the
\* request session/load or session/new is sent.
BeginSession(t) ==
    LET p == exec[t].proc
        s == session[ContextOf[t]]
    IN  /\ exec[t].pc = "session"
        /\ IF s \in known[p] THEN
                /\ Goto(t, "register")
                /\ UNCHANGED <<connVars, stored, waiting, holder, shut>>
           ELSE IF conn[p] = "done" THEN AgentExited(t) /\ UNCHANGED connVars
           ELSE /\ Call(p)
                /\ exec' = [exec EXCEPT ![t].pc = "call", ![t].call = nextID + 1]
                /\ UNCHANGED <<conn, stored, waiting, holder, shut>>
        /\ UNCHANGED <<reqVars, turns, sessVars, reader, questions, abandoned>>

\* session: the call returns.  A load that fails, for whatever reason, is
\* followed by session/new; a new session is put into the store.
EndSession(t) ==
    LET p == exec[t].proc
        c == ContextOf[t]
        s == IF exec[t].load THEN session[c] ELSE nextSession
    IN  /\ exec[t].pc = "call"
        /\ \/ /\ "ok" \in CallReturns(exec[t].call, p)
              /\ known' = [known EXCEPT ![p] = @ \cup {s}]
              /\ session' = [session EXCEPT ![c] = s]
              /\ nextSession' = IF exec[t].load THEN nextSession ELSE nextSession + 1
              /\ Goto(t, "register")
              /\ CallOver(exec[t].call)
              /\ UNCHANGED <<stored, waiting, holder, shut>>
           \/ /\ \/ CallReturns(exec[t].call, p) \cap {"error", "exited"} # {}
                 \/ Cause(t) # "live"
              /\ CallOver(exec[t].call)
              /\ UNCHANGED sessVars
              /\ IF exec[t].load THEN
                      /\ exec' = [exec EXCEPT ![t].pc = "session", ![t].load = FALSE]
                      /\ UNCHANGED <<stored, waiting, holder, shut>>
                 ELSE IF "exited" \in CallReturns(exec[t].call, p) THEN AgentExited(t)
                 ELSE StartFails(t, TRUE)
        /\ UNCHANGED <<reqVars, turns, reader, questions, abandoned>>

\* promptAgent: under the executor's mutex the context is looked at, the task
\* leaves waiting and its turn is registered; then the prompt goroutine runs.
\* Before that configure may fail, because the agent has exited or otherwise.
Register(t) ==
    LET p == exec[t].proc
    IN  /\ exec[t].pc = "register" /\ Len(turns) < MaxTurns
        /\ \/ /\ Cause(t) = "live"
              /\ waiting' = waiting \ {t}
              /\ turns' = Append(turns, newTurn(t, p, session[ContextOf[t]]))
              /\ exec' = [exec EXCEPT ![t] = [NoExec EXCEPT !.pc = "working",
                                    !.turn = Len(turns) + 1, !.gone = exec[t].gone]]
              /\ UNCHANGED <<stored, holder, shut>>
           \/ conn[p] = "done" /\ AgentExited(t) /\ UNCHANGED turns
           \/ StartFails(t, TRUE) /\ UNCHANGED turns
        /\ UNCHANGED <<connVars, reqVars, sessVars, reader, questions, abandoned>>

-----------------------------------------------------------------------------
(* The rest of Execute: the working event and pump *)

pumpVars == <<startVars, reqVars, reader, abandoned>>

\* Mutant: the turn goes on when the server has stopped the request.
WorkingRegardless(t) ==
    /\ exec[t].pc = "working"
    /\ IF Accepts(t) THEN Goto(t, "pump") /\ UNCHANGED <<turns, questions>>
       ELSE exec' = [exec EXCEPT ![t] = NoExec] /\ UNCHANGED <<turns, questions>>
    /\ Yield(t, "working")
    /\ UNCHANGED pumpVars

\* The working event; a turn nobody listens to is canceled.
Working(t) ==
    /\ exec[t].pc = "working"
    /\ IF Accepts(t) THEN Goto(t, "pump") /\ UNCHANGED <<turns, questions>>
       ELSE exec' = [exec EXCEPT ![t] = NoExec] /\ cancelTurn(exec[t].turn)
    /\ Yield(t, "working")
    /\ UNCHANGED pumpVars

\* pump: the next event.  An update is converted and emitted (if it cannot be
\* converted the task fails, if the server has stopped nothing is stored, and
\* either way the turn is canceled), a question taken out of the queue, a
\* result ends the task; with nothing queued and the request's context done,
\* the turn is canceled.
Pump(t) ==
    LET i == exec[t].turn
        queue == turns[i].events
        popped == [turns EXCEPT ![i].events = Tail(@)]
    IN  /\ exec[t].pc = "pump"
        /\ IF queue = <<>>
           THEN /\ exec[t].gone
                /\ cancelTurn(i)
                /\ exec' = [exec EXCEPT ![t] = NoExec]
                /\ UNCHANGED stored
           ELSE CASE Head(queue).kind = "update" ->
                        \/ /\ Accepts(t) /\ Yield(t, "working")
                           /\ turns' = popped
                           /\ UNCHANGED <<exec, questions>>
                        \/ /\ turns' = [popped EXCEPT ![i] = Canceled(@)]
                           /\ questions' = Respond(CanceledQuestions(popped[i]))
                           /\ Finish(t, "failed")
                  [] Head(queue).kind = "question" ->
                        /\ turns' = popped
                        /\ exec' = [exec EXCEPT ![t].pc = "ask", ![t].q = Head(queue).q]
                        /\ UNCHANGED <<questions, stored>>
                  [] Head(queue).kind = "result" ->
                        /\ turns' = popped
                        /\ Finish(t, Head(queue).state)
                        /\ UNCHANGED questions
        /\ UNCHANGED pumpVars

\* pump, with a question: one that cannot be asked or that AutoAnswer decides
\* is answered at once (if that answer cannot be written the task fails), and
\* so is one whose turn is canceled or over.  Otherwise setPending makes it
\* the pending one and the task is about to pause.
Ask(t) ==
    LET i == exec[t].turn
        q == exec[t].q
    IN  /\ exec[t].pc = "ask"
        /\ \/ /\ questions' = Respond({q})
              /\ Goto(t, "pump")
              /\ UNCHANGED <<turns, stored>>
           \/ /\ conn[turns[i].proc] = "done"
              /\ turns' = [turns EXCEPT ![i] = Canceled(@)]
              /\ questions' = Respond({q} \cup CanceledQuestions(turns[i]))
              /\ Finish(t, "failed")
           \/ /\ ~turns[i].canceled /\ ~turns[i].ended
              /\ turns' = [turns EXCEPT ![i].pending = q, ![i].paused = TRUE]
              /\ Goto(t, "pausing")
              /\ UNCHANGED <<questions, stored>>
        /\ UNCHANGED pumpVars

\* The task pauses and Execute returns, whether or not the server took the
\* event; or the event cannot be made, which cancels the turn.
Pause(t) ==
    /\ exec[t].pc = "pausing"
    /\ \/ Finish(t, "input-required") /\ UNCHANGED <<turns, questions>>
       \/ cancelTurn(exec[t].turn) /\ Finish(t, "failed")
    /\ UNCHANGED pumpVars

-----------------------------------------------------------------------------
(* The prompt goroutine of a turn *)

goVars == <<exec, reqVars, waiting, sessVars, reader, questions>>

\* ag.client.Prompt up to its wait.
SendPrompt(i) ==
    /\ turns[i].prompt = "new"
    /\ IF conn[turns[i].proc] = "done"
       THEN /\ turns' = [turns EXCEPT ![i].prompt = "responded",
                           ![i].result = outcome("exited", turns[i].canceled, turns[i].inactive),
                           ![i].report = abandonState("exited", turns[i].canceled, turns[i].inactive)]
            /\ UNCHANGED connVars
       ELSE /\ Call(turns[i].proc)
            /\ turns' = [turns EXCEPT ![i].prompt = "sent", ![i].call = nextID + 1]
            /\ UNCHANGED conn
    /\ UNCHANGED <<goVars, stored, holder, abandoned, shut>>

\* Prompt returns; the result records whether the turn is canceled and failed.
PromptReturns(i) ==
    /\ turns[i].prompt = "sent"
    /\ \E r \in CallReturns(turns[i].call, turns[i].proc) :
          turns' = [turns EXCEPT ![i].prompt = "responded",
                      ![i].result = outcome(r, turns[i].canceled, turns[i].inactive),
                      ![i].report = abandonState(r, turns[i].canceled, turns[i].inactive)]
    /\ CallOver(turns[i].call)
    /\ UNCHANGED <<goVars, stored, holder, abandoned, shut>>

\* turn.end, and the result into the queue.
EndTurn(i) ==
    /\ turns[i].prompt = "responded"
    /\ turns' = [turns EXCEPT ![i].ended = TRUE, ![i].pending = 0, ![i].watched = FALSE,
                   ![i].events = Append(@, [kind |-> "result", state |-> turns[i].result]),
                   ![i].report = IF turns[i].expired THEN "failed" ELSE @,
                   ![i].prompt = IF turns[i].paused THEN "ended" ELSE "reported"]
    /\ UNCHANGED <<connVars, goVars, stored, holder, abandoned, shut>>

\* Mutant: only a turn whose question expired is reported.
AbandonExpired(i) ==
    /\ turns[i].prompt = "ended"
    /\ abandoned' = IF turns[i].expired THEN abandoned \cup {i} ELSE abandoned
    /\ turns' = [turns EXCEPT ![i].prompt = "reported"]
    /\ UNCHANGED <<connVars, goVars, stored, holder, shut>>

\* abandon: the turn ended while its task waits for an answer.  The hook may
\* store the event, skipping a task that has ended.
Abandon(i) ==
    LET t == turns[i].task
    IN  /\ turns[i].prompt = "ended"
        /\ abandoned' = abandoned \cup {i}
        /\ stored' \in {stored, [stored EXCEPT ![t] = IF @ \in Terminal THEN @ ELSE turns[i].report]}
        /\ turns' = [turns EXCEPT ![i].prompt = "reported"]
        /\ UNCHANGED <<connVars, goVars, holder, shut>>

\* The turn leaves the maps, the agent is released and the context unlocked.
\* What only this turn's goroutines use is forgotten.
Leave(i) ==
    LET after == [turns EXCEPT ![i].registered = FALSE, ![i].prompt = "done", ![i].call = 0,
                    ![i].result = None, ![i].report = None]
    IN  /\ turns[i].prompt = "reported"
        /\ turns' = after
        /\ holder' = [holder EXCEPT ![ContextOf[turns[i].task]] = None]
        /\ checkDrained(after, waiting)
        /\ UNCHANGED <<connVars, goVars, stored, abandoned>>

-----------------------------------------------------------------------------
(* The agent (external) and the reader of its connection (agentHandler) *)

agentVars == <<exec, reqVars, stored, waiting, holder, sessVars, abandoned, shut>>

\* The agent works on the prompt of turn i and its reader is free.
Prompted(i) ==
    /\ [id |-> turns[i].call, proc |-> turns[i].proc] \in owed
    /\ conn[turns[i].proc] = "open" /\ reader[turns[i].proc] = 0

\* SessionUpdate: an update goes to the turn of its session, if there is one.
SessionUpdate(i) ==
    /\ Prompted(i) /\ turns[i].registered /\ ~turns[i].updated
    /\ turns' = [turns EXCEPT ![i] = [touch(turns[i]) EXCEPT !.updated = TRUE,
                                        !.events = Append(@, [kind |-> "update"])]]
    /\ UNCHANGED <<connVars, agentVars, reader, questions>>

\* ask, first half: a question for no turn or for a canceled one is canceled.
AgentAsks(i) ==
    LET q == Len(questions) + 1
        live == turns[i].registered /\ ~turns[i].canceled
    IN  /\ Prompted(i) /\ q <= MaxQuestions
        /\ questions' = Append(questions, [turn |-> i, answers |-> IF live THEN 0 ELSE 1])
        /\ reader' = [reader EXCEPT ![turns[i].proc] = IF live THEN q ELSE 0]
        /\ UNCHANGED <<connVars, agentVars, turns>>

\* ask, second half: the question is queued.
QueueQuestion(p) ==
    LET q == reader[p]
        i == questions[q].turn
    IN  /\ q # 0
        /\ turns' = [turns EXCEPT ![i] = [touch(turns[i]) EXCEPT
                                !.events = Append(@, [kind |-> "question", q |-> q])]]
        /\ reader' = [reader EXCEPT ![p] = 0]
        /\ UNCHANGED <<connVars, agentVars, questions>>

\* What the agent may answer; a turn is cancelled only after session/cancel.
AnswersOf(o) ==
    IF \E i \in TurnIds : turns[i].call = o.id
    THEN {"end_turn", "error"} \cup {r \in {"cancelled"} :
            \E i \in TurnIds : turns[i].call = o.id /\ turns[i].canceled}
    ELSE {"ok", "error"}

\* The agent responds to a request.  The updates by which it replays the
\* history of a session it loads find no route and are dropped.
AgentResponds(o) ==
    /\ o \in owed /\ conn[o.proc] = "open" /\ reader[o.proc] = 0
    /\ \E r \in AnswersOf(o) : receive(o.id, r)
    /\ owed' = owed \ {o}
    /\ UNCHANGED <<conn, nextID, agentVars, turns, reader, questions>>

\* The agent exits; its reader meets the end of the output.
AgentExits(p) ==
    /\ setting.exits /\ conn[p] = "open" /\ reader[p] = 0
    /\ fail(p)
    /\ UNCHANGED <<nextID, pending, chan, agentVars, turns, reader, questions>>

-----------------------------------------------------------------------------
(* Timers *)

\* expire: the question is taken, rejected, and the turn canceled.
Expire(i) ==
    LET taken == [turns[i] EXCEPT !.expired = TRUE, !.pending = 0]
    IN  /\ turns[i].pending # 0
        /\ turns' = [turns EXCEPT ![i] = Canceled(taken)]
        /\ questions' = Respond({turns[i].pending} \cup CanceledQuestions(taken))
        /\ UNCHANGED <<connVars, agentVars, reader>>

\* The inactivity timer fires: nothing while a question is pending.
Inactive(i) ==
    /\ turns[i].watched
    /\ IF turns[i].canceled \/ turns[i].ended \/ turns[i].pending # 0
       THEN /\ turns' = [turns EXCEPT ![i].watched = FALSE]
            /\ UNCHANGED questions
       ELSE /\ turns' = [turns EXCEPT ![i] =
                           Canceled([@ EXCEPT !.watched = FALSE, !.inactive = TRUE])]
            /\ questions' = Respond(CanceledQuestions(turns[i]))
    /\ UNCHANGED <<connVars, agentVars, reader>>

\* The timer of cancelTurn: an agent that does not end a canceled turn is
\* stopped, with all its turns.
CancelTimeout(i) ==
    /\ turns[i].canceled /\ ~turns[i].ended /\ conn[turns[i].proc] = "open"
    /\ fail(turns[i].proc)
    /\ UNCHANGED <<nextID, pending, chan, agentVars, turns, reader, questions>>

-----------------------------------------------------------------------------
(* Cancel and Shutdown *)

\* Cancel looks for the turn of the task, or its start.
CancelFinds(t) ==
    /\ t \in setting.cancelable /\ cancel[t].pc = "none"
    /\ stored[t] \notin Terminal \cup {"none"}
    /\ cancel' = [cancel EXCEPT ![t] = [pc |-> "found", turn |-> TurnOf(t),
                    request |-> IF t \in waiting THEN requests[t] ELSE 0]]
    /\ UNCHANGED <<connVars, turns, exec, requests, stored, waiting, holder,
                   sessVars, reader, questions, abandoned, shut>>

\* Cancel acts on what it found and emits canceled.  The context of a start
\* that is over ignores it.
CancelActs(t) ==
    LET i == cancel[t].turn
    IN  /\ cancel[t].pc = "found"
        /\ exec' = IF cancel[t].request = requests[t] /\ t \in waiting /\ exec[t].ctx = "live"
                   THEN [exec EXCEPT ![t].ctx = "canceled"] ELSE exec
        /\ IF i = 0 THEN UNCHANGED <<turns, questions>>
           ELSE /\ turns' = [turns EXCEPT ![i] = Canceled([@ EXCEPT !.paused = FALSE])]
                /\ questions' = Respond(CanceledQuestions(turns[i]))
        /\ stored' = IF stored[t] \in Terminal THEN stored ELSE [stored EXCEPT ![t] = "canceled"]
        /\ cancel' = [cancel EXCEPT ![t] = [pc |-> "over", turn |-> 0, request |-> 0]]
        /\ UNCHANGED <<connVars, requests, waiting, holder, sessVars, reader,
                       abandoned, shut>>

\* The server gives up a running Execute and fails the task (external).
RequestEnds(t) ==
    /\ t \in setting.stoppable /\ ~exec[t].gone /\ exec[t].pc # "idle"
    /\ exec' = [exec EXCEPT ![t].gone = TRUE]
    /\ stored' = IF stored[t] \in Terminal THEN stored ELSE [stored EXCEPT ![t] = "failed"]
    /\ UNCHANGED <<connVars, turns, requests, cancel, waiting, holder, sessVars,
                   reader, questions, abandoned, shut>>

\* The server has stored a terminal state and ends the context of the Execute
\* that still runs (external: LocalManager).
ServerStops(t) ==
    /\ ~exec[t].gone /\ exec[t].pc # "idle" /\ stored[t] \in Terminal
    /\ exec' = [exec EXCEPT ![t].gone = TRUE]
    /\ UNCHANGED <<connVars, turns, requests, cancel, stored, waiting, holder,
                   sessVars, reader, questions, abandoned, shut>>

shutVars == <<reqVars, stored, waiting, holder, sessVars, reader, abandoned>>

Shutdown ==
    /\ setting.shutdown /\ shut.pc = "none"
    /\ shut' = [shut EXCEPT !.draining = TRUE, !.pc = "wait",
                  !.drained = waiting = {} /\ \A i \in TurnIds : ~turns[i].registered]
    /\ UNCHANGED <<connVars, shutVars, exec, turns, questions>>

\* Shutdown's wait ends: drained, or its context ends and what is left is
\* stopped.
ShutdownWaits ==
    /\ shut.pc = "wait"
    /\ \/ shut.drained /\ UNCHANGED <<exec, turns, questions>>
       \/ /\ exec' = [t \in Tasks |-> IF t \in waiting /\ exec[t].ctx = "live"
                                 THEN [exec[t] EXCEPT !.ctx = "draining"] ELSE exec[t]]
          /\ turns' = [i \in TurnIds |-> IF turns[i].registered THEN Canceled(turns[i]) ELSE turns[i]]
          /\ questions' = Respond(UNION {CanceledQuestions(turns[i]) :
                                            i \in {i \in TurnIds : turns[i].registered}})
    /\ shut' = [shut EXCEPT !.pc = "close"]
    /\ UNCHANGED <<connVars, shutVars>>

\* Close: the running process is stopped.
Close ==
    /\ shut.pc = "close"
    /\ shut' = [shut EXCEPT !.pc = "over", !.closed = TRUE]
    /\ conn' = [p \in Procs |-> IF conn[p] = "open" THEN "done" ELSE conn[p]]
    /\ owed' = {}
    /\ UNCHANGED <<nextID, pending, chan, shutVars, exec, turns, questions>>

-----------------------------------------------------------------------------
ExecuteStep(t) ==
    \/ Decide(t) \/ Resume(t) \/ TakePending(t) \/ SendReply(t) \/ Interrupt(t)
    \/ StartTurn(t) \/ LockContext(t) \/ AcquireAgent(t) \/ BeginSession(t) \/ EndSession(t)
    \/ Register(t) \/ Working(t) \/ Pump(t) \/ Ask(t) \/ Pause(t)

PromptStep(i) ==
    \/ SendPrompt(i) \/ PromptReturns(i) \/ EndTurn(i) \/ Abandon(i) \/ Leave(i)

\* What the executor's goroutines and timers do by themselves.
Progress ==
    /\ UNCHANGED setting
    /\ \/ \E t \in Tasks : ExecuteStep(t) \/ CancelActs(t) \/ ServerStops(t)
       \/ \E i \in TurnIds : PromptStep(i) \/ Expire(i) \/ Inactive(i) \/ CancelTimeout(i)
       \/ \E p \in Procs : QueueQuestion(p)
       \/ ShutdownWaits \/ Close

\* What callers, the server and the agents decide to do.
Arrivals ==
    /\ UNCHANGED setting
    /\ \/ \E t \in Tasks : ExecuteBegins(t) \/ CancelFinds(t) \/ RequestEnds(t)
       \/ \E i \in TurnIds : SessionUpdate(i) \/ AgentAsks(i)
       \/ \E o \in owed : AgentResponds(o)
       \/ \E p \in Procs : AgentExits(p)
       \/ Shutdown

Next == Arrivals \/ Progress

Spec == Init /\ [][Next]_vars
FairSpec == Spec /\ WF_vars(Progress)

-----------------------------------------------------------------------------
(* Properties *)

Starting(t) == exec[t].pc \in {"acquire", "session", "call", "register"}

\* The turns of a context do not overlap (executor.go: "waits for the previous
\* turn in the context to finish"): the lock passes from Execute to the prompt
\* goroutine and is given back once, on every path.
OneTurnPerContext ==
    \A c \in Contexts :
        Cardinality({t \in Tasks : ContextOf[t] = c /\ Starting(t)})
          + Cardinality({i \in TurnIds : ContextOf[turns[i].task] = c /\ turns[i].registered})
        <= 1

\* The agent gets at most one answer to a question, though the caller's reply,
\* an interruption, Cancel, the question timer, the inactivity timer and
\* Shutdown all may answer it (turn.go, takePending and cancel); and a question
\* waits for the caller only while its turn can still use the answer
\* (setPending): never on a turn that is canceled or over.
AnsweredOnce ==
    /\ \A q \in DOMAIN questions : questions[q].answers <= 1
    /\ \A i \in TurnIds : turns[i].pending # 0 =>
          /\ ~turns[i].canceled /\ ~turns[i].ended /\ turns[i].registered
          /\ questions[turns[i].pending].answers = 0

\* No task waits for an answer to a turn that is over without anybody having
\* been told: Execute reports the end, or the hook Abandoned does.
EndReported ==
    \A t \in Tasks : stored[t] = "input-required" /\ exec[t].pc = "idle" =>
        \E i \in TurnIds : /\ turns[i].task = t
                          /\ turns[i].prompt \in {"reported", "done"} => i \in abandoned

\* Once Shutdown has found the executor drained nothing runs in it any more
\* and nothing starts: no task waits for a turn and no turn is registered.
DrainedIsQuiet ==
    shut.drained => waiting = {} /\ \A i \in TurnIds : ~turns[i].registered

\* The executor's books: types, turns and the lock of a context, draining.
TurnsExact == TypeOK /\ OneTurnPerContext /\ DrainedIsQuiet

\* A prompt the agent has answered ends as the answer says, even when the
\* agent exits right after it (conn.go, Call: done and the response race).
AnswerBeatsExit ==
    [][\A i \in TurnIds :
          turns[i].prompt = "sent" /\ turns'[i].prompt = "responded"
             /\ chan[turns[i].call] = "end_turn" /\ ~turns[i].inactive
          => turns'[i].result = "completed"]_vars

\* A task that has ended, for whatever reason, gives back its context: it
\* neither holds the lock nor waits for it for ever.
EndedTasksLeave ==
    \A t \in Tasks : stored[t] \in Terminal ~> holder[ContextOf[t]] # t /\ t \notin waiting
=============================================================================
