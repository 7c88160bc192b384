---------------------------- MODULE LocalManager ----------------------------
(***************************************************************************)
(* taskexec.localManager: executions, cancelations and subscriptions of    *)
(* several tasks in one process.  Every call of Execute, Cancel and        *)
(* Resubscribe runs in its own goroutine; an execution adds a producer     *)
(* (the agent), a consumer (processEvents) and an inactivity watcher that  *)
(* share the context of an errgroup.  An access under the manager's mutex  *)
(* is one step.                                                            *)
(*                                                                         *)
(* What the processor does to the store is modelled in full by TaskUpdate; *)
(* here an event is the state it puts the task in (or "message") and       *)
(* processing it has the outcomes that module allows a worker without      *)
(* competitors.  The broadcast queue is the one of EventQueue with room    *)
(* for every event of a run.                                               *)
(***************************************************************************)
EXTENDS Naturals, Sequences, FiniteSets

CONSTANTS
    Tasks,
    Execs,          \* calls of Execute
    Starters,       \* those without a TaskID: they make a new task
    Cancels,        \* calls of Cancel
    Resubs,         \* calls of Resubscribe
    TaskOf,         \* the task of each call
    Scopes,         \* limiter scopes
    ScopeOf,        \* the scope attached to the context of a call of Execute
    Settings,       \* the configurations of a manager and what is asked of it
    None

Subs == Execs \cup Resubs  \* x \in Execs also names its default subscription

TerminalStates == {"completed", "canceled", "failed"}
States == TerminalStates \cup {"working", "input-required"}
Events == States \cup {"message"}
Outcomes == Events \cup {"none", "error"}

Terminal(s) == s \in TerminalStates
IsFinal(e) == Terminal(e) \/ e \in {"input-required", "message"}

ASSUME CallsAssumption ==
    /\ Execs \cap Resubs = {} /\ Starters \subseteq Execs
    /\ TaskOf \in [Execs \cup Cancels \cup Resubs -> Tasks]
    /\ \A x, y \in Starters : TaskOf[x] = TaskOf[y] => x = y
    /\ ScopeOf \in [Execs -> Scopes]
    /\ None \notin Execs \cup Cancels \cup Tasks

Setting == [
    calls         : SUBSET (Subs \cup Cancels), \* the calls that are made
    leavers       : SUBSET (Subs \cup Cancels), \* those whose client may go away
    maxExecutions : Nat,             \* ConcurrencyConfig.MaxExecutions, 0 for no limit
    maxPerScope   : Nat,             \* ConcurrencyConfig.GetMaxExecutions, 0 for no limit
    inactivity    : BOOLEAN,         \* AgentInactivityTimeout is set
    push          : BOOLEAN,         \* push notifications are configured
    queueErrors   : BOOLEAN,         \* the eventqueue.Manager may refuse to make a queue
    agentEvents   : SUBSET Events,   \* what AgentExecutor.Execute may yield
    cancelEvents  : SUBSET States,   \* what AgentExecutor.Cancel may yield
    maxEvents     : Nat]             \* bound: events of one execution

ASSUME SettingsAssumption == Settings \subseteq Setting

VARIABLES
    setting,      \* the configuration and the calls of this behaviour
    stored,       \* the store: state ("none" before the task exists) and version
    executions,   \* localManager.executions
    cancelations, \* localManager.cancelations
    quota,        \* concurrencyLimiter.executions
    byScope,      \* concurrencyLimiter.executionsByScope
    ex,           \* an Execute call and its localExecution
    can,          \* a Cancel call and its cancelation
    readers,      \* reader queues registered with the task's broker
    sub           \* a localSubscription and its queue

managerVars == <<setting, executions, cancelations, quota, byScope>>
vars == <<stored, managerVars, ex, can, readers, sub>>

Message == [event : Outcomes, version : Nat]
Nothing == [event |-> "none", version |-> 0]
Promise == [done : BOOLEAN, value : Outcomes]
Unresolved == [done |-> FALSE, value |-> "none"]

Execution == [
    pc         : {"idle", "wait", "create", "refused", "queues", "setup", "run",
                  "destroy", "closePipe", "unregister", "done"},
    waitingFor : Execs \cup {None},  \* the exiting execution a follow-up waited for
    agent      : {"off", "on"},      \* the producer goroutine
    sent       : Nat,                \* events the agent has yielded so far
    pipe       : Seq(Events),
    ctxDone    : BOOLEAN,            \* the errgroup's context is canceled
    cons       : {"off", "read", "flag", "publish", "error", "stopped"}, \* the consumer
    out        : Message,            \* the event it is about to broadcast
    result     : Outcomes,           \* the result it is about to return, "none" to go on
    exiting    : BOOLEAN,
    promise    : Promise]

Cancelation == [
    pc      : {"idle", "setup", "write", "wrote", "await", "alone", "aloneMore", "finish", "done"},
    run     : Execs \cup {None},     \* the execution it found
    leader  : Cancels \cup {None},   \* the call whose cancelation this call waits for
    promise : Promise,
    return  : {"none", "canceled", "error"}]

Subscriber == [
    pc     : {"none", "refused", "snapshot", "reading", "promise", "ended", "left"},
    of     : Execs \cup {None},      \* the execution it was made for
    queue  : Seq(Message),
    closed : BOOLEAN,                \* the broker closed the queue
    snap   : Nat,                    \* emittedTaskVersion
    seen   : Message]                \* history: the last thing it yielded

NewExecution == [pc |-> "idle", waitingFor |-> None, agent |-> "off", sent |-> 0, pipe |-> <<>>,
                 ctxDone |-> FALSE, cons |-> "off", out |-> Nothing, result |-> "none",
                 exiting |-> FALSE, promise |-> Unresolved]
NewCancelation == [pc |-> "idle", run |-> None, leader |-> None, promise |-> Unresolved,
                   return |-> "none"]
NewSubscription == [pc |-> "none", of |-> None, queue |-> <<>>, closed |-> FALSE, snap |-> 0,
                    seen |-> Nothing]

Init ==
    /\ setting \in Settings
    /\ stored = [t \in Tasks |-> IF \E x \in Starters : TaskOf[x] = t
                                 THEN [state |-> "none", version |-> 0]
                                 ELSE [state |-> "input-required", version |-> 1]]
    /\ executions = [t \in Tasks |-> None]
    /\ cancelations = [t \in Tasks |-> None]
    /\ quota = 0
    /\ byScope = [s \in Scopes |-> 0]
    /\ ex = [x \in Execs |-> NewExecution]
    /\ can = [c \in Cancels |-> NewCancelation]
    /\ readers = [t \in Tasks |-> {}]
    /\ sub = [s \in Subs |-> NewSubscription]

\* The id of a new task is made by Execute: nobody can name it before.
Known(t) == \A x \in Starters : TaskOf[x] = t => ex[x].pc # "idle"

Exists(t) == stored[t].state # "none"
Active(t) == Exists(t) /\ ~Terminal(stored[t].state)

\* The store accepts the next state of a task.
Save(t, s) == stored' = [stored EXCEPT ![t] = [state |-> s, version |-> @.version + 1]]

OnlyExecution == UNCHANGED <<managerVars, can, readers, sub>>
OnlyCancelation == UNCHANGED <<managerVars, readers, sub>>

-----------------------------------------------------------------------------
(***************************************************************************)
(* Execute.                                                                *)
(***************************************************************************)
\* waitForExiting: a follow-up is refused by a running execution and waits
\* for one that is known to be about to finish.
ExecuteCall(x) ==
    LET y == executions[TaskOf[x]] IN
    /\ x \in setting.calls /\ ex[x].pc = "idle"
    /\ x \in Starters \/ Known(TaskOf[x])
    /\ ex' = IF x \in Starters \/ y = None THEN [ex EXCEPT ![x].pc = "create"]
             ELSE IF ~ex[y].exiting THEN [ex EXCEPT ![x].pc = "refused"]
             ELSE [ex EXCEPT ![x].pc = "wait", ![x].waitingFor = y]
    /\ UNCHANGED stored /\ OnlyExecution

WaitExiting(x) ==
    /\ ex[x].pc = "wait" /\ ex[ex[x].waitingFor].promise.done
    /\ ex' = [ex EXCEPT ![x].pc = "create"]
    /\ UNCHANGED stored /\ OnlyExecution

\* The caller's context ends while it waits.
WaitAbandoned(x) ==
    /\ ex[x].pc = "wait" /\ x \in setting.leavers
    /\ ex' = [ex EXCEPT ![x].pc = "refused"]
    /\ UNCHANGED stored /\ OnlyExecution

\* concurrencyLimiter.acquireQuotaLocked would refuse the call.
OverQuota(x) ==
    \/ setting.maxExecutions > 0 /\ quota >= setting.maxExecutions
    \/ setting.maxPerScope > 0 /\ byScope[ScopeOf[x]] >= setting.maxPerScope

Acquire(x) == quota' = quota + 1 /\ byScope' = [byScope EXCEPT ![ScopeOf[x]] = @ + 1]
Release(x) == quota' = quota - 1 /\ byScope' = [byScope EXCEPT ![ScopeOf[x]] = @ - 1]

\* Mutant: a cancelation in progress is not looked at.
RefusesOnlyExecutions(x) == executions[TaskOf[x]] # None \/ OverQuota(x)

\* createExecution's conditions, under the mutex.
Refuses(x) ==
    executions[TaskOf[x]] # None \/ cancelations[TaskOf[x]] # None \/ OverQuota(x)

CreateExecution(x) ==
    /\ ex[x].pc = "create"
    /\ IF Refuses(x)
       THEN ex' = [ex EXCEPT ![x].pc = "refused"] /\ UNCHANGED <<executions, quota, byScope>>
       ELSE /\ executions' = [executions EXCEPT ![TaskOf[x]] = x]
            /\ Acquire(x)
            /\ ex' = [ex EXCEPT ![x].pc = "queues"]
    /\ UNCHANGED <<setting, stored, cancelations, can, readers, sub>>

\* CreateWriter and CreateReader; then the execution runs detached.
CreateQueues(x) ==
    /\ ex[x].pc = "queues"
    /\ ex' = [ex EXCEPT ![x].pc = "setup"]
    /\ readers' = [readers EXCEPT ![TaskOf[x]] = @ \cup {x}]
    /\ sub' = [sub EXCEPT ![x].pc = "reading", ![x].of = x]
    /\ UNCHANGED <<stored, managerVars, can>>

\* A queue cannot be made: clean up and return the error, no result is set.
CreateQueuesFails(x) ==
    /\ ex[x].pc = "queues" /\ setting.queueErrors
    /\ ex' = [ex EXCEPT ![x].pc = "destroy"]
    /\ UNCHANGED stored /\ OnlyExecution

\* A follow-up's message goes into the history of the stored task.
UpdateHistory(x) == IF x \in Starters THEN UNCHANGED stored
                    ELSE Active(TaskOf[x]) /\ Save(TaskOf[x], stored[TaskOf[x]].state)

\* factory.CreateExecutor; then producer and consumer start.
SetupExecution(x) ==
    /\ ex[x].pc = "setup"
    /\ UpdateHistory(x)
    /\ ex' = [ex EXCEPT ![x].pc = "run", ![x].agent = "on", ![x].cons = "read"]
    /\ OnlyExecution

\* The task is missing or finished, or its push config cannot be saved, which
\* is tried after the message was stored.
SetupFails(x) ==
    /\ ex[x].pc = "setup"
    /\ \/ x \notin Starters /\ ~Active(TaskOf[x]) /\ UNCHANGED stored
       \/ setting.push /\ UpdateHistory(x)
    /\ ex' = [ex EXCEPT ![x].pc = "destroy", ![x].promise.value = "error"]
    /\ OnlyExecution

-----------------------------------------------------------------------------
(***************************************************************************)
(* runProducerConsumer: the producer and the inactivity watcher.           *)
(***************************************************************************)
\* The agent yields an event and executor.Execute writes it to the pipe.  A
\* canceled context need not stop a write that has room.
Emit(x) ==
    /\ ex[x].agent = "on" /\ ex[x].sent < setting.maxEvents
    /\ \E e \in setting.agentEvents :
         ex' = [ex EXCEPT ![x].pipe = Append(@, e), ![x].sent = @ + 1]
    /\ UNCHANGED stored /\ OnlyExecution

\* The agent returns without an error: the consumer is not told.
AgentReturns(x) ==
    /\ ex[x].agent = "on"
    /\ ex' = [ex EXCEPT ![x].agent = "off"]
    /\ UNCHANGED stored /\ OnlyExecution

\* It fails or panics, or sees that its context is done: the group's is, too.
AgentFails(x) ==
    /\ ex[x].agent = "on"
    /\ ex' = [ex EXCEPT ![x].agent = "off", ![x].ctxDone = TRUE]
    /\ UNCHANGED stored /\ OnlyExecution

InactivityTimeout(x) ==
    /\ setting.inactivity /\ ex[x].pc = "run" /\ ~ex[x].ctxDone
    /\ ex' = [ex EXCEPT ![x].ctxDone = TRUE]
    /\ UNCHANGED stored /\ OnlyExecution

-----------------------------------------------------------------------------
(***************************************************************************)
(* processEvents: the consumer.                                            *)
(***************************************************************************)
Reads(x) == ex[x].cons = "read" /\ ex[x].pipe # <<>>

\* Reading an event and processor.Process up to its return; r is the
\* ExecutionResult ("none" without one, "error" if Process fails).
Processed(x, event, version, r) ==
    /\ ex' = [ex EXCEPT ![x].pipe = Tail(@), ![x].cons = "flag", ![x].result = r,
                        ![x].out = [event |-> event, version |-> version]]
    /\ OnlyExecution

\* The event is stored.  A message is only a valid answer without a task.
ProcessEvent(x) ==
    LET t == TaskOf[x]
        e == Head(ex[x].pipe)
    IN  /\ Reads(x)
        /\ IF e = "message"
           THEN ~Exists(t) /\ UNCHANGED stored /\ Processed(x, e, 0, e)
           ELSE /\ Save(t, e)
                /\ Processed(x, e, stored[t].version + 1, IF IsFinal(e) THEN e ELSE "none")

\* The event is rejected: the task, if there is one, is moved to failed, and
\* that is what subscribers are sent instead.
RejectEvent(x) ==
    LET t == TaskOf[x] IN
    /\ Reads(x)
    /\ IF Exists(t)
       THEN Save(t, "failed") /\ Processed(x, "failed", stored[t].version + 1, "failed")
       ELSE UNCHANGED stored /\ Processed(x, "none", 0, "error")

\* The event is stored, but the push notification fails: the task is moved to
\* failed unless the event already ended it.
PushFails(x) ==
    LET t == TaskOf[x]
        e == Head(ex[x].pipe)
    IN  /\ setting.push /\ Reads(x)
        /\ IF e = "message"
           THEN ~Exists(t) /\ UNCHANGED stored /\ Processed(x, "none", 0, "error")
           ELSE IF Terminal(e) THEN Save(t, e) /\ Processed(x, "none", 0, "error")
           ELSE /\ stored' = [stored EXCEPT ![t] =
                                [state |-> "failed", version |-> @.version + 2]]
                /\ Processed(x, "failed", stored[t].version + 2, "failed")

\* Mutant: only a processing error counts as exiting.
ExitsOnError(r) == r = "error"

\* The exiting flag handleEventFn derives from what Process returned.
Exits(r) == r # "none"

\* The flag is stored before anything is broadcast.  A consumer that stops
\* cancels the context of the group.
FlagExiting(x) ==
    /\ ex[x].cons = "flag"
    /\ ex' = IF ex[x].result = "error"
             THEN [ex EXCEPT ![x].exiting = Exits("error"), ![x].cons = "stopped",
                             ![x].ctxDone = TRUE]
             ELSE [ex EXCEPT ![x].exiting = Exits(ex[x].result), ![x].cons = "publish"]
    /\ UNCHANGED stored /\ OnlyExecution

Broadcast(x) ==
    sub' = [s \in Subs |-> IF s \in readers[TaskOf[x]]
                           THEN [sub[s] EXCEPT !.queue = Append(@, ex[x].out)] ELSE sub[s]]

\* The event reaches every subscriber; with a result the consumer stops.
Publish(x) ==
    /\ ex[x].cons = "publish"
    /\ Broadcast(x)
    /\ ex' = IF ex[x].result = "none" THEN [ex EXCEPT ![x].cons = "read"]
             ELSE [ex EXCEPT ![x].cons = "stopped", ![x].ctxDone = TRUE]
    /\ UNCHANGED <<stored, managerVars, can, readers>>

\* The context ends during the broadcast, which may or may not be delivered.
PublishFails(x) ==
    /\ ex[x].cons = "publish" /\ ex[x].ctxDone
    /\ Broadcast(x) \/ UNCHANGED sub
    /\ ex' = [ex EXCEPT ![x].cons = "error", ![x].result = "none"]
    /\ UNCHANGED <<stored, managerVars, can, readers>>

\* Read returns the context's error, even if there are events in the pipe.
ReadFails(x) ==
    /\ ex[x].cons = "read" /\ ex[x].ctxDone
    /\ ex' = [ex EXCEPT ![x].cons = "error"]
    /\ UNCHANGED stored /\ OnlyExecution

\* Mutant: a task that has ended is moved to failed, too.
HandleErrorAlways(x) ==
    /\ ex[x].cons = "error"
    /\ IF Exists(TaskOf[x])
       THEN Save(TaskOf[x], "failed")
              /\ ex' = [ex EXCEPT ![x].cons = "stopped", ![x].result = "failed"]
       ELSE UNCHANGED stored
              /\ ex' = [ex EXCEPT ![x].cons = "stopped", ![x].result = "error"]
    /\ OnlyExecution

\* ProcessError moves the task to failed, unless there is none or it ended.
HandleError(x) ==
    /\ ex[x].cons = "error"
    /\ IF Active(TaskOf[x])
       THEN Save(TaskOf[x], "failed")
              /\ ex' = [ex EXCEPT ![x].cons = "stopped", ![x].result = "failed"]
       ELSE UNCHANGED stored
              /\ ex' = [ex EXCEPT ![x].cons = "stopped", ![x].result = "error"]
    /\ OnlyExecution

\* group.Wait returns and the execution's result is set.
ExecutionReturns(x) ==
    /\ ex[x].pc = "run" /\ ex[x].cons = "stopped" /\ ex[x].agent = "off"
    /\ ex' = [ex EXCEPT ![x].pc = "destroy", ![x].promise.value = ex[x].result]
    /\ UNCHANGED stored /\ OnlyExecution

-----------------------------------------------------------------------------
(***************************************************************************)
(* cleanupExecution: the queue, then the pipe, then the registration.      *)
(***************************************************************************)
DestroyQueue(x) ==
    LET t == TaskOf[x] IN
    /\ ex[x].pc = "destroy"
    /\ sub' = [s \in Subs |-> [sub[s] EXCEPT !.closed = @ \/ s \in readers[t]]]
    /\ readers' = [readers EXCEPT ![t] = {}]
    /\ ex' = [ex EXCEPT ![x].pc = "closePipe"]
    /\ UNCHANGED <<stored, managerVars, can>>

ClosePipe(x) ==
    /\ ex[x].pc = "closePipe"
    /\ ex' = [ex EXCEPT ![x].pc = "unregister"]
    /\ UNCHANGED stored /\ OnlyExecution

PipeClosed(x) == ex[x].pc \in {"unregister", "done"}

\* Mutant: the promise is not signaled.
UnregisterSilently(x) ==
    /\ ex[x].pc = "unregister"
    /\ Release(x)
    /\ executions' = [executions EXCEPT ![TaskOf[x]] = None]
    /\ ex' = [ex EXCEPT ![x].pc = "done"]
    /\ UNCHANGED <<setting, stored, cancelations, can, readers, sub>>

\* Under the mutex; releaseQuotaLocked finds the scope in the same context.
Unregister(x) ==
    /\ ex[x].pc = "unregister"
    /\ Release(x)
    /\ executions' = [executions EXCEPT ![TaskOf[x]] = None]
    /\ ex' = [ex EXCEPT ![x].pc = "done", ![x].promise.done = TRUE]
    /\ UNCHANGED <<setting, stored, cancelations, can, readers, sub>>

-----------------------------------------------------------------------------
(***************************************************************************)
(* Cancel.                                                                 *)
(***************************************************************************)
\* Under the mutex: join the task's cancelation or register a new one.
CancelCall(c) ==
    LET t == TaskOf[c] IN
    /\ c \in setting.calls /\ can[c].leader = None /\ Known(t)
    /\ IF cancelations[t] = None
       THEN /\ cancelations' = [cancelations EXCEPT ![t] = c]
            /\ can' = [can EXCEPT ![c].pc = "setup", ![c].leader = c, ![c].run = executions[t]]
       ELSE /\ can' = [can EXCEPT ![c].leader = cancelations[t]]
            /\ UNCHANGED cancelations
    /\ UNCHANGED <<setting, stored, executions, quota, byScope, ex, readers, sub>>

\* cancel.result.setValue or setError, then the deferred cleanup.
Resolve(c, v) == can' = [can EXCEPT ![c].pc = "finish", ![c].promise.value = v]

\* factory.CreateCanceler.
Cancelable(t) == Active(t) \/ stored[t].state = "canceled"

CancelSetup(c) ==
    /\ can[c].pc = "setup"
    /\ IF ~Cancelable(TaskOf[c]) THEN Resolve(c, "error")
       ELSE can' = [can EXCEPT ![c].pc = IF can[c].run = None THEN "alone" ELSE "write"]
    /\ UNCHANGED <<stored, ex>> /\ OnlyCancelation

\* A task that is canceled already is emitted as it is.
CancelEmits(t) == IF stored[t].state = "canceled" THEN {"canceled"} ELSE setting.cancelEvents

\* handleCancelWithConcurrentRun: the canceler writes to the execution's pipe
\* (bound: one event) ...
CancelWrites(c) ==
    /\ can[c].pc = "write" /\ ~PipeClosed(can[c].run)
    /\ \E e \in CancelEmits(TaskOf[c]) : ex' = [ex EXCEPT ![can[c].run].pipe = Append(@, e)]
    /\ can' = [can EXCEPT ![c].pc = "wrote"]
    /\ UNCHANGED stored /\ OnlyCancelation

\* ... and returns, on ErrQueueClosed too: wait for the execution ...
CancelOnPipe(c) ==
    /\ can[c].pc \in {"write", "wrote"}
    /\ can' = [can EXCEPT ![c].pc = "await"]
    /\ UNCHANGED <<stored, ex>> /\ OnlyCancelation

\* ... or the agent's Cancel fails or panics.
CancelOnPipeFails(c) ==
    /\ can[c].pc \in {"write", "wrote"}
    /\ Resolve(c, "error")
    /\ UNCHANGED <<stored, ex>> /\ OnlyCancelation

AwaitRun(c) ==
    /\ can[c].pc = "await" /\ ex[can[c].run].promise.done
    /\ Resolve(c, ex[can[c].run].promise.value)
    /\ UNCHANGED <<stored, ex>> /\ OnlyCancelation

\* handleCancel: a pipeline of its own, without a broadcast.  (Bound: one
\* event that does not end it.)
AloneEvent(c) ==
    LET t == TaskOf[c] IN
    /\ can[c].pc \in {"alone", "aloneMore"}
    /\ \E e \in CancelEmits(t) :
        /\ IF stored[t].state = "canceled" THEN UNCHANGED stored ELSE Save(t, e)
        /\ IF IsFinal(e) THEN Resolve(c, e)
           ELSE can[c].pc = "alone" /\ can' = [can EXCEPT ![c].pc = "aloneMore"]
    /\ UNCHANGED ex /\ OnlyCancelation

\* Its push notification fails: like PushFails.
AlonePushFails(c) ==
    LET t == TaskOf[c] IN
    /\ setting.push /\ can[c].pc \in {"alone", "aloneMore"}
    /\ \E e \in CancelEmits(t) :
        IF Terminal(e)
        THEN /\ IF stored[t].state = "canceled" THEN UNCHANGED stored ELSE Save(t, e)
             /\ Resolve(c, "error")
        ELSE /\ stored' = [stored EXCEPT ![t] = [state |-> "failed", version |-> @.version + 2]]
             /\ Resolve(c, "failed")
    /\ UNCHANGED ex /\ OnlyCancelation

\* The processor rejects the event and moves the task to failed.
AloneRejects(c) ==
    /\ can[c].pc \in {"alone", "aloneMore"} /\ stored[TaskOf[c]].state # "canceled"
    /\ Save(TaskOf[c], "failed")
    /\ Resolve(c, "failed")
    /\ UNCHANGED ex /\ OnlyCancelation

\* The agent's Cancel fails, or the inactivity timeout ends it: its consumer
\* returns the error as it is.
AloneFails(c) ==
    /\ can[c].pc \in {"alone", "aloneMore"}
    /\ Resolve(c, "error")
    /\ UNCHANGED <<stored, ex>> /\ OnlyCancelation

\* Under the mutex.
FinishCancel(c) ==
    /\ can[c].pc = "finish"
    /\ cancelations' = [cancelations EXCEPT ![TaskOf[c]] = None]
    /\ can' = [can EXCEPT ![c].pc = "done", ![c].promise.done = TRUE]
    /\ UNCHANGED <<setting, stored, executions, quota, byScope, ex, readers, sub>>

\* convertToCancelationResult: anything but a canceled task is an error.
Convert(v) == IF v = "canceled" THEN "canceled" ELSE "error"

CancelReturns(c) ==
    /\ can[c].leader # None /\ can[c].return = "none"
    /\ can[can[c].leader].promise.done
    /\ can' = [can EXCEPT ![c].return = Convert(can[can[c].leader].promise.value)]
    /\ UNCHANGED <<stored, ex>> /\ OnlyCancelation

\* The caller's context ends while it waits; the cancelation goes on.
CancelAbandoned(c) ==
    /\ can[c].leader # None /\ can[c].return = "none" /\ c \in setting.leavers
    /\ can' = [can EXCEPT ![c].return = "error"]
    /\ UNCHANGED <<stored, ex>> /\ OnlyCancelation

-----------------------------------------------------------------------------
(***************************************************************************)
(* Resubscribe and localSubscription.Events.                               *)
(***************************************************************************)
OnlySubscription == UNCHANGED <<stored, managerVars, ex, can>>

\* Under the mutex: connect to the broker of the task's active execution.
Resubscribe(s) ==
    LET x == executions[TaskOf[s]] IN
    /\ s \in Resubs \cap setting.calls /\ sub[s].pc = "none" /\ Known(TaskOf[s])
    /\ \/ /\ x = None \/ setting.queueErrors
          /\ sub' = [sub EXCEPT ![s].pc = "refused"]
          /\ UNCHANGED readers
       \/ /\ x # None
          /\ readers' = [readers EXCEPT ![TaskOf[s]] = @ \cup {s}]
          /\ sub' = [sub EXCEPT ![s].pc = "snapshot", ![s].of = x]
    /\ OnlySubscription

\* Events returns and its deferred queue.Close disconnects the queue.
Ends(s, label, yielded) ==
    /\ sub' = [sub EXCEPT ![s].pc = label, ![s].seen = yielded, ![s].queue = <<>>]
    /\ readers' = [readers EXCEPT ![TaskOf[s]] = @ \ {s}]

\* A resubscription starts with the stored task; a terminal one ends it.
SubSnapshot(s) ==
    LET task == stored[TaskOf[s]]
        yielded == [event |-> task.state, version |-> task.version]
    IN  /\ sub[s].pc = "snapshot"
        /\ IF Terminal(task.state) THEN Ends(s, "ended", yielded)
           ELSE /\ sub' = [sub EXCEPT ![s].pc = "reading", ![s].seen = yielded,
                                      ![s].snap = task.version]
                /\ UNCHANGED readers
        /\ OnlySubscription

\* Mutant: the version after the snapshot's is filtered, too.
AfterNext(v, other) == other = 0 \/ (v # 0 /\ other + 1 < v)

\* Mutant: nothing is filtered.
AfterAlways(v, other) == TRUE

\* TaskVersion.After.
After(v, other) == other = 0 \/ (v # 0 /\ other < v)

SubRead(s) ==
    LET msg == Head(sub[s].queue) IN
    /\ sub[s].pc = "reading" /\ sub[s].queue # <<>>
    /\ IF ~After(msg.version, sub[s].snap)
       THEN sub' = [sub EXCEPT ![s].queue = Tail(@)] /\ UNCHANGED readers
       ELSE IF IsFinal(msg.event) THEN Ends(s, "ended", msg)
       ELSE sub' = [sub EXCEPT ![s].queue = Tail(@), ![s].seen = msg] /\ UNCHANGED readers
    /\ OnlySubscription

\* ErrQueueClosed: fall back to the promise of the execution ...
SubQueueClosed(s) ==
    /\ sub[s].pc = "reading" /\ sub[s].queue = <<>> /\ sub[s].closed
    /\ sub' = [sub EXCEPT ![s].pc = "promise"]
    /\ UNCHANGED readers /\ OnlySubscription

\* ... and yield what it resolves to.
SubPromise(s) ==
    /\ sub[s].pc = "promise" /\ ex[sub[s].of].promise.done
    /\ Ends(s, "ended", [sub[s].seen EXCEPT !.event = ex[sub[s].of].promise.value])
    /\ OnlySubscription

\* The client stops consuming: its context ends or it breaks out of the loop.
Leave(s) ==
    /\ s \in setting.leavers /\ sub[s].pc \in {"snapshot", "reading", "promise"}
    /\ Ends(s, "left", sub[s].seen)
    /\ OnlySubscription

-----------------------------------------------------------------------------
Call ==
    \/ \E x \in Execs : ExecuteCall(x)
    \/ \E c \in Cancels : CancelCall(c)
    \/ \E s \in Resubs : Resubscribe(s)

Agent(x) == Emit(x) \/ AgentReturns(x) \/ AgentFails(x)

Consumer(x) ==
    \/ ProcessEvent(x) \/ RejectEvent(x) \/ PushFails(x) \/ FlagExiting(x)
    \/ Publish(x) \/ PublishFails(x) \/ ReadFails(x) \/ HandleError(x)

Execute(x) ==
    \/ WaitExiting(x) \/ CreateExecution(x) \/ CreateQueues(x) \/ CreateQueuesFails(x)
    \/ SetupExecution(x) \/ SetupFails(x) \/ ExecutionReturns(x)
    \/ DestroyQueue(x) \/ ClosePipe(x) \/ Unregister(x)

Cancel(c) ==
    \/ CancelSetup(c) \/ CancelWrites(c) \/ CancelOnPipe(c) \/ CancelOnPipeFails(c)
    \/ AwaitRun(c) \/ AloneEvent(c) \/ AlonePushFails(c) \/ AloneRejects(c)
    \/ AloneFails(c) \/ FinishCancel(c) \/ CancelReturns(c)

Subscription(s) == SubSnapshot(s) \/ SubRead(s) \/ SubQueueClosed(s) \/ SubPromise(s)

Next ==
    \/ Call
    \/ \E x \in Execs : Agent(x) \/ InactivityTimeout(x) \/ Consumer(x) \/ Execute(x)
    \/ \E x \in Execs : WaitAbandoned(x)
    \/ \E c \in Cancels : Cancel(c) \/ CancelAbandoned(c)
    \/ \E s \in Subs : Subscription(s) \/ Leave(s)

Spec == Init /\ [][Next]_vars

(***************************************************************************)
(* Fairness: the manager's own goroutines run, the inactivity timer (if    *)
(* configured) fires, an agent returns when its context is done, and its   *)
(* Cancel returns or fails.  Nobody has to call, to yield events or to     *)
(* leave.  Every step uses up a call, an event or a program point, so it   *)
(* is enough that some goroutine that can run does.                        *)
(***************************************************************************)
Progress ==
    \/ \E x \in Execs : \/ ex[x].ctxDone /\ AgentFails(x)
                        \/ InactivityTimeout(x) \/ Consumer(x) \/ Execute(x)
    \/ \E c \in Cancels : Cancel(c)
    \/ \E s \in Subs : Subscription(s)

FairSpec == Spec /\ WF_vars(Progress)

-----------------------------------------------------------------------------
(***************************************************************************)
(* Properties.                                                             *)
(***************************************************************************)
\* The variables have the types of the code's fields.
TypeOK ==
    /\ setting \in Settings
    /\ stored \in [Tasks -> [state : States \cup {"none"}, version : Nat]]
    /\ executions \in [Tasks -> Execs \cup {None}]
    /\ cancelations \in [Tasks -> Cancels \cup {None}]
    /\ quota \in Nat /\ byScope \in [Scopes -> Nat]
    /\ ex \in [Execs -> Execution]
    /\ can \in [Cancels -> Cancelation]
    /\ readers \in [Tasks -> SUBSET Subs]
    /\ sub \in [Subs -> Subscriber]

\* Executions that hold their registration, pipelines that process events.
Registered(x) == ex[x].pc \in {"queues", "setup", "run", "destroy", "closePipe", "unregister"}
Pipelines(t) ==
    {x \in Execs : TaskOf[x] = t /\ ex[x].pc \in {"setup", "run"}}
      \cup {c \in Cancels : TaskOf[c] = t /\ can[c].run = None
                              /\ can[c].pc \in {"setup", "alone", "aloneMore"}}

\* localManager: at most one goroutine processes the events of a task, be it
\* an execution or a cancelation, however their calls and cleanups interleave.
OnePipelinePerTask == \A t \in Tasks : Cardinality(Pipelines(t)) <= 1

\* concurrencyLimiter counts exactly the registered executions, in total and
\* per scope, on every path a call can take, and stays within both limits.
QuotaExact ==
    /\ quota = Cardinality({x \in Execs : Registered(x)})
    /\ \A s \in Scopes :
         byScope[s] = Cardinality({x \in Execs : Registered(x) /\ ScopeOf[x] = s})
    /\ setting.maxExecutions > 0 => quota <= setting.maxExecutions
    /\ setting.maxPerScope > 0 => \A s \in Scopes : byScope[s] <= setting.maxPerScope

\* The manager's books: every variable has its type, one pipeline per task,
\* exact quota.
BooksExact == TypeOK /\ OnePipelinePerTask /\ QuotaExact

\* localExecution.exiting exists for fast clients: whoever has been sent the
\* final event of an execution and sends a follow-up is not told that the
\* execution is still in progress; it waits, and then does not meet it again.
FastFollowUpWaits ==
    /\ \A x \in Execs, s \in Subs :
         /\ Registered(x) /\ sub[s].of = x /\ sub[s].pc = "ended"
         /\ sub[s].seen.event \in {"input-required", "message"}
         => ex[x].exiting
    /\ \A x \in Execs : ex[x].pc = "create" /\ ex[x].waitingFor # None
            => executions[TaskOf[x]] # ex[x].waitingFor

\* A subscriber misses nothing: the event last broadcast by its execution has
\* been yielded, was part of its snapshot or is in its queue.
SubscribersCaughtUp ==
    \A s \in Subs : sub[s].pc = "reading" =>
        LET x == ex[sub[s].of] IN
        x.cons = "read" \/ (x.cons = "stopped" /\ x.result = x.out.event) =>
            \/ x.out.version <= sub[s].seen.version
            \/ \E i \in 1..Len(sub[s].queue) : sub[s].queue[i] = x.out

\* Nor is it ever sent a version of the task that is not newer than the last
\* one, in another form, although it joins with a snapshot while events are
\* being broadcast.  (The promise repeats no version: it carries none.)
SubscribersMoveForward ==
    [][\A s \in Subs :
         sub'[s].seen # sub[s].seen /\ sub[s].pc = "reading" /\ sub'[s].seen.event # "message"
           => sub'[s].seen.version > sub[s].seen.version]_sub

\* A terminal state that anybody was told (a subscriber by event, snapshot or
\* promise, a Cancel caller, a waiter on an execution) is the stored one.
ToldIsStored ==
    /\ \A s \in Subs : Terminal(sub[s].seen.event)
                         => stored[TaskOf[s]].state = sub[s].seen.event
    /\ \A x \in Execs : Terminal(ex[x].promise.value)
                         => stored[TaskOf[x]].state = ex[x].promise.value
    /\ \A c \in Cancels : can[c].return = "canceled" => stored[TaskOf[c]].state = "canceled"

\* With an inactivity timeout everything that was begun ends, whatever the
\* agent yields: an execution, so that its quota and its task are free again;
\* every Cancel, joined ones too; a follow-up that waits for an exiting
\* execution; and the stream of the client that sent the message.  (What is
\* begun is bounded: there is always a later moment when nothing is under way.)
UnderWay(x) == Registered(x) \/ ex[x].pc \in {"wait", "create"}
EverythingEnds ==
    []<>(/\ \A x \in Execs : ~UnderWay(x) /\ sub[x].pc \in {"none", "refused", "ended", "left"}
         /\ \A c \in Cancels : can[c].leader # None => can[c].return # "none")

\* docs/ai/CONCURRENCY_MODEL.md, Subscription: when the execution is cleaned up
\* the queue is closed and the subscription yields the final result.
ResubscriptionsEnd ==
    \A s \in Resubs : sub[s].pc = "reading" ~> sub[s].pc \in {"ended", "left"}
=============================================================================
