----------------------------- MODULE TaskUpdate -----------------------------
(***************************************************************************)
(* Several workers (agent executions and cancelations, each with its own   *)
(* taskupdate.Manager and processor) change ONE task of a shared           *)
(* taskstore.Store under optimistic concurrency control.  A worker runs in *)
(* its own goroutine, possibly on another server instance, so the steps of *)
(* workers interleave freely between two accesses to the store; one access *)
(* is atomic because the in-memory store holds its mutex for it.           *)
(*                                                                         *)
(* Tasks of different ids never meet in this code, so one task is enough.  *)
(* The content of a task is its status state, the ids of the user messages *)
(* in its history and the ids of its artifacts.                            *)
(***************************************************************************)
EXTENDS Naturals, Sequences

CONSTANTS
    Executors,              \* executions: CreateExecutor + processor
    Cancelers,              \* cancelations: CreateCanceler + processor
    Starters,               \* executors whose request has no TaskID: they create the task
    Messages,               \* user message ids
    MessageOf,              \* the message each executor was started with
    Artifacts,              \* artifact ids
    AgentEvents,            \* what AgentExecutor.Execute may yield
    CancelEvents,           \* what AgentExecutor.Cancel may yield
    Cluster,                \* a work queue is configured (taskRetrySupported)
    Push,                   \* a push config store and a sender are configured
    FullSnapshot,           \* UpdateMaterializer.ReturnsFullSnapshot()
    MaxCancelationAttempts, \* maxCancelationAttempts
    MaxVersion,             \* bound: agents stop emitting once this version is stored
    NoTask                  \* a nil *a2a.Task

Workers == Executors \cup Cancelers

TerminalStates == {"completed", "canceled", "failed", "rejected"}
States == TerminalStates \cup
    {"unspecified", "submitted", "working", "input-required", "auth-required"}

Terminal(s) == s \in TerminalStates

Task == [state : States, history : SUBSET Messages, artifacts : SUBSET Artifacts]

(***************************************************************************)
(* Events.  "init" is the pointer a canceler loaded and emits unchanged,   *)
(* "invalid" an event that fails validation (foreign ids, no parts).       *)
(***************************************************************************)
TaskEvent(t) == [kind |-> "task", task |-> t]
StatusEvent(s) == [kind |-> "status", state |-> s]
ArtifactEvent(a, append) == [kind |-> "artifact", artifact |-> a, append |-> append]
UserMessage(m) == [kind |-> "user", message |-> m]
AgentMessage == [kind |-> "message"]
InitEvent == [kind |-> "init"]
InvalidEvent == [kind |-> "invalid"]

Event == {TaskEvent(t) : t \in Task} \cup {StatusEvent(s) : s \in States}
            \cup {ArtifactEvent(a, b) : a \in Artifacts, b \in BOOLEAN}
            \cup {AgentMessage, InitEvent, InvalidEvent}

ASSUME WorkersAssumption ==
    /\ Executors \cap Cancelers = {}
    /\ Starters \subseteq Executors
    /\ MessageOf \in [Executors -> Messages]
    /\ ~Cluster => \A v, w \in Starters : v = w
ASSUME EventsAssumption ==
    /\ AgentEvents \subseteq Event \ {InitEvent}
    /\ CancelEvents \subseteq Event \ {InitEvent}
ASSUME ConfigAssumption ==
    /\ Cluster \in BOOLEAN
    /\ Push \in BOOLEAN
    /\ FullSnapshot \in BOOLEAN
    /\ MaxCancelationAttempts \in Nat \ {0}
    /\ MaxVersion \in Nat
ASSUME NoTaskAssumption == NoTask \notin Task

VARIABLES
    store,     \* the stored task and its version
    saved,     \* history: every task the store has held, by version
    pc,        \* where each worker is
    mgr,       \* the worker's taskupdate.Manager: tracked task, version, state
    event,     \* the event being processed
    attempts,  \* rounds of the cancelation retry loop spent on that event
    result     \* the result of the worker, once it has one

vars == <<store, saved, pc, mgr, event, attempts, result>>

TaskVersionMissing == 0

PCs == {"start", "history", "savePush", "createWriter", "run", "process", "cancelReload", "reload",
        "push", "setFailed", "loadResult", "publish", "processError",
        "loadErrorResult", "done"}

Manager == [tracked : Task \cup {NoTask}, version : Nat, state : States]
Result == [kind : {"none", "task", "message", "error"},
           task : Task \cup {NoTask}, version : Nat]

NoResult == [kind |-> "none", task |-> NoTask, version |-> TaskVersionMissing]
ErrorResult == [NoResult EXCEPT !.kind = "error"]
MessageResult == [NoResult EXCEPT !.kind = "message"]
TaskResult(t, v) == [kind |-> "task", task |-> t, version |-> v]

NewManager == [tracked |-> NoTask, version |-> TaskVersionMissing, state |-> "unspecified"]

Init ==
    /\ store = [version |-> TaskVersionMissing, task |-> NoTask]
    /\ saved = <<>>
    /\ pc = [w \in Workers |-> "start"]
    /\ mgr = [w \in Workers |-> NewManager]
    /\ event = [w \in Workers |-> InvalidEvent]
    /\ attempts = [w \in Workers |-> 0]
    /\ result = [w \in Workers |-> NoResult]

-----------------------------------------------------------------------------
(***************************************************************************)
(* The in-memory store.                                                    *)
(***************************************************************************)
Create(t) ==
    /\ store' = [version |-> 1, task |-> t]
    /\ saved' = <<t>>

\* Mutant: the version is not compared.
UncheckedModification(prevVersion) == FALSE

\* Update refuses a stale PrevVersion; a missing one switches the check off.
ConcurrentModification(prevVersion) ==
    prevVersion # TaskVersionMissing /\ store.version # prevVersion

Update(t) ==
    /\ store' = [version |-> store.version + 1, task |-> t]
    /\ saved' = Append(saved, t)

StoreUnchanged == UNCHANGED <<store, saved>>

(***************************************************************************)
(* a2aevent.ApplyUpdate: the task after the event, NoTask for an error.    *)
(***************************************************************************)
ApplyUpdate(t, e) ==
    IF Terminal(t.state) THEN NoTask
    ELSE IF e.kind = "task" THEN e.task
    ELSE IF e.kind = "user" THEN [t EXCEPT !.history = @ \cup {e.message}]
    ELSE IF e.kind = "status" THEN [t EXCEPT !.state = e.state]
    ELSE IF e.kind = "artifact" /\ (e.append => e.artifact \in t.artifacts)
         THEN [t EXCEPT !.artifacts = @ \cup {e.artifact}]
    ELSE NoTask

\* a2aevent.IsFinal: the event ends the agent's execution.
FinalState(s) == Terminal(s) \/ s = "input-required"

IsFinal(e) ==
    \/ e.kind \in {"message", "init"}
    \/ e.kind = "status" /\ FinalState(e.state)
    \/ e.kind = "task" /\ FinalState(e.task.state)

\* Manager.track; the state is taken from the task the materializer returned.
Track(w, t, v) == mgr' = [mgr EXCEPT ![w] = [tracked |-> t, version |-> v, state |-> t.state]]

Goto(w, label) == pc' = [pc EXCEPT ![w] = label]

Finish(w, r) ==
    /\ Goto(w, "done")
    /\ result' = [result EXCEPT ![w] = r]

-----------------------------------------------------------------------------
(***************************************************************************)
(* Setup: factory.CreateExecutor and factory.CreateCanceler.               *)
(***************************************************************************)
\* A request without a task id gets an empty manager.  With a work queue the
\* store is asked first, because the request may be a redelivery.
StartNew(w) ==
    /\ pc[w] = "start" /\ w \in Starters
    /\ Cluster => store.task = NoTask
    /\ Goto(w, "savePush")
    /\ StoreUnchanged /\ UNCHANGED <<mgr, event, attempts, result>>

\* loadExecutionContext for a follow-up or a redelivered request.
LoadTask(w) ==
    /\ pc[w] = "start" /\ w \in Executors
    /\ w \in Starters => Cluster /\ store.task # NoTask
    /\ IF store.task = NoTask \/ (store.task # NoTask /\ Terminal(store.task.state))
       THEN Finish(w, ErrorResult) /\ UNCHANGED mgr
       ELSE /\ Track(w, store.task, store.version)
            /\ Goto(w, IF MessageOf[w] \in store.task.history THEN "savePush" ELSE "history")
            /\ UNCHANGED result
    /\ StoreUnchanged /\ UNCHANGED <<event, attempts>>

\* updateHistory writes the message against the version that was loaded.
UpdateHistory(w) ==
    /\ pc[w] = "history"
    /\ IF ConcurrentModification(mgr[w].version)
       THEN Finish(w, ErrorResult) /\ StoreUnchanged /\ UNCHANGED mgr
       ELSE LET t == ApplyUpdate(mgr[w].tracked, UserMessage(MessageOf[w])) IN
            /\ Update(t)
            /\ Track(w, t, store.version + 1)
            /\ Goto(w, "savePush")
            /\ UNCHANGED result
    /\ UNCHANGED <<event, attempts>>

\* A work queue handler connects to the event queue after the setup; the
\* local manager has done so before.
AfterSetup == IF Cluster THEN "createWriter" ELSE "run"

\* The request may carry a push config; it may fail to be saved, or be refused.
SavePushConfig(w) ==
    /\ pc[w] = "savePush"
    /\ \/ Goto(w, AfterSetup) /\ UNCHANGED result
       \/ Finish(w, ErrorResult)
    /\ StoreUnchanged /\ UNCHANGED <<mgr, event, attempts>>

CreateCanceler(w) ==
    /\ pc[w] = "start" /\ w \in Cancelers
    /\ IF store.task = NoTask
          \/ (store.task # NoTask /\ Terminal(store.task.state) /\ store.task.state # "canceled")
       THEN Finish(w, ErrorResult) /\ UNCHANGED mgr
       ELSE /\ Track(w, store.task, store.version)
            /\ Goto(w, AfterSetup)
            /\ UNCHANGED result
    /\ StoreUnchanged /\ UNCHANGED <<event, attempts>>

\* workQueueHandler.handle: CreateWriter may fail.
CreateWriter(w) ==
    /\ pc[w] = "createWriter"
    /\ \/ Goto(w, "run") /\ UNCHANGED result
       \/ Finish(w, ErrorResult)
    /\ StoreUnchanged /\ UNCHANGED <<mgr, event, attempts>>

-----------------------------------------------------------------------------
(***************************************************************************)
(* processEvents: the consumer reads the next event from the pipe.         *)
(***************************************************************************)
\* canceler.Cancel re-emits a task that is canceled already.
Emits(w) ==
    IF w \in Executors THEN AgentEvents
    ELSE IF mgr[w].state = "canceled" THEN {InitEvent}
    ELSE CancelEvents

ReadEvent(w) ==
    /\ pc[w] = "run"
    /\ store.version < MaxVersion \/ mgr[w].state = "canceled"
    /\ \E e \in Emits(w) :
        /\ event' = [event EXCEPT ![w] = e]
        /\ attempts' = [attempts EXCEPT ![w] = 0]
        /\ Goto(w, "process")
    /\ StoreUnchanged /\ UNCHANGED <<mgr, result>>

\* The consumer of a local cancelation returns the error, every other one
\* runs processor.ProcessError.
HandlesErrors(w) == w \in Executors \/ Cluster

\* The producer failed, panicked or was inactive: Read returns an error.
ReadError(w) ==
    /\ pc[w] = "run"
    /\ IF HandlesErrors(w)
       THEN Goto(w, "processError") /\ UNCHANGED result
       ELSE Finish(w, ErrorResult)
    /\ StoreUnchanged /\ UNCHANGED <<mgr, event, attempts>>

-----------------------------------------------------------------------------
(***************************************************************************)
(* processor.Process and Manager.Process.                                  *)
(***************************************************************************)
\* Events Manager.Process rejects without touching the store.
Rejects(m, e) ==
    \/ e.kind = "invalid"
    \/ e.kind = "message" /\ m.tracked # NoTask
    \/ Terminal(m.state) /\ e.kind \notin {"message", "init"}
    \/ m.tracked = NoTask /\ e.kind \notin {"message", "task"}
    \/ /\ m.tracked # NoTask /\ e.kind \in {"task", "status", "artifact"}
       /\ ApplyUpdate(m.tracked, e) = NoTask

RejectEvent(w) ==
    /\ pc[w] = "process"
    /\ Rejects(mgr[w], event[w])
    /\ Goto(w, "setFailed")
    /\ StoreUnchanged /\ UNCHANGED <<mgr, event, attempts, result>>

\* A message before any task, or the canceler's unchanged initial task.
AcceptUnstored(w) ==
    /\ pc[w] = "process"
    /\ ~Rejects(mgr[w], event[w])
    /\ event[w].kind \in {"message", "init"}
    /\ Goto(w, "push")
    /\ StoreUnchanged /\ UNCHANGED <<mgr, event, attempts, result>>

\* Manager.create: ErrTaskAlreadyExists is an ordinary processing error.
CreateTask(w) ==
    /\ pc[w] = "process"
    /\ ~Rejects(mgr[w], event[w])
    /\ event[w].kind = "task" /\ mgr[w].tracked = NoTask
    /\ IF store.task # NoTask
       THEN Goto(w, "setFailed") /\ StoreUnchanged /\ UNCHANGED mgr
       ELSE /\ Create(event[w].task)
            /\ Track(w, event[w].task, 1)
            /\ Goto(w, "push")
    /\ UNCHANGED <<event, attempts, result>>

\* Manager.apply.  Only a status update to canceled is retried on a conflict.
Retries(e) == e.kind = "status" /\ e.state = "canceled"

ApplyEvent(w) ==
    /\ pc[w] = "process"
    /\ ~Rejects(mgr[w], event[w])
    /\ event[w].kind \in {"task", "status", "artifact"} /\ mgr[w].tracked # NoTask
    /\ IF ConcurrentModification(mgr[w].version)
       THEN /\ Goto(w, IF Retries(event[w]) THEN "cancelReload" ELSE "reload")
            /\ StoreUnchanged /\ UNCHANGED mgr
       ELSE LET t == ApplyUpdate(mgr[w].tracked, event[w]) IN
            /\ Update(t)
            /\ Track(w, t, store.version + 1)
            /\ Goto(w, "push")
    /\ UNCHANGED <<event, attempts, result>>

\* Mutant: one attempt too many.
AfterReloadTooMany(s, spent) ==
    IF Terminal(s) /\ s # "canceled" THEN "reload"
    ELSE IF s = "canceled" THEN "push"
    ELSE IF spent > MaxCancelationAttempts THEN "reload" ELSE "process"

\* Mutant: a cancelation without attempts left is a processing error.
AfterReloadFails(s, spent) ==
    IF Terminal(s) /\ s # "canceled" THEN "reload"
    ELSE IF s = "canceled" THEN "push"
    ELSE IF spent = MaxCancelationAttempts THEN "setFailed" ELSE "process"

\* What follows a reload in updateStatus, by the state found in the store.
AfterReload(s, spent) ==
    IF Terminal(s) /\ s # "canceled" THEN "reload"
    ELSE IF s = "canceled" THEN "push"
    ELSE IF spent = MaxCancelationAttempts THEN "reload" ELSE "process"

\* Mutant: the fresh version is taken over, the fresh task is not.
CancelReloadVersionOnly(w) ==
    LET s == store.task.state IN
    /\ pc[w] = "cancelReload"
    /\ attempts' = [attempts EXCEPT ![w] = @ + 1]
    /\ Goto(w, AfterReload(s, attempts[w] + 1))
    /\ IF Terminal(s) /\ s # "canceled" THEN UNCHANGED mgr
       ELSE Track(w, mgr[w].tracked, store.version)
    /\ StoreUnchanged /\ UNCHANGED <<event, result>>

CancelReload(w) ==
    LET s == store.task.state IN
    /\ pc[w] = "cancelReload"
    /\ attempts' = [attempts EXCEPT ![w] = @ + 1]
    /\ Goto(w, AfterReload(s, attempts[w] + 1))
    /\ IF Terminal(s) /\ s # "canceled" THEN UNCHANGED mgr
       ELSE Track(w, store.task, store.version)
    /\ StoreUnchanged /\ UNCHANGED <<event, result>>

\* Mutant: whatever is stored resolves the conflict.
ResolveConflictAny(w) ==
    /\ pc[w] = "reload"
    /\ Goto(w, "publish")
    /\ result' = [result EXCEPT ![w] = TaskResult(store.task, store.version)]
    /\ StoreUnchanged /\ UNCHANGED <<mgr, event, attempts>>

\* The processor resolves a conflict to the stored task if that is terminal.
ResolveConflict(w) ==
    /\ pc[w] = "reload"
    /\ IF Terminal(store.task.state)
       THEN /\ Goto(w, "publish")
            /\ result' = [result EXCEPT ![w] = TaskResult(store.task, store.version)]
       ELSE Finish(w, ErrorResult)
    /\ StoreUnchanged /\ UNCHANGED <<mgr, event, attempts>>

PushSent(w) ==
    /\ pc[w] = "push"
    /\ IF event[w].kind = "message"
       THEN /\ Goto(w, "publish")
            /\ result' = [result EXCEPT ![w] = MessageResult]
       ELSE /\ Goto(w, IF IsFinal(event[w]) THEN "loadResult" ELSE "publish")
            /\ UNCHANGED result
    /\ StoreUnchanged /\ UNCHANGED <<mgr, event, attempts>>

PushFailed(w) ==
    /\ Push /\ pc[w] = "push"
    /\ IF event[w].kind = "message"
       THEN Finish(w, ErrorResult)
       ELSE Goto(w, "setFailed") /\ UNCHANGED result
    /\ StoreUnchanged /\ UNCHANGED <<mgr, event, attempts>>

\* Manager.SetTaskFailed, called by setTaskFailed (next = "loadResult", its
\* result is published) and by ProcessError (next = "loadErrorResult").
MarkFailed(w, next) ==
    /\ IF mgr[w].tracked = NoTask \/ Terminal(mgr[w].state)
          \/ ConcurrentModification(mgr[w].version)
       THEN Finish(w, ErrorResult) /\ StoreUnchanged /\ UNCHANGED mgr
       ELSE LET t == ApplyUpdate(mgr[w].tracked, StatusEvent("failed")) IN
            /\ Update(t)
            /\ Track(w, t, store.version + 1)
            /\ Goto(w, next)
            /\ UNCHANGED result
    /\ UNCHANGED <<event, attempts>>

SetTaskFailed(w) == pc[w] = "setFailed" /\ MarkFailed(w, "loadResult")

ProcessError(w) == pc[w] = "processError" /\ MarkFailed(w, "loadErrorResult")

\* processor.loadResult: the manager's own snapshot, or what is stored now.
LoadedResult(w) ==
    IF FullSnapshot THEN TaskResult(mgr[w].tracked, mgr[w].version)
    ELSE TaskResult(store.task, store.version)

LoadResult(w) ==
    /\ \/ pc[w] = "loadResult" /\ Goto(w, "publish")
       \/ pc[w] = "loadErrorResult" /\ Goto(w, "done")
    /\ result' = [result EXCEPT ![w] = LoadedResult(w)]
    /\ StoreUnchanged /\ UNCHANGED <<mgr, event, attempts>>

\* processEvents broadcasts the processed event; with a result it returns.
Publish(w) ==
    /\ pc[w] = "publish"
    /\ Goto(w, IF result[w].kind = "none" THEN "run" ELSE "done")
    /\ StoreUnchanged /\ UNCHANGED <<mgr, event, attempts, result>>

\* The broadcast fails; a local cancelation has no broadcast queue.
PublishFailed(w) ==
    /\ pc[w] = "publish" /\ HandlesErrors(w)
    /\ Goto(w, "processError")
    /\ result' = [result EXCEPT ![w] = NoResult]
    /\ StoreUnchanged /\ UNCHANGED <<mgr, event, attempts>>

-----------------------------------------------------------------------------
Process(w) ==
    \/ RejectEvent(w) \/ AcceptUnstored(w) \/ CreateTask(w) \/ ApplyEvent(w)
    \/ CancelReload(w) \/ ResolveConflict(w) \/ PushSent(w) \/ PushFailed(w)

Step(w) ==
    \/ StartNew(w) \/ LoadTask(w) \/ UpdateHistory(w) \/ SavePushConfig(w)
    \/ CreateCanceler(w) \/ CreateWriter(w)
    \/ ReadEvent(w) \/ ReadError(w)
    \/ Process(w)
    \/ SetTaskFailed(w) \/ ProcessError(w) \/ LoadResult(w)
    \/ Publish(w) \/ PublishFailed(w)

\* Every worker has returned; nothing else is left to do.
Finished == (\A w \in Workers : pc[w] = "done") /\ UNCHANGED vars

Next == (\E w \in Workers : Step(w)) \/ Finished

Spec == Init /\ [][Next]_vars

-----------------------------------------------------------------------------
(***************************************************************************)
(* Properties.                                                             *)
(***************************************************************************)
\* The variables have the types of the code's fields.
TypeOK ==
    /\ store \in [version : Nat, task : Task \cup {NoTask}]
    /\ saved \in Seq(Task)
    /\ pc \in [Workers -> PCs]
    /\ mgr \in [Workers -> Manager]
    /\ event \in [Workers -> Event]
    /\ attempts \in [Workers -> 0..MaxCancelationAttempts]
    /\ result \in [Workers -> Result]

\* TaskState.Terminal promises that a task in a terminal state is immutable:
\* no worker, however stale its view, changes the stored task after that.
TerminalImmutable ==
    [][store.task # NoTask /\ Terminal(store.task.state) => UNCHANGED store]_vars

\* Updates serialize: whatever replaces a stored task is one event of some
\* worker applied to exactly the task it replaces, under the next version, so
\* no accepted update is lost to a worker that materialized a stale copy.
ChangesOf(w) == {event[w], StatusEvent("failed")}
                  \cup (IF w \in Executors THEN {UserMessage(MessageOf[w])} ELSE {})

UpdatesSerialize ==
    [][store.task # NoTask /\ store' # store =>
         /\ store'.version = store.version + 1
         /\ \E w \in Workers : \E e \in ChangesOf(w) : store'.task = ApplyUpdate(store.task, e)]_vars

\* A worker's task result is a state the store really held, under that version.
ResultsWereStored ==
    \A w \in Workers : result[w].kind = "task" =>
        /\ result[w].version \in 1..Len(saved)
        /\ saved[result[w].version] = result[w].task

\* The version chain of the store: versions count the tasks stored so far, the
\* stored task is the last of them, and only the last can be terminal.
VersionChain ==
    /\ store.version = Len(saved)
    /\ store.task = NoTask <=> saved = <<>>
    /\ saved # <<>> => store.task = saved[Len(saved)]
    /\ \A v \in 1..Len(saved) : Terminal(saved[v].state) => v = Len(saved)

\* What a Manager tracks is the task that was stored under the version it
\* tracks, whichever way it got both: loaded, created, applied or reloaded.
\* Update only compares versions, so everything above rests on this.
ViewsAreVersions ==
    \A w \in Workers : mgr[w].tracked # NoTask =>
        /\ mgr[w].version \in 1..Len(saved)
        /\ mgr[w].tracked = saved[mgr[w].version]
        /\ mgr[w].state = mgr[w].tracked.state

\* Where a worker must have a task in hand, and attempts left.
ControlOK ==
    \A w \in Workers :
        /\ pc[w] \in {"history", "cancelReload", "reload", "loadResult", "loadErrorResult"}
              => mgr[w].tracked # NoTask
        /\ pc[w] = "history" => w \in Executors /\ ~Terminal(mgr[w].state)
        /\ pc[w] = "push" /\ event[w].kind # "message" => mgr[w].tracked # NoTask
        /\ pc[w] \in {"process", "cancelReload"} => attempts[w] < MaxCancelationAttempts

\* The inductive invariant behind the theorems of DistributedManager_proofs.
IndInv == TypeOK /\ VersionChain /\ ViewsAreVersions /\ ControlOK /\ ResultsWereStored

\* Workers that end with a terminal task agree with each other and with the
\* store: a cancel that reports CANCELED and an execution that reports
\* COMPLETED can never both be told so.
OutcomesAgree ==
    \A w \in Workers : result[w].kind = "task" /\ Terminal(result[w].task.state) =>
        result[w].task = store.task /\ result[w].version = store.version

\* With a full-snapshot materializer a worker only ends with a task in a state
\* that ends an execution: a conflict with a running execution is an error.
ResultsAreFinal ==
    \A w \in Workers : FullSnapshot /\ result[w].kind = "task" => FinalState(result[w].task.state)

\* docs/ai/CONCURRENCY_MODEL.md: a cancelation that lost every attempt fails and
\* the task keeps running instead of being moved to FAILED.  Having spent its
\* attempts, a worker never writes the store again, not even with the fresh
\* version its last reload gave it.
ExhaustedCancelGivesUp ==
    [][\A w \in Workers :
         attempts[w] = MaxCancelationAttempts /\ pc'[w] # pc[w] => UNCHANGED store]_vars
=============================================================================
