---------------------- MODULE DistributedManager_proofs ----------------------
(***************************************************************************)
(* Proofs about TaskUpdate, for every set of workers, every set of events  *)
(* their agents emit and every bound, and about DistributedManager, for    *)
(* any number of calls and workers.                                        *)
(*                                                                         *)
(* Cluster mode adds nothing to what can happen to a task: handlers take   *)
(* steps of TaskUpdate and everything else leaves the task alone, so what  *)
(* is proved of TaskUpdate holds in a cluster.  On top of that come the    *)
(* leases and places of the work queue and what subscribers are told.      *)
(***************************************************************************)
EXTENDS DistributedManager, FiniteSetTheorems, TLAPS

-----------------------------------------------------------------------------
(***************************************************************************)
(* The task and its workers.                                               *)
(***************************************************************************)
\* What an agent's event carries is typed by its kind.
LEMMA EventShape ==
    ASSUME NEW e \in Event
    PROVE  /\ e.kind = "task" => e.task \in Task
           /\ e.kind = "status" => e.state \in States
           /\ e.kind = "artifact" => e.artifact \in Artifacts /\ e.append \in BOOLEAN
           /\ e.kind # "user"
  BY DEF Event, TaskEvent, StatusEvent, ArtifactEvent, AgentMessage, InitEvent, InvalidEvent

\* ApplyUpdate returns a task or an error, and an error for a terminal task.
LEMMA ApplyUpdateType ==
    ASSUME NEW t \in Task, NEW e,
           \/ e \in Event
           \/ \E m \in Messages : e = UserMessage(m)
    PROVE  /\ ApplyUpdate(t, e) \in Task \cup {NoTask}
           /\ Terminal(t.state) => ApplyUpdate(t, e) = NoTask
  <1>1. CASE e \in Event
    BY <1>1, EventShape DEF ApplyUpdate, Task
  <1>2. CASE \E m \in Messages : e = UserMessage(m)
    BY <1>2 DEF ApplyUpdate, Task, UserMessage
  <1> QED BY <1>1, <1>2

\* Messages and failures apply to every task that is not terminal.
LEMMA ApplyUpdateSucceeds ==
    ASSUME NEW t \in Task, ~Terminal(t.state)
    PROVE  /\ \A m \in Messages : ApplyUpdate(t, UserMessage(m)) \in Task
           /\ ApplyUpdate(t, StatusEvent("failed")) \in Task
  BY DEF ApplyUpdate, Task, UserMessage, StatusEvent, States, TerminalStates

\* The initial state satisfies the invariant.
LEMMA InitIndInv == Init => IndInv
  <1> SUFFICES ASSUME Init PROVE IndInv
    OBVIOUS
  <1>1. InvalidEvent \in Event
    BY DEF Event
  <1>2. TypeOK
    BY <1>1, ConfigAssumption
       DEF Init, TypeOK, NewManager, NoResult, Manager, Result, PCs, States, TerminalStates, TaskVersionMissing
  <1>3. VersionChain
    BY NoTaskAssumption DEF Init, VersionChain, TaskVersionMissing
  <1>4. ViewsAreVersions /\ ControlOK /\ ResultsWereStored
    BY DEF Init, ViewsAreVersions, ControlOK, ResultsWereStored, NewManager, NoResult
  <1> QED BY <1>2, <1>3, <1>4 DEF IndInv

\* A manager whose version Update accepts tracks exactly what is stored.
LEMMA AcceptedIsCurrent ==
    ASSUME IndInv, NEW w \in Workers, mgr[w].tracked # NoTask,
           ~ConcurrentModification(mgr[w].version)
    PROVE  /\ mgr[w].version = store.version
           /\ mgr[w].tracked = store.task
           /\ mgr[w].tracked \in Task
           /\ mgr[w].state = store.task.state
           /\ saved # <<>> /\ store.version = Len(saved)
  BY DEF IndInv, TypeOK, VersionChain, ViewsAreVersions, ConcurrentModification,
         TaskVersionMissing, Manager

\* Replacing a task that is not terminal extends the chain by one version.
LEMMA UpdateExtendsChain ==
    ASSUME TypeOK, VersionChain, NEW t \in Task, store.task # NoTask,
           ~Terminal(store.task.state), Update(t)
    PROVE  /\ store' \in [version : Nat, task : Task \cup {NoTask}] /\ saved' \in Seq(Task)
           /\ VersionChain'
           /\ Len(saved') = Len(saved) + 1
           /\ \A v \in 1..Len(saved) : saved'[v] = saved[v]
           /\ saved'[Len(saved) + 1] = t
  <1>1. /\ saved' = Append(saved, t) /\ store' = [version |-> store.version + 1, task |-> t]
        /\ saved \in Seq(Task) /\ store.version = Len(saved) /\ Len(saved) \in Nat
    BY DEF Update, TypeOK, VersionChain
  <1>2. /\ saved' \in Seq(Task) /\ Len(saved') = Len(saved) + 1 /\ saved' # <<>>
        /\ \A v \in 1..Len(saved) : saved'[v] = saved[v]
        /\ saved'[Len(saved) + 1] = t
    BY <1>1
  <1>3. \A v \in 1..Len(saved) : ~Terminal(saved[v].state)
    BY DEF VersionChain
  <1>4. VersionChain'
    BY <1>1, <1>2, <1>3, NoTaskAssumption DEF VersionChain
  <1> QED BY <1>1, <1>2, <1>4

\* Storing the first task starts the chain.
LEMMA CreateStartsChain ==
    ASSUME TypeOK, VersionChain, NEW t \in Task, store.task = NoTask, Create(t)
    PROVE  /\ store' \in [version : Nat, task : Task \cup {NoTask}] /\ saved' \in Seq(Task)
           /\ VersionChain'
           /\ saved = <<>> /\ Len(saved') = 1 /\ saved'[1] = t
  BY NoTaskAssumption DEF TypeOK, VersionChain, Create

\* The results a worker can end with are typed; only TaskResult is a task.
LEMMA ResultTypes ==
    /\ NoResult \in Result /\ NoResult.kind = "none"
    /\ ErrorResult \in Result /\ ErrorResult.kind = "error"
    /\ MessageResult \in Result /\ MessageResult.kind = "message"
    /\ \A t \in Task, v \in Nat : /\ TaskResult(t, v) \in Result
                                 /\ TaskResult(t, v).kind = "task"
                                 /\ TaskResult(t, v).task = t
                                 /\ TaskResult(t, v).version = v
  BY DEF NoResult, ErrorResult, MessageResult, TaskResult, Result, TaskVersionMissing

\* Loading the stored task gives a manager a view that is in the chain.
LEMMA LoadedView ==
    ASSUME TypeOK, VersionChain, store.task # NoTask
    PROVE  /\ store.task \in Task /\ store.version \in 1..Len(saved)
           /\ store.task = saved[store.version]
           /\ store.task.state \in States
           /\ [tracked |-> store.task, version |-> store.version, state |-> store.task.state] \in Manager
  <1>1. /\ store.task \in Task /\ store.version \in Nat /\ store.version = Len(saved)
        /\ saved \in Seq(Task) /\ saved # <<>> /\ store.task = saved[Len(saved)]
    BY DEF TypeOK, VersionChain
  <1>2. store.version \in 1..Len(saved)
    BY <1>1
  <1> QED BY <1>1, <1>2 DEF Task, Manager

(***************************************************************************)
(* The part of the invariant that belongs to one worker, and the shape of  *)
(* a step: it changes the entries of one worker and only extends the chain.*)
(***************************************************************************)
WorkerOK(w) ==
    /\ pc[w] \in PCs /\ mgr[w] \in Manager /\ event[w] \in Event
    /\ attempts[w] \in 0..MaxCancelationAttempts /\ result[w] \in Result
    /\ mgr[w].tracked # NoTask => /\ mgr[w].version \in 1..Len(saved)
                                  /\ mgr[w].tracked = saved[mgr[w].version]
                                  /\ mgr[w].state = mgr[w].tracked.state
    /\ result[w].kind = "task" => /\ result[w].version \in 1..Len(saved)
                                  /\ saved[result[w].version] = result[w].task
    /\ pc[w] \in {"history", "cancelReload", "reload", "loadResult", "loadErrorResult"}
          => mgr[w].tracked # NoTask
    /\ pc[w] = "history" => w \in Executors /\ ~Terminal(mgr[w].state)
    /\ pc[w] = "push" /\ event[w].kind # "message" => mgr[w].tracked # NoTask
    /\ pc[w] \in {"process", "cancelReload"} => attempts[w] < MaxCancelationAttempts

ChainOK ==
    /\ store \in [version : Nat, task : Task \cup {NoTask}]
    /\ saved \in Seq(Task)
    /\ VersionChain

OnlyMoves(w) ==
    /\ pc' = [pc EXCEPT ![w] = pc'[w]]
    /\ mgr' = [mgr EXCEPT ![w] = mgr'[w]]
    /\ event' = [event EXCEPT ![w] = event'[w]]
    /\ attempts' = [attempts EXCEPT ![w] = attempts'[w]]
    /\ result' = [result EXCEPT ![w] = result'[w]]

ExtendsChain ==
    /\ Len(saved) <= Len(saved')
    /\ \A v \in 1..Len(saved) : saved'[v] = saved[v]

\* The invariant is the chain, the types and every worker's part.
LEMMA IndInvParts ==
    IndInv <=> /\ ChainOK
               /\ pc \in [Workers -> PCs] /\ mgr \in [Workers -> Manager]
               /\ event \in [Workers -> Event]
               /\ attempts \in [Workers -> 0..MaxCancelationAttempts]
               /\ result \in [Workers -> Result]
               /\ \A w \in Workers : WorkerOK(w)
  BY DEF IndInv, TypeOK, ViewsAreVersions, ControlOK, ResultsWereStored, WorkerOK, ChainOK

\* A worker that does not move keeps its part while the chain grows.
LEMMA OtherWorkersOK ==
    ASSUME ChainOK, ChainOK', ExtendsChain, NEW u \in Workers, WorkerOK(u),
           pc'[u] = pc[u], mgr'[u] = mgr[u], event'[u] = event[u],
           attempts'[u] = attempts[u], result'[u] = result[u]
    PROVE  WorkerOK(u)'
  <1>1. \A v \in 1..Len(saved) : v \in 1..Len(saved') /\ saved'[v] = saved[v]
    BY DEF ChainOK, ExtendsChain
  <1> QED BY <1>1 DEF WorkerOK

\* So a step of one worker only has to be checked for that worker.
LEMMA WorkerStep ==
    ASSUME IndInv, NEW w \in Workers, OnlyMoves(w), ExtendsChain, ChainOK', WorkerOK(w)'
    PROVE  IndInv'
  <1>1. /\ pc' \in [Workers -> PCs] /\ mgr' \in [Workers -> Manager]
        /\ event' \in [Workers -> Event]
        /\ attempts' \in [Workers -> 0..MaxCancelationAttempts]
        /\ result' \in [Workers -> Result]
    BY IndInvParts DEF OnlyMoves, WorkerOK
  <1>2. ASSUME NEW u \in Workers PROVE WorkerOK(u)'
    <2>1. CASE u = w
      BY <2>1
    <2>2. CASE u # w
      <3>1. /\ pc'[u] = pc[u] /\ mgr'[u] = mgr[u] /\ event'[u] = event[u]
            /\ attempts'[u] = attempts[u] /\ result'[u] = result[u]
        BY <2>2, IndInvParts DEF OnlyMoves
      <3> QED BY <3>1, IndInvParts, OtherWorkersOK
    <2> QED BY <2>1, <2>2
  <1>3. IndInv' <=> /\ ChainOK'
               /\ pc' \in [Workers -> PCs] /\ mgr' \in [Workers -> Manager]
               /\ event' \in [Workers -> Event]
               /\ attempts' \in [Workers -> 0..MaxCancelationAttempts]
               /\ result' \in [Workers -> Result]
               /\ \A u \in Workers : WorkerOK(u)'
    BY DEF IndInv, TypeOK, ViewsAreVersions, ControlOK, ResultsWereStored, WorkerOK, ChainOK
  <1> QED BY <1>1, <1>2, <1>3

\* A step that leaves the store alone keeps the chain.
LEMMA QuietStep ==
    ASSUME ChainOK, StoreUnchanged
    PROVE  ChainOK' /\ ExtendsChain /\ Len(saved') = Len(saved) /\ saved' = saved /\ store' = store
  BY DEF ChainOK, StoreUnchanged, ExtendsChain, VersionChain

\* A write that Update accepts, of a worker that tracks a task.
LEMMA WriteStep ==
    ASSUME IndInv, NEW w \in Workers, NEW t \in Task,
           NEW l \in {"savePush", "push", "loadResult", "loadErrorResult"},
           mgr[w].tracked # NoTask, ~Terminal(mgr[w].state),
           ~ConcurrentModification(mgr[w].version),
           Update(t), Track(w, t, store.version + 1), Goto(w, l),
           UNCHANGED <<event, attempts, result>>
    PROVE  IndInv'
  <1>1. /\ TypeOK /\ VersionChain /\ ChainOK /\ WorkerOK(w)
        /\ pc \in [Workers -> PCs] /\ mgr \in [Workers -> Manager]
        /\ event \in [Workers -> Event]
        /\ attempts \in [Workers -> 0..MaxCancelationAttempts]
        /\ result \in [Workers -> Result]
    BY IndInvParts DEF IndInv
  <1>2. store.task # NoTask /\ ~Terminal(store.task.state) /\ store.version = Len(saved)
    BY AcceptedIsCurrent
  <1>3. /\ ChainOK' /\ ExtendsChain /\ Len(saved') = Len(saved) + 1
        /\ saved'[Len(saved) + 1] = t /\ Len(saved) \in Nat
        /\ \A v \in 1..Len(saved) : saved'[v] = saved[v]
    BY <1>1, <1>2, UpdateExtendsChain DEF ChainOK, ExtendsChain
  <1>4. OnlyMoves(w)
    BY <1>1 DEF OnlyMoves, Track, Goto
  <1>5. /\ mgr'[w] = [tracked |-> t, version |-> store.version + 1, state |-> t.state]
        /\ pc'[w] = l /\ UNCHANGED <<event[w], attempts[w], result[w]>>
        /\ t.state \in States
    BY <1>1 DEF Track, Goto, Task
  <1>6. mgr'[w] \in Manager /\ mgr'[w].version \in 1..Len(saved') /\ mgr'[w].tracked = saved'[mgr'[w].version]
    BY <1>2, <1>3, <1>5 DEF Manager
  <1>7. WorkerOK(w)'
    BY <1>1, <1>3, <1>5, <1>6, NoTaskAssumption DEF WorkerOK, PCs
  <1> QED BY <1>3, <1>4, <1>7, WorkerStep

\* A worker that gives up with an error and leaves the store alone.
LEMMA ErrorStep ==
    ASSUME IndInv, NEW w \in Workers, Finish(w, ErrorResult), StoreUnchanged,
           UNCHANGED <<mgr, event, attempts>>
    PROVE  IndInv'
  <1>1. /\ ChainOK /\ WorkerOK(w)
        /\ pc \in [Workers -> PCs] /\ mgr \in [Workers -> Manager]
        /\ event \in [Workers -> Event]
        /\ attempts \in [Workers -> 0..MaxCancelationAttempts]
        /\ result \in [Workers -> Result]
    BY IndInvParts
  <1>2. OnlyMoves(w)
    BY <1>1 DEF OnlyMoves, Finish, Goto
  <1>3. ChainOK' /\ ExtendsChain /\ saved' = saved
    BY <1>1, QuietStep
  <1>4. WorkerOK(w)'
    BY <1>1, <1>3, ResultTypes DEF Finish, Goto, WorkerOK, PCs
  <1> QED BY <1>2, <1>3, <1>4, WorkerStep

\* Manager.SetTaskFailed, wherever it is called from.
LEMMA MarkFailedStep ==
    ASSUME IndInv, NEW w \in Workers, NEW l \in {"loadResult", "loadErrorResult"}, MarkFailed(w, l)
    PROVE  IndInv'
  <1>1. CASE mgr[w].tracked = NoTask \/ Terminal(mgr[w].state) \/ ConcurrentModification(mgr[w].version)
    BY <1>1, ErrorStep DEF MarkFailed
  <1>2. CASE ~(mgr[w].tracked = NoTask \/ Terminal(mgr[w].state) \/ ConcurrentModification(mgr[w].version))
    <2> DEFINE t == ApplyUpdate(mgr[w].tracked, StatusEvent("failed"))
    <2>1. t \in Task
      BY <1>2, AcceptedIsCurrent, ApplyUpdateSucceeds
    <2>2. /\ Update(t) /\ Track(w, t, store.version + 1) /\ Goto(w, l)
          /\ UNCHANGED <<event, attempts, result>>
      BY <1>2 DEF MarkFailed
    <2> HIDE DEF t
    <2> QED BY <1>2, <2>1, <2>2, WriteStep
  <1> QED BY <1>1, <1>2

\* Every step of every worker preserves the invariant.
LEMMA StepIndInv ==
    ASSUME IndInv, NEW w \in Workers, Step(w)
    PROVE  IndInv'
  <1>0. /\ ChainOK /\ WorkerOK(w) /\ TypeOK /\ VersionChain
        /\ pc \in [Workers -> PCs] /\ mgr \in [Workers -> Manager]
        /\ event \in [Workers -> Event]
        /\ attempts \in [Workers -> 0..MaxCancelationAttempts]
        /\ result \in [Workers -> Result]
    BY IndInvParts DEF IndInv
  <1> USE DEF Goto, Finish
  <1>1. CASE StartNew(w)
    <2>1. StoreUnchanged /\ OnlyMoves(w)
      BY <1>0, <1>1 DEF StartNew, OnlyMoves
    <2>2. ChainOK' /\ ExtendsChain /\ saved' = saved
      BY <1>0, <2>1, QuietStep
    <2>3. WorkerOK(w)'
      BY <1>0, <1>1, <2>2 DEF StartNew, WorkerOK, PCs
    <2> QED BY <2>1, <2>2, <2>3, WorkerStep
  <1>2. CASE LoadTask(w)
    <2>1. StoreUnchanged /\ OnlyMoves(w)
      BY <1>0, <1>2 DEF LoadTask, OnlyMoves, Track
    <2>2. ChainOK' /\ ExtendsChain /\ saved' = saved
      BY <1>0, <2>1, QuietStep
    <2>3. WorkerOK(w)'
      BY <1>0, <1>2, <2>2, ResultTypes, LoadedView DEF LoadTask, WorkerOK, PCs, Track
    <2> QED BY <2>1, <2>2, <2>3, WorkerStep
  <1>3. CASE SavePushConfig(w)
    <2>1. StoreUnchanged /\ OnlyMoves(w)
      BY <1>0, <1>3 DEF SavePushConfig, OnlyMoves
    <2>2. ChainOK' /\ ExtendsChain /\ saved' = saved
      BY <1>0, <2>1, QuietStep
    <2>3. WorkerOK(w)'
      BY <1>0, <1>3, <2>2, ResultTypes DEF SavePushConfig, AfterSetup, WorkerOK, PCs
    <2> QED BY <2>1, <2>2, <2>3, WorkerStep
  <1>4. CASE CreateCanceler(w)
    <2>1. StoreUnchanged /\ OnlyMoves(w)
      BY <1>0, <1>4 DEF CreateCanceler, OnlyMoves, Track
    <2>2. ChainOK' /\ ExtendsChain /\ saved' = saved
      BY <1>0, <2>1, QuietStep
    <2>3. WorkerOK(w)'
      BY <1>0, <1>4, <2>2, ResultTypes, LoadedView DEF CreateCanceler, AfterSetup, WorkerOK, PCs, Track
    <2> QED BY <2>1, <2>2, <2>3, WorkerStep
  <1>5. CASE ReadEvent(w)
    <2>0. Emits(w) \subseteq Event
      BY EventsAssumption DEF Emits, Event
    <2>1. StoreUnchanged /\ OnlyMoves(w)
      BY <1>0, <1>5 DEF ReadEvent, OnlyMoves
    <2>2. ChainOK' /\ ExtendsChain /\ saved' = saved
      BY <1>0, <2>1, QuietStep
    <2>3. WorkerOK(w)'
      BY <1>0, <1>5, <2>2, <2>0, ConfigAssumption DEF ReadEvent, WorkerOK, PCs
    <2> QED BY <2>1, <2>2, <2>3, WorkerStep
  <1>6. CASE ReadError(w)
    <2>1. StoreUnchanged /\ OnlyMoves(w)
      BY <1>0, <1>6 DEF ReadError, OnlyMoves
    <2>2. ChainOK' /\ ExtendsChain /\ saved' = saved
      BY <1>0, <2>1, QuietStep
    <2>3. WorkerOK(w)'
      BY <1>0, <1>6, <2>2, ResultTypes DEF ReadError, WorkerOK, PCs
    <2> QED BY <2>1, <2>2, <2>3, WorkerStep
  <1>7. CASE RejectEvent(w)
    <2>1. StoreUnchanged /\ OnlyMoves(w)
      BY <1>0, <1>7 DEF RejectEvent, OnlyMoves
    <2>2. ChainOK' /\ ExtendsChain /\ saved' = saved
      BY <1>0, <2>1, QuietStep
    <2>3. WorkerOK(w)'
      BY <1>0, <1>7, <2>2 DEF RejectEvent, WorkerOK, PCs
    <2> QED BY <2>1, <2>2, <2>3, WorkerStep
  <1>8. CASE AcceptUnstored(w)
    <2>1. StoreUnchanged /\ OnlyMoves(w)
      BY <1>0, <1>8 DEF AcceptUnstored, OnlyMoves, Rejects
    <2>2. ChainOK' /\ ExtendsChain /\ saved' = saved
      BY <1>0, <2>1, QuietStep
    <2>3. WorkerOK(w)'
      BY <1>0, <1>8, <2>2 DEF AcceptUnstored, WorkerOK, PCs, Rejects
    <2> QED BY <2>1, <2>2, <2>3, WorkerStep
  <1>9. CASE CancelReload(w)
    <2>0. store.task # NoTask
      BY <1>0, <1>9, NoTaskAssumption DEF CancelReload, WorkerOK, ChainOK, VersionChain
    <2>1. StoreUnchanged /\ OnlyMoves(w)
      BY <1>0, <1>9 DEF CancelReload, OnlyMoves, AfterReload, Track
    <2>2. ChainOK' /\ ExtendsChain /\ saved' = saved
      BY <1>0, <2>1, QuietStep
    <2>3. /\ attempts'[w] \in 0..MaxCancelationAttempts
          /\ pc'[w] = "process" => attempts'[w] < MaxCancelationAttempts
      BY <1>0, <1>9, ConfigAssumption DEF CancelReload, AfterReload, WorkerOK
    <2>4. /\ pc'[w] \in {"reload", "push", "process"}
          /\ event'[w] = event[w] /\ result'[w] = result[w] /\ mgr[w].tracked # NoTask
          /\ \/ mgr'[w] = mgr[w]
             \/ mgr'[w] = [tracked |-> store.task, version |-> store.version, state |-> store.task.state]
      BY <1>0, <1>9 DEF CancelReload, AfterReload, WorkerOK, Track
    <2>5. WorkerOK(w)'
      BY <1>0, <2>0, <2>2, <2>3, <2>4, LoadedView DEF WorkerOK, PCs
    <2> QED BY <2>1, <2>2, <2>5, WorkerStep
  <1>10. CASE ResolveConflict(w)
    <2>0. store.task # NoTask
      BY <1>0, <1>10, NoTaskAssumption DEF ResolveConflict, WorkerOK, ChainOK, VersionChain
    <2>1. StoreUnchanged /\ OnlyMoves(w)
      BY <1>0, <1>10 DEF ResolveConflict, OnlyMoves
    <2>2. ChainOK' /\ ExtendsChain /\ saved' = saved
      BY <1>0, <2>1, QuietStep
    <2>3. WorkerOK(w)'
      BY <1>0, <1>10, <2>2, <2>0, ResultTypes, LoadedView DEF ResolveConflict, WorkerOK, PCs
    <2> QED BY <2>1, <2>2, <2>3, WorkerStep
  <1>11. CASE PushSent(w)
    <2>1. StoreUnchanged /\ OnlyMoves(w)
      BY <1>0, <1>11 DEF PushSent, OnlyMoves
    <2>2. ChainOK' /\ ExtendsChain /\ saved' = saved
      BY <1>0, <2>1, QuietStep
    <2>3. WorkerOK(w)'
      BY <1>0, <1>11, <2>2, ResultTypes DEF PushSent, WorkerOK, PCs
    <2> QED BY <2>1, <2>2, <2>3, WorkerStep
  <1>12. CASE PushFailed(w)
    <2>1. StoreUnchanged /\ OnlyMoves(w)
      BY <1>0, <1>12 DEF PushFailed, OnlyMoves
    <2>2. ChainOK' /\ ExtendsChain /\ saved' = saved
      BY <1>0, <2>1, QuietStep
    <2>3. WorkerOK(w)'
      BY <1>0, <1>12, <2>2, ResultTypes DEF PushFailed, WorkerOK, PCs
    <2> QED BY <2>1, <2>2, <2>3, WorkerStep
  <1>13. CASE LoadResult(w)
    <2>0. store.task # NoTask
      BY <1>0, <1>13, NoTaskAssumption DEF LoadResult, WorkerOK, ChainOK, VersionChain
    <2>1. StoreUnchanged /\ OnlyMoves(w)
      BY <1>0, <1>13 DEF LoadResult, OnlyMoves, LoadedResult, Manager
    <2>2. ChainOK' /\ ExtendsChain /\ saved' = saved
      BY <1>0, <2>1, QuietStep
    <2>3. WorkerOK(w)'
      BY <1>0, <1>13, <2>2, <2>0, ResultTypes, LoadedView DEF LoadResult, WorkerOK, PCs, LoadedResult, Manager
    <2> QED BY <2>1, <2>2, <2>3, WorkerStep
  <1>14. CASE Publish(w)
    <2>1. StoreUnchanged /\ OnlyMoves(w)
      BY <1>0, <1>14 DEF Publish, OnlyMoves
    <2>2. ChainOK' /\ ExtendsChain /\ saved' = saved
      BY <1>0, <2>1, QuietStep
    <2>3. WorkerOK(w)'
      BY <1>0, <1>14, <2>2 DEF Publish, WorkerOK, PCs
    <2> QED BY <2>1, <2>2, <2>3, WorkerStep
  <1>15. CASE PublishFailed(w)
    <2>1. StoreUnchanged /\ OnlyMoves(w)
      BY <1>0, <1>15 DEF PublishFailed, OnlyMoves
    <2>2. ChainOK' /\ ExtendsChain /\ saved' = saved
      BY <1>0, <2>1, QuietStep
    <2>3. WorkerOK(w)'
      BY <1>0, <1>15, <2>2, ResultTypes DEF PublishFailed, WorkerOK, PCs
    <2> QED BY <2>1, <2>2, <2>3, WorkerStep
  <1>16. CASE UpdateHistory(w)
    <2>1. CASE ConcurrentModification(mgr[w].version)
      BY <1>16, <2>1, ErrorStep DEF UpdateHistory
    <2>2. CASE ~ConcurrentModification(mgr[w].version)
      <3> DEFINE t == ApplyUpdate(mgr[w].tracked, UserMessage(MessageOf[w]))
      <3>1. mgr[w].tracked # NoTask /\ ~Terminal(mgr[w].state) /\ w \in Executors
        BY <1>0, <1>16 DEF UpdateHistory, WorkerOK
      <3>2. t \in Task
        BY <2>2, <3>1, AcceptedIsCurrent, ApplyUpdateSucceeds, WorkersAssumption
      <3>3. /\ Update(t) /\ Track(w, t, store.version + 1) /\ Goto(w, "savePush")
            /\ UNCHANGED <<event, attempts, result>>
        BY <1>16, <2>2 DEF UpdateHistory
      <3> HIDE DEF t
      <3> QED BY <2>2, <3>1, <3>2, <3>3, WriteStep
    <2> QED BY <2>1, <2>2
  <1>17. CASE CreateTask(w)
    <2>1. OnlyMoves(w)
      BY <1>0, <1>17 DEF CreateTask, OnlyMoves, Track
    <2>2. CASE store.task # NoTask
      <3>1. ChainOK' /\ ExtendsChain /\ saved' = saved
        BY <1>0, <1>17, <2>2, QuietStep DEF CreateTask
      <3>2. WorkerOK(w)'
        BY <1>0, <1>17, <2>2, <3>1 DEF CreateTask, WorkerOK, PCs
      <3> QED BY <2>1, <3>1, <3>2, WorkerStep
    <2>3. CASE store.task = NoTask
      <3>1. event[w].task \in Task /\ event[w].task.state \in States
        BY <1>0, <1>17, EventShape DEF CreateTask, WorkerOK, Task
      <3>2. ChainOK' /\ saved = <<>> /\ Len(saved') = 1 /\ saved'[1] = event[w].task
        BY <1>0, <1>17, <2>3, <3>1, CreateStartsChain DEF CreateTask, ChainOK
      <3>3. ExtendsChain
        BY <3>2 DEF ExtendsChain
      <3>4. mgr'[w] = [tracked |-> event[w].task, version |-> 1, state |-> event[w].task.state]
        BY <1>0, <1>17, <2>3 DEF CreateTask, Track
      <3>5. mgr'[w] \in Manager
        BY <3>1, <3>4 DEF Manager
      <3>6. WorkerOK(w)'
        BY <1>0, <1>17, <2>3, <3>1, <3>2, <3>4, <3>5, NoTaskAssumption DEF CreateTask, WorkerOK, PCs
      <3> QED BY <2>1, <3>2, <3>3, <3>6, WorkerStep
    <2> QED BY <2>2, <2>3
  <1>18. CASE ApplyEvent(w)
    <2>1. CASE ConcurrentModification(mgr[w].version)
      <3>1. OnlyMoves(w)
        BY <1>0, <1>18, <2>1 DEF ApplyEvent, OnlyMoves
      <3>2. ChainOK' /\ ExtendsChain /\ saved' = saved
        BY <1>0, <1>18, <2>1, QuietStep DEF ApplyEvent
      <3>3. WorkerOK(w)'
        BY <1>0, <1>18, <2>1, <3>2 DEF ApplyEvent, WorkerOK, PCs
      <3> QED BY <3>1, <3>2, <3>3, WorkerStep
    <2>2. CASE ~ConcurrentModification(mgr[w].version)
      <3> DEFINE t == ApplyUpdate(mgr[w].tracked, event[w])
      <3>1. mgr[w].tracked # NoTask /\ mgr[w].tracked \in Task /\ ~Terminal(mgr[w].state) /\ t # NoTask
        BY <1>18, <2>2, AcceptedIsCurrent DEF ApplyEvent, Rejects
      <3>2. t \in Task
        BY <1>0, <3>1, ApplyUpdateType DEF WorkerOK
      <3>3. /\ Update(t) /\ Track(w, t, store.version + 1) /\ Goto(w, "push")
            /\ UNCHANGED <<event, attempts, result>>
        BY <1>18, <2>2 DEF ApplyEvent
      <3> HIDE DEF t
      <3> QED BY <2>2, <3>1, <3>2, <3>3, WriteStep
    <2> QED BY <2>1, <2>2
  <1>19. CASE SetTaskFailed(w)
    BY <1>19, MarkFailedStep DEF SetTaskFailed
  <1>20. CASE ProcessError(w)
    BY <1>20, MarkFailedStep DEF ProcessError
  <1>21. CASE CreateWriter(w)
    <2>1. StoreUnchanged /\ OnlyMoves(w)
      BY <1>0, <1>21 DEF CreateWriter, OnlyMoves
    <2>2. ChainOK' /\ ExtendsChain /\ saved' = saved
      BY <1>0, <2>1, QuietStep
    <2>3. WorkerOK(w)'
      BY <1>0, <1>21, <2>2, ResultTypes DEF CreateWriter, WorkerOK, PCs
    <2> QED BY <2>1, <2>2, <2>3, WorkerStep
  <1> QED
    BY <1>1, <1>2, <1>3, <1>4, <1>5, <1>6, <1>7, <1>8, <1>9, <1>10, <1>11, <1>12,
       <1>13, <1>14, <1>15, <1>16, <1>17, <1>18, <1>19, <1>20, <1>21 DEF Step, Process

\* The invariant is inductive.
LEMMA NextIndInv == IndInv /\ [Next]_vars => IndInv'
  <1> SUFFICES ASSUME IndInv, [Next]_vars PROVE IndInv'
    OBVIOUS
  <1>1. CASE \E w \in Workers : Step(w)
    BY <1>1, StepIndInv
  <1>2. CASE UNCHANGED vars
    BY <1>2 DEF vars, IndInv, TypeOK, VersionChain, ViewsAreVersions, ControlOK, ResultsWereStored
  <1> QED BY <1>1, <1>2 DEF Next, Finished

\* The inductive invariant, and with it the types, the version chain, the
\* managers' views and the results, holds in every reachable state.
THEOREM Invariance == Spec => []IndInv
  BY InitIndInv, NextIndInv, PTL DEF Spec

\* The variables keep their types.
THEOREM TypeCorrect == Spec => []TypeOK
  BY Invariance, PTL DEF IndInv

\* What a manager tracks is what the store held under the version it tracks.
THEOREM ViewsCorrect == Spec => []ViewsAreVersions
  BY Invariance, PTL DEF IndInv

\* Workers that end with a terminal task agree with the store and so with
\* each other: only the last task of the chain can be terminal.
THEOREM Agreement == Spec => []OutcomesAgree
  <1>1. IndInv => OutcomesAgree
    BY DEF IndInv, TypeOK, VersionChain, ResultsWereStored, OutcomesAgree
  <1> QED BY <1>1, Invariance, PTL

\* What a step can do to a stored task: nothing, or apply one event of the
\* worker to exactly the stored task, which then is not terminal.
Serial(w) ==
    /\ ~Terminal(store.task.state)
    /\ store'.version = store.version + 1
    /\ \E e \in ChangesOf(w) : store'.task = ApplyUpdate(store.task, e)

\* Every step of a worker that replaces a stored task is serial.
LEMMA StepSerial ==
    ASSUME IndInv, NEW w \in Workers, Step(w), store.task # NoTask, store' # store
    PROVE  Serial(w)
  <1>1. CASE UpdateHistory(w)
    <2>1. /\ mgr[w].tracked # NoTask /\ ~Terminal(mgr[w].state) /\ w \in Executors
          /\ ~ConcurrentModification(mgr[w].version)
      BY <1>1, IndInvParts DEF UpdateHistory, WorkerOK, StoreUnchanged
    <2>2. store' = [version |-> store.version + 1,
                    task |-> ApplyUpdate(mgr[w].tracked, UserMessage(MessageOf[w]))]
      BY <1>1, <2>1 DEF UpdateHistory, Update
    <2>3. UserMessage(MessageOf[w]) \in ChangesOf(w)
      BY <2>1 DEF ChangesOf
    <2> QED BY <2>1, <2>2, <2>3, AcceptedIsCurrent DEF Serial
  <1>2. CASE ApplyEvent(w)
    <2>1. /\ mgr[w].tracked # NoTask /\ ~Terminal(mgr[w].state)
          /\ ~ConcurrentModification(mgr[w].version)
      BY <1>2 DEF ApplyEvent, Rejects, StoreUnchanged
    <2>2. store' = [version |-> store.version + 1, task |-> ApplyUpdate(mgr[w].tracked, event[w])]
      BY <1>2, <2>1 DEF ApplyEvent, Update
    <2>3. event[w] \in ChangesOf(w)
      BY DEF ChangesOf
    <2> QED BY <2>1, <2>2, <2>3, AcceptedIsCurrent DEF Serial
  <1>3. ASSUME NEW l, MarkFailed(w, l) PROVE Serial(w)
    <2>1. /\ mgr[w].tracked # NoTask /\ ~Terminal(mgr[w].state)
          /\ ~ConcurrentModification(mgr[w].version)
      BY <1>3 DEF MarkFailed, StoreUnchanged
    <2>2. store' = [version |-> store.version + 1,
                    task |-> ApplyUpdate(mgr[w].tracked, StatusEvent("failed"))]
      BY <1>3, <2>1 DEF MarkFailed, Update
    <2>3. StatusEvent("failed") \in ChangesOf(w)
      BY DEF ChangesOf
    <2> QED BY <2>1, <2>2, <2>3, AcceptedIsCurrent DEF Serial
  <1>4. CASE SetTaskFailed(w) \/ ProcessError(w)
    BY <1>3, <1>4 DEF SetTaskFailed, ProcessError
  <1>5. \/ UpdateHistory(w) \/ ApplyEvent(w) \/ SetTaskFailed(w) \/ ProcessError(w)
    BY DEF Step, Process, StoreUnchanged, StartNew, LoadTask, SavePushConfig, CreateCanceler, CreateWriter,
           ReadEvent, ReadError, RejectEvent, AcceptUnstored, CreateTask, CancelReload,
           ResolveConflict, PushSent, PushFailed, LoadResult, Publish, PublishFailed
  <1> QED BY <1>1, <1>2, <1>4, <1>5

\* No step changes the stored task once it is terminal.
THEOREM TerminalTasksImmutable == Spec => TerminalImmutable
  <1>1. IndInv /\ [Next]_vars =>
          [store.task # NoTask /\ Terminal(store.task.state) => UNCHANGED store]_vars
    BY StepSerial DEF Next, Finished, vars, Serial
  <1> QED BY <1>1, Invariance, PTL DEF Spec, TerminalImmutable

\* Every replacement of a stored task is one event applied to that very task.
THEOREM Serialization == Spec => UpdatesSerialize
  <1>1. IndInv /\ [Next]_vars =>
          [store.task # NoTask /\ store' # store =>
             /\ store'.version = store.version + 1
             /\ \E w \in Workers : \E e \in ChangesOf(w) :
                    store'.task = ApplyUpdate(store.task, e)]_vars
    BY StepSerial DEF Next, Finished, vars, Serial
  <1> QED BY <1>1, Invariance, PTL DEF Spec, UpdatesSerialize
\* A step of a worker changes nothing of the others.
LEMMA StepMovesOne ==
    ASSUME IndInv, NEW w \in Workers, Step(w)
    PROVE  OnlyMoves(w)
  <1>0. /\ pc \in [Workers -> PCs] /\ mgr \in [Workers -> Manager]
        /\ event \in [Workers -> Event]
        /\ attempts \in [Workers -> 0..MaxCancelationAttempts]
        /\ result \in [Workers -> Result]
    BY IndInvParts
  <1>1. pc' = [pc EXCEPT ![w] = pc'[w]]
    BY <1>0 DEF Step, Process, StartNew, LoadTask, UpdateHistory, SavePushConfig, CreateCanceler,
       CreateWriter, ReadEvent, ReadError, RejectEvent, AcceptUnstored, CreateTask, ApplyEvent,
       CancelReload, ResolveConflict, PushSent, PushFailed, SetTaskFailed, ProcessError, MarkFailed,
       LoadResult, Publish, PublishFailed, Goto, Finish
  <1>2. mgr' = [mgr EXCEPT ![w] = mgr'[w]]
    BY <1>0 DEF Step, Process, StartNew, LoadTask, UpdateHistory, SavePushConfig, CreateCanceler,
       CreateWriter, ReadEvent, ReadError, RejectEvent, AcceptUnstored, CreateTask, ApplyEvent,
       CancelReload, ResolveConflict, PushSent, PushFailed, SetTaskFailed, ProcessError, MarkFailed,
       LoadResult, Publish, PublishFailed, Track
  <1>3. event' = [event EXCEPT ![w] = event'[w]] /\ attempts' = [attempts EXCEPT ![w] = attempts'[w]]
    BY <1>0 DEF Step, Process, StartNew, LoadTask, UpdateHistory, SavePushConfig, CreateCanceler,
       CreateWriter, ReadEvent, ReadError, RejectEvent, AcceptUnstored, CreateTask, ApplyEvent,
       CancelReload, ResolveConflict, PushSent, PushFailed, SetTaskFailed, ProcessError, MarkFailed,
       LoadResult, Publish, PublishFailed
  <1>4. result' = [result EXCEPT ![w] = result'[w]]
    BY <1>0 DEF Step, Process, StartNew, LoadTask, UpdateHistory, SavePushConfig, CreateCanceler,
       CreateWriter, ReadEvent, ReadError, RejectEvent, AcceptUnstored, CreateTask, ApplyEvent,
       CancelReload, ResolveConflict, PushSent, PushFailed, SetTaskFailed, ProcessError, MarkFailed,
       LoadResult, Publish, PublishFailed, Finish
  <1> QED BY <1>1, <1>2, <1>3, <1>4 DEF OnlyMoves

(***************************************************************************)
(* A cancelation that has spent its attempts.                              *)
(***************************************************************************)
\* It is about to resolve the conflict, it is done, or the conflict was with
\* a task that is terminal by now.
StoredTerminal == store.task # NoTask /\ Terminal(store.task.state)

GivesUp(w) ==
    attempts[w] = MaxCancelationAttempts => pc[w] \in {"reload", "done"} \/ StoredTerminal

\* A terminal task stays stored.
LEMMA TerminalStays ==
    ASSUME IndInv, [Next]_vars, StoredTerminal
    PROVE  StoredTerminal' /\ UNCHANGED store
  <1>1. UNCHANGED store
    BY StepSerial DEF Next, Finished, vars, Serial, StoredTerminal
  <1> QED BY <1>1 DEF StoredTerminal

\* The worker that steps keeps its part.
LEMMA StepGivesUp ==
    ASSUME IndInv, NEW w \in Workers, Step(w), GivesUp(w)
    PROVE  GivesUp(w)'
  <1>0. /\ WorkerOK(w) /\ ChainOK /\ pc \in [Workers -> PCs]
        /\ attempts \in [Workers -> 0..MaxCancelationAttempts]
    BY IndInvParts
  <1>1. CASE StoredTerminal
    BY <1>1, TerminalStays DEF Next, GivesUp
  <1>2. CASE ~StoredTerminal /\ attempts[w] = MaxCancelationAttempts
    <2>1. pc[w] = "reload" \/ pc[w] = "done"
      BY <1>2 DEF GivesUp
    <2>2. pc[w] = "reload" /\ ResolveConflict(w)
      BY <2>1 DEF Step, Process, StartNew, LoadTask, UpdateHistory, SavePushConfig, CreateCanceler,
         CreateWriter, ReadEvent, ReadError, RejectEvent, AcceptUnstored, CreateTask, ApplyEvent,
         CancelReload, ResolveConflict, PushSent, PushFailed, SetTaskFailed, ProcessError,
         LoadResult, Publish, PublishFailed
    <2>3. store.task # NoTask
      BY <1>0, <2>2, NoTaskAssumption DEF WorkerOK, ChainOK, VersionChain
    <2>4. pc'[w] = "done"
      BY <1>0, <1>2, <2>2, <2>3 DEF ResolveConflict, StoredTerminal, Finish, Goto
    <2> QED BY <2>4 DEF GivesUp
  <1>3. CASE ~StoredTerminal /\ attempts[w] # MaxCancelationAttempts
    <2>1. CASE CancelReload(w)
      <3>1. store.task # NoTask /\ ~Terminal(store.task.state) /\ store' = store
        BY <1>0, <1>3, <2>1, NoTaskAssumption
           DEF CancelReload, WorkerOK, ChainOK, VersionChain, StoredTerminal, StoreUnchanged
      <3>2. /\ attempts'[w] = attempts[w] + 1 /\ attempts[w] \in Nat
            /\ pc'[w] = AfterReload(store.task.state, attempts[w] + 1)
        BY <1>0, <2>1 DEF CancelReload, Goto
      <3>3. store.task.state # "canceled"
        BY <3>1 DEF Terminal, TerminalStates
      <3> QED BY <3>1, <3>2, <3>3 DEF AfterReload, GivesUp
    <2>2. CASE ReadEvent(w)
      BY <1>0, <2>2, ConfigAssumption DEF ReadEvent, GivesUp
    <2>3. CASE ~CancelReload(w) /\ ~ReadEvent(w)
      <3>1. attempts' = attempts
        BY <2>3 DEF Step, Process, StartNew, LoadTask, UpdateHistory, SavePushConfig, CreateCanceler,
           CreateWriter, ReadError, RejectEvent, AcceptUnstored, CreateTask, ApplyEvent,
           ResolveConflict, PushSent, PushFailed, SetTaskFailed, ProcessError, MarkFailed,
           LoadResult, Publish, PublishFailed
      <3> QED BY <1>3, <3>1 DEF GivesUp
    <2> QED BY <2>1, <2>2, <2>3
  <1> QED BY <1>1, <1>2, <1>3

\* Every step keeps it for every worker.
LEMMA NextGivesUp ==
    IndInv /\ (\A u \in Workers : GivesUp(u)) /\ [Next]_vars => (\A u \in Workers : GivesUp(u))'
  <1> SUFFICES ASSUME IndInv, \A u \in Workers : GivesUp(u), [Next]_vars, NEW u \in Workers
               PROVE  GivesUp(u)'
    OBVIOUS
  <1>1. ASSUME NEW w \in Workers, Step(w) PROVE GivesUp(u)'
    <2>1. CASE u = w
      BY <1>1, <2>1, StepGivesUp
    <2>2. CASE u # w
      <3>1. pc'[u] = pc[u] /\ attempts'[u] = attempts[u]
        BY <1>1, <2>2, StepMovesOne, IndInvParts DEF OnlyMoves
      <3> QED BY <3>1, TerminalStays DEF GivesUp
    <2> QED BY <2>1, <2>2
  <1>2. CASE UNCHANGED vars
    BY <1>2 DEF vars, GivesUp, StoredTerminal
  <1> QED BY <1>1, <1>2 DEF Next, Finished

\* updateStatus after maxCancelationAttempts conflicts: the worker ends
\* without another write, and the task is left to whoever is running it.
THEOREM CancelGivesUp == Spec => ExhaustedCancelGivesUp
  <1>1. Init => \A u \in Workers : GivesUp(u)
    BY ConfigAssumption DEF Init, GivesUp
  <1>2. IndInv /\ (\A u \in Workers : GivesUp(u)) /\ [Next]_vars =>
          [\A w \in Workers :
             attempts[w] = MaxCancelationAttempts /\ pc'[w] # pc[w] => UNCHANGED store]_vars
    <2> SUFFICES ASSUME IndInv, \A u \in Workers : GivesUp(u), [Next]_vars, NEW w \in Workers,
                        attempts[w] = MaxCancelationAttempts, pc'[w] # pc[w]
                 PROVE  UNCHANGED store
      OBVIOUS
    <2>1. CASE StoredTerminal
      BY <2>1, TerminalStays
    <2>2. CASE ~StoredTerminal
      <3>1. pc[w] \in {"reload", "done"}
        BY <2>2 DEF GivesUp
      <3>2. PICK v \in Workers : Step(v)
        BY DEF Next, Finished, vars
      <3>3. v = w
        BY <3>2, StepMovesOne, IndInvParts DEF OnlyMoves
      <3> QED
        BY <3>1, <3>2, <3>3 DEF Step, Process, StartNew, LoadTask, UpdateHistory, SavePushConfig,
           CreateCanceler, CreateWriter, ReadEvent, ReadError, RejectEvent, AcceptUnstored,
           CreateTask, ApplyEvent, CancelReload, ResolveConflict, PushSent, PushFailed,
           SetTaskFailed, ProcessError, LoadResult, Publish, PublishFailed, StoreUnchanged
    <2> QED BY <2>1, <2>2
  <1>3. Spec => [](\A u \in Workers : GivesUp(u))
    BY <1>1, NextGivesUp, Invariance, PTL DEF Spec
  <1> QED BY <1>2, <1>3, Invariance, PTL DEF Spec, ExhaustedCancelGivesUp
(***************************************************************************)
(* What a worker ends with.                                                *)
(***************************************************************************)
\* The state a manager tracks ends an execution wherever the next thing to do
\* is to load the result, and where a final event has been accepted.
FinalOK(w) ==
    /\ pc[w] = "process" /\ event[w].kind = "init" => FinalState(mgr[w].state)
    /\ pc[w] = "cancelReload" => event[w].kind = "status"
    /\ pc[w] = "push" /\ event[w].kind # "message" /\ IsFinal(event[w]) => FinalState(mgr[w].state)
    /\ pc[w] \in {"loadResult", "loadErrorResult"} => FinalState(mgr[w].state)
    /\ FullSnapshot /\ result[w].kind = "task" => FinalState(result[w].task.state)

\* Applying a final event gives a task in a state that ends the execution.
LEMMA FinalApplied ==
    ASSUME NEW t \in Task, NEW e \in Event, e.kind \in {"task", "status", "artifact"},
           ApplyUpdate(t, e) # NoTask, IsFinal(e)
    PROVE  FinalState(ApplyUpdate(t, e).state)
  <1>1. CASE e.kind = "task"
    BY <1>1 DEF ApplyUpdate, IsFinal
  <1>2. CASE e.kind = "status"
    <2>1. ApplyUpdate(t, e) = [t EXCEPT !.state = e.state]
      BY <1>2 DEF ApplyUpdate
    <2> QED BY <1>2, <2>1 DEF IsFinal, Task
  <1>3. CASE e.kind = "artifact"
    BY <1>3 DEF IsFinal
  <1> QED BY <1>1, <1>2, <1>3

\* Applying a failure gives a failed task.
LEMMA FailedApplied ==
    ASSUME NEW t \in Task, ~Terminal(t.state)
    PROVE  ApplyUpdate(t, StatusEvent("failed")).state = "failed"
  BY DEF ApplyUpdate, StatusEvent, Task

\* The worker that steps keeps its part.
LEMMA StepFinal ==
    ASSUME IndInv, NEW w \in Workers, Step(w), FinalOK(w)
    PROVE  FinalOK(w)'
  <1>0. /\ WorkerOK(w) /\ ChainOK /\ TypeOK /\ VersionChain
        /\ pc \in [Workers -> PCs] /\ mgr \in [Workers -> Manager]
        /\ event \in [Workers -> Event] /\ result \in [Workers -> Result]
    BY IndInvParts DEF IndInv
  <1> USE DEF Goto, Finish
  <1>1. CASE StartNew(w) \/ LoadTask(w) \/ SavePushConfig(w) \/ CreateCanceler(w) \/ CreateWriter(w)
    <2>1. /\ pc'[w] \in {"savePush", "history", "createWriter", "run", "done"}
          /\ event'[w] = event[w]
          /\ result'[w] = result[w] \/ result'[w] = ErrorResult
      BY <1>0, <1>1 DEF StartNew, LoadTask, SavePushConfig, CreateCanceler, CreateWriter, AfterSetup
    <2> QED BY <2>1, ResultTypes DEF FinalOK
  <1>2. CASE UpdateHistory(w)
    <2>1. /\ pc'[w] \in {"savePush", "done"}
          /\ result'[w] = result[w] \/ result'[w] = ErrorResult
      BY <1>0, <1>2 DEF UpdateHistory
    <2> QED BY <2>1, ResultTypes DEF FinalOK
  <1>3. CASE ReadEvent(w)
    <2>1. PICK e \in Emits(w) : event' = [event EXCEPT ![w] = e]
      BY <1>3 DEF ReadEvent
    <2>2. pc'[w] = "process" /\ mgr'[w] = mgr[w] /\ result'[w] = result[w] /\ event'[w] = e
      BY <1>0, <1>3, <2>1 DEF ReadEvent
    <2>3. e \in Event /\ (e = InitEvent => mgr[w].state = "canceled")
      BY <2>1, EventsAssumption DEF Emits, Event
    <2>4. e.kind = "init" => e = InitEvent
      BY <2>3 DEF Event, TaskEvent, StatusEvent, ArtifactEvent, AgentMessage, InitEvent, InvalidEvent
    <2> QED BY <2>2, <2>3, <2>4 DEF FinalOK, FinalState, Terminal, TerminalStates
  <1>4. CASE ReadError(w) \/ RejectEvent(w) \/ PublishFailed(w)
    <2>1. /\ pc'[w] \in {"processError", "setFailed", "done"}
          /\ \/ result'[w] = result[w] \/ result'[w] = ErrorResult \/ result'[w] = NoResult
      BY <1>0, <1>4 DEF ReadError, RejectEvent, PublishFailed
    <2> QED BY <2>1, ResultTypes DEF FinalOK
  <1>5. CASE AcceptUnstored(w)
    <2>1. /\ pc[w] = "process" /\ pc'[w] = "push" /\ event[w].kind \in {"message", "init"}
          /\ UNCHANGED <<mgr[w], event[w], result[w]>>
      BY <1>0, <1>5 DEF AcceptUnstored
    <2> QED BY <2>1 DEF FinalOK
  <1>6. CASE CreateTask(w)
    <2>1. /\ event[w].kind = "task" /\ UNCHANGED <<event[w], result[w]>>
          /\ \/ pc'[w] = "setFailed"
             \/ pc'[w] = "push" /\ mgr'[w].state = event[w].task.state
      BY <1>0, <1>6 DEF CreateTask, Track
    <2> QED BY <2>1 DEF FinalOK, IsFinal
  <1>7. CASE ApplyEvent(w)
    <2>1. CASE ConcurrentModification(mgr[w].version)
      <3>1. /\ pc'[w] \in {"cancelReload", "reload"} /\ UNCHANGED <<event[w], result[w]>>
            /\ pc'[w] = "cancelReload" => event[w].kind = "status"
        BY <1>0, <1>7, <2>1 DEF ApplyEvent, Retries
      <3> QED BY <3>1 DEF FinalOK
    <2>2. CASE ~ConcurrentModification(mgr[w].version)
      <3> DEFINE t == ApplyUpdate(mgr[w].tracked, event[w])
      <3>1. /\ pc'[w] = "push" /\ UNCHANGED <<event[w], result[w]>> /\ mgr'[w].state = t.state
            /\ event[w].kind \in {"task", "status", "artifact"} /\ t # NoTask
            /\ mgr[w].tracked # NoTask
        BY <1>0, <1>7, <2>2 DEF ApplyEvent, Track, Rejects
      <3>2. mgr[w].tracked \in Task /\ event[w] \in Event
        BY <1>0, <3>1 DEF WorkerOK, Manager
      <3>3. IsFinal(event[w]) => FinalState(t.state)
        BY <3>1, <3>2, FinalApplied
      <3> HIDE DEF t
      <3> QED BY <3>1, <3>3 DEF FinalOK, IsFinal
    <2> QED BY <2>1, <2>2
  <1>8. CASE CancelReload(w)
    <2>1. /\ pc[w] = "cancelReload" /\ UNCHANGED <<event[w], result[w]>>
          /\ pc'[w] \in {"reload", "push", "process"}
          /\ pc'[w] = "push" => store.task.state = "canceled"
          /\ store.task.state = "canceled" => mgr'[w].state = "canceled"
      BY <1>0, <1>8 DEF CancelReload, AfterReload, Track
    <2> QED BY <2>1 DEF FinalOK, FinalState, Terminal, TerminalStates
  <1>9. CASE ResolveConflict(w)
    <2>1. /\ pc'[w] \in {"publish", "done"}
          /\ \/ Terminal(store.task.state) /\ result'[w] = TaskResult(store.task, store.version)
             \/ result'[w] = ErrorResult
      BY <1>0, <1>9 DEF ResolveConflict
    <2>2. TaskResult(store.task, store.version).task = store.task
      BY DEF TaskResult
    <2> QED BY <2>1, <2>2, ResultTypes DEF FinalOK, FinalState
  <1>10. CASE PushSent(w)
    <2>1. /\ UNCHANGED <<mgr[w], event[w]>> /\ pc[w] = "push"
          /\ \/ pc'[w] = "publish" /\ result'[w] \in {result[w], MessageResult}
             \/ /\ pc'[w] = "loadResult" /\ result'[w] = result[w]
                /\ event[w].kind # "message" /\ IsFinal(event[w])
      BY <1>0, <1>10 DEF PushSent
    <2> QED BY <2>1, ResultTypes DEF FinalOK
  <1>11. CASE PushFailed(w)
    <2>1. pc'[w] \in {"setFailed", "done"} /\ result'[w] \in {result[w], ErrorResult}
      BY <1>0, <1>11 DEF PushFailed
    <2> QED BY <2>1, ResultTypes DEF FinalOK
  <1>12. CASE SetTaskFailed(w) \/ ProcessError(w)
    <2>1. PICK l \in {"loadResult", "loadErrorResult"} : MarkFailed(w, l)
      BY <1>12 DEF SetTaskFailed, ProcessError
    <2>2. CASE mgr[w].tracked = NoTask \/ Terminal(mgr[w].state) \/ ConcurrentModification(mgr[w].version)
      <3>1. pc'[w] = "done" /\ result'[w] = ErrorResult
        BY <1>0, <2>1, <2>2 DEF MarkFailed
      <3> QED BY <3>1, ResultTypes DEF FinalOK
    <2>3. CASE ~(mgr[w].tracked = NoTask \/ Terminal(mgr[w].state) \/ ConcurrentModification(mgr[w].version))
      <3> DEFINE t == ApplyUpdate(mgr[w].tracked, StatusEvent("failed"))
      <3>1. pc'[w] = l /\ result'[w] = result[w] /\ mgr'[w].state = t.state
        BY <1>0, <2>1, <2>3 DEF MarkFailed, Track
      <3>2. t.state = "failed"
        BY <1>0, <2>3, FailedApplied DEF WorkerOK, Manager
      <3> HIDE DEF t
      <3> QED BY <3>1, <3>2 DEF FinalOK, FinalState, Terminal, TerminalStates
    <2> QED BY <2>2, <2>3
  <1>13. CASE LoadResult(w)
    <2>1. /\ pc'[w] \in {"publish", "done"} /\ pc[w] \in {"loadResult", "loadErrorResult"}
          /\ FullSnapshot => result'[w] = TaskResult(mgr[w].tracked, mgr[w].version)
      BY <1>0, <1>13 DEF LoadResult, LoadedResult
    <2>2. FinalState(mgr[w].tracked.state)
      BY <1>0, <2>1 DEF FinalOK, WorkerOK
    <2>3. TaskResult(mgr[w].tracked, mgr[w].version).task = mgr[w].tracked
      BY DEF TaskResult
    <2> QED BY <2>1, <2>2, <2>3 DEF FinalOK
  <1>14. CASE Publish(w)
    <2>1. pc'[w] \in {"run", "done"} /\ result'[w] = result[w]
      BY <1>0, <1>14 DEF Publish
    <2> QED BY <2>1 DEF FinalOK
  <1> QED
    BY <1>1, <1>2, <1>3, <1>4, <1>5, <1>6, <1>7, <1>8, <1>9, <1>10, <1>11, <1>12, <1>13, <1>14
       DEF Step, Process

\* Every step keeps it for every worker.
LEMMA NextFinal ==
    IndInv /\ (\A u \in Workers : FinalOK(u)) /\ [Next]_vars => (\A u \in Workers : FinalOK(u))'
  <1> SUFFICES ASSUME IndInv, \A u \in Workers : FinalOK(u), [Next]_vars, NEW u \in Workers
               PROVE  FinalOK(u)'
    OBVIOUS
  <1>1. ASSUME NEW w \in Workers, Step(w) PROVE FinalOK(u)'
    <2>1. CASE u = w
      BY <1>1, <2>1, StepFinal
    <2>2. CASE u # w
      <3>1. UNCHANGED <<pc[u], mgr[u], event[u], result[u]>>
        BY <1>1, <2>2, StepMovesOne, IndInvParts DEF OnlyMoves
      <3> QED BY <3>1 DEF FinalOK
    <2> QED BY <2>1, <2>2
  <1>2. CASE UNCHANGED vars
    BY <1>2 DEF vars, FinalOK
  <1> QED BY <1>1, <1>2 DEF Next, Finished

\* With a full-snapshot materializer nobody is answered with a task that is
\* still running: the processor loads a result only after a final event, a
\* failure it stored itself, or a conflict with a terminal task.
THEOREM FinalResults == Spec => []ResultsAreFinal
  <1>1. Init => \A u \in Workers : FinalOK(u)
    BY DEF Init, FinalOK, NoResult
  <1>2. (\A u \in Workers : FinalOK(u)) => ResultsAreFinal
    BY DEF FinalOK, ResultsAreFinal
  <1>3. Spec => [](\A u \in Workers : FinalOK(u))
    BY <1>1, NextFinal, Invariance, PTL DEF Spec
  <1> QED BY <1>2, <1>3, PTL

-----------------------------------------------------------------------------
(***************************************************************************)
(* Refinement of TaskUpdate.                                               *)
(***************************************************************************)
\* Calls, readers, leases and places are not part of the workers' state.
LEMMA FrontendLeavesTask ==
    ASSUME NEW k \in Calls, FrontendStep(k)
    PROVE  UNCHANGED vars
BY DEF FrontendStep, ExecuteCall, CancelCall, Resubscribe, CreateReader, CreateReaderFails,
       EncodeFails, CloseReader, SubSnapshot, SubRead, SubFails, CancelResolves

\* A handler leaves the task alone or takes a step of its worker.
LEMMA BackendWorks ==
    ASSUME NEW w \in Workers, BackendStep(w)
    PROVE  Step(w) \/ UNCHANGED vars
<1>1. HandlerWorks(w) \/ HandlerPublishes(w) \/ HandlerPublishFails(w) => Step(w)
  BY DEF HandlerWorks, HandlerPublishes, HandlerPublishFails, Step
<1>2. AcquireLease(w) \/ AcquirePermit(w) \/ DecodeFails(w) \/ HandlerReturns(w)
         \/ ReleasePermit(w) => UNCHANGED vars
  BY DEF AcquireLease, AcquirePermit, DecodeFails, HandlerReturns, ReleasePermit
<1>. QED  BY <1>1, <1>2 DEF BackendStep

\* The cluster implements TaskUpdate: whatever frontends, work queue and
\* subscriptions do, the task and its workers behave as TaskUpdate says.
THEOREM ClusterImplementsTaskUpdate == ClusterSpec => Spec
<1>1. ClusterInit => Init
  BY DEF ClusterInit
<1>2. [ClusterNext]_allVars => [Next]_vars
  <2>1. ASSUME ClusterNext  PROVE  [Next]_vars
    <3>1. CASE \E k \in Calls : FrontendStep(k)
      BY <3>1, FrontendLeavesTask
    <3>2. CASE \E w \in Workers : BackendStep(w)
      BY <3>2, BackendWorks DEF Next
    <3>. QED  BY <2>1, <3>1, <3>2 DEF ClusterNext
  <2>2. UNCHANGED allVars => UNCHANGED vars
    BY DEF allVars
  <2>. QED  BY <2>1, <2>2
<1>. QED  BY <1>1, <1>2, PTL DEF ClusterSpec, Spec

\* In a cluster too no update is lost and a terminal task never changes.
THEOREM ClusterUpdatesSerialize == ClusterSpec => UpdatesSerialize /\ TerminalImmutable
BY ClusterImplementsTaskUpdate, Serialization, TerminalTasksImmutable, PTL

\* In a cluster too all workers that end with a terminal task agree.
THEOREM ClusterOutcomesAgree == ClusterSpec => []OutcomesAgree
BY ClusterImplementsTaskUpdate, Agreement, PTL

-----------------------------------------------------------------------------
(***************************************************************************)
(* What a worker's step leaves alone: the other workers, and the tasks     *)
(* stored before.                                                          *)
(***************************************************************************)
\* A step keeps every stored version.
LEMMA StepExtendsChain ==
    ASSUME IndInv, NEW w \in Workers, Step(w)
    PROVE  ExtendsChain
<1>1. saved \in Seq(Task) /\ (store.task = NoTask <=> saved = <<>>)
  BY DEF IndInv, TypeOK, VersionChain
<1>2. ASSUME NEW t, saved' = Append(saved, t)  PROVE ExtendsChain
  <2>1. Len(saved') = Len(saved) + 1 /\ \A v \in 1..Len(saved) : saved'[v] = saved[v]
    BY <1>1, <1>2
  <2>. QED  BY <1>1, <2>1 DEF ExtendsChain
<1>3. CASE saved' = saved
  BY <1>1, <1>3 DEF ExtendsChain
<1>4. CASE saved = <<>> /\ \E t : saved' = <<t>>
  BY <1>4 DEF ExtendsChain
<1>5. \/ saved' = saved
      \/ \E t : saved' = Append(saved, t)
      \/ saved = <<>> /\ \E t : saved' = <<t>>
  <2>1. CASE UpdateHistory(w) \/ ApplyEvent(w) \/ SetTaskFailed(w) \/ ProcessError(w)
    BY <2>1 DEF UpdateHistory, ApplyEvent, SetTaskFailed, ProcessError, MarkFailed, Update, StoreUnchanged
  <2>2. CASE CreateTask(w)
    BY <1>1, <2>2 DEF CreateTask, Create, StoreUnchanged
  <2>3. CASE ~(UpdateHistory(w) \/ ApplyEvent(w) \/ SetTaskFailed(w) \/ ProcessError(w) \/ CreateTask(w))
    BY <2>3 DEF Step, Process, StoreUnchanged, StartNew, LoadTask, SavePushConfig, CreateCanceler,
           CreateWriter, ReadEvent, ReadError, RejectEvent, AcceptUnstored, CancelReload,
           ResolveConflict, PushSent, PushFailed, LoadResult, Publish, PublishFailed
  <2>. QED  BY <2>1, <2>2, <2>3
<1>. QED  BY <1>2, <1>3, <1>4, <1>5

\* A message that told what was stored still does.
LEMMA StillStored ==
    ASSUME IndInv, ExtendsChain, NEW m \in Message, StoredMessage(m), Len(saved') \in Nat
    PROVE  StoredMessage(m)'
<1>1. Len(saved) \in Nat /\ \A v \in 1..Len(saved) : v \in 1..Len(saved') /\ saved'[v] = saved[v]
  BY DEF ExtendsChain, IndInv, TypeOK
<1>. QED  BY <1>1 DEF StoredMessage

-----------------------------------------------------------------------------
(***************************************************************************)
(* The message a worker is about to broadcast.                             *)
(***************************************************************************)
\* The event a worker publishes is typed and was stored under its version.
LEMMA EmittedStored ==
    ASSUME IndInv, NEW w \in Workers, WorkerPublishOK(w), pc[w] = "publish"
    PROVE  Emitted(w) \in Message /\ StoredMessage(Emitted(w))
<1> DEFINE m == Emitted(w)
<1>1. /\ saved \in Seq(Task) /\ Len(saved) \in Nat /\ \A v \in 1..Len(saved) : saved[v] \in Task
      /\ WorkerOK(w)
  BY IndInvParts DEF ChainOK
<1>2. \A t \in Task : TaskEvent(t) \in Event /\ TaskEvent(t).kind = "task" /\ TaskEvent(t).task = t
  BY DEF TaskEvent, Event
<1>3. InitEvent.kind = "init"
  BY DEF InitEvent
<1>4. CASE override[w]
  <2>1. result[w].kind = "task" /\ result[w].version \in 1..Len(saved)
          /\ saved[result[w].version] = result[w].task /\ result[w].task \in Task
    BY <1>1, <1>4 DEF WorkerPublishOK, WorkerOK
  <2>2. m = [event |-> TaskEvent(result[w].task), version |-> result[w].version]
    BY <1>4, <2>1 DEF Emitted
  <2>. QED  BY <1>1, <1>2, <2>1, <2>2 DEF Message, StoredMessage
<1>5. CASE ~override[w] /\ event[w].kind = "message"
  <2>1. result[w].kind = "message" /\ event[w] # InitEvent /\ result[w].version \in Nat /\ event[w] \in Event
    BY <1>1, <1>3, <1>5 DEF WorkerPublishOK, WorkerOK, Result
  <2>2. m = [event |-> event[w], version |-> result[w].version]
    BY <1>5, <2>1 DEF Emitted
  <2>. QED  BY <1>5, <2>1, <2>2 DEF Message, StoredMessage
<1>6. CASE ~override[w] /\ event[w].kind # "message"
  <2>1. /\ mgr[w].tracked # NoTask /\ mgr[w].version \in 1..Len(saved)
        /\ mgr[w].tracked = saved[mgr[w].version] /\ mgr[w].tracked \in Task
        /\ mgr[w].state = mgr[w].tracked.state /\ event[w] \in Event
        /\ result[w].kind \in {"none", "task"}
    BY <1>1, <1>6 DEF WorkerPublishOK, WorkerOK, Result
  <2>2. m.event = IF event[w] = InitEvent THEN TaskEvent(mgr[w].tracked) ELSE event[w]
    BY <1>6 DEF Emitted
  <2>3. m.event \in Event /\ (m.event.kind = "task" => m.event.task = mgr[w].tracked)
          /\ (m.event.kind = "status" => m.event.state = mgr[w].state)
    BY <1>2, <1>3, <1>6, <2>1, <2>2 DEF WorkerPublishOK
  <2>4. CASE result[w].kind = "none"
    <3>1. m = [event |-> m.event, version |-> mgr[w].version]
      BY <2>4 DEF Emitted
    <3>. QED  BY <1>1, <2>1, <2>3, <3>1 DEF Message, StoredMessage
  <2>5. CASE result[w].kind = "task"
    <3>1. m = [event |-> m.event, version |-> result[w].version] /\ result[w].version \in 1..Len(saved)
      BY <1>1, <2>5 DEF Emitted, WorkerOK
    <3>2. FullSnapshot \/ Terminal(mgr[w].state) => result[w].version = mgr[w].version
      BY <1>6, <2>5 DEF WorkerPublishOK
    <3>. QED  BY <1>1, <2>1, <2>3, <3>1, <3>2 DEF Message, StoredMessage
  <2>. QED  BY <2>1, <2>4, <2>5
<1>. QED  BY <1>4, <1>5, <1>6

\* A worker that processes an event keeps event, manager and result together.
LEMMA WorkKeepsPublishOK ==
    ASSUME IndInv, NEW w \in Workers, HandlerWorks(w), WorkerPublishOK(w),
           override \in [Workers -> BOOLEAN]
    PROVE  WorkerPublishOK(w)'
<1>1. /\ pc \in [Workers -> PCs] /\ mgr \in [Workers -> Manager]
      /\ event \in [Workers -> Event] /\ result \in [Workers -> Result]
      /\ WorkerOK(w) /\ event[w] \in Event /\ ChainOK
  BY IndInvParts DEF WorkerOK
<1>2. override'[w] = (pc[w] \in {"reload", "setFailed"} \/ (pc[w] # "run" /\ override[w]))
  BY DEF HandlerWorks
<1>3. /\ ErrorResult.kind = "error" /\ MessageResult.kind = "message"
      /\ \A t, v : TaskResult(t, v).kind = "task" /\ TaskResult(t, v).task = t /\ TaskResult(t, v).version = v
  BY DEF ErrorResult, MessageResult, TaskResult, NoResult
<1>4. CASE StartNew(w) \/ SavePushConfig(w) \/ CreateWriter(w)
  BY <1>1, <1>2, <1>3, <1>4
     DEF WorkerPublishOK, StartNew, SavePushConfig, CreateWriter, AfterSetup, Goto, Finish
<1>5. CASE LoadTask(w) \/ CreateCanceler(w) \/ UpdateHistory(w)
  BY <1>1, <1>2, <1>3, <1>5
     DEF WorkerPublishOK, LoadTask, CreateCanceler, UpdateHistory, AfterSetup, Goto, Finish
<1>6. CASE ReadEvent(w) \/ ReadError(w)
  BY <1>1, <1>2, <1>3, <1>6 DEF WorkerPublishOK, ReadEvent, ReadError, Goto, Finish
<1>7. CASE RejectEvent(w) \/ AcceptUnstored(w)
  BY <1>1, <1>2, <1>7, EventShape DEF WorkerPublishOK, RejectEvent, AcceptUnstored, Rejects, Goto
<1>8. CASE CreateTask(w)
  <2>1. /\ event[w].kind = "task" /\ event[w].task \in Task /\ event[w].task # NoTask
        /\ pc[w] = "process" /\ pc'[w] \in {"setFailed", "push"} /\ UNCHANGED <<event[w], result[w]>>
        /\ pc'[w] = "push" => mgr'[w].tracked = event[w].task
    BY <1>1, <1>8, EventShape, NoTaskAssumption DEF CreateTask, Track, Goto
  <2>. QED  BY <1>2, <2>1 DEF WorkerPublishOK
<1>9. CASE ApplyEvent(w)
  <2>1. /\ event[w].kind \in {"task", "status", "artifact"} /\ pc[w] = "process"
        /\ UNCHANGED <<event[w], result[w]>>
        /\ pc'[w] \in {"cancelReload", "reload", "push"}
        /\ pc'[w] = "cancelReload" => Retries(event[w])
    BY <1>1, <1>9 DEF ApplyEvent, Goto
  <2>2. pc'[w] = "push" =>
           /\ mgr'[w].tracked # NoTask /\ mgr'[w].state = mgr'[w].tracked.state
           /\ mgr'[w].tracked = ApplyUpdate(mgr[w].tracked, event[w])
           /\ ~Terminal(mgr[w].tracked.state) /\ mgr[w].tracked \in Task
    BY <1>1, <1>9 DEF ApplyEvent, Rejects, Track, Goto, WorkerOK, Manager
  <2>3. pc'[w] = "push" =>
           /\ event[w].kind = "task" => event[w].task = mgr'[w].tracked
           /\ event[w].kind = "status" => event[w].state = mgr'[w].state
    BY <2>1, <2>2 DEF ApplyUpdate, Task
  <2>4. Retries(event[w]) => event[w] = StatusEvent("canceled")
    BY <1>1 DEF Retries, Event, StatusEvent, TaskEvent, ArtifactEvent, AgentMessage, InitEvent, InvalidEvent
  <2>5. ~override'[w] /\ result[w].kind = "none"
    BY <1>2, <2>1 DEF WorkerPublishOK
  <2>6. CASE pc'[w] = "push"
    BY <2>1, <2>2, <2>3, <2>5, <2>6 DEF WorkerPublishOK
  <2>7. CASE pc'[w] \in {"cancelReload", "reload"}
    BY <2>1, <2>4, <2>5, <2>7 DEF WorkerPublishOK
  <2>. QED  BY <2>1, <2>6, <2>7
<1>10. CASE CancelReload(w)
  <2>1. /\ event[w] = StatusEvent("canceled") /\ event[w].kind = "status" /\ event[w].state = "canceled"
        /\ pc[w] = "cancelReload" /\ UNCHANGED <<event[w], result[w]>>
        /\ pc'[w] = AfterReload(store.task.state, attempts[w] + 1)
    BY <1>1, <1>10 DEF CancelReload, Goto, WorkerPublishOK, StatusEvent
  <2>2. /\ pc'[w] \in {"reload", "push", "process"}
        /\ pc'[w] = "push" => store.task.state = "canceled"
    BY <2>1 DEF AfterReload
  <2>3. /\ store.task # NoTask
        /\ store.task.state = "canceled" => mgr'[w].tracked = store.task /\ mgr'[w].state = "canceled"
    <3>1. store.task # NoTask
      BY <1>1, <2>1 DEF WorkerOK, ChainOK, VersionChain
    <3>. QED  BY <1>1, <1>10, <3>1 DEF CancelReload, Track
  <2>. QED  BY <1>2, <2>1, <2>2, <2>3 DEF WorkerPublishOK
<1>11. CASE ResolveConflict(w)
  <2>1. /\ pc[w] = "reload" /\ pc'[w] \in {"publish", "done"}
        /\ pc'[w] = "publish" => result'[w].kind = "task"
    BY <1>1, <1>3, <1>11 DEF ResolveConflict, Goto, Finish
  <2>. QED  BY <1>2, <2>1 DEF WorkerPublishOK
<1>12. CASE PushSent(w)
  BY <1>1, <1>2, <1>3, <1>12 DEF WorkerPublishOK, PushSent, Goto, Finish
<1>13. CASE PushFailed(w)
  BY <1>1, <1>2, <1>3, <1>13 DEF WorkerPublishOK, PushFailed, Goto, Finish
<1>14. CASE SetTaskFailed(w) \/ ProcessError(w)
  BY <1>1, <1>2, <1>3, <1>14 DEF WorkerPublishOK, SetTaskFailed, ProcessError, MarkFailed, Goto, Finish
<1>15. CASE LoadResult(w)
  <2>1. /\ \/ pc[w] = "loadResult" /\ pc'[w] = "publish"
           \/ pc[w] = "loadErrorResult" /\ pc'[w] = "done"
        /\ result'[w] = LoadedResult(w) /\ UNCHANGED <<event[w], mgr[w]>>
        /\ mgr[w].tracked # NoTask
    BY <1>1, <1>15 DEF LoadResult, Goto, WorkerOK
  <2>2. Terminal(mgr[w].state) => store.task = mgr[w].tracked /\ store.version = mgr[w].version
    BY <1>1, <2>1 DEF WorkerOK, ChainOK, VersionChain
  <2>3. /\ LoadedResult(w).kind = "task"
        /\ FullSnapshot \/ Terminal(mgr[w].state) =>
             LoadedResult(w).task = mgr[w].tracked /\ LoadedResult(w).version = mgr[w].version
    BY <1>3, <2>2 DEF LoadedResult
  <2>. QED  BY <1>2, <2>1, <2>3 DEF WorkerPublishOK
<1>. QED
  BY <1>4, <1>5, <1>6, <1>7, <1>8, <1>9, <1>10, <1>11, <1>12, <1>13, <1>14, <1>15
     DEF HandlerWorks, Step, Process, Publish, PublishFailed
-----------------------------------------------------------------------------
(***************************************************************************)
(* The program points of calls, and the leases.                            *)
(***************************************************************************)
CallRecord == [pc : CallPCs, from : Nat, answer : Task \cup {NoTask}]

\* Moving a call on changes its program point only.
LEMMA CallMoves ==
    ASSUME call \in [Calls -> CallRecord], NEW k \in Calls, NEW label \in CallPCs, CallGoto(k, label)
    PROVE  /\ call' \in [Calls -> CallRecord]
           /\ call'[k].pc = label /\ UNCHANGED <<call[k].from, call[k].answer>>
           /\ \A j \in Calls \ {k} : call'[j] = call[j]
BY DEF CallGoto, CallRecord

\* What the frontend does to a call: its type stays, its place in the work
\* queue too, it never starts over, only Cancel is given an answer, and the
\* version it remembers is that of an active task.
LEMMA FrontendMoves ==
    ASSUME IndInv, ClusterTypeOK, NEW k \in Calls, FrontendStep(k)
    PROVE  /\ call' \in [Calls -> CallRecord]
           /\ UNCHANGED <<vars, lease, permits, handler, override, announced>>
           /\ \A j \in Calls :
                /\ call'[j].pc = "permit" <=> call[j].pc = "permit"
                /\ call'[j].pc \in {"idle", "subscribe", "lease", "permit"}
                     => call[j].pc \in {"idle", "subscribe", "lease", "permit"}
           /\ \A j \in Calls : call'[j].answer # call[j].answer => CancelCall(j) \/ CancelResolves(j)
           /\ \A j \in Calls : call'[j].from # call[j].from => Active /\ call'[j].from = store.version
<1>1. call \in [Calls -> CallRecord] /\ store.task \in Task \cup {NoTask} /\ store.version \in Nat
  BY DEF ClusterTypeOK, CallRecord, IndInv, TypeOK
<1>2. ASSUME NEW label \in CallPCs \ {"permit"}, CallGoto(k, label), call[k].pc # "permit",
             \/ label \notin {"idle", "subscribe", "lease"}
             \/ call[k].pc \in {"idle", "subscribe", "lease"}
      PROVE  /\ call' \in [Calls -> CallRecord]
             /\ \A j \in Calls :
                  /\ call'[j].pc = "permit" <=> call[j].pc = "permit"
                  /\ call'[j].pc \in {"idle", "subscribe", "lease", "permit"}
                       => call[j].pc \in {"idle", "subscribe", "lease", "permit"}
             /\ \A j \in Calls : UNCHANGED <<call[j].from, call[j].answer>>
  BY <1>1, <1>2, CallMoves
<1>3. CASE ExecuteCall(k) \/ Resubscribe(k) \/ CreateReader(k)
  <2>1. /\ call[k].pc \in {"idle", "subscribe"}
        /\ \E label \in {"subscribe", "refused", "listening", "lease"} : CallGoto(k, label)
        /\ UNCHANGED <<vars, lease, permits, handler, override, announced>>
    BY <1>3 DEF ExecuteCall, Resubscribe, CreateReader
  <2>. QED  BY <1>2, <2>1 DEF CallPCs
<1>4. CASE CreateReaderFails(k) \/ EncodeFails(k) \/ CloseReader(k)
  <2>1. /\ call[k].pc # "permit"
        /\ \E label \in {"refused", "closeReader"} : CallGoto(k, label)
        /\ UNCHANGED <<vars, lease, permits, handler, override, announced>>
    BY <1>4 DEF CreateReaderFails, EncodeFails, CloseReader
  <2>. QED  BY <1>2, <2>1 DEF CallPCs
<1>5. CASE SubSnapshot(k) \/ SubRead(k) \/ SubFails(k)
  BY <1>1, <1>5 DEF SubSnapshot, SubRead, SubFails
<1>6. CASE CancelCall(k)
  <2>1. call[k].pc = "idle" /\ UNCHANGED <<vars, lease, permits, handler, override, announced>>
    BY <1>6 DEF CancelCall
  <2>2. CASE CallGoto(k, "refused")
    BY <1>2, <2>1, <2>2 DEF CallPCs
  <2>3. CASE call' = [call EXCEPT ![k].pc = "subscribe", ![k].from = store.version] /\ Active
    BY <1>1, <2>1, <2>3 DEF CallRecord, CallPCs
  <2>4. CASE /\ call' = [call EXCEPT ![k].pc = "answered", ![k].answer = store.task]
             /\ store.task # NoTask
    BY <1>1, <1>6, <2>1, <2>4 DEF CallRecord, CallPCs
  <2>. QED  BY <1>6, <2>1, <2>2, <2>3, <2>4 DEF CancelCall
<1>7. CASE CancelResolves(k)
  <2>1. CancelOutcome(k) \in Task \cup {NoTask}
    <3>1. sub[k].last.event \in Event
      BY DEF ClusterTypeOK, Message
    <3>. QED  BY <1>1, <3>1, EventShape DEF CancelOutcome
  <2>. QED  BY <1>1, <1>7, <2>1 DEF CancelResolves, CallRecord, CallPCs
<1>. QED  BY <1>3, <1>4, <1>5, <1>6, <1>7 DEF FrontendStep

\* A step that leaves leases and handlers alone and moves no call into or out
\* of the work queue keeps leases exact.
LEMMA FrontendKeepsLeases ==
    ASSUME IndInv, ClusterTypeOK, NotStarted, LeasesExact, NEW k \in Calls, FrontendStep(k)
    PROVE  NotStarted' /\ LeasesExact'
BY FrontendMoves DEF NotStarted, LeasesExact, Calls, LeaseOf

\* What the work queue does to calls, leases, places and handlers.
LEMMA BackendTypes ==
    ASSUME ClusterTypeOK, NEW w \in Workers, BackendStep(w)
    PROVE  /\ call' \in [Calls -> CallRecord] /\ lease' \in [Lease -> Workers \cup {None}]
           /\ handler' \in [Workers -> HandlerPCs] /\ override' \in [Workers -> BOOLEAN]
           /\ \A j \in Calls : UNCHANGED <<call[j].from, call[j].answer>>
<1>1. /\ call \in [Calls -> CallRecord] /\ lease \in [Lease -> Workers \cup {None}] /\ w \in Calls
      /\ handler \in [Workers -> HandlerPCs] /\ override \in [Workers -> BOOLEAN]
  BY DEF ClusterTypeOK, CallRecord, Calls
<1>2. CASE AcquireLease(w) \/ AcquirePermit(w)
  <2>1. \E label \in {"permit", "closeReader", "listening", "refused"} : CallGoto(w, label)
    BY <1>2 DEF AcquireLease, AcquirePermit
  <2>2. call' \in [Calls -> CallRecord] /\ \A j \in Calls : UNCHANGED <<call[j].from, call[j].answer>>
    BY <1>1, <2>1, CallMoves DEF CallPCs
  <2>3. /\ lease' \in [Lease -> Workers \cup {None}]
        /\ handler' \in [Workers -> HandlerPCs] /\ override' = override
    BY <1>1, <1>2 DEF AcquireLease, AcquirePermit, HandlerPCs
  <2>. QED  BY <1>1, <2>2, <2>3
<1>3. CASE DecodeFails(w) \/ HandlerReturns(w) \/ ReleasePermit(w)
  BY <1>1, <1>3 DEF DecodeFails, HandlerReturns, ReleasePermit, HandlerPCs
<1>4. CASE HandlerWorks(w)
  BY <1>1, <1>4 DEF HandlerWorks
<1>5. CASE HandlerPublishes(w) \/ HandlerPublishFails(w)
  BY <1>1, <1>5 DEF HandlerPublishes, HandlerPublishFails
<1>. QED  BY <1>2, <1>3, <1>4, <1>5 DEF BackendStep

\* The work queue gives a lease to one worker at a time and takes it back
\* whichever way the work ends.
LEMMA BackendKeepsLeases ==
    ASSUME ClusterTypeOK, NotStarted, LeasesExact, NEW w \in Workers, BackendStep(w)
    PROVE  NotStarted' /\ LeasesExact'
<1>1. /\ call \in [Calls -> CallRecord] /\ lease \in [Lease -> Workers \cup {None}] /\ w \in Calls
      /\ handler \in [Workers -> HandlerPCs] /\ Workers \subseteq Calls
  BY DEF ClusterTypeOK, CallRecord, Calls
<1>2. /\ None \notin Workers /\ \A v \in Workers : LeaseOf(v) \in Lease
      /\ \A v \in Workers : CanLease(v) => lease[LeaseOf(v)] = None
  BY ClusterAssumption DEF LeaseOf, Lease, CanLease
<1>3. CASE AcquireLease(w) /\ CanLease(w)
  <2>1. /\ lease' = [lease EXCEPT ![LeaseOf(w)] = w] /\ handler' = handler
        /\ call[w].pc = "lease" /\ CallGoto(w, "permit")
    BY <1>3 DEF AcquireLease
  <2>2. call'[w].pc = "permit" /\ \A j \in Calls \ {w} : call'[j] = call[j]
    BY <1>1, <2>1, CallMoves DEF CallPCs
  <2>3. ASSUME NEW v \in Workers \ {w}
        PROVE  lease'[LeaseOf(v)] = v <=> call'[v].pc = "permit" \/ handler'[v] = "running"
    BY <1>1, <1>2, <1>3, <2>1, <2>2 DEF LeasesExact
  <2>4. lease'[LeaseOf(w)] = w
    BY <1>1, <1>2, <2>1
  <2>. QED  BY <1>1, <2>1, <2>2, <2>3, <2>4 DEF NotStarted, LeasesExact
<1>4. CASE AcquireLease(w) /\ ~CanLease(w)
  <2>1. /\ lease' = lease /\ handler' = handler /\ call[w].pc = "lease"
        /\ \E label \in {"closeReader", "listening"} : CallGoto(w, label)
    BY <1>4 DEF AcquireLease
  <2>2. call'[w].pc \in {"closeReader", "listening"} /\ \A j \in Calls \ {w} : call'[j] = call[j]
    BY <1>1, <2>1, CallMoves DEF CallPCs
  <2>3. handler[w] = "none" /\ lease[LeaseOf(w)] # w
    BY <2>1 DEF NotStarted, LeasesExact
  <2>4. ASSUME NEW v \in Workers
        PROVE  lease'[LeaseOf(v)] = v <=> call'[v].pc = "permit" \/ handler'[v] = "running"
    BY <1>1, <2>1, <2>2, <2>3 DEF LeasesExact
  <2>. QED  BY <1>1, <2>1, <2>2, <2>4 DEF NotStarted, LeasesExact
<1>5. CASE AcquirePermit(w) /\ handler' = [handler EXCEPT ![w] = "running"]
  <2>1. /\ lease' = lease /\ call[w].pc = "permit" /\ CallGoto(w, "listening")
    BY <1>1, <1>5 DEF AcquirePermit, NotStarted
  <2>2. call'[w].pc = "listening" /\ \A j \in Calls \ {w} : call'[j] = call[j]
    BY <1>1, <2>1, CallMoves DEF CallPCs
  <2>. QED  BY <1>1, <1>2, <1>5, <2>1, <2>2 DEF NotStarted, LeasesExact
<1>6. CASE AcquirePermit(w) /\ handler' # [handler EXCEPT ![w] = "running"]
  <2>1. /\ lease' = [lease EXCEPT ![LeaseOf(w)] = None] /\ handler' = handler /\ call[w].pc = "permit"
        /\ \E label \in {"closeReader", "refused"} : CallGoto(w, label)
    BY <1>6 DEF AcquirePermit
  <2>2. call'[w].pc \in {"closeReader", "refused"} /\ \A j \in Calls \ {w} : call'[j] = call[j]
    BY <1>1, <2>1, CallMoves DEF CallPCs
  <2>3. handler[w] = "none" /\ lease[LeaseOf(w)] = w
    BY <2>1 DEF NotStarted, LeasesExact
  <2>4. ASSUME NEW v \in Workers
        PROVE  lease'[LeaseOf(v)] = v <=> call'[v].pc = "permit" \/ handler'[v] = "running"
    BY <1>1, <1>2, <2>1, <2>2, <2>3 DEF LeasesExact
  <2>. QED  BY <1>1, <2>1, <2>2, <2>4 DEF NotStarted, LeasesExact
<1>7. CASE DecodeFails(w) \/ HandlerReturns(w)
  BY <1>1, <1>2, <1>7 DEF DecodeFails, HandlerReturns, NotStarted, LeasesExact
<1>8. CASE ReleasePermit(w)
  BY <1>1, <1>2, <1>8 DEF ReleasePermit, NotStarted, LeasesExact
<1>9. CASE HandlerWorks(w) \/ HandlerPublishes(w) \/ HandlerPublishFails(w)
  BY <1>9 DEF HandlerWorks, HandlerPublishes, HandlerPublishFails, NotStarted, LeasesExact, LeaseOf
<1>. QED  BY <1>3, <1>4, <1>5, <1>6, <1>7, <1>8, <1>9 DEF BackendStep

-----------------------------------------------------------------------------
(***************************************************************************)
(* The places of the semaphore.                                            *)
(***************************************************************************)
PlacesOK == permits \in Nat /\ IsFiniteSet(Occupied) /\ PermitsExact

\* A place is taken with the goroutine that occupies it and given back once.
LEMMA BackendKeepsPlaces ==
    ASSUME ClusterTypeOK, NotStarted, PlacesOK, NEW w \in Workers, BackendStep(w)
    PROVE  PlacesOK'
<1>1. /\ handler \in [Workers -> HandlerPCs] /\ permits \in Nat /\ MaxExecutions \in Nat
      /\ IsFiniteSet(Occupied) /\ permits = Cardinality(Occupied)
      /\ MaxExecutions # 0 => permits <= MaxExecutions
  BY ClusterAssumption DEF ClusterTypeOK, PlacesOK, PermitsExact
<1>2. CASE permits' = permits /\ Occupied' = Occupied
  BY <1>1, <1>2 DEF PlacesOK, PermitsExact
<1>3. CASE AcquirePermit(w) /\ (MaxExecutions = 0 \/ permits < MaxExecutions)
  <2>1. /\ permits' = permits + 1 /\ handler' = [handler EXCEPT ![w] = "running"]
        /\ handler[w] = "none"
    BY <1>3 DEF AcquirePermit, NotStarted
  <2>2. Occupied' = Occupied \cup {w} /\ w \notin Occupied
    BY <1>1, <2>1 DEF Occupied
  <2>3. IsFiniteSet(Occupied') /\ Cardinality(Occupied') = permits + 1
    BY <1>1, <2>2, FS_AddElement
  <2>. QED  BY <1>1, <1>3, <2>1, <2>3 DEF PlacesOK, PermitsExact
<1>4. CASE ReleasePermit(w)
  <2>1. /\ permits' = permits - 1 /\ handler' = [handler EXCEPT ![w] = "done"]
        /\ handler[w] = "returned"
    BY <1>4 DEF ReleasePermit
  <2>2. Occupied' = Occupied \ {w} /\ w \in Occupied
    BY <1>1, <2>1 DEF Occupied
  <2>3. IsFiniteSet(Occupied') /\ Cardinality(Occupied') = permits - 1 /\ Cardinality(Occupied') \in Nat
    BY <1>1, <2>2, FS_RemoveElement, FS_CardinalityType
  <2>. QED  BY <1>1, <2>1, <2>3 DEF PlacesOK, PermitsExact
<1>5. CASE AcquireLease(w) \/ HandlerWorks(w) \/ HandlerPublishes(w) \/ HandlerPublishFails(w)
  BY <1>2, <1>5 DEF AcquireLease, HandlerWorks, HandlerPublishes, HandlerPublishFails, Occupied
<1>6. CASE AcquirePermit(w) /\ ~(MaxExecutions = 0 \/ permits < MaxExecutions)
  BY <1>2, <1>6 DEF AcquirePermit, Occupied
<1>7. CASE DecodeFails(w) \/ HandlerReturns(w)
  <2>1. /\ permits' = permits /\ handler' = [handler EXCEPT ![w] = "returned"]
        /\ handler[w] = "running"
    BY <1>7 DEF DecodeFails, HandlerReturns
  <2>2. Occupied' = Occupied
    BY <1>1, <2>1 DEF Occupied
  <2>. QED  BY <1>2, <2>1, <2>2
<1>. QED  BY <1>3, <1>4, <1>5, <1>6, <1>7 DEF BackendStep

-----------------------------------------------------------------------------
(***************************************************************************)
(* Nothing a worker broadcasts, and nothing that waits in a queue, differs *)
(* from what was stored.                                                   *)
(***************************************************************************)
\* One worker's step keeps the messages of all workers in order.
LEMMA BackendKeepsPublishOK ==
    ASSUME IndInv, ClusterTypeOK, PublishOK, NEW w \in Workers, BackendStep(w)
    PROVE  PublishOK'
<1>1. /\ pc \in [Workers -> PCs] /\ mgr \in [Workers -> Manager]
      /\ event \in [Workers -> Event] /\ result \in [Workers -> Result]
      /\ override \in [Workers -> BOOLEAN] /\ WorkerPublishOK(w)
  BY IndInvParts DEF ClusterTypeOK, PublishOK
<1>2. ASSUME NEW v \in Workers, UNCHANGED <<pc[v], mgr[v], event[v], result[v], override[v]>>
      PROVE  WorkerPublishOK(v)'
  BY <1>2 DEF PublishOK, WorkerPublishOK
<1>3. CASE UNCHANGED <<vars, override>>
  BY <1>2, <1>3 DEF vars, PublishOK
<1>4. CASE Step(w) /\ WorkerPublishOK(w)' /\ \A v \in Workers \ {w} : override'[v] = override[v]
  <2>1. \A v \in Workers \ {w} : UNCHANGED <<pc[v], mgr[v], event[v], result[v]>>
    <3>1. OnlyMoves(w)
      BY <1>4, StepMovesOne
    <3>. QED  BY <1>1, <3>1 DEF OnlyMoves
  <2>. QED  BY <1>2, <1>4, <2>1 DEF PublishOK
<1>5. CASE HandlerWorks(w)
  BY <1>1, <1>4, <1>5, WorkKeepsPublishOK DEF HandlerWorks
<1>6. CASE HandlerPublishes(w)
  <2>1. /\ pc[w] = "publish" /\ pc'[w] = IF result[w].kind = "none" THEN "run" ELSE "done"
        /\ UNCHANGED <<mgr, event, result, override>>
    BY <1>1, <1>6 DEF HandlerPublishes, Publish, Goto
  <2>2. WorkerPublishOK(w)'
    BY <1>1, <2>1 DEF WorkerPublishOK
  <2>. QED  BY <1>4, <1>6, <2>1, <2>2 DEF HandlerPublishes, Step
<1>7. CASE HandlerPublishFails(w)
  <2>1. /\ pc[w] = "publish" /\ pc'[w] = "processError" /\ result'[w].kind = "none"
        /\ UNCHANGED <<mgr, event, override>>
    BY <1>1, <1>7 DEF HandlerPublishFails, PublishFailed, Goto, NoResult
  <2>2. WorkerPublishOK(w)'
    BY <1>1, <2>1 DEF WorkerPublishOK
  <2>. QED  BY <1>4, <1>7, <2>1, <2>2 DEF HandlerPublishFails, Step
<1>8. CASE AcquireLease(w) \/ AcquirePermit(w) \/ DecodeFails(w) \/ HandlerReturns(w) \/ ReleasePermit(w)
  BY SMTT(30), <1>3, <1>8 DEF AcquireLease, AcquirePermit, DecodeFails, HandlerReturns, ReleasePermit
<1>. QED  BY <1>5, <1>6, <1>7, <1>8 DEF BackendStep

SubRecord == [pc : SubPCs, queue : Seq(Message), snap : Nat, last : Message]

\* A subscription whose queue and last event hold what was stored.
SubOK(s) ==
    /\ s \in SubRecord /\ StoredMessage(s.last)
    /\ \A i \in 1..Len(s.queue) : StoredMessage(s.queue[i])

SubsOK == sub \in [Calls -> SubRecord] /\ \A k \in Calls : SubOK(sub[k])

\* Queues only grow at the end by stored messages and shrink at the head.
LEMMA SubChanges ==
    ASSUME NEW s, SubOK(s), NEW label \in SubPCs
    PROVE  /\ SubOK([s EXCEPT !.pc = label])
           /\ SubOK([s EXCEPT !.pc = label, !.queue = <<>>])
           /\ \A m \in Message : StoredMessage(m) =>
                /\ SubOK([s EXCEPT !.pc = label, !.queue = <<>>, !.last = m])
                /\ SubOK([s EXCEPT !.queue = Append(@, m)])
                /\ \A v \in Nat : SubOK([s EXCEPT !.pc = label, !.snap = v, !.last = m])
           /\ s.queue # <<>> =>
                /\ Head(s.queue) \in Message /\ StoredMessage(Head(s.queue))
                /\ SubOK([s EXCEPT !.queue = Tail(@)])
                /\ SubOK([s EXCEPT !.queue = Tail(@), !.last = Head(s.queue)])
<1>1. /\ s \in SubRecord /\ s.queue \in Seq(Message) /\ Len(s.queue) \in Nat
      /\ StoredMessage(s.last) /\ \A i \in 1..Len(s.queue) : StoredMessage(s.queue[i])
  BY DEF SubOK, SubRecord
<1>2. <<>> \in Seq(Message) /\ \A i \in 1..Len(<<>>) : FALSE
  OBVIOUS
<1>3. /\ SubOK([s EXCEPT !.pc = label])
      /\ SubOK([s EXCEPT !.pc = label, !.queue = <<>>])
  BY <1>1, <1>2 DEF SubOK, SubRecord
<1>4. ASSUME NEW m \in Message, StoredMessage(m)
      PROVE  /\ SubOK([s EXCEPT !.pc = label, !.queue = <<>>, !.last = m])
             /\ SubOK([s EXCEPT !.queue = Append(@, m)])
             /\ \A v \in Nat : SubOK([s EXCEPT !.pc = label, !.snap = v, !.last = m])
  <2>1. SubOK([s EXCEPT !.pc = label, !.queue = <<>>, !.last = m])
    BY <1>1, <1>2, <1>4 DEF SubOK, SubRecord
  <2>2. \A v \in Nat : SubOK([s EXCEPT !.pc = label, !.snap = v, !.last = m])
    BY <1>1, <1>4 DEF SubOK, SubRecord
  <2>3. /\ Append(s.queue, m) \in Seq(Message)
        /\ \A i \in 1..Len(Append(s.queue, m)) : StoredMessage(Append(s.queue, m)[i])
    <3>1. Append(s.queue, m) \in Seq(Message) /\ Len(Append(s.queue, m)) = Len(s.queue) + 1
      BY <1>1
    <3>2. ASSUME NEW i \in 1..Len(s.queue) + 1
          PROVE  StoredMessage(Append(s.queue, m)[i])
      <4>1. CASE i = Len(s.queue) + 1
        BY <1>1, <1>4, <4>1
      <4>2. CASE i \in 1..Len(s.queue)
        BY <1>1, <4>2
      <4>. QED  BY <1>1, <4>1, <4>2
    <3>. QED  BY <3>1, <3>2
  <2>4. SubOK([s EXCEPT !.queue = Append(@, m)])
    BY <1>1, <2>3 DEF SubOK, SubRecord
  <2>. QED  BY <2>1, <2>2, <2>4
<1>5. ASSUME s.queue # <<>>
      PROVE  /\ Head(s.queue) \in Message /\ StoredMessage(Head(s.queue))
             /\ SubOK([s EXCEPT !.queue = Tail(@)])
             /\ SubOK([s EXCEPT !.queue = Tail(@), !.last = Head(s.queue)])
  <2>1. Head(s.queue) \in Message /\ StoredMessage(Head(s.queue))
    BY <1>1, <1>5
  <2>2. Tail(s.queue) \in Seq(Message) /\ \A i \in 1..Len(Tail(s.queue)) : StoredMessage(Tail(s.queue)[i])
    <3>1. /\ Tail(s.queue) \in Seq(Message) /\ Len(Tail(s.queue)) = Len(s.queue) - 1
          /\ \A i \in 1..Len(Tail(s.queue)) : Tail(s.queue)[i] = s.queue[i + 1] /\ i + 1 \in 1..Len(s.queue)
      BY <1>1, <1>5
    <3>. QED  BY <1>1, <3>1
  <2>. QED  BY <1>1, <2>1, <2>2 DEF SubOK, SubRecord
<1>. QED  BY <1>3, <1>4, <1>5

\* The frontend reads what was stored from queues and from the store.
LEMMA FrontendKeepsSubs ==
    ASSUME IndInv, ClusterTypeOK, SubsOK, NEW k \in Calls, FrontendStep(k)
    PROVE  SubsOK'
<1> DEFINE m == [event |-> TaskEvent(store.task), version |-> store.version]
<1>1. sub \in [Calls -> SubRecord] /\ (\A j \in Calls : SubOK(sub[j])) /\ saved' = saved
  BY SMTT(30), FrontendMoves DEF SubsOK, vars
<1>2. ASSUME NEW s, SubOK(s), sub' = [sub EXCEPT ![k] = s]
      PROVE  SubsOK'
  <2>1. sub' \in [Calls -> SubRecord] /\ \A j \in Calls : SubOK(sub'[j])
    BY <1>1, <1>2 DEF SubOK
  <2>. QED  BY <1>1, <2>1 DEF SubsOK, SubOK, StoredMessage
<1>3. CASE sub' = sub
  BY <1>1, <1>3 DEF SubsOK, SubOK, StoredMessage
<1>4. CASE CreateReader(k) \/ CloseReader(k) \/ SubFails(k)
  <2>1. SubOK([sub[k] EXCEPT !.pc = "open"]) /\ SubOK([sub[k] EXCEPT !.pc = "closed", !.queue = <<>>])
    BY <1>1, SubChanges DEF SubPCs
  <2>2. \/ sub' = [sub EXCEPT ![k] = [sub[k] EXCEPT !.pc = "open"]]
        \/ sub' = [sub EXCEPT ![k] = [sub[k] EXCEPT !.pc = "closed", !.queue = <<>>]]
    BY <1>1, <1>4 DEF CreateReader, CloseReader, SubFails
  <2>. QED  BY SMTT(30), <1>2, <2>1, <2>2
<1>5. CASE SubSnapshot(k)
  <2>1. store.task # NoTask => m \in Message /\ StoredMessage(m)
    <3>1. store.task # NoTask => /\ store.task \in Task /\ store.version \in 1..Len(saved)
                                 /\ store.task = saved[store.version] /\ store.version \in Nat
      BY LoadedView DEF IndInv, TypeOK
    <3>2. \A t \in Task : TaskEvent(t) \in Event /\ TaskEvent(t).kind = "task" /\ TaskEvent(t).task = t
      BY DEF TaskEvent, Event
    <3>. QED  BY <3>1, <3>2 DEF Message, StoredMessage
  <2>2. sub[k].last \in Message /\ StoredMessage(sub[k].last) /\ ComparedVersion(k) \in Nat
    BY <1>1 DEF SubOK, SubRecord, ComparedVersion, ClusterTypeOK, IndInv, TypeOK
  <2>3. CASE store.task # NoTask /\ Terminal(store.task.state)
    <3>1. SubOK([sub[k] EXCEPT !.pc = "closed", !.queue = <<>>, !.last = m])
      BY <1>1, <2>1, <2>3, SubChanges DEF SubPCs
    <3>2. sub' = [sub EXCEPT ![k] = [sub[k] EXCEPT !.pc = "closed", !.queue = <<>>, !.last = m]]
      BY <1>1, <1>5, <2>3 DEF SubSnapshot
    <3>. QED  BY <1>2, <3>1, <3>2
  <2>4. CASE ~(store.task # NoTask /\ Terminal(store.task.state))
    <3> DEFINE l == IF store.task = NoTask \/ k \in Cancelers THEN sub[k].last ELSE m
    <3>1. l \in Message /\ StoredMessage(l)
      BY <2>1, <2>2
    <3>2. SubOK([sub[k] EXCEPT !.pc = "reading", !.snap = ComparedVersion(k), !.last = l])
      <4> HIDE DEF l
      <4>. QED  BY <1>1, <2>2, <3>1, SubChanges DEF SubPCs
    <3>3. sub' = [sub EXCEPT ![k] = [sub[k] EXCEPT !.pc = "reading", !.snap = ComparedVersion(k), !.last = l]]
      BY <1>1, <1>5, <2>4 DEF SubSnapshot
    <3>. QED  BY <1>2, <3>2, <3>3
  <2>. QED  BY <2>3, <2>4
<1>6. CASE SubRead(k)
  <2> DEFINE h == Head(sub[k].queue)
  <2>1. sub[k].queue # <<>>
    BY <1>6 DEF SubRead
  <2>2. /\ SubOK([sub[k] EXCEPT !.queue = Tail(@)])
        /\ SubOK([sub[k] EXCEPT !.pc = "closed", !.queue = <<>>, !.last = h])
        /\ SubOK([sub[k] EXCEPT !.queue = Tail(@), !.last = h])
    BY <1>1, <2>1, SubChanges DEF SubPCs
  <2>3. \/ sub' = [sub EXCEPT ![k] = [sub[k] EXCEPT !.queue = Tail(@)]]
        \/ sub' = [sub EXCEPT ![k] = [sub[k] EXCEPT !.pc = "closed", !.queue = <<>>, !.last = h]]
        \/ sub' = [sub EXCEPT ![k] = [sub[k] EXCEPT !.queue = Tail(@), !.last = h]]
    BY <1>6 DEF SubRead
  <2>. QED  BY <1>2, <2>2, <2>3
<1>. QED
  BY <1>3, <1>4, <1>5, <1>6
     DEF FrontendStep, ExecuteCall, CancelCall, Resubscribe, CreateReaderFails, EncodeFails, CancelResolves

\* Workers broadcast what was stored.
LEMMA BackendKeepsSubs ==
    ASSUME IndInv, ClusterTypeOK, PublishOK, SubsOK, NEW w \in Workers, BackendStep(w)
    PROVE  SubsOK' /\ announced' \in [Workers -> Message]
<1>1. /\ sub \in [Calls -> SubRecord] /\ \A j \in Calls : SubOK(sub[j])
      /\ announced \in [Workers -> Message]
  BY DEF SubsOK, ClusterTypeOK
<1>2. ASSUME UNCHANGED <<sub, announced>>, ExtendsChain, Len(saved') \in Nat
      PROVE  SubsOK' /\ announced' \in [Workers -> Message]
  <2>1. \A m \in Message : StoredMessage(m) => StoredMessage(m)'
    BY <1>2, StillStored
  <2>2. ASSUME NEW j \in Calls  PROVE SubOK(sub[j])'
    <3>1. /\ sub'[j] = sub[j] /\ sub[j] \in SubRecord /\ StoredMessage(sub[j].last)
          /\ sub[j].last \in Message /\ sub[j].queue \in Seq(Message)
          /\ \A i \in 1..Len(sub[j].queue) : StoredMessage(sub[j].queue[i]) /\ sub[j].queue[i] \in Message
      BY <1>1, <1>2 DEF SubOK, SubRecord
    <3>. QED  BY <2>1, <3>1 DEF SubOK
  <2>. QED  BY <1>1, <1>2, <2>2 DEF SubsOK
<1>3. CASE UNCHANGED vars /\ UNCHANGED <<sub, announced>>
  BY <1>1, <1>3 DEF SubsOK, SubOK, StoredMessage, vars
<1>4. CASE HandlerWorks(w)
  <2>1. ExtendsChain /\ Len(saved') \in Nat
    BY SMTT(30), <1>4, StepExtendsChain, StepIndInv DEF HandlerWorks, IndInv, TypeOK
  <2>. QED  BY <1>2, <1>4, <2>1 DEF HandlerWorks
<1>5. ASSUME Broadcast(w), pc[w] = "publish", saved' = saved
      PROVE  SubsOK' /\ announced' \in [Workers -> Message]
  <2>1. Emitted(w) \in Message /\ StoredMessage(Emitted(w))
    BY SMTT(30), <1>5, EmittedStored DEF PublishOK
  <2>2. \A j \in Calls : SubOK([sub[j] EXCEPT !.queue = Append(@, Emitted(w))])
    <3> HIDE DEF Emitted
    <3>. QED  BY <1>1, <2>1, SubChanges DEF SubPCs
  <2>3. sub' \in [Calls -> SubRecord] /\ \A j \in Calls : SubOK(sub'[j])
    BY <1>1, <1>5, <2>2 DEF Broadcast, SubOK
  <2>4. announced' \in [Workers -> Message]
    BY <1>1, <1>5, <2>1 DEF Broadcast
  <2>. QED  BY <1>5, <2>3, <2>4 DEF SubsOK, SubOK, StoredMessage
<1>6. CASE HandlerPublishes(w) \/ HandlerPublishFails(w)
  <2>1. /\ pc[w] = "publish" /\ saved' = saved
        /\ Broadcast(w) \/ UNCHANGED <<sub, announced>>
    BY <1>6 DEF HandlerPublishes, HandlerPublishFails, Publish, PublishFailed, StoreUnchanged
  <2>2. CASE UNCHANGED <<sub, announced>>
    BY <1>1, <2>1, <2>2 DEF SubsOK, SubOK, StoredMessage
  <2>. QED  BY <1>5, <2>1, <2>2
<1>7. CASE AcquireLease(w) \/ AcquirePermit(w) \/ DecodeFails(w) \/ HandlerReturns(w) \/ ReleasePermit(w)
  BY <1>3, <1>7 DEF AcquireLease, AcquirePermit, DecodeFails, HandlerReturns, ReleasePermit
<1>. QED  BY <1>4, <1>6, <1>7 DEF BackendStep

-----------------------------------------------------------------------------
(***************************************************************************)
(* The inductive invariant and the theorems.                               *)
(***************************************************************************)
\* Cancel answers with the stored task: what ended its subscription was
\* stored, a canceled task is terminal and only the last version is.
LEMMA FrontendKeepsAnswers ==
    ASSUME IndInv, ClusterTypeOK, SubsOK, CancelAnswersAreStored, NEW k \in Calls, FrontendStep(k)
    PROVE  CancelAnswersAreStored'
<1>1. /\ store' = store /\ \A j \in Calls : call'[j].answer # call[j].answer => CancelCall(j) \/ CancelResolves(j)
      /\ call \in [Calls -> CallRecord] /\ Cancelers \subseteq Calls
  BY FrontendMoves DEF vars, ClusterTypeOK, CallRecord, Calls, Workers
<1> SUFFICES ASSUME NEW j \in Cancelers, call'[j].answer # NoTask, call'[j].answer # call[j].answer
             PROVE  call'[j].answer.state = "canceled" /\ call'[j].answer = store.task
  BY <1>1 DEF CancelAnswersAreStored
<1>2. CASE CancelCall(j)
  <2>1. \/ CallGoto(j, "refused")
        \/ call' = [call EXCEPT ![j].pc = "subscribe", ![j].from = store.version]
        \/ call' = [call EXCEPT ![j].pc = "answered", ![j].answer = store.task] /\ store.task.state = "canceled"
    BY <1>2 DEF CancelCall
  <2>. QED  BY <1>1, <2>1 DEF CallGoto, CallRecord
<1>3. CASE CancelResolves(j)
  <2> DEFINE m == sub[j].last
  <2>1. call'[j].answer = CancelOutcome(j)
    <3>1. ASSUME NEW x, call' = [call EXCEPT ![j].pc = "answered", ![j].answer = x]
          PROVE  call'[j].answer = x
      BY <1>1, <3>1 DEF CallRecord
    <3>. QED  BY <1>3, <3>1 DEF CancelResolves
  <2>2. CASE m.event.kind = "task" /\ IsFinal(m.event)
    <3>1. CancelOutcome(j) = m.event.task /\ m.event.task.state = "canceled"
      BY <2>1, <2>2 DEF CancelOutcome
    <3>2. m.version \in 1..Len(saved) /\ m.event.task = saved[m.version]
      BY <1>1, <2>2, <3>1 DEF SubsOK, SubOK, StoredMessage, Terminal, TerminalStates
    <3>3. m.version = Len(saved) /\ store.task = saved[Len(saved)]
      BY <3>1, <3>2 DEF IndInv, TypeOK, VersionChain, Terminal, TerminalStates
    <3>. QED  BY <2>1, <3>1, <3>2, <3>3
  <2>3. CASE ~(m.event.kind = "task" /\ IsFinal(m.event))
    BY <2>1, <2>3 DEF CancelOutcome
  <2>. QED  BY <2>2, <2>3
<1>. QED  BY <1>1, <1>2, <1>3

\* A canceled task stays what it is, so the answers stay true.
LEMMA BackendKeepsAnswers ==
    ASSUME IndInv, ClusterTypeOK, CancelAnswersAreStored, NEW w \in Workers, BackendStep(w)
    PROVE  CancelAnswersAreStored'
<1>1. \A k \in Cancelers : call'[k].answer = call[k].answer
  BY BackendTypes DEF Calls, Workers
<1>2. (\E k \in Cancelers : call[k].answer # NoTask) => store' = store
  <2>1. ASSUME NEW k \in Cancelers, call[k].answer # NoTask
        PROVE  store.task # NoTask /\ Terminal(store.task.state)
    BY <2>1 DEF CancelAnswersAreStored, Terminal, TerminalStates
  <2>2. store.task # NoTask /\ Terminal(store.task.state) => store' = store
    BY BackendWorks, StepSerial DEF Serial, vars
  <2>. QED  BY <2>1, <2>2
<1>. QED  BY <1>1, <1>2 DEF CancelAnswersAreStored

\* The parts of the invariant as the lemmas use them.
LEMMA ClusterIndInvParts ==
    ClusterIndInv <=>
        /\ lease \in [Lease -> Workers \cup {None}] /\ call \in [Calls -> CallRecord]
        /\ handler \in [Workers -> HandlerPCs] /\ override \in [Workers -> BOOLEAN]
        /\ announced \in [Workers -> Message]
        /\ NotStarted /\ LeasesExact /\ PlacesOK /\ PublishOK /\ SubsOK /\ CancelAnswersAreStored
BY DEF ClusterIndInv, ClusterTypeOK, CallRecord, PlacesOK, SubsOK, SubOK, SubRecord, ToldIsStored

\* The initial state satisfies the invariant.
LEMMA InitClusterIndInv == ClusterInit => ClusterIndInv
<1> SUFFICES ASSUME ClusterInit PROVE ClusterIndInv
  OBVIOUS
<1>1. InvalidEvent \in Event /\ NoMessage \in Message /\ StoredMessage(NoMessage)
  BY DEF Event, InvalidEvent, NoMessage, Message, StoredMessage, TaskVersionMissing
<1>2. /\ lease \in [Lease -> Workers \cup {None}] /\ call \in [Calls -> CallRecord]
      /\ handler \in [Workers -> HandlerPCs] /\ override \in [Workers -> BOOLEAN]
      /\ announced \in [Workers -> Message]
  BY <1>1 DEF ClusterInit, CallRecord, CallPCs, HandlerPCs, TaskVersionMissing
<1>3. NotStarted /\ LeasesExact
  BY ClusterAssumption DEF ClusterInit, NotStarted, LeasesExact, Calls, LeaseOf, Lease
<1>4. PlacesOK
  <2>1. Occupied = {} /\ permits = 0
    BY DEF ClusterInit, Occupied
  <2>. QED  BY <2>1, FS_EmptySet, ClusterAssumption DEF PlacesOK, PermitsExact
<1>5. PublishOK
  BY DEF ClusterInit, Init, PublishOK, WorkerPublishOK, NoResult
<1>6. SubsOK
  BY <1>1 DEF ClusterInit, SubsOK, SubOK, SubRecord, SubPCs, TaskVersionMissing
<1>7. CancelAnswersAreStored
  BY DEF ClusterInit, CancelAnswersAreStored, Calls, Workers
<1>. QED  BY <1>2, <1>3, <1>4, <1>5, <1>6, <1>7, ClusterIndInvParts

\* Every step preserves it.
LEMMA NextClusterIndInv == IndInv /\ ClusterIndInv /\ [ClusterNext]_allVars => ClusterIndInv'
<1> SUFFICES ASSUME IndInv, ClusterIndInv, [ClusterNext]_allVars PROVE ClusterIndInv'
  OBVIOUS
<1>1. /\ ClusterTypeOK /\ NotStarted /\ LeasesExact /\ PlacesOK /\ PublishOK /\ SubsOK
      /\ CancelAnswersAreStored
  BY ClusterIndInvParts DEF ClusterIndInv
<1>2. ASSUME NEW k \in Calls, FrontendStep(k)  PROVE ClusterIndInv'
  <2>1. call' \in [Calls -> CallRecord] /\ UNCHANGED <<vars, lease, permits, handler, override, announced>>
    BY <1>1, <1>2, FrontendMoves
  <2>2. PublishOK' /\ PlacesOK'
    BY <1>1, <2>1 DEF vars, PublishOK, WorkerPublishOK, PlacesOK, PermitsExact, Occupied
  <2>3. NotStarted' /\ LeasesExact' /\ SubsOK' /\ CancelAnswersAreStored'
    BY <1>1, <1>2, FrontendKeepsLeases, FrontendKeepsSubs, FrontendKeepsAnswers
  <2>. QED
    BY <1>1, <2>1, <2>2, <2>3
       DEF ClusterIndInv, ClusterTypeOK, CallRecord, PlacesOK, SubsOK, SubOK, SubRecord, ToldIsStored
<1>3. ASSUME NEW w \in Workers, BackendStep(w)  PROVE ClusterIndInv'
  <2>1. /\ lease' \in [Lease -> Workers \cup {None}] /\ call' \in [Calls -> CallRecord]
        /\ handler' \in [Workers -> HandlerPCs] /\ override' \in [Workers -> BOOLEAN]
    BY <1>1, <1>3, BackendTypes
  <2>2. NotStarted' /\ LeasesExact' /\ PlacesOK' /\ PublishOK'
    BY <1>1, <1>3, BackendKeepsLeases, BackendKeepsPlaces, BackendKeepsPublishOK
  <2>3. SubsOK' /\ announced' \in [Workers -> Message] /\ CancelAnswersAreStored'
    BY SMTT(30), <1>1, <1>3, BackendKeepsSubs, BackendKeepsAnswers
  <2>. QED
    BY <1>1, <2>1, <2>2, <2>3
       DEF ClusterIndInv, ClusterTypeOK, CallRecord, PlacesOK, SubsOK, SubOK, SubRecord, ToldIsStored
<1>4. CASE UNCHANGED allVars
  BY <1>1, <1>4 DEF allVars, vars, clusterVars, ClusterIndInv, ClusterTypeOK, NotStarted, LeasesExact,
       PermitsExact, Occupied, PublishOK, WorkerPublishOK, ToldIsStored, StoredMessage,
       CancelAnswersAreStored
<1>. QED  BY <1>2, <1>3, <1>4 DEF ClusterNext

\* The invariant holds in every reachable state of a cluster.
THEOREM ClusterInvariance == ClusterSpec => []ClusterIndInv
<1>1. ClusterSpec => []IndInv
  BY ClusterImplementsTaskUpdate, Invariance, PTL
<1>. QED  BY <1>1, InitClusterIndInv, NextClusterIndInv, PTL DEF ClusterSpec

\* The variables keep their types.
THEOREM ClusterTypeCorrect == ClusterSpec => []ClusterTypeOK
BY ClusterInvariance, PTL DEF ClusterIndInv

\* A lease is held exactly while the work it was given for is being started
\* or running.
THEOREM LeasesCorrect == ClusterSpec => []LeasesExact
BY ClusterInvariance, PTL DEF ClusterIndInv

\* The semaphore counts the goroutines of the work queue, within its limit.
THEOREM PermitsCorrect == ClusterSpec => []PermitsExact
BY ClusterInvariance, PTL DEF ClusterIndInv

\* What subscribers are sent with a version is what was stored under it.
THEOREM SubscribersAreTold == ClusterSpec => []ToldIsStored
BY ClusterInvariance, PTL DEF ClusterIndInv

\* A Cancel that returns a task returns the stored one, for good.
THEOREM AnswersCorrect == ClusterSpec => []CancelAnswersAreStored
BY ClusterInvariance, PTL DEF ClusterIndInv

-----------------------------------------------------------------------------
(***************************************************************************)
(* Nobody waits for a task whose end was broadcast.                        *)
(***************************************************************************)
Ended == \E w \in Workers : EndsTask(announced[w].event)

\* A subscription that reads skips nothing of the end and has it ahead.
ReadOK(s) ==
    s.pc = "reading" =>
        /\ BeforeEnd(s.snap)
        /\ Ended => \E i \in 1..Len(s.queue) : EndsTask(s.queue[i].event)

\* The parts of StreamsOK as the lemmas use them.
LEMMA StreamsOKParts ==
    StreamsOK <=> /\ \A w \in Workers : StoredMessage(announced[w])
                  /\ \A k \in Calls : BeforeEnd(call[k].from) /\ ReadOK(sub[k])
BY DEF StreamsOK, ReadOK, Ended

\* A message that ends the task carries its last version.
LEMMA EndIsLast ==
    ASSUME IndInv, NEW m \in Message, StoredMessage(m), EndsTask(m.event)
    PROVE  /\ m.version = Len(saved) /\ Len(saved) \in Nat \ {0}
           /\ store.task # NoTask /\ Terminal(store.task.state)
<1>1. m.version \in 1..Len(saved) /\ Terminal(saved[m.version].state)
  BY DEF StoredMessage, EndsTask
<1>2. Len(saved) \in Nat /\ m.version = Len(saved)
  BY <1>1 DEF IndInv, TypeOK, VersionChain
<1>. QED  BY <1>1, <1>2 DEF IndInv, TypeOK, VersionChain

\* Versions from before the end stay so, whatever a worker stores.
LEMMA StillBeforeEnd ==
    ASSUME IndInv, NEW w \in Workers, Step(w), NEW v \in Nat, BeforeEnd(v)
    PROVE  BeforeEnd(v)'
<1>1. /\ store.version = Len(saved) /\ Len(saved) \in Nat /\ (store.task = NoTask <=> saved = <<>>)
      /\ saved \in Seq(Task)
  BY DEF IndInv, TypeOK, VersionChain
<1>2. /\ store'.version = Len(saved') /\ Len(saved') \in Nat /\ (store'.task = NoTask <=> saved' = <<>>)
      /\ saved' \in Seq(Task)
  BY StepIndInv DEF IndInv, TypeOK, VersionChain
<1>3. CASE store' = store
  BY <1>1, <1>2, <1>3 DEF BeforeEnd
<1>4. CASE store' # store /\ store.task # NoTask
  BY <1>1, <1>2, <1>4, StepSerial DEF BeforeEnd, Serial
<1>5. CASE store.task = NoTask
  <2>1. v = 0 /\ (store'.task # NoTask => Len(saved') # 0)
    BY <1>1, <1>2, <1>5 DEF BeforeEnd
  <2>. QED  BY <1>2, <2>1 DEF BeforeEnd
<1>. QED  BY <1>3, <1>4, <1>5

\* A subscription starts to read only if the task has not ended, and reads on
\* until the end.
LEMMA FrontendKeepsStreams ==
    ASSUME IndInv, ClusterTypeOK, SubsOK, StreamsOK, NEW k \in Calls, FrontendStep(k)
    PROVE  StreamsOK'
<1>1. /\ sub \in [Calls -> SubRecord] /\ (\A j \in Calls : SubOK(sub[j]))
      /\ UNCHANGED <<store, saved, announced>>
      /\ \A j \in Calls : call'[j].from # call[j].from => Active /\ call'[j].from = store.version
  BY FrontendMoves DEF SubsOK, vars
<1>2. /\ \A j \in Workers : StoredMessage(announced[j])
      /\ \A j \in Calls : BeforeEnd(call[j].from) /\ ReadOK(sub[j])
      /\ announced \in [Workers -> Message]
  BY StreamsOKParts DEF ClusterTypeOK
<1>3. ~(store.task # NoTask /\ Terminal(store.task.state)) => BeforeEnd(store.version)
  BY DEF BeforeEnd, IndInv, TypeOK, VersionChain
<1>4. \A j \in Calls : BeforeEnd(call'[j].from)
  BY <1>1, <1>2, <1>3 DEF Active
<1>5. ASSUME \A j \in Calls : ReadOK(sub'[j])
      PROVE  StreamsOK'
  BY <1>1, <1>2, <1>4, <1>5 DEF StreamsOK, ReadOK, Ended, BeforeEnd, StoredMessage
<1>6. ASSUME NEW s, ReadOK(s), sub' = [sub EXCEPT ![k] = s]
      PROVE  StreamsOK'
  BY <1>1, <1>2, <1>5, <1>6
<1>7. CASE sub' = sub
  BY <1>2, <1>5, <1>7
<1>8. CASE CreateReader(k) \/ CloseReader(k) \/ SubFails(k)
  <2>1. \E s : s.pc # "reading" /\ sub' = [sub EXCEPT ![k] = s]
    <3>1. /\ [sub[k] EXCEPT !.pc = "open"].pc = "open"
          /\ [sub[k] EXCEPT !.pc = "closed", !.queue = <<>>].pc = "closed"
      BY <1>1 DEF SubRecord
    <3>2. \/ sub' = [sub EXCEPT ![k] = [sub[k] EXCEPT !.pc = "open"]]
          \/ sub' = [sub EXCEPT ![k] = [sub[k] EXCEPT !.pc = "closed", !.queue = <<>>]]
      BY <1>1, <1>8 DEF CreateReader, CloseReader, SubFails
    <3>. QED  BY <3>1, <3>2
  <2>. QED  BY <1>6, <2>1 DEF ReadOK
<1>9. CASE SubSnapshot(k)
  <2> DEFINE s == sub'[k]
  <2>1. sub' = [sub EXCEPT ![k] = s]
    BY <1>1, <1>9 DEF SubSnapshot
  <2>2. CASE store.task # NoTask /\ Terminal(store.task.state)
    <3>1. s.pc = "closed"
      BY <1>1, <1>9, <2>2 DEF SubSnapshot, SubRecord
    <3>. QED  BY <1>6, <2>1, <3>1 DEF ReadOK
  <2>3. CASE ~(store.task # NoTask /\ Terminal(store.task.state))
    <3>1. s.snap = ComparedVersion(k)
      BY <1>1, <1>9, <2>3 DEF SubSnapshot, SubRecord
    <3>2. BeforeEnd(ComparedVersion(k))
      BY <1>2, <1>3, <2>3 DEF ComparedVersion
    <3>3. ~Ended
      BY <1>2, <2>3, EndIsLast DEF Ended
    <3>. QED  BY <1>6, <2>1, <3>1, <3>2, <3>3 DEF ReadOK
  <2>. QED  BY <2>2, <2>3
<1>10. CASE SubRead(k)
  <2> DEFINE q == sub[k].queue
             h == Head(q)
  <2>1. /\ q \in Seq(Message) /\ q # <<>> /\ sub[k].pc = "reading" /\ sub[k] \in SubRecord
        /\ h \in Message /\ StoredMessage(h) /\ h = q[1]
    <3>1. q \in Seq(Message) /\ q # <<>> /\ sub[k].pc = "reading" /\ sub[k] \in SubRecord
      BY <1>1, <1>10 DEF SubRead, SubRecord
    <3>2. \A i \in 1..Len(q) : StoredMessage(q[i])
      BY <1>1 DEF SubOK
    <3>. QED  BY <3>1, <3>2
  <2>2. CASE sub' = [sub EXCEPT ![k] = [sub[k] EXCEPT !.pc = "closed", !.queue = <<>>, !.last = h]]
    <3>1. [sub[k] EXCEPT !.pc = "closed", !.queue = <<>>, !.last = h].pc = "closed"
      BY <2>1 DEF SubRecord
    <3>. QED  BY <1>6, <2>2, <3>1 DEF ReadOK
  <2>3. CASE /\ ~EndsTask(h.event)
             /\ \/ sub' = [sub EXCEPT ![k] = [sub[k] EXCEPT !.queue = Tail(@)]]
                \/ sub' = [sub EXCEPT ![k] = [sub[k] EXCEPT !.queue = Tail(@), !.last = h]]
    <3>1. \E s : s.snap = sub[k].snap /\ s.queue = Tail(q) /\ sub' = [sub EXCEPT ![k] = s]
      <4>1. /\ [sub[k] EXCEPT !.queue = Tail(@)].snap = sub[k].snap
            /\ [sub[k] EXCEPT !.queue = Tail(@)].queue = Tail(q)
            /\ [sub[k] EXCEPT !.queue = Tail(@), !.last = h].snap = sub[k].snap
            /\ [sub[k] EXCEPT !.queue = Tail(@), !.last = h].queue = Tail(q)
        BY <2>1 DEF SubRecord
      <4>. QED  BY <2>3, <4>1
    <3>2. ASSUME NEW i \in 1..Len(q), EndsTask(q[i].event)
          PROVE  \E j \in 1..Len(Tail(q)) : EndsTask(Tail(q)[j].event)
      <4>1. i # 1
        BY <2>1, <2>3, <3>2
      <4>2. i - 1 \in 1..Len(Tail(q)) /\ Tail(q)[i - 1] = q[i]
        <5> HIDE DEF q
        <5>. QED  BY <2>1, <4>1
      <4>. QED  BY <3>2, <4>2
    <3>. QED  BY <1>2, <1>6, <2>1, <3>1, <3>2 DEF ReadOK
  <2>4. EndsTask(h.event) => IsFinal(h.event) /\ ~Skips(h, sub[k].snap)
    <3>1. EndsTask(h.event) => IsFinal(h.event)
      BY DEF EndsTask, IsFinal, FinalState
    <3>2. ASSUME EndsTask(h.event)  PROVE ~Skips(h, sub[k].snap)
      <4>1. /\ h.version = Len(saved) /\ Len(saved) \in Nat \ {0}
            /\ store.task # NoTask /\ Terminal(store.task.state)
        BY <2>1, <3>2, EndIsLast
      <4>2. sub[k].snap < Len(saved)
        BY <1>2, <2>1, <4>1 DEF ReadOK, BeforeEnd
      <4>. QED  BY <4>1, <4>2 DEF Skips, After, TaskVersionMissing
    <3>. QED  BY <3>1, <3>2
  <2>5. \/ sub' = [sub EXCEPT ![k] = [sub[k] EXCEPT !.pc = "closed", !.queue = <<>>, !.last = h]]
        \/ /\ ~(IsFinal(h.event) /\ ~Skips(h, sub[k].snap))
           /\ \/ sub' = [sub EXCEPT ![k] = [sub[k] EXCEPT !.queue = Tail(@)]]
              \/ sub' = [sub EXCEPT ![k] = [sub[k] EXCEPT !.queue = Tail(@), !.last = h]]
    BY <1>10 DEF SubRead
  <2>. QED  BY <2>2, <2>3, <2>4, <2>5
<1>. QED
  BY <1>7, <1>8, <1>9, <1>10
     DEF FrontendStep, ExecuteCall, CancelCall, Resubscribe, CreateReaderFails, EncodeFails, CancelResolves

\* A worker that broadcasts the end hands it to everybody who reads.
LEMMA BackendKeepsStreams ==
    ASSUME IndInv, ClusterTypeOK, PublishOK, SubsOK, StreamsOK, NEW w \in Workers, BackendStep(w)
    PROVE  StreamsOK'
<1>1. /\ sub \in [Calls -> SubRecord] /\ \A j \in Calls : SubOK(sub[j])
      /\ announced \in [Workers -> Message]
      /\ \A j \in Calls : call'[j].from = call[j].from /\ call[j].from \in Nat /\ sub[j].snap \in Nat
  BY BackendTypes DEF SubsOK, SubRecord, ClusterTypeOK
<1>2. /\ \A j \in Workers : StoredMessage(announced[j])
      /\ \A j \in Calls : BeforeEnd(call[j].from) /\ ReadOK(sub[j])
  BY StreamsOKParts
<1>3. CASE UNCHANGED <<store, saved, sub, announced>>
  BY <1>1, <1>2, <1>3 DEF StreamsOK, ReadOK, Ended, BeforeEnd, StoredMessage
<1>4. CASE HandlerWorks(w)
  <2>1. Step(w) /\ UNCHANGED <<sub, announced>>
    BY <1>4 DEF HandlerWorks
  <2>2. \A v \in Nat : BeforeEnd(v) => BeforeEnd(v)'
    BY <2>1, StillBeforeEnd
  <2>3. \A m \in Message : StoredMessage(m) => StoredMessage(m)'
    <3>1. ExtendsChain /\ Len(saved') \in Nat
      BY <2>1, StepExtendsChain, StepIndInv DEF IndInv, TypeOK
    <3>. QED  BY <3>1, StillStored
  <2>4. \A j \in Workers : StoredMessage(announced[j])'
    BY <1>1, <1>2, <2>1, <2>3
  <2>5. \A j \in Calls : /\ BeforeEnd(call[j].from)'
                         /\ sub[j].pc = "reading" => BeforeEnd(sub[j].snap)'
    BY <1>1, <1>2, <2>1, <2>2 DEF ReadOK
  <2>. QED  BY <1>2, <2>1, <2>4, <2>5 DEF StreamsOK, ReadOK, Ended
<1>5. ASSUME Broadcast(w), pc[w] = "publish", UNCHANGED <<store, saved>>
      PROVE  StreamsOK'
  <2> DEFINE m == Emitted(w)
  <2>1. m \in Message /\ StoredMessage(m)
    BY <1>5, EmittedStored DEF PublishOK
  <2>2. /\ announced' = [announced EXCEPT ![w] = IF IsFinal(m.event) THEN m ELSE @]
        /\ \A j \in Calls : sub'[j] = IF Open(j) THEN [sub[j] EXCEPT !.queue = Append(@, m)] ELSE sub[j]
    BY <1>5 DEF Broadcast
  <2> HIDE DEF m
  <2>3. \A j \in Workers : StoredMessage(announced'[j])
    BY <1>1, <1>2, <2>1, <2>2
  <2>4. Ended' => Ended \/ EndsTask(m.event)
    BY <1>1, <2>2 DEF Ended
  <2>5. ASSUME NEW j \in Calls, sub'[j].pc = "reading"
        PROVE  /\ BeforeEnd(sub'[j].snap)
               /\ Ended' => \E i \in 1..Len(sub'[j].queue) : EndsTask(sub'[j].queue[i].event)
    <3>1. sub[j] \in SubRecord /\ sub[j].queue \in Seq(Message)
      BY <1>1 DEF SubRecord
    <3>2. /\ sub[j].pc = "reading" /\ sub'[j].snap = sub[j].snap
          /\ sub'[j].queue = Append(sub[j].queue, m)
      BY <2>2, <2>5, <3>1 DEF Open, SubRecord
    <3>3. /\ Len(sub'[j].queue) = Len(sub[j].queue) + 1 /\ Len(sub[j].queue) \in Nat
          /\ \A i \in 1..Len(sub[j].queue) : sub'[j].queue[i] = sub[j].queue[i]
          /\ sub'[j].queue[Len(sub[j].queue) + 1] = m
      BY <2>1, <3>1, <3>2
    <3>4. CASE EndsTask(m.event)
      <4>1. Len(sub[j].queue) + 1 \in 1..Len(sub'[j].queue)
        BY <3>3
      <4>. QED  BY <1>2, <3>2, <3>3, <3>4, <4>1 DEF ReadOK
    <3>5. CASE Ended
      <4>1. PICK i \in 1..Len(sub[j].queue) : EndsTask(sub[j].queue[i].event)
        BY <1>2, <3>2, <3>5 DEF ReadOK
      <4>2. i \in 1..Len(sub'[j].queue) /\ sub'[j].queue[i] = sub[j].queue[i]
        BY <3>3
      <4>. QED  BY <1>2, <3>2, <4>1, <4>2 DEF ReadOK
    <3>6. CASE ~Ended'
      BY <1>2, <3>2, <3>6 DEF ReadOK
    <3>. QED  BY <2>4, <3>4, <3>5, <3>6
  <2>. QED  BY <1>1, <1>2, <1>5, <2>3, <2>5 DEF StreamsOK, Ended, BeforeEnd, StoredMessage
<1>6. CASE HandlerPublishes(w) \/ HandlerPublishFails(w)
  <2>1. /\ pc[w] = "publish" /\ UNCHANGED <<store, saved>>
        /\ Broadcast(w) \/ UNCHANGED <<sub, announced>>
    BY <1>6 DEF HandlerPublishes, HandlerPublishFails, Publish, PublishFailed, StoreUnchanged
  <2>. QED  BY <1>3, <1>5, <2>1
<1>7. CASE AcquireLease(w) \/ AcquirePermit(w) \/ DecodeFails(w) \/ HandlerReturns(w) \/ ReleasePermit(w)
  BY <1>3, <1>7 DEF AcquireLease, AcquirePermit, DecodeFails, HandlerReturns, ReleasePermit, vars
<1>. QED  BY <1>4, <1>6, <1>7 DEF BackendStep

\* What subscribers have ahead of them, in every reachable state.
LEMMA StreamsInvariance == ClusterSpec => []StreamsOK
<1>1. ClusterInit => StreamsOK
  <2> SUFFICES ASSUME ClusterInit PROVE StreamsOK
    OBVIOUS
  <2>1. /\ StoredMessage(NoMessage) /\ ~EndsTask(NoMessage.event) /\ BeforeEnd(0)
    BY DEF ClusterInit, Init, StoredMessage, NoMessage, InvalidEvent, EndsTask, BeforeEnd
  <2>. QED  BY <2>1 DEF ClusterInit, StreamsOK, TaskVersionMissing
<1>2. IndInv /\ ClusterIndInv /\ StreamsOK /\ [ClusterNext]_allVars => StreamsOK'
  <2> SUFFICES ASSUME IndInv, ClusterIndInv, StreamsOK, [ClusterNext]_allVars PROVE StreamsOK'
    OBVIOUS
  <2>1. ClusterTypeOK /\ SubsOK /\ PublishOK
    BY ClusterIndInvParts DEF ClusterIndInv
  <2>2. CASE UNCHANGED allVars
    BY <2>2 DEF allVars, vars, clusterVars, StreamsOK, StoredMessage, BeforeEnd
  <2>. QED  BY <2>1, <2>2, FrontendKeepsStreams, BackendKeepsStreams DEF ClusterNext
<1>3. ClusterSpec => []IndInv
  BY ClusterImplementsTaskUpdate, Invariance, PTL
<1>. QED  BY <1>1, <1>2, <1>3, ClusterInvariance, PTL DEF ClusterSpec

\* No subscriber waits for a task whose end was broadcast: the end carries the
\* last version, nobody skips up to it, and it is in the queue of all who read.
THEOREM NobodyIsLeftWaiting == ClusterSpec => []TerminalReachesEveryone
<1>1. IndInv /\ ClusterIndInv /\ StreamsOK => TerminalReachesEveryone
  <2> SUFFICES ASSUME IndInv, ClusterIndInv, StreamsOK, Ended, NEW k \in Calls, sub[k].pc = "reading"
               PROVE  ~Waiting(k)
    BY DEF TerminalReachesEveryone, Ended, Waiting
  <2>1. sub[k].queue \in Seq(Message) /\ SubOK(sub[k])
    BY ClusterIndInvParts DEF SubsOK, SubRecord
  <2>2. PICK i \in 1..Len(sub[k].queue) : EndsTask(sub[k].queue[i].event)
    BY DEF StreamsOK, Ended
  <2>3. sub[k].queue[i] \in Message /\ StoredMessage(sub[k].queue[i])
    BY <2>1 DEF SubOK
  <2>4. /\ sub[k].queue[i].version = Len(saved) /\ Len(saved) \in Nat \ {0}
        /\ store.task # NoTask /\ Terminal(store.task.state)
    BY <2>2, <2>3, EndIsLast
  <2>5. sub[k].snap < Len(saved)
    BY <2>4 DEF StreamsOK, BeforeEnd
  <2>6. ~Skips(sub[k].queue[i], sub[k].snap)
    BY <2>4, <2>5 DEF Skips, After, TaskVersionMissing
  <2>7. IsFinal(sub[k].queue[i].event)
    BY <2>2 DEF EndsTask, IsFinal, FinalState
  <2>. QED  BY <2>6, <2>7 DEF Waiting
<1>2. ClusterSpec => []IndInv
  BY ClusterImplementsTaskUpdate, Invariance, PTL
<1>. QED  BY <1>1, <1>2, StreamsInvariance, ClusterInvariance, PTL
-----------------------------------------------------------------------------
(***************************************************************************)
(* A Cancel does not miss the outcome of its own cancelation.              *)
(***************************************************************************)
\* What worker w is about to announce is newer than v, or has no version.
NewerThan(w, v) ==
    /\ pc[w] = "process" /\ event[w].kind = "init" => v < mgr[w].version
    /\ pc[w] = "push" /\ event[w].kind # "message" => v < mgr[w].version
    /\ pc[w] \in {"loadResult", "loadErrorResult"} => v < mgr[w].version
    /\ pc[w] = "publish" /\ result[w].kind = "none" => v < mgr[w].version
    /\ pc[w] = "publish" /\ result[w].kind = "task" => v < result[w].version
    /\ pc[w] = "publish" /\ result[w].kind = "message" => result[w].version = TaskVersionMissing

\* A manager without a task has no state either.
NoTaskNoState(w) == mgr[w].tracked = NoTask => mgr[w].state = "unspecified"

\* A final event that a subscription which skips up to v will not skip.
AnswerAhead(q, v) == \E i \in 1..Len(q) : IsFinal(q[i].event) /\ ~Skips(q[i], v)

\* The frontend call of a cancelation and its worker: the version the call
\* compares with is from before everything its worker announces, it has its
\* reader before there is a worker, and what was announced is in its queue.
CancelOK(w) ==
    /\ handler[w] = "none" => pc[w] = "start" /\ announced[w] = NoMessage
    /\ call[w].pc \in {"idle", "subscribe"} => sub[w].pc = "none"
    /\ handler[w] # "none" \/ call[w].pc \in {"lease", "permit"} => sub[w].pc # "none"
    /\ sub[w].pc = "reading" => sub[w].snap = call[w].from
    /\ NoTaskNoState(w) /\ NewerThan(w, call[w].from)
    /\ announced[w] # NoMessage /\ Open(w) => AnswerAhead(sub[w].queue, call[w].from)

\* A manager only takes over a task together with its state.
LEMMA StepKeepsNoTaskNoState ==
    ASSUME IndInv, NEW w \in Workers, Step(w), NoTaskNoState(w)
    PROVE  NoTaskNoState(w)'
<1>0. /\ WorkerOK(w) /\ ChainOK /\ VersionChain
      /\ pc \in [Workers -> PCs] /\ mgr \in [Workers -> Manager]
  BY IndInvParts DEF IndInv
<1>1. CASE LoadTask(w) \/ CreateCanceler(w) \/ CancelReload(w)
  <2>1. CASE store.task # NoTask
    BY <1>0, <1>1, <2>1 DEF LoadTask, CreateCanceler, CancelReload, Track, NoTaskNoState
  <2>2. CASE store.task = NoTask
    <3>1. mgr'[w] = mgr[w]
      BY <1>0, <1>1, <2>2 DEF LoadTask, CreateCanceler, CancelReload, WorkerOK, ChainOK, VersionChain
    <3>. QED  BY <3>1 DEF NoTaskNoState
  <2>. QED  BY <2>1, <2>2
<1>2. CASE CreateTask(w)
  <2>1. event[w].kind = "task" => event[w].task \in Task
    BY <1>0, EventShape DEF WorkerOK
  <2>. QED  BY <1>0, <1>2, <2>1, NoTaskAssumption DEF CreateTask, Track, NoTaskNoState
<1>3. CASE UpdateHistory(w) \/ ApplyEvent(w) \/ SetTaskFailed(w) \/ ProcessError(w)
  <2>1. CASE UNCHANGED mgr
    BY <2>1 DEF NoTaskNoState
  <2>2. CASE mgr' # mgr
    <3>1. PICK t : Update(t) /\ Track(w, t, store.version + 1)
      BY <1>3, <2>2 DEF UpdateHistory, ApplyEvent, SetTaskFailed, ProcessError, MarkFailed
    <3>2. saved' = Append(saved, t) /\ saved' \in Seq(Task) /\ saved \in Seq(Task)
      BY <3>1, StepIndInv DEF Update, IndInv, TypeOK
    <3>3. t \in Task
      BY <3>2
    <3>. QED  BY <1>0, <3>1, <3>3, NoTaskAssumption DEF Track, NoTaskNoState
  <2>. QED  BY <2>1, <2>2
<1>4. CASE ~(\/ LoadTask(w) \/ CreateCanceler(w) \/ CancelReload(w) \/ CreateTask(w)
             \/ UpdateHistory(w) \/ ApplyEvent(w) \/ SetTaskFailed(w) \/ ProcessError(w))
  <2>1. UNCHANGED mgr
    BY <1>4 DEF Step, Process, StartNew, SavePushConfig, CreateWriter, ReadEvent, ReadError,
       RejectEvent, AcceptUnstored, ResolveConflict, PushSent, PushFailed, LoadResult, Publish,
       PublishFailed
  <2>. QED  BY <2>1 DEF NoTaskNoState
<1>. QED  BY <1>1, <1>2, <1>3, <1>4

\* Every step of the worker keeps it ahead of a version from before the end.
LEMMA StepKeepsNewer ==
    ASSUME IndInv, NEW w \in Workers, Step(w), WorkerPublishOK(w), NoTaskNoState(w),
           NEW v \in Nat, BeforeEnd(v), NewerThan(w, v)
    PROVE  NewerThan(w, v)'
<1>0. /\ WorkerOK(w) /\ ChainOK /\ VersionChain
      /\ pc \in [Workers -> PCs] /\ mgr \in [Workers -> Manager]
      /\ event \in [Workers -> Event] /\ result \in [Workers -> Result]
  BY IndInvParts DEF IndInv
<1>1. /\ store.version = Len(saved) /\ Len(saved) \in Nat /\ v <= Len(saved)
      /\ store.task # NoTask /\ Terminal(store.task.state) => v < store.version
  BY <1>0 DEF BeforeEnd, VersionChain, ChainOK
<1>2. /\ MessageResult.kind = "message" /\ MessageResult.version = TaskVersionMissing
      /\ \A t, u : TaskResult(t, u).kind = "task" /\ TaskResult(t, u).version = u
  BY DEF MessageResult, TaskResult, NoResult
<1> USE DEF Goto, Finish
<1>3. CASE \/ StartNew(w) \/ LoadTask(w) \/ SavePushConfig(w) \/ CreateCanceler(w) \/ CreateWriter(w)
           \/ UpdateHistory(w) \/ ReadError(w) \/ RejectEvent(w) \/ PushFailed(w) \/ Publish(w)
           \/ PublishFailed(w)
  <2>1. pc'[w] \in {"savePush", "history", "createWriter", "run", "setFailed", "processError", "done"}
    BY <1>0, <1>3 DEF StartNew, LoadTask, SavePushConfig, CreateCanceler, CreateWriter, AfterSetup,
       UpdateHistory, ReadError, RejectEvent, PushFailed, Publish, PublishFailed
  <2>. QED  BY <2>1 DEF NewerThan
<1>4. CASE ReadEvent(w)
  <2>1. PICK e \in Emits(w) : event' = [event EXCEPT ![w] = e]
    BY <1>4 DEF ReadEvent
  <2>2. pc'[w] = "process" /\ mgr'[w] = mgr[w] /\ event'[w] = e
    BY <1>0, <1>4, <2>1 DEF ReadEvent
  <2>3. e \in Event /\ (e = InitEvent => mgr[w].state = "canceled")
    BY <2>1, EventsAssumption DEF Emits, Event
  <2>4. e.kind = "init" => e = InitEvent
    BY <2>3 DEF Event, TaskEvent, StatusEvent, ArtifactEvent, AgentMessage, InitEvent, InvalidEvent
  <2>5. mgr[w].state = "canceled" => v < mgr[w].version
    <3>1. SUFFICES ASSUME mgr[w].state = "canceled" PROVE v < mgr[w].version
      OBVIOUS
    <3>2. mgr[w].tracked # NoTask
      BY <1>0, <1>4, <3>1 DEF NoTaskNoState
    <3>. QED  BY <1>0, <1>1, <3>1, <3>2 DEF WorkerOK, VersionChain, Terminal, TerminalStates
  <2>. QED  BY <2>2, <2>3, <2>4, <2>5 DEF NewerThan
<1>5. CASE AcceptUnstored(w)
  <2>1. /\ pc[w] = "process" /\ pc'[w] = "push" /\ event[w].kind \in {"message", "init"}
        /\ UNCHANGED <<mgr[w], event[w]>>
    BY <1>0, <1>5 DEF AcceptUnstored
  <2>. QED  BY <2>1 DEF NewerThan
<1>6. CASE CreateTask(w)
  <2>1. \/ pc'[w] = "setFailed"
        \/ pc'[w] = "push" /\ mgr'[w].version = 1 /\ store.task = NoTask
    BY <1>0, <1>6 DEF CreateTask, Track
  <2>2. store.task = NoTask => v = 0
    BY <1>0, <1>1 DEF VersionChain
  <2>. QED  BY <2>1, <2>2 DEF NewerThan
<1>7. CASE ApplyEvent(w)
  <2>1. \/ pc'[w] \in {"cancelReload", "reload"}
        \/ pc'[w] = "push" /\ mgr'[w].version = store.version + 1
    BY <1>0, <1>7 DEF ApplyEvent, Track
  <2>. QED  BY <1>1, <2>1 DEF NewerThan
<1>8. CASE CancelReload(w)
  <2>0. store.task # NoTask
    BY <1>0, <1>8 DEF CancelReload, WorkerOK, ChainOK, VersionChain
  <2>1. /\ event'[w] = event[w] /\ pc'[w] \in {"reload", "push", "process"}
        /\ pc'[w] = "push" => store.task.state = "canceled" /\ mgr'[w].version = store.version
        /\ event[w].kind = "status"
    BY <1>0, <1>8 DEF CancelReload, AfterReload, Track, WorkerPublishOK, StatusEvent
  <2>. QED  BY <1>1, <2>0, <2>1 DEF NewerThan, Terminal, TerminalStates
<1>9. CASE ResolveConflict(w)
  <2>0. store.task # NoTask
    BY <1>0, <1>9 DEF ResolveConflict, WorkerOK, ChainOK, VersionChain
  <2>1. \/ pc'[w] = "done"
        \/ /\ pc'[w] = "publish" /\ Terminal(store.task.state)
           /\ result'[w] = TaskResult(store.task, store.version)
    BY <1>0, <1>9 DEF ResolveConflict
  <2>. QED  BY <1>1, <1>2, <2>0, <2>1 DEF NewerThan
<1>10. CASE PushSent(w)
  <2>1. /\ UNCHANGED <<mgr[w], event[w]>> /\ pc[w] = "push" /\ result[w].kind = "none"
        /\ \/ pc'[w] = "publish" /\ result'[w] = MessageResult
           \/ pc'[w] \in {"loadResult", "publish"} /\ result'[w] = result[w] /\ event[w].kind # "message"
    BY <1>0, <1>10 DEF PushSent, WorkerPublishOK
  <2>. QED  BY <1>2, <2>1 DEF NewerThan
<1>11. CASE SetTaskFailed(w) \/ ProcessError(w)
  <2>1. \/ pc'[w] = "done"
        \/ pc'[w] \in {"loadResult", "loadErrorResult"} /\ mgr'[w].version = store.version + 1
    BY <1>0, <1>11 DEF SetTaskFailed, ProcessError, MarkFailed, Track
  <2>. QED  BY <1>1, <2>1 DEF NewerThan
<1>12. CASE LoadResult(w)
  <2>1. /\ pc'[w] \in {"publish", "done"} /\ pc[w] \in {"loadResult", "loadErrorResult"}
        /\ result'[w] = LoadedResult(w)
    BY <1>0, <1>12 DEF LoadResult
  <2>2. v < mgr[w].version /\ mgr[w].version <= store.version /\ mgr[w].version \in Nat
    BY <1>0, <1>1, <2>1 DEF NewerThan, WorkerOK, Manager
  <2>3. LoadedResult(w).kind = "task" /\ v < LoadedResult(w).version
    BY <1>1, <1>2, <2>2 DEF LoadedResult
  <2>. QED  BY <2>1, <2>3 DEF NewerThan
<1>. QED
  BY <1>3, <1>4, <1>5, <1>6, <1>7, <1>8, <1>9, <1>10, <1>11, <1>12 DEF Step, Process

\* So what it broadcasts is not skipped.
LEMMA EmittedNotSkipped ==
    ASSUME IndInv, NEW w \in Workers, WorkerPublishOK(w), pc[w] = "publish",
           NEW v \in Nat, NewerThan(w, v)
    PROVE  ~Skips(Emitted(w), v)
<1>1. mgr[w].version \in Nat /\ result[w].version \in Nat
      /\ result[w].kind \in {"none", "task", "message"}
  BY IndInvParts DEF WorkerPublishOK, WorkerOK, Manager, Result
<1>2. Emitted(w).version = IF result[w].kind = "none" THEN mgr[w].version ELSE result[w].version
  BY DEF Emitted
<1>. QED  BY <1>1, <1>2 DEF NewerThan, Skips, After, TaskVersionMissing

\* The frontend: Cancel remembers the version before there is a worker, has
\* its reader before it asks for one, and reads until it has its answer.
LEMMA FrontendKeepsCancelOK ==
    ASSUME IndInv, ClusterTypeOK, NotStarted, SubsOK, NEW k \in Calls, FrontendStep(k),
           NEW w \in Cancelers, CancelOK(w)
    PROVE  CancelOK(w)'
<1>1. /\ call \in [Calls -> CallRecord] /\ sub \in [Calls -> SubRecord]
      /\ w \in Calls /\ w \in Workers /\ w \notin Executors /\ w \notin Resubs
      /\ UNCHANGED <<pc, mgr, event, result, handler, announced>>
  BY FrontendMoves, WorkersAssumption, ClusterAssumption
     DEF ClusterTypeOK, CallRecord, SubsOK, Calls, Workers, vars
<1>2. CASE k # w
  <2>1. call'[w] = call[w] /\ sub'[w] = sub[w]
    BY <1>1, <1>2 DEF FrontendStep, ExecuteCall, CancelCall, Resubscribe, CreateReader,
       CreateReaderFails, EncodeFails, CloseReader, SubSnapshot, SubRead, SubFails, CancelResolves,
       CallGoto
  <2>. QED  BY <1>1, <2>1 DEF CancelOK, NoTaskNoState, NewerThan, Open
<1>3. ASSUME UNCHANGED <<call[w].from, sub[w]>>, call'[w].pc \notin {"idle", "subscribe"},
             call'[w].pc \in {"lease", "permit"} => sub[w].pc # "none"
      PROVE  CancelOK(w)'
  BY <1>1, <1>3 DEF CancelOK, NoTaskNoState, NewerThan, Open
<1>4. ASSUME call[w].from = call'[w].from, sub'[w].pc = "closed", call'[w].pc \notin {"idle", "subscribe"}
      PROVE  CancelOK(w)'
  BY <1>1, <1>4 DEF CancelOK, NoTaskNoState, NewerThan, Open
<1>5. CASE k = w /\ CancelCall(w)
  <2>1. /\ handler[w] = "none" /\ sub'[w] = sub[w] /\ sub[w].pc = "none"
        /\ pc[w] = "start" /\ announced[w] = NoMessage
        /\ call'[w].pc \in {"subscribe", "refused", "answered"}
    BY <1>1, <1>5 DEF CancelCall, CallGoto, NotStarted, CancelOK, CallRecord
  <2>. QED  BY <1>1, <2>1 DEF CancelOK, NoTaskNoState, NewerThan, Open
<1>6. CASE k = w /\ CreateReader(w)
  <2>1. /\ handler[w] = "none" /\ sub'[w].pc = "open"
        /\ pc[w] = "start" /\ announced[w] = NoMessage
        /\ call'[w].pc = "lease" /\ call'[w].from = call[w].from
    BY <1>1, <1>6 DEF CreateReader, CallGoto, NotStarted, CancelOK, CallRecord, SubRecord
  <2>. QED  BY <1>1, <2>1 DEF CancelOK, NoTaskNoState, NewerThan, Open
<1>7. CASE k = w /\ (CreateReaderFails(w) \/ EncodeFails(w) \/ CancelResolves(w))
  <2>1. /\ sub'[w] = sub[w] /\ call'[w].pc \in {"refused", "closeReader", "answered"}
        /\ call'[w].from = call[w].from
    BY <1>1, <1>7 DEF CreateReaderFails, EncodeFails, CancelResolves, CallGoto, CallRecord
  <2>. QED  BY <1>3, <2>1
<1>8. CASE k = w /\ (CloseReader(w) \/ SubFails(w))
  <2>1. /\ sub'[w].pc = "closed" /\ call'[w].from = call[w].from
        /\ call'[w].pc \notin {"idle", "subscribe"}
    BY <1>1, <1>8 DEF CloseReader, SubFails, CallGoto, CallRecord, SubRecord
  <2>. QED  BY <1>4, <2>1
<1>9. CASE k = w /\ SubSnapshot(w)
  <2>1. /\ call' = call /\ call[w].pc = "listening" /\ sub[w].pc = "open"
        /\ \/ sub'[w].pc = "closed"
           \/ /\ sub'[w].pc = "reading" /\ sub'[w].snap = call[w].from
              /\ sub'[w].queue = sub[w].queue
    BY <1>1, <1>9 DEF SubSnapshot, SubRecord, ComparedVersion
  <2>. QED  BY <1>1, <1>4, <2>1 DEF CancelOK, NoTaskNoState, NewerThan, Open
<1>10. CASE k = w /\ SubRead(w)
  <2>1. /\ call' = call /\ sub[w].pc = "reading" /\ sub[w].queue # <<>>
        /\ sub[w].queue \in Seq(Message) /\ call[w].pc \notin {"idle", "subscribe"}
    BY <1>1, <1>10 DEF SubRead, SubRecord, CancelOK
  <2>2. \/ sub'[w].pc = "closed"
        \/ /\ Skips(Head(sub[w].queue), sub[w].snap) \/ ~IsFinal(Head(sub[w].queue).event)
           /\ sub'[w].pc = "reading" /\ sub'[w].snap = sub[w].snap
           /\ sub'[w].queue = Tail(sub[w].queue)
    BY <1>1, <1>10, <2>1 DEF SubRead, SubRecord
  <2>3. ASSUME NEW q \in Seq(Message), q # <<>>, NEW v, AnswerAhead(q, v),
               Skips(Head(q), v) \/ ~IsFinal(Head(q).event)
        PROVE  AnswerAhead(Tail(q), v)
    <3>1. PICK i \in 1..Len(q) : IsFinal(q[i].event) /\ ~Skips(q[i], v)
      BY <2>3 DEF AnswerAhead
    <3>2. i # 1
      BY <2>3, <3>1
    <3>3. i - 1 \in 1..Len(Tail(q)) /\ Tail(q)[i - 1] = q[i]
      BY <2>3, <3>1, <3>2
    <3>. QED  BY <3>1, <3>3 DEF AnswerAhead
  <2>4. CASE sub'[w].pc = "closed"
    BY <1>4, <2>1, <2>4
  <2>5. CASE sub'[w].pc # "closed"
    <3>1. announced[w] # NoMessage => AnswerAhead(sub'[w].queue, call[w].from)
      BY <2>1, <2>2, <2>3, <2>5 DEF CancelOK, Open
    <3>. QED  BY <1>1, <2>1, <2>2, <2>5, <3>1 DEF CancelOK, NoTaskNoState, NewerThan, Open
  <2>. QED  BY <2>4, <2>5
<1>11. CASE k = w /\ (ExecuteCall(w) \/ Resubscribe(w))
  BY <1>1, <1>11 DEF ExecuteCall, Resubscribe
<1>. QED
  BY <1>2, <1>5, <1>6, <1>7, <1>8, <1>9, <1>10, <1>11 DEF FrontendStep

\* The backend: a worker starts only after its call has a reader, and what it
\* announces is put into that reader's queue.
LEMMA BackendKeepsCancelOK ==
    ASSUME IndInv, ClusterTypeOK, NotStarted, PublishOK, SubsOK, StreamsOK,
           NEW x \in Workers, BackendStep(x), NEW w \in Cancelers, CancelOK(w)
    PROVE  CancelOK(w)'
<1>1. /\ call \in [Calls -> CallRecord] /\ sub \in [Calls -> SubRecord]
      /\ handler \in [Workers -> HandlerPCs] /\ announced \in [Workers -> Message]
      /\ w \in Calls /\ w \in Workers /\ x \in Calls /\ w \notin Executors
      /\ call'[w].from = call[w].from /\ call[w].from \in Nat /\ BeforeEnd(call[w].from)
  BY BackendTypes, WorkersAssumption DEF ClusterTypeOK, CallRecord, SubsOK, Calls, Workers, StreamsOK
<1>2. /\ pc \in [Workers -> PCs] /\ mgr \in [Workers -> Manager]
      /\ event \in [Workers -> Event] /\ result \in [Workers -> Result]
  BY IndInvParts
<1>3. CASE AcquireLease(x) \/ AcquirePermit(x)
  <2>1. /\ UNCHANGED <<pc, mgr, event, result, sub, announced>>
        /\ handler'[w] # "none" => handler[w] # "none" \/ call[w].pc = "permit"
        /\ handler[w] # "none" => handler'[w] # "none"
    BY <1>1, <1>3 DEF AcquireLease, AcquirePermit, vars
  <2>2. \/ call'[w].pc = call[w].pc
        \/ /\ call[w].pc \in {"lease", "permit"}
           /\ call'[w].pc \in {"permit", "closeReader", "listening", "refused"}
    BY <1>1, <1>3 DEF AcquireLease, AcquirePermit, CallGoto, CallRecord
  <2>. QED  BY <1>1, <2>1, <2>2 DEF CancelOK, NoTaskNoState, NewerThan, Open
<1>4. CASE DecodeFails(x) \/ HandlerReturns(x) \/ ReleasePermit(x)
  <2>1. /\ UNCHANGED <<pc, mgr, event, result, sub, announced, call>>
        /\ handler'[w] = "none" <=> handler[w] = "none"
    BY <1>1, <1>4 DEF DecodeFails, HandlerReturns, ReleasePermit, vars
  <2>. QED  BY <1>1, <2>1 DEF CancelOK, NoTaskNoState, NewerThan, Open
<1>5. CASE HandlerWorks(x)
  <2>1. Step(x) /\ UNCHANGED <<call, sub, handler, announced>> /\ handler[x] = "running"
    BY <1>5 DEF HandlerWorks
  <2>2. CASE x = w
    <3>1. NoTaskNoState(w)' /\ NewerThan(w, call[w].from)'
      BY <1>1, <2>1, <2>2, StepKeepsNoTaskNoState, StepKeepsNewer DEF CancelOK, PublishOK
    <3>. QED  BY <1>1, <2>1, <2>2, <3>1 DEF CancelOK, NewerThan, Open
  <2>3. CASE x # w
    <3>1. UNCHANGED <<pc[w], mgr[w], event[w], result[w]>>
      BY <1>1, <1>2, <2>1, <2>3, StepMovesOne DEF OnlyMoves
    <3>. QED  BY <1>1, <2>1, <3>1 DEF CancelOK, NoTaskNoState, NewerThan, Open
  <2>. QED  BY <2>2, <2>3
<1>6. CASE HandlerPublishes(x) \/ HandlerPublishFails(x)
  <2>1. /\ Step(x) /\ UNCHANGED <<call, handler>> /\ handler[x] = "running" /\ pc[x] = "publish"
        /\ Broadcast(x) \/ UNCHANGED <<sub, announced>>
    BY <1>6 DEF HandlerPublishes, HandlerPublishFails, Step, Publish, PublishFailed
  <2>2. NoTaskNoState(w)' /\ NewerThan(w, call[w].from)'
    <3>1. CASE x = w
      BY <1>1, <2>1, <3>1, StepKeepsNoTaskNoState, StepKeepsNewer DEF CancelOK, PublishOK
    <3>2. CASE x # w
      <4>1. UNCHANGED <<pc[w], mgr[w], event[w], result[w]>>
        BY <1>1, <1>2, <2>1, <3>2, StepMovesOne DEF OnlyMoves
      <4>. QED  BY <2>1, <4>1 DEF CancelOK, NoTaskNoState, NewerThan
    <3>. QED  BY <3>1, <3>2
  <2>3. handler[w] = "none" => pc'[w] = "start" /\ w # x
    BY <1>1, <1>2, <2>1, StepMovesOne DEF CancelOK, OnlyMoves
  <2>4. CASE UNCHANGED <<sub, announced>>
    BY <1>1, <2>1, <2>2, <2>3, <2>4 DEF CancelOK, NewerThan, Open
  <2>5. CASE Broadcast(x)
    <3> DEFINE m == Emitted(x)
    <3>1. /\ announced'[w] = IF x = w /\ IsFinal(m.event) THEN m ELSE announced[w]
          /\ sub'[w] = IF Open(w) THEN [sub[w] EXCEPT !.queue = Append(@, m)] ELSE sub[w]
      BY <1>1, <2>5 DEF Broadcast
    <3>2. x = w => ~Skips(m, call[w].from)
      BY <1>1, <2>1, EmittedNotSkipped DEF CancelOK, PublishOK
    <3>3. m \in Message
      BY <2>1, EmittedStored DEF PublishOK
    <3> HIDE DEF m
    <3>4. sub'[w].pc = sub[w].pc /\ sub'[w].snap = sub[w].snap
      BY <1>1, <3>1 DEF SubRecord
    <3>5. ASSUME announced'[w] # NoMessage, Open(w)
          PROVE  AnswerAhead(sub'[w].queue, call[w].from)
      <4>1. /\ sub[w].queue \in Seq(Message) /\ sub'[w].queue = Append(sub[w].queue, m)
        BY <1>1, <3>1, <3>5 DEF SubRecord
      <4>2. /\ Len(sub'[w].queue) = Len(sub[w].queue) + 1 /\ Len(sub[w].queue) \in Nat
            /\ \A i \in 1..Len(sub[w].queue) : sub'[w].queue[i] = sub[w].queue[i]
            /\ sub'[w].queue[Len(sub[w].queue) + 1] = m
        BY <3>3, <4>1
      <4>3. CASE x = w /\ IsFinal(m.event)
        <5>1. Len(sub[w].queue) + 1 \in 1..Len(sub'[w].queue)
          BY <4>2
        <5>. QED  BY <3>2, <4>2, <4>3, <5>1 DEF AnswerAhead
      <4>4. CASE ~(x = w /\ IsFinal(m.event))
        <5>1. AnswerAhead(sub[w].queue, call[w].from)
          BY <3>1, <3>5, <4>4 DEF CancelOK
        <5>2. PICK i \in 1..Len(sub[w].queue) :
                  IsFinal(sub[w].queue[i].event) /\ ~Skips(sub[w].queue[i], call[w].from)
          BY <5>1 DEF AnswerAhead
        <5>3. i \in 1..Len(sub'[w].queue) /\ sub'[w].queue[i] = sub[w].queue[i]
          BY <4>2
        <5>. QED  BY <5>2, <5>3 DEF AnswerAhead
      <4>. QED  BY <4>3, <4>4
    <3>. QED  BY <1>1, <2>1, <2>2, <2>3, <3>1, <3>4, <3>5 DEF CancelOK, NewerThan, Open
  <2>. QED  BY <2>1, <2>4, <2>5
<1>. QED  BY <1>3, <1>4, <1>5, <1>6 DEF BackendStep

\* newRemoteCancelSubscription: however fast the worker is, the Cancel that
\* started it finds its outcome in the queue and does not skip it.
THEOREM CancelsSeeTheirResult == ClusterSpec => []CancelSeesItsResult
<1>1. ClusterInit => \A w \in Cancelers : CancelOK(w)
  BY DEF ClusterInit, Init, CancelOK, NoTaskNoState, NewerThan, NewManager, Open, Calls, Workers
<1>2. IndInv /\ ClusterIndInv /\ StreamsOK /\ (\A w \in Cancelers : CancelOK(w)) /\ [ClusterNext]_allVars
        => (\A w \in Cancelers : CancelOK(w))'
  <2> SUFFICES ASSUME IndInv, ClusterIndInv, StreamsOK, [ClusterNext]_allVars,
                      NEW w \in Cancelers, CancelOK(w)
               PROVE  CancelOK(w)'
    OBVIOUS
  <2>1. ClusterTypeOK /\ NotStarted /\ SubsOK /\ PublishOK
    BY ClusterIndInvParts DEF ClusterIndInv
  <2>2. CASE UNCHANGED allVars
    BY <2>2 DEF allVars, vars, clusterVars, CancelOK, NoTaskNoState, NewerThan, AnswerAhead, Open
  <2>. QED  BY <2>1, <2>2, FrontendKeepsCancelOK, BackendKeepsCancelOK DEF ClusterNext
<1>3. (\A w \in Cancelers : CancelOK(w)) => CancelSeesItsResult
  BY DEF CancelOK, CancelSeesItsResult, Waiting, AnswerAhead, Open
<1>4. ClusterSpec => []IndInv
  BY ClusterImplementsTaskUpdate, Invariance, PTL
<1>5. ClusterSpec => []StreamsOK
  BY <1>4, StreamsInvariance
<1>. QED  BY <1>1, <1>2, <1>3, <1>4, <1>5, ClusterInvariance, PTL DEF ClusterSpec
=============================================================================
