------------------------- MODULE DistributedManager -------------------------
(***************************************************************************)
(* Cluster mode: Execute, Cancel and Resubscribe of distributedManager     *)
(* submit work through the in-memory work queue, whose handlers run the    *)
(* workers of TaskUpdate, and listen to the events of the task through     *)
(* remoteSubscription.  All calls are about one task; a frontend, a        *)
(* handler and a subscription may each be on another server.               *)
(*                                                                         *)
(* The event queue is provided by the deployment.  It is modelled as what  *)
(* the code needs of it: Write hands the message to every reader created   *)
(* and not closed before, in the order of the writes.                      *)
(***************************************************************************)
EXTENDS TaskUpdate, FiniteSets

CONSTANTS
    Resubs,         \* calls of Resubscribe
    MaxExecutions,  \* limiter.ConcurrencyConfig, 0 for no limit
    Failures,       \* context codec and queue manager may fail
    Leavers,        \* clients that may leave, or whose reader may fail
    None            \* nobody

Calls == Workers \cup Resubs

ASSUME ClusterAssumption ==
    /\ Cluster
    /\ \A v, w \in Starters : v = w
    /\ Resubs \cap Workers = {}
    /\ Leavers \subseteq Calls
    /\ MaxExecutions \in Nat
    /\ Failures \in BOOLEAN
    /\ None \notin Workers

VARIABLES
    lease,      \* inMemoryLeaseManager: who holds the lease of each payload type
    permits,    \* semaphore: the places taken
    call,       \* the frontend call: where it is, the version Cancel loaded, its answer
    sub,        \* its remoteSubscription with the reader queue
    handler,    \* the goroutine of inMemoryQueue.Write
    override,   \* the worker's result has an EventOverride
    announced   \* history: the final event the worker has broadcast

clusterVars == <<lease, permits, call, sub, handler, override, announced>>
allVars == <<vars, clusterVars>>

Lease == {"execute", "cancel"}
LeaseOf(w) == IF w \in Executors THEN "execute" ELSE "cancel"

Message == [event : Event, version : Nat]
NoMessage == [event |-> InvalidEvent, version |-> TaskVersionMissing]

CallPCs == {"idle", "subscribe", "lease", "permit", "closeReader", "listening", "refused", "answered"}
SubPCs == {"none", "open", "reading", "closed"}
HandlerPCs == {"none", "running", "returned", "done"}

ClusterInit ==
    /\ Init
    /\ lease = [l \in Lease |-> None]
    /\ permits = 0
    /\ call = [k \in Calls |-> [pc |-> "idle", from |-> TaskVersionMissing, answer |-> NoTask]]
    /\ sub = [k \in Calls |-> [pc |-> "none", queue |-> <<>>, snap |-> TaskVersionMissing, last |-> NoMessage]]
    /\ handler = [w \in Workers |-> "none"]
    /\ override = [w \in Workers |-> FALSE]
    /\ announced = [w \in Workers |-> NoMessage]

CallGoto(k, label) == call' = [call EXCEPT ![k].pc = label]

-----------------------------------------------------------------------------
(***************************************************************************)
(* The frontend.                                                           *)
(***************************************************************************)
Active == store.task # NoTask /\ ~Terminal(store.task.state)

\* Execute up to the encoding of the context, which may fail.
ExecuteCall(k) ==
    /\ k \in Executors /\ call[k].pc = "idle"
    /\ \/ (k \in Starters \/ Active) /\ CallGoto(k, "subscribe")
       \/ ~(k \in Starters \/ Active) /\ CallGoto(k, "refused")
       \/ Failures /\ CallGoto(k, "refused")
    /\ UNCHANGED <<vars, lease, permits, sub, handler, override, announced>>

\* Cancel answers for a canceled task, refuses a finished one, and otherwise
\* remembers the version it has seen.
CancelCall(k) ==
    /\ k \in Cancelers /\ call[k].pc = "idle"
    /\ \/ Active /\ call' = [call EXCEPT ![k].pc = "subscribe", ![k].from = store.version]
       \/ store.task = NoTask /\ CallGoto(k, "refused")
       \/ /\ store.task # NoTask /\ Terminal(store.task.state)
          /\ IF store.task.state = "canceled"
             THEN call' = [call EXCEPT ![k].pc = "answered", ![k].answer = store.task]
             ELSE CallGoto(k, "refused")
    /\ UNCHANGED <<vars, lease, permits, sub, handler, override, announced>>

Resubscribe(k) ==
    /\ k \in Resubs /\ call[k].pc = "idle"
    /\ CallGoto(k, IF store.task = NoTask THEN "refused" ELSE "subscribe")
    /\ UNCHANGED <<vars, lease, permits, sub, handler, override, announced>>

\* Every call subscribes before it submits work.
CreateReader(k) ==
    /\ call[k].pc = "subscribe"
    /\ CallGoto(k, IF k \in Resubs THEN "listening" ELSE "lease")
    /\ sub' = [sub EXCEPT ![k].pc = "open"]
    /\ UNCHANGED <<vars, lease, permits, handler, override, announced>>

CreateReaderFails(k) ==
    /\ Failures /\ call[k].pc = "subscribe"
    /\ CallGoto(k, "refused")
    /\ UNCHANGED <<vars, lease, permits, sub, handler, override, announced>>

\* Cancel encodes the context when it has its reader.
EncodeFails(k) ==
    /\ Failures /\ k \in Cancelers /\ call[k].pc = "lease"
    /\ CallGoto(k, "closeReader")
    /\ UNCHANGED <<vars, lease, permits, sub, handler, override, announced>>

\* inMemoryLeaseManager.Acquire: one execution and one cancelation at a time,
\* and no execution is started during a cancelation.
CanLease(w) ==
    IF w \in Executors THEN \A l \in Lease : lease[l] = None ELSE lease["cancel"] = None

\* A Cancel that finds the lease taken listens to the running cancelation.
AcquireLease(w) ==
    /\ call[w].pc = "lease"
    /\ IF CanLease(w)
       THEN lease' = [lease EXCEPT ![LeaseOf(w)] = w] /\ CallGoto(w, "permit")
       ELSE /\ CallGoto(w, IF w \in Executors THEN "closeReader" ELSE "listening")
            /\ UNCHANGED lease
    /\ UNCHANGED <<vars, permits, sub, handler, override, announced>>

\* The rest of Write: a place of the semaphore and the handler's goroutine, or
\* the lease is given back.  Execute then closes its reader; Cancel does not.
AcquirePermit(w) ==
    /\ call[w].pc = "permit"
    /\ IF MaxExecutions = 0 \/ permits < MaxExecutions
       THEN /\ permits' = permits + 1
            /\ handler' = [handler EXCEPT ![w] = "running"]
            /\ CallGoto(w, "listening")
            /\ UNCHANGED lease
       ELSE /\ lease' = [lease EXCEPT ![LeaseOf(w)] = None]
            /\ CallGoto(w, IF w \in Executors THEN "closeReader" ELSE "refused")
            /\ UNCHANGED <<permits, handler>>
    /\ UNCHANGED <<vars, sub, override, announced>>

CloseReader(k) ==
    /\ call[k].pc = "closeReader"
    /\ CallGoto(k, "refused")
    /\ sub' = [sub EXCEPT ![k].pc = "closed", ![k].queue = <<>>]
    /\ UNCHANGED <<vars, lease, permits, handler, override, announced>>

-----------------------------------------------------------------------------
(***************************************************************************)
(* The backend: workQueueHandler.handle runs the worker of TaskUpdate.     *)
(***************************************************************************)
\* Mutant: the early return skips the deferred release of the place.
DecodeFailsKeepsPermit(w) ==
    /\ Failures /\ handler[w] = "running" /\ pc[w] = "start"
    /\ handler' = [handler EXCEPT ![w] = "done"]
    /\ lease' = [lease EXCEPT ![LeaseOf(w)] = None]
    /\ UNCHANGED <<vars, permits, call, sub, override, announced>>

\* Mutant: the early return skips the deferred release of the lease.
DecodeFailsKeepsLease(w) ==
    /\ Failures /\ handler[w] = "running" /\ pc[w] = "start"
    /\ handler' = [handler EXCEPT ![w] = "returned"]
    /\ UNCHANGED <<vars, lease, permits, call, sub, override, announced>>

\* The context cannot be decoded: the worker is never created.
DecodeFails(w) ==
    /\ Failures /\ handler[w] = "running" /\ pc[w] = "start"
    /\ handler' = [handler EXCEPT ![w] = "returned"]
    /\ lease' = [lease EXCEPT ![LeaseOf(w)] = None]
    /\ UNCHANGED <<vars, permits, call, sub, override, announced>>

\* A resolved conflict and a task set to failed replace the event.
HandlerWorks(w) ==
    /\ handler[w] = "running" /\ pc[w] # "publish"
    /\ Step(w)
    /\ override' = [override EXCEPT ![w] = pc[w] \in {"reload", "setFailed"} \/ (pc[w] # "run" /\ @)]
    /\ UNCHANGED <<lease, permits, call, sub, handler, announced>>

\* Mutant: the event the agent emitted is broadcast whatever became of it.
EmittedUnchanged(w) ==
    [event |-> IF event[w] = InitEvent THEN TaskEvent(mgr[w].tracked) ELSE event[w],
     version |-> IF result[w].kind = "none" THEN mgr[w].version ELSE result[w].version]

\* The message of processEvents.
Emitted(w) ==
    [event |-> IF override[w] THEN TaskEvent(result[w].task)
               ELSE IF event[w] = InitEvent THEN TaskEvent(mgr[w].tracked) ELSE event[w],
     version |-> IF result[w].kind = "none" THEN mgr[w].version ELSE result[w].version]

Open(k) == sub[k].pc \in {"open", "reading"}

Broadcast(w) ==
    /\ sub' = [k \in Calls |-> IF Open(k) THEN [sub[k] EXCEPT !.queue = Append(@, Emitted(w))] ELSE sub[k]]
    /\ announced' = [announced EXCEPT ![w] = IF IsFinal(Emitted(w).event) THEN Emitted(w) ELSE @]

HandlerPublishes(w) ==
    /\ handler[w] = "running"
    /\ Publish(w)
    /\ Broadcast(w)
    /\ UNCHANGED <<lease, permits, call, handler, override>>

\* Write may fail before or after the message went out.
HandlerPublishFails(w) ==
    /\ handler[w] = "running"
    /\ PublishFailed(w)
    /\ Broadcast(w) \/ UNCHANGED <<sub, announced>>
    /\ UNCHANGED <<lease, permits, call, handler, override>>

\* The deferred calls of the goroutine: the lease first, then the place.
HandlerReturns(w) ==
    /\ handler[w] = "running" /\ pc[w] = "done"
    /\ handler' = [handler EXCEPT ![w] = "returned"]
    /\ lease' = [lease EXCEPT ![LeaseOf(w)] = None]
    /\ UNCHANGED <<vars, permits, call, sub, override, announced>>

ReleasePermit(w) ==
    /\ handler[w] = "returned"
    /\ handler' = [handler EXCEPT ![w] = "done"]
    /\ permits' = permits - 1
    /\ UNCHANGED <<vars, lease, call, sub, override, announced>>

-----------------------------------------------------------------------------
(***************************************************************************)
(* remoteSubscription.Events and what Cancel makes of it.                  *)
(***************************************************************************)
\* Mutant: off by one, the version after the snapshot counts as old.
AfterNext(v, another) ==
    another = TaskVersionMissing \/ (v # TaskVersionMissing /\ another + 1 < v)

After(v, another) ==
    another = TaskVersionMissing \/ (v # TaskVersionMissing /\ another < v)

Skips(m, snap) == m.version # TaskVersionMissing /\ ~After(m.version, snap)

\* Mutant: a cancelation too compares with the snapshot.
ComparedVersionSnapshot(k) == store.version

\* The version up to which events are skipped.
ComparedVersion(k) == IF k \in Cancelers THEN call[k].from ELSE store.version

\* A terminal snapshot ends the subscription.  Cancel emits no other one.
SubSnapshot(k) ==
    LET s == sub[k]
        m == [event |-> TaskEvent(store.task), version |-> store.version] IN
    /\ call[k].pc = "listening" /\ s.pc = "open"
    /\ sub' = [sub EXCEPT ![k] =
         IF store.task # NoTask /\ Terminal(store.task.state)
         THEN [s EXCEPT !.pc = "closed", !.queue = <<>>, !.last = m]
         ELSE [s EXCEPT !.pc = "reading", !.snap = ComparedVersion(k),
                        !.last = IF store.task = NoTask \/ k \in Cancelers THEN s.last ELSE m]]
    /\ UNCHANGED <<vars, lease, permits, call, handler, override, announced>>

\* The next event; an old one is skipped, a final one ends the subscription.
SubRead(k) ==
    LET s == sub[k]
        m == Head(s.queue) IN
    /\ s.pc = "reading" /\ s.queue # <<>>
    /\ sub' = [sub EXCEPT ![k] =
         IF Skips(m, s.snap) THEN [s EXCEPT !.queue = Tail(@)]
         ELSE IF IsFinal(m.event) THEN [s EXCEPT !.pc = "closed", !.queue = <<>>, !.last = m]
         ELSE [s EXCEPT !.queue = Tail(@), !.last = m]]
    /\ UNCHANGED <<vars, lease, permits, call, handler, override, announced>>

\* The client leaves, its context ends, or a read fails.
SubFails(k) ==
    /\ k \in Leavers /\ call[k].pc = "listening" /\ Open(k)
    /\ sub' = [sub EXCEPT ![k].pc = "closed", ![k].queue = <<>>]
    /\ UNCHANGED <<vars, lease, permits, call, handler, override, announced>>

\* Mutant: whatever task ended the subscription is the result.
CancelOutcomeAny(k) ==
    LET e == sub[k].last.event
    IN  IF e.kind = "task" /\ IsFinal(e) THEN e.task ELSE store.task

\* convertToCancelationResult of the task that ended the subscription, or of
\* the stored one if something else did.
CancelOutcome(k) ==
    LET e == sub[k].last.event
        t == IF e.kind = "task" /\ IsFinal(e) THEN e.task ELSE store.task
    IN  IF t.state = "canceled" THEN t ELSE NoTask

CancelResolves(k) ==
    /\ k \in Cancelers /\ call[k].pc = "listening" /\ sub[k].pc = "closed"
    /\ call' = [call EXCEPT ![k].pc = "answered", ![k].answer = CancelOutcome(k)]
    /\ UNCHANGED <<vars, lease, permits, sub, handler, override, announced>>

-----------------------------------------------------------------------------
FrontendStep(k) ==
    \/ ExecuteCall(k) \/ CancelCall(k) \/ Resubscribe(k)
    \/ CreateReader(k) \/ CreateReaderFails(k) \/ EncodeFails(k) \/ CloseReader(k)
    \/ SubSnapshot(k) \/ SubRead(k) \/ SubFails(k) \/ CancelResolves(k)

BackendStep(w) ==
    \/ AcquireLease(w) \/ AcquirePermit(w)
    \/ DecodeFails(w) \/ HandlerWorks(w) \/ HandlerPublishes(w) \/ HandlerPublishFails(w)
    \/ HandlerReturns(w) \/ ReleasePermit(w)

ClusterNext == (\E k \in Calls : FrontendStep(k)) \/ (\E w \in Workers : BackendStep(w))

ClusterSpec == ClusterInit /\ [][ClusterNext]_allVars

-----------------------------------------------------------------------------
(***************************************************************************)
(* Properties.                                                             *)
(***************************************************************************)
\* The variables have the types of the code's fields.
ClusterTypeOK ==
    /\ lease \in [Lease -> Workers \cup {None}]
    /\ permits \in Nat
    /\ call \in [Calls -> [pc : CallPCs, from : Nat, answer : Task \cup {NoTask}]]
    /\ sub \in [Calls -> [pc : SubPCs, queue : Seq(Message), snap : Nat, last : Message]]
    /\ handler \in [Workers -> HandlerPCs]
    /\ override \in [Workers -> BOOLEAN]
    /\ announced \in [Workers -> Message]

\* Leases and work go together: a lease is held by the worker it was given to
\* exactly while that is being started or running, whichever way it ends, so
\* one execution and one cancelation of the task run at a time and no lease is
\* left behind that would refuse every later call.
LeasesExact ==
    \A w \in Workers :
        lease[LeaseOf(w)] = w <=> call[w].pc = "permit" \/ handler[w] = "running"

\* The semaphore counts the goroutines that have not ended, within its limit.
Occupied == {w \in Workers : handler[w] \in {"running", "returned"}}

PermitsExact ==
    /\ MaxExecutions # 0 => permits <= MaxExecutions
    /\ permits = Cardinality(Occupied)

\* Whatever a subscriber is sent or told with a version is what the store held
\* under that version, although it was read, overridden or loaded at different
\* times by different workers.  With partial snapshots the result is loaded
\* later and this is only so for an event that ends the task.
StoredMessage(m) ==
    LET e == m.event IN
    /\ e.kind \in {"task", "status", "artifact"} => m.version \in 1..Len(saved)
    /\ e.kind = "task" /\ (FullSnapshot \/ Terminal(e.task.state)) => e.task = saved[m.version]
    /\ e.kind = "status" /\ (FullSnapshot \/ Terminal(e.state)) => e.state = saved[m.version].state

ToldIsStored ==
    \A k \in Calls :
        /\ StoredMessage(sub[k].last)
        /\ \A i \in 1..Len(sub[k].queue) : StoredMessage(sub[k].queue[i])

\* A Cancel that returns a task returns the one that is stored, for good.
CancelAnswersAreStored ==
    \A k \in Cancelers : call[k].answer # NoTask =>
        call[k].answer.state = "canceled" /\ call[k].answer = store.task

\* A subscription that reads and has no final event ahead of it.
Waiting(k) ==
    sub[k].pc = "reading" /\ \A i \in 1..Len(sub[k].queue) :
        Skips(sub[k].queue[i], sub[k].snap) \/ ~IsFinal(sub[k].queue[i].event)

EndsTask(e) ==
    \/ e.kind = "task" /\ Terminal(e.task.state)
    \/ e.kind = "status" /\ Terminal(e.state)

\* Once the end of the task was broadcast nobody is left waiting: not those
\* who listened, not those between reader and snapshot, not those who came later.
TerminalReachesEveryone ==
    (\E w \in Workers : EndsTask(announced[w].event)) => \A k \in Calls : ~Waiting(k)

\* newRemoteCancelSubscription: a Cancel does not miss the outcome of its own
\* cancelation, even if a fast worker had it before the subscription started.
CancelSeesItsResult == \A w \in Cancelers : announced[w] # NoMessage => ~Waiting(w)

\* Work does not start before its call has a lease and a place for it.
NotStarted ==
    \A w \in Workers : call[w].pc \in {"idle", "subscribe", "lease", "permit"} => handler[w] = "none"

\* What a worker is about to broadcast belongs to the version it broadcasts it
\* with: the event to the task its manager tracks, the override to its result.
WorkerPublishOK(w) ==
    /\ override[w] => pc[w] \in {"loadResult", "publish", "processError", "loadErrorResult", "done"}
    /\ pc[w] = "cancelReload" => event[w] = StatusEvent("canceled")
    /\ pc[w] \notin {"publish", "done"} => result[w].kind = "none"
    /\ pc[w] = "loadResult" /\ ~override[w] => event[w].kind # "message"
    /\ pc[w] \in {"push", "loadResult", "publish"} /\ ~override[w] =>
         /\ event[w].kind \in {"task", "status", "artifact", "message", "init"}
         /\ event[w].kind # "message" => mgr[w].tracked # NoTask
         /\ event[w].kind = "task" => event[w].task = mgr[w].tracked
         /\ event[w].kind = "status" => event[w].state = mgr[w].state
    /\ pc[w] = "publish" =>
         /\ override[w] => result[w].kind = "task"
         /\ ~override[w] => result[w].kind = "message" <=> event[w].kind = "message"
         /\ result[w].kind # "error"
         /\ ~override[w] /\ result[w].kind = "task" /\ (FullSnapshot \/ Terminal(mgr[w].state))
              => result[w].task = mgr[w].tracked /\ result[w].version = mgr[w].version

PublishOK == \A w \in Workers : WorkerPublishOK(w)

\* The inductive invariant behind the theorems of DistributedManager_proofs.
ClusterIndInv ==
    /\ ClusterTypeOK /\ NotStarted /\ LeasesExact
    /\ IsFiniteSet(Occupied) /\ PermitsExact
    /\ PublishOK /\ ToldIsStored /\ CancelAnswersAreStored

\* A version from before the end of the task.
BeforeEnd(v) == v <= Len(saved) /\ (store.task # NoTask /\ Terminal(store.task.state) => v < Len(saved))

\* What TerminalReachesEveryone needs on top of ClusterIndInv: nobody reads with
\* a version to skip up to that includes the end of the task, and an end that
\* was broadcast is in the queue of everybody who reads.
StreamsOK ==
    /\ \A w \in Workers : StoredMessage(announced[w])
    /\ \A k \in Calls :
         /\ BeforeEnd(call[k].from)
         /\ sub[k].pc = "reading" => BeforeEnd(sub[k].snap)
    /\ (\E w \in Workers : EndsTask(announced[w].event)) =>
         \A k \in Calls : sub[k].pc = "reading" =>
             \E i \in 1..Len(sub[k].queue) : EndsTask(sub[k].queue[i].event)

\* distributedManager.Execute subscribes before it submits work so that a fast
\* work queue cannot broadcast before there is a reader: the caller of Execute
\* does not miss the result of its own execution either.
ExecuteSeesItsResult == \A w \in Executors : announced[w] # NoMessage => ~Waiting(w)
=============================================================================
