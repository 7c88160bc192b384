# TLA+ models of a2a-go

These modules describe a2a-go from the caller of a client to the stored task: how
a request crosses a binding of the protocol and reaches the handler, how a task is
executed, canceled, stored and streamed while many goroutines, and possibly several
server instances, work on it at once, and how the ACP executor drives agent
processes. That is where the code is concurrent, or translates one representation
into another, and where its tests reach least.

Each module models one component from its Go source. TLC checks it on small
instances, and TLAPS proves the safety properties for instances of any size: of the
optimistic updates everything else rests on, the event queue, both managers, the work
queues, listing and pulling, the ACP executor, and of calls with the conversions they
cross. `PROJECT.json` lists for every definition the lines it models, for every run what
it checks, and the hazards of the code at the lines where they bite.

    tlc -config MCTaskUpdate_races.cfg MCTaskUpdate     # any run of PROJECT.json
    tlapm DistributedManager_proofs.tla                 # any of the modules *_proofs

## 1. The system

| Component | State it keeps | Operations | Module |
|---|---|---|---|
| client (`a2aclient`) and its six transports | none between calls | one call per method, streams | Calls, Transports |
| server transports (`a2asrv/{grpc,jsonrpc,rest}.go`, `a2acompat/a2av0`), interceptors | per call: two goroutines and a channel for a stream over HTTP | decode, intercept, handle, encode, keep-alive | Calls, Transports |
| protocol types and conversions (`a2a`, `a2apb`, `a2acompat/a2av0`) | none | to and from protobuf and JSON, versions 1 and 0.3 | Wire, Values, ProtoV1, ProtoV0, CompatV0, JsonV1, PbJson |
| errors on the wire (`internal/{grpcutil,jsonrpc,rest}`) | none | to and from codes, statuses and details | Errors |
| request handler (`a2asrv/handler.go`) | none | validates requests, starts and streams executions | Calls |
| local execution manager (`internal/taskexec/local_manager.go`, `promise.go`) | maps of running executions and cancelations, one mutex; a promise per execution and cancelation | Execute, Cancel, Resubscribe, detached goroutines, cleanup | LocalManager |
| concurrency limiter (`limiter.go`) | executions in total and per scope | acquire, release (under the manager's mutex) | LocalManager |
| producer/consumer pipeline (`execution_handler.go`, `internal/eventpipe`) | an errgroup, a pipe of events, an inactivity timer | agent emits, consumer processes and broadcasts | LocalManager |
| processor and factory (`a2asrv/agentexec.go`) | the execution context, one update manager per execution or cancelation | CreateExecutor, CreateCanceler, Process, ProcessError | TaskUpdate |
| task update manager (`internal/taskupdate/manager.go`), event application (`a2aevent/event.go`) | the tracked task, its version and state | Process, SetTaskFailed, the cancelation retry loop, ApplyUpdate | TaskUpdate |
| task store (`a2asrv/taskstore`) | tasks with versions, one mutex | Create, Update (optimistic), Get, List | TaskUpdate, TaskList |
| in-memory event queue (`a2asrv/eventqueue`) | a broker goroutine per task, a buffered channel per queue, one mutex | CreateReader/Writer, Write, Read, Close, Destroy | EventQueue, Broadcast |
| pull event queue (`pull_event_queue_impl.go`) | a cursor, a polling goroutine per reader | poll, Read, Close | PullReader |
| subscriptions (`subscription.go`) | snapshot version, a reader queue | Events | LocalManager, DistributedManager |
| distributed manager, work queue handler (`distributed_manager.go`, `work_queue_handler.go`) | none: calls live on one server, work on another | Execute, Cancel, Resubscribe through a work queue | DistributedManager |
| work queues (`a2asrv/workqueue`) | leases and a semaphore; a polling loop; messages of a broker | Write, RegisterHandler | DistributedManager, WorkQueues |
| ACP executor (`integrations/executor/a2aacp`, `internal/acp`) | turns, sessions, a lock per context, a pool of agent processes, pending calls per connection | Execute, Cancel, Shutdown, acquire and release of agents, timers | AcpTurns, AcpPool, AcpConn |

Modules named MC… are instances for TLC, modules named …_proofs hold the proofs.

A message travels like this. The client encodes it for its binding; the server
decodes it, runs its interceptors and calls the handler. `Execute` registers an
execution under the mutex, creates a writer and a reader queue and returns a
subscription. A detached goroutine builds an executor (loading or creating the task
and writing the user's message to its history) and runs the agent and the consumer
in an errgroup. The agent writes events to the pipe; the consumer hands each one to
the processor, which updates the store under the version it knows, and broadcasts it
to all queues of the task. A final event stops the consumer, which cancels the agent.
Cleanup destroys the queues, closes the pipe, removes the execution, returns its
quota and resolves the promise. `Cancel` either writes the agent's cancelation
event to the pipe of the running execution and waits for it, or processes it
alone. `Resubscribe` adds a reader to a running execution and starts it with a
snapshot from the store. Events go back through the producer and the writer of the
response.

In cluster mode nothing is registered on the server that takes the call. The call
creates a reader for the task's events, writes a payload to the work queue and
returns a subscription that starts with a snapshot from the store. The work queue
admits one execution and one cancelation per task by leases and runs the same
pipeline on some server, as one handler per payload. A cancelation therefore has
no pipe to write to: it works on the task next to the execution, and only the
store keeps them apart.

What is hard here, and what should hold:

* Workers hold a copy of the task and write it back under a version. Nothing
  may be lost, and nothing may change a terminal task.
* The cancelation retries conflicts with a reloaded task; its copy, version and
  state have to be replaced together.
* A broker blocks on one full queue while others create, close and destroy
  queues: no panic, no lost or reordered event, no deadlock.
* Execute, Cancel, Resubscribe and cleanup interleave between their critical
  sections: one pipeline per task, exact quota, clients that act on a final event
  before the manager has finished with it.
* In a cluster subscribers put together a snapshot and messages of several
  workers by their versions: nothing may be taken for old that is not, and nobody
  may wait for a task that has ended.
* Contexts end at any point: agent failure, inactivity, a client that leaves.
* One value crosses up to four conversions between the caller and the handler, in
  six bindings that have room for different things. It has to arrive as what it was,
  or fail; an error has to stay the error it was; a broken stream must not look like
  one that ended.
* A turn of the ACP executor is shared by three goroutines, three timers, Cancel and
  Shutdown, and outlives the request that started it. Agents are shared by turns,
  stopped when idle, evicted, and exit by themselves.
* What surrounds the core is redelivered (work), polled (events) and paged (tasks)
  while it changes.

## 2. TaskUpdate: optimistic updates of one task

Workers (executions and cancelations, each with its own `taskupdate.Manager`)
share one stored task. One action is one access to the store with the code
around it; between two accesses workers interleave freely, as goroutines or as
processes of a cluster. Tasks of different ids never meet in this code.

| Variable | Code |
|---|---|
| `store` | `InMemory.tasks[id]`: task and version |
| `saved` | history: the task stored under each version |
| `pc`, `event`, `attempts` | where the worker is, the event at hand, rounds of `updateStatus` |
| `mgr` | `Manager`: tracked task, version, state |
| `result` | what the worker's execution or cancelation resolves to |

`StartNew`, `LoadTask`, `UpdateHistory`, `SavePushConfig` and `CreateCanceler` are
the factory; `ReadEvent` to `LoadResult` are `Process` with its rejections, the
retry loop (`ApplyEvent`, `CancelReload`), the reload after a conflict
(`ResolveConflict`), push notifications and the error path (`SetTaskFailed`,
`ProcessError`); `Publish` and `PublishFailed` are the broadcast in
`processEvents`. `Cluster` switches on what the code does with a work queue
(a redelivered request may find the task it was going to create, and
`CreateWriter` may fail between setup and work), `Push` that push notifications are
sent, `FullSnapshot`
says whether the materializer keeps whole tasks or the processor has to load its
result.

A task is its state, the messages in its history and the ids of its artifacts.
Ids, parts, metadata and timestamps are left out; an event that fails validation
because of them is `InvalidEvent`.

Properties: `UpdatesSerialize` (every change is one event applied to exactly the
task it replaces), `TerminalImmutable`, `OutcomesAgree`
(whoever ends with a terminal task ends with the stored one), `ResultsAreFinal`
(with full snapshots an execution never ends with a task that is still working),
`ExhaustedCancelGivesUp` (a cancelation that lost all its attempts no longer
writes, although its last reload gave it a fresh version).

## 3. EventQueue and Broadcast: one broker and its queues

All goroutines around one task's broker in `eventqueue`: creators and a destroyer
that want the manager's mutex, writers, readers, closers and the broker. An
unbuffered channel operation is one step of both sides; the broker's dispatch
loop is one step per queue because it blocks on each (`PickTarget`, `Deliver`,
`FinishBroadcast`), and so is its shutdown (`StopQueue`, `StopDone`). A select with
several ready cases takes any of them. `closed` counts how often the channels of a
queue were closed: a count of two, or a closed queue the broker may still send to, is
a panic of the broker goroutine (`NoChannelPanic`). `log`, `got` and `acked` are
history variables.

Broadcast is the abstract specification: a log of broadcasts, each addressed to the
queues connected when it was taken, received in order and without gaps, and
acknowledged only when the whole audience has it. There is no mutex, broker, buffer
or goroutine in it. `KeepsPromise` says that EventQueue implements it (`INSTANCE
Broadcast WITH members <- registered`). It is what the managers rely on when they
broadcast in one step. `OnlyDestroyTruncates` adds that only Destroy cuts a
broadcast short, and `CallsReturn` that every Write, create, Close and Destroy
returns.

EventQueue and LocalManager share no state in these models. MCLocalCalls puts them side
by side, as MCDeployment does with three other modules: a behaviour of it is a behaviour
of one of them, under that one's fairness.

## 4. LocalManager: executions, cancelations, subscriptions

Calls of Execute, Cancel and Resubscribe on several tasks, with every goroutine
they start. A critical section under the manager's mutex is one action. A
variable per call holds a record with the fields of the Go object and the
program points of its goroutines:

| Variable | Code |
|---|---|
| `ex` | `Execute`, `localExecution`, its agent, consumer, watcher, pipe and promise |
| `can` | `Cancel`, `cancelation` and its promise |
| `sub`, `readers` | `localSubscription` with its queue; the queues registered with the broker |
| `executions`, `cancelations`, `quota`, `byScope` | the maps and counters under the mutex |
| `stored` | state and version of each task in the store |

What the processor does to the store in detail is the subject of TaskUpdate; here
an event is the state it leads to. A pipeline alone on its task
(part of `BooksExact`) meets no concurrent modification, so conflicts do not
appear in this module. A push notification that cannot be sent fails a pipeline after
its event was stored (`PushFails`, and `AlonePushFails` for a cancelation that works
alone). The broadcast is one step because EventQueue implements Broadcast. A broadcast or read may fail once the
group's context has ended, and then the error path runs.

`Settings` are the workloads and configurations of a run: the calls that may be made,
limits, inactivity timeout, push notifications, queues that fail, clients that leave,
what agents yield.

Properties: `BooksExact` (types, one pipeline per task, and quota that counts exactly
the registered executions, globally and per scope), `ToldIsStored` (a terminal state
told to anybody, by event, snapshot or promise, is the stored one),
`FastFollowUpWaits` (the reason for `localExecution.exiting`), `SubscribersCaughtUp`
and `SubscribersMoveForward` (a subscriber that joins in the middle misses no version
and never goes back to one) and, under fairness, `EverythingEnds`: whatever is under way
(executions, cancelations, waiting follow-ups, the streams of senders), there is a later
moment when nothing is.

## 5. DistributedManager: the cluster

One task, the calls about it, the in-memory work queue and, by extending
TaskUpdate, its workers: `HandlerWorks`, `HandlerPublishes` and
`HandlerPublishFails` are the steps of TaskUpdate, taken by the handler of a work
item, with what the cluster adds to them.

| Variable | Code |
|---|---|
| `call` | the frontend call in `distributedManager`, the version Cancel loaded, its answer |
| `sub` | its `remoteSubscription`: reader queue, version compared with, last event yielded |
| `lease`, `permits` | `inMemoryLeaseManager` and the semaphore of `inMemoryQueue` |
| `handler` | the goroutine started by `inMemoryQueue.Write` |
| `override` | `ProcessorResult.EventOverride` of the event at hand |
| `announced` | history: the final event a worker has broadcast |

The event queue of a cluster is provided by the deployment (the in-memory one
serves a single process), so `Broadcast` is external: a write reaches every reader
created and not closed before, in order. `HandlerPublishFails` lets a write fail
before or after its message went out. `Failures` switches on errors of the context
codec and of the queue manager, `Leavers` are the clients that may go away. The
semaphore is counted also where there is no limit. Task id overrides of custom
work queues and the heartbeater are left out.

Properties: `LeasesExact` (a lease is held exactly while its work is being started
or runs) and `PermitsExact`; `ToldIsStored` (an event that goes out with a version
agrees with what was stored under that version, although event, override and
version come from different reads); `CancelAnswersAreStored`;
`TerminalReachesEveryone` (once the end of the task was broadcast no subscriber
is left waiting, whenever it joined); `CancelSeesItsResult` (why a cancelation
compares with the version from before it was submitted) and the same for Execute,
`ExecuteSeesItsResult`, which does not hold.

## 6. Calls: from the caller to the handler and back

One call of `a2aclient.Client`. Calls is the control: the client with its defaults, the
request on its way, the server's version check, interceptors and handler, and the way
back, with handlers and interceptors that fail or panic, connections that break and
callers that stop reading. A streaming call over HTTP has two goroutines on the
server, the producer of events and the writer of the response, which hand over an
unbuffered channel (`TakeItem`, `TakeClosed`, `TakePanic`, `SendCanceled`); the stream
starts with the first event or a keep-alive.

The data is in pure operators, one per Go conversion and direction and named like it:

| Module | Code |
|---|---|
| Wire | what they share: optional fields, errors, int32, maps, states and roles |
| ProtoV1, ProtoV0 | `a2apb/v1/pbconv`, `a2apb/v0/pbconv`: protobuf messages |
| JsonV1 | the JSON of package `a2a`, with its marshalers for parts, events, cards and schemes |
| CompatV0 | `a2acompat/a2av0`: the legacy types of version 0.3 |
| PbJson | `a2apb/v0/pbjson`: the HTTP bodies of version 0.3 |
| Errors | errors as gRPC status, JSON-RPC error and HTTP body, both ways |
| Transports | which of these a binding uses for a method, and what goes into path, query and body |
| Values | the shapes of all values, with any texts and any numbers of a Go type: what the theorems of section 10 range over |

A value is a record with the fields of the Go struct; a text is a token; a map is the
set of its kinds of entries, because only those matter on the wire (an integer becomes
a float, some values have no form). A field that has no place in a binding is lost
there and `Carried…` says so: it is the reference the conversions are compared with,
written field by field from the message definitions and independent of the path a
value takes.

Properties: `HandlerSeesRequest` and `ClientSeesResult` (what arrives is what was sent,
up to what the binding has no place for, and what it can carry does not become an
error: `ResultCarried` and `FailuresExplained`), `ErrorsSurvive` (the caller can tell the
kind of error and has its details), `StreamFaithful` (the events are a prefix of those
produced, and only a complete stream ends without an error), `CallsReturn` (every call
ends, and so do the server's goroutines).

Stating them for all values and not only for those TLC enumerates showed three places
where the code does something else, which the model has and the properties leave out:

* an error that ends a stream over HTTP+JSON and has details without a JSON form is only
  logged (`rest.go:338-341`): the stream ends as if it were complete (`Unsendable`);
* a request without a message but with a push configuration panics in the conversion
  from version 0.3 of the JSON-RPC binding, and the call fails (`ReceivePanic`);
* over HTTP+JSON of version 0.3 a push configuration does not have its task if one of
  the ids in its resource name contains a slash (`CarriedResult`).

## 7. The ACP executor

AcpConn has the state of the JSON-RPC connections to the agent processes: pending calls,
their one-slot channels, the channel `done`. AcpTurns composes it with the executor.
`turns` is a sequence of records with the fields of `turn` and the point its prompt
goroutine is at; `exec` and `cancel` are the running requests, `holder` and `waiting`
the turn lock of a context, `shut` is Shutdown. A task that asks a question pauses:
Execute returns and the turn lives on until a reply, an interruption, a timer, Cancel or
Shutdown answers it. AcpPool has the slots of the pool with their locks (`Executor.mu`
is one step, `startMu` is held across several), references, idle and cancel timers,
eviction, exits and Close; AcpTurns reduces it to "the running process, or a new one".

Properties: `TurnsExact` (types; one turn per context; once Shutdown has found the
executor drained nothing runs or starts), `AnsweredOnce` (a question gets one
answer and never waits on a turn that is over), `EndReported` (a turn that ends while
its request pauses is reported by one side or the other), `AnswerBeatsExit` (an agent
that answers and exits has answered), `EndedTasksLeave` (a task that has ended gives
back its context); `PoolExact` (types; of two processes of a key stopAgent is ending one,
and one in service is the agent of its slot; exact references), `InUseIsNotIdle`,
`AcquiresReturn` and `UnusedAgentsStop`. That at most one process per key exists, as the
comment of `agentSlot.startMu` says, does not hold (`OneProcessPerKey`, section 9).

Some actions of AcpTurns join steps that take separate locks. `CancelActs` is what
Executor.Cancel does once it has found the turn: stopWaiting, resume, cancelTurn and its
last yield (`executor.go:410-417`). `ShutdownWaits` is the look at turns and waiting
tasks with the calls on them (`agent.go:270-279`). So a step of another goroutine
between them is not covered. `Decide` looks at the task the request was given when it
began (`asked`), as `execCtx.StoredTask` is, and not at the store.

## 8. TaskList, PullReader, WorkQueues

Three parts a deployment may put around the core.

* TaskList is `InMemory.List`: a client pages through the tasks of a user while tasks
  are created and updated and the order they are listed in changes. `PagesComplete`:
  no task twice, none missing that nobody wrote, none of another user.
* PullReader is the polling event queue: `poll` with its cursor and batches, the
  unbuffered channel to `Read`, timeouts, the callback on inactivity and `Close`. The
  puller is external: its pulls fail, are answered in parts, and need not heed their
  context. `InOrder`: each event once and in order until the final one. `CloseGetsOn`:
  Close never waits for a poller that waits for somebody else.
* WorkQueues is the pull queue's polling loop with its semaphore, callbacks and drain,
  and the push queue's handler, on servers that crash and start again, over an external
  broker that redelivers. `WorkKept`: places are exact on all ways out of the loop, and a
  message leaves the broker only when a run of it ended with a result or it is malformed
(a result that is a task is stored by then, a direct reply of the agent stores nothing). The
  in-memory queue is part of DistributedManager.

They share no state with each other. MCDeployment extends WorkQueues and instantiates
the other two, and a behaviour of it is a behaviour of one.

## 9. Runs

| Run | Instance | Shows |
|---|---|---|
| `update_races` | a starting execution, a follow-up, a cancelation, 3 versions, 2 attempts | the TaskUpdate properties in a cluster with full snapshots |
| `local_calls` | one writer and one or two readers, or two writers and a reader; one-slot buffers, up to 4 writes, 1 Destroy. Next to it two executions and a cancelation with an inactivity timeout | the EventQueue properties, Broadcast implemented; `EverythingEnds` of LocalManager |
| `queue_stalled` | one writer, two readers that may stop reading | **violation**: `DestroyReturns` |
| `manager_safety` | an execution, a follow-up and a resubscription, with an inactivity timeout; with one cancelation and with two, one abandoned; three executions of two tasks and two scopes under both limits, with everything failing that can | the safety properties of LocalManager |
| `manager_lateresub` | an execution, a resubscription | **violation**: `ResubscriptionsEnd` |
| `cluster_calls` | an execution, a cancelation that may be refused, a resubscription that may leave; partial snapshots, push notifications, all failures | leases, places and what subscribers and Cancel are told |
| `cluster_fastworker` | one execution that asks for input | **violation**: `ExecuteSeesItsResult` |
| `calls` | every method over all six bindings with a full request; special requests, servers, failures, panics and streams | the Calls properties |
| `acp_turns` | six workloads of one or two tasks of a context: follow-ups, restarts, cancel, abandonment, busy contexts, shutdown, exits | the AcpTurns properties |
| `acp_pool` | two users of one key, two keys for one place, Close | the AcpPool properties |
| `acp_restart` | the same | **violation**: `OneProcessPerKey` |
| `deployment` | three tasks in pages of one and two; four events of a puller; a polling and a pushed server, a good and a malformed message | the properties of section 8 |

The four violations are disagreements between the code and what it says of
itself; `PROJECT.json` quotes the lines.

* `createReadWriter` waits for the broker while it holds the manager's mutex. If the
  broker is blocked on the full queue of a reader that has stopped reading, the
  `Destroy` that would release it waits for the mutex, and so does every other
  task.
* Cleanup destroys the task's queue before it removes the execution. A `Resubscribe`
  in between finds the execution, creates a new broker and waits on a queue that
  nobody destroys; the promise it would fall back to is never looked at.
* In a cluster the subscription of `Execute` starts with a snapshot and skips events
  that are not newer. If a fast worker has stored and broadcast *input-required*
  before the snapshot is loaded, the snapshot does not end the subscription and the
  event that would is skipped: a blocking `SendMessage` waits until its context
  ends. `Cancel` had the same problem and compares with an earlier version.
* `stopAgent`, called when an agent ignores a cancelation, takes the agent out of its slot
  and waits in `Close` for the process, holding `startMu` (`agent.go:412-423`). `Close`
  fails the connection first, so the turn ends and releases the slot at once; it has no
  references and no agent, and is dropped with the lock that is held (`agent.go:182-184`).
  The next message of the key gets a new slot, and starts a second process while the first
  still exists: a sandbox with a fixed name would be entered twice.

Other differences between code and comments, or weak places, met while modelling. No
run shows them; the models follow the code.

* Tasks. `updateStatus` retries a conflict only for *canceled*, while
  `AgentExecutor.Cancel` promises it for a *failed* status (`agentexec.go:119`). A
  cancelation of a running execution ends with an error of its own if its setup or the
  agent's `Cancel` fails, whatever the execution ends with (`local_manager.go:48`,
  `:393`). A push config that cannot be saved fails the execution after the message went
  into the history (`agentexec.go:180`). Events still in the pipe are dropped when the
  producer fails (`eventpipe/local.go:112`).
* Store. A page token that names a task id with an underscore is refused
  (`inmemory.go:325`); ids the server makes contain none. `PagesComplete` is about lists
  a client could follow to their end.
* Queues. Two writers of one task receive each other's broadcasts, never read them, and
  block each other once their buffers are full, so `CallsReturn` of EventQueue is about
  one writer. `pullReader.Read` is documented to return a snapshot first
  (`pull_event_queue_impl.go:212`, `:104`) and returns the first event; a `Puller` that
  returns neither response nor error makes the poller panic.
* Cluster. `Cancel` returns on a work queue error without closing its reader
  (`distributed_manager.go:189`), and one that finds the lease taken listens to a
  cancelation that may already have spoken (`:190`). A failure handled by `ProcessError`
  is stored and not broadcast (`work_queue_handler.go:142`), which is why
  `TerminalReachesEveryone` is about ends that were broadcast. A message redelivered for
  a terminal task fails in the setup (`agentexec.go:238`) and is returned each time.
* ACP. Concurrent starts can exceed `MaxAgents` (`executor.go:137`). Close and Shutdown
  look at the slots once (`agent.go:143`). A question may be queued that nobody reads any
  more (`internal/acp/client.go:27`). Shutdown waits for paused turns (`agent.go:254`). A
  reply that cannot be parsed leaves the question pending (`executor.go:429`).
* Transports. The version 0.3 JSON-RPC writer keeps selecting after a panic
  (`jsonrpc_server.go:195`). A REST result that cannot be encoded is noticed after the
  headers (`rest.go:245`), an error with such details in a stream (`rest.go:337`) as
  well. An error that wraps two protocol errors gets the code of either
  (`jsonrpc.go:185`). A gRPC stream is left open when its caller stops reading
  (`a2agrpc/v1/client.go:165`). The REST client does not take `application/problem+json`
  for JSON (`internal/rest/rest.go:298`), so it reads only the status of version 0.3
  errors. OAuth flows held by value and by pointer marshal differently
  (`a2a/auth.go:328`). A version 0.3 request with a push config and no message
  dereferences nil (`conversions.go:651`).

**Bounds.** `MaxVersion` = 3 is the smallest at which two workers write after
a third has read (create, conflict, conflict after the reload); agents stop
emitting there, the manager's own writes do not. `MaxCancelationAttempts` = 2 (10
in the code) has a first, a repeated and an exhausted attempt. One-slot buffers
(32 in the code) make a queue full after one event; two to four writes fill one,
block on it and let another writer in, and one Destroy meets queues that outlive their
broker and lets a new one start. In LocalManager an execution yields one or two
events, enough for a non-final event before a final one, and an agent that
yields nothing or fails is always included; a cancelation yields at most one
intermediate status. The calls are as many as the property relates: two for overlap,
three for quota. A crowd of interchangeable calls adds no new critical section. In the
cluster `MaxVersion` = 2 and one attempt leave room for a create, a conflict and the
override it leads to; deeper races on the store are the subject of `update_races` and
of the proofs. `MaxExecutions` = 2 has a place for both workers, so that they overlap: no
run meets a full semaphore, and a call that has a lease but finds no place is covered by
the theorems only (`LeasesCorrect`, `PermitsCorrect`), which hold for any number of places.
In Calls a stream has up to two events, so that one is on its way while the next is
offered; a maximal int32 of 7 and a coarse clock have all their edges in reach; the
settings are one full request per method and binding and then one deviation at a time.
AcpTurns has two turns, one question and two processes: a pause, a restart and a
follow-up each fit. AcpPool has three slots and processes for three acquires. In
TaskList three tasks in pages of one leave a task before, at and behind the cursor, and
three points of time make ties. PullReader's four events allow a batch in two parts
with a nil event and a final one. WorkQueues has one fault, enough for a crash after the
result was stored and before the message is completed. TLC's deadlock check stays on
for TaskUpdate, whose finished workers stutter by an explicit action; in the other
modules all calls may be over.

**Fairness.** TaskUpdate, DistributedManager and the parts of `deployment` have none. In
EventQueue `CallStep` is fair when there is one writer: a goroutine inside a call that
can proceed does, which is what the Go scheduler gives. `Progress` adds that subscribers
go on reading until they close, as `localSubscription.Events` does with a client that
consumes; `StallingSpec` leaves that out. In LocalManager `Progress` is fair: the
manager's goroutines run, the inactivity timer fires if it is configured, an agent
whose context is done returns and the agent's `Cancel` returns. The last two are the
contract of `AgentExecutor`. `local_calls` has the fairness of the part that moves. In
AcpTurns `Progress` is the executor's goroutines and its
timers, but no step of an agent process and no call of a user: an agent may be silent
for ever. In AcpPool it is the executor's goroutines, its timers and the end of a
process that was told to stop (it is killed in the end). In Calls the client, the
handler (an execution ends) and the writer are fair each for itself. No call, event, failure or departure of a
client is ever assumed. One weak fairness condition over a disjunction is enough
where every step uses up a bounded resource: some goroutine that can run always
running means that each gets there. In a cluster work may be lost with its server
and a remote subscription has no promise to fall back to, so "nobody is left
waiting" is stated as an invariant about what is in the queues instead; in PullReader
"Close returns" is stated as the absence of a deadlock, because a pull may take as long
as it likes.

**Mutants.** Each property of a passing run has a mutated definition next to the
original, marked `Mutant:`, that differs as a plausible bug would (a dropped
version check, a field not taken over by a reload, a mutex or lease not released,
an off-by-one in a comparison of versions). TLC finds the property violated when
the mutant takes the original's place, so no property holds vacuously.

## 10. Proofs

Eight modules `*_proofs` prove the safety properties of the module they extend, by an
inductive invariant that joins what the property says with what the code keeps in
order for it to hold. Each invariant was checked by TLC on the instances of section 9
before it was proved. The assumptions are those named in the modules and nothing else:
distinct names for distinct things, limits that are numbers, well-typed events and
settings. TLC evaluates them in every run. The theorems of TaskUpdate are in
DistributedManager_proofs, which needs them for the cluster; those of WorkQueues, TaskList
and PullReader are in Deployment_proofs.

| Theorem | Property | Module |
|---|---|---|
| `Agreement`, `TerminalTasksImmutable`, `Serialization` | `OutcomesAgree`, `TerminalImmutable`, `UpdatesSerialize` | TaskUpdate |
| `CancelGivesUp`, `FinalResults` | `ExhaustedCancelGivesUp`, `ResultsAreFinal` | TaskUpdate |
| `NoPanic`, `Truncation` | `NoChannelPanic`, `OnlyDestroyTruncates` | EventQueue |
| `Refinement` | `KeepsPromise` (Broadcast is implemented) | EventQueue |
| `Books`, `FollowUps`, `Told` | `BooksExact`, `FastFollowUpWaits`, `ToldIsStored` | LocalManager |
| `CatchesUp`, `MovesForward` | `SubscribersCaughtUp`, `SubscribersMoveForward` | LocalManager |
| `Finality` | `TasksEndForGood`, stated with the proof | LocalManager |
| `ClusterImplementsTaskUpdate`, `ClusterUpdatesSerialize`, `ClusterOutcomesAgree` | the cluster implements TaskUpdate, and what follows | DistributedManager |
| `LeasesCorrect`, `PermitsCorrect` | `LeasesExact`, `PermitsExact` | DistributedManager |
| `SubscribersAreTold`, `AnswersCorrect`, `CancelsSeeTheirResult`, `NobodyIsLeftWaiting` | `ToldIsStored`, `CancelAnswersAreStored`, `CancelSeesItsResult`, `TerminalReachesEveryone` | DistributedManager |
| `WorkIsKept` | `WorkKept` | WorkQueues |
| `PoolBooks`, `InUseKept` | `PoolExact`, `InUseIsNotIdle` | AcpPool |
| `TurnBooks`, `AnsweredAtMostOnce`, `EndsReported` | `TurnsExact`, `AnsweredOnce`, `EndReported` | AcpTurns |
| `AnswerWins` | `AnswerBeatsExit` | AcpTurns |
| `ListsAreComplete` | `PagesComplete` | TaskList, in MCDeployment |
| `ReadsInOrder` | `InOrder` | PullReader, in MCDeployment |
| `CallControl` | `Inv`, stated with the proof | Calls |
| `HandlerSeesRequestTheorem`, `ErrorsSurviveTheorem`, `StreamFaithfulTheorem` | `HandlerSeesRequest`, `ErrorsSurvive`, `StreamFaithful` | Calls |
| `ResultCarriedTheorem` | `ResultCarried` for every method but the one that returns a card | Calls |

**TaskUpdate**, for any sets of workers, messages, artifacts and events, in a cluster or
not, with either kind of snapshot. `Update` compares only versions, so a write is safe
only if what the worker materialized belongs to the version it presents. Nothing in the
store checks that: it is an invariant of the managers. `IndInv` therefore joins

* `VersionChain`: versions count the tasks stored so far, the current task is the
  last, and only the last can be terminal;
* `ViewsAreVersions`: what a manager tracks was stored under its version;
* `ControlOK`: program points that use a tracked task have one, and
  attempts are left when the loop applies an event;
* `ResultsWereStored` and the types.

`AcceptedIsCurrent` is the key lemma: if `Update` accepts, the worker's copy is the
stored task. Hence it was not terminal (`ApplyUpdate` refuses those), the chain
grows by one, and views of other workers stay in the chain because it is never
rewritten (`UpdateExtendsChain`, `OtherWorkersOK`). One step per action follows
(`StepIndInv`), grouped by what an action does to the store: nothing, a create, or
an update. Two more invariants rest on this one. `GivesUp`: a worker without attempts is
about to resolve its last conflict, or done, or lost to a task that is terminal by now,
which refuses the write. `FinalOK`: the state a manager tracks ends an execution
wherever the next thing to do is to load the result.

**EventQueue**, for any number of queues, any buffer size and any number of calls. A
broadcast is under way only while the broker is sending, and the queues it still has to
reach are registered (`BrokerOK`); a registered queue has its channels open, and nothing
was addressed to a queue before it was registered (`ChannelsOK`). That excludes the
panics. For the refinement `DeliveryOK` ties the broker to the log: what a queue was
addressed and has not been sent is the broadcast under way and nothing else, unless it
was closed or destroyed. The promise's variables are functions of the state, so each
step is shown to be a step of Broadcast or a stutter.

**LocalManager**, for any number of tasks and calls of Execute, Cancel and Resubscribe
and in every setting. `RegOK` says that the two maps hold exactly the calls between
their registration and their cleanup, which makes counting the registered executions
(`QuotaExact`) and one pipeline per task provable. What is told is put together in
several steps by several goroutines, so `ExecOK`, `StoredOK`, `CancelOK` and `SubOK` say
at each program point how the event in the pipe, the consumer's result, the promise and
the queues of subscribers relate to the store. `ExitOK` is about the flag `exiting`: it
is set before the last event leaves the consumer.
The versions a subscriber sees have an invariant of their own on top, `StreamsOK`: a
queue is in the order of the versions and holds none newer than the store (`OrderOK`);
what is about to be broadcast is ahead of everything in it and of everything yielded but
a snapshot (`AheadOK`); a subscriber stays connected until the execution it was made for
destroys the queues (`JoinedOK`); and so the last complete announcement was yielded or is
in the queue (`CaughtUp`).

**DistributedManager**, for any number of calls, workers and places and with or without
failures. The variables of TaskUpdate are those of the cluster, so the refinement
mapping is the identity: the frontend leaves them alone (`FrontendLeavesTask`), a
handler takes a step of its worker or leaves them alone (`BackendWorks`). Leases need
`NotStarted` (a handler runs only after its call got through the work queue), places
need that the set of occupied ones is finite. `ToldIsStored` is not inductive because a
message is put together in several steps before it is sent: `PublishOK` says at each
program point how the event at hand, the manager's task and the result hang together,
so that what `Emitted` combines was stored under one version (`EmittedStored`); a queue
then only moves such messages (`SubChanges`) and versions are never rewritten
(`StillStored`). A canceled task that ended a subscription was stored, is terminal,
hence the last of the chain, hence what the store still holds: that is
`CancelAnswersAreStored`. For `TerminalReachesEveryone`, `StreamsOK` adds that nobody
compares with a version that includes the end of the task (`BeforeEnd`: snapshots and
the version of `Cancel` are taken while the task is active) and that a broadcast end is
in the queue of all who read. The end carries the last version (`EndIsLast`), so it is
not skipped. `CancelSeesItsResult` needs the same for one call and its own worker: the
version the call compares with is older than everything its worker announces
(`NewerThan`), its reader exists before the worker does, and a final answer that was
announced is still ahead in its queue (`AnswerAhead`).

**WorkQueues**, for any servers, messages and limits and any number of crashes, failed
reads, expiries and late answers. A goroutine that handles a message has one, what its
handler answered is true of that message as long as the goroutine has to act on it
(`JobsOK`), a message that left the broker has a result or is malformed
(`LeftOK`), and permits count goroutines and a pending read (`PlacesOK`).

**AcpPool**, for every set of users and keys, every setting and every number of slots
and processes. The pool decides under one mutex and acts under another: `refs` and the
map are guarded by `Executor.mu`, starting and stopping a process by the `startMu` of
its slot, and no goroutine holds both while it waits. `UserOK`, `StopperOK`, `IdlerOK` and
`CloserOK` say for each goroutine at each of its program points which slot's `startMu` it
holds and in which state it left slot and process; `SlotOK`, `ProcOK` and `MapOK` that a
process in service is the agent of the slot in the map; `RefsOK` that references count
users. A step of one goroutine leaves the slots whose `startMu` others hold as they were
(`Respects`, `Turns`), so it is enough to look at its own slot, with one lemma per
action. A slot without references has no user (`UnusedSlot`), which is why stopping it
stops nobody. A second invariant, `ClosingInv`, rests on that one. It says who closes a
process and until when: the agent of a slot stays there while its user, a timer, an
eviction or Close ends it, so a new one waits for the lock; only stopAgent takes it out
first. That is what makes stopAgent the one exception in `OneAgentPerKey`.

**AcpTurns**, for every set of tasks, contexts and settings and every number of turns,
questions, processes and calls. The invariant has three parts, each for one hazard.

* `LockInv`: a task is in `waiting` exactly while its Execute locks or starts, a start
  holds the lock of its context and a registered turn holds it for its task (`ExecOK`,
  `TurnOK`). With one holder per context this is one turn per context. `SessionsOK`
  counts the calls of session/new, so that session ids stay in their range.
* `QuestionInv`: a question that is not answered yet is in one place only: with the
  reader that is about to queue it, in the queue of its turn, in the hands of Execute,
  or pending. Whoever answers takes it from its place in the same step, and cancelTurn
  answers what is in the queue and pending, so nobody can answer twice. One general
  lemma (`Release`) has this for any step that answers the questions `S` and leaves
  none of them anywhere (`TurnsLess`, `HandsLess`, `ReadersLess`); each action is shown
  to be such a step, but those that ask, queue, take or pend a question, which move
  one to the next place.
* `ReportInv`: a task that waits for an answer has a turn that is paused and not over,
  about to be reported or in `abandoned` (`WillReport`). It also says that an Execute
  that is about to pause has such a turn, because `end` may come between setPending and
  the return of Execute: EndTurn sees `paused` and leaves the report to Abandon.

What remains is that a step of one task leaves the others alone (`Rests`, `StepKeeps`):
there is one lemma per action that says what it does to turns and questions (`Does…`)
and one that it keeps the invariant (`Keeps…`). AcpTurns writes the queue without its
questions as a sequence of the kept positions (`removeIf`) and not with SelectSeq, whose
recursion could not be reasoned about; `Removed` is the lemma about it.

**TaskList**, for every finite set of ids, any owners, filters, page sizes and writes
between two pages. The model says what `slices.SortFunc` returns, a list of the tasks in
which each is before the next ones, and not how it sorts. That there is such a list
needs no induction: the rank of a task, the number of tasks before it, is a map into the
places that keeps tasks apart, and so reaches every place (`RankDecides`, `OrderExists`).
In such a list the tasks behind a token are one stretch, the one `sort.Search` finds
(`RestIsDue`). The invariant `TokenOK` says that what is listed stays before the token
and what matches, is not behind it and was not written is listed. A write keeps it
because it puts a task at the current time and no token is of the future, also when
the clock stands still (`PutKeeps`); a page, because its token names its last task
(`PageKeeps`). `ListAssumption` is that ids are ordered, as the strings they stand for,
and that Nil is neither a token nor a task.

**PullReader**, for a log of any length and pulls that return any part of it. What poll
has handled is the cursor less what is left of the batch; the subscriber has exactly the
events up to there (`ReceivedOK`), none of them final but the last (`FinalOK`), and poll
ends only behind a final event or because of Close, which whoever reads has not called
(`EndOK`).

**Calls**, for every request, result, error and sequence of events of the shapes of
Values, over all six bindings. The proof has two layers.

* Calls_proofs is about the control. `Inv` says at each point of a call what is where:
  which goroutine of the server acts (`Phase`), what is offered on the channel between
  them (`Offer`), what a broken connection leaves (`Connection`), and that what is on the
  wire are the first events produced, encoded (`OnTheWire`), what the client got these,
  decoded (`GotDecoded`), and an end is sent only after all of them (`Complete`); the
  answer of a call is explained by what was sent (`Unary`, `WireBound`, `Answered`). It
  is proved with one lemma per action and uses nothing of the conversions. On top of it,
  `ProducedEvents`, `ProducedResults` and `Accepted` say that handlers produce values of
  the right shape and are called only with requests the server accepts.
* Conversions_proofs is about the data: for each conversion, that what it writes is read
  back as `Carried…` says or refused, first for parts and metadata, then for messages,
  tasks, events, push configurations and requests, and for each binding along the path
  its values take. `EventCrosses`, `RequestCrosses` and `ResultCrosses`
  join the bindings for Calls_proofs, as `ErrorCrosses` there does for errors. Lists are converted element by
  element or refused as a whole, so no induction is needed.

The theorems about data have the hypotheses `NotAFunction(Nil)` and `NotAFunction(Err)`:
what stands for nil and for a failed conversion is not a record. TLC cannot evaluate
that, so it is a hypothesis and no assumption of the module; nil and errors in Go are no
values of the struct types either. Version 0.3 of JSON-RPC has no method ListTasks, so
nothing is claimed of it there (`NoListOverRPC0`).

Only model-checked:

* liveness, and `CloseGetsOn`, which is about ENABLED: beyond this prover;
* of `ClientSeesResult`, the cards of `GetExtendedAgentCard` and `FailuresExplained`. The
  latter lists which values a binding has no form for (`Uncarried`, `UncarriedRequest`),
  and lists only those that occur in the settings of the runs; a complete list would
  repeat the conversions and say nothing about them.

## 11. Plan

Done: the modules of sections 2 to 8, the proofs of section 10. Next, in this order:

1. WorkQueues as another way to start the handlers of DistributedManager, instead of
   next to it, and liveness of its loop and of PullReader's.
2. The push config store and the sender with its retries.
3. Merging of artifact parts in `a2aevent`, against a reference definition.

## 12. Not modelled

* In the modelled parts: panics of agents (one that panics fails like one that returns
  an error), heartbeats (one that fails is a failed run), a pipe that is full (it has
  256 places), the content of messages, parts and artifacts beyond what a
  conversion looks at, the lengths of timeouts and backoffs, errors of the store other
  than a missing task, an existing task and a concurrent modification, task id overrides
  of custom work queues.
* URL routing, headers other than the version, and the bytes of a server-sent event.
* The client's construction: transport selection, card resolution, credentials and its
  interceptors; the server's card endpoint, card cache and context codec (a step that may
  fail in DistributedManager). Sequential code without state shared between calls.
* The adapters between the interfaces of both versions in `migration.go`, builders and
  accessors of package `a2a`.
* What the ACP executor says: translation of updates and questions into parts, hooks and
  command lines.
* The push config store and sender, of which only failure is visible here.
* Card signatures and canonical JSON: functions over strings, out of TLC's reach.
* Generated code, logging, examples and tools.
