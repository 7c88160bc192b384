----------------------------- MODULE EventQueue -----------------------------
(***************************************************************************)
(* The in-memory eventqueue.Manager for ONE task id: the manager's mutex,  *)
(* the broker goroutine and the queues connected to it.  Every queue is    *)
(* used by one goroutine of its own (the manager's contract): a writer     *)
(* that broadcasts, or a reader that consumes.  Channels without a buffer  *)
(* are a rendezvous: both sides move in one step.  The broker serves one   *)
(* request at a time and, while it dispatches a broadcast, blocks on the   *)
(* queue it has picked until that queue's buffer has room or the manager   *)
(* asks it to stop.                                                        *)
(***************************************************************************)
EXTENDS Naturals, Sequences, FiniteSets

CONSTANTS
    Readers,     \* queues made by CreateReader
    Writers,     \* queues made by CreateWriter
    BufferSize,  \* capacity of a queue's eventsChan
    MaxDestroys, \* bound: calls of Destroy
    MaxWrites,   \* the sets of queues a behaviour may use, and the bound on its Writes
    NoQueue      \* no queue: a free mutex, no dispatch target

Queues == Readers \cup Writers
Casts == DOMAIN MaxWrites

ASSUME QueuesAssumption == Readers \cap Writers = {} /\ NoQueue \notin Queues
ASSUME BoundsAssumption ==
    /\ BufferSize \in Nat \ {0} /\ MaxDestroys \in Nat
    /\ Casts \subseteq SUBSET Queues /\ MaxWrites \in [Casts -> Nat]

VARIABLES
    users,      \* the queues this behaviour uses
    mu,         \* who holds the manager's mutex: a queue being created, "destroy", NoQueue
    broker,     \* what the broker goroutine does; "none" if the task has no broker
    pending,    \* queues the current broadcast still has to reach
    target,     \* the queue the broker has picked and is blocked on
    registered, \* broker.registered
    closed,     \* how often a queue's channels have been closed
    buf,        \* the queue's eventsChan: indices into log
    op,         \* what the goroutine using the queue is doing
    current,    \* the broadcast a writer is waiting for (index into log)
    destroyer,  \* the state of a call to Manager.Destroy
    destroys,   \* calls of Destroy so far
    writes,     \* calls of Write so far
    dispatched, \* broadcasts whose dispatched channel is closed
    log,        \* history: the broadcasts the broker accepted, with sender and audience
    got,        \* history: the broadcasts put on each queue's eventsChan, in order
    acked       \* history: the broadcasts for which Write returned nil

vars == <<users, mu, broker, pending, target, registered, closed, buf, op, current,
          destroyer, destroys, writes, dispatched, log, got, acked>>

brokerVars == <<broker, pending, target, registered>>
historyVars == <<log, got, acked>>

Ops == {"new", "locking", "connecting", "ready", "sending", "waiting", "closing", "gone"}

Init ==
    /\ users \in Casts
    /\ mu = NoQueue
    /\ broker = "none" /\ pending = {} /\ target = NoQueue /\ registered = {}
    /\ closed = [q \in Queues |-> 0]
    /\ buf = [q \in Queues |-> <<>>]
    /\ op = [q \in Queues |-> "new"]
    /\ current = [q \in Queues |-> 0]
    /\ destroyer = "idle" /\ destroys = 0 /\ writes = 0
    /\ dispatched = {}
    /\ log = <<>>
    /\ got = [q \in Queues |-> <<>>]
    /\ acked = {}

Goes(q, to) == op' = [op EXCEPT ![q] = to]

\* inMemoryQueue.destroy closes both channels of the queue.
CloseChannels(q) == closed' = [closed EXCEPT ![q] = @ + 1]

-----------------------------------------------------------------------------
(***************************************************************************)
(* Manager.CreateReader and CreateWriter.                                  *)
(***************************************************************************)
CallCreate(q) ==
    /\ q \in users /\ op[q] = "new"
    /\ Goes(q, "locking")
    /\ UNCHANGED <<users, mu, brokerVars, closed, buf, current, destroyer, destroys, writes,
                   dispatched, historyVars>>

\* With the mutex: start a broker for the task if there is none.
LockCreate(q) ==
    /\ op[q] = "locking" /\ mu = NoQueue
    /\ mu' = q
    /\ broker' = IF broker = "none" THEN "idle" ELSE broker
    /\ Goes(q, "connecting")
    /\ UNCHANGED <<users, pending, target, registered, closed, buf, current, destroyer, destroys,
                   writes, dispatched, historyVars>>

\* Mutant: the queue is put on the broker's list while a broadcast is running.
RegisterDuringBroadcast(q) ==
    /\ op[q] = "connecting" /\ broker \in {"idle", "sending"}
    /\ registered' = registered \cup {q}
    /\ Goes(q, "ready")
    /\ mu' = NoQueue
    /\ UNCHANGED <<users, broker, pending, target, closed, buf, current, destroyer, destroys,
                   writes, dispatched, historyVars>>

\* connect hands the queue to the broker, the manager unlocks.
Register(q) ==
    /\ op[q] = "connecting" /\ broker = "idle"
    /\ registered' = registered \cup {q}
    /\ Goes(q, "ready")
    /\ mu' = NoQueue
    /\ UNCHANGED <<users, broker, pending, target, closed, buf, current, destroyer, destroys,
                   writes, dispatched, historyVars>>

-----------------------------------------------------------------------------
(***************************************************************************)
(* inMemoryQueue.Write and the broker's dispatch loop.                     *)
(***************************************************************************)
BeginWrite(q) ==
    /\ q \in Writers /\ op[q] = "ready" /\ writes < MaxWrites[users]
    /\ closed[q] = 0
    /\ writes' = writes + 1
    /\ Goes(q, "sending")
    /\ UNCHANGED <<users, mu, brokerVars, closed, buf, current, destroyer, destroys,
                   dispatched, historyVars>>

\* The broker takes the broadcast; its sender is not in its audience.
AcceptBroadcast(q) ==
    /\ op[q] = "sending" /\ broker = "idle" /\ q \in registered
    /\ broker' = "sending"
    /\ pending' = registered \ {q}
    /\ log' = Append(log, [sender |-> q, audience |-> registered \ {q}])
    /\ current' = [current EXCEPT ![q] = Len(log) + 1]
    /\ Goes(q, "waiting")
    /\ UNCHANGED <<users, mu, target, registered, closed, buf, destroyer, destroys, writes,
                   dispatched, got, acked>>

\* The loop over the registered queues picks the next one in any order.
PickTarget ==
    /\ broker = "sending" /\ target = NoQueue
    /\ \E q \in pending : target' = q /\ pending' = pending \ {q}
    /\ UNCHANGED <<users, mu, broker, registered, closed, buf, op, current, destroyer, destroys,
                   writes, dispatched, historyVars>>

\* Blocked until the picked queue has room: no other queue is served meanwhile.
Deliver ==
    /\ broker = "sending" /\ target # NoQueue
    /\ Len(buf[target]) < BufferSize
    /\ buf' = [buf EXCEPT ![target] = Append(@, Len(log))]
    /\ got' = [got EXCEPT ![target] = Append(@, Len(log))]
    /\ target' = NoQueue
    /\ UNCHANGED <<users, mu, broker, pending, registered, closed, op, current, destroyer, destroys,
                   writes, dispatched, log, acked>>

\* Mutant: the loop over the queues is left after any of them.
FinishEarly ==
    /\ broker = "sending" /\ target = NoQueue
    /\ dispatched' = dispatched \cup {Len(log)}
    /\ broker' = "idle" /\ pending' = {}
    /\ UNCHANGED <<users, mu, target, registered, closed, buf, op, current, destroyer,
                   destroys, writes, historyVars>>

FinishBroadcast ==
    /\ broker = "sending" /\ target = NoQueue /\ pending = {}
    /\ dispatched' = dispatched \cup {Len(log)}
    /\ broker' = "idle"
    /\ UNCHANGED <<users, mu, pending, target, registered, closed, buf, op, current, destroyer,
                   destroys, writes, historyVars>>

WriteOK(q) ==
    /\ op[q] = "waiting" /\ current[q] \in dispatched
    /\ acked' = acked \cup {current[q]}
    /\ Goes(q, "ready")
    /\ UNCHANGED <<users, mu, brokerVars, closed, buf, current, destroyer, destroys, writes,
                   dispatched, log, got>>

\* ErrQueueClosed: the broker was destroyed under the writer.
WriteClosed(q) ==
    /\ op[q] \in {"sending", "waiting"} /\ closed[q] > 0
    /\ Goes(q, "ready")
    /\ UNCHANGED <<users, mu, brokerVars, closed, buf, current, destroyer, destroys, writes,
                   dispatched, historyVars>>

\* The writer's context ends first; the broadcast may still be delivered.
WriteCanceled(q) ==
    /\ op[q] \in {"sending", "waiting"}
    /\ Goes(q, "ready")
    /\ UNCHANGED <<users, mu, brokerVars, closed, buf, current, destroyer, destroys, writes,
                   dispatched, historyVars>>

-----------------------------------------------------------------------------
(***************************************************************************)
(* inMemoryQueue.Read and Close.                                           *)
(***************************************************************************)
Read(q) ==
    /\ q \in Readers /\ op[q] = "ready" /\ buf[q] # <<>>
    /\ buf' = [buf EXCEPT ![q] = Tail(@)]
    /\ UNCHANGED <<users, mu, brokerVars, closed, op, current, destroyer, destroys, writes,
                   dispatched, historyVars>>

\* A user may close its queue at any time; a reader does so on ErrQueueClosed.
BeginClose(q) ==
    /\ op[q] = "ready"
    /\ Goes(q, "closing")
    /\ UNCHANGED <<users, mu, brokerVars, closed, buf, current, destroyer, destroys, writes,
                   dispatched, historyVars>>

\* Mutant: Close only offers the queue to the broker.
CloseWithoutDraining(q) == FALSE

\* Close drains the queue, so that a broker blocked on it can go on ...
CloseDrains(q) ==
    /\ op[q] = "closing" /\ buf[q] # <<>>
    /\ buf' = [buf EXCEPT ![q] = Tail(@)]
    /\ UNCHANGED <<users, mu, brokerVars, closed, op, current, destroyer, destroys, writes,
                   dispatched, historyVars>>

\* ... until it finds the channel closed ...
CloseFindsClosed(q) ==
    /\ op[q] = "closing" /\ buf[q] = <<>> /\ closed[q] > 0
    /\ Goes(q, "gone")
    /\ UNCHANGED <<users, mu, brokerVars, closed, buf, current, destroyer, destroys, writes,
                   dispatched, historyVars>>

\* Mutant: the queue stays registered after its channels are closed.
UnregisterKeepsQueue(q) ==
    /\ op[q] = "closing" /\ broker = "idle" /\ q \in registered
    /\ CloseChannels(q)
    /\ Goes(q, "gone")
    /\ UNCHANGED <<users, mu, broker, registered, pending, target, buf, current, destroyer, destroys,
                   writes, dispatched, historyVars>>

\* ... or the broker takes it off the list and closes its channels.
Unregister(q) ==
    /\ op[q] = "closing" /\ broker = "idle" /\ q \in registered
    /\ registered' = registered \ {q}
    /\ CloseChannels(q)
    /\ Goes(q, "gone")
    /\ UNCHANGED <<users, mu, broker, pending, target, buf, current, destroyer, destroys, writes,
                   dispatched, historyVars>>

-----------------------------------------------------------------------------
(***************************************************************************)
(* Manager.Destroy.                                                        *)
(***************************************************************************)
CallDestroy ==
    /\ destroyer = "idle" /\ destroys < MaxDestroys
    /\ destroyer' = "locking"
    /\ destroys' = destroys + 1
    /\ UNCHANGED <<users, mu, brokerVars, closed, buf, op, current, writes, dispatched, historyVars>>

LockDestroy ==
    /\ destroyer = "locking" /\ mu = NoQueue
    /\ IF broker = "none" THEN destroyer' = "idle" /\ UNCHANGED mu
       ELSE destroyer' = "signaling" /\ mu' = "destroy"
    /\ UNCHANGED <<users, brokerVars, closed, buf, op, current, destroys, writes, dispatched,
                   historyVars>>

\* The broker takes the signal when idle or while blocked on a queue.
DestroySignal ==
    /\ destroyer = "signaling"
    /\ broker = "idle" \/ (broker = "sending" /\ target # NoQueue)
    /\ broker' = "stopping"
    /\ pending' = {} /\ target' = NoQueue
    /\ destroyer' = "waiting"
    /\ UNCHANGED <<users, mu, registered, closed, buf, op, current, destroys, writes, dispatched,
                   historyVars>>

\* The broker's deferred function closes every registered queue ...
StopQueue ==
    /\ broker = "stopping"
    /\ \E q \in registered : CloseChannels(q) /\ registered' = registered \ {q}
    /\ UNCHANGED <<users, mu, broker, pending, target, buf, op, current, destroyer, destroys, writes,
                   dispatched, historyVars>>

\* ... then Destroy returns and the task has no broker any more.
StopDone ==
    /\ broker = "stopping" /\ registered = {}
    /\ broker' = "none"
    /\ destroyer' = "idle"
    /\ mu' = NoQueue
    /\ UNCHANGED <<users, pending, target, registered, closed, buf, op, current, destroys, writes,
                   dispatched, historyVars>>

-----------------------------------------------------------------------------
Broker == PickTarget \/ Deliver \/ FinishBroadcast \/ StopQueue \/ StopDone

Create(q) == CallCreate(q) \/ LockCreate(q) \/ Register(q)

Write(q) == BeginWrite(q) \/ AcceptBroadcast(q) \/ WriteOK(q) \/ WriteClosed(q)
                \/ WriteCanceled(q)

Close(q) == BeginClose(q) \/ CloseDrains(q) \/ CloseFindsClosed(q) \/ Unregister(q)

Destroy == CallDestroy \/ LockDestroy \/ DestroySignal

Next ==
    \/ Broker
    \/ Destroy
    \/ \E q \in Queues : Create(q) \/ Write(q) \/ Read(q) \/ Close(q)

Spec == Init /\ [][Next]_vars

\* A local execution makes the only writer of its task.  With two writers no
\* call need return: nobody reads a writer's own queue, and the broker blocks
\* on the one that is full.
OneWriter == Cardinality(users \cap Writers) = 1

\* The steps of goroutines that are inside a call: the broker, a caller that
\* can take the mutex or meet the broker, a writer whose answer is there, a
\* Close.  Nothing obliges a user to write, to close or to cancel.
CallStep ==
    \/ Broker \/ LockDestroy \/ DestroySignal
    \/ \E q \in users  : \/ LockCreate(q) \/ Register(q)
                         \/ AcceptBroadcast(q) \/ WriteOK(q) \/ WriteClosed(q)
                         \/ CloseDrains(q) \/ CloseFindsClosed(q) \/ Unregister(q)

\* Subscribers consume their queue until they close it.  The calls are bounded
\* and no step undoes another, so it is enough that some goroutine that can
\* run does run.  (What is said of fair behaviours is said of OneWriter ones.)
Progress == OneWriter /\ (CallStep \/ \E q \in Readers : Read(q))
FairSpec == Spec /\ WF_vars(Progress)

\* Subscribers may stall: a client that stops reading its stream.
StallingSpec == Spec /\ WF_vars(OneWriter /\ CallStep)

-----------------------------------------------------------------------------
(***************************************************************************)
(* Properties.                                                             *)
(***************************************************************************)
\* The variables have the types of the code's fields and buffers are bounded.
TypeOK ==
    /\ users \in Casts
    /\ mu \in Queues \cup {"destroy", NoQueue}
    /\ broker \in {"none", "idle", "sending", "stopping"}
    /\ pending \subseteq Queues /\ registered \subseteq Queues
    /\ target \in Queues \cup {NoQueue}
    /\ closed \in [Queues -> Nat]
    /\ buf \in [Queues -> Seq(1..Len(log))]
    /\ \A q \in Queues : Len(buf[q]) <= BufferSize
    /\ op \in [Queues -> Ops]
    /\ current \in [Queues -> 0..Len(log)]
    /\ destroyer \in {"idle", "locking", "signaling", "waiting"}
    /\ destroys \in 0..MaxDestroys /\ writes \in 0..MaxWrites[users]
    /\ dispatched \subseteq 1..Len(log) /\ acked \subseteq 1..Len(log)
    /\ log \in Seq([sender : Queues, audience : SUBSET Queues])
    /\ got \in [Queues -> Seq(1..Len(log))]

\* A send on a closed Go channel and a second close of one both panic, in the
\* broker goroutine, which nothing recovers: neither can happen, whichever way
\* Close, Destroy and a running broadcast race.
NoChannelPanic ==
    /\ TypeOK
    /\ \A q \in Queues : /\ closed[q] <= 1
                         /\ q \in registered \cup pending \cup {target} => closed[q] = 0

\* While the broker is alive a broadcast that was taken reaches its whole
\* audience before the next is taken: only Destroy may cut one short.
OnlyDestroyTruncates ==
    \A k \in 1..Len(log) : \A q \in log[k].audience :
        \/ \E i \in 1..Len(got[q]) : got[q][i] = k
        \/ k = Len(log) /\ broker = "sending" /\ q \in pending \cup {target}
        \/ destroys > 0

\* The promise of Broadcast.tla is kept: the mutex, the broker's select loops,
\* the full buffers, Close and Destroy show only as joining, leaving, taking,
\* receiving and acknowledging.  In particular a queue receives the broadcasts
\* in order and without a gap, and Write returns nil only when the message was
\* put to all the open queues of the task (NewInMemoryManager).
BroadcastPromise == INSTANCE Broadcast WITH members <- registered
KeepsPromise == BroadcastPromise!Spec

\* Destroy is responsive (it holds the manager's mutex): every call returns.
\* (The calls of a behaviour are bounded: one that blocked forever would leave
\* no later moment without a call inside.)
DestroyReturns == []<>(OneWriter => destroyer = "idle")

\* Every Write, CreateReader, CreateWriter, Close and Destroy returns, although
\* the broker blocks on each full queue in turn: there is always a later moment
\* at which nobody is inside a call.
Inside(q) == op[q] \in {"locking", "connecting", "sending", "waiting", "closing"}
CallsReturn == []<>(OneWriter => destroyer = "idle" /\ \A q \in Queues : ~Inside(q))
=============================================================================
