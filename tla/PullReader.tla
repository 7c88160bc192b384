----------------------------- MODULE PullReader -----------------------------
(***************************************************************************)
(* The reader of a pull-based event queue                                  *)
(* (a2asrv/eventqueue/pull_event_queue_impl.go): a goroutine polls the     *)
(* events of a task from a Puller and hands them one by one, over an       *)
(* unbuffered channel, to the Read calls of one subscriber.                *)
(*                                                                         *)
(* The puller is given by the deployment: a log of events with a cursor,   *)
(* whose Pull may fail, may return any part of what is there, and does not *)
(* have to look at its context.  Managers told to use the in-memory queue  *)
(* are EventQueue.                                                         *)
(***************************************************************************)
EXTENDS Naturals, SequencesExt

CONSTANTS
    MaxLog,      \* bound: the events of the task
    Inactivity   \* InactivityTimeout is not 0

VARIABLES
    log,       \* the puller's events; a "nil" one is not delivered
    poller,    \* where poll is
    cursor,
    batch,     \* the positions of the response that are still to be dispatched
    canceled,  \* the poller's context is done
    reader,    \* where the subscriber is
    received,  \* the positions of the events that Read returned
    result     \* how the last Read ended

vars == <<log, poller, cursor, batch, canceled, reader, received, result>>
pollVars == <<poller, cursor, batch>>

Kinds == {"update", "final", "nil"}
Results == {"none", "event", "closed", "canceled", "timeout", "snapshot"}

TypeOK ==
    /\ log \in Seq(Kinds) /\ Len(log) <= MaxLog /\ cursor \in 0..Len(log)
    /\ poller \in {"none", "pull", "dispatch", "wait", "stopping", "puller closed", "closed"}
    /\ batch \in Seq(1..Len(log)) /\ received \in Seq(1..Len(log)) /\ canceled \in BOOLEAN
    /\ reader \in {"none", "failed", "idle", "reading", "inactive", "closing", "closed"}
    /\ result \in Results

Init ==
    /\ log = <<>> /\ poller = "none" /\ cursor = 0 /\ batch = <<>> /\ canceled = FALSE
    /\ reader = "none" /\ received = <<>> /\ result = "none"

\* The task goes on, also behind a final event: one that asks for input is.
Publish ==
    /\ Len(log) < MaxLog
    /\ \E k \in Kinds : log' = Append(log, k)
    /\ UNCHANGED <<pollVars, canceled, reader, received, result>>

\* The provider may fail or be missing.
CreateReader ==
    /\ reader = "none"
    /\ \/ reader' = "failed" /\ UNCHANGED poller
       \/ reader' = "idle" /\ poller' = "pull"
    /\ UNCHANGED <<log, cursor, batch, canceled, received, result>>

-----------------------------------------------------------------------------
(* poll *)

Goto(label) == poller' = label /\ UNCHANGED <<log, canceled, reader, received, result>>

PullOK(n) ==
    /\ poller = "pull" /\ Goto("dispatch")
    /\ cursor + n <= Len(log)
    /\ cursor' = cursor + n /\ batch' = [k \in 1..n |-> cursor + k]

\* Mutant: what a failed Pull may have fetched is counted as read.
PullFailsAdvancing ==
    /\ poller = "pull"
    /\ Goto(IF canceled THEN "stopping" ELSE "wait")
    /\ cursor' = Len(log) /\ UNCHANGED batch

PullFails ==
    /\ poller = "pull"
    /\ Goto(IF canceled THEN "stopping" ELSE "wait")
    /\ UNCHANGED <<cursor, batch>>

\* dispatchMessages passes over what is no event, and ends with its response.
Skip ==
    /\ poller = "dispatch" /\ batch # <<>> /\ log[Head(batch)] = "nil"
    /\ Goto("dispatch") /\ batch' = Tail(batch) /\ UNCHANGED cursor

Dispatched ==
    /\ poller = "dispatch" /\ batch = <<>> /\ Goto("wait") /\ UNCHANGED <<cursor, batch>>

\* The channel has no buffer: the sender and a Read meet.
Send ==
    /\ poller = "dispatch" /\ batch # <<>> /\ log[Head(batch)] # "nil" /\ reader = "reading"
    /\ poller' = IF log[Head(batch)] = "final" THEN "stopping" ELSE "dispatch"
    /\ batch' = Tail(batch) /\ received' = Append(received, Head(batch))
    /\ reader' = "idle" /\ result' = "event"
    /\ UNCHANGED <<log, cursor, canceled>>

\* Mutant: the send does not look at the context.
StopSendingDeaf ==
    /\ poller = "dispatch" /\ batch = <<>> /\ canceled
    /\ Goto("stopping") /\ UNCHANGED <<cursor, batch>>

StopSending ==
    /\ poller = "dispatch" /\ batch # <<>> /\ log[Head(batch)] # "nil" /\ canceled
    /\ Goto("stopping") /\ UNCHANGED <<cursor, batch>>

\* The ticker and the end of the context; both may be ready.
Tick == poller = "wait" /\ Goto("pull") /\ UNCHANGED <<cursor, batch>>

StopWaiting == poller = "wait" /\ canceled /\ Goto("stopping") /\ UNCHANGED <<cursor, batch>>

\* The deferred calls: Puller.Close, whose error is logged, then the channels.
ClosePuller == poller = "stopping" /\ Goto("puller closed") /\ UNCHANGED <<cursor, batch>>

CloseChannels == poller = "puller closed" /\ Goto("closed") /\ UNCHANGED <<cursor, batch>>

-----------------------------------------------------------------------------
(* The subscriber *)

Returns(r) ==
    /\ reader' = "idle" /\ result' = r
    /\ UNCHANGED <<log, pollVars, canceled, received>>

Read ==
    /\ reader = "idle" /\ reader' = "reading"
    /\ UNCHANGED <<log, pollVars, canceled, received, result>>

ReadClosed == reader = "reading" /\ poller = "closed" /\ Returns("closed")

ReadCanceled == reader = "reading" /\ Returns("canceled")

\* OnInactivity is called, when there is one, outside the select.
ReadTimeout ==
    /\ Inactivity /\ reader = "reading"
    /\ \/ reader' = "inactive" /\ UNCHANGED <<log, pollVars, canceled, received, result>>
       \/ Returns("timeout")

OnInactivity == reader = "inactive" /\ \E r \in {"snapshot", "timeout"} : Returns(r)

Close ==
    /\ reader = "idle" /\ reader' = "closing" /\ canceled' = TRUE
    /\ UNCHANGED <<log, pollVars, received, result>>

CloseReturns ==
    /\ reader = "closing" /\ poller = "closed" /\ reader' = "closed"
    /\ UNCHANGED <<log, pollVars, canceled, received, result>>

Poll ==
    \/ \E n \in 0..MaxLog : PullOK(n)
    \/ PullFails \/ Skip \/ Dispatched \/ Send \/ StopSending
    \/ Tick \/ StopWaiting \/ ClosePuller \/ CloseChannels

Subscribe ==
    Read \/ ReadClosed \/ ReadCanceled \/ ReadTimeout \/ OnInactivity \/ Close \/ CloseReturns

Next == Publish \/ CreateReader \/ Poll \/ Subscribe

Spec == Init /\ [][Next]_vars

-----------------------------------------------------------------------------
(* Properties *)

\* The events a subscriber is to see: up to the first final one.
Due == {i \in DOMAIN log : log[i] # "nil" /\ \A j \in 1..(i - 1) : log[j] # "final"}

\* Read hands out the events of the log in order, each once and none left out,
\* whatever pulls failed between them and however often Read timed out or was
\* given up; and it says that the queue is closed only behind the final event.
InOrder ==
    /\ TypeOK
    /\ \A k, l \in DOMAIN received : k < l => received[k] < received[l]
    /\ Range(received) \subseteq Due
    /\ \A i \in Due \ Range(received), k \in DOMAIN received : received[k] < i
    /\ result = "closed" =>
          Range(received) = Due /\ received # <<>> /\ log[Last(received)] = "final"

\* Close never waits for a poller that waits for something else: as long as it
\* has not ended there is a step it can take, also when it has events to send
\* and nobody reads them any more.
CloseGetsOn == reader = "closing" => ENABLED (Poll \/ CloseReturns)
=============================================================================
