----------------------------- MODULE WorkQueues -----------------------------
(***************************************************************************)
(* The work queues that take work from a broker (a2asrv/workqueue): the    *)
(* polling loop of a pullQueue and the handler that a pushQueue gives to   *)
(* whoever delivers to it, on several servers that crash and start again.  *)
(* (inMemoryQueue is in DistributedManager.)                               *)
(*                                                                         *)
(* The broker is external.  It keeps a message until it is completed,      *)
(* gives it to one server at a time, and gives it out again when it is     *)
(* returned or when whoever has it is silent too long.  workQueueHandler   *)
(* is modelled by what the queues see of it: it runs and stores the final  *)
(* result of the message, or fails, also because a run of the same message *)
(* has ended the task before, or finds the payload malformed.              *)
(***************************************************************************)
EXTENDS Naturals, FiniteSets

CONSTANTS
    Pullers, Pushers,  \* the servers by their kind of queue
    Messages,
    Malformed,         \* the messages without their request
    MaxExecutions,     \* limiter.ConcurrencyConfig of each server, 0 for no limit
    Goroutines,        \* bound: a server's goroutines that handle messages
    MaxFaults,         \* bound: crashes and failed reads
    Callbacks,         \* before and after callbacks may take a message over
    Nil

Servers == Pullers \cup Pushers
Jobs == Servers \X (1..Goroutines)

ASSUME LimitsAssumption ==
    Goroutines \in Nat /\ MaxFaults \in Nat /\ MaxExecutions \in [Servers -> Nat]

VARIABLES
    broker,    \* per message "new", "queued", "out" or "done"
    holder,    \* the delivery that is the current one
    closed,    \* Read returns ErrQueueClosed
    loop,      \* where RegisterHandler's goroutine is
    permits,   \* the semaphore of each server: places taken
    job,       \* the goroutines that handle a message
    ended,     \* the messages whose final result is stored
    faults     \* crashes and failed reads so far

vars == <<broker, holder, closed, loop, permits, job, ended, faults>>
brokerVars == <<broker, holder, closed>>

NoJob == [pc |-> "none", msg |-> Nil, err |-> "none"]
JobPCs == {"none", "before", "handle", "after", "settle", "return"}
Errs == {"none", "malformed", "failed"}

TypeOK ==
    /\ broker \in [Messages -> {"new", "queued", "out", "done"}]
    /\ holder \in [Messages -> Jobs \cup {Nil}] /\ closed \in BOOLEAN
    /\ loop \in [Servers -> {"acquire", "read", "sleep", "drain", "stopped", "serving", "down"}]
    /\ permits \in [Servers -> Nat]
    /\ job \in [Jobs -> [pc : JobPCs, msg : Messages \cup {Nil}, err : Errs]]
    /\ ended \subseteq Messages /\ faults \in 0..MaxFaults

FirstStep(s) == IF s \in Pullers THEN "acquire" ELSE "serving"

Init ==
    /\ broker = [m \in Messages |-> "new"] /\ holder = [m \in Messages |-> Nil] /\ closed = FALSE
    /\ loop = [s \in Servers |-> FirstStep(s)] /\ permits = [s \in Servers |-> 0]
    /\ job = [j \in Jobs |-> NoJob] /\ ended = {} /\ faults = 0

JobsOf(s) == {j \in Jobs : j[1] = s /\ job[j].pc # "none"}

-----------------------------------------------------------------------------
(* The broker *)

Write(m) ==
    /\ broker[m] = "new" /\ ~closed /\ broker' = [broker EXCEPT ![m] = "queued"]
    /\ UNCHANGED <<holder, closed, loop, permits, job, ended, faults>>

CloseBroker ==
    /\ ~closed /\ closed' = TRUE
    /\ UNCHANGED <<broker, holder, loop, permits, job, ended, faults>>

Expire(m) ==
    /\ broker[m] = "out" /\ broker' = [broker EXCEPT ![m] = "queued"]
    /\ UNCHANGED <<holder, closed, loop, permits, job, ended, faults>>

\* A delivery that is not the current one any more can complete its message
\* but not return it.
Settle(m, j, how) ==
    broker' = [broker EXCEPT ![m] =
                  IF how = "complete" THEN "done"
                  ELSE IF broker[m] = "out" /\ holder[m] = j THEN "queued" ELSE broker[m]]

\* A goroutine for a message that the broker has given out.
Start(s, m, label) ==
    LET free == {k \in 1..Goroutines : job[<<s, k>>].pc = "none"}
        j == <<s, CHOOSE k \in free : TRUE>>
    IN /\ free # {}
       /\ job' = [job EXCEPT ![j] = [pc |-> label, msg |-> m, err |-> "none"]]
       /\ broker' = [broker EXCEPT ![m] = "out"] /\ holder' = [holder EXCEPT ![m] = j]

-----------------------------------------------------------------------------
(* The polling loop *)

HasPlace(s) == MaxExecutions[s] = 0 \/ permits[s] < MaxExecutions[s]

LoopGoto(s, label) == loop' = [loop EXCEPT ![s] = label]

Acquire(s) ==
    /\ loop[s] = "acquire" /\ HasPlace(s)
    /\ LoopGoto(s, "read") /\ permits' = [permits EXCEPT ![s] = @ + 1]
    /\ UNCHANGED <<brokerVars, job, ended, faults>>

\* Read gives a message; its goroutine takes over the place.
ReadMessage(s, m) ==
    /\ loop[s] = "read" /\ broker[m] = "queued" /\ ~closed
    /\ Start(s, m, "before")
    /\ LoopGoto(s, "acquire")
    /\ UNCHANGED <<closed, permits, ended, faults>>

ReadClosed(s) ==
    /\ loop[s] = "read" /\ closed
    /\ LoopGoto(s, "drain") /\ permits' = [permits EXCEPT ![s] = @ - 1]
    /\ UNCHANGED <<brokerVars, job, ended, faults>>

\* Mutant: the place is not given back before the sleep.
ReadFailsKeepingPlace(s) ==
    /\ loop[s] = "read" /\ ~closed /\ faults < MaxFaults /\ faults' = faults + 1
    /\ LoopGoto(s, "sleep")
    /\ UNCHANGED <<brokerVars, permits, job, ended>>

ReadFails(s) ==
    /\ loop[s] = "read" /\ ~closed /\ faults < MaxFaults /\ faults' = faults + 1
    /\ LoopGoto(s, "sleep") /\ permits' = [permits EXCEPT ![s] = @ - 1]
    /\ UNCHANGED <<brokerVars, job, ended>>

\* How long the backoff is does not matter; it is never for ever.
Wake(s) ==
    /\ loop[s] = "sleep" /\ LoopGoto(s, "acquire")
    /\ UNCHANGED <<brokerVars, permits, job, ended, faults>>

Drained(s) ==
    /\ loop[s] = "drain" /\ JobsOf(s) = {} /\ LoopGoto(s, "stopped")
    /\ UNCHANGED <<brokerVars, permits, job, ended, faults>>

-----------------------------------------------------------------------------
(* The handler of a push queue: a place, or ErrConcurrencyLimitExceeded at
   once, which changes nothing: the broker keeps the message and pushes again *)

Push(s, m) ==
    /\ loop[s] = "serving" /\ broker[m] = "queued" /\ ~closed /\ HasPlace(s)
    /\ Start(s, m, "handle")
    /\ permits' = [permits EXCEPT ![s] = @ + 1]
    /\ UNCHANGED <<closed, loop, ended, faults>>

-----------------------------------------------------------------------------
(* handleMessage *)

JobGoto(j, label) == job' = [job EXCEPT ![j].pc = label]

\* A callback that returns an error has taken the message over: it is neither
\* completed nor returned here.
Before(j) ==
    /\ job[j].pc = "before"
    /\ JobGoto(j, "handle") \/ (Callbacks /\ JobGoto(j, "return"))
    /\ UNCHANGED <<brokerVars, loop, permits, ended, faults>>

HandlerReturns(j, err) ==
    job' = [job EXCEPT ![j].pc = IF j[1] \in Pullers THEN "after" ELSE "settle", ![j].err = err]

\* A run that ends without an error has its result: the task it has stored, or
\* the agent's direct reply, a message, which is broadcast and stored nowhere.
\* It is the first one, or, where the task is not terminal or was to be
\* canceled, one more.
HandleOK(j) ==
    /\ job[j].pc = "handle" /\ job[j].msg \notin Malformed
    /\ HandlerReturns(j, "none") /\ ended' = ended \cup {job[j].msg}
    /\ UNCHANGED <<brokerVars, loop, permits, faults>>

\* The context does not decode, the setup or the run fails, the task is terminal.
HandleFails(j) ==
    /\ job[j].pc = "handle"
    /\ \/ HandlerReturns(j, "failed")
       \/ job[j].msg \in Malformed /\ HandlerReturns(j, "malformed")
    /\ UNCHANGED <<brokerVars, loop, permits, ended, faults>>

After(j) ==
    /\ job[j].pc = "after"
    /\ JobGoto(j, "settle") \/ (Callbacks /\ JobGoto(j, "return"))
    /\ UNCHANGED <<brokerVars, loop, permits, ended, faults>>

Verdict(err) == IF err = "failed" THEN "return" ELSE "complete"

\* The broker may miss the call, whose error is logged.  A pusher is told by
\* the answer to its call, which may be lost too.
SettleMessage(j) ==
    /\ job[j].pc = "settle" /\ JobGoto(j, "return")
    /\ Settle(job[j].msg, j, Verdict(job[j].err)) \/ UNCHANGED broker
    /\ UNCHANGED <<holder, closed, loop, permits, ended, faults>>

Release(j) ==
    /\ job[j].pc = "return" /\ job' = [job EXCEPT ![j] = NoJob]
    /\ permits' = [permits EXCEPT ![j[1]] = @ - 1]
    /\ UNCHANGED <<brokerVars, loop, ended, faults>>

-----------------------------------------------------------------------------
(* Crash and restart *)

Crash(s) ==
    /\ loop[s] # "down" /\ faults < MaxFaults /\ faults' = faults + 1
    /\ LoopGoto(s, "down") /\ permits' = [permits EXCEPT ![s] = 0]
    /\ job' = [j \in Jobs |-> IF j[1] = s THEN NoJob ELSE job[j]]
    /\ UNCHANGED <<brokerVars, ended>>

Restart(s) ==
    /\ loop[s] = "down" /\ LoopGoto(s, FirstStep(s))
    /\ UNCHANGED <<brokerVars, permits, job, ended, faults>>

LoopStep(s) ==
    Acquire(s) \/ ReadClosed(s) \/ ReadFails(s) \/ Wake(s) \/ Drained(s) \/ Restart(s)

JobStep(j) ==
    Before(j) \/ HandleOK(j) \/ HandleFails(j) \/ After(j) \/ SettleMessage(j) \/ Release(j)

Next ==
    \/ \E m \in Messages : Write(m) \/ Expire(m)
    \/ CloseBroker
    \/ \E s \in Pullers, m \in Messages : ReadMessage(s, m)
    \/ \E s \in Pushers, m \in Messages : Push(s, m)
    \/ \E s \in Servers : LoopStep(s) \/ Crash(s)
    \/ \E j \in Jobs : JobStep(j)

Spec == Init /\ [][Next]_vars

-----------------------------------------------------------------------------
(* Properties *)

\* The semaphore of a server counts its goroutines and the place its loop
\* reads with, never more than the limit, through read errors, callbacks that
\* take over, crashes and the drain; a loop that has stopped has left nothing
\* running.  A message leaves the broker only when a run of it has ended with
\* its result or it is malformed: no crash, expiry or late Complete loses work.
WorkKept ==
    /\ TypeOK
    /\ \A s \in Servers :
          /\ permits[s] = Cardinality(JobsOf(s)) + (IF loop[s] = "read" THEN 1 ELSE 0)
          /\ MaxExecutions[s] # 0 => permits[s] <= MaxExecutions[s]
          /\ loop[s] = "stopped" => JobsOf(s) = {}
    /\ \A m \in Messages : broker[m] = "done" => m \in ended \cup Malformed
=============================================================================
