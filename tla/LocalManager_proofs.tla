-------------------------- MODULE LocalManager_proofs --------------------------
(***************************************************************************)
(* Proofs about LocalManager, for any number of tasks and of calls of      *)
(* Execute, Cancel and Resubscribe, in every setting: the manager's books  *)
(* are exact, fast follow-ups are not refused, and whoever is told a       *)
(* terminal state is told the stored one.                                  *)
(***************************************************************************)
EXTENDS LocalManager, TLAPS, FiniteSetTheorems, SequenceTheorems

-----------------------------------------------------------------------------
(***************************************************************************)
(* The inductive invariant.                                                *)
(***************************************************************************)
\* localManager.executions and .cancelations hold exactly the calls between
\* their registration and their cleanup.
RegOK ==
    /\ \A x \in Execs : Registered(x) <=> executions[TaskOf[x]] = x
    /\ \A t \in Tasks : executions[t] # None => TaskOf[executions[t]] = t
    /\ \A c \in Cancels : can[c].pc \notin {"idle", "done"} <=> cancelations[TaskOf[c]] = c
    /\ \A t \in Tasks : cancelations[t] # None => TaskOf[cancelations[t]] = t

\* Goroutines of an execution live while it runs; its promise is resolved last.
ExecOK(x) ==
    /\ ex[x].agent = "on" \/ ex[x].cons \notin {"off", "stopped"} => ex[x].pc = "run"
    /\ ex[x].promise.done => ex[x].pc = "done"
    /\ ex[x].pc \in {"idle", "wait", "create", "queues"} => sub[x].of = None
    /\ ex[x].pc \in {"idle", "wait", "create", "queues", "setup"} =>
          ex[x].cons = "off" /\ ex[x].result = "none"
    /\ ex[x].pc = "idle" => ex[x].waitingFor = None
    /\ ex[x].pc = "wait" => ex[x].waitingFor # None
    /\ ex[x].pc = "create" /\ ex[x].waitingFor # None => ex[ex[x].waitingFor].promise.done

\* The exiting flag is raised for good, and before a final event is broadcast.
ExitOK(x) ==
    /\ ex[x].exiting => ex[x].cons \in {"publish", "error", "stopped"}
    /\ ex[x].cons = "publish" /\ ex[x].exiting => ex[x].result # "none"
    /\ ex[x].cons \in {"flag", "publish"} /\ IsFinal(ex[x].out.event) => ex[x].result # "none"
    /\ ex[x].cons = "publish" /\ ex[x].result # "none" => ex[x].exiting

\* A task exists once its starter has processed an event, and not before.  An
\* execution that goes on reading has not ended its task, and what it has to
\* say about the end is what is stored.
StoredOK(x) ==
    LET state == stored[TaskOf[x]].state IN
    /\ x \in Starters /\ ex[x].pc \in {"idle", "wait", "create", "queues", "setup"} => state = "none"
    /\ x \notin Starters /\ ex[x].cons # "off" => state # "none"
    /\ ex[x].cons = "read" => ~Terminal(state)
    /\ ex[x].cons \in {"flag", "publish"} =>
          /\ ex[x].result = "none" => ~Terminal(state)
          /\ Terminal(ex[x].out.event) => state = ex[x].out.event
    /\ ex[x].cons # "off" /\ Terminal(ex[x].result) => state = ex[x].result
    /\ Terminal(ex[x].promise.value) => state = ex[x].promise.value

\* A cancelation without an execution has the task for itself; one with an
\* execution was made for one of its own task.
CancelOK(c) ==
    LET state == stored[TaskOf[c]].state IN
    /\ can[c].run # None => TaskOf[can[c].run] = TaskOf[c]
    /\ can[c].pc \in {"write", "wrote", "await"} => can[c].run # None
    /\ can[c].pc \in {"alone", "aloneMore"} =>
          can[c].run = None /\ state # "none" /\ (Terminal(state) => state = "canceled")
    /\ can[c].pc \in {"setup", "alone", "aloneMore"} /\ can[c].run = None =>
          executions[TaskOf[c]] = None
    /\ can[c].leader = None => can[c].pc = "idle"
    /\ can[c].leader # None => TaskOf[can[c].leader] = TaskOf[c]
    /\ Terminal(can[c].promise.value) => state = can[c].promise.value
    /\ can[c].return = "canceled" => state = "canceled"

\* A subscription belongs to an execution of its task, is told of a terminal
\* state only when it is stored, and of the end only when that is flagged.
SubOK(s) ==
    LET state == stored[TaskOf[s]].state IN
    /\ sub[s].pc = "none" => sub[s].of = None
    /\ sub[s].of = None => sub[s].queue = <<>> /\ sub[s].pc \in {"none", "refused"}
    /\ sub[s].of # None =>
          /\ TaskOf[sub[s].of] = TaskOf[s]
          /\ ex[sub[s].of].pc \notin {"idle", "wait", "create", "refused"}
    /\ \A t \in Tasks : s \in readers[t] => t = TaskOf[s] /\ sub[s].of # None
    /\ \A i \in 1..Len(sub[s].queue) :
          /\ Terminal(sub[s].queue[i].event) => state = sub[s].queue[i].event
          /\ IsFinal(sub[s].queue[i].event) /\ Registered(sub[s].of) => ex[sub[s].of].exiting
    /\ Terminal(sub[s].seen.event) => state = sub[s].seen.event
    /\ sub[s].pc = "ended" /\ sub[s].seen.event \in {"input-required", "message"}
         /\ Registered(sub[s].of) => ex[sub[s].of].exiting

RegisteredExecs == {x \in Execs : Registered(x)}

IndInv ==
    /\ TypeOK /\ RegOK /\ QuotaExact /\ IsFiniteSet(RegisteredExecs)
    /\ \A x \in Execs : ExecOK(x) /\ ExitOK(x) /\ StoredOK(x)
    /\ \A c \in Cancels : CancelOK(c)
    /\ \A s \in Subs : SubOK(s)

-----------------------------------------------------------------------------
(***************************************************************************)
(* Types.                                                                  *)
(***************************************************************************)
\* TypeOK without the limiter, whose counters are typed by what they count.
RestTypeOK ==
    /\ setting \in Settings
    /\ stored \in [Tasks -> [state : States \cup {"none"}, version : Nat]]
    /\ executions \in [Tasks -> Execs \cup {None}]
    /\ cancelations \in [Tasks -> Cancels \cup {None}]
    /\ ex \in [Execs -> Execution]
    /\ can \in [Cancels -> Cancelation]
    /\ readers \in [Tasks -> SUBSET Subs]
    /\ sub \in [Subs -> Subscriber]

\* What a setting allows the agent.
LEMMA SettingFacts ==
    ASSUME setting \in Settings
    PROVE  /\ setting.agentEvents \subseteq Events /\ setting.cancelEvents \subseteq States
           /\ setting.maxExecutions \in Nat /\ setting.maxPerScope \in Nat
BY SettingsAssumption DEF Setting

\* The task of a call is a task.
LEMMA CallFacts ==
    /\ \A x \in Execs : TaskOf[x] \in Tasks /\ ScopeOf[x] \in Scopes /\ x # None /\ x \in Subs
    /\ \A c \in Cancels : TaskOf[c] \in Tasks /\ c # None
    /\ \A s \in Subs : TaskOf[s] \in Tasks
BY CallsAssumption DEF Subs

\* The store accepts states, and changes one task.
LEMMA Saved ==
    ASSUME stored \in [Tasks -> [state : States \cup {"none"}, version : Nat]],
           NEW t \in Tasks, NEW e \in States, Save(t, e)
    PROVE  /\ stored' \in [Tasks -> [state : States \cup {"none"}, version : Nat]]
           /\ stored'[t].state = e /\ stored'[t].version = stored[t].version + 1
           /\ \A u \in Tasks : u # t => stored'[u] = stored[u]
BY DEF Save

\* A step of an execution that is about nothing else keeps its type.
LEMMA TypesExecution ==
    ASSUME RestTypeOK, NEW x \in Execs,
           \/ ExecuteCall(x) \/ WaitExiting(x) \/ WaitAbandoned(x) \/ CreateQueuesFails(x)
           \/ AgentReturns(x) \/ AgentFails(x) \/ InactivityTimeout(x) \/ Emit(x)
           \/ FlagExiting(x) \/ ReadFails(x) \/ ExecutionReturns(x) \/ ClosePipe(x)
    PROVE  RestTypeOK'
<1>1. ex[x] \in Execution /\ TaskOf[x] \in Tasks /\ ex \in [Execs -> Execution]
  BY CallFacts DEF RestTypeOK
<1>2. UNCHANGED <<stored, managerVars, can, readers, sub>>
  BY DEF ExecuteCall, WaitExiting, WaitAbandoned, CreateQueuesFails, AgentReturns, AgentFails,
         InactivityTimeout, Emit, FlagExiting, ReadFails, ExecutionReturns, ClosePipe, OnlyExecution
<1>3. ex' \in [Execs -> Execution]
  <2>1. CASE ExecuteCall(x)
    BY <1>1, <2>1 DEF RestTypeOK, ExecuteCall, Execution
  <2>2. CASE WaitExiting(x)
    BY <1>1, <2>2 DEF WaitExiting, Execution
  <2>3. CASE WaitAbandoned(x)
    BY <1>1, <2>3 DEF WaitAbandoned, Execution
  <2>4. CASE CreateQueuesFails(x)
    BY <1>1, <2>4 DEF CreateQueuesFails, Execution
  <2>5. CASE AgentReturns(x)
    BY <1>1, <2>5 DEF AgentReturns, Execution
  <2>6. CASE AgentFails(x)
    BY <1>1, <2>6 DEF AgentFails, Execution
  <2>7. CASE InactivityTimeout(x)
    BY <1>1, <2>7 DEF InactivityTimeout, Execution
  <2>8. CASE Emit(x)
    <3>1. PICK e \in Events : ex' = [ex EXCEPT ![x].pipe = Append(@, e), ![x].sent = @ + 1]
      BY <2>8, SettingFacts DEF RestTypeOK, Emit
    <3>2. Append(ex[x].pipe, e) \in Seq(Events)
      BY <1>1, AppendProperties DEF Execution
    <3>. QED  BY <1>1, <3>1, <3>2 DEF Execution
  <2>9. CASE FlagExiting(x)
    <3>1. \A r : Exits(r) \in BOOLEAN
      BY DEF Exits
    <3>. QED  BY <1>1, <2>9, <3>1 DEF FlagExiting, Execution
  <2>10. CASE ReadFails(x)
    BY <1>1, <2>10 DEF ReadFails, Execution
  <2>11. CASE ExecutionReturns(x)
    BY <1>1, <2>11 DEF ExecutionReturns, Execution, Promise
  <2>12. CASE ClosePipe(x)
    BY <1>1, <2>12 DEF ClosePipe, Execution
  <2>. QED  BY <2>1, <2>2, <2>3, <2>4, <2>5, <2>6, <2>7, <2>8, <2>9, <2>10, <2>11, <2>12
<1>. QED  BY <1>2, <1>3 DEF RestTypeOK, managerVars

\* So does one that registers or unregisters the execution.
LEMMA TypesRegister ==
    ASSUME RestTypeOK, NEW x \in Execs, CreateExecution(x) \/ Unregister(x)
    PROVE  RestTypeOK'
<1>1. ex[x] \in Execution /\ TaskOf[x] \in Tasks /\ ex \in [Execs -> Execution]
  BY CallFacts DEF RestTypeOK
<1>2. UNCHANGED <<setting, stored, cancelations, can, readers, sub>>
  BY DEF CreateExecution, Unregister
<1>3. executions' \in [Tasks -> Execs \cup {None}]
  BY <1>1 DEF RestTypeOK, CreateExecution, Unregister
<1>4. CASE CreateExecution(x)
  <2>1. ex' \in [Execs -> Execution]
    <3>1. PICK label \in {"refused", "queues"} : ex' = [ex EXCEPT ![x].pc = label]
      BY <1>4 DEF CreateExecution
    <3>. QED  BY <1>1, <3>1 DEF Execution
  <2>. QED  BY <1>2, <1>3, <2>1 DEF RestTypeOK
<1>5. CASE Unregister(x)
  <2>1. ex' \in [Execs -> Execution]
    BY <1>1, <1>5 DEF Unregister, Execution, Promise
  <2>. QED  BY <1>2, <1>3, <2>1 DEF RestTypeOK
<1>. QED  BY <1>4, <1>5

\* So does the setup of an execution.
LEMMA TypesSetup ==
    ASSUME RestTypeOK, NEW x \in Execs, SetupExecution(x) \/ SetupFails(x)
    PROVE  RestTypeOK'
<1>1. ex[x] \in Execution /\ TaskOf[x] \in Tasks /\ ex \in [Execs -> Execution]
  BY CallFacts DEF RestTypeOK
<1>2. UNCHANGED <<managerVars, can, readers, sub>>
  BY DEF SetupExecution, SetupFails, OnlyExecution
<1>3. stored' \in [Tasks -> [state : States \cup {"none"}, version : Nat]]
  <2>1. CASE UNCHANGED stored
    BY <2>1 DEF RestTypeOK
  <2>2. CASE Active(TaskOf[x]) /\ Save(TaskOf[x], stored[TaskOf[x]].state)
    <3>1. stored[TaskOf[x]].state \in States
      BY <1>1, <2>2 DEF RestTypeOK, Active, Exists
    <3>. QED  BY <1>1, <2>2, <3>1, Saved DEF RestTypeOK
  <2>. QED  BY <2>1, <2>2 DEF SetupExecution, SetupFails, UpdateHistory
<1>4. ex' \in [Execs -> Execution]
  <2>1. CASE SetupExecution(x)
    BY <1>1, <2>1 DEF SetupExecution, Execution
  <2>2. CASE SetupFails(x)
    BY ZenonT(60), <1>1, <2>2 DEF SetupFails, Execution, Promise, Outcomes
  <2>. QED  BY <2>1, <2>2
<1>. QED  BY <1>2, <1>3, <1>4 DEF RestTypeOK, managerVars

\* What the consumer makes of the event it reads: a state or a message, or the
\* failure it becomes.
LEMMA ProcessedFacts ==
    ASSUME RestTypeOK, NEW x \in Execs, ProcessEvent(x) \/ RejectEvent(x) \/ PushFails(x)
    PROVE  \E event \in Outcomes, version \in Nat, r \in Outcomes :
              /\ Processed(x, event, version, r) /\ Reads(x)
              /\ \/ UNCHANGED stored
                 \/ /\ stored' \in [Tasks -> [state : States \cup {"none"}, version : Nat]]
                    /\ stored'[TaskOf[x]].state \in States
                    /\ \A t \in Tasks : t # TaskOf[x] => stored'[t] = stored[t]
<1>1. /\ ex[x] \in Execution /\ TaskOf[x] \in Tasks /\ stored[TaskOf[x]].version \in Nat
      /\ stored \in [Tasks -> [state : States \cup {"none"}, version : Nat]]
  BY CallFacts DEF RestTypeOK
<1>2. Reads(x)
  BY DEF ProcessEvent, RejectEvent, PushFails
<1>3. Head(ex[x].pipe) \in Events
  <2>1. ex[x].pipe \in Seq(Events) /\ ex[x].pipe # <<>>
    BY <1>1, <1>2 DEF Execution, Reads
  <2>. QED  BY <2>1, HeadTailProperties
<1>4. "failed" \in States /\ "failed" \in Outcomes /\ "none" \in Outcomes /\ "error" \in Outcomes
  BY DEF States, TerminalStates, Events, Outcomes
<1>5. Head(ex[x].pipe) \in Outcomes /\ (Head(ex[x].pipe) # "message" => Head(ex[x].pipe) \in States)
  BY <1>3 DEF Events, Outcomes
<1>6. ASSUME NEW e \in States, Save(TaskOf[x], e)
      PROVE  /\ stored' \in [Tasks -> [state : States \cup {"none"}, version : Nat]]
             /\ stored'[TaskOf[x]].state \in States
             /\ \A t \in Tasks : t # TaskOf[x] => stored'[t] = stored[t]
  BY <1>1, <1>6, Saved
<1>7. CASE ProcessEvent(x)
  <2>1. CASE Head(ex[x].pipe) = "message"
    BY <1>2, <1>5, <1>7, <2>1 DEF ProcessEvent
  <2>2. CASE Head(ex[x].pipe) # "message"
    <3>1. stored[TaskOf[x]].version + 1 \in Nat
      BY <1>1
    <3>2. CASE IsFinal(Head(ex[x].pipe))
      BY <1>2, <1>5, <1>6, <1>7, <2>2, <3>1, <3>2 DEF ProcessEvent
    <3>3. CASE ~IsFinal(Head(ex[x].pipe))
      BY <1>2, <1>4, <1>5, <1>6, <1>7, <2>2, <3>1, <3>3 DEF ProcessEvent
    <3>. QED  BY <3>2, <3>3
  <2>. QED  BY <2>1, <2>2
<1>8. CASE RejectEvent(x)
  <2>1. CASE Exists(TaskOf[x])
    <3>1. stored[TaskOf[x]].version + 1 \in Nat
      BY <1>1
    <3>. QED  BY <1>2, <1>4, <1>6, <1>8, <2>1, <3>1 DEF RejectEvent
  <2>2. CASE ~Exists(TaskOf[x])
    BY <1>2, <1>4, <1>8, <2>2 DEF RejectEvent
  <2>. QED  BY <2>1, <2>2
<1>9. CASE PushFails(x)
  <2>1. CASE Head(ex[x].pipe) = "message"
    BY <1>2, <1>4, <1>9, <2>1 DEF PushFails
  <2>2. CASE Head(ex[x].pipe) # "message" /\ Terminal(Head(ex[x].pipe))
    BY <1>2, <1>4, <1>5, <1>6, <1>9, <2>2 DEF PushFails
  <2>3. CASE Head(ex[x].pipe) # "message" /\ ~Terminal(Head(ex[x].pipe))
    <3>1. /\ stored' = [stored EXCEPT ![TaskOf[x]] =
                          [state |-> "failed", version |-> stored[TaskOf[x]].version + 2]]
          /\ Processed(x, "failed", stored[TaskOf[x]].version + 2, "failed")
      BY <1>9, <2>3 DEF PushFails
    <3>2. /\ stored' \in [Tasks -> [state : States \cup {"none"}, version : Nat]]
          /\ stored'[TaskOf[x]].state \in States
          /\ \A t \in Tasks : t # TaskOf[x] => stored'[t] = stored[t]
      BY <1>1, <1>4, <3>1
    <3>3. stored[TaskOf[x]].version + 2 \in Nat
      BY <1>1
    <3>. QED  BY <1>2, <1>4, <3>1, <3>2, <3>3
  <2>. QED  BY <2>1, <2>2, <2>3
<1>. QED  BY <1>7, <1>8, <1>9

\* The consumer keeps the types as it processes an event.
LEMMA TypesProcess ==
    ASSUME RestTypeOK, NEW x \in Execs, ProcessEvent(x) \/ RejectEvent(x) \/ PushFails(x)
    PROVE  RestTypeOK'
<1>1. ex[x] \in Execution /\ ex \in [Execs -> Execution] /\ TaskOf[x] \in Tasks
  BY CallFacts DEF RestTypeOK
<1>2. PICK event \in Outcomes, version \in Nat, r \in Outcomes : Processed(x, event, version, r) /\ Reads(x)
  BY ProcessedFacts
<1>3. stored' \in [Tasks -> [state : States \cup {"none"}, version : Nat]]
  BY ProcessedFacts DEF RestTypeOK
<1>4. ex' \in [Execs -> Execution]
  <2>1. Tail(ex[x].pipe) \in Seq(Events)
    BY <1>1, <1>2, HeadTailProperties DEF Execution, Reads
  <2>2. [event |-> event, version |-> version] \in Message
    BY DEF Message
  <2>. QED  BY <1>1, <1>2, <2>1, <2>2 DEF Processed, Execution
<1>5. UNCHANGED <<managerVars, can, readers, sub>>
  BY <1>2 DEF Processed, OnlyExecution
<1>. QED  BY <1>3, <1>4, <1>5 DEF RestTypeOK, managerVars

\* So does it as it handles an error.
LEMMA TypesHandleError ==
    ASSUME RestTypeOK, NEW x \in Execs, HandleError(x)
    PROVE  RestTypeOK'
<1>1. ex[x] \in Execution /\ ex \in [Execs -> Execution] /\ TaskOf[x] \in Tasks
  BY CallFacts DEF RestTypeOK
<1>2. UNCHANGED <<managerVars, can, readers, sub>>
  BY DEF HandleError, OnlyExecution
<1>3. "failed" \in States /\ "failed" \in Outcomes /\ "error" \in Outcomes
  BY DEF States, TerminalStates, Events, Outcomes
<1>4. stored' \in [Tasks -> [state : States \cup {"none"}, version : Nat]]
  BY <1>1, <1>3, Saved DEF RestTypeOK, HandleError
<1>5. ex' \in [Execs -> Execution]
  BY <1>1, <1>3 DEF HandleError, Execution
<1>. QED  BY <1>2, <1>4, <1>5 DEF RestTypeOK, managerVars

\* A broadcast puts a message on the queues of the readers and changes nothing
\* else of any subscription.
LEMMA BroadcastFacts ==
    ASSUME RestTypeOK, NEW x \in Execs, Broadcast(x)
    PROVE  /\ sub' \in [Subs -> Subscriber]
           /\ \A s \in Subs : s \notin readers[TaskOf[x]] => sub'[s] = sub[s]
           /\ \A s \in Subs : s \in readers[TaskOf[x]] =>
                 sub'[s] = [sub[s] EXCEPT !.queue = Append(sub[s].queue, ex[x].out)]
<1>1. ex[x].out \in Message /\ sub \in [Subs -> Subscriber]
  BY DEF RestTypeOK, Execution
<1>2. sub' = [s \in Subs |-> IF s \in readers[TaskOf[x]]
                             THEN [sub[s] EXCEPT !.queue = Append(sub[s].queue, ex[x].out)] ELSE sub[s]]
  BY DEF Broadcast
<1>3. ASSUME NEW s \in Subs
      PROVE  [sub[s] EXCEPT !.queue = Append(sub[s].queue, ex[x].out)] \in Subscriber
  <2>1. sub[s] \in Subscriber /\ sub[s].queue \in Seq(Message)
    BY <1>1 DEF Subscriber
  <2>2. Append(sub[s].queue, ex[x].out) \in Seq(Message)
    BY <1>1, <2>1, AppendProperties
  <2>. QED  BY <2>1, <2>2 DEF Subscriber
<1>4. sub' \in [Subs -> Subscriber]
  BY <1>1, <1>2, <1>3
<1>. QED  BY <1>2, <1>4

\* A step that broadcasts keeps the types.
LEMMA TypesPublish ==
    ASSUME RestTypeOK, NEW x \in Execs, Publish(x) \/ PublishFails(x)
    PROVE  RestTypeOK'
<1>1. ex[x] \in Execution /\ ex \in [Execs -> Execution] /\ TaskOf[x] \in Tasks
  BY CallFacts DEF RestTypeOK
<1>2. UNCHANGED <<stored, managerVars, can, readers>>
  BY DEF Publish, PublishFails
<1>3. sub' \in [Subs -> Subscriber]
  BY BroadcastFacts DEF RestTypeOK, Publish, PublishFails
<1>4. ex' \in [Execs -> Execution]
  <2>1. "none" \in Outcomes
    BY DEF Outcomes
  <2>2. CASE Publish(x)
    BY <1>1, <2>2 DEF Publish, Execution
  <2>3. CASE PublishFails(x)
    BY <1>1, <2>1, <2>3 DEF PublishFails, Execution
  <2>. QED  BY <2>2, <2>3
<1>. QED  BY <1>2, <1>3, <1>4 DEF RestTypeOK, managerVars

\* The queues of an execution are made and destroyed with their types.
LEMMA TypesQueues ==
    ASSUME RestTypeOK, NEW x \in Execs, CreateQueues(x) \/ DestroyQueue(x)
    PROVE  RestTypeOK'
<1>1. /\ ex[x] \in Execution /\ ex \in [Execs -> Execution] /\ TaskOf[x] \in Tasks /\ x \in Subs
      /\ sub \in [Subs -> Subscriber] /\ readers \in [Tasks -> SUBSET Subs]
  BY CallFacts DEF RestTypeOK
<1>2. UNCHANGED <<stored, managerVars, can>>
  BY DEF CreateQueues, DestroyQueue
<1>3. CASE CreateQueues(x)
  <2>1. ex' \in [Execs -> Execution]
    BY <1>1, <1>3 DEF CreateQueues, Execution
  <2>2. readers' \in [Tasks -> SUBSET Subs]
    BY <1>1, <1>3 DEF CreateQueues
  <2>3. sub' \in [Subs -> Subscriber]
    <3>1. sub' = [sub EXCEPT ![x] = [sub[x] EXCEPT !.pc = "reading", !.of = x]]
      BY <1>1, <1>3 DEF CreateQueues
    <3>2. [sub[x] EXCEPT !.pc = "reading", !.of = x] \in Subscriber
      BY <1>1 DEF Subscriber
    <3>. QED  BY <1>1, <3>1, <3>2
  <2>. QED  BY <1>2, <2>1, <2>2, <2>3 DEF RestTypeOK, managerVars
<1>4. CASE DestroyQueue(x)
  <2>1. ex' \in [Execs -> Execution]
    BY <1>1, <1>4 DEF DestroyQueue, Execution
  <2>2. readers' \in [Tasks -> SUBSET Subs]
    BY <1>1, <1>4 DEF DestroyQueue
  <2>3. sub' \in [Subs -> Subscriber]
    <3>1. ASSUME NEW s \in Subs
          PROVE  [sub[s] EXCEPT !.closed = sub[s].closed \/ s \in readers[TaskOf[x]]] \in Subscriber
      <4>1. (sub[s].closed \/ s \in readers[TaskOf[x]]) \in BOOLEAN
        OBVIOUS
      <4>. QED  BY <1>1, <4>1 DEF Subscriber
    <3>. QED  BY <1>1, <1>4, <3>1 DEF DestroyQueue
  <2>. QED  BY <1>2, <2>1, <2>2, <2>3 DEF RestTypeOK, managerVars
<1>. QED  BY <1>3, <1>4

\* Cancelations keep the types.
LEMMA TypesCancel ==
    ASSUME RestTypeOK, NEW c \in Cancels, CancelOK(c),
           CancelCall(c) \/ Cancel(c) \/ CancelAbandoned(c)
    PROVE  RestTypeOK'
<1>1. /\ can[c] \in Cancelation /\ can \in [Cancels -> Cancelation] /\ TaskOf[c] \in Tasks
      /\ stored \in [Tasks -> [state : States \cup {"none"}, version : Nat]]
  BY CallFacts DEF RestTypeOK
<1>2. \A e \in States : e \in Outcomes
  BY DEF Outcomes, Events
<1>3. {"failed", "canceled"} \subseteq States /\ {"failed", "canceled", "error"} \subseteq Outcomes
  BY DEF States, TerminalStates, Events, Outcomes
<1>4. ASSUME NEW v \in Outcomes, Resolve(c, v)  PROVE can' \in [Cancels -> Cancelation]
  BY <1>1, <1>4 DEF Resolve, Cancelation, Promise
<1>5. CASE CancelCall(c)
  <2>1. UNCHANGED <<setting, stored, executions, ex, readers, sub>>
    BY <1>5 DEF CancelCall
  <2>2. cancelations' \in [Tasks -> Cancels \cup {None}]
    BY <1>1, <1>5 DEF RestTypeOK, CancelCall
  <2>3. can' \in [Cancels -> Cancelation]
    <3>1. executions[TaskOf[c]] \in Execs \cup {None} /\ cancelations[TaskOf[c]] \in Cancels \cup {None}
      BY <1>1 DEF RestTypeOK
    <3>2. CASE cancelations[TaskOf[c]] = None
      BY <1>1, <1>5, <3>1, <3>2 DEF CancelCall, Cancelation
    <3>3. CASE cancelations[TaskOf[c]] # None
      BY <1>1, <1>5, <3>1, <3>3 DEF CancelCall, Cancelation
    <3>. QED  BY <3>2, <3>3
  <2>. QED  BY <2>1, <2>2, <2>3 DEF RestTypeOK
<1>6. CASE CancelSetup(c) \/ CancelOnPipe(c) \/ CancelOnPipeFails(c) \/ AwaitRun(c) \/ AloneFails(c)
  <2>1. UNCHANGED <<stored, managerVars, ex, readers, sub>>
    BY <1>6 DEF CancelSetup, CancelOnPipe, CancelOnPipeFails, AwaitRun, AloneFails, OnlyCancelation
  <2>2. CASE CancelSetup(c)
    <3>1. can' \in [Cancels -> Cancelation]
      BY <1>1, <1>3, <1>4, <2>2 DEF CancelSetup, Cancelation
    <3>. QED  BY <2>1, <3>1 DEF RestTypeOK, managerVars
  <2>3. CASE CancelOnPipe(c)
    <3>1. can' \in [Cancels -> Cancelation]
      BY <1>1, <2>3 DEF CancelOnPipe, Cancelation
    <3>. QED  BY <2>1, <3>1 DEF RestTypeOK, managerVars
  <2>4. CASE CancelOnPipeFails(c) \/ AloneFails(c)
    <3>1. can' \in [Cancels -> Cancelation]
      BY <1>3, <1>4, <2>4 DEF CancelOnPipeFails, AloneFails
    <3>. QED  BY <2>1, <3>1 DEF RestTypeOK, managerVars
  <2>5. CASE AwaitRun(c)
    <3>1. can[c].run \in Execs
      BY <1>1, <2>5 DEF AwaitRun, CancelOK, Cancelation
    <3>2. ex[can[c].run].promise.value \in Outcomes
      BY <3>1 DEF RestTypeOK, Execution, Promise
    <3>3. can' \in [Cancels -> Cancelation]
      BY <1>4, <2>5, <3>2 DEF AwaitRun
    <3>. QED  BY <2>1, <3>3 DEF RestTypeOK, managerVars
  <2>. QED  BY <1>6, <2>2, <2>3, <2>4, <2>5
<1>7. CASE CancelWrites(c)
  <2>1. UNCHANGED <<stored, managerVars, readers, sub>>
    BY <1>7 DEF CancelWrites, OnlyCancelation
  <2>2. can' \in [Cancels -> Cancelation]
    BY <1>1, <1>7 DEF CancelWrites, Cancelation
  <2>3. ex' \in [Execs -> Execution]
    <3>1. can[c].run \in Execs
      BY <1>1, <1>7 DEF CancelWrites, CancelOK, Cancelation
    <3>2. PICK e \in CancelEmits(TaskOf[c]) : ex' = [ex EXCEPT ![can[c].run].pipe = Append(@, e)]
      BY <1>7 DEF CancelWrites
    <3>3. e \in Events
      BY <1>3, SettingFacts DEF RestTypeOK, CancelEmits, Events
    <3>4. ex[can[c].run] \in Execution /\ Append(ex[can[c].run].pipe, e) \in Seq(Events)
      BY <3>1, <3>3, AppendProperties DEF RestTypeOK, Execution
    <3>. QED  BY <3>1, <3>2, <3>4 DEF RestTypeOK, Execution
  <2>. QED  BY <2>1, <2>2, <2>3 DEF RestTypeOK, managerVars
<1>8. CASE AloneEvent(c) \/ AlonePushFails(c) \/ AloneRejects(c)
  <2>1. UNCHANGED <<managerVars, ex, readers, sub>>
    BY <1>8 DEF AloneEvent, AlonePushFails, AloneRejects, OnlyCancelation
  <2>2. CancelEmits(TaskOf[c]) \subseteq States
    BY <1>3, SettingFacts DEF RestTypeOK, CancelEmits
  <2>3. stored' \in [Tasks -> [state : States \cup {"none"}, version : Nat]]
    <3>1. CASE AloneEvent(c) \/ AloneRejects(c)
      BY <1>1, <1>3, <2>2, <3>1, Saved DEF AloneEvent, AloneRejects
    <3>2. CASE AlonePushFails(c)
      <4>1. \/ stored' = stored
            \/ \E e \in States : Save(TaskOf[c], e)
            \/ stored' = [stored EXCEPT ![TaskOf[c]] = [state |-> "failed", version |-> @.version + 2]]
        BY <2>2, <3>2 DEF AlonePushFails
      <4>2. CASE stored' = stored \/ \E e \in States : Save(TaskOf[c], e)
        BY <1>1, <4>2, Saved DEF RestTypeOK
      <4>3. CASE stored' = [stored EXCEPT ![TaskOf[c]] = [state |-> "failed", version |-> @.version + 2]]
        BY <1>1, <1>3, <4>3
      <4>. QED  BY <4>1, <4>2, <4>3
    <3>. QED  BY <1>8, <3>1, <3>2
  <2>4. can' \in [Cancels -> Cancelation]
    <3>1. CASE AloneEvent(c)
      <4>1. PICK e \in CancelEmits(TaskOf[c]) :
               IF IsFinal(e) THEN Resolve(c, e) ELSE can' = [can EXCEPT ![c].pc = "aloneMore"]
        BY <3>1 DEF AloneEvent
      <4>2. CASE IsFinal(e)
        BY <1>2, <1>4, <2>2, <4>1, <4>2
      <4>3. CASE ~IsFinal(e)
        BY <1>1, <4>1, <4>3 DEF Cancelation
      <4>. QED  BY <4>2, <4>3
    <3>2. CASE AlonePushFails(c)
      BY <1>3, <1>4, <3>2 DEF AlonePushFails
    <3>3. CASE AloneRejects(c)
      BY <1>3, <1>4, <3>3 DEF AloneRejects
    <3>. QED  BY <1>8, <3>1, <3>2, <3>3
  <2>. QED  BY <2>1, <2>3, <2>4 DEF RestTypeOK, managerVars
<1>9. CASE FinishCancel(c)
  <2>1. UNCHANGED <<setting, stored, executions, ex, readers, sub>>
    BY <1>9 DEF FinishCancel
  <2>2. cancelations' \in [Tasks -> Cancels \cup {None}]
    BY <1>1, <1>9 DEF RestTypeOK, FinishCancel
  <2>3. can' \in [Cancels -> Cancelation]
    BY <1>1, <1>9 DEF FinishCancel, Cancelation, Promise
  <2>. QED  BY <2>1, <2>2, <2>3 DEF RestTypeOK
<1>10. CASE CancelReturns(c) \/ CancelAbandoned(c)
  <2>1. UNCHANGED <<stored, managerVars, ex, readers, sub>>
    BY <1>10 DEF CancelReturns, CancelAbandoned, OnlyCancelation
  <2>2. \A v : Convert(v) \in {"none", "canceled", "error"}
    BY DEF Convert
  <2>3. CASE CancelReturns(c)
    <3>1. can' \in [Cancels -> Cancelation]
      BY <1>1, <2>2, <2>3 DEF CancelReturns, Cancelation
    <3>. QED  BY <2>1, <3>1 DEF RestTypeOK, managerVars
  <2>4. CASE CancelAbandoned(c)
    <3>1. can' \in [Cancels -> Cancelation]
      BY <1>1, <2>4 DEF CancelAbandoned, Cancelation
    <3>. QED  BY <2>1, <3>1 DEF RestTypeOK, managerVars
  <2>. QED  BY <1>10, <2>3, <2>4
<1>. QED  BY <1>5, <1>6, <1>7, <1>8, <1>9, <1>10 DEF Cancel

\* What a subscription yields is a message.
LEMMA EndsFacts ==
    ASSUME RestTypeOK, NEW s \in Subs, NEW label \in {"ended", "left"}, NEW yielded \in Message,
           Ends(s, label, yielded)
    PROVE  sub' \in [Subs -> Subscriber] /\ readers' \in [Tasks -> SUBSET Subs]
<1>1. sub[s] \in Subscriber /\ sub \in [Subs -> Subscriber] /\ readers \in [Tasks -> SUBSET Subs]
  BY DEF RestTypeOK
<1>2. <<>> \in Seq(Message)
  OBVIOUS
<1>3. sub' \in [Subs -> Subscriber]
  BY <1>1, <1>2 DEF Ends, Subscriber
<1>4. readers' \in [Tasks -> SUBSET Subs]
  BY <1>1, CallFacts DEF Ends
<1>. QED  BY <1>3, <1>4

\* Subscriptions keep the types.
LEMMA TypesSubscription ==
    ASSUME RestTypeOK, NEW s \in Subs, SubOK(s), Resubscribe(s) \/ Subscription(s) \/ Leave(s)
    PROVE  RestTypeOK'
<1>1. /\ sub[s] \in Subscriber /\ sub \in [Subs -> Subscriber] /\ TaskOf[s] \in Tasks
      /\ readers \in [Tasks -> SUBSET Subs]
  BY CallFacts DEF RestTypeOK
<1>2. UNCHANGED <<stored, managerVars, ex, can>>
  BY DEF Resubscribe, Subscription, SubSnapshot, SubRead, SubQueueClosed, SubPromise, Leave,
         OnlySubscription
<1>3. CASE Resubscribe(s)
  <2>1. executions[TaskOf[s]] \in Execs \cup {None}
    BY <1>1 DEF RestTypeOK
  <2>2. sub' \in [Subs -> Subscriber]
    <3>. DEFINE y == executions[TaskOf[s]]
    <3>1. CASE sub' = [sub EXCEPT ![s].pc = "refused"]
      BY <1>1, <3>1 DEF Subscriber
    <3>2. CASE y # None /\ sub' = [sub EXCEPT ![s].pc = "snapshot", ![s].of = y]
      <4>1. sub' = [sub EXCEPT ![s] = [sub[s] EXCEPT !.pc = "snapshot", !.of = y]]
        BY <1>1, <3>2
      <4>2. [sub[s] EXCEPT !.pc = "snapshot", !.of = y] \in Subscriber
        BY <1>1, <2>1 DEF Subscriber
      <4>. QED  BY <1>1, <4>1, <4>2
    <3>. QED  BY <1>3, <3>1, <3>2 DEF Resubscribe
  <2>3. readers' \in [Tasks -> SUBSET Subs]
    BY <1>1, <1>3 DEF Resubscribe
  <2>. QED  BY <1>2, <2>2, <2>3 DEF RestTypeOK, managerVars
<1>4. CASE SubSnapshot(s)
  <2>. DEFINE yielded == [event |-> stored[TaskOf[s]].state, version |-> stored[TaskOf[s]].version]
  <2>1. yielded \in Message /\ stored[TaskOf[s]].version \in Nat
    BY <1>1 DEF RestTypeOK, Message, Outcomes, Events
  <2>2. CASE Terminal(stored[TaskOf[s]].state)
    <3>1. Ends(s, "ended", yielded)
      BY <1>4, <2>2 DEF SubSnapshot
    <3>. QED  BY <1>2, <2>1, <3>1, EndsFacts DEF RestTypeOK, managerVars
  <2>3. CASE ~Terminal(stored[TaskOf[s]].state)
    <3>1. sub' = [sub EXCEPT ![s].pc = "reading", ![s].seen = yielded, ![s].snap = stored[TaskOf[s]].version]
          /\ UNCHANGED readers
      BY <1>4, <2>3 DEF SubSnapshot
    <3>. HIDE DEF yielded
    <3>2. sub' \in [Subs -> Subscriber]
      BY <1>1, <2>1, <3>1 DEF Subscriber
    <3>. QED  BY <1>2, <3>1, <3>2 DEF RestTypeOK, managerVars
  <2>. QED  BY <2>2, <2>3
<1>5. CASE SubRead(s)
  <2>1. sub[s].queue \in Seq(Message) /\ sub[s].queue # <<>>
    BY <1>1, <1>5 DEF SubRead, Subscriber
  <2>2. Head(sub[s].queue) \in Message /\ Tail(sub[s].queue) \in Seq(Message)
    BY <2>1, HeadTailProperties
  <2>3. CASE Ends(s, "ended", Head(sub[s].queue))
    BY <1>2, <2>2, <2>3, EndsFacts DEF RestTypeOK, managerVars
  <2>4. CASE sub' = [sub EXCEPT ![s].queue = Tail(@)] /\ UNCHANGED readers
    <3>1. sub' \in [Subs -> Subscriber]
      BY <1>1, <2>2, <2>4 DEF Subscriber
    <3>. QED  BY <1>2, <2>4, <3>1 DEF RestTypeOK, managerVars
  <2>5. CASE sub' = [sub EXCEPT ![s].queue = Tail(@), ![s].seen = Head(sub[s].queue)] /\ UNCHANGED readers
    <3>1. sub' \in [Subs -> Subscriber]
      BY <1>1, <2>2, <2>5 DEF Subscriber
    <3>. QED  BY <1>2, <2>5, <3>1 DEF RestTypeOK, managerVars
  <2>. QED  BY <1>5, <2>3, <2>4, <2>5 DEF SubRead
<1>6. CASE SubQueueClosed(s)
  <2>1. sub' \in [Subs -> Subscriber]
    BY <1>1, <1>6 DEF SubQueueClosed, Subscriber
  <2>. QED  BY <1>2, <1>6, <2>1 DEF RestTypeOK, managerVars, SubQueueClosed
<1>7. CASE SubPromise(s)
  <2>1. sub[s].of \in Execs
    BY <1>1, <1>7 DEF SubPromise, SubOK, Subscriber
  <2>2. ex[sub[s].of].promise.value \in Outcomes /\ sub[s].seen \in Message
    BY <1>1, <2>1 DEF RestTypeOK, Execution, Promise, Subscriber
  <2>3. [sub[s].seen EXCEPT !.event = ex[sub[s].of].promise.value] \in Message
    BY <2>2 DEF Message
  <2>. QED  BY <1>2, <1>7, <2>3, EndsFacts DEF SubPromise, RestTypeOK, managerVars
<1>8. CASE Leave(s)
  <2>1. sub[s].seen \in Message
    BY <1>1 DEF Subscriber
  <2>. QED  BY <1>2, <1>8, <2>1, EndsFacts DEF Leave, RestTypeOK, managerVars
<1>. QED  BY <1>3, <1>4, <1>5, <1>6, <1>7, <1>8 DEF Subscription

\* A step keeps every variable but the limiter's in its type.
LEMMA StepRestTypeOK ==
    ASSUME IndInv, Next
    PROVE  RestTypeOK'
<1>1. RestTypeOK /\ (\A c \in Cancels : CancelOK(c)) /\ (\A s \in Subs : SubOK(s))
  BY DEF IndInv, TypeOK, RestTypeOK
<1>2. ASSUME NEW x \in Execs, ExecuteCall(x) \/ Agent(x) \/ InactivityTimeout(x) \/ WaitAbandoned(x)
      PROVE  RestTypeOK'
  BY <1>1, <1>2, TypesExecution DEF Agent
<1>3. ASSUME NEW x \in Execs, Consumer(x)  PROVE RestTypeOK'
  BY <1>1, <1>3, TypesExecution, TypesProcess, TypesPublish, TypesHandleError DEF Consumer
<1>4. ASSUME NEW x \in Execs, Execute(x)  PROVE RestTypeOK'
  BY <1>1, <1>4, TypesExecution, TypesRegister, TypesQueues, TypesSetup DEF Execute
<1>5. ASSUME NEW c \in Cancels, CancelCall(c) \/ Cancel(c) \/ CancelAbandoned(c)  PROVE RestTypeOK'
  BY <1>1, <1>5, TypesCancel
<1>6. ASSUME NEW s \in Subs, Resubscribe(s) \/ Subscription(s) \/ Leave(s)  PROVE RestTypeOK'
  BY <1>1, <1>6, TypesSubscription
<1>7. Resubs \subseteq Subs
  BY DEF Subs
<1>. QED  BY <1>2, <1>3, <1>4, <1>5, <1>6, <1>7 DEF Next, Call

-----------------------------------------------------------------------------
(***************************************************************************)
(* Whose step it is, and what that leaves alone.                           *)
(***************************************************************************)
ExecStep(x) ==
    ExecuteCall(x) \/ Agent(x) \/ InactivityTimeout(x) \/ WaitAbandoned(x) \/ Consumer(x) \/ Execute(x)
CancelStep(c) == CancelCall(c) \/ Cancel(c) \/ CancelAbandoned(c)
SubStep(s) == Resubscribe(s) \/ Subscription(s) \/ Leave(s)

\* Every step is one of an execution, a cancelation or a subscription.
LEMMA Steps ==
    ASSUME Next
    PROVE  (\E x \in Execs : ExecStep(x)) \/ (\E c \in Cancels : CancelStep(c)) \/ (\E s \in Subs : SubStep(s))
BY DEF Next, Call, ExecStep, CancelStep, SubStep, Subs

\* An execution leaves the others and the cancelations alone, and resolves its
\* promise for good.
LEMMA ExecFrame ==
    ASSUME RestTypeOK, NEW x \in Execs, ExecStep(x)
    PROVE  /\ \A y \in Execs : y # x => ex'[y] = ex[y]
           /\ ex[x].promise.done => ex'[x].promise.done
           /\ UNCHANGED <<setting, cancelations, can>>
<1>1. ex[x] \in Execution /\ ex \in [Execs -> Execution]
  BY DEF RestTypeOK
<1>2. CASE ExecuteCall(x) \/ Agent(x) \/ InactivityTimeout(x) \/ WaitAbandoned(x)
  <2>1. UNCHANGED <<setting, cancelations, can>>
    BY <1>2 DEF ExecuteCall, Agent, Emit, AgentReturns, AgentFails, InactivityTimeout, WaitAbandoned,
                OnlyExecution, managerVars
  <2>2. \A y \in Execs : y # x => ex'[y] = ex[y]
    BY <1>1, <1>2 DEF ExecuteCall, Agent, Emit, AgentReturns, AgentFails, InactivityTimeout, WaitAbandoned
  <2>3. ex'[x].promise = ex[x].promise
    <3>1. CASE ExecuteCall(x) \/ WaitAbandoned(x)
      BY <1>1, <3>1 DEF ExecuteCall, WaitAbandoned, Execution
    <3>2. CASE Emit(x)
      <4>1. PICK p, n : ex' = [ex EXCEPT ![x].pipe = p, ![x].sent = n]
        BY <3>2 DEF Emit
      <4>. QED  BY <1>1, <4>1 DEF Execution
    <3>3. CASE AgentReturns(x) \/ AgentFails(x) \/ InactivityTimeout(x)
      BY <1>1, <3>3 DEF AgentReturns, AgentFails, InactivityTimeout, Execution
    <3>. QED  BY <1>2, <3>1, <3>2, <3>3 DEF Agent
  <2>. QED  BY <2>1, <2>2, <2>3
<1>3. CASE Consumer(x)
  <2>1. UNCHANGED <<setting, cancelations, can>>
    BY <1>3 DEF Consumer, ProcessEvent, RejectEvent, PushFails, Processed, FlagExiting, Publish, PublishFails,
                ReadFails, HandleError, OnlyExecution, managerVars
  <2>2. \A y \in Execs : y # x => ex'[y] = ex[y]
    BY <1>1, <1>3 DEF Consumer, ProcessEvent, RejectEvent, PushFails, Processed, FlagExiting, Publish,
                      PublishFails, ReadFails, HandleError
  <2>3. ex'[x].promise = ex[x].promise
    <3>1. CASE ProcessEvent(x) \/ RejectEvent(x) \/ PushFails(x)
      <4>1. PICK event, version, r : Processed(x, event, version, r)
        BY <3>1 DEF ProcessEvent, RejectEvent, PushFails
      <4>. QED  BY <1>1, <4>1 DEF Processed, Execution
    <3>2. CASE FlagExiting(x) \/ Publish(x) \/ PublishFails(x) \/ ReadFails(x) \/ HandleError(x)
      BY <1>1, <3>2 DEF FlagExiting, Publish, PublishFails, ReadFails, HandleError, Execution
    <3>. QED  BY <1>3, <3>1, <3>2 DEF Consumer
  <2>. QED  BY <2>1, <2>2, <2>3
<1>4. CASE Execute(x)
  <2>1. UNCHANGED <<setting, cancelations, can>>
    BY <1>4 DEF Execute, WaitExiting, CreateExecution, CreateQueues, CreateQueuesFails, SetupExecution,
                SetupFails, ExecutionReturns, DestroyQueue, ClosePipe, Unregister, OnlyExecution, managerVars
  <2>2. \A y \in Execs : y # x => ex'[y] = ex[y]
    BY <1>1, <1>4 DEF Execute, WaitExiting, CreateExecution, CreateQueues, CreateQueuesFails, SetupExecution,
                SetupFails, ExecutionReturns, DestroyQueue, ClosePipe, Unregister
  <2>3. ex[x].promise.done => ex'[x].promise.done
    BY <1>1, <1>4 DEF Execute, WaitExiting, CreateExecution, CreateQueues, CreateQueuesFails, SetupExecution,
                SetupFails, ExecutionReturns, DestroyQueue, ClosePipe, Unregister, Execution, Promise
  <2>. QED  BY <2>1, <2>2, <2>3
<1>. QED  BY <1>2, <1>3, <1>4 DEF ExecStep

\* A cancelation leaves the others, the registered executions and the limiter
\* alone; of an execution it touches at most the pipe.
LEMMA CancelFrame ==
    ASSUME RestTypeOK, NEW c \in Cancels, CancelStep(c)
    PROVE  /\ \A d \in Cancels : d # c => can'[d] = can[d]
           /\ UNCHANGED <<setting, executions, quota, byScope, readers, sub>>
           /\ \A y \in Execs : /\ ex'[y].pc = ex[y].pc /\ ex'[y].waitingFor = ex[y].waitingFor
                               /\ ex'[y].agent = ex[y].agent /\ ex'[y].cons = ex[y].cons
                               /\ ex'[y].out = ex[y].out /\ ex'[y].result = ex[y].result
                               /\ ex'[y].exiting = ex[y].exiting /\ ex'[y].promise = ex[y].promise
<1>1. can[c] \in Cancelation /\ can \in [Cancels -> Cancelation]
  BY DEF RestTypeOK
<1>2. \A d \in Cancels : d # c => can'[d] = can[d]
  BY <1>1 DEF CancelStep, CancelCall, Cancel, CancelSetup, CancelWrites, CancelOnPipe, CancelOnPipeFails, AwaitRun,
         AloneEvent, AlonePushFails, AloneRejects, AloneFails, FinishCancel, CancelReturns, CancelAbandoned, Resolve
<1>3. UNCHANGED <<setting, executions, quota, byScope, readers, sub>>
  BY DEF CancelStep, CancelCall, Cancel, CancelSetup, CancelWrites, CancelOnPipe, CancelOnPipeFails, AwaitRun,
         AloneEvent, AlonePushFails, AloneRejects, AloneFails, FinishCancel, CancelReturns, CancelAbandoned, OnlyCancelation,
         managerVars
<1>4. CASE UNCHANGED ex
  BY <1>2, <1>3, <1>4
<1>5. CASE CancelWrites(c)
  <2>1. PICK p : ex' = [ex EXCEPT ![can[c].run].pipe = p]
    BY <1>5 DEF CancelWrites
  <2>2. ASSUME NEW y \in Execs
        PROVE  ex'[y] = ex[y] \/ ex'[y] = [ex[y] EXCEPT !.pipe = p]
    BY <2>1 DEF RestTypeOK
  <2>3. ASSUME NEW y \in Execs
        PROVE  /\ ex'[y].pc = ex[y].pc /\ ex'[y].waitingFor = ex[y].waitingFor
               /\ ex'[y].agent = ex[y].agent /\ ex'[y].cons = ex[y].cons
               /\ ex'[y].out = ex[y].out /\ ex'[y].result = ex[y].result
               /\ ex'[y].exiting = ex[y].exiting /\ ex'[y].promise = ex[y].promise
    <3>1. CASE ex'[y] = ex[y]
      BY <3>1
    <3>2. CASE ex'[y] = [ex[y] EXCEPT !.pipe = p]
      <4>1. ex[y] \in Execution
        BY DEF RestTypeOK
      <4>. QED  BY <3>2, <4>1 DEF Execution
    <3>. QED  BY <2>2, <3>1, <3>2
  <2>. QED  BY <1>2, <1>3, <2>3
<1>. QED
  BY <1>4, <1>5 DEF CancelStep, CancelCall, Cancel, CancelSetup, CancelOnPipe, CancelOnPipeFails,
     AwaitRun, AloneEvent, AlonePushFails, AloneRejects, AloneFails, FinishCancel, CancelReturns, CancelAbandoned

\* A subscription leaves everything but its queue alone.
LEMMA SubFrame ==
    ASSUME RestTypeOK, NEW s \in Subs, SubStep(s)
    PROVE  /\ UNCHANGED <<stored, managerVars, ex, can>>
           /\ \A r \in Subs : r # s => sub'[r] = sub[r]
           /\ \A t \in Tasks : t # TaskOf[s] => readers'[t] = readers[t]
           /\ \A t \in Tasks : \A r \in Subs : r # s => (r \in readers'[t] <=> r \in readers[t])
<1>1. sub \in [Subs -> Subscriber] /\ readers \in [Tasks -> SUBSET Subs] /\ TaskOf[s] \in Tasks
  BY CallFacts DEF RestTypeOK
<1>2. UNCHANGED <<stored, managerVars, ex, can>>
  BY DEF SubStep, Resubscribe, Subscription, SubSnapshot, SubRead, SubQueueClosed, SubPromise, Leave,
         OnlySubscription
<1>3. CASE Resubscribe(s)
  BY <1>1, <1>2, <1>3 DEF Resubscribe
<1>4. CASE \E label, yielded : Ends(s, label, yielded)
  BY <1>1, <1>2, <1>4 DEF Ends
<1>5. CASE /\ UNCHANGED readers
           /\ SubSnapshot(s) \/ SubRead(s) \/ SubQueueClosed(s)
  <2>1. \A r \in Subs : r # s => sub'[r] = sub[r]
    BY <1>1, <1>5 DEF SubSnapshot, SubRead, SubQueueClosed, Ends
  <2>. QED  BY <1>2, <1>5, <2>1
<1>. QED  BY <1>3, <1>4, <1>5 DEF SubStep, Subscription, SubSnapshot, SubRead, SubQueueClosed, SubPromise, Leave

-----------------------------------------------------------------------------
(***************************************************************************)
(* Registration and the limiter.                                           *)
(***************************************************************************)
Creates(x) == CreateExecution(x) /\ ~Refuses(x)

\* Only createExecution and the cleanup change who is registered.
LEMMA KeepsRegistration ==
    ASSUME RestTypeOK, NEW x \in Execs, ExecStep(x), ~Creates(x), ~Unregister(x)
    PROVE  /\ UNCHANGED <<executions, quota, byScope>>
           /\ \A y \in Execs : Registered(y)' <=> Registered(y)
<1>1. ex[x] \in Execution /\ ex \in [Execs -> Execution]
  BY DEF RestTypeOK
<1>2. UNCHANGED <<executions, quota, byScope>>
  <2>1. CASE Execute(x)
    BY <2>1 DEF Execute, WaitExiting, CreateExecution, CreateQueues, CreateQueuesFails, SetupExecution,
            SetupFails, ExecutionReturns, DestroyQueue, ClosePipe, OnlyExecution, managerVars, Creates
  <2>2. CASE Consumer(x)
    BY <2>2 DEF Consumer, ProcessEvent, RejectEvent, PushFails, Processed, FlagExiting, Publish, PublishFails,
                ReadFails, HandleError, OnlyExecution, managerVars
  <2>. QED  BY <2>1, <2>2 DEF ExecStep, ExecuteCall, Agent, Emit, AgentReturns, AgentFails, InactivityTimeout,
                             WaitAbandoned, OnlyExecution, managerVars
<1>3. Registered(x)' <=> Registered(x)
  <2>1. CASE ExecuteCall(x) \/ WaitAbandoned(x)
    BY <1>1, <2>1 DEF ExecuteCall, WaitAbandoned, Registered, Execution
  <2>2. CASE ex'[x].pc = ex[x].pc
    BY <2>2 DEF Registered
  <2>3. CASE Agent(x) \/ InactivityTimeout(x)
    <3>1. CASE Emit(x)
      <4>1. PICK p, n : ex' = [ex EXCEPT ![x].pipe = p, ![x].sent = n]
        BY <3>1 DEF Emit
      <4>2. ex'[x].pc = ex[x].pc
        BY <1>1, <4>1 DEF Execution
      <4>. QED  BY <2>2, <4>2
    <3>2. CASE AgentReturns(x) \/ AgentFails(x) \/ InactivityTimeout(x)
      <4>1. ex'[x].pc = ex[x].pc
        BY <1>1, <3>2 DEF AgentReturns, AgentFails, InactivityTimeout, Execution
      <4>. QED  BY <2>2, <4>1
    <3>. QED  BY <2>3, <3>1, <3>2 DEF Agent
  <2>4. CASE Consumer(x)
    <3>1. CASE ProcessEvent(x) \/ RejectEvent(x) \/ PushFails(x)
      <4>1. PICK event, version, r : Processed(x, event, version, r)
        BY <3>1 DEF ProcessEvent, RejectEvent, PushFails
      <4>2. ex'[x].pc = ex[x].pc
        BY <1>1, <4>1 DEF Processed, Execution
      <4>. QED  BY <2>2, <4>2
    <3>2. CASE FlagExiting(x) \/ Publish(x) \/ PublishFails(x) \/ ReadFails(x) \/ HandleError(x)
      <4>1. ex'[x].pc = ex[x].pc
        BY <1>1, <3>2 DEF FlagExiting, Publish, PublishFails, ReadFails, HandleError, Execution
      <4>. QED  BY <2>2, <4>1
    <3>. QED  BY <2>4, <3>1, <3>2 DEF Consumer
  <2>5. CASE Execute(x)
    <3>1. CASE WaitExiting(x) \/ CreateExecution(x) \/ CreateQueues(x) \/ CreateQueuesFails(x)
      BY <1>1, <3>1 DEF WaitExiting, CreateExecution, CreateQueues, CreateQueuesFails, Creates, Registered, Execution
    <3>2. CASE SetupExecution(x) \/ SetupFails(x) \/ ExecutionReturns(x)
      BY <1>1, <3>2 DEF SetupExecution, SetupFails, ExecutionReturns, Registered, Execution
    <3>3. CASE DestroyQueue(x) \/ ClosePipe(x)
      BY <1>1, <3>3 DEF DestroyQueue, ClosePipe, Registered, Execution
    <3>. QED  BY <2>5, <3>1, <3>2, <3>3 DEF Execute
  <2>. QED  BY <2>1, <2>3, <2>4, <2>5 DEF ExecStep
<1>4. \A y \in Execs : y # x => ex'[y] = ex[y]
  BY ExecFrame
<1>. QED  BY <1>2, <1>3, <1>4 DEF Registered

\* What createExecution and the cleanup do to the books.
LEMMA ChangesRegistration ==
    ASSUME RestTypeOK, NEW x \in Execs
    PROVE  /\ Creates(x) => /\ executions[TaskOf[x]] = None /\ cancelations[TaskOf[x]] = None /\ ~OverQuota(x)
                            /\ executions' = [executions EXCEPT ![TaskOf[x]] = x]
                            /\ Acquire(x) /\ ~Registered(x) /\ Registered(x)'
                            /\ \A y \in Execs : y # x => (Registered(y)' <=> Registered(y))
           /\ Unregister(x) => /\ executions' = [executions EXCEPT ![TaskOf[x]] = None]
                               /\ Release(x) /\ Registered(x) /\ ~Registered(x)'
                               /\ \A y \in Execs : y # x => (Registered(y)' <=> Registered(y))
<1>1. ex[x] \in Execution /\ ex \in [Execs -> Execution]
  BY DEF RestTypeOK
<1>2. ASSUME Creates(x) PROVE ex' = [ex EXCEPT ![x].pc = "queues"] /\ ex[x].pc = "create"
  BY <1>2 DEF Creates, CreateExecution
<1>3. ASSUME Unregister(x)
      PROVE  ex' = [ex EXCEPT ![x].pc = "done", ![x].promise.done = TRUE] /\ ex[x].pc = "unregister"
  BY <1>3 DEF Unregister
<1>4. ASSUME Creates(x)
      PROVE  /\ ~Registered(x) /\ Registered(x)'
             /\ \A y \in Execs : y # x => (Registered(y)' <=> Registered(y))
  BY <1>1, <1>2, <1>4 DEF Registered, Execution
<1>5. ASSUME Unregister(x)
      PROVE  /\ Registered(x) /\ ~Registered(x)'
             /\ \A y \in Execs : y # x => (Registered(y)' <=> Registered(y))
  BY <1>1, <1>3, <1>5 DEF Registered, Execution
<1>6. ASSUME Creates(x)
      PROVE  /\ executions[TaskOf[x]] = None /\ cancelations[TaskOf[x]] = None /\ ~OverQuota(x)
             /\ executions' = [executions EXCEPT ![TaskOf[x]] = x] /\ Acquire(x)
  BY <1>6 DEF Creates, CreateExecution, Refuses
<1>7. ASSUME Unregister(x)
      PROVE  executions' = [executions EXCEPT ![TaskOf[x]] = None] /\ Release(x)
  BY <1>7 DEF Unregister
<1>. QED  BY <1>4, <1>5, <1>6, <1>7

\* The registered executions of a scope.
ScopeExecs(s) == {x \in Execs : Registered(x) /\ ScopeOf[x] = s}

\* The limiter's books are exact after every step.
LEMMA StepBooks ==
    ASSUME IndInv, Next
    PROVE  TypeOK' /\ QuotaExact' /\ IsFiniteSet(RegisteredExecs)'
<1>1. RestTypeOK'
  BY StepRestTypeOK
<1>2. /\ RestTypeOK /\ QuotaExact /\ IsFiniteSet(RegisteredExecs) /\ quota \in Nat
      /\ byScope \in [Scopes -> Nat] /\ \A x \in Execs : ScopeOf[x] \in Scopes
  BY CallFacts DEF IndInv, TypeOK, RestTypeOK
<1>3. /\ quota = Cardinality(RegisteredExecs)
      /\ \A s \in Scopes : byScope[s] = Cardinality(ScopeExecs(s)) /\ IsFiniteSet(ScopeExecs(s))
  <2>1. \A s \in Scopes : ScopeExecs(s) \subseteq RegisteredExecs
    BY DEF ScopeExecs, RegisteredExecs
  <2>. QED  BY <1>2, <2>1, FS_Subset DEF QuotaExact, ScopeExecs, RegisteredExecs
<1>4. setting.maxExecutions \in Nat /\ setting.maxPerScope \in Nat
  BY <1>2, SettingFacts DEF RestTypeOK
<1>5. SUFFICES /\ quota' \in Nat /\ byScope' \in [Scopes -> Nat] /\ IsFiniteSet(RegisteredExecs')
               /\ quota' = Cardinality(RegisteredExecs')
               /\ \A s \in Scopes : byScope'[s] = Cardinality(ScopeExecs(s)')
               /\ setting'.maxExecutions > 0 => quota' <= setting'.maxExecutions
               /\ setting'.maxPerScope > 0 => \A s \in Scopes : byScope'[s] <= setting'.maxPerScope
  BY <1>1 DEF TypeOK, RestTypeOK, QuotaExact, RegisteredExecs, ScopeExecs
<1>6. CASE /\ UNCHANGED <<setting, quota, byScope>>
           /\ \A y \in Execs : Registered(y)' <=> Registered(y)
  <2>1. RegisteredExecs' = RegisteredExecs /\ \A s \in Scopes : ScopeExecs(s)' = ScopeExecs(s)
    BY <1>6 DEF RegisteredExecs, ScopeExecs
  <2>2. setting' = setting /\ quota' = quota /\ byScope' = byScope
    BY <1>6
  <2>. QED  BY <1>2, <1>3, <2>1, <2>2 DEF QuotaExact
<1>7. ASSUME NEW x \in Execs, Creates(x), UNCHANGED setting  PROVE <1>5!1
  <2>1. /\ ~OverQuota(x) /\ Acquire(x) /\ ~Registered(x) /\ Registered(x)'
        /\ \A y \in Execs : y # x => (Registered(y)' <=> Registered(y))
    BY <1>2, <1>7, ChangesRegistration
  <2>2. RegisteredExecs' = RegisteredExecs \cup {x} /\ x \notin RegisteredExecs
    BY <2>1 DEF RegisteredExecs
  <2>3. /\ ScopeExecs(ScopeOf[x])' = ScopeExecs(ScopeOf[x]) \cup {x} /\ x \notin ScopeExecs(ScopeOf[x])
        /\ \A s \in Scopes : s # ScopeOf[x] => ScopeExecs(s)' = ScopeExecs(s)
    BY <2>1 DEF ScopeExecs
  <2>4. IsFiniteSet(RegisteredExecs') /\ Cardinality(RegisteredExecs') = Cardinality(RegisteredExecs) + 1
    BY <1>2, <2>2, FS_AddElement
  <2>5. Cardinality(ScopeExecs(ScopeOf[x])') = Cardinality(ScopeExecs(ScopeOf[x])) + 1
    BY <1>2, <1>3, <2>3, FS_AddElement
  <2>6. quota' = quota + 1 /\ byScope' = [byScope EXCEPT ![ScopeOf[x]] = byScope[ScopeOf[x]] + 1]
    BY <2>1 DEF Acquire
  <2>7. \A s \in Scopes : byScope'[s] = IF s = ScopeOf[x] THEN byScope[s] + 1 ELSE byScope[s]
    BY <1>2, <2>6
  <2>8. \A s \in Scopes : byScope'[s] = Cardinality(ScopeExecs(s)')
    BY <1>2, <1>3, <2>3, <2>5, <2>7
  <2>9. quota' \in Nat /\ byScope' \in [Scopes -> Nat]
    BY <1>2, <2>6
  <2>10. setting.maxExecutions > 0 => quota' <= setting.maxExecutions
    BY <1>2, <1>4, <2>1, <2>6 DEF OverQuota
  <2>11. setting.maxPerScope > 0 => \A s \in Scopes : byScope'[s] <= setting.maxPerScope
    BY <1>2, <1>4, <2>1, <2>7 DEF OverQuota, QuotaExact
  <2>. QED  BY <1>3, <1>7, <2>4, <2>6, <2>8, <2>9, <2>10, <2>11
<1>8. ASSUME NEW x \in Execs, Unregister(x), UNCHANGED setting  PROVE <1>5!1
  <2>1. /\ Release(x) /\ Registered(x) /\ ~Registered(x)'
        /\ \A y \in Execs : y # x => (Registered(y)' <=> Registered(y))
    BY <1>2, <1>8, ChangesRegistration
  <2>2. RegisteredExecs' = RegisteredExecs \ {x} /\ x \in RegisteredExecs
    BY <2>1 DEF RegisteredExecs
  <2>3. /\ ScopeExecs(ScopeOf[x])' = ScopeExecs(ScopeOf[x]) \ {x} /\ x \in ScopeExecs(ScopeOf[x])
        /\ \A s \in Scopes : s # ScopeOf[x] => ScopeExecs(s)' = ScopeExecs(s)
    BY <2>1 DEF ScopeExecs
  <2>4. IsFiniteSet(RegisteredExecs') /\ Cardinality(RegisteredExecs') = Cardinality(RegisteredExecs) - 1
    BY <1>2, <2>2, FS_RemoveElement
  <2>5. /\ Cardinality(ScopeExecs(ScopeOf[x])') = Cardinality(ScopeExecs(ScopeOf[x])) - 1
        /\ IsFiniteSet(ScopeExecs(ScopeOf[x])')
    BY <1>2, <1>3, <2>3, FS_RemoveElement
  <2>6. quota' = quota - 1 /\ byScope' = [byScope EXCEPT ![ScopeOf[x]] = byScope[ScopeOf[x]] - 1]
    BY <2>1 DEF Release
  <2>7. \A s \in Scopes : byScope'[s] = IF s = ScopeOf[x] THEN byScope[s] - 1 ELSE byScope[s]
    BY <1>2, <2>6
  <2>8. \A s \in Scopes : byScope'[s] = Cardinality(ScopeExecs(s)')
    BY <1>2, <1>3, <2>3, <2>5, <2>7
  <2>9. quota' \in Nat /\ byScope' \in [Scopes -> Nat]
    <3>1. quota' \in Nat
      BY <1>3, <2>4, <2>6, FS_CardinalityType
    <3>2. byScope'[ScopeOf[x]] \in Nat
      BY <1>2, <2>5, <2>8, FS_CardinalityType
    <3>3. \A s \in Scopes : byScope'[s] \in Nat
      BY <1>2, <2>7, <3>2
    <3>. QED  BY <1>2, <2>6, <3>1, <3>3
  <2>10. setting.maxExecutions > 0 => quota' <= setting.maxExecutions
    BY <1>2, <1>4, <2>6 DEF QuotaExact
  <2>11. setting.maxPerScope > 0 => \A s \in Scopes : byScope'[s] <= setting.maxPerScope
    BY <1>2, <1>4, <2>7 DEF QuotaExact
  <2>. QED  BY <1>3, <1>8, <2>4, <2>6, <2>8, <2>9, <2>10, <2>11
<1>9. ASSUME NEW x \in Execs, ExecStep(x)  PROVE <1>5!1
  BY <1>2, <1>6, <1>7, <1>8, <1>9, KeepsRegistration, ExecFrame
<1>10. ASSUME NEW c \in Cancels, CancelStep(c)  PROVE <1>5!1
  BY <1>2, <1>6, <1>10, CancelFrame DEF Registered
<1>11. ASSUME NEW s \in Subs, SubStep(s)  PROVE <1>5!1
  BY <1>2, <1>6, <1>11, SubFrame DEF Registered, managerVars
<1>. QED  BY <1>9, <1>10, <1>11, Steps

\* localManager's maps hold the registered calls after every step.
LEMMA StepRegOK ==
    ASSUME IndInv, Next
    PROVE  RegOK'
<1>1. /\ RestTypeOK /\ RegOK /\ executions \in [Tasks -> Execs \cup {None}]
      /\ cancelations \in [Tasks -> Cancels \cup {None}] /\ can \in [Cancels -> Cancelation]
      /\ \A c \in Cancels : CancelOK(c)
  BY DEF IndInv, TypeOK, RestTypeOK
<1>2. ASSUME NEW x \in Execs, ExecStep(x)  PROVE RegOK'
  <2>1. UNCHANGED <<cancelations, can>>
    BY <1>1, <1>2, ExecFrame
  <2>2. /\ \A c \in Cancels : can'[c].pc \notin {"idle", "done"} <=> cancelations'[TaskOf[c]] = c
        /\ \A t \in Tasks : cancelations'[t] # None => TaskOf[cancelations'[t]] = t
    BY <1>1, <2>1 DEF RegOK
  <2>3. CASE Creates(x)
    <3>1. /\ executions[TaskOf[x]] = None /\ executions' = [executions EXCEPT ![TaskOf[x]] = x]
          /\ Registered(x)' /\ \A y \in Execs : y # x => (Registered(y)' <=> Registered(y))
      BY <1>1, <2>3, ChangesRegistration
    <3>2. \A y \in Execs : Registered(y)' <=> executions'[TaskOf[y]] = y
      BY <1>1, <3>1, CallFacts DEF RegOK
    <3>3. \A t \in Tasks : executions'[t] # None => TaskOf[executions'[t]] = t
      BY <1>1, <3>1, CallFacts DEF RegOK
    <3>. QED  BY <2>2, <3>2, <3>3 DEF RegOK, Registered
  <2>4. CASE Unregister(x)
    <3>1. /\ executions' = [executions EXCEPT ![TaskOf[x]] = None] /\ Registered(x)
          /\ ~Registered(x)' /\ \A y \in Execs : y # x => (Registered(y)' <=> Registered(y))
      BY <1>1, <2>4, ChangesRegistration
    <3>2. \A y \in Execs : Registered(y)' <=> executions'[TaskOf[y]] = y
      BY <1>1, <3>1, CallFacts DEF RegOK
    <3>3. \A t \in Tasks : executions'[t] # None => TaskOf[executions'[t]] = t
      BY <1>1, <3>1, CallFacts DEF RegOK
    <3>. QED  BY <2>2, <3>2, <3>3 DEF RegOK, Registered
  <2>5. CASE ~Creates(x) /\ ~Unregister(x)
    <3>1. executions' = executions /\ \A y \in Execs : Registered(y)' <=> Registered(y)
      BY <1>1, <1>2, <2>5, KeepsRegistration
    <3>. QED  BY <1>1, <2>2, <3>1 DEF RegOK, Registered
  <2>. QED  BY <2>3, <2>4, <2>5
<1>3. ASSUME NEW c \in Cancels, CancelStep(c)  PROVE RegOK'
  <2>1. /\ executions' = executions /\ (\A y \in Execs : ex'[y].pc = ex[y].pc)
        /\ \A d \in Cancels : d # c => can'[d] = can[d]
    BY <1>1, <1>3, CancelFrame
  <2>2. /\ \A y \in Execs : Registered(y)' <=> executions'[TaskOf[y]] = y
        /\ \A t \in Tasks : executions'[t] # None => TaskOf[executions'[t]] = t
    BY <1>1, <2>1 DEF RegOK, Registered
  <2>3. SUFFICES /\ \A d \in Cancels : can'[d].pc \notin {"idle", "done"} <=> cancelations'[TaskOf[d]] = d
                 /\ \A t \in Tasks : cancelations'[t] # None => TaskOf[cancelations'[t]] = t
    BY <2>2 DEF RegOK
  <2>4. can[c] \in Cancelation /\ (can[c].leader = None => can[c].pc = "idle")
    BY <1>1 DEF CancelOK
  <2>5. CASE CancelCall(c)
    <3>1. CASE cancelations[TaskOf[c]] = None
      <4>1. cancelations' = [cancelations EXCEPT ![TaskOf[c]] = c] /\ can'[c].pc = "setup"
        BY <1>1, <2>4, <2>5, <3>1 DEF CancelCall, Cancelation
      <4>. QED  BY <1>1, <2>1, <3>1, <4>1, CallFacts DEF RegOK
    <3>2. CASE cancelations[TaskOf[c]] # None
      <4>1. cancelations' = cancelations /\ can'[c].pc = can[c].pc
        BY <1>1, <2>4, <2>5, <3>2 DEF CancelCall, Cancelation
      <4>. QED  BY <1>1, <2>1, <4>1 DEF RegOK
    <3>. QED  BY <3>1, <3>2
  <2>6. CASE FinishCancel(c)
    <3>1. /\ cancelations' = [cancelations EXCEPT ![TaskOf[c]] = None] /\ can'[c].pc = "done"
          /\ can[c].pc = "finish"
      BY <1>1, <2>4, <2>6 DEF FinishCancel, Cancelation
    <3>2. cancelations[TaskOf[c]] = c
      BY <1>1, <3>1 DEF RegOK
    <3>. QED  BY <1>1, <2>1, <3>1, <3>2, CallFacts DEF RegOK
  <2>7. CASE ~CancelCall(c) /\ ~FinishCancel(c)
    <3>1. cancelations' = cancelations
      BY <1>3, <2>7 DEF CancelStep, Cancel, CancelSetup, CancelWrites, CancelOnPipe, CancelOnPipeFails, AwaitRun,
         AloneEvent, AlonePushFails, AloneRejects, AloneFails, CancelReturns, CancelAbandoned, OnlyCancelation,
         managerVars
    <3>2. can'[c].pc \notin {"idle", "done"} <=> can[c].pc \notin {"idle", "done"}
      <4>1. CASE CancelSetup(c) \/ CancelWrites(c) \/ CancelOnPipe(c) \/ CancelOnPipeFails(c) \/ AwaitRun(c)
        BY <1>1, <2>4, <4>1 DEF CancelSetup, CancelWrites, CancelOnPipe, CancelOnPipeFails, AwaitRun, Resolve,
                                Cancelation
      <4>2. CASE AloneEvent(c) \/ AlonePushFails(c) \/ AloneRejects(c) \/ AloneFails(c)
        BY <1>1, <2>4, <4>2 DEF AloneEvent, AlonePushFails, AloneRejects, AloneFails, Resolve, Cancelation
      <4>3. CASE CancelReturns(c) \/ CancelAbandoned(c)
        BY <1>1, <2>4, <4>3 DEF CancelReturns, CancelAbandoned, Cancelation
      <4>. QED  BY <1>3, <2>7, <4>1, <4>2, <4>3 DEF CancelStep, Cancel
    <3>. QED  BY <1>1, <2>1, <3>1, <3>2 DEF RegOK
  <2>. QED  BY <2>5, <2>6, <2>7
<1>4. ASSUME NEW s \in Subs, SubStep(s)  PROVE RegOK'
  BY <1>1, <1>4, SubFrame DEF RegOK, Registered, managerVars
<1>. QED  BY <1>2, <1>3, <1>4, Steps

-----------------------------------------------------------------------------
(***************************************************************************)
(* The goroutines of an execution.                                         *)
(***************************************************************************)
\* An execution is given subscriptions only as its queues are made.
LEMMA ExecSubs ==
    ASSUME RestTypeOK, NEW x \in Execs, ExecStep(x), NEW s \in Subs
    PROVE  /\ sub'[s].of = sub[s].of \/ (CreateQueues(x) /\ s = x /\ sub'[s].of = x)
           /\ sub'[s].pc = sub[s].pc \/ (CreateQueues(x) /\ s = x /\ sub'[s].pc = "reading")
           /\ sub'[s].seen = sub[s].seen
<1>1. sub[s] \in Subscriber /\ sub \in [Subs -> Subscriber]
  BY DEF RestTypeOK
<1>2. CASE UNCHANGED sub
  BY <1>2
<1>3. CASE CreateQueues(x)
  BY <1>1, <1>3 DEF CreateQueues, Subscriber
<1>4. CASE Broadcast(x)
  <2>1. sub'[s] = sub[s] \/ sub'[s] = [sub[s] EXCEPT !.queue = Append(sub[s].queue, ex[x].out)]
    BY <1>4, BroadcastFacts
  <2>. QED  BY <1>1, <2>1 DEF Subscriber
<1>5. CASE DestroyQueue(x)
  BY <1>1, <1>5 DEF DestroyQueue, Subscriber
<1>. QED
  BY <1>2, <1>3, <1>4, <1>5 DEF ExecStep, ExecuteCall, Agent, Emit, AgentReturns, AgentFails, InactivityTimeout,
     WaitAbandoned, Consumer, ProcessEvent, RejectEvent, PushFails, Processed, FlagExiting, Publish, PublishFails,
     ReadFails, HandleError, Execute, WaitExiting, CreateExecution, CreateQueuesFails, SetupExecution, SetupFails,
     ExecutionReturns, ClosePipe, Unregister, OnlyExecution

\* The parts of an execution that only the consumer changes.
SameConsumer(x) ==
    /\ ex'[x].cons = ex[x].cons /\ ex'[x].out = ex[x].out /\ ex'[x].result = ex[x].result
    /\ ex'[x].exiting = ex[x].exiting

\* Before and after it runs, an execution moves on without its consumer.
LEMMA ActorOutside ==
    ASSUME IndInv, NEW x \in Execs,
           \/ ExecuteCall(x) \/ WaitExiting(x) \/ WaitAbandoned(x) \/ CreateExecution(x)
           \/ CreateQueues(x) \/ CreateQueuesFails(x)
           \/ DestroyQueue(x) \/ ClosePipe(x) \/ Unregister(x)
    PROVE  ExecOK(x)' /\ ExitOK(x)' /\ StoredOK(x)'
<1>1. /\ RestTypeOK /\ ex[x] \in Execution /\ ex \in [Execs -> Execution] /\ x \in Subs /\ x # None
      /\ ExecOK(x) /\ ExitOK(x) /\ StoredOK(x) /\ ExecStep(x)
  BY CallFacts DEF IndInv, TypeOK, RestTypeOK, ExecStep, Execute
<1>2. \A y \in Execs : ex[y].promise.done => ex'[y].promise.done
  BY <1>1, ExecFrame
<1>3. sub'[x].of = sub[x].of \/ CreateQueues(x)
  BY <1>1, ExecSubs
<1>4. stored' = stored
  BY DEF ExecuteCall, WaitExiting, WaitAbandoned, CreateExecution, CreateQueues, CreateQueuesFails,
         DestroyQueue, ClosePipe, Unregister
<1>5. SameConsumer(x) /\ ex'[x].agent = ex[x].agent /\ ex'[x].promise.value = ex[x].promise.value
  <2>1. CASE ExecuteCall(x) \/ WaitExiting(x) \/ WaitAbandoned(x)
    BY <1>1, <2>1 DEF ExecuteCall, WaitExiting, WaitAbandoned, SameConsumer, Execution
  <2>2. CASE CreateExecution(x) \/ CreateQueues(x) \/ CreateQueuesFails(x)
    BY <1>1, <2>2 DEF CreateExecution, CreateQueues, CreateQueuesFails, SameConsumer, Execution
  <2>3. CASE DestroyQueue(x) \/ ClosePipe(x)
    BY <1>1, <2>3 DEF DestroyQueue, ClosePipe, SameConsumer, Execution
  <2>4. CASE Unregister(x)
    BY <1>1, <2>4 DEF Unregister, SameConsumer, Execution, Promise
  <2>. QED  BY <2>1, <2>2, <2>3, <2>4
<1>6. ExitOK(x)'
  BY <1>1, <1>5 DEF ExitOK, SameConsumer
<1>7. CASE ExecuteCall(x)
  <2>1. /\ ex[x].pc = "idle" /\ ex'[x].promise.done = ex[x].promise.done
        /\ ex'[x].pc \in {"create", "refused", "wait"}
        /\ ex'[x].pc = "wait" => x \notin Starters /\ ex'[x].waitingFor # None
        /\ ex'[x].pc = "create" => ex'[x].waitingFor = ex[x].waitingFor
    BY <1>1, <1>7 DEF ExecuteCall, Execution
  <2>2. ExecOK(x)'
    BY <1>1, <1>3, <1>5, <1>7, <2>1 DEF ExecOK, SameConsumer, ExecuteCall, CreateQueues
  <2>3. StoredOK(x)'
    BY <1>1, <1>4, <1>5, <2>1 DEF StoredOK, SameConsumer
  <2>. QED  BY <1>6, <2>2, <2>3
<1>8. CASE WaitExiting(x)
  <2>1. /\ ex[x].pc = "wait" /\ ex'[x].promise.done = ex[x].promise.done /\ ex'[x].pc = "create"
        /\ ex'[x].waitingFor = ex[x].waitingFor /\ ex[ex[x].waitingFor].promise.done
        /\ ex[x].waitingFor \in Execs \cup {None}
    BY <1>1, <1>8 DEF WaitExiting, Execution
  <2>2. ExecOK(x)'
    BY <1>1, <1>2, <1>3, <1>5, <1>8, <2>1 DEF ExecOK, SameConsumer, CreateQueues
  <2>3. StoredOK(x)'
    BY <1>1, <1>4, <1>5, <2>1 DEF StoredOK, SameConsumer
  <2>. QED  BY <1>6, <2>2, <2>3
<1>9. CASE WaitAbandoned(x) \/ CreateExecution(x)
  <2>1. /\ ex[x].pc \in {"wait", "create"} /\ ex'[x].promise.done = ex[x].promise.done
        /\ ex'[x].pc \in {"refused", "queues"} /\ ~CreateQueues(x)
    BY <1>1, <1>9 DEF WaitAbandoned, CreateExecution, CreateQueues, Execution
  <2>2. ExecOK(x)'
    BY <1>1, <1>3, <1>5, <2>1 DEF ExecOK, SameConsumer
  <2>3. StoredOK(x)'
    BY <1>1, <1>4, <1>5, <2>1 DEF StoredOK, SameConsumer
  <2>. QED  BY <1>6, <2>2, <2>3
<1>10. CASE CreateQueues(x) \/ CreateQueuesFails(x)
  <2>1. /\ ex[x].pc = "queues" /\ ex'[x].promise.done = ex[x].promise.done
        /\ ex'[x].pc \in {"setup", "destroy"}
    <3>1. PICK label \in {"setup", "destroy"} : ex' = [ex EXCEPT ![x].pc = label] /\ ex[x].pc = "queues"
      BY <1>10 DEF CreateQueues, CreateQueuesFails
    <3>. QED  BY <1>1, <3>1 DEF Execution
  <2>2. ExecOK(x)'
    BY <1>1, <1>5, <2>1 DEF ExecOK, SameConsumer
  <2>3. StoredOK(x)'
    BY <1>1, <1>4, <1>5, <2>1 DEF StoredOK, SameConsumer
  <2>. QED  BY <1>6, <2>2, <2>3
<1>11. CASE DestroyQueue(x) \/ ClosePipe(x) \/ Unregister(x)
  <2>1. /\ ex[x].pc \in {"destroy", "closePipe", "unregister"}
        /\ ex'[x].pc \in {"closePipe", "unregister", "done"}
        /\ ex'[x].pc # "done" => ex'[x].promise.done = ex[x].promise.done
    BY <1>1, <1>11 DEF DestroyQueue, ClosePipe, Unregister, Execution
  <2>2. ExecOK(x)'
    BY <1>1, <1>5, <2>1 DEF ExecOK, SameConsumer
  <2>3. StoredOK(x)'
    BY <1>1, <1>4, <1>5, <2>1 DEF StoredOK, SameConsumer
  <2>. QED  BY <1>6, <2>2, <2>3
<1>. QED  BY <1>7, <1>8, <1>9, <1>10, <1>11

\* Setting an execution up, and setting its result.
LEMMA ActorSetup ==
    ASSUME IndInv, NEW x \in Execs, SetupExecution(x) \/ SetupFails(x) \/ ExecutionReturns(x)
    PROVE  ExecOK(x)' /\ ExitOK(x)' /\ StoredOK(x)'
<1>1. /\ RestTypeOK /\ ex[x] \in Execution /\ ex \in [Execs -> Execution] /\ TaskOf[x] \in Tasks
      /\ stored \in [Tasks -> [state : States \cup {"none"}, version : Nat]]
      /\ ExecOK(x) /\ ExitOK(x) /\ StoredOK(x) /\ ex[x].promise \in Promise
  BY CallFacts DEF IndInv, TypeOK, RestTypeOK, Execution
<1>2. stored'[TaskOf[x]].state = stored[TaskOf[x]].state
  BY <1>1 DEF SetupExecution, SetupFails, ExecutionReturns, UpdateHistory, Save
<1>3. ~Terminal("none") /\ ~Terminal("error")
  BY DEF Terminal, TerminalStates
<1>4. CASE SetupExecution(x)
  <2>1. /\ ex[x].pc = "setup" /\ ex'[x].pc = "run" /\ ex'[x].cons = "read"
        /\ ex'[x].out = ex[x].out /\ ex'[x].result = ex[x].result /\ ex'[x].exiting = ex[x].exiting
        /\ ex'[x].promise = ex[x].promise
    BY <1>1, <1>4 DEF SetupExecution, Execution
  <2>2. x \notin Starters => Active(TaskOf[x])
    BY <1>4 DEF SetupExecution, UpdateHistory
  <2>3. ExecOK(x)'
    BY <1>1, <2>1 DEF ExecOK
  <2>4. ExitOK(x)'
    BY <1>1, <2>1 DEF ExecOK, ExitOK
  <2>5. StoredOK(x)'
    BY <1>1, <1>2, <1>3, <2>1, <2>2 DEF StoredOK, ExecOK, Active, Exists
  <2>. QED  BY <2>3, <2>4, <2>5
<1>5. CASE SetupFails(x)
  <2>1. /\ ex[x].pc = "setup" /\ ex'[x].pc = "destroy" /\ SameConsumer(x) /\ ex'[x].agent = ex[x].agent
        /\ ex'[x].promise.done = ex[x].promise.done /\ ex'[x].promise.value = "error"
    BY <1>1, <1>5 DEF SetupFails, SameConsumer, Execution, Promise
  <2>2. ExecOK(x)' /\ ExitOK(x)'
    BY <1>1, <2>1 DEF ExecOK, ExitOK, SameConsumer
  <2>3. StoredOK(x)'
    BY <1>1, <1>2, <1>3, <2>1 DEF StoredOK, ExecOK, SameConsumer
  <2>. QED  BY <2>2, <2>3
<1>6. CASE ExecutionReturns(x)
  <2>1. /\ ex[x].pc = "run" /\ ex'[x].pc = "destroy" /\ SameConsumer(x) /\ ex'[x].agent = ex[x].agent
        /\ ex[x].cons = "stopped" /\ ex[x].agent = "off"
        /\ ex'[x].promise.done = ex[x].promise.done /\ ex'[x].promise.value = ex[x].result
    BY <1>1, <1>6 DEF ExecutionReturns, SameConsumer, Execution, Promise
  <2>2. ExecOK(x)' /\ ExitOK(x)'
    BY <1>1, <2>1 DEF ExecOK, ExitOK, SameConsumer
  <2>3. StoredOK(x)'
    BY <1>1, <1>2, <2>1 DEF StoredOK, SameConsumer
  <2>. QED  BY <2>2, <2>3
<1>. QED  BY <1>4, <1>5, <1>6

\* The producer and the inactivity watcher.
LEMMA ActorAgent ==
    ASSUME IndInv, NEW x \in Execs, Agent(x) \/ InactivityTimeout(x)
    PROVE  ExecOK(x)' /\ ExitOK(x)' /\ StoredOK(x)'
<1>1. /\ RestTypeOK /\ ex[x] \in Execution /\ ex \in [Execs -> Execution]
      /\ ExecOK(x) /\ ExitOK(x) /\ StoredOK(x)
  BY DEF IndInv, TypeOK, RestTypeOK
<1>2. UNCHANGED <<stored, sub>>
  BY DEF Agent, Emit, AgentReturns, AgentFails, InactivityTimeout, OnlyExecution
<1>3. /\ ex[x].agent = "on" \/ ex[x].pc = "run"
      /\ ex'[x].pc = ex[x].pc /\ SameConsumer(x) /\ ex'[x].promise = ex[x].promise
  <2>1. CASE Emit(x)
    <3>1. PICK p, n : ex' = [ex EXCEPT ![x].pipe = p, ![x].sent = n]
      BY <2>1 DEF Emit
    <3>. QED  BY <1>1, <2>1, <3>1 DEF Emit, SameConsumer, Execution
  <2>2. CASE AgentReturns(x)
    BY <1>1, <2>2 DEF AgentReturns, SameConsumer, Execution
  <2>3. CASE AgentFails(x)
    BY <1>1, <2>3 DEF AgentFails, SameConsumer, Execution
  <2>4. CASE InactivityTimeout(x)
    BY <1>1, <2>4 DEF InactivityTimeout, SameConsumer, Execution
  <2>. QED  BY <2>1, <2>2, <2>3, <2>4 DEF Agent
<1>4. ex'[x].pc = "run"
  BY <1>1, <1>3 DEF ExecOK
<1>. QED  BY <1>1, <1>2, <1>3, <1>4 DEF ExecOK, ExitOK, StoredOK, SameConsumer

\* The consumer, up to the result of an event.
LEMMA ActorProcess ==
    ASSUME IndInv, NEW x \in Execs, ProcessEvent(x) \/ RejectEvent(x) \/ PushFails(x)
    PROVE  ExecOK(x)' /\ ExitOK(x)' /\ StoredOK(x)'
<1>. DEFINE t == TaskOf[x]
            e == Head(ex[x].pipe)
<1>1. /\ RestTypeOK /\ ex[x] \in Execution /\ ex \in [Execs -> Execution] /\ t \in Tasks
      /\ stored \in [Tasks -> [state : States \cup {"none"}, version : Nat]]
      /\ ExecOK(x) /\ ExitOK(x) /\ StoredOK(x) /\ Reads(x)
  BY CallFacts DEF IndInv, TypeOK, RestTypeOK, ProcessEvent, RejectEvent, PushFails
<1>2. ex[x].pc = "run" /\ ~ex[x].exiting /\ ~Terminal(stored[t].state) /\ ex[x].cons = "read"
  BY <1>1 DEF Reads, ExecOK, ExitOK, StoredOK
<1>3. Terminal("failed") /\ ~Terminal("none") /\ ~Terminal("error") /\ ~Terminal("message")
  BY DEF Terminal, TerminalStates
<1>4. IsFinal("failed") /\ ~IsFinal("none") /\ IsFinal("message") /\ (\A s : Terminal(s) => IsFinal(s))
  BY DEF IsFinal, Terminal, TerminalStates
<1>5. ASSUME NEW event, NEW version, NEW r, Processed(x, event, version, r),
             IsFinal(event) => r # "none", r = "none" => ~Terminal(stored'[t].state),
             Terminal(event) => stored'[t].state = event, Terminal(r) => stored'[t].state = r,
             x \notin Starters => stored'[t].state # "none"
      PROVE  ExecOK(x)' /\ ExitOK(x)' /\ StoredOK(x)'
  <2>1. /\ ex'[x].pc = "run" /\ ex'[x].cons = "flag" /\ ex'[x].result = r /\ ~ex'[x].exiting
        /\ ex'[x].out = [event |-> event, version |-> version] /\ ex'[x].promise = ex[x].promise
    BY <1>1, <1>2, <1>5 DEF Processed, Execution
  <2>2. ex'[x].out.event = event
    BY <2>1
  <2>3. ExecOK(x)'
    BY <1>1, <1>2, <2>1 DEF ExecOK
  <2>4. ExitOK(x)'
    BY <1>5, <2>1, <2>2 DEF ExitOK
  <2>5. ~Terminal(ex'[x].promise.value)
    BY <1>1, <1>2, <2>1 DEF StoredOK
  <2>6. StoredOK(x)'
    BY <1>5, <2>1, <2>2, <2>5 DEF StoredOK
  <2>. QED  BY <2>3, <2>4, <2>6
<1>6. x \notin Starters => stored[t].state # "none"
  BY <1>1, <1>2 DEF StoredOK
<1>7. ASSUME NEW s, NEW v, stored' = [stored EXCEPT ![t] = [state |-> s, version |-> v]]
      PROVE  stored'[t].state = s
  BY <1>1, <1>7
<1>8. ASSUME NEW s, Save(t, s)  PROVE stored'[t].state = s
  BY <1>7, <1>8 DEF Save
<1>9. e \in Events /\ "none" \notin Events
  <2>1. ex[x].pipe \in Seq(Events) /\ ex[x].pipe # <<>>
    BY <1>1 DEF Execution, Reads
  <2>2. "none" \notin Events
    BY DEF Events, States, TerminalStates
  <2>. QED  BY <2>1, <2>2, HeadTailProperties
<1>10. CASE ProcessEvent(x)
  <2>1. CASE e = "message"
    <3>1. ~Exists(t) /\ stored' = stored /\ Processed(x, "message", 0, "message")
      BY <1>10, <2>1 DEF ProcessEvent
    <3>. QED  BY <1>3, <1>5, <1>6, <3>1
  <2>2. CASE e # "message"
    <3>1. Save(t, e) /\ Processed(x, e, stored[t].version + 1, IF IsFinal(e) THEN e ELSE "none")
      BY <1>10, <2>2 DEF ProcessEvent
    <3>2. stored'[t].state = e
      BY <1>8, <3>1
    <3>3. CASE IsFinal(e)
      <4>1. Processed(x, e, stored[t].version + 1, e)
        BY <3>1, <3>3
      <4>. QED  BY <1>5, <1>9, <3>2, <4>1
    <3>4. CASE ~IsFinal(e)
      <4>1. Processed(x, e, stored[t].version + 1, "none")
        BY <3>1, <3>4
      <4>. QED  BY <1>3, <1>4, <1>5, <1>9, <3>2, <3>4, <4>1
    <3>. QED  BY <3>3, <3>4
  <2>. QED  BY <2>1, <2>2
<1>11. CASE RejectEvent(x)
  <2>1. CASE Exists(t)
    <3>1. Save(t, "failed") /\ Processed(x, "failed", stored[t].version + 1, "failed")
      BY <1>11, <2>1 DEF RejectEvent
    <3>2. stored'[t].state = "failed"
      BY <1>8, <3>1
    <3>. QED  BY <1>5, <3>1, <3>2
  <2>2. CASE ~Exists(t)
    <3>1. stored' = stored /\ Processed(x, "none", 0, "error")
      BY <1>11, <2>2 DEF RejectEvent
    <3>. QED  BY <1>3, <1>4, <1>5, <1>6, <3>1
  <2>. QED  BY <2>1, <2>2
<1>12. CASE PushFails(x)
  <2>1. CASE e = "message"
    <3>1. stored' = stored /\ Processed(x, "none", 0, "error")
      BY <1>12, <2>1 DEF PushFails
    <3>. QED  BY <1>3, <1>4, <1>5, <1>6, <3>1
  <2>2. CASE e # "message" /\ Terminal(e)
    <3>1. Save(t, e) /\ Processed(x, "none", 0, "error")
      BY <1>12, <2>2 DEF PushFails
    <3>2. stored'[t].state = e
      BY <1>8, <3>1
    <3>. QED  BY <1>3, <1>4, <1>5, <1>9, <3>1, <3>2
  <2>3. CASE e # "message" /\ ~Terminal(e)
    <3>1. /\ stored' = [stored EXCEPT ![t] = [state |-> "failed", version |-> stored[t].version + 2]]
          /\ Processed(x, "failed", stored[t].version + 2, "failed")
      BY <1>12, <2>3 DEF PushFails
    <3>2. stored'[t].state = "failed"
      BY <1>7, <3>1
    <3>. QED  BY <1>5, <3>1, <3>2
  <2>. QED  BY <2>1, <2>2, <2>3
<1>. QED  BY <1>10, <1>11, <1>12

\* The consumer, from the result of an event.
LEMMA ActorConsumer ==
    ASSUME IndInv, NEW x \in Execs,
           FlagExiting(x) \/ Publish(x) \/ PublishFails(x) \/ ReadFails(x) \/ HandleError(x)
    PROVE  ExecOK(x)' /\ ExitOK(x)' /\ StoredOK(x)'
<1>. DEFINE t == TaskOf[x]
<1>1. /\ RestTypeOK /\ ex[x] \in Execution /\ ex \in [Execs -> Execution] /\ t \in Tasks
      /\ stored \in [Tasks -> [state : States \cup {"none"}, version : Nat]]
      /\ ExecOK(x) /\ ExitOK(x) /\ StoredOK(x)
  BY CallFacts DEF IndInv, TypeOK, RestTypeOK
<1>2. ex[x].pc = "run"
  BY <1>1 DEF FlagExiting, Publish, PublishFails, ReadFails, HandleError, ExecOK
<1>3. ex'[x].pc = "run" /\ ex'[x].out = ex[x].out /\ ex'[x].promise = ex[x].promise
  <2>1. CASE FlagExiting(x)
    BY <1>1, <1>2, <2>1 DEF FlagExiting, Execution
  <2>2. CASE Publish(x) \/ ReadFails(x)
    BY <1>1, <1>2, <2>2 DEF Publish, ReadFails, Execution
  <2>3. CASE PublishFails(x) \/ HandleError(x)
    BY <1>1, <1>2, <2>3 DEF PublishFails, HandleError, Execution
  <2>. QED  BY <2>1, <2>2, <2>3
<1>4. ExecOK(x)'
  BY <1>1, <1>2, <1>3 DEF ExecOK
<1>5. ~Terminal("none") /\ ~Terminal("error")
  BY DEF Terminal, TerminalStates
<1>6. CASE FlagExiting(x)
  <2>1. /\ ex[x].cons = "flag" /\ ex'[x].result = ex[x].result /\ stored' = stored
        /\ ex'[x].exiting = (ex[x].result # "none")
        /\ ex'[x].cons = IF ex[x].result = "error" THEN "stopped" ELSE "publish"
    BY <1>1, <1>6 DEF FlagExiting, Exits, Execution
  <2>2. ExitOK(x)'
    BY <1>1, <1>3, <2>1 DEF ExitOK
  <2>3. StoredOK(x)'
    BY <1>1, <1>3, <2>1 DEF StoredOK
  <2>. QED  BY <1>4, <2>2, <2>3
<1>7. CASE Publish(x)
  <2>1. /\ ex[x].cons = "publish" /\ ex'[x].result = ex[x].result /\ stored' = stored
        /\ ex'[x].exiting = ex[x].exiting
        /\ ex'[x].cons = IF ex[x].result = "none" THEN "read" ELSE "stopped"
    BY <1>1, <1>7 DEF Publish, Execution
  <2>2. ExitOK(x)'
    BY <1>1, <1>3, <2>1 DEF ExitOK
  <2>3. StoredOK(x)'
    BY <1>1, <1>3, <2>1 DEF StoredOK
  <2>. QED  BY <1>4, <2>2, <2>3
<1>8. CASE PublishFails(x)
  <2>1. /\ ex[x].cons = "publish" /\ ex'[x].result = "none" /\ stored' = stored
        /\ ex'[x].exiting = ex[x].exiting /\ ex'[x].cons = "error"
    BY <1>1, <1>8 DEF PublishFails, Execution
  <2>2. ExitOK(x)' /\ StoredOK(x)'
    BY <1>1, <1>3, <1>5, <2>1 DEF ExitOK, StoredOK
  <2>. QED  BY <1>4, <2>2
<1>9. CASE ReadFails(x)
  <2>1. /\ ex[x].cons = "read" /\ ex'[x].result = ex[x].result /\ stored' = stored
        /\ ex'[x].exiting = ex[x].exiting /\ ex'[x].cons = "error"
    BY <1>1, <1>9 DEF ReadFails, Execution
  <2>2. ExitOK(x)' /\ StoredOK(x)'
    BY <1>1, <1>3, <2>1 DEF ExitOK, StoredOK
  <2>. QED  BY <1>4, <2>2
<1>10. CASE HandleError(x)
  <2>1. /\ ex[x].cons = "error" /\ ex'[x].exiting = ex[x].exiting /\ ex'[x].cons = "stopped"
        /\ ex'[x].result = IF Active(t) THEN "failed" ELSE "error"
        /\ IF Active(t) THEN Save(t, "failed") ELSE stored' = stored
    BY <1>1, <1>10 DEF HandleError, Execution
  <2>2. ExitOK(x)'
    BY <1>1, <2>1 DEF ExitOK
  <2>3. StoredOK(x)'
    <3>1. CASE Active(t)
      <4>1. stored'[t].state = "failed"
        BY <1>1, <2>1, <3>1 DEF Save
      <4>2. ~Terminal(ex[x].promise.value)
        BY <1>1, <3>1 DEF StoredOK, Active
      <4>. QED  BY <1>3, <2>1, <3>1, <4>1, <4>2 DEF StoredOK
    <3>2. CASE ~Active(t)
      BY <1>1, <1>3, <1>5, <2>1, <3>2 DEF StoredOK
    <3>. QED  BY <3>1, <3>2
  <2>. QED  BY <1>4, <2>2, <2>3
<1>. QED  BY <1>6, <1>7, <1>8, <1>9, <1>10

\* An execution keeps its own invariants.
LEMMA Actor ==
    ASSUME IndInv, NEW x \in Execs, ExecStep(x)
    PROVE  ExecOK(x)' /\ ExitOK(x)' /\ StoredOK(x)'
BY ActorOutside, ActorSetup, ActorAgent, ActorProcess, ActorConsumer DEF ExecStep, Execute, Consumer

-----------------------------------------------------------------------------
(***************************************************************************)
(* The store.                                                              *)
(***************************************************************************)
\* The task t is given a state; it had not ended.
Writes(t) ==
    /\ \A u \in Tasks : u # t => stored'[u] = stored[u]
    /\ ~Terminal(stored[t].state) /\ stored'[t].state # "none"

\* An execution writes to its own task, as its only registered execution.  If
\* it did not start the task, the task exists.
LEMMA ExecWrites ==
    ASSUME IndInv, NEW x \in Execs, ExecStep(x)
    PROVE  \/ stored' = stored
           \/ /\ Registered(x) /\ Writes(TaskOf[x])
              /\ x \notin Starters => Exists(TaskOf[x])
<1>. DEFINE t == TaskOf[x]
<1>1. /\ RestTypeOK /\ ex[x] \in Execution /\ t \in Tasks
      /\ stored \in [Tasks -> [state : States \cup {"none"}, version : Nat]]
      /\ ExecOK(x) /\ StoredOK(x)
  BY CallFacts DEF IndInv, TypeOK, RestTypeOK
<1>2. "none" \notin States /\ "failed" \in States
  BY DEF States, TerminalStates
<1>3. CASE stored' = stored
  BY <1>3
<1>4. CASE ProcessEvent(x) \/ RejectEvent(x) \/ PushFails(x)
  <2>1. Reads(x) /\ (\/ stored' = stored
                     \/ /\ stored'[t].state \in States
                        /\ \A u \in Tasks : u # t => stored'[u] = stored[u])
    BY <1>1, <1>4, ProcessedFacts
  <2>2. Registered(x) /\ ~Terminal(stored[t].state) /\ (x \notin Starters => Exists(t))
    BY <1>1, <2>1 DEF Reads, ExecOK, StoredOK, Registered, Exists
  <2>. QED  BY <1>2, <2>1, <2>2 DEF Writes
<1>5. CASE HandleError(x)
  <2>1. stored' = stored \/ (Active(t) /\ Save(t, "failed"))
    BY <1>5 DEF HandleError
  <2>2. Registered(x)
    BY <1>1, <1>5 DEF HandleError, ExecOK, Registered
  <2>. QED  BY <1>1, <1>2, <2>1, <2>2, Saved DEF Writes, Active
<1>6. CASE SetupExecution(x) \/ SetupFails(x)
  <2>1. stored' = stored \/ (Active(t) /\ Save(t, stored[t].state))
    BY <1>6 DEF SetupExecution, SetupFails, UpdateHistory
  <2>2. Registered(x)
    BY <1>6 DEF SetupExecution, SetupFails, Registered
  <2>3. Active(t) => stored[t].state \in States
    BY <1>1 DEF Active, Exists
  <2>. QED  BY <1>1, <1>2, <2>1, <2>2, <2>3, Saved DEF Writes, Active
<1>. QED
  BY <1>3, <1>4, <1>5, <1>6 DEF ExecStep, ExecuteCall, Agent, Emit, AgentReturns, AgentFails, InactivityTimeout,
     WaitAbandoned, Consumer, FlagExiting, Publish, PublishFails, ReadFails, Execute, WaitExiting, CreateExecution,
     CreateQueues, CreateQueuesFails, ExecutionReturns, DestroyQueue, ClosePipe, Unregister, OnlyExecution

\* A cancelation writes to an existing task without a registered execution.
LEMMA CancelWritesTask ==
    ASSUME IndInv, NEW c \in Cancels, CancelStep(c)
    PROVE  \/ stored' = stored
           \/ /\ executions[TaskOf[c]] = None /\ cancelations[TaskOf[c]] = c
              /\ Exists(TaskOf[c]) /\ Writes(TaskOf[c])
<1>. DEFINE t == TaskOf[c]
<1>1. /\ RestTypeOK /\ RegOK /\ t \in Tasks /\ CancelOK(c)
      /\ stored \in [Tasks -> [state : States \cup {"none"}, version : Nat]]
  BY CallFacts DEF IndInv, TypeOK, RestTypeOK
<1>2. "none" \notin States /\ "failed" \in States /\ "canceled" \in States
  BY DEF States, TerminalStates
<1>3. CASE stored' = stored
  BY <1>3
<1>4. CASE AloneEvent(c) \/ AlonePushFails(c) \/ AloneRejects(c)
  <2>1. /\ executions[t] = None /\ cancelations[t] = c
        /\ Exists(t) /\ (Terminal(stored[t].state) => stored[t].state = "canceled")
    <3>1. can[c].pc \in {"alone", "aloneMore"}
      BY <1>4 DEF AloneEvent, AlonePushFails, AloneRejects
    <3>. QED  BY <1>1, <3>1 DEF CancelOK, Exists, RegOK
  <2>2. CancelEmits(t) \subseteq States
    BY <1>1, <1>2, SettingFacts DEF RestTypeOK, CancelEmits
  <2>3. CASE AloneEvent(c) \/ AloneRejects(c)
    <3>1. stored' = stored \/ (stored[t].state # "canceled" /\ \E e \in States : Save(t, e))
      BY <1>2, <2>2, <2>3 DEF AloneEvent, AloneRejects
    <3>. QED  BY <1>1, <1>2, <2>1, <3>1, Saved DEF Writes
  <2>4. CASE AlonePushFails(c)
    <3>1. PICK e \in CancelEmits(t) :
            IF Terminal(e)
            THEN IF stored[t].state = "canceled" THEN UNCHANGED stored ELSE Save(t, e)
            ELSE stored' = [stored EXCEPT ![t] = [state |-> "failed", version |-> @.version + 2]]
      BY <2>4 DEF AlonePushFails
    <3>2. CASE Terminal(e)
      BY <1>1, <1>2, <2>1, <2>2, <3>1, <3>2, Saved DEF Writes
    <3>3. CASE ~Terminal(e)
      <4>1. stored[t].state # "canceled"
        BY <3>3 DEF CancelEmits, Terminal, TerminalStates
      <4>2. /\ stored'[t].state = "failed"
            /\ \A u \in Tasks : u # t => stored'[u] = stored[u]
        BY <1>1, <3>1, <3>3
      <4>. QED  BY <2>1, <4>1, <4>2 DEF Writes
    <3>. QED  BY <3>2, <3>3
  <2>. QED  BY <1>4, <2>3, <2>4
<1>. QED
  BY <1>3, <1>4 DEF CancelStep, CancelCall, Cancel, CancelSetup, CancelWrites, CancelOnPipe, CancelOnPipeFails,
     AwaitRun, AloneFails, FinishCancel, CancelReturns, CancelAbandoned

\* A task that has ended stays as it is, and no task is lost.
LEMMA EndsForGood ==
    ASSUME IndInv, Next, NEW t \in Tasks
    PROVE  /\ Terminal(stored[t].state) => stored'[t].state = stored[t].state
           /\ Exists(t) => stored'[t].state # "none"
<1>1. CASE stored' = stored
  BY <1>1 DEF Exists
<1>2. CASE \E u \in Tasks : Writes(u)
  BY <1>2 DEF Writes, Exists
<1>3. RestTypeOK
  BY DEF IndInv, TypeOK, RestTypeOK
<1>4. \A s \in Subs : SubStep(s) => stored' = stored
  BY <1>3, SubFrame
<1>. QED  BY <1>1, <1>2, <1>4, ExecWrites, CancelWritesTask, Steps, CallFacts

\* An execution that does not move is not affected by what others write.
LEMMA Bystander ==
    ASSUME IndInv, NEW y \in Execs, NEW t \in Tasks,
           ex'[y].pc = ex[y].pc, SameConsumer(y), ex'[y].promise = ex[y].promise,
           \/ stored' = stored
           \/ Writes(t) /\ executions[t] # y /\ (y \in Starters /\ TaskOf[y] = t => Exists(t))
    PROVE  StoredOK(y)'
<1>1. StoredOK(y) /\ ExecOK(y) /\ RegOK /\ TaskOf[y] \in Tasks
  BY CallFacts DEF IndInv
<1>2. CASE stored'[TaskOf[y]] = stored[TaskOf[y]]
  BY <1>1, <1>2 DEF StoredOK, SameConsumer
<1>3. CASE TaskOf[y] = t /\ Writes(t) /\ executions[t] # y /\ (y \in Starters => Exists(t))
  <2>1. ~Registered(y)
    BY <1>1, <1>3 DEF RegOK
  <2>2. ex[y].cons \in {"off", "stopped"}
    BY <1>1, <2>1 DEF ExecOK, Registered
  <2>3. ~(y \in Starters /\ ex[y].pc \in {"idle", "wait", "create", "queues", "setup"})
    BY <1>1, <1>3 DEF StoredOK, Exists
  <2>4. ~Terminal(ex[y].promise.value) /\ (ex[y].cons # "off" => ~Terminal(ex[y].result))
    BY <1>1, <1>3 DEF StoredOK, Writes
  <2>. QED  BY <1>1, <1>3, <2>2, <2>3, <2>4 DEF StoredOK, SameConsumer, Writes
<1>. QED  BY <1>1, <1>2, <1>3 DEF Writes

\* The invariants of the executions.
LEMMA StepExecs ==
    ASSUME IndInv, Next, NEW y \in Execs
    PROVE  ExecOK(y)' /\ ExitOK(y)' /\ StoredOK(y)'
<1>1. /\ RestTypeOK /\ RegOK /\ ExecOK(y) /\ ExitOK(y) /\ StoredOK(y) /\ y \in Subs /\ TaskOf[y] \in Tasks
      /\ ex[y].waitingFor \in Execs \cup {None} /\ None \notin Execs
  BY CallFacts, CallsAssumption DEF IndInv, TypeOK, RestTypeOK, Execution
<1>2. ASSUME NEW x \in Execs, ExecStep(x)  PROVE ExecOK(y)' /\ ExitOK(y)' /\ StoredOK(y)'
  <2>1. CASE y = x
    BY <1>2, <2>1, Actor
  <2>2. CASE y # x
    <3>1. ex'[y] = ex[y] /\ \A z \in Execs : ex[z].promise.done => ex'[z].promise.done
      BY <1>1, <1>2, <2>2, ExecFrame
    <3>2. sub'[y].of = sub[y].of
      BY <1>1, <1>2, <2>2, ExecSubs
    <3>3. ExecOK(y)'
      BY <1>1, <3>1, <3>2 DEF ExecOK
    <3>4. ExitOK(y)'
      BY <1>1, <3>1 DEF ExitOK
    <3>5. \/ stored' = stored
          \/ /\ Writes(TaskOf[x]) /\ executions[TaskOf[x]] = x
             /\ x \notin Starters => Exists(TaskOf[x])
      BY <1>1, <1>2, ExecWrites DEF RegOK
    <3>6. y \in Starters /\ TaskOf[y] = TaskOf[x] => x \notin Starters
      BY <2>2, CallsAssumption
    <3>7. StoredOK(y)'
      BY <2>2, <3>1, <3>5, <3>6, Bystander, CallFacts DEF SameConsumer
    <3>. QED  BY <3>3, <3>4, <3>7
  <2>. QED  BY <2>1, <2>2
<1>3. ASSUME NEW c \in Cancels, CancelStep(c)  PROVE ExecOK(y)' /\ ExitOK(y)' /\ StoredOK(y)'
  <2>1. /\ sub' = sub
        /\ \A z \in Execs : /\ ex'[z].pc = ex[z].pc /\ ex'[z].waitingFor = ex[z].waitingFor
                            /\ ex'[z].agent = ex[z].agent /\ SameConsumer(z) /\ ex'[z].promise = ex[z].promise
    BY <1>1, <1>3, CancelFrame DEF SameConsumer
  <2>2. ExecOK(y)'
    BY <1>1, <2>1 DEF ExecOK, SameConsumer
  <2>3. ExitOK(y)'
    BY <1>1, <2>1 DEF ExitOK, SameConsumer
  <2>4. stored' = stored \/ (executions[TaskOf[c]] = None /\ Exists(TaskOf[c]) /\ Writes(TaskOf[c]))
    BY <1>3, CancelWritesTask
  <2>5. StoredOK(y)'
    BY <1>1, <2>1, <2>4, Bystander, CallFacts
  <2>. QED  BY <2>2, <2>3, <2>5
<1>4. ASSUME NEW s \in Subs, SubStep(s)  PROVE ExecOK(y)' /\ ExitOK(y)' /\ StoredOK(y)'
  <2>1. UNCHANGED <<stored, ex>> /\ (s # y => sub'[y] = sub[y])
    BY <1>1, <1>4, SubFrame
  <2>2. s = y => sub'[y].of = sub[y].of
    <3>1. sub \in [Subs -> Subscriber] /\ sub[s] \in Subscriber /\ ~(Resubscribe(s) /\ s = y)
      BY <1>1, CallsAssumption DEF RestTypeOK, Resubscribe
    <3>2. CASE \E label, yielded : Ends(s, label, yielded)
      BY <3>1, <3>2 DEF Ends, Subscriber
    <3>3. CASE SubSnapshot(s) \/ SubQueueClosed(s)
      BY <3>1, <3>2, <3>3 DEF SubSnapshot, SubQueueClosed, Subscriber
    <3>4. CASE SubRead(s)
      BY <3>1, <3>2, <3>4 DEF SubRead, Subscriber
    <3>. QED  BY <1>4, <3>1, <3>2, <3>3, <3>4 DEF SubStep, Subscription, SubPromise, Leave
  <2>3. sub'[y].of = sub[y].of /\ stored' = stored /\ ex' = ex
    BY <2>1, <2>2
  <2>. QED  BY <1>1, <2>3 DEF ExecOK, ExitOK, StoredOK
<1>. QED  BY <1>2, <1>3, <1>4, Steps

-----------------------------------------------------------------------------
(***************************************************************************)
(* Cancelations.                                                           *)
(***************************************************************************)
\* A cancelation that does not move is not affected by the others.
LEMMA BystanderCancel ==
    ASSUME IndInv, Next, NEW d \in Cancels, can'[d] = can[d], NEW t \in Tasks,
           executions[TaskOf[d]] = None /\ cancelations[TaskOf[d]] = d => executions'[TaskOf[d]] = None,
           \/ stored' = stored
           \/ Writes(t) /\ (executions[t] # None \/ cancelations[t] # d)
    PROVE  CancelOK(d)'
<1>1. CancelOK(d) /\ RegOK /\ TaskOf[d] \in Tasks
  BY CallFacts DEF IndInv
<1>2. Terminal(stored[TaskOf[d]].state) => stored'[TaskOf[d]].state = stored[TaskOf[d]].state
  BY <1>1, EndsForGood
<1>3. can[d].pc \in {"setup", "alone", "aloneMore"} => cancelations[TaskOf[d]] = d
  BY <1>1 DEF RegOK
<1>4. can[d].pc \in {"alone", "aloneMore"} => stored'[TaskOf[d]] = stored[TaskOf[d]]
  BY <1>1, <1>3 DEF CancelOK, Writes
<1>5. Terminal("canceled")
  BY DEF Terminal, TerminalStates
<1>. QED  BY <1>1, <1>2, <1>3, <1>4, <1>5 DEF CancelOK

\* The cancelation's own step.
LEMMA ActorCancel ==
    ASSUME IndInv, NEW c \in Cancels, CancelStep(c)
    PROVE  CancelOK(c)'
<1>. DEFINE t == TaskOf[c]
<1>1. /\ RestTypeOK /\ RegOK /\ CancelOK(c) /\ t \in Tasks /\ c # None
      /\ can \in [Cancels -> Cancelation] /\ can[c] \in Cancelation /\ can[c].promise \in Promise
      /\ stored \in [Tasks -> [state : States \cup {"none"}, version : Nat]]
      /\ executions[t] \in Execs \cup {None} /\ cancelations[t] \in Cancels \cup {None}
  BY CallFacts DEF IndInv, TypeOK, RestTypeOK, Cancelation
<1>2. UNCHANGED executions
  BY <1>1, CancelFrame
<1>3. /\ Terminal("canceled") /\ Terminal("failed") /\ ~Terminal("none") /\ ~Terminal("error")
      /\ IsFinal("canceled") /\ "none" \notin States
  BY DEF Terminal, TerminalStates, IsFinal, States
<1>4. Terminal(stored[t].state) => stored'[t].state = stored[t].state
  BY <1>1, CancelWritesTask DEF Writes
<1>5. ASSUME NEW v, Resolve(c, v), Terminal(v) => stored'[t].state = v, can[c].pc # "idle"
      PROVE  CancelOK(c)'
  <2>1. /\ can'[c].pc = "finish" /\ can'[c].promise.value = v /\ can'[c].run = can[c].run
        /\ can'[c].leader = can[c].leader /\ can'[c].return = can[c].return
    BY <1>1, <1>5 DEF Resolve, Cancelation, Promise
  <2>. QED  BY <1>1, <1>3, <1>4, <1>5, <2>1 DEF CancelOK
<1>6. CASE CancelCall(c)
  <2>1. stored' = stored /\ can[c].leader = None /\ can[c].pc = "idle"
    BY <1>1, <1>6 DEF CancelCall, CancelOK
  <2>2. CASE cancelations[t] = None
    <3>1. /\ can'[c].pc = "setup" /\ can'[c].leader = c /\ can'[c].run = executions[t]
          /\ can'[c].promise = can[c].promise /\ can'[c].return = can[c].return
      BY <1>1, <1>6, <2>2 DEF CancelCall, Cancelation
    <3>. QED  BY <1>1, <1>2, <2>1, <3>1 DEF CancelOK, RegOK
  <2>3. CASE cancelations[t] # None
    <3>1. /\ can'[c].pc = "idle" /\ can'[c].leader = cancelations[t] /\ can'[c].run = can[c].run
          /\ can'[c].promise = can[c].promise /\ can'[c].return = can[c].return
      BY <1>1, <1>6, <2>1, <2>3 DEF CancelCall, Cancelation
    <3>. QED  BY <1>1, <1>2, <2>1, <2>3, <3>1 DEF CancelOK, RegOK
  <2>. QED  BY <2>2, <2>3
<1>7. CASE CancelSetup(c)
  <2>1. stored' = stored /\ can[c].pc = "setup"
    BY <1>7 DEF CancelSetup
  <2>2. CASE ~Cancelable(t)
    BY <1>3, <1>5, <1>7, <2>1, <2>2 DEF CancelSetup
  <2>3. CASE Cancelable(t)
    <3>1. /\ can'[c].pc = IF can[c].run = None THEN "alone" ELSE "write"
          /\ can'[c].leader = can[c].leader /\ can'[c].run = can[c].run
          /\ can'[c].promise = can[c].promise /\ can'[c].return = can[c].return
      BY <1>1, <1>7, <2>3 DEF CancelSetup, Cancelation
    <3>2. stored[t].state # "none" /\ (Terminal(stored[t].state) => stored[t].state = "canceled")
      BY <2>3 DEF Cancelable, Active, Exists
    <3>. QED  BY <1>1, <1>2, <2>1, <3>1, <3>2 DEF CancelOK
  <2>. QED  BY <2>2, <2>3
<1>8. CASE CancelWrites(c) \/ CancelOnPipe(c)
  <2>1. stored' = stored /\ can[c].pc \in {"write", "wrote"}
    BY <1>8 DEF CancelWrites, CancelOnPipe
  <2>2. PICK label \in {"wrote", "await"} : can' = [can EXCEPT ![c].pc = label]
    BY <1>8 DEF CancelWrites, CancelOnPipe
  <2>3. /\ can'[c].pc \in {"wrote", "await"} /\ can'[c].leader = can[c].leader /\ can'[c].run = can[c].run
        /\ can'[c].promise = can[c].promise /\ can'[c].return = can[c].return
    BY <1>1, <2>2 DEF Cancelation
  <2>. QED  BY <1>1, <2>1, <2>3 DEF CancelOK
<1>9. CASE CancelOnPipeFails(c) \/ AloneFails(c)
  BY <1>3, <1>5, <1>9 DEF CancelOnPipeFails, AloneFails
<1>10. CASE AwaitRun(c)
  <2>1. can[c].run \in Execs /\ TaskOf[can[c].run] = t /\ stored' = stored
    BY <1>1, <1>10 DEF AwaitRun, CancelOK, Cancelation
  <2>2. StoredOK(can[c].run)
    BY <2>1 DEF IndInv
  <2>3. Terminal(ex[can[c].run].promise.value) => stored'[t].state = ex[can[c].run].promise.value
    BY <2>1, <2>2 DEF StoredOK
  <2>. QED  BY <1>5, <1>10, <2>3 DEF AwaitRun
<1>11. CASE AloneEvent(c)
  <2>1. CancelEmits(t) \subseteq States
    BY <1>1, SettingFacts DEF RestTypeOK, CancelEmits, States, TerminalStates
  <2>2. PICK e \in CancelEmits(t) :
          /\ IF stored[t].state = "canceled" THEN UNCHANGED stored ELSE Save(t, e)
          /\ IF IsFinal(e) THEN Resolve(c, e) ELSE can' = [can EXCEPT ![c].pc = "aloneMore"]
    BY <1>11 DEF AloneEvent
  <2>3. stored'[t].state = e
    BY <1>1, <2>2 DEF CancelEmits, Save
  <2>4. can[c].pc \in {"alone", "aloneMore"}
    BY <1>11 DEF AloneEvent
  <2>5. CASE IsFinal(e)
    BY <1>5, <2>2, <2>3, <2>4, <2>5
  <2>6. CASE ~IsFinal(e)
    <3>1. /\ can'[c].pc = "aloneMore" /\ can'[c].leader = can[c].leader /\ can'[c].run = can[c].run
          /\ can'[c].promise = can[c].promise /\ can'[c].return = can[c].return
      BY <1>1, <2>2, <2>6 DEF Cancelation
    <3>2. e # "none" /\ ~Terminal(e)
      BY <1>3, <2>1, <2>6 DEF IsFinal
    <3>. QED  BY <1>1, <1>2, <1>3, <1>4, <2>3, <2>4, <3>1, <3>2 DEF CancelOK
  <2>. QED  BY <2>5, <2>6
<1>12. CASE AlonePushFails(c)
  <2>1. PICK e \in CancelEmits(t) :
          IF Terminal(e)
          THEN /\ IF stored[t].state = "canceled" THEN UNCHANGED stored ELSE Save(t, e)
               /\ Resolve(c, "error")
          ELSE /\ stored' = [stored EXCEPT ![t] = [state |-> "failed", version |-> @.version + 2]]
               /\ Resolve(c, "failed")
    BY <1>12 DEF AlonePushFails
  <2>2. can[c].pc # "idle"
    BY <1>12 DEF AlonePushFails
  <2>3. CASE Terminal(e)
    BY <1>3, <1>5, <2>1, <2>2, <2>3
  <2>4. CASE ~Terminal(e)
    <3>1. stored'[t].state = "failed"
      BY <1>1, <2>1, <2>4
    <3>. QED  BY <1>5, <2>1, <2>2, <2>4, <3>1
  <2>. QED  BY <2>3, <2>4
<1>13. CASE AloneRejects(c)
  <2>1. stored'[t].state = "failed"
    BY <1>1, <1>13 DEF AloneRejects, Save
  <2>. QED  BY <1>5, <1>13, <2>1 DEF AloneRejects
<1>14. CASE FinishCancel(c)
  <2>1. /\ can'[c].pc = "done" /\ can'[c].leader = can[c].leader /\ can'[c].run = can[c].run
        /\ can'[c].promise.value = can[c].promise.value /\ can'[c].return = can[c].return
        /\ can[c].pc = "finish" /\ stored' = stored
    BY <1>1, <1>14 DEF FinishCancel, Cancelation, Promise
  <2>. QED  BY <1>1, <2>1 DEF CancelOK
<1>15. CASE CancelReturns(c) \/ CancelAbandoned(c)
  <2>1. PICK v : can' = [can EXCEPT ![c].return = v] /\ (v = "canceled" => CancelReturns(c) /\ v = Convert(can[can[c].leader].promise.value))
    BY <1>15 DEF CancelReturns, CancelAbandoned
  <2>2. /\ can'[c].pc = can[c].pc /\ can'[c].leader = can[c].leader /\ can'[c].run = can[c].run
        /\ can'[c].promise = can[c].promise /\ can'[c].return = v
    BY <1>1, <2>1 DEF Cancelation
  <2>3. stored' = stored
    BY <1>15 DEF CancelReturns, CancelAbandoned
  <2>4. v = "canceled" => stored[t].state = "canceled"
    <3>1. SUFFICES ASSUME v = "canceled"  PROVE stored[t].state = "canceled"
      OBVIOUS
    <3>2. can[c].leader # None /\ can[can[c].leader].promise.value = "canceled"
      BY <2>1, <3>1 DEF CancelReturns, Convert
    <3>3. can[c].leader \in Cancels /\ TaskOf[can[c].leader] = t
      BY <1>1, <3>2 DEF CancelOK, Cancelation
    <3>4. CancelOK(can[c].leader)
      BY <3>3 DEF IndInv
    <3>. QED  BY <1>3, <3>2, <3>3, <3>4 DEF CancelOK
  <2>. QED  BY <1>1, <1>2, <2>2, <2>3, <2>4 DEF CancelOK
<1>. QED
  BY <1>6, <1>7, <1>8, <1>9, <1>10, <1>11, <1>12, <1>13, <1>14, <1>15 DEF CancelStep, Cancel

\* The invariant of the cancelations.
LEMMA StepCancels ==
    ASSUME IndInv, Next, NEW d \in Cancels
    PROVE  CancelOK(d)'
<1>1. /\ RestTypeOK /\ RegOK /\ CancelOK(d) /\ TaskOf[d] \in Tasks /\ d # None
      /\ executions \in [Tasks -> Execs \cup {None}]
  BY CallFacts DEF IndInv, TypeOK, RestTypeOK
<1>2. ASSUME NEW x \in Execs, ExecStep(x)  PROVE CancelOK(d)'
  <2>1. can' = can
    BY <1>1, <1>2, ExecFrame
  <2>2. executions[TaskOf[d]] = None /\ cancelations[TaskOf[d]] = d => executions'[TaskOf[d]] = None
    <3>1. CASE Creates(x)
      BY <1>1, <3>1, ChangesRegistration
    <3>2. CASE Unregister(x)
      BY <1>1, <3>2, ChangesRegistration
    <3>3. CASE ~Creates(x) /\ ~Unregister(x)
      BY <1>1, <1>2, <3>3, KeepsRegistration
    <3>. QED  BY <3>1, <3>2, <3>3
  <2>3. stored' = stored \/ (Writes(TaskOf[x]) /\ executions[TaskOf[x]] # None)
    BY <1>1, <1>2, ExecWrites, CallFacts DEF RegOK
  <2>. QED  BY <2>1, <2>2, <2>3, BystanderCancel, CallFacts
<1>3. ASSUME NEW c \in Cancels, CancelStep(c)  PROVE CancelOK(d)'
  <2>1. CASE d = c
    BY <1>3, <2>1, ActorCancel
  <2>2. CASE d # c
    <3>1. can'[d] = can[d] /\ executions' = executions
      BY <1>1, <1>3, <2>2, CancelFrame
    <3>2. stored' = stored \/ (Writes(TaskOf[c]) /\ cancelations[TaskOf[c]] # d)
      BY <1>3, <2>2, CancelWritesTask
    <3>. QED  BY <3>1, <3>2, BystanderCancel, CallFacts
  <2>. QED  BY <2>1, <2>2
<1>4. ASSUME NEW s \in Subs, SubStep(s)  PROVE CancelOK(d)'
  <2>1. stored' = stored /\ can' = can /\ executions' = executions
    BY <1>1, <1>4, SubFrame DEF managerVars
  <2>. QED  BY <1>1, <2>1 DEF CancelOK
<1>. QED  BY <1>2, <1>3, <1>4, Steps

-----------------------------------------------------------------------------
(***************************************************************************)
(* Subscriptions.                                                          *)
(***************************************************************************)
\* An execution that has been registered is not registered again, and its
\* exiting flag is not lowered.
LEMMA NoWayBack ==
    ASSUME IndInv, Next, NEW o \in Execs, ex[o].pc \notin {"idle", "wait", "create", "refused"}
    PROVE  /\ ex'[o].pc \notin {"idle", "wait", "create", "refused"}
           /\ Registered(o)' => Registered(o)
           /\ ex[o].exiting => ex'[o].exiting
<1>1. RestTypeOK /\ ex[o] \in Execution /\ ex \in [Execs -> Execution] /\ ExitOK(o)
  BY DEF IndInv, TypeOK, RestTypeOK
<1>2. CASE ExecStep(o)
  <2>1. CASE CreateQueues(o) \/ CreateQueuesFails(o) \/ DestroyQueue(o) \/ ClosePipe(o)
    <3>1. PICK label \in {"setup", "destroy", "closePipe", "unregister"} :
             ex' = [ex EXCEPT ![o].pc = label] /\ Registered(o)
      BY <2>1 DEF CreateQueues, CreateQueuesFails, DestroyQueue, ClosePipe, Registered
    <3>. QED  BY <1>1, <3>1 DEF Execution
  <2>2. CASE SetupExecution(o) \/ SetupFails(o) \/ ExecutionReturns(o) \/ Unregister(o)
    <3>1. ex'[o].pc \in {"run", "destroy", "done"} /\ ex'[o].exiting = ex[o].exiting
      BY <1>1, <2>2 DEF SetupExecution, SetupFails, ExecutionReturns, Unregister, Execution
    <3>2. Registered(o)
      BY <2>2 DEF SetupExecution, SetupFails, ExecutionReturns, Unregister, Registered
    <3>. QED  BY <3>1, <3>2
  <2>3. CASE Emit(o) \/ AgentReturns(o) \/ AgentFails(o) \/ InactivityTimeout(o)
    <3>1. ex'[o].pc = ex[o].pc /\ ex'[o].exiting = ex[o].exiting
      <4>1. CASE Emit(o)
        <5>1. PICK p, n : ex' = [ex EXCEPT ![o].pipe = p, ![o].sent = n]
          BY <4>1 DEF Emit
        <5>. QED  BY <1>1, <5>1 DEF Execution
      <4>2. CASE AgentReturns(o) \/ AgentFails(o) \/ InactivityTimeout(o)
        BY <1>1, <4>2 DEF AgentReturns, AgentFails, InactivityTimeout, Execution
      <4>. QED  BY <2>3, <4>1, <4>2
    <3>. QED  BY <3>1 DEF Registered
  <2>4. CASE ProcessEvent(o) \/ RejectEvent(o) \/ PushFails(o)
    <3>1. PICK event, version, r : Processed(o, event, version, r)
      BY <2>4 DEF ProcessEvent, RejectEvent, PushFails
    <3>2. ex'[o].pc = ex[o].pc /\ ex'[o].exiting = ex[o].exiting
      BY <1>1, <3>1 DEF Processed, Execution
    <3>. QED  BY <3>2 DEF Registered
  <2>5. CASE FlagExiting(o)
    <3>1. ex'[o].pc = ex[o].pc /\ ~ex[o].exiting
      BY <1>1, <2>5 DEF FlagExiting, ExitOK, Execution
    <3>. QED  BY <3>1 DEF Registered
  <2>6. CASE Publish(o) \/ PublishFails(o) \/ ReadFails(o) \/ HandleError(o)
    <3>1. ex'[o].pc = ex[o].pc /\ ex'[o].exiting = ex[o].exiting
      <4>1. CASE Publish(o) \/ PublishFails(o)
        BY <1>1, <4>1 DEF Publish, PublishFails, Execution
      <4>2. CASE ReadFails(o) \/ HandleError(o)
        BY <1>1, <4>2 DEF ReadFails, HandleError, Execution
      <4>. QED  BY <2>6, <4>1, <4>2
    <3>. QED  BY <3>1 DEF Registered
  <2>7. ~ExecuteCall(o) /\ ~WaitExiting(o) /\ ~WaitAbandoned(o) /\ ~CreateExecution(o)
    BY DEF ExecuteCall, WaitExiting, WaitAbandoned, CreateExecution
  <2>. QED  BY <1>2, <2>1, <2>2, <2>3, <2>4, <2>5, <2>6, <2>7 DEF ExecStep, Agent, Consumer, Execute
<1>3. ASSUME NEW x \in Execs, ExecStep(x), x # o  PROVE ex'[o] = ex[o]
  BY <1>1, <1>3, ExecFrame
<1>4. ASSUME NEW c \in Cancels, CancelStep(c)  PROVE ex'[o].pc = ex[o].pc /\ ex'[o].exiting = ex[o].exiting
  BY <1>1, <1>4, CancelFrame
<1>5. ASSUME NEW s \in Subs, SubStep(s)  PROVE ex' = ex
  BY <1>1, <1>5, SubFrame
<1>. QED  BY <1>2, <1>3, <1>4, <1>5, Steps DEF Registered

\* What a subscription may hold: the end of its task only when that is stored,
\* the end of its execution only when that is flagged.
MayHold(s, msg) ==
    /\ Terminal(msg.event) => stored[TaskOf[s]].state = msg.event
    /\ IsFinal(msg.event) /\ Registered(sub[s].of) => ex[sub[s].of].exiting

\* What it may hold it may go on to hold.
LEMMA HoldsOn ==
    ASSUME IndInv, Next, NEW s \in Subs, sub[s].of # None, sub'[s].of = sub[s].of,
           NEW msg, MayHold(s, msg)
    PROVE  /\ Terminal(msg.event) => stored'[TaskOf[s]].state = msg.event
           /\ IsFinal(msg.event) /\ Registered(sub[s].of)' => ex'[sub[s].of].exiting
<1>1. sub[s].of \in Execs /\ TaskOf[s] \in Tasks /\ SubOK(s)
  BY CallFacts DEF IndInv, TypeOK, Subscriber
<1>2. PICK o \in Execs : o = sub[s].of
  BY <1>1
<1>3. (Registered(o)' => Registered(o)) /\ (ex[o].exiting => ex'[o].exiting)
  BY <1>1, <1>2, NoWayBack DEF SubOK
<1>4. Terminal(msg.event) => stored'[TaskOf[s]].state = msg.event
  BY <1>1, EndsForGood DEF MayHold
<1>5. Registered(sub[s].of)' <=> Registered(o)'
  BY <1>2 DEF Registered
<1>. QED  BY <1>2, <1>3, <1>4, <1>5 DEF MayHold

\* A subscription that yields nothing, and whose queue grows by nothing that
\* it may not hold, keeps its invariant.
LEMMA BystanderSub ==
    ASSUME IndInv, Next, NEW s \in Subs, sub' \in [Subs -> Subscriber],
           sub'[s].of = sub[s].of, sub'[s].pc = sub[s].pc, sub'[s].seen = sub[s].seen,
           \A t \in Tasks : s \in readers'[t] => s \in readers[t],
           sub[s].of = None => sub'[s].queue = sub[s].queue,
           \A i \in 1..Len(sub'[s].queue) :
              MayHold(s, sub'[s].queue[i])
    PROVE  SubOK(s)'
<1>1. sub[s] \in Subscriber /\ SubOK(s) /\ TaskOf[s] \in Tasks
  BY CallFacts DEF IndInv, TypeOK
<1>2. Terminal(sub[s].seen.event) => stored'[TaskOf[s]].state = sub[s].seen.event
  BY <1>1, EndsForGood DEF SubOK
<1>3. CASE sub[s].of = None
  <2>1. sub[s].queue = <<>> /\ sub[s].pc \in {"none", "refused"}
    BY <1>1, <1>3 DEF SubOK
  <2>2. Len(sub'[s].queue) = 0
    BY <1>3, <2>1
  <2>3. \A t \in Tasks : s \notin readers'[t]
    BY <1>1, <1>3 DEF SubOK
  <2>. QED  BY <1>2, <1>3, <2>1, <2>2, <2>3 DEF SubOK
<1>4. CASE sub[s].of # None
  <2>1. PICK o \in Execs : o = sub[s].of
    BY <1>1, <1>4 DEF Subscriber
  <2>2. TaskOf[o] = TaskOf[s] /\ ex[o].pc \notin {"idle", "wait", "create", "refused"}
    BY <1>1, <1>4, <2>1 DEF SubOK
  <2>3. ex'[o].pc \notin {"idle", "wait", "create", "refused"}
    BY <2>2, NoWayBack
  <2>4. ASSUME NEW i \in 1..Len(sub'[s].queue)
        PROVE  /\ Terminal(sub'[s].queue[i].event) => stored'[TaskOf[s]].state = sub'[s].queue[i].event
               /\ IsFinal(sub'[s].queue[i].event) /\ Registered(o)' => ex'[o].exiting
    <3>1. PICK m : m = sub'[s].queue[i] /\ MayHold(s, m)
      OBVIOUS
    <3>2. /\ Terminal(m.event) => stored'[TaskOf[s]].state = m.event
          /\ IsFinal(m.event) /\ Registered(sub[s].of)' => ex'[sub[s].of].exiting
      BY <1>4, <3>1, HoldsOn
    <3>3. Registered(sub[s].of)' <=> Registered(o)'
      BY <2>1 DEF Registered
    <3>. QED  BY <2>1, <3>1, <3>2, <3>3
  <2>5. sub[s].pc = "ended" /\ sub[s].seen.event \in {"input-required", "message"} /\ Registered(o)'
           => ex'[o].exiting
    BY <1>1, <2>1, <2>2, NoWayBack DEF SubOK
  <2>6. sub'[s].of = o
    BY <2>1
  <2>. QED  BY <1>1, <1>2, <1>4, <2>1, <2>2, <2>3, <2>4, <2>5, <2>6 DEF SubOK, Registered
<1>. QED  BY <1>3, <1>4

\* What is in a queue may be held.
LEMMA QueueHeld ==
    ASSUME IndInv, NEW s \in Subs, NEW i \in 1..Len(sub[s].queue)
    PROVE  MayHold(s, sub[s].queue[i])
BY DEF IndInv, SubOK, MayHold

\* A broadcast is of something its readers may hold: the execution that reads
\* from the broker of a task and is registered is the one that broadcasts.
LEMMA BroadcastHeld ==
    ASSUME IndInv, NEW x \in Execs, ex[x].cons = "publish", NEW s \in Subs, s \in readers[TaskOf[x]]
    PROVE  MayHold(s, ex[x].out) /\ sub[s].of # None
<1>1. /\ RegOK /\ ExecOK(x) /\ ExitOK(x) /\ StoredOK(x) /\ SubOK(s) /\ TaskOf[x] \in Tasks
      /\ sub[s] \in Subscriber
  BY CallFacts DEF IndInv, TypeOK
<1>2. TaskOf[s] = TaskOf[x] /\ sub[s].of # None /\ sub[s].of \in Execs /\ TaskOf[sub[s].of] = TaskOf[s]
  BY <1>1 DEF SubOK, Subscriber
<1>3. Registered(x)
  BY <1>1 DEF ExecOK, Registered
<1>4. Registered(sub[s].of) => sub[s].of = x
  BY <1>1, <1>2, <1>3 DEF RegOK
<1>5. IsFinal(ex[x].out.event) => ex[x].exiting
  BY <1>1 DEF ExitOK
<1>. QED  BY <1>1, <1>2, <1>4, <1>5 DEF MayHold, StoredOK

\* A step of an execution keeps the invariant of every subscription.
LEMMA ExecKeepsSub ==
    ASSUME IndInv, Next, NEW x \in Execs, ExecStep(x), NEW s \in Subs
    PROVE  SubOK(s)'
<1>1. /\ RestTypeOK /\ sub \in [Subs -> Subscriber] /\ sub[s] \in Subscriber /\ SubOK(s)
      /\ TaskOf[x] \in Tasks /\ TaskOf[s] \in Tasks /\ readers \in [Tasks -> SUBSET Subs]
      /\ sub[s].queue \in Seq(Message) /\ ex[x].out \in Message
  BY CallFacts DEF IndInv, TypeOK, RestTypeOK, Subscriber, Execution
<1>2. sub' \in [Subs -> Subscriber]
  BY StepRestTypeOK DEF RestTypeOK
<1>3. CASE CreateQueues(x) /\ s = x
  <2>1. /\ sub'[s].pc = "reading" /\ sub'[s].of = x /\ sub'[s].queue = sub[s].queue
        /\ sub'[s].seen = sub[s].seen
    BY <1>1, <1>3 DEF CreateQueues, Subscriber
  <2>2. ex[x].pc = "queues" /\ ex'[x].pc = "setup" /\ stored' = stored
    BY <1>1, <1>3 DEF CreateQueues, RestTypeOK, Execution
  <2>3. sub[s].of = None
    BY <1>3, <2>2 DEF IndInv, ExecOK
  <2>4. sub'[s].queue = <<>> /\ Len(sub'[s].queue) = 0
    BY <1>1, <2>1, <2>3 DEF SubOK
  <2>5. \A t \in Tasks : s \in readers'[t] => t = TaskOf[s]
    BY <1>1, <1>3 DEF CreateQueues, SubOK
  <2>6. x # None
    BY CallFacts
  <2>. QED  BY <1>1, <1>3, <2>1, <2>2, <2>4, <2>5, <2>6 DEF SubOK
<1>4. CASE ~(CreateQueues(x) /\ s = x)
  <2>1. sub'[s].of = sub[s].of /\ sub'[s].pc = sub[s].pc /\ sub'[s].seen = sub[s].seen
    BY <1>1, <1>4, ExecSubs
  <2>2. \A t \in Tasks : s \in readers'[t] => s \in readers[t]
    <3>1. CASE UNCHANGED readers
      BY <3>1
    <3>2. CASE CreateQueues(x) /\ s # x
      BY <1>1, <3>2 DEF CreateQueues
    <3>3. CASE DestroyQueue(x)
      BY <1>1, <3>3 DEF DestroyQueue
    <3>. QED
      BY <1>4, <3>1, <3>2, <3>3 DEF ExecStep, ExecuteCall, Agent, Emit, AgentReturns, AgentFails,
         InactivityTimeout, WaitAbandoned, Consumer, ProcessEvent, RejectEvent, PushFails, Processed, FlagExiting,
         Publish, PublishFails, ReadFails, HandleError, Execute, WaitExiting, CreateExecution, CreateQueuesFails,
         SetupExecution, SetupFails, ExecutionReturns, ClosePipe, Unregister, OnlyExecution
  <2>3. CASE sub'[s].queue = sub[s].queue
    BY <1>2, <2>1, <2>2, <2>3, QueueHeld, BystanderSub
  <2>4. CASE /\ sub'[s].queue = Append(sub[s].queue, ex[x].out)
             /\ s \in readers[TaskOf[x]] /\ ex[x].cons = "publish"
    <3>1. MayHold(s, ex[x].out) /\ sub[s].of # None
      BY <2>4, BroadcastHeld
    <3>2. /\ Len(sub'[s].queue) = Len(sub[s].queue) + 1 /\ Len(sub[s].queue) \in Nat
          /\ \A i \in 1..Len(sub[s].queue) : sub'[s].queue[i] = sub[s].queue[i]
          /\ sub'[s].queue[Len(sub[s].queue) + 1] = ex[x].out
      BY <1>1, <2>4, AppendProperties, LenProperties
    <3>3. ASSUME NEW i \in 1..Len(sub'[s].queue)  PROVE MayHold(s, sub'[s].queue[i])
      <4>1. CASE i \in 1..Len(sub[s].queue)
        <5>1. MayHold(s, sub[s].queue[i])
          BY <4>1, QueueHeld
        <5>. QED  BY <3>2, <4>1, <5>1
      <4>2. CASE i = Len(sub[s].queue) + 1
        BY <3>1, <3>2, <4>2
      <4>. QED  BY <3>2, <4>1, <4>2
    <3>. QED  BY <1>2, <2>1, <2>2, <3>1, <3>3, BystanderSub
  <2>5. CASE UNCHANGED sub
    BY <2>3, <2>5
  <2>6. CASE Broadcast(x) /\ ex[x].cons = "publish"
    <3>1. CASE s \in readers[TaskOf[x]]
      <4>1. sub'[s] = [sub[s] EXCEPT !.queue = Append(sub[s].queue, ex[x].out)]
        BY <1>1, <2>6, <3>1, BroadcastFacts
      <4>2. sub'[s].queue = Append(sub[s].queue, ex[x].out)
        BY <1>1, <4>1 DEF Subscriber
      <4>. QED  BY <2>4, <2>6, <3>1, <4>2
    <3>2. CASE s \notin readers[TaskOf[x]]
      BY <1>1, <2>3, <2>6, <3>2, BroadcastFacts
    <3>. QED  BY <3>1, <3>2
  <2>7. CASE CreateQueues(x) \/ DestroyQueue(x)
    <3>1. sub'[s].queue = sub[s].queue
      BY <1>1, <1>4, <2>7 DEF CreateQueues, DestroyQueue, Subscriber
    <3>. QED  BY <2>3, <3>1
  <2>. QED
    BY <2>5, <2>6, <2>7 DEF ExecStep, ExecuteCall, Agent, Emit, AgentReturns, AgentFails, InactivityTimeout,
       WaitAbandoned, Consumer, ProcessEvent, RejectEvent, PushFails, Processed, FlagExiting, Publish, PublishFails,
       ReadFails, HandleError, Execute, WaitExiting, CreateExecution, CreateQueuesFails, SetupExecution, SetupFails,
       ExecutionReturns, ClosePipe, Unregister, OnlyExecution
<1>. QED  BY <1>3, <1>4

\* The end of a stream keeps the invariant, if what it yields may be held.
LEMMA EndsHeld ==
    ASSUME IndInv, NEW s \in Subs, NEW label \in {"ended", "left"}, NEW yielded,
           Ends(s, label, yielded), UNCHANGED <<stored, ex>>, sub[s].of # None,
           Terminal(yielded.event) => stored[TaskOf[s]].state = yielded.event,
           label = "ended" /\ yielded.event \in {"input-required", "message"} /\ Registered(sub[s].of)
              => ex[sub[s].of].exiting
    PROVE  SubOK(s)'
<1>1. /\ sub \in [Subs -> Subscriber] /\ sub[s] \in Subscriber /\ SubOK(s)
      /\ TaskOf[s] \in Tasks /\ readers \in [Tasks -> SUBSET Subs]
  BY CallFacts DEF IndInv, TypeOK
<1>2. /\ sub'[s].pc = label /\ sub'[s].seen = yielded /\ sub'[s].queue = <<>> /\ sub'[s].of = sub[s].of
      /\ readers' = [readers EXCEPT ![TaskOf[s]] = @ \ {s}]
  BY <1>1 DEF Ends, Subscriber
<1>3. \A t \in Tasks : s \in readers'[t] => s \in readers[t]
  BY <1>1, <1>2
<1>4. Len(sub'[s].queue) = 0
  BY <1>2
<1>. QED  BY <1>1, <1>2, <1>3, <1>4 DEF SubOK, Registered

\* A step of a subscription keeps its invariant.
LEMMA ActorSub ==
    ASSUME IndInv, Next, NEW s \in Subs, SubStep(s)
    PROVE  SubOK(s)'
<1>1. /\ RestTypeOK /\ RegOK /\ sub \in [Subs -> Subscriber] /\ sub[s] \in Subscriber /\ SubOK(s)
      /\ TaskOf[s] \in Tasks /\ readers \in [Tasks -> SUBSET Subs] /\ sub[s].queue \in Seq(Message)
  BY CallFacts DEF IndInv, TypeOK, RestTypeOK, Subscriber
<1>2. UNCHANGED <<stored, ex>>
  BY <1>1, SubFrame
<1>3. CASE Resubscribe(s)
  <2>1. sub[s].pc = "none" /\ sub[s].of = None /\ sub[s].queue = <<>>
    BY <1>1, <1>3 DEF Resubscribe, SubOK
  <2>2. CASE sub' = [sub EXCEPT ![s].pc = "refused"] /\ readers' = readers
    <3>1. /\ sub'[s].pc = "refused" /\ sub'[s].of = None /\ sub'[s].queue = <<>>
          /\ sub'[s].seen = sub[s].seen
      BY <1>1, <2>1, <2>2 DEF Subscriber
    <3>2. Len(sub'[s].queue) = 0
      BY <3>1
    <3>. QED  BY <1>1, <1>2, <2>1, <2>2, <3>1, <3>2 DEF SubOK
  <2>3. ASSUME NEW x, x = executions[TaskOf[s]], x # None,
               readers' = [readers EXCEPT ![TaskOf[s]] = @ \cup {s}],
               sub' = [sub EXCEPT ![s].pc = "snapshot", ![s].of = x]
        PROVE  SubOK(s)'
    <3>1. /\ sub'[s].pc = "snapshot" /\ sub'[s].of = x /\ sub'[s].queue = <<>>
          /\ sub'[s].seen = sub[s].seen
      BY <1>1, <2>1, <2>3 DEF Subscriber
    <3>2. x \in Execs /\ TaskOf[x] = TaskOf[s] /\ Registered(x)
      BY <1>1, <2>3 DEF RestTypeOK, RegOK
    <3>3. ex'[x].pc \notin {"idle", "wait", "create", "refused"}
      BY <1>2, <3>2 DEF Registered
    <3>4. \A t \in Tasks : s \in readers'[t] => t = TaskOf[s]
      BY <1>1, <2>1, <2>3 DEF SubOK
    <3>5. Len(sub'[s].queue) = 0
      BY <3>1
    <3>. QED  BY <1>1, <1>2, <2>3, <3>1, <3>2, <3>3, <3>4, <3>5 DEF SubOK
  <2>. QED  BY <1>3, <2>2, <2>3 DEF Resubscribe
<1>4. CASE ~Resubscribe(s)
  <2>1. sub[s].pc \in {"snapshot", "reading", "promise"}
    BY <1>4 DEF SubStep, Subscription, SubSnapshot, SubRead, SubQueueClosed, SubPromise, Leave
  <2>2. sub[s].of # None /\ sub[s].of \in Execs /\ TaskOf[sub[s].of] = TaskOf[s]
    BY <1>1, <2>1 DEF SubOK, Subscriber
  <2>3. ASSUME NEW label \in {"reading", "promise"}, NEW seen, NEW queue \in Seq(Message),
               sub'[s].pc = label, sub'[s].of = sub[s].of, sub'[s].seen = seen, sub'[s].queue = queue,
               readers' = readers,
               Terminal(seen.event) => stored[TaskOf[s]].state = seen.event,
               \A i \in 1..Len(queue) : MayHold(s, queue[i])
        PROVE  SubOK(s)'
    BY <1>1, <1>2, <2>2, <2>3 DEF SubOK, MayHold, Registered
  <2>4. \A i \in 1..Len(sub[s].queue) : MayHold(s, sub[s].queue[i])
    BY QueueHeld
  <2>5. CASE SubSnapshot(s)
    <3>. DEFINE yielded == [event |-> stored[TaskOf[s]].state, version |-> stored[TaskOf[s]].version]
    <3>1. CASE Terminal(stored[TaskOf[s]].state)
      <4>1. Ends(s, "ended", yielded)
        BY <2>5, <3>1 DEF SubSnapshot
      <4>2. yielded.event \notin {"input-required", "message"} /\ yielded.event = stored[TaskOf[s]].state
        BY <3>1 DEF Terminal, TerminalStates
      <4>. HIDE DEF yielded
      <4>. QED  BY <1>2, <2>2, <4>1, <4>2, EndsHeld
    <3>2. CASE ~Terminal(stored[TaskOf[s]].state)
      <4>1. sub' = [sub EXCEPT ![s].pc = "reading", ![s].seen = yielded, ![s].snap = stored[TaskOf[s]].version]
            /\ readers' = readers /\ yielded.event = stored[TaskOf[s]].state
        BY <2>5, <3>2 DEF SubSnapshot
      <4>. HIDE DEF yielded
      <4>2. /\ sub'[s].pc = "reading" /\ sub'[s].of = sub[s].of /\ sub'[s].seen = yielded
            /\ sub'[s].queue = sub[s].queue
        BY <1>1, <4>1 DEF Subscriber
      <4>. QED  BY <1>1, <2>3, <2>4, <3>2, <4>1, <4>2
    <3>. QED  BY <3>1, <3>2
  <2>6. CASE SubRead(s)
    <3>. DEFINE msg == Head(sub[s].queue)
                tail == Tail(sub[s].queue)
    <3>1. sub[s].pc = "reading" /\ sub[s].queue # <<>>
      BY <2>6 DEF SubRead
    <3>2. /\ tail \in Seq(Message) /\ msg = sub[s].queue[1] /\ 1 \in 1..Len(sub[s].queue)
          /\ \A i \in 1..Len(tail) : tail[i] = sub[s].queue[i + 1] /\ i + 1 \in 1..Len(sub[s].queue)
      <4>1. /\ tail \in Seq(Message) /\ Len(tail) = Len(sub[s].queue) - 1 /\ Len(sub[s].queue) \in Nat
            /\ Len(sub[s].queue) # 0
            /\ \A i \in 1..Len(tail) : tail[i] = sub[s].queue[i + 1]
        BY <1>1, <3>1, HeadTailProperties, LenProperties, EmptySeq
      <4>2. msg = sub[s].queue[1]
        BY <1>1, <3>1
      <4>. QED  BY <4>1, <4>2
    <3>3. MayHold(s, msg) /\ \A i \in 1..Len(tail) : MayHold(s, tail[i])
      <4>1. MayHold(s, msg)
        BY <2>4, <3>2
      <4>2. ASSUME NEW i \in 1..Len(tail)  PROVE MayHold(s, tail[i])
        <5>1. MayHold(s, sub[s].queue[i + 1])
          BY <2>4, <3>2
        <5>. QED  BY <3>2, <5>1
      <4>. QED  BY <4>1, <4>2
    <3>4. \/ /\ sub' = [sub EXCEPT ![s].queue = tail] /\ readers' = readers
          \/ IsFinal(msg.event) /\ Ends(s, "ended", msg)
          \/ /\ sub' = [sub EXCEPT ![s].queue = tail, ![s].seen = msg] /\ readers' = readers
      BY <2>6 DEF SubRead
    <3>. HIDE DEF msg, tail
    <3>5. CASE sub' = [sub EXCEPT ![s].queue = tail] /\ readers' = readers
      <4>1. /\ sub'[s].pc = "reading" /\ sub'[s].of = sub[s].of /\ sub'[s].seen = sub[s].seen
            /\ sub'[s].queue = tail
        BY <1>1, <3>1, <3>5 DEF Subscriber
      <4>2. Terminal(sub[s].seen.event) => stored[TaskOf[s]].state = sub[s].seen.event
        BY <1>1 DEF SubOK
      <4>. QED  BY <2>3, <3>2, <3>3, <3>5, <4>1, <4>2
    <3>6. CASE IsFinal(msg.event) /\ Ends(s, "ended", msg)
      BY <1>2, <2>2, <3>3, <3>6, EndsHeld DEF MayHold
    <3>7. CASE sub' = [sub EXCEPT ![s].queue = tail, ![s].seen = msg] /\ readers' = readers
      <4>1. /\ sub'[s].pc = "reading" /\ sub'[s].of = sub[s].of /\ sub'[s].seen = msg
            /\ sub'[s].queue = tail
        BY <1>1, <3>1, <3>7 DEF Subscriber
      <4>2. Terminal(msg.event) => stored[TaskOf[s]].state = msg.event
        BY <3>3 DEF MayHold
      <4>. QED  BY <2>3, <3>2, <3>3, <3>7, <4>1, <4>2
    <3>. QED  BY <3>4, <3>5, <3>6, <3>7
  <2>7. CASE SubQueueClosed(s)
    <3>1. /\ sub'[s].pc = "promise" /\ sub'[s].of = sub[s].of /\ sub'[s].seen = sub[s].seen
          /\ sub'[s].queue = sub[s].queue /\ readers' = readers
      BY <1>1, <2>7 DEF SubQueueClosed, Subscriber
    <3>2. Terminal(sub[s].seen.event) => stored[TaskOf[s]].state = sub[s].seen.event
      BY <1>1 DEF SubOK
    <3>. QED  BY <1>1, <2>3, <2>4, <3>1, <3>2
  <2>8. CASE SubPromise(s)
    <3>. DEFINE o == sub[s].of
                yielded == [sub[s].seen EXCEPT !.event = ex[o].promise.value]
    <3>1. Ends(s, "ended", yielded) /\ ex[o].promise.done
      BY <2>8 DEF SubPromise
    <3>2. yielded.event = ex[o].promise.value
      BY <1>1 DEF Subscriber, Message
    <3>3. ~Registered(o)
      BY <2>2, <3>1 DEF IndInv, ExecOK, Registered
    <3>4. Terminal(yielded.event) => stored[TaskOf[s]].state = yielded.event
      BY <2>2, <3>2 DEF IndInv, StoredOK
    <3>. HIDE DEF yielded
    <3>. QED  BY <1>2, <2>2, <3>1, <3>3, <3>4, EndsHeld
  <2>9. CASE Leave(s)
    <3>1. Ends(s, "left", sub[s].seen)
      BY <2>9 DEF Leave
    <3>2. Terminal(sub[s].seen.event) => stored[TaskOf[s]].state = sub[s].seen.event
      BY <1>1 DEF SubOK
    <3>. QED  BY <1>2, <2>2, <3>1, <3>2, EndsHeld
  <2>. QED  BY <1>4, <2>5, <2>6, <2>7, <2>8, <2>9 DEF SubStep, Subscription
<1>. QED  BY <1>3, <1>4

\* The invariant of the subscriptions.
LEMMA StepSubs ==
    ASSUME IndInv, Next, NEW s \in Subs
    PROVE  SubOK(s)'
<1>1. RestTypeOK
  BY DEF IndInv, TypeOK, RestTypeOK
<1>2. sub' \in [Subs -> Subscriber]
  BY StepRestTypeOK DEF RestTypeOK
<1>3. ASSUME NEW c \in Cancels, CancelStep(c)  PROVE SubOK(s)'
  <2>1. sub' = sub /\ readers' = readers
    BY <1>1, <1>3, CancelFrame
  <2>. QED  BY <1>2, <2>1, QueueHeld, BystanderSub
<1>4. ASSUME NEW r \in Subs, SubStep(r)  PROVE SubOK(s)'
  <2>1. CASE r = s
    BY <1>4, <2>1, ActorSub
  <2>2. CASE r # s
    <3>1. sub'[s] = sub[s] /\ \A t \in Tasks : s \in readers'[t] => s \in readers[t]
      BY <1>1, <1>4, <2>2, SubFrame
    <3>. QED  BY <1>2, <3>1, QueueHeld, BystanderSub
  <2>. QED  BY <2>1, <2>2
<1>. QED  BY <1>3, <1>4, ExecKeepsSub, Steps

-----------------------------------------------------------------------------
(***************************************************************************)
(* The theorems.                                                           *)
(***************************************************************************)
\* Nothing is registered, running or told at first.
LEMMA InitIndInv ==
    ASSUME Init
    PROVE  IndInv
<1>1. /\ "none" \in Outcomes /\ "input-required" \in States /\ ~Terminal("none")
      /\ ~Terminal("input-required")
  BY DEF Outcomes, States, Terminal, TerminalStates
<1>2. Nothing \in Message /\ Unresolved \in Promise /\ <<>> \in Seq(Events) /\ <<>> \in Seq(Message)
  BY <1>1 DEF Nothing, Message, Unresolved, Promise
<1>3. NewExecution \in Execution
  BY <1>1, <1>2 DEF NewExecution, Execution
<1>4. NewCancelation \in Cancelation
  BY <1>2 DEF NewCancelation, Cancelation
<1>5. NewSubscription \in Subscriber
  BY <1>2 DEF NewSubscription, Subscriber
<1>6. stored \in [Tasks -> [state : States \cup {"none"}, version : Nat]]
  BY <1>1 DEF Init
<1>7. /\ \A x \in Execs : ex[x] = NewExecution
      /\ \A c \in Cancels : can[c] = NewCancelation
      /\ \A s \in Subs : sub[s] = NewSubscription
      /\ \A t \in Tasks : readers[t] = {} /\ executions[t] = None /\ cancelations[t] = None
  BY DEF Init
<1>8. TypeOK
  BY <1>3, <1>4, <1>5, <1>6 DEF Init, TypeOK
<1>9. \A x \in Execs : ~Registered(x)
  BY <1>7 DEF Registered, NewExecution
<1>10. RegOK
  BY <1>7, <1>9, CallFacts DEF RegOK, NewCancelation
<1>11. QuotaExact /\ IsFiniteSet(RegisteredExecs)
  <2>1. {x \in Execs : Registered(x)} = {} /\ \A s \in Scopes : {x \in Execs : Registered(x) /\ ScopeOf[x] = s} = {}
    BY <1>9
  <2>2. Cardinality({}) = 0 /\ IsFiniteSet({})
    BY FS_EmptySet
  <2>3. setting.maxExecutions \in Nat /\ setting.maxPerScope \in Nat
    BY SettingFacts DEF Init
  <2>4. quota = 0 /\ \A s \in Scopes : byScope[s] = 0
    BY DEF Init
  <2>. QED  BY <2>1, <2>2, <2>3, <2>4 DEF QuotaExact, RegisteredExecs
<1>12. ASSUME NEW x \in Execs  PROVE ExecOK(x) /\ ExitOK(x) /\ StoredOK(x)
  <2>1. /\ ex[x].pc = "idle" /\ ex[x].agent = "off" /\ ex[x].cons = "off" /\ ~ex[x].promise.done
        /\ ex[x].result = "none" /\ ~ex[x].exiting /\ ex[x].promise.value = "none" /\ ex[x].waitingFor = None
    BY <1>7 DEF NewExecution, Unresolved
  <2>2. sub[x].of = None
    BY <1>7, CallFacts DEF NewSubscription
  <2>3. x \in Starters => stored[TaskOf[x]].state = "none"
    BY CallFacts DEF Init
  <2>. QED  BY <1>1, <2>1, <2>2, <2>3 DEF ExecOK, ExitOK, StoredOK
<1>13. ASSUME NEW c \in Cancels  PROVE CancelOK(c)
  <2>1. /\ can[c].pc = "idle" /\ can[c].run = None /\ can[c].leader = None /\ can[c].return = "none"
        /\ can[c].promise.value = "none"
    BY <1>7 DEF NewCancelation, Unresolved
  <2>. QED  BY <1>1, <2>1 DEF CancelOK
<1>14. ASSUME NEW s \in Subs  PROVE SubOK(s)
  <2>1. /\ sub[s].pc = "none" /\ sub[s].of = None /\ sub[s].queue = <<>> /\ sub[s].seen.event = "none"
    BY <1>7 DEF NewSubscription, Nothing
  <2>2. Len(sub[s].queue) = 0
    BY <2>1
  <2>. QED  BY <1>1, <1>7, <2>1, <2>2 DEF SubOK
<1>. QED  BY <1>8, <1>10, <1>11, <1>12, <1>13, <1>14 DEF IndInv

\* Every step keeps the inductive invariant.
LEMMA NextIndInv ==
    ASSUME IndInv, [Next]_vars
    PROVE  IndInv'
<1>1. CASE Next
  BY <1>1, StepBooks, StepRegOK, StepExecs, StepCancels, StepSubs DEF IndInv
<1>2. CASE UNCHANGED vars
  <2>1. UNCHANGED <<setting, stored, executions, cancelations, quota, byScope, ex, can, readers, sub>>
    BY <1>2 DEF vars, managerVars
  <2>2. TypeOK' /\ RegOK' /\ QuotaExact' /\ IsFiniteSet(RegisteredExecs)'
    BY <2>1 DEF IndInv, TypeOK, RegOK, QuotaExact, RegisteredExecs, Registered
  <2>3. \A x \in Execs : ExecOK(x)' /\ ExitOK(x)' /\ StoredOK(x)'
    BY <2>1 DEF IndInv, ExecOK, ExitOK, StoredOK
  <2>4. \A c \in Cancels : CancelOK(c)'
    BY <2>1 DEF IndInv, CancelOK
  <2>5. \A s \in Subs : SubOK(s)'
    BY <2>1 DEF IndInv, SubOK, Registered
  <2>. QED  BY <2>2, <2>3, <2>4, <2>5 DEF IndInv
<1>. QED  BY <1>1, <1>2

\* The invariant holds of every reachable state.
THEOREM Invariance == Spec => []IndInv
<1>1. Init => IndInv
  BY InitIndInv
<1>2. IndInv /\ [Next]_vars => IndInv'
  BY NextIndInv
<1>. QED  BY <1>1, <1>2, PTL DEF Spec

\* The executions and cancelations that process the events of a task are at
\* most one: it is in executions, or there is none and it is in cancelations.
LEMMA OnePipeline ==
    ASSUME IndInv
    PROVE  OnePipelinePerTask
<1>. SUFFICES ASSUME NEW t \in Tasks  PROVE Cardinality(Pipelines(t)) <= 1
  BY DEF OnePipelinePerTask
<1>1. RegOK /\ \A c \in Cancels : CancelOK(c)
  BY DEF IndInv
<1>2. PICK p : Pipelines(t) \subseteq {p}
  <2>1. CASE executions[t] # None
    BY <1>1, <2>1 DEF Pipelines, RegOK, CancelOK, Registered
  <2>2. CASE executions[t] = None
    BY <1>1, <2>2, CallFacts DEF Pipelines, RegOK, Registered
  <2>. QED  BY <2>1, <2>2
<1>3. IsFiniteSet({p}) /\ Cardinality({p}) = 1
  BY FS_Singleton
<1>. QED  BY <1>2, <1>3, FS_Subset

\* The manager's books are exact: the types, one pipeline per task, and a quota
\* that counts the registered executions and stays within its limits.
THEOREM Books == Spec => []BooksExact
<1>1. IndInv => BooksExact
  BY OnePipeline DEF IndInv, BooksExact
<1>. QED  BY <1>1, Invariance, PTL

\* Whoever has been sent the last event of an execution finds it exiting, and
\* does not meet it again once it has waited for it.
THEOREM FollowUps == Spec => []FastFollowUpWaits
<1>1. IndInv => FastFollowUpWaits
  <2>. SUFFICES ASSUME IndInv  PROVE FastFollowUpWaits
    OBVIOUS
  <2>1. ASSUME NEW x \in Execs, NEW s \in Subs, Registered(x), sub[s].of = x, sub[s].pc = "ended",
               sub[s].seen.event \in {"input-required", "message"}
        PROVE  ex[x].exiting
    BY <2>1 DEF IndInv, SubOK
  <2>2. ASSUME NEW x \in Execs, ex[x].pc = "create", ex[x].waitingFor # None
        PROVE  executions[TaskOf[x]] # ex[x].waitingFor
    <3>1. PICK y \in Execs : y = ex[x].waitingFor
      BY <2>2 DEF IndInv, TypeOK, Execution
    <3>2. ex[y].promise.done
      BY <2>2, <3>1 DEF IndInv, ExecOK
    <3>3. ~Registered(y)
      BY <3>2 DEF IndInv, ExecOK, Registered
    <3>4. executions[TaskOf[y]] # y
      BY <3>3 DEF IndInv, RegOK
    <3>5. executions[TaskOf[x]] = y => TaskOf[y] = TaskOf[x]
      BY <3>1, CallFacts DEF IndInv, RegOK
    <3>. QED  BY <3>1, <3>4, <3>5
  <2>. QED  BY <2>1, <2>2 DEF FastFollowUpWaits
<1>. QED  BY <1>1, Invariance, PTL

\* A terminal state that anybody was told is the stored one.
THEOREM Told == Spec => []ToldIsStored
<1>1. IndInv => ToldIsStored
  <2>. SUFFICES ASSUME IndInv  PROVE ToldIsStored
    OBVIOUS
  <2>1. \A s \in Subs : Terminal(sub[s].seen.event) => stored[TaskOf[s]].state = sub[s].seen.event
    BY DEF IndInv, SubOK
  <2>2. \A x \in Execs : Terminal(ex[x].promise.value) => stored[TaskOf[x]].state = ex[x].promise.value
    BY DEF IndInv, StoredOK
  <2>3. \A c \in Cancels : can[c].return = "canceled" => stored[TaskOf[c]].state = "canceled"
    BY DEF IndInv, CancelOK
  <2>. QED  BY <2>1, <2>2, <2>3 DEF ToldIsStored
<1>. QED  BY <1>1, Invariance, PTL

\* A task that has ended is not given another state by any call, be it an
\* execution that fails late or a cancelation, and no task disappears.
TasksEndForGood ==
    [][\A t \in Tasks : /\ Terminal(stored[t].state) => stored'[t].state = stored[t].state
                        /\ Exists(t) => stored'[t].state # "none"]_vars

\* TasksEndForGood holds of every step.
THEOREM Finality == Spec => TasksEndForGood
<1>1. IndInv /\ [Next]_vars =>
        [\A t \in Tasks : /\ Terminal(stored[t].state) => stored'[t].state = stored[t].state
                          /\ Exists(t) => stored'[t].state # "none"]_vars
  BY EndsForGood
<1>. QED  BY <1>1, Invariance, PTL DEF Spec, TasksEndForGood
-----------------------------------------------------------------------------
(***************************************************************************)
(* What subscribers see of the versions.                                   *)
(***************************************************************************)
\* The consumer of x has an event to broadcast.
Announces(x) == ex[x].cons \in {"flag", "publish"} /\ ex[x].result # "error"

\* What it last announced was stored, or is a message and has no version.  It
\* goes on only after an event that is not the end, and a task whose end could
\* not be broadcast has ended all the same.
OutOK(x) ==
    LET task == stored[TaskOf[x]]
        out == ex[x].out
    IN  /\ out.version <= task.version /\ out.event # "error"
        /\ ex[x].cons = "off" => out = Nothing
        /\ ex[x].cons = "publish" => ex[x].result # "error"
        /\ Announces(x) /\ out.version = 0 => out.event = "message"
        /\ ex[x].cons = "read" => ~Terminal(out.event)
        /\ ex[x].cons = "error" /\ Terminal(out.event) => Terminal(task.state)

Live(s) == sub[s].pc \in {"snapshot", "reading"}

\* The queue of a subscriber is in the order of the versions, none of which is
\* newer than the store; what is older than the last yielded is older than the
\* snapshot as well, so that it will be skipped.
OrderOK(s) ==
    Live(s) =>
        LET queue == sub[s].queue
            v == stored[TaskOf[s]].version
        IN  /\ sub[s].snap <= sub[s].seen.version /\ sub[s].seen.version <= v
            /\ \A i, j \in 1..Len(queue) :
                  i < j => queue[i].version < queue[j].version \/ queue[j].version = 0
            /\ \A i \in 1..Len(queue) :
                  /\ queue[i].version <= v
                  /\ queue[i].version = 0 => queue[i].event = "message"
                  /\ sub[s].seen.version < queue[i].version \/ queue[i].version <= sub[s].snap

\* What is about to be broadcast is newer than everything before it, except
\* for a snapshot.
AheadOK(s, x) ==
    Live(s) /\ TaskOf[x] = TaskOf[s] /\ Announces(x) /\ ex[x].out.version # 0 =>
        /\ \A i \in 1..Len(sub[s].queue) : sub[s].queue[i].version < ex[x].out.version
        /\ sub[s].seen.version < ex[x].out.version \/ sub[s].seen.version = sub[s].snap

\* A subscriber stays connected until the execution it was made for destroys
\* the queues, and one that is not connected yet has seen nothing.
JoinedOK(s) ==
    /\ Live(s) /\ ex[sub[s].of].pc \in {"queues", "setup", "run", "destroy"}
          => s \in readers[TaskOf[s]]
    /\ sub[s].of = None => sub[s].snap = 0 /\ sub[s].seen.version = 0

\* The last announcement of x is complete.
Announced(x) == ex[x].cons = "read" \/ (ex[x].cons = "stopped" /\ ex[x].result = ex[x].out.event)

CaughtUp(s) ==
    sub[s].pc = "reading" /\ Announced(sub[s].of) =>
        \/ ex[sub[s].of].out.version <= sub[s].seen.version
        \/ \E i \in 1..Len(sub[s].queue) : sub[s].queue[i] = ex[sub[s].of].out

StreamsOK ==
    /\ \A x \in Execs : OutOK(x)
    /\ \A s \in Subs : OrderOK(s) /\ JoinedOK(s) /\ CaughtUp(s) /\ \A x \in Execs : AheadOK(s, x)

\* Nobody takes a version back.
LEMMA VersionsGrow ==
    ASSUME IndInv, Next, NEW t \in Tasks
    PROVE  /\ stored[t].version \in Nat /\ stored'[t].version \in Nat
           /\ stored[t].version <= stored'[t].version
<1>1. /\ RestTypeOK /\ stored \in [Tasks -> [state : States \cup {"none"}, version : Nat]]
      /\ stored[t].version \in Nat
  BY DEF IndInv, TypeOK, RestTypeOK
<1>2. stored'[t].version \in Nat
  BY StepRestTypeOK DEF RestTypeOK
<1>3. ASSUME NEW u \in Tasks, NEW e, Save(u, e)  PROVE stored[t].version <= stored'[t].version
  <2>1. stored' = [stored EXCEPT ![u] = [state |-> e, version |-> stored[u].version + 1]]
    BY <1>3 DEF Save
  <2>2. CASE t = u
    BY <1>1, <2>1, <2>2
  <2>3. CASE t # u
    BY <1>1, <2>1, <2>3
  <2>. QED  BY <2>2, <2>3
<1>4. ASSUME NEW x \in Execs, ExecStep(x)  PROVE stored[t].version <= stored'[t].version
  <2>1. TaskOf[x] \in Tasks
    BY CallFacts
  <2>2. CASE stored' = stored
    BY <1>1, <2>2
  <2>3. CASE \E e : Save(TaskOf[x], e)
    BY <1>3, <2>1, <2>3
  <2>4. CASE stored' = [stored EXCEPT ![TaskOf[x]] = [state |-> "failed", version |-> @.version + 2]]
    <3>1. stored' = [stored EXCEPT ![TaskOf[x]] = [state |-> "failed", version |-> stored[TaskOf[x]].version + 2]]
      BY <2>4
    <3>2. CASE t = TaskOf[x]
      BY <1>1, <3>1, <3>2
    <3>3. CASE t # TaskOf[x]
      BY <1>1, <3>1, <3>3
    <3>. QED  BY <3>2, <3>3
  <2>5. CASE ProcessEvent(x) \/ RejectEvent(x) \/ PushFails(x) \/ HandleError(x)
    BY <2>2, <2>3, <2>4, <2>5 DEF ProcessEvent, RejectEvent, PushFails, HandleError
  <2>6. CASE SetupExecution(x) \/ SetupFails(x)
    BY <2>2, <2>3, <2>6 DEF SetupExecution, SetupFails, UpdateHistory
  <2>. QED
    BY <1>4, <2>2, <2>5, <2>6 DEF ExecStep, ExecuteCall, Agent, Emit, AgentReturns, AgentFails, InactivityTimeout,
       WaitAbandoned, Consumer, FlagExiting, Publish, PublishFails, ReadFails, Execute, WaitExiting, CreateExecution,
       CreateQueues, CreateQueuesFails, ExecutionReturns, DestroyQueue, ClosePipe, Unregister, OnlyExecution
<1>5. ASSUME NEW c \in Cancels, CancelStep(c)  PROVE stored[t].version <= stored'[t].version
  <2>1. TaskOf[c] \in Tasks
    BY CallFacts
  <2>2. CASE stored' = stored
    BY <1>1, <2>2
  <2>3. CASE \E e : Save(TaskOf[c], e)
    BY <1>3, <2>1, <2>3
  <2>4. CASE stored' = [stored EXCEPT ![TaskOf[c]] = [state |-> "failed", version |-> @.version + 2]]
    <3>1. CASE t = TaskOf[c]
      BY <1>1, <2>4, <3>1
    <3>2. CASE t # TaskOf[c]
      BY <1>1, <2>4, <3>2
    <3>. QED  BY <3>1, <3>2
  <2>5. CASE AloneEvent(c) \/ AlonePushFails(c) \/ AloneRejects(c)
    BY <2>2, <2>3, <2>4, <2>5 DEF AloneEvent, AlonePushFails, AloneRejects
  <2>. QED
    BY <1>5, <2>2, <2>5 DEF CancelStep, CancelCall, Cancel, CancelSetup, CancelWrites, CancelOnPipe,
       CancelOnPipeFails, AwaitRun, AloneFails, FinishCancel, CancelReturns, CancelAbandoned
<1>6. ASSUME NEW s \in Subs, SubStep(s)  PROVE stored[t].version <= stored'[t].version
  <2>1. stored' = stored
    BY <1>1, <1>6, SubFrame
  <2>. QED  BY <1>1, <2>1
<1>. QED  BY <1>1, <1>2, <1>4, <1>5, <1>6, Steps

\* An event the consumer will broadcast has the version it was stored under,
\* which is a new one, or is a message.
LEMMA NewVersion ==
    ASSUME RestTypeOK, NEW x \in Execs, ProcessEvent(x) \/ RejectEvent(x) \/ PushFails(x)
    PROVE  \E event, version, r :
              /\ Processed(x, event, version, r) /\ Reads(x)
              /\ version \in Nat /\ version <= stored'[TaskOf[x]].version /\ event # "error"
              /\ r # "error" => (version = 0 /\ event = "message") \/ stored[TaskOf[x]].version < version
<1>. DEFINE t == TaskOf[x]
            v == stored[t].version
            e == Head(ex[x].pipe)
<1>1. /\ ex[x] \in Execution /\ t \in Tasks /\ v \in Nat
      /\ stored \in [Tasks -> [state : States \cup {"none"}, version : Nat]]
  BY CallFacts DEF RestTypeOK
<1>2. Reads(x)
  BY DEF ProcessEvent, RejectEvent, PushFails
<1>3. e \in Events
  <2>1. ex[x].pipe \in Seq(Events) /\ ex[x].pipe # <<>>
    BY <1>1, <1>2 DEF Execution, Reads
  <2>. QED  BY <2>1, HeadTailProperties
<1>4. e # "error" /\ "error" # "failed" /\ "error" # "none"
  BY <1>3 DEF Events, States, TerminalStates
<1>5. ASSUME NEW s, Save(t, s)  PROVE stored'[t].version = v + 1
  <2>1. stored' = [stored EXCEPT ![t] = [state |-> s, version |-> v + 1]]
    BY <1>5 DEF Save
  <2>. QED  BY <1>1, <2>1
<1>6. ASSUME stored' = stored  PROVE 0 <= stored'[t].version
  BY <1>1, <1>6
<1>7. ASSUME NEW s, Save(t, s)  PROVE 0 <= stored'[t].version
  BY <1>1, <1>5, <1>7
<1>8. CASE ProcessEvent(x)
  <2>1. CASE e = "message"
    <3>1. Processed(x, e, 0, e) /\ 0 <= stored'[t].version
      BY <1>6, <1>8, <2>1 DEF ProcessEvent
    <3>. QED  BY <1>2, <1>4, <2>1, <3>1
  <2>2. CASE e # "message"
    <3>1. PICK r : Processed(x, e, v + 1, r) /\ Save(t, e)
      BY <1>8, <2>2 DEF ProcessEvent
    <3>2. v + 1 \in Nat /\ v + 1 <= stored'[t].version /\ v < v + 1
      BY <1>1, <1>5, <3>1
    <3>. QED  BY <1>2, <1>4, <3>1, <3>2
  <2>. QED  BY <2>1, <2>2
<1>9. CASE RejectEvent(x)
  <2>1. CASE Exists(t)
    <3>1. Processed(x, "failed", v + 1, "failed") /\ Save(t, "failed")
      BY <1>9, <2>1 DEF RejectEvent
    <3>2. v + 1 \in Nat /\ v + 1 <= stored'[t].version /\ v < v + 1
      BY <1>1, <1>5, <3>1
    <3>. QED  BY <1>2, <1>4, <3>1, <3>2
  <2>2. CASE ~Exists(t)
    <3>1. Processed(x, "none", 0, "error") /\ 0 <= stored'[t].version
      BY <1>6, <1>9, <2>2 DEF RejectEvent
    <3>. QED  BY <1>2, <1>4, <3>1
  <2>. QED  BY <2>1, <2>2
<1>10. CASE PushFails(x)
  <2>1. CASE e = "message" \/ Terminal(e)
    <3>1. Processed(x, "none", 0, "error") /\ 0 <= stored'[t].version
      BY <1>6, <1>7, <1>10, <2>1 DEF PushFails
    <3>. QED  BY <1>2, <1>4, <3>1
  <2>2. CASE ~(e = "message" \/ Terminal(e))
    <3>1. /\ stored' = [stored EXCEPT ![t] = [state |-> "failed", version |-> v + 2]]
          /\ Processed(x, "failed", v + 2, "failed")
      BY <1>10, <2>2 DEF PushFails
    <3>2. v + 2 \in Nat /\ v + 2 <= stored'[t].version /\ v < v + 2
      BY <1>1, <3>1
    <3>. QED  BY <1>2, <1>4, <3>1, <3>2
  <2>. QED  BY <2>1, <2>2
<1>. QED  BY <1>8, <1>9, <1>10

\* Only the consumer and the start of the execution touch its part of it.
LEMMA OnlyConsumer ==
    ASSUME RestTypeOK, NEW x \in Execs, ExecStep(x), ~Consumer(x), ~SetupExecution(x)
    PROVE  SameConsumer(x)
<1>1. ex[x] \in Execution /\ ex \in [Execs -> Execution]
  BY DEF RestTypeOK
<1>2. CASE ExecuteCall(x) \/ WaitAbandoned(x) \/ WaitExiting(x) \/ CreateExecution(x)
  BY <1>1, <1>2 DEF ExecuteCall, WaitAbandoned, WaitExiting, CreateExecution, SameConsumer, Execution
<1>3. CASE Emit(x)
  <2>1. PICK p, n : ex' = [ex EXCEPT ![x].pipe = p, ![x].sent = n]
    BY <1>3 DEF Emit
  <2>. QED  BY <1>1, <2>1 DEF SameConsumer, Execution
<1>4. CASE AgentReturns(x) \/ AgentFails(x) \/ InactivityTimeout(x)
  BY <1>1, <1>4 DEF AgentReturns, AgentFails, InactivityTimeout, SameConsumer, Execution
<1>5. CASE CreateQueues(x) \/ CreateQueuesFails(x) \/ DestroyQueue(x) \/ ClosePipe(x)
  BY <1>1, <1>5 DEF CreateQueues, CreateQueuesFails, DestroyQueue, ClosePipe, SameConsumer, Execution
<1>6. CASE SetupFails(x) \/ ExecutionReturns(x) \/ Unregister(x)
  BY <1>1, <1>6 DEF SetupFails, ExecutionReturns, Unregister, SameConsumer, Execution
<1>. QED  BY <1>2, <1>3, <1>4, <1>5, <1>6 DEF ExecStep, Agent, Execute

\* What others do to the store does not disturb the consumer's announcement.
LEMMA OutStays ==
    ASSUME IndInv, Next, NEW y \in Execs, OutOK(y), SameConsumer(y)
    PROVE  OutOK(y)'
<1>1. TaskOf[y] \in Tasks /\ ex[y].out.version \in Nat
  BY CallFacts DEF IndInv, TypeOK, Execution, Message
<1>2. ex[y].out.version <= stored'[TaskOf[y]].version
  BY <1>1, VersionsGrow DEF OutOK
<1>3. Terminal(stored[TaskOf[y]].state) => Terminal(stored'[TaskOf[y]].state)
  BY <1>1, EndsForGood
<1>. QED  BY <1>1, <1>2, <1>3 DEF OutOK, SameConsumer, Announces

\* The announcements of the consumer.
LEMMA ActorOut ==
    ASSUME IndInv, Next, NEW x \in Execs, ExecStep(x), OutOK(x)
    PROVE  OutOK(x)'
<1>1. /\ RestTypeOK /\ ex[x] \in Execution /\ ex \in [Execs -> Execution] /\ TaskOf[x] \in Tasks
      /\ ExecOK(x) /\ ExitOK(x) /\ StoredOK(x) /\ ex[x].out.version \in Nat
  BY CallFacts DEF IndInv, TypeOK, RestTypeOK, Execution, Message
<1>2. /\ ex[x].out.version <= stored'[TaskOf[x]].version
      /\ Terminal(stored[TaskOf[x]].state) => Terminal(stored'[TaskOf[x]].state)
  BY <1>1, VersionsGrow, EndsForGood DEF OutOK
<1>3. CASE SameConsumer(x)
  BY <1>3, OutStays
<1>4. CASE SetupExecution(x)
  <2>1. /\ ex[x].out = Nothing /\ ex'[x].out = Nothing /\ ex'[x].cons = "read"
    BY <1>1, <1>4 DEF SetupExecution, Execution, ExecOK, OutOK
  <2>2. ~Terminal("none")
    BY DEF Terminal, TerminalStates
  <2>. QED  BY <1>2, <2>1, <2>2 DEF OutOK, Announces, Nothing
<1>5. CASE ProcessEvent(x) \/ RejectEvent(x) \/ PushFails(x)
  <2>1. PICK event, version, r :
              /\ Processed(x, event, version, r)
              /\ version \in Nat /\ version <= stored'[TaskOf[x]].version /\ event # "error"
              /\ r # "error" => (version = 0 /\ event = "message") \/ stored[TaskOf[x]].version < version
    BY <1>1, <1>5, NewVersion
  <2>2. /\ ex'[x].cons = "flag" /\ ex'[x].result = r
        /\ ex'[x].out.event = event /\ ex'[x].out.version = version
    BY <1>1, <2>1 DEF Processed, Execution
  <2>3. r # "error" /\ version = 0 => event = "message"
    <3>1. stored[TaskOf[x]].version \in Nat
      BY <1>1 DEF RestTypeOK
    <3>. QED  BY <2>1, <3>1
  <2>. QED  BY <2>1, <2>2, <2>3 DEF OutOK, Announces
<1>6. CASE FlagExiting(x)
  <2>1. /\ ex[x].cons = "flag" /\ ex'[x].out = ex[x].out /\ ex'[x].result = ex[x].result
        /\ ex'[x].cons = IF ex[x].result = "error" THEN "stopped" ELSE "publish"
    BY <1>1, <1>6 DEF FlagExiting, Execution
  <2>. QED  BY <1>2, <2>1 DEF OutOK, Announces
<1>7. CASE Publish(x)
  <2>1. /\ ex[x].cons = "publish" /\ ex'[x].out = ex[x].out /\ ex'[x].result = ex[x].result
        /\ ex'[x].cons = IF ex[x].result = "none" THEN "read" ELSE "stopped"
    BY <1>1, <1>7 DEF Publish, Execution
  <2>2. ex[x].result = "none" => ~Terminal(ex[x].out.event)
    BY <1>1, <2>1 DEF ExitOK, IsFinal
  <2>. QED  BY <1>2, <2>1, <2>2 DEF OutOK, Announces
<1>8. CASE PublishFails(x)
  <2>1. ex[x].cons = "publish" /\ ex'[x].out = ex[x].out /\ ex'[x].cons = "error"
    BY <1>1, <1>8 DEF PublishFails, Execution
  <2>2. Terminal(ex[x].out.event) => Terminal(stored[TaskOf[x]].state)
    BY <1>1, <2>1 DEF StoredOK
  <2>. QED  BY <1>2, <2>1, <2>2 DEF OutOK, Announces
<1>9. CASE ReadFails(x) \/ HandleError(x)
  <2>1. CASE ReadFails(x)
    <3>1. ex[x].cons = "read" /\ ex'[x].out = ex[x].out /\ ex'[x].cons = "error"
      BY <1>1, <2>1 DEF ReadFails, Execution
    <3>. QED  BY <1>2, <3>1 DEF OutOK, Announces
  <2>2. CASE HandleError(x)
    <3>1. ex'[x].out = ex[x].out /\ ex'[x].cons = "stopped"
      BY <1>1, <2>2 DEF HandleError, Execution
    <3>. QED  BY <1>2, <3>1 DEF OutOK, Announces
  <2>. QED  BY <1>9, <2>1, <2>2
<1>. QED
  BY <1>1, <1>3, <1>4, <1>5, <1>6, <1>7, <1>8, <1>9, OnlyConsumer DEF Consumer

\* The announcements of all consumers.
LEMMA StepOut ==
    ASSUME IndInv, Next, NEW y \in Execs, OutOK(y)
    PROVE  OutOK(y)'
<1>1. RestTypeOK
  BY DEF IndInv, TypeOK, RestTypeOK
<1>2. ASSUME NEW x \in Execs, ExecStep(x), x # y  PROVE SameConsumer(y)
  BY <1>1, <1>2, ExecFrame DEF SameConsumer
<1>3. ASSUME NEW c \in Cancels, CancelStep(c)  PROVE SameConsumer(y)
  BY <1>1, <1>3, CancelFrame DEF SameConsumer
<1>4. ASSUME NEW s \in Subs, SubStep(s)  PROVE SameConsumer(y)
  BY <1>1, <1>4, SubFrame DEF SameConsumer
<1>. QED  BY <1>2, <1>3, <1>4, OutStays, ActorOut, Steps

\* How an execution comes to announce an event, and to have announced it.
LEMMA Announcing ==
    ASSUME IndInv, NEW x \in Execs, ExecStep(x), OutOK(x)
    PROVE  /\ Announces(x)' =>
                 \/ Announces(x) /\ ex'[x].out = ex[x].out /\ ~Publish(x) /\ ~PublishFails(x)
                 \/ /\ sub' = sub
                    /\ ex'[x].out.version = 0 \/ stored[TaskOf[x]].version < ex'[x].out.version
           /\ Announced(x)' =>
                 \/ Announced(x) /\ ex'[x].out = ex[x].out
                 \/ ex'[x].out.version = 0
                 \/ Publish(x) /\ ex'[x].out = ex[x].out
<1>1. /\ RestTypeOK /\ ex[x] \in Execution /\ ex \in [Execs -> Execution] /\ TaskOf[x] \in Tasks
      /\ ExecOK(x) /\ ExitOK(x) /\ StoredOK(x)
  BY CallFacts DEF IndInv, TypeOK, RestTypeOK
<1>2. CASE ~Consumer(x) /\ ~SetupExecution(x)
  <2>1. SameConsumer(x) /\ ~Publish(x) /\ ~PublishFails(x)
    BY <1>1, <1>2, OnlyConsumer DEF Consumer
  <2>. QED  BY <2>1 DEF SameConsumer, Announces, Announced
<1>3. CASE SetupExecution(x)
  <2>1. ex'[x].out = Nothing /\ ex'[x].cons = "read"
    BY <1>1, <1>3 DEF SetupExecution, Execution, ExecOK, OutOK
  <2>. QED  BY <2>1 DEF Announces, Nothing
<1>4. CASE ProcessEvent(x) \/ RejectEvent(x) \/ PushFails(x)
  <2>1. PICK event, version, r :
              /\ Processed(x, event, version, r)
              /\ r # "error" => (version = 0 /\ event = "message") \/ stored[TaskOf[x]].version < version
    BY <1>1, <1>4, NewVersion
  <2>2. /\ ex'[x].cons = "flag" /\ ex'[x].result = r /\ ex'[x].out.version = version /\ sub' = sub
    BY <1>1, <2>1 DEF Processed, Execution, OnlyExecution
  <2>. QED  BY <2>1, <2>2 DEF Announces, Announced
<1>5. CASE FlagExiting(x)
  <2>1. /\ ex[x].cons = "flag" /\ ex'[x].out = ex[x].out /\ ex'[x].result = ex[x].result
        /\ ex'[x].cons = IF ex[x].result = "error" THEN "stopped" ELSE "publish"
    BY <1>1, <1>5 DEF FlagExiting, Execution
  <2>2. ~Publish(x) /\ ~PublishFails(x)
    BY <2>1 DEF Publish, PublishFails
  <2>. QED  BY <2>1, <2>2 DEF OutOK, Announces, Announced
<1>6. CASE Publish(x)
  <2>1. ex'[x].out = ex[x].out /\ ex'[x].cons \in {"read", "stopped"}
    BY <1>1, <1>6 DEF Publish, Execution
  <2>. QED  BY <1>6, <2>1 DEF Announces
<1>7. CASE PublishFails(x) \/ ReadFails(x)
  <2>1. ex'[x].cons = "error"
    BY <1>1, <1>7 DEF PublishFails, ReadFails, Execution
  <2>. QED  BY <2>1 DEF Announces, Announced
<1>8. CASE HandleError(x)
  <2>1. /\ ex[x].cons = "error" /\ ex'[x].out = ex[x].out /\ ex'[x].cons = "stopped"
        /\ ex'[x].result = IF Active(TaskOf[x]) THEN "failed" ELSE "error"
    BY <1>1, <1>8 DEF HandleError, Execution
  <2>2. Active(TaskOf[x]) => ex[x].out.event # "failed"
    <3>1. Terminal("failed")
      BY DEF Terminal, TerminalStates
    <3>. QED  BY <2>1, <3>1 DEF OutOK, Active
  <2>. QED  BY <2>1, <2>2 DEF OutOK, Announces, Announced
<1>. QED  BY <1>2, <1>3, <1>4, <1>5, <1>6, <1>7, <1>8 DEF Consumer

\* What an execution does to a queue is to broadcast.
LEMMA ExecQueues ==
    ASSUME RestTypeOK, NEW x \in Execs, ExecStep(x), NEW s \in Subs
    PROVE  /\ sub'[s].snap = sub[s].snap
           /\ \/ sub'[s].queue = sub[s].queue /\ ~(Publish(x) /\ s \in readers[TaskOf[x]])
              \/ /\ Publish(x) \/ PublishFails(x)
                 /\ s \in readers[TaskOf[x]]
                 /\ sub'[s].queue = Append(sub[s].queue, ex[x].out)
<1>1. sub[s] \in Subscriber /\ sub \in [Subs -> Subscriber]
  BY DEF RestTypeOK
<1>2. CASE UNCHANGED sub /\ ~Publish(x)
  BY <1>2
<1>3. CASE CreateQueues(x)
  <2>1. sub'[s].snap = sub[s].snap /\ sub'[s].queue = sub[s].queue
    BY <1>1, <1>3 DEF CreateQueues, Subscriber
  <2>2. ~Publish(x)
    <3>1. ex'[x].pc = "setup" /\ ex[x].pc = "queues"
      BY <1>3 DEF CreateQueues, RestTypeOK, Execution
    <3>2. Publish(x) => ex'[x].pc = ex[x].pc
      BY DEF Publish, RestTypeOK, Execution
    <3>. QED  BY <3>1, <3>2
  <2>. QED  BY <2>1, <2>2
<1>4. CASE (Publish(x) \/ PublishFails(x)) /\ Broadcast(x)
  <2>1. CASE s \in readers[TaskOf[x]]
    <3>1. sub'[s] = [sub[s] EXCEPT !.queue = Append(sub[s].queue, ex[x].out)]
      BY <1>4, <2>1, BroadcastFacts
    <3>2. sub'[s].queue = Append(sub[s].queue, ex[x].out) /\ sub'[s].snap = sub[s].snap
      BY <1>1, <3>1 DEF Subscriber
    <3>. QED  BY <1>4, <2>1, <3>2
  <2>2. CASE s \notin readers[TaskOf[x]]
    BY <1>4, <2>2, BroadcastFacts
  <2>. QED  BY <2>1, <2>2
<1>5. CASE PublishFails(x) /\ UNCHANGED sub
  <2>1. ~Publish(x)
    <3>1. ex'[x].cons = "error"
      BY <1>5 DEF PublishFails, RestTypeOK, Execution
    <3>2. Publish(x) => ex'[x].cons \in {"read", "stopped"}
      BY DEF Publish, RestTypeOK, Execution
    <3>. QED  BY <3>1, <3>2
  <2>. QED  BY <1>5, <2>1
<1>6. CASE DestroyQueue(x)
  <2>1. sub'[s].snap = sub[s].snap /\ sub'[s].queue = sub[s].queue
    BY <1>1, <1>6 DEF DestroyQueue, Subscriber
  <2>2. ~Publish(x)
    <3>1. ex'[x].pc = "closePipe" /\ ex[x].pc = "destroy"
      BY <1>6 DEF DestroyQueue, RestTypeOK, Execution
    <3>2. Publish(x) => ex'[x].pc = ex[x].pc
      BY DEF Publish, RestTypeOK, Execution
    <3>. QED  BY <3>1, <3>2
  <2>. QED  BY <2>1, <2>2
<1>7. CASE ~Publish(x) /\ ~PublishFails(x) /\ ~CreateQueues(x) /\ ~DestroyQueue(x)
  <2>1. UNCHANGED sub
    BY <1>7 DEF ExecStep, ExecuteCall, Agent, Emit, AgentReturns, AgentFails, InactivityTimeout,
       WaitAbandoned, Consumer, ProcessEvent, RejectEvent, PushFails, Processed, FlagExiting,
       ReadFails, HandleError, Execute, WaitExiting, CreateExecution, CreateQueuesFails, SetupExecution, SetupFails,
       ExecutionReturns, ClosePipe, Unregister, OnlyExecution
  <2>. QED  BY <1>2, <1>7, <2>1
<1>. QED  BY <1>3, <1>4, <1>5, <1>6, <1>7 DEF Publish, PublishFails

\* Who broadcasts to a queue is the registered execution of its task.
LEMMA OneAnnounces ==
    ASSUME IndInv, NEW x \in Execs, NEW y \in Execs, TaskOf[x] = TaskOf[y],
           ex[x].cons \notin {"off", "stopped"}, ex[y].cons \notin {"off", "stopped"}
    PROVE  x = y
<1>1. RegOK /\ ExecOK(x) /\ ExecOK(y)
  BY DEF IndInv
<1>2. Registered(x) /\ Registered(y)
  BY <1>1 DEF ExecOK, Registered
<1>. QED  BY <1>1, <1>2 DEF RegOK

\* A step of an execution keeps the queues in order.
LEMMA ExecKeepsOrder ==
    ASSUME IndInv, Next, NEW x \in Execs, ExecStep(x), NEW s \in Subs,
           OutOK(x), OrderOK(s), JoinedOK(s), AheadOK(s, x)
    PROVE  OrderOK(s)'
<1>. DEFINE t == TaskOf[s]
            q == sub[s].queue
            out == ex[x].out
<1>1. /\ RestTypeOK /\ sub[s] \in Subscriber /\ SubOK(s) /\ t \in Tasks /\ q \in Seq(Message)
      /\ sub[s].seen.version \in Nat /\ sub[s].snap \in Nat /\ out \in Message /\ out.version \in Nat
      /\ x \in Subs /\ ExecOK(x) /\ TaskOf[x] \in Tasks
  BY CallFacts DEF IndInv, TypeOK, RestTypeOK, Subscriber, Execution, Message
<1>2. /\ stored[t].version \in Nat /\ stored'[t].version \in Nat
      /\ stored[t].version <= stored'[t].version
  BY <1>1, VersionsGrow
<1>3. /\ Len(q) \in Nat /\ \A i \in 1..Len(q) : q[i].version \in Nat
  <2>1. Len(q) \in Nat /\ \A i \in 1..Len(q) : q[i] \in Message
    BY <1>1
  <2>. QED  BY <2>1 DEF Message
<1>0. \A n \in Nat : n <= stored[t].version => n <= stored'[t].version
  BY <1>2
<1>4. CASE CreateQueues(x) /\ s = x
  <2>1. sub[s].of = None /\ sub'[s].queue = sub[s].queue /\ sub'[s].seen = sub[s].seen /\ sub'[s].snap = sub[s].snap
    <3>1. sub[s].of = None
      BY <1>1, <1>4 DEF CreateQueues, ExecOK
    <3>. QED  BY <1>1, <1>4, <3>1 DEF CreateQueues, RestTypeOK, Subscriber
  <2>2. sub'[s].queue = <<>> /\ sub'[s].seen.version = 0 /\ sub'[s].snap = 0 /\ Len(sub'[s].queue) = 0
    BY <1>1, <2>1 DEF SubOK, JoinedOK
  <2>. QED  BY <1>2, <2>2 DEF OrderOK
<1>5. CASE ~(CreateQueues(x) /\ s = x)
  <2>1. sub'[s].pc = sub[s].pc /\ sub'[s].seen = sub[s].seen /\ sub'[s].snap = sub[s].snap
    BY <1>1, <1>5, ExecSubs, ExecQueues
  <2>2. CASE sub'[s].queue = sub[s].queue
    BY <1>0, <1>1, <1>3, <2>1, <2>2 DEF OrderOK, Live
  <2>3. CASE /\ Publish(x) \/ PublishFails(x)
             /\ s \in readers[TaskOf[x]]
             /\ sub'[s].queue = Append(q, out)
    <3>1. t = TaskOf[x] /\ ex[x].cons = "publish" /\ Announces(x)
      BY <1>1, <2>3 DEF SubOK, Publish, PublishFails, OutOK, Announces
    <3>2. /\ Len(sub'[s].queue) = Len(q) + 1
          /\ \A i \in 1..Len(q) : sub'[s].queue[i] = q[i]
          /\ sub'[s].queue[Len(q) + 1] = out
      BY <1>1, <2>3, AppendProperties
    <3>3. out.version <= stored[t].version /\ (out.version = 0 => out.event = "message")
      BY <3>1 DEF OutOK
    <3> SUFFICES ASSUME Live(s)  PROVE OrderOK(s)'
      BY <2>1 DEF OrderOK, Live
    <3>4. out.version # 0 => /\ \A i \in 1..Len(q) : q[i].version < out.version
                             /\ sub[s].seen.version < out.version \/ sub[s].seen.version = sub[s].snap
      BY <3>1 DEF AheadOK
    <3>5. sub[s].seen.version < out.version \/ out.version <= sub[s].snap
      BY <1>1, <3>4
    <3>6. /\ sub[s].snap <= sub[s].seen.version /\ sub[s].seen.version <= stored[t].version
          /\ \A i, j \in 1..Len(q) : i < j => q[i].version < q[j].version \/ q[j].version = 0
          /\ \A i \in 1..Len(q) :
                  /\ q[i].version <= stored[t].version
                  /\ q[i].version = 0 => q[i].event = "message"
                  /\ sub[s].seen.version < q[i].version \/ q[i].version <= sub[s].snap
      BY DEF OrderOK
    <3>. DEFINE p == sub'[s].queue
    <3>7. ASSUME NEW i \in 1..Len(p)
          PROVE  /\ p[i].version <= stored'[t].version
                 /\ p[i].version = 0 => p[i].event = "message"
                 /\ sub[s].seen.version < p[i].version \/ p[i].version <= sub[s].snap
      <4>1. CASE i \in 1..Len(q)
        <5>1. p[i] = q[i] /\ q[i].version \in Nat /\ q[i].version <= stored[t].version
          BY <1>3, <3>2, <3>6, <4>1
        <5>. QED  BY <1>0, <3>6, <4>1, <5>1
      <4>2. CASE i = Len(q) + 1
        <5>1. p[i] = out
          BY <3>2, <4>2
        <5>. QED  BY <1>0, <1>1, <3>3, <3>5, <5>1
      <4>3. Len(q) \in Nat
        BY <1>3
      <4>4. i \in 1..Len(q) \/ i = Len(q) + 1
        BY <3>2, <4>3
      <4>. QED  BY <4>1, <4>2, <4>4
    <3>8. ASSUME NEW i \in 1..Len(p), NEW j \in 1..Len(p), i < j
          PROVE  p[i].version < p[j].version \/ p[j].version = 0
      <4>1. CASE j \in 1..Len(q)
        <5>1. i \in 1..Len(q)
          BY <1>3, <3>8, <4>1
        <5>. QED  BY <3>2, <3>6, <3>8, <4>1, <5>1
      <4>2. CASE j = Len(q) + 1
        <5>1. i \in 1..Len(q)
          BY <1>3, <3>2, <3>8, <4>2
        <5>. QED  BY <3>2, <3>4, <4>2, <5>1
      <4>3. Len(q) \in Nat
        BY <1>3
      <4>4. j \in 1..Len(q) \/ j = Len(q) + 1
        BY <3>2, <4>3
      <4>. QED  BY <4>1, <4>2, <4>4
    <3>. HIDE DEF q, out
    <3>9. sub[s].seen.version <= stored'[t].version
      BY <1>1, <1>2, <3>6
    <3>. QED  BY <2>1, <3>6, <3>7, <3>8, <3>9 DEF OrderOK
  <2>. QED  BY <1>1, <2>2, <2>3, ExecQueues
<1>. QED  BY <1>4, <1>5

\* It keeps what is about to be broadcast ahead of everything before it.
LEMMA ExecKeepsAhead ==
    ASSUME IndInv, Next, NEW x \in Execs, ExecStep(x), NEW s \in Subs, NEW y \in Execs,
           OutOK(x), OrderOK(s), JoinedOK(s), AheadOK(s, y)
    PROVE  AheadOK(s, y)'
<1>. DEFINE t == TaskOf[s]
            q == sub[s].queue
<1>1. /\ RestTypeOK /\ sub[s] \in Subscriber /\ SubOK(s) /\ t \in Tasks /\ q \in Seq(Message)
      /\ sub[s].seen.version \in Nat /\ sub[s].snap \in Nat /\ stored[t].version \in Nat
      /\ x \in Subs /\ ExecOK(x) /\ TaskOf[x] \in Tasks
  BY CallFacts DEF IndInv, TypeOK, RestTypeOK, Subscriber, Message
<1>2. Len(q) \in Nat /\ \A i \in 1..Len(q) : q[i].version \in Nat
  <2>1. Len(q) \in Nat /\ \A i \in 1..Len(q) : q[i] \in Message
    BY <1>1
  <2>. QED  BY <2>1 DEF Message
<1>3. SUFFICES ASSUME Live(s)', TaskOf[y] = TaskOf[s], Announces(y)', ex'[y].out.version # 0
               PROVE  /\ \A i \in 1..Len(sub'[s].queue) : sub'[s].queue[i].version < ex'[y].out.version
                      /\ sub'[s].seen.version < ex'[y].out.version \/ sub'[s].seen.version = sub'[s].snap
  BY DEF AheadOK
<1>4. CASE CreateQueues(x) /\ s = x
  <2>1. sub[s].of = None /\ sub'[s].queue = sub[s].queue /\ sub'[s].seen = sub[s].seen /\ sub'[s].snap = sub[s].snap
    <3>1. sub[s].of = None
      BY <1>1, <1>4 DEF CreateQueues, ExecOK
    <3>. QED  BY <1>1, <1>4, <3>1 DEF CreateQueues, RestTypeOK, Subscriber
  <2>2. sub'[s].queue = <<>> /\ sub'[s].seen.version = 0 /\ sub'[s].snap = 0 /\ Len(sub'[s].queue) = 0
    BY <1>1, <2>1 DEF SubOK, JoinedOK
  <2>. QED  BY <2>2
<1>5. CASE ~(CreateQueues(x) /\ s = x)
  <2>1. sub'[s].pc = sub[s].pc /\ sub'[s].seen = sub[s].seen /\ sub'[s].snap = sub[s].snap
    BY <1>1, <1>5, ExecSubs, ExecQueues
  <2>2. Live(s)
    BY <1>3, <2>1 DEF Live
  <2>3. CASE Announces(y) /\ ex'[y].out = ex[y].out /\ sub'[s].queue = sub[s].queue
    BY <1>3, <2>1, <2>2, <2>3 DEF AheadOK
  <2>4. CASE /\ x = y /\ sub' = sub
             /\ ex'[x].out.version = 0 \/ stored[TaskOf[x]].version < ex'[x].out.version
    <3>1. PICK n : n = ex'[y].out.version /\ stored[t].version < n
      BY <1>3, <2>4
    <3>2. n \in Nat
      <4>1. ex'[y] \in Execution
        BY StepRestTypeOK DEF RestTypeOK
      <4>. QED  BY <3>1, <4>1 DEF Execution, Message
    <3>3. sub[s].seen.version <= stored[t].version /\ \A i \in 1..Len(q) : q[i].version <= stored[t].version
      BY <2>2 DEF OrderOK
    <3>4. sub[s].seen.version < n /\ \A i \in 1..Len(q) : q[i].version < n
      BY <1>1, <1>2, <3>1, <3>2, <3>3
    <3>. QED  BY <2>4, <3>1, <3>4
  <2>5. CASE x # y
    <3>1. ex'[y] = ex[y] /\ Announces(y)
      BY <1>1, <1>3, <2>5, ExecFrame DEF Announces
    <3>2. sub'[s].queue = sub[s].queue
      <4>1. SUFFICES ASSUME Publish(x) \/ PublishFails(x), s \in readers[TaskOf[x]]  PROVE FALSE
        BY <1>1, ExecQueues
      <4>2. TaskOf[x] = TaskOf[y] /\ ex[x].cons = "publish"
        BY <1>1, <1>3, <4>1 DEF SubOK, Publish, PublishFails
      <4>. QED  BY <2>5, <3>1, <4>2, OneAnnounces DEF Announces
    <3>. QED  BY <2>3, <3>1, <3>2
  <2>6. CASE x = y
    <3>1. CASE Announces(x) /\ ex'[x].out = ex[x].out /\ ~Publish(x) /\ ~PublishFails(x)
      <4>1. sub'[s].queue = sub[s].queue
        BY <1>1, <3>1, ExecQueues
      <4>. QED  BY <2>3, <2>6, <3>1, <4>1
    <3>. QED  BY <1>3, <2>4, <2>6, <3>1, Announcing
  <2>. QED  BY <2>5, <2>6
<1>. QED  BY <1>4, <1>5

\* It disconnects no one from a queue that the execution it was made for still
\* broadcasts to.
LEMMA ExecKeepsJoined ==
    ASSUME IndInv, Next, NEW x \in Execs, ExecStep(x), NEW s \in Subs, JoinedOK(s)
    PROVE  JoinedOK(s)'
<1>. DEFINE Early == {"queues", "setup", "run", "destroy"}
<1>1. /\ RestTypeOK /\ RegOK /\ sub[s] \in Subscriber /\ SubOK(s) /\ TaskOf[s] \in Tasks
      /\ x \in Subs /\ TaskOf[x] \in Tasks /\ readers \in [Tasks -> SUBSET Subs] /\ x # None
      /\ ex \in [Execs -> Execution] /\ ex[x] \in Execution
  BY CallFacts DEF IndInv, TypeOK, RestTypeOK
<1>2. CASE CreateQueues(x) /\ s = x
  <2>1. s \in readers'[TaskOf[s]]
    BY <1>1, <1>2 DEF CreateQueues
  <2>2. sub'[s].of = x
    BY <1>1, <1>2 DEF CreateQueues, RestTypeOK, Subscriber
  <2>. QED  BY <1>1, <2>1, <2>2 DEF JoinedOK
<1>3. CASE ~(CreateQueues(x) /\ s = x)
  <2>1. /\ sub'[s].of = sub[s].of /\ sub'[s].pc = sub[s].pc /\ sub'[s].seen = sub[s].seen
        /\ sub'[s].snap = sub[s].snap
    BY <1>1, <1>3, ExecSubs, ExecQueues
  <2>2. SUFFICES ASSUME Live(s), ex'[sub[s].of].pc \in Early  PROVE s \in readers'[TaskOf[s]]
    BY <2>1 DEF JoinedOK, Live
  <2>3. PICK o \in Execs : o = sub[s].of
    BY <1>1, <2>2 DEF SubOK, Live, Subscriber
  <2>4. TaskOf[o] = TaskOf[s] /\ ex[o].pc \notin {"idle", "wait", "create", "refused"}
    BY <1>1, <2>3, CallFacts DEF SubOK
  <2>5. ex[o].pc \in Early
    <3>1. CASE o # x
      BY <1>1, <2>2, <2>3, <3>1, ExecFrame
    <3>2. CASE o = x
      <4>1. ex[x].pc \notin {"closePipe", "unregister", "done"}
        <5>1. ClosePipe(x) => ex'[x].pc = "unregister"
          BY <1>1 DEF ClosePipe, Execution
        <5>2. Unregister(x) => ex'[x].pc = "done"
          BY <1>1 DEF Unregister, Execution
        <5>3. Agent(x) \/ InactivityTimeout(x) \/ Consumer(x) => ex[x].pc = "run"
          BY <1>1 DEF IndInv, ExecOK, Agent, Emit, AgentReturns, AgentFails, InactivityTimeout, Consumer,
             ProcessEvent, RejectEvent, PushFails, Reads, FlagExiting, Publish, PublishFails, ReadFails, HandleError
        <5>4. ExecuteCall(x) \/ WaitAbandoned(x) \/ WaitExiting(x) \/ CreateExecution(x) \/ CreateQueues(x)
              \/ CreateQueuesFails(x) \/ SetupExecution(x) \/ SetupFails(x) \/ ExecutionReturns(x) \/ DestroyQueue(x)
                 => ex[x].pc \notin {"closePipe", "unregister", "done"}
          BY DEF ExecuteCall, WaitAbandoned, WaitExiting, CreateExecution, CreateQueues, CreateQueuesFails,
             SetupExecution, SetupFails, ExecutionReturns, DestroyQueue
        <5>. QED  BY <2>2, <2>3, <3>2, <5>1, <5>2, <5>3, <5>4 DEF ExecStep, Execute
      <4>. QED  BY <1>1, <2>4, <3>2, <4>1 DEF Execution
    <3>. QED  BY <3>1, <3>2
  <2>6. s \in readers[TaskOf[s]]
    BY <2>2, <2>3, <2>5 DEF JoinedOK
  <2>7. CASE UNCHANGED readers
    BY <2>6, <2>7
  <2>8. CASE CreateQueues(x)
    BY <1>1, <2>6, <2>8 DEF CreateQueues
  <2>9. CASE DestroyQueue(x)
    <3>1. Registered(o) /\ Registered(x)
      BY <2>5, <2>9 DEF Registered, DestroyQueue
    <3>2. ex'[x].pc = "closePipe"
      BY <1>1, <2>9 DEF DestroyQueue, Execution
    <3>3. o # x
      BY <2>2, <2>3, <3>2
    <3>4. TaskOf[x] # TaskOf[s]
      BY <1>1, <2>4, <3>1, <3>3 DEF RegOK
    <3>. QED  BY <1>1, <2>6, <2>9, <3>4 DEF DestroyQueue
  <2>. QED
    BY <2>7, <2>8, <2>9 DEF ExecStep, ExecuteCall, Agent, Emit, AgentReturns, AgentFails,
       InactivityTimeout, WaitAbandoned, Consumer, ProcessEvent, RejectEvent, PushFails, Processed, FlagExiting,
       Publish, PublishFails, ReadFails, HandleError, Execute, WaitExiting, CreateExecution, CreateQueuesFails,
       SetupExecution, SetupFails, ExecutionReturns, ClosePipe, Unregister, OnlyExecution
<1>. QED  BY <1>2, <1>3

\* It leaves no subscriber behind.
LEMMA ExecKeepsCaughtUp ==
    ASSUME IndInv, Next, NEW x \in Execs, ExecStep(x), NEW s \in Subs, OutOK(x), JoinedOK(s), CaughtUp(s)
    PROVE  CaughtUp(s)'
<1>1. /\ RestTypeOK /\ sub[s] \in Subscriber /\ SubOK(s) /\ TaskOf[s] \in Tasks
      /\ sub[s].queue \in Seq(Message) /\ ex[x].out \in Message /\ sub[s].seen.version \in Nat
      /\ x \in Subs /\ ExecOK(x) /\ TaskOf[x] \in Tasks /\ ex[x] \in Execution
  BY CallFacts DEF IndInv, TypeOK, RestTypeOK, Subscriber, Execution, Message
<1>2. CASE CreateQueues(x) /\ s = x
  <2>1. sub'[s].of = x /\ ex'[x].cons = "off"
    <3>1. ex[x].cons = "off"
      BY <1>1, <1>2 DEF CreateQueues, ExecOK
    <3>. QED  BY <1>1, <1>2, <3>1 DEF CreateQueues, RestTypeOK, Subscriber, Execution
  <2>. QED  BY <2>1 DEF CaughtUp, Announced
<1>3. CASE ~(CreateQueues(x) /\ s = x)
  <2>1. sub'[s].of = sub[s].of /\ sub'[s].pc = sub[s].pc /\ sub'[s].seen = sub[s].seen
    BY <1>1, <1>3, ExecSubs
  <2>2. SUFFICES ASSUME sub[s].pc = "reading", NEW o \in Execs, o = sub[s].of, Announced(o)'
                 PROVE  \/ ex'[o].out.version <= sub[s].seen.version
                        \/ \E i \in 1..Len(sub'[s].queue) : sub'[s].queue[i] = ex'[o].out
    <3>1. sub[s].pc = "reading" => sub[s].of \in Execs
      BY <1>1 DEF SubOK, Subscriber
    <3>. QED  BY <2>1, <3>1 DEF CaughtUp, Announced
  <2>3. ASSUME NEW i \in 1..Len(sub[s].queue)
        PROVE  i \in 1..Len(sub'[s].queue) /\ sub'[s].queue[i] = sub[s].queue[i]
    <3>1. CASE sub'[s].queue = sub[s].queue
      BY <3>1
    <3>2. CASE sub'[s].queue = Append(sub[s].queue, ex[x].out)
      <4>1. Len(sub'[s].queue) = Len(sub[s].queue) + 1 /\ Len(sub[s].queue) \in Nat
        BY <1>1, <3>2, AppendProperties
      <4>2. sub'[s].queue[i] = sub[s].queue[i]
        BY <1>1, <3>2, AppendProperties
      <4>. QED  BY <4>1, <4>2
    <3>. QED  BY <1>1, <3>1, <3>2, ExecQueues
  <2>4. CASE Announced(o) /\ ex'[o].out = ex[o].out
    BY <2>2, <2>3, <2>4 DEF CaughtUp
  <2>5. CASE ex'[o].out.version = 0
    BY <1>1, <2>5
  <2>6. CASE o = x /\ Publish(x) /\ ex'[x].out = ex[x].out
    <3>1. ex[x].pc = "run"
      BY <1>1, <2>6 DEF Publish, ExecOK
    <3>2. s \in readers[TaskOf[x]]
      <4>1. TaskOf[o] = TaskOf[s]
        BY <1>1, <2>2, CallFacts DEF SubOK
      <4>2. s \in readers[TaskOf[s]]
        BY <2>2, <2>6, <3>1 DEF JoinedOK, Live
      <4>. QED  BY <2>6, <4>1, <4>2
    <3>3. sub'[s].queue = Append(sub[s].queue, ex[x].out)
      BY <1>1, <2>6, <3>2, ExecQueues
    <3>4. /\ Len(sub[s].queue) + 1 \in 1..Len(sub'[s].queue)
          /\ sub'[s].queue[Len(sub[s].queue) + 1] = ex[x].out
      BY <1>1, <3>3, AppendProperties
    <3>. QED  BY <2>6, <3>4
  <2>7. CASE o # x
    BY <1>1, <2>2, <2>4, <2>7, ExecFrame DEF Announced
  <2>. QED  BY <2>2, <2>4, <2>5, <2>6, <2>7, Announcing
<1>. QED  BY <1>2, <1>3

StreamOK(s) == OrderOK(s) /\ JoinedOK(s) /\ CaughtUp(s) /\ \A x \in Execs : AheadOK(s, x)

\* A subscription nothing happens to keeps its place in the stream.
LEMMA StreamStays ==
    ASSUME IndInv, Next, NEW s \in Subs, StreamOK(s), sub'[s] = sub[s],
           \A t \in Tasks : s \in readers'[t] <=> s \in readers[t],
           \A x \in Execs : ex'[x].pc = ex[x].pc /\ SameConsumer(x)
    PROVE  StreamOK(s)'
<1>1. /\ sub[s] \in Subscriber /\ SubOK(s) /\ TaskOf[s] \in Tasks /\ sub[s].queue \in Seq(Message)
      /\ sub[s].seen.version \in Nat
  BY CallFacts DEF IndInv, TypeOK, Subscriber, Message
<1>2. \A i \in 1..Len(sub[s].queue) : sub[s].queue[i].version \in Nat
  <2>1. \A i \in 1..Len(sub[s].queue) : sub[s].queue[i] \in Message
    BY <1>1
  <2>. QED  BY <2>1 DEF Message
<1>3. \A n \in Nat : n <= stored[TaskOf[s]].version => n <= stored'[TaskOf[s]].version
  BY <1>1, VersionsGrow
<1>4. OrderOK(s)'
  BY <1>1, <1>2, <1>3 DEF StreamOK, OrderOK, Live
<1>5. Live(s) \/ sub[s].pc = "reading" => sub[s].of \in Execs
  BY <1>1 DEF SubOK, Subscriber, Live
<1>6. JoinedOK(s)'
  BY <1>1, <1>5 DEF StreamOK, JoinedOK, Live
<1>7. CaughtUp(s)'
  BY <1>5 DEF StreamOK, CaughtUp, Announced, SameConsumer
<1>8. ASSUME NEW x \in Execs  PROVE AheadOK(s, x)'
  BY <1>8 DEF StreamOK, AheadOK, Live, Announces, SameConsumer
<1>. QED  BY <1>4, <1>6, <1>7, <1>8 DEF StreamOK

\* What a connected subscriber does next leaves it in its place, if what it
\* goes on with is in order, ahead and not behind.
LEMMA StreamGoesOn ==
    ASSUME IndInv, NEW s \in Subs, StreamOK(s), sub[s].of # None, UNCHANGED <<stored, ex, readers>>,
           sub'[s].pc = "reading", sub'[s].of = sub[s].of, sub[s].pc \in {"snapshot", "reading"},
           OrderOK(s)',
           \A i \in 1..Len(sub'[s].queue) : \E j \in 1..Len(sub[s].queue) : sub'[s].queue[i] = sub[s].queue[j],
           \/ sub'[s].seen.version = sub'[s].snap
           \/ sub'[s].seen = sub[s].seen /\ sub'[s].snap = sub[s].snap
           \/ \E j \in 1..Len(sub[s].queue) : sub'[s].seen = sub[s].queue[j],
           CaughtUp(s)'
    PROVE  StreamOK(s)'
<1>1. Live(s) /\ SubOK(s)
  BY DEF Live, IndInv
<1>2. JoinedOK(s)'
  BY <1>1 DEF StreamOK, JoinedOK
<1>3. ASSUME NEW x \in Execs, TaskOf[x] = TaskOf[s], Announces(x)', ex[x].out.version # 0
      PROVE  /\ \A i \in 1..Len(sub'[s].queue) : sub'[s].queue[i].version < ex[x].out.version
             /\ sub'[s].seen.version < ex[x].out.version \/ sub'[s].seen.version = sub'[s].snap
  <2>1. /\ \A j \in 1..Len(sub[s].queue) : sub[s].queue[j].version < ex[x].out.version
        /\ sub[s].seen.version < ex[x].out.version \/ sub[s].seen.version = sub[s].snap
    BY <1>1, <1>3 DEF StreamOK, AheadOK, Announces
  <2>. QED  BY <2>1
<1>4. ASSUME NEW x \in Execs  PROVE AheadOK(s, x)'
  BY <1>3 DEF AheadOK
<1>. QED  BY <1>2, <1>4 DEF StreamOK

\* A stream that is over is in no place.
LEMMA StreamEnds ==
    ASSUME NEW s \in Subs, sub'[s].of # None, sub'[s].pc \notin {"snapshot", "reading"}
    PROVE  StreamOK(s)'
BY DEF StreamOK, OrderOK, JoinedOK, CaughtUp, AheadOK, Live

\* A step of a subscription keeps its place in the stream.
LEMMA ActorStream ==
    ASSUME IndInv, Next, NEW s \in Subs, SubStep(s), StreamOK(s), \A x \in Execs : OutOK(x)
    PROVE  StreamOK(s)'
<1>. DEFINE t == TaskOf[s]
            q == sub[s].queue
            v == stored[t].version
<1>1. /\ RestTypeOK /\ RegOK /\ sub \in [Subs -> Subscriber] /\ sub[s] \in Subscriber /\ SubOK(s)
      /\ t \in Tasks /\ readers \in [Tasks -> SUBSET Subs] /\ q \in Seq(Message) /\ v \in Nat
      /\ sub[s].seen.version \in Nat /\ sub[s].snap \in Nat
  BY CallFacts DEF IndInv, TypeOK, RestTypeOK, Subscriber, Message
<1>2. UNCHANGED <<stored, ex>>
  BY <1>1, SubFrame
<1>3. Len(q) \in Nat /\ \A i \in 1..Len(q) : q[i].version \in Nat
  <2>1. Len(q) \in Nat /\ \A i \in 1..Len(q) : q[i] \in Message
    BY <1>1
  <2>. QED  BY <2>1 DEF Message
<1>4. CASE Resubscribe(s)
  <2>1. sub[s].pc = "none" /\ sub[s].of = None /\ q = <<>> /\ sub[s].snap = 0 /\ sub[s].seen.version = 0
    BY <1>1, <1>4 DEF Resubscribe, SubOK, StreamOK, JoinedOK
  <2>2. CASE sub' = [sub EXCEPT ![s].pc = "refused"] /\ readers' = readers
    <3>1. sub'[s].pc = "refused" /\ sub'[s].snap = 0 /\ sub'[s].seen.version = 0
      BY <1>1, <2>1, <2>2 DEF Subscriber
    <3>. QED  BY <3>1 DEF StreamOK, OrderOK, JoinedOK, CaughtUp, AheadOK, Live
  <2>3. ASSUME NEW x, x # None, readers' = [readers EXCEPT ![t] = @ \cup {s}],
               sub' = [sub EXCEPT ![s].pc = "snapshot", ![s].of = x]
        PROVE  StreamOK(s)'
    <3>1. /\ sub'[s].pc = "snapshot" /\ sub'[s].of = x /\ sub'[s].queue = <<>> /\ Len(sub'[s].queue) = 0
          /\ sub'[s].snap = 0 /\ sub'[s].seen.version = 0 /\ s \in readers'[t]
      BY <1>1, <2>1, <2>3 DEF Subscriber
    <3>2. OrderOK(s)'
      BY <1>1, <1>2, <3>1 DEF OrderOK
    <3>3. JoinedOK(s)' /\ CaughtUp(s)'
      BY <2>3, <3>1 DEF JoinedOK, CaughtUp
    <3>4. ASSUME NEW y \in Execs  PROVE AheadOK(s, y)'
      BY <3>1 DEF AheadOK
    <3>. QED  BY <3>2, <3>3, <3>4 DEF StreamOK
  <2>. QED  BY <1>4, <2>2, <2>3 DEF Resubscribe
<1>5. CASE ~Resubscribe(s)
  <2>1. sub[s].pc \in {"snapshot", "reading", "promise"}
    BY <1>5 DEF SubStep, Subscription, SubSnapshot, SubRead, SubQueueClosed, SubPromise, Leave
  <2>2. PICK o \in Execs : o = sub[s].of /\ TaskOf[o] = t /\ o # None
    BY <1>1, <2>1, CallFacts DEF SubOK, Subscriber
  <2>3. ASSUME NEW label \in {"ended", "left"}, NEW yielded, Ends(s, label, yielded)
        PROVE  StreamOK(s)'
    <3>1. sub'[s].pc = label /\ sub'[s].of = o
      BY <1>1, <2>2, <2>3 DEF Ends, Subscriber
    <3>. QED  BY <2>2, <3>1, StreamEnds
  <2>4. CASE SubSnapshot(s) /\ ~Terminal(stored[t].state)
    <3>1. /\ sub[s].pc = "snapshot" /\ readers' = readers
          /\ sub'[s].pc = "reading" /\ sub'[s].of = sub[s].of /\ sub'[s].queue = q
          /\ sub'[s].seen.version = v /\ sub'[s].snap = v
      BY <1>1, <2>4 DEF SubSnapshot, Subscriber
    <3>2. /\ \A i, j \in 1..Len(q) : i < j => q[i].version < q[j].version \/ q[j].version = 0
          /\ \A i \in 1..Len(q) : q[i].version <= v /\ (q[i].version = 0 => q[i].event = "message")
      BY <3>1 DEF StreamOK, OrderOK, Live
    <3>3. OrderOK(s)'
      BY <1>1, <1>2, <3>1, <3>2 DEF OrderOK
    <3>4. CaughtUp(s)'
      <4>1. ex[o].out.version <= v
        BY <2>2 DEF OutOK
      <4>. QED  BY <1>2, <2>2, <3>1, <4>1 DEF CaughtUp
    <3>. QED  BY <1>2, <2>2, <3>1, <3>3, <3>4, StreamGoesOn
  <2>5. CASE SubRead(s)
    <3>. DEFINE msg == Head(q)
                tail == Tail(q)
    <3>1. sub[s].pc = "reading" /\ q # <<>>
      BY <2>5 DEF SubRead
    <3>2. /\ msg = q[1] /\ 1 \in 1..Len(q) /\ Len(tail) = Len(q) - 1
          /\ \A i \in 1..Len(tail) : tail[i] = q[i + 1] /\ i + 1 \in 1..Len(q)
      <4>1. /\ tail \in Seq(Message) /\ Len(tail) = Len(q) - 1 /\ Len(q) # 0
            /\ \A i \in 1..Len(tail) : tail[i] = q[i + 1]
        BY <1>1, <3>1, HeadTailProperties, LenProperties, EmptySeq
      <4>2. msg = q[1]
        BY <1>1, <3>1
      <4>. QED  BY <1>3, <4>1, <4>2
    <3>3. /\ sub[s].snap <= sub[s].seen.version /\ sub[s].seen.version <= v
          /\ \A i, j \in 1..Len(q) : i < j => q[i].version < q[j].version \/ q[j].version = 0
          /\ \A i \in 1..Len(q) :
                  /\ q[i].version <= v
                  /\ q[i].version = 0 => q[i].event = "message"
                  /\ sub[s].seen.version < q[i].version \/ q[i].version <= sub[s].snap
      BY <3>1 DEF StreamOK, OrderOK, Live
    <3>4. \/ /\ sub' = [sub EXCEPT ![s].queue = tail] /\ readers' = readers
             /\ ~After(msg.version, sub[s].snap)
          \/ Ends(s, "ended", msg)
          \/ /\ sub' = [sub EXCEPT ![s].queue = tail, ![s].seen = msg] /\ readers' = readers
             /\ After(msg.version, sub[s].snap) /\ ~IsFinal(msg.event)
      BY <2>5 DEF SubRead
    <3>5. \A i \in 1..Len(tail) : \E j \in 1..Len(q) : tail[i] = q[j]
      BY <3>2
    <3>6. \A i, j \in 1..Len(tail) : i < j => tail[i].version < tail[j].version \/ tail[j].version = 0
      <4>1. ASSUME NEW i \in 1..Len(tail), NEW j \in 1..Len(tail), i < j
            PROVE  tail[i].version < tail[j].version \/ tail[j].version = 0
        <5>1. i + 1 < j + 1 /\ i + 1 \in 1..Len(q) /\ j + 1 \in 1..Len(q)
          BY <1>3, <3>2, <4>1
        <5>2. q[i + 1].version < q[j + 1].version \/ q[j + 1].version = 0
          BY <3>3, <5>1
        <5>. QED  BY <3>2, <5>2
      <4>. QED  BY <4>1
    <3>7. ASSUME NEW i \in 1..Len(tail)
          PROVE  /\ tail[i].version \in Nat /\ tail[i].version <= v
                 /\ tail[i].version = 0 => tail[i].event = "message"
                 /\ sub[s].seen.version < tail[i].version \/ tail[i].version <= sub[s].snap
                 /\ msg.version < tail[i].version \/ tail[i].version = 0
      <4>1. tail[i] = q[i + 1] /\ i + 1 \in 1..Len(q) /\ 1 < i + 1
        BY <1>3, <3>2
      <4>2. q[1].version < q[i + 1].version \/ q[i + 1].version = 0
        BY <3>2, <3>3, <4>1
      <4>. QED  BY <1>3, <3>2, <3>3, <4>1, <4>2
    <3>8. msg.version \in Nat /\ msg.version <= v
      BY <1>3, <3>2, <3>3
    <3>9. ASSUME Announced(o), ~(ex[o].out.version <= sub[s].seen.version), msg # ex[o].out
          PROVE  \E i \in 1..Len(tail) : tail[i] = ex[o].out
      <4>1. PICK k \in 1..Len(q) : q[k] = ex[o].out
        BY <2>2, <3>1, <3>9 DEF StreamOK, CaughtUp
      <4>2. k # 1
        BY <3>2, <3>9, <4>1
      <4>3. k - 1 \in 1..Len(tail) /\ (k - 1) + 1 = k
        BY <1>3, <3>2, <4>2
      <4>. QED  BY <3>2, <4>1, <4>3
    <3>10. CASE /\ sub' = [sub EXCEPT ![s].queue = tail] /\ readers' = readers
                /\ ~After(msg.version, sub[s].snap)
      <4>. HIDE DEF msg, tail
      <4>1. /\ sub'[s].pc = "reading" /\ sub'[s].of = sub[s].of /\ sub'[s].queue = tail
            /\ sub'[s].seen = sub[s].seen /\ sub'[s].snap = sub[s].snap
        BY <1>1, <3>1, <3>10 DEF Subscriber
      <4>2. OrderOK(s)'
        BY <1>2, <3>3, <3>6, <3>7, <4>1 DEF OrderOK
      <4>3. CaughtUp(s)'
        <5>1. msg.version <= sub[s].seen.version
          BY <1>1, <3>3, <3>8, <3>10 DEF After
        <5>2. Announced(o)' => Announced(o)
          BY <1>2 DEF Announced
        <5>3. Announced(o) => \/ ex[o].out.version <= sub[s].seen.version
                              \/ \E i \in 1..Len(tail) : tail[i] = ex[o].out
          BY <3>9, <5>1
        <5>4. sub'[s].of = o
          BY <2>2, <4>1
        <5>. QED  BY <1>2, <4>1, <5>2, <5>3, <5>4 DEF CaughtUp, Announced
      <4>. QED  BY <1>2, <2>2, <3>1, <3>5, <3>10, <4>1, <4>2, <4>3, StreamGoesOn
    <3>11. CASE Ends(s, "ended", msg)
      BY <2>3, <3>11
    <3>12. CASE /\ sub' = [sub EXCEPT ![s].queue = tail, ![s].seen = msg] /\ readers' = readers
                /\ After(msg.version, sub[s].snap) /\ ~IsFinal(msg.event)
      <4>0. msg.version # 0
        BY <3>2, <3>3, <3>12 DEF IsFinal
      <4>. HIDE DEF msg, tail
      <4>1. /\ sub'[s].pc = "reading" /\ sub'[s].of = sub[s].of /\ sub'[s].queue = tail
            /\ sub'[s].seen = msg /\ sub'[s].snap = sub[s].snap
        BY <1>1, <3>1, <3>12 DEF Subscriber
      <4>2. sub[s].snap <= msg.version
        BY <1>1, <3>8, <3>12 DEF After
      <4>3. \A i \in 1..Len(tail) : msg.version < tail[i].version \/ tail[i].version <= sub[s].snap
        BY <1>1, <3>7
      <4>4. OrderOK(s)'
        BY <1>2, <3>6, <3>7, <3>8, <4>1, <4>2, <4>3 DEF OrderOK
      <4>5. CaughtUp(s)'
        <5>1. Announced(o)' => Announced(o)
          BY <1>2 DEF Announced
        <5>2. ex[o].out.version \in Nat
          BY <1>1 DEF RestTypeOK, Execution, Message
        <5>3. sub[s].seen.version <= msg.version
          BY <1>1, <3>2, <3>3, <3>8, <3>12, <4>0 DEF After
        <5>4. Announced(o) => \/ ex[o].out.version <= msg.version
                              \/ \E i \in 1..Len(tail) : tail[i] = ex[o].out
          BY <1>1, <3>8, <3>9, <5>2, <5>3
        <5>5. sub'[s].of = o
          BY <2>2, <4>1
        <5>. QED  BY <1>2, <4>1, <5>1, <5>4, <5>5 DEF CaughtUp, Announced
      <4>6. \/ sub'[s].seen.version = sub'[s].snap
            \/ sub'[s].seen = sub[s].seen /\ sub'[s].snap = sub[s].snap
            \/ \E j \in 1..Len(sub[s].queue) : sub'[s].seen = sub[s].queue[j]
        BY <3>2, <4>1
      <4>7. \A i \in 1..Len(sub'[s].queue) : \E j \in 1..Len(sub[s].queue) : sub'[s].queue[i] = sub[s].queue[j]
        BY <3>5, <4>1
      <4>. QED  BY <1>2, <2>2, <3>1, <3>12, <4>1, <4>4, <4>5, <4>6, <4>7, StreamGoesOn
    <3>. QED  BY <3>4, <3>10, <3>11, <3>12
  <2>6. CASE SubQueueClosed(s)
    <3>1. sub'[s].pc = "promise" /\ sub'[s].of = o
      BY <1>1, <2>2, <2>6 DEF SubQueueClosed, Subscriber
    <3>. QED  BY <2>2, <3>1, StreamEnds
  <2>. QED
    BY <1>5, <2>3, <2>4, <2>5, <2>6 DEF SubStep, Subscription, SubSnapshot, SubPromise, Leave
<1>. QED  BY <1>4, <1>5

\* The streams of all subscribers.
LEMMA StepStreams ==
    ASSUME IndInv, StreamsOK, Next
    PROVE  StreamsOK'
<1>1. RestTypeOK
  BY DEF IndInv, TypeOK, RestTypeOK
<1>2. ASSUME NEW s \in Subs  PROVE StreamOK(s)'
  <2>1. StreamOK(s) /\ \A x \in Execs : OutOK(x)
    BY DEF StreamsOK, StreamOK
  <2>2. ASSUME NEW x \in Execs, ExecStep(x)  PROVE StreamOK(s)'
    <3>1. OutOK(x) /\ OrderOK(s) /\ JoinedOK(s) /\ CaughtUp(s) /\ \A y \in Execs : AheadOK(s, y)
      BY <2>1 DEF StreamOK
    <3>2. OrderOK(s)' /\ JoinedOK(s)' /\ CaughtUp(s)'
      BY <2>2, <3>1, ExecKeepsOrder, ExecKeepsJoined, ExecKeepsCaughtUp
    <3>3. ASSUME NEW y \in Execs  PROVE AheadOK(s, y)'
      BY <2>2, <3>1, ExecKeepsAhead
    <3>. QED  BY <3>2, <3>3 DEF StreamOK
  <2>3. ASSUME NEW c \in Cancels, CancelStep(c)  PROVE StreamOK(s)'
    <3>1. sub' = sub /\ readers' = readers /\ \A x \in Execs : ex'[x].pc = ex[x].pc /\ SameConsumer(x)
      BY <1>1, <2>3, CancelFrame DEF SameConsumer
    <3>. QED  BY <2>1, <3>1, StreamStays
  <2>4. ASSUME NEW r \in Subs, SubStep(r), r # s  PROVE StreamOK(s)'
    <3>1. /\ sub'[s] = sub[s] /\ \A t \in Tasks : s \in readers'[t] <=> s \in readers[t]
          /\ \A x \in Execs : ex'[x].pc = ex[x].pc /\ SameConsumer(x)
      BY <1>1, <2>4, SubFrame DEF SameConsumer
    <3>. QED  BY <2>1, <3>1, StreamStays
  <2>. QED  BY <2>1, <2>2, <2>3, <2>4, ActorStream, Steps
<1>3. ASSUME NEW x \in Execs  PROVE OutOK(x)'
  BY StepOut DEF StreamsOK
<1>. QED  BY <1>2, <1>3 DEF StreamsOK, StreamOK

\* At first there are no streams.
LEMMA InitStreams == Init => StreamsOK
<1>. SUFFICES ASSUME Init  PROVE StreamsOK
  OBVIOUS
<1>1. ASSUME NEW x \in Execs  PROVE OutOK(x)
  <2>1. ex[x].out = Nothing /\ ex[x].cons = "off" /\ TaskOf[x] \in Tasks
    BY CallFacts DEF Init, NewExecution
  <2>2. 0 <= stored[TaskOf[x]].version
    BY <2>1 DEF Init
  <2>. QED  BY <2>1, <2>2 DEF OutOK, Announces, Nothing
<1>2. ASSUME NEW s \in Subs  PROVE sub[s] = NewSubscription
  BY DEF Init
<1>. QED  BY <1>1, <1>2 DEF StreamsOK, OrderOK, JoinedOK, CaughtUp, AheadOK, Live, NewSubscription, Nothing

\* Every subscriber is in its place in the stream in every reachable state.
LEMMA StreamsInvariance == Spec => []StreamsOK
<1>1. IndInv /\ StreamsOK /\ [Next]_vars => StreamsOK'
  <2>. SUFFICES ASSUME IndInv, StreamsOK, [Next]_vars  PROVE StreamsOK'
    OBVIOUS
  <2>1. CASE UNCHANGED vars
    BY <2>1 DEF vars, managerVars, StreamsOK, OutOK, OrderOK, JoinedOK, CaughtUp, AheadOK, Live, Announces,
                Announced
  <2>. QED  BY <2>1, StepStreams
<1>. QED  BY <1>1, InitStreams, Invariance, PTL DEF Spec

\* A subscriber misses nothing, whether it started the execution or joined it
\* in the middle, and whatever other calls do to the task.
THEOREM CatchesUp == Spec => []SubscribersCaughtUp
<1>1. StreamsOK => SubscribersCaughtUp
  BY DEF StreamsOK, CaughtUp, Announced, SubscribersCaughtUp
<1>. QED  BY <1>1, StreamsInvariance, PTL

\* It is never sent a version that is not newer than the last, although its
\* snapshot may be newer than events in its queue.
THEOREM MovesForward == Spec => SubscribersMoveForward
<1>1. IndInv /\ StreamsOK /\ [Next]_vars =>
        [\A s \in Subs :
           sub'[s].seen # sub[s].seen /\ sub[s].pc = "reading" /\ sub'[s].seen.event # "message"
             => sub'[s].seen.version > sub[s].seen.version]_sub
  <2>. SUFFICES ASSUME IndInv, StreamsOK, Next, NEW s \in Subs,
                       sub'[s].seen # sub[s].seen, sub[s].pc = "reading", sub'[s].seen.event # "message"
                PROVE  sub'[s].seen.version > sub[s].seen.version
    BY DEF vars
  <2>1. /\ RestTypeOK /\ sub \in [Subs -> Subscriber] /\ sub[s] \in Subscriber /\ OrderOK(s)
        /\ sub[s].queue \in Seq(Message) /\ sub[s].seen.version \in Nat /\ sub[s].snap \in Nat
    BY DEF IndInv, TypeOK, RestTypeOK, StreamsOK, Subscriber, Message
  <2>2. SubStep(s)
    <3>1. ASSUME NEW x \in Execs, ExecStep(x)  PROVE FALSE
      BY <2>1, <3>1, ExecSubs
    <3>2. ASSUME NEW c \in Cancels, CancelStep(c)  PROVE FALSE
      BY <2>1, <3>2, CancelFrame
    <3>3. ASSUME NEW r \in Subs, SubStep(r), r # s  PROVE FALSE
      BY <2>1, <3>3, SubFrame
    <3>. QED  BY <3>1, <3>2, <3>3, Steps
  <2>3. SubRead(s)
    <3>1. ~SubQueueClosed(s)
      BY <2>1 DEF SubQueueClosed, Subscriber
    <3>2. ~Leave(s)
      BY <2>1 DEF Leave, Ends, Subscriber
    <3>. QED  BY <2>2, <3>1, <3>2 DEF SubStep, Subscription, Resubscribe, SubSnapshot, SubPromise
  <2>4. /\ Head(sub[s].queue) = sub[s].queue[1] /\ 1 \in 1..Len(sub[s].queue)
        /\ sub[s].queue[1] \in Message
    <3>1. sub[s].queue # <<>>
      BY <2>3 DEF SubRead
    <3>2. Len(sub[s].queue) \in Nat /\ Len(sub[s].queue) # 0
      BY <2>1, <3>1, EmptySeq, LenProperties
    <3>. QED  BY <2>1, <3>1, <3>2
  <2>5. PICK msg \in Message : msg = sub[s].queue[1]
    BY <2>4
  <2>6. sub'[s].seen = msg /\ After(msg.version, sub[s].snap)
    BY <2>1, <2>3, <2>4, <2>5 DEF SubRead, Ends, Subscriber
  <2>7. /\ msg.version = 0 => msg.event = "message"
        /\ sub[s].seen.version < msg.version \/ msg.version <= sub[s].snap
    BY <2>1, <2>4, <2>5 DEF OrderOK, Live
  <2>8. msg.version \in Nat
    BY DEF Message
  <2>. QED  BY <2>1, <2>6, <2>7, <2>8 DEF After
<1>. QED  BY <1>1, Invariance, StreamsInvariance, PTL DEF Spec, SubscribersMoveForward
=============================================================================
