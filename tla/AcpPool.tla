------------------------------ MODULE AcpPool ------------------------------
(***************************************************************************)
(* The pool of agent processes of the ACP executor (a2aacp/agent.go).       *)
(*                                                                         *)
(* A slot holds the process of one key.  Executor.mu guards the slots'      *)
(* fields; one critical section of it is one step here.  A slot's startMu   *)
(* is held across the slow work, starting and stopping a process, and so    *)
(* takes several steps.  Turns acquire and release agents; an idle timer    *)
(* per slot, the cancel timers of turns, a start that needs room, and Close *)
(* stop them; a process may exit by itself at any time.                     *)
(*                                                                         *)
(* The clock is nondeterministic: a start after a failed one may find the   *)
(* backoff over or not.  Of several idle agents any may be the least        *)
(* recently used.                                                           *)
(***************************************************************************)
EXTENDS Integers, Sequences, FiniteSets

CONSTANTS
    Users,          \* turns and turn setups, each acquires several times
    Keys,
    Settings,       \* the configurations considered
    MaxSlots,       \* bound: slots created, at least the acquires
    MaxProcs,       \* bound: processes started, at least the acquires
    None

\* "acquires" bounds the acquireAgent calls of a user; maxAgents 0 is no limit.
Setting == [keyOf : [Users -> Keys], acquires : [Users -> Nat], maxAgents : Nat,
            idleTimeout : BOOLEAN, close : BOOLEAN]

ASSUME PoolAssumption ==
    /\ Settings \subseteq Setting
    /\ {MaxSlots, MaxProcs} \subseteq Nat
VARIABLES
    setting,
    agents,         \* per key: its slot in Executor.agents, 0 if there is none
    slots,          \* sequence of all slots ever created
    procs,          \* sequence of all processes ever started
    users,          \* per user: the turn's progress
    stopper,        \* per user: the goroutine of its turn's cancel timer
    idler,          \* per slot: the goroutine of its idle timer
    closer          \* Close

vars == <<setting, agents, slots, procs, users, stopper, idler, closer>>

SlotIds == 1..Len(slots)
ProcIds == 1..Len(procs)

\* startMu: None or the goroutine that holds it.
ByUser(u) == <<"user", u>>
ByStopper(u) == <<"stopper", u>>
ByIdler(s) == <<"idler", s>>
ByCloser == <<"closer">>

Owner == {None, ByCloser} \cup {ByUser(u) : u \in Users} \cup {ByStopper(u) : u \in Users}
            \cup {ByIdler(s) : s \in 1..MaxSlots}

\* None is none of the goroutines.
ASSUME NoneAssumption ==
    /\ None # ByCloser
    /\ \A u \in Users : None # ByUser(u) /\ None # ByStopper(u)
    /\ \A s \in 1..MaxSlots : None # ByIdler(s)

Slot == [key : Keys, startMu : Owner, agent : 0..MaxProcs, refs : Int, idle : BOOLEAN,
         startErr : BOOLEAN]

\* "done" is what client.Done reports: the output ended or Close was called.
\* A process is gone when the Close of its stream has returned; "why" tells
\* who closed it.
Proc == [key : Keys, state : {"starting", "running", "exited", "closing", "gone"},
         why : {"none", "exited", "idle", "stopped", "closed", "failed"}]

User == [pc : {"idle", "ensure", "look", "closing", "room", "evict", "start", "using", "failed"},
         slot : 0..MaxSlots, proc : 0..MaxProcs, victim : 0..MaxSlots, acquires : Nat,
         canceled : BOOLEAN]

Stopper == [pc : {"none", "find", "lock", "closing"}, slot : 0..MaxSlots, proc : 0..MaxProcs]

\* The variables have the types of the code's fields and no slot is released
\* more often than it was acquired.
TypeOK ==
    /\ setting \in Settings
    /\ agents \in [Keys -> 0..MaxSlots]
    /\ slots \in Seq(Slot) /\ procs \in Seq(Proc)
    /\ \A s \in SlotIds : slots[s].refs >= 0
    /\ users \in [Users -> User]
    /\ stopper \in [Users -> Stopper]
    /\ idler \in [1..MaxSlots -> [pc : {"none", "lock", "closing"}, proc : 0..MaxProcs]]
    /\ closer \in [pc : {"none", "next", "closing", "over"}, todo : SUBSET (1..MaxSlots),
                   slot : 0..MaxSlots, proc : 0..MaxProcs]

NoUser == [pc |-> "idle", slot |-> 0, proc |-> 0, victim |-> 0, acquires |-> 0,
           canceled |-> FALSE]
NoStopper == [pc |-> "none", slot |-> 0, proc |-> 0]
NoIdler == [pc |-> "none", proc |-> 0]

Init ==
    /\ setting \in Settings
    /\ agents = [k \in Keys |-> 0]
    /\ slots = <<>> /\ procs = <<>>
    /\ users = [u \in Users |-> NoUser]
    /\ stopper = [u \in Users |-> NoStopper]
    /\ idler = [s \in 1..MaxSlots |-> NoIdler]
    /\ closer = [pc |-> "none", todo |-> {}, slot |-> 0, proc |-> 0]

-----------------------------------------------------------------------------
Closed == closer.pc # "none"

Lock(s, who) == slots[s].startMu = None /\ slots' = [slots EXCEPT ![s].startMu = who]

\* client.Close up to the wait for the process: done is closed first.
Closing(proc, why) ==
    [proc EXCEPT !.state = IF proc.state = "gone" THEN "gone" ELSE "closing",
                 !.why = IF proc.why = "none" THEN why ELSE proc.why]

CloseOf(p, why) == [procs EXCEPT ![p] = Closing(@, why)]

Gone(p) == procs[p].state = "gone"

\* dropSlotLocked
dropSlot(s) ==
    [agents EXCEPT ![slots[s].key] = IF @ = s THEN 0 ELSE @]

\* acquireAgent: the slot of the key, or a new one, is referenced and its idle
\* timer stopped.
acquireAgent(u) ==
    LET k == setting.keyOf[u]
        s == IF agents[k] = 0 THEN Len(slots) + 1 ELSE agents[k]
        all == IF s > Len(slots)
               THEN Append(slots, [key |-> k, startMu |-> None, agent |-> 0, refs |-> 0,
                                   idle |-> FALSE, startErr |-> FALSE])
               ELSE slots
    IN  /\ users[u].pc = "idle" /\ users[u].acquires < setting.acquires[u]
        /\ ~Closed /\ s <= MaxSlots
        /\ slots' = [all EXCEPT ![s].refs = @ + 1, ![s].idle = FALSE]
        /\ agents' = [agents EXCEPT ![k] = s]
        /\ users' = [users EXCEPT ![u].pc = "ensure", ![u].slot = s, ![u].acquires = @ + 1]
        /\ UNCHANGED <<procs, stopper, idler, closer>>

\* Mutant: the slot is dropped although its agent runs.
releaseAgentDropping(u) ==
    LET s == users[u].slot
        left == slots[s].refs - 1
    IN  /\ users[u].pc \in {"using", "failed"}
        /\ slots' = [slots EXCEPT ![s].refs = left,
                       ![s].idle = left = 0 /\ slots[s].agent # 0 /\ setting.idleTimeout]
        /\ agents' = IF left = 0 /\ ~slots[s].startErr THEN dropSlot(s) ELSE agents
        /\ users' = [users EXCEPT ![u] = [NoUser EXCEPT !.acquires = users[u].acquires]]
        /\ UNCHANGED <<procs, stopper, idler, closer>>

\* Mutant: the idle timer is not armed again.
releaseAgentUnarmed(u) ==
    LET s == users[u].slot
        left == slots[s].refs - 1
        empty == slots[s].agent = 0 /\ ~slots[s].startErr
    IN  /\ users[u].pc \in {"using", "failed"}
        /\ slots' = [slots EXCEPT ![s].refs = left]
        /\ agents' = IF left = 0 /\ empty THEN dropSlot(s) ELSE agents
        /\ users' = [users EXCEPT ![u] = [NoUser EXCEPT !.acquires = users[u].acquires]]
        /\ UNCHANGED <<procs, stopper, idler, closer>>

\* releaseAgent: by a turn that is over, or when ensureAgent failed.  The last
\* one drops an empty slot or arms the idle timer.
releaseAgent(u) ==
    LET s == users[u].slot
        left == slots[s].refs - 1
        empty == slots[s].agent = 0 /\ ~slots[s].startErr
    IN  /\ users[u].pc \in {"using", "failed"}
        /\ slots' = [slots EXCEPT ![s].refs = left,
                       ![s].idle = @ \/ (left = 0 /\ slots[s].agent # 0 /\ setting.idleTimeout)]
        /\ agents' = IF left = 0 /\ empty THEN dropSlot(s) ELSE agents
        /\ users' = [users EXCEPT ![u] = [NoUser EXCEPT !.acquires = users[u].acquires]]
        /\ UNCHANGED <<procs, stopper, idler, closer>>

-----------------------------------------------------------------------------
(* ensureAgent, makeRoom, startAgent *)

UserGoto(u, pc) == users' = [users EXCEPT ![u].pc = pc]

ensureAgent(u) ==
    /\ users[u].pc = "ensure"
    /\ Lock(users[u].slot, ByUser(u))
    /\ UserGoto(u, "look")
    /\ UNCHANGED <<agents, procs, stopper, idler, closer>>

\* A running agent is returned, one that exited is closed first.
LookAtAgent(u) ==
    LET s == users[u].slot
        p == slots[s].agent
    IN  /\ users[u].pc = "look"
        /\ IF p = 0 THEN
                UserGoto(u, "room") /\ UNCHANGED <<slots, procs>>
           ELSE IF procs[p].state = "running" THEN
                /\ users' = [users EXCEPT ![u] = [@ EXCEPT !.pc = "using", !.proc = p]]
                /\ slots' = [slots EXCEPT ![s].startMu = None]
                /\ UNCHANGED procs
           ELSE /\ procs' = CloseOf(p, "exited")
                /\ users' = [users EXCEPT ![u] = [@ EXCEPT !.pc = "closing", !.proc = p]]
                /\ UNCHANGED slots
        /\ UNCHANGED <<agents, stopper, idler, closer>>

ExitedIsClosed(u) ==
    /\ users[u].pc = "closing" /\ Gone(users[u].proc)
    /\ slots' = [slots EXCEPT ![users[u].slot].agent = 0]
    /\ users' = [users EXCEPT ![u] = [@ EXCEPT !.pc = "room", !.proc = 0]]
    /\ UNCHANGED <<agents, procs, stopper, idler, closer>>

\* Mutant: ensureAgent returns with startMu held.
FailLocked(u, ss) ==
    /\ slots' = ss
    /\ users' = [users EXCEPT ![u] = [@ EXCEPT !.pc = "failed", !.victim = 0]]

\* ensureAgent fails and unlocks startMu; the caller releases the slot.
Fail(u, ss) ==
    /\ slots' = [ss EXCEPT ![users[u].slot].startMu = None]
    /\ users' = [users EXCEPT ![u] = [@ EXCEPT !.pc = "failed", !.victim = 0]]

\* The slots of the map with an agent, other than the caller's: what makeRoom
\* counts.
Others(u) ==
    {s \in SlotIds : agents[slots[s].key] = s /\ s # users[u].slot /\ slots[s].agent # 0}

\* The backoff of a failed start refuses; then makeRoom: with the limit
\* reached an idle agent is to be stopped, if its startMu is free (TryLock).
makeRoom(u) ==
    LET full == setting.maxAgents > 0 /\ Cardinality(Others(u)) >= setting.maxAgents
        idle == {v \in Others(u) : slots[v].refs = 0}
    IN  /\ users[u].pc = "room"
        /\ \/ slots[users[u].slot].startErr /\ Fail(u, slots)
           \/ ~full /\ UserGoto(u, "start") /\ UNCHANGED slots
           \/ full /\ (idle = {} \/ \E v \in idle : slots[v].startMu # None) /\ Fail(u, slots)
           \/ /\ full
              /\ \E v \in idle :
                    /\ Lock(v, ByUser(u))
                    /\ users' = [users EXCEPT ![u] = [@ EXCEPT !.pc = "evict", !.victim = v]]
        /\ UNCHANGED <<agents, procs, stopper, idler, closer>>

\* Mutant: stopIfIdle without looking at refs.
CanStopRegardless(s) == slots[s].agent # 0

\* stopIfIdle, the test.
CanStop(s) == slots[s].refs = 0 /\ slots[s].agent # 0

\* makeRoom calls stopIfIdle with the victim's startMu held: the victim may
\* have been acquired meanwhile, and then there is no room.
EvictBegins(u) ==
    LET v == users[u].victim
    IN  /\ users[u].pc = "evict" /\ users[u].proc = 0
        /\ IF CanStop(v)
           THEN /\ procs' = CloseOf(slots[v].agent, "idle")
                /\ users' = [users EXCEPT ![u].proc = slots[v].agent]
                /\ slots' = [slots EXCEPT ![v].agent = 0]
           ELSE /\ Fail(u, [slots EXCEPT ![v].startMu = None])
                /\ UNCHANGED procs
        /\ UNCHANGED <<agents, stopper, idler, closer>>

EvictEnds(u) ==
    LET v == users[u].victim
    IN  /\ users[u].pc = "evict" /\ users[u].proc # 0 /\ Gone(users[u].proc)
        /\ agents' = IF slots[v].refs = 0 /\ slots[v].agent = 0 THEN dropSlot(v) ELSE agents
        /\ slots' = [slots EXCEPT ![v].startMu = None]
        /\ users' = [users EXCEPT ![u] = [@ EXCEPT !.pc = "start", !.proc = 0, !.victim = 0]]
        /\ UNCHANGED <<procs, stopper, idler, closer>>

\* startAgent: the process is started ...
StartBegins(u) ==
    /\ users[u].pc = "start" /\ users[u].proc = 0 /\ Len(procs) < MaxProcs
    /\ procs' = Append(procs, [key |-> setting.keyOf[u], state |-> "starting", why |-> "none"])
    /\ users' = [users EXCEPT ![u].proc = Len(procs) + 1]
    /\ UNCHANGED <<agents, slots, stopper, idler, closer>>

\* ... and initialize succeeds or not; a process that does not initialize is
\* closed.  A failed start is remembered unless another node owns the agent.
StartEnds(u) ==
    LET s == users[u].slot
        p == users[u].proc
    IN  /\ users[u].pc = "start" /\ p # 0
        /\ \/ /\ procs' = [procs EXCEPT ![p].state = "running"]
              /\ slots' = [slots EXCEPT ![s] = [@ EXCEPT !.agent = p, !.startErr = FALSE,
                                                         !.startMu = None]]
              /\ UserGoto(u, "using")
           \/ /\ procs' = [procs EXCEPT ![p] = [@ EXCEPT !.state = "gone", !.why = "failed"]]
              /\ \E notOwner \in BOOLEAN :
                    Fail(u, [slots EXCEPT ![s].startErr = @ \/ ~notOwner])
        /\ UNCHANGED <<agents, stopper, idler, closer>>

-----------------------------------------------------------------------------
(* The idle timer: stopIdle *)

IdleTimer(s) ==
    /\ slots[s].idle /\ idler[s].pc = "none"
    /\ slots' = [slots EXCEPT ![s].idle = FALSE]
    /\ idler' = [idler EXCEPT ![s].pc = "lock"]
    /\ UNCHANGED <<agents, procs, users, stopper, closer>>

\* startMu is locked and the agent stopped if it is still unused.
StopIdle(s) ==
    /\ idler[s].pc = "lock" /\ slots[s].startMu = None
    /\ IF CanStop(s)
       THEN /\ procs' = CloseOf(slots[s].agent, "idle")
            /\ slots' = [slots EXCEPT ![s] = [@ EXCEPT !.agent = 0, !.startMu = ByIdler(s)]]
            /\ idler' = [idler EXCEPT ![s] = [pc |-> "closing", proc |-> slots[s].agent]]
       ELSE /\ idler' = [idler EXCEPT ![s] = NoIdler]
            /\ UNCHANGED <<procs, slots>>
    /\ UNCHANGED <<agents, users, stopper, closer>>

IdleStopped(s) ==
    /\ idler[s].pc = "closing" /\ Gone(idler[s].proc)
    /\ agents' = IF slots[s].refs = 0 /\ slots[s].agent = 0 THEN dropSlot(s) ELSE agents
    /\ slots' = [slots EXCEPT ![s].startMu = None]
    /\ idler' = [idler EXCEPT ![s] = NoIdler]
    /\ UNCHANGED <<procs, users, stopper, closer>>

-----------------------------------------------------------------------------
(* The cancel timer: stopAgent *)

\* The agent of user u does not end its turn, which was canceled, in time.
CancelTimer(u) ==
    /\ users[u].pc = "using" /\ ~users[u].canceled /\ stopper[u].pc = "none"
    /\ users' = [users EXCEPT ![u].canceled = TRUE]
    /\ stopper' = [stopper EXCEPT ![u] = [pc |-> "find", slot |-> 0, proc |-> users[u].proc]]
    /\ UNCHANGED <<agents, slots, procs, idler, closer>>

\* stopAgent looks up the slot of the agent's key, which may be another one.
StopperFinds(u) ==
    LET s == agents[procs[stopper[u].proc].key]
    IN  /\ stopper[u].pc = "find"
        /\ stopper' = [stopper EXCEPT ![u] = IF s = 0 THEN NoStopper
                                             ELSE [@ EXCEPT !.pc = "lock", !.slot = s]]
        /\ UNCHANGED <<agents, slots, procs, users, idler, closer>>

StopAgent(u) ==
    LET s == stopper[u].slot
        p == stopper[u].proc
    IN  /\ stopper[u].pc = "lock" /\ slots[s].startMu = None
        /\ IF slots[s].agent = p
           THEN /\ slots' = [slots EXCEPT ![s] = [@ EXCEPT !.agent = 0,
                                                           !.startMu = ByStopper(u)]]
                /\ procs' = CloseOf(p, "stopped")
                /\ stopper' = [stopper EXCEPT ![u].pc = "closing"]
           ELSE /\ stopper' = [stopper EXCEPT ![u] = NoStopper]
                /\ UNCHANGED <<slots, procs>>
        /\ UNCHANGED <<agents, users, idler, closer>>

AgentStopped(u) ==
    /\ stopper[u].pc = "closing" /\ Gone(stopper[u].proc)
    /\ slots' = [slots EXCEPT ![stopper[u].slot].startMu = None]
    /\ stopper' = [stopper EXCEPT ![u] = NoStopper]
    /\ UNCHANGED <<agents, procs, users, idler, closer>>

-----------------------------------------------------------------------------
(* Close *)

Close ==
    /\ setting.close /\ closer.pc = "none"
    /\ closer' = [closer EXCEPT !.pc = "next", !.todo = {agents[k] : k \in Keys} \ {0}]
    /\ UNCHANGED <<agents, slots, procs, users, stopper, idler>>

CloseSlot ==
    /\ closer.pc = "next"
    /\ \/ /\ closer.todo = {}
          /\ closer' = [closer EXCEPT !.pc = "over"]
          /\ UNCHANGED <<slots, procs>>
       \/ \E s \in closer.todo :
            /\ slots[s].startMu = None
            /\ IF slots[s].agent = 0
               THEN /\ closer' = [closer EXCEPT !.todo = @ \ {s}]
                    /\ slots' = [slots EXCEPT ![s].idle = FALSE]
                    /\ UNCHANGED procs
               ELSE /\ closer' = [pc |-> "closing", todo |-> closer.todo \ {s}, slot |-> s,
                                  proc |-> slots[s].agent]
                    /\ slots' = [slots EXCEPT ![s] = [@ EXCEPT !.agent = 0, !.idle = FALSE,
                                                               !.startMu = ByCloser]]
                    /\ procs' = CloseOf(slots[s].agent, "closed")
    /\ UNCHANGED <<agents, users, stopper, idler>>

SlotClosed ==
    /\ closer.pc = "closing" /\ Gone(closer.proc)
    /\ slots' = [slots EXCEPT ![closer.slot].startMu = None]
    /\ closer' = [closer EXCEPT !.pc = "next", !.slot = 0, !.proc = 0]
    /\ UNCHANGED <<agents, procs, users, stopper, idler>>

-----------------------------------------------------------------------------
(* Processes (external) *)

ProcExits(p) ==
    /\ procs[p].state = "running"
    /\ procs' = [procs EXCEPT ![p].state = "exited"]
    /\ UNCHANGED <<agents, slots, users, stopper, idler, closer>>

\* The Close of a stream returns: the process is gone, killed if need be.
ProcGone(p) ==
    /\ procs[p].state = "closing"
    /\ procs' = [procs EXCEPT ![p].state = "gone"]
    /\ UNCHANGED <<agents, slots, users, stopper, idler, closer>>

-----------------------------------------------------------------------------
Acquire(u) ==
    \/ ensureAgent(u) \/ LookAtAgent(u) \/ ExitedIsClosed(u) \/ makeRoom(u)
    \/ EvictBegins(u) \/ EvictEnds(u) \/ StartBegins(u) \/ StartEnds(u)
    \/ users[u].pc = "failed" /\ releaseAgent(u)

Progress ==
    /\ UNCHANGED setting
    /\ \/ \E u \in Users : Acquire(u) \/ StopperFinds(u) \/ StopAgent(u) \/ AgentStopped(u)
       \/ \E s \in SlotIds : IdleTimer(s) \/ StopIdle(s) \/ IdleStopped(s)
       \/ \E p \in ProcIds : ProcGone(p)
       \/ CloseSlot \/ SlotClosed

Arrivals ==
    /\ UNCHANGED setting
    /\ \/ \E u \in Users : \/ acquireAgent(u) \/ CancelTimer(u)
                           \/ users[u].pc = "using" /\ releaseAgent(u)
       \/ \E p \in ProcIds : ProcExits(p)
       \/ Close

Next == Arrivals \/ Progress

Spec == Init /\ [][Next]_vars
FairSpec == Spec /\ WF_vars(Progress)

-----------------------------------------------------------------------------
(* Properties *)

\* A process exists until the Close of its stream has returned.
Exists(p) == procs[p].state # "gone"
SameKey(p, q) == p # q /\ procs[p].key = procs[q].key

\* agentSlot.startMu is held while an agent is started or stopped, "so that at
\* most one process per key exists, for example to reuse a sandbox with a fixed
\* name".  This does not hold: a turn that its cancel timer stops ends before
\* its process does, and its release drops the slot together with the lock.
OneProcessPerKey ==
    \A p, q \in ProcIds : SameKey(p, q) => ~(Exists(p) /\ Exists(q))

\* That is the only exception: of two processes of a key stopAgent is ending
\* one.  One in service is the agent of its key's slot in the map, so that none
\* is forgotten when slots are dropped and created anew.
BeingStopped(p) == procs[p].state = "closing" /\ procs[p].why = "stopped"
OneAgentPerKey ==
    /\ \A p, q \in ProcIds :
          SameKey(p, q) /\ Exists(p) /\ Exists(q) => BeingStopped(p) \/ BeingStopped(q)
    /\ \A p \in ProcIds : procs[p].state \in {"running", "exited"} =>
          agents[procs[p].key] # 0 /\ slots[agents[procs[p].key]].agent = p

\* A slot's refs is the number of turns and setups that use it, so that it
\* comes back to zero and never goes below.
RefsExact ==
    \A s \in SlotIds :
        slots[s].refs = Cardinality({u \in Users : users[u].pc # "idle" /\ users[u].slot = s})

\* The pool's books: types, one agent per key but those being stopped, exact
\* references.
PoolExact == TypeOK /\ OneAgentPerKey /\ RefsExact

\* acquireAgent: "An agent in use is never stopped for being idle", neither by
\* a timer that fired before the agent was acquired again nor to make room.
InUseIsNotIdle ==
    \A u \in Users : users[u].pc = "using" => procs[users[u].proc].why # "idle"

\* Every acquireAgent returns: no goroutine waits for ever for a startMu,
\* although makeRoom takes a second one.
AcquiresReturn ==
    \A u \in Users : users[u].pc = "ensure" ~> users[u].pc \in {"using", "idle"}

\* An agent nobody uses is stopped when the idle timeout is set (PoolConfig:
\* "stops an agent which has no tasks in progress"), whatever happened before.
Unused(k) == agents[k] # 0 /\ slots[agents[k]].refs = 0 /\ slots[agents[k]].agent # 0
UnusedAgentsStop == \A k \in Keys : [](setting.idleTimeout => <>~Unused(k))
=============================================================================
