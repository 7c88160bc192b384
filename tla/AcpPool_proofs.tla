---------------------------- MODULE AcpPool_proofs ----------------------------
(***************************************************************************)
(* Proofs about AcpPool, for every set of users and keys, every setting    *)
(* and every number of slots and processes: the books of the pool are      *)
(* exact, a key has two processes only while stopAgent ends one of them,   *)
(* and an agent in use is never stopped for being idle.                    *)
(***************************************************************************)
EXTENDS AcpPool, FiniteSetTheorems, TLAPS

-----------------------------------------------------------------------------
(***************************************************************************)
(* The inductive invariant.                                                *)
(***************************************************************************)
Types ==
    /\ setting \in Settings
    /\ agents \in [Keys -> 0..MaxSlots]
    /\ slots \in Seq(Slot) /\ Len(slots) <= MaxSlots
    /\ procs \in Seq(Proc) /\ Len(procs) <= MaxProcs
    /\ users \in [Users -> User]
    /\ stopper \in [Users -> Stopper]
    /\ idler \in [1..MaxSlots -> [pc : {"none", "lock", "closing"}, proc : 0..MaxProcs]]
    /\ closer \in [pc : {"none", "next", "closing", "over"}, todo : SUBSET (1..MaxSlots),
                   slot : 0..MaxSlots, proc : 0..MaxProcs]

\* The map leads to slots of the right key.
MapOK == \A k \in Keys : agents[k] # 0 => agents[k] \in SlotIds /\ slots[agents[k]].key = k

\* A user's slot is the one in the map as long as it is referenced; inside
\* ensureAgent it holds the slot's startMu, and there is no agent behind its
\* back when it makes room and starts one.
UserOK(u) ==
    LET s == users[u].slot
        p == users[u].proc
        k == setting.keyOf[u]
    IN  /\ users[u].pc # "idle" => s \in SlotIds /\ slots[s].key = k /\ agents[k] = s
        /\ users[u].pc \in {"look", "closing", "room", "evict", "start"}
              => slots[s].startMu = ByUser(u)
        /\ users[u].pc \in {"room", "evict", "start"} => slots[s].agent = 0
        /\ users[u].pc \in {"idle", "ensure", "look", "room"} => p = 0
        /\ users[u].pc = "closing" =>
              p \in ProcIds /\ slots[s].agent = p /\ procs[p].state \in {"closing", "gone"}
        /\ users[u].pc = "evict" =>
              /\ users[u].victim \in SlotIds /\ users[u].victim # s
              /\ slots[users[u].victim].startMu = ByUser(u)
        /\ users[u].pc = "start" /\ p # 0 =>
              p \in ProcIds /\ procs[p].state = "starting" /\ procs[p].key = k
        /\ users[u].pc = "using" => p \in ProcIds /\ procs[p].key = k /\ procs[p].why # "idle"

\* A slot with an agent is in the map, and the agent has its key.
SlotOK(s) ==
    slots[s].agent # 0 =>
        /\ slots[s].agent \in ProcIds
        /\ procs[slots[s].agent].key = slots[s].key
        /\ procs[slots[s].agent].state # "starting"
        /\ agents[slots[s].key] = s

Live(p) == procs[p].state \in {"starting", "running", "exited"}

\* A process that was neither stopped nor closed is starting for a user, or
\* the agent of the slot in the map.
ProcOK(p) ==
    /\ procs[p].state = "starting" => \E u \in Users : users[u].pc = "start" /\ users[u].proc = p
    /\ procs[p].state \in {"running", "exited"} =>
          agents[procs[p].key] # 0 /\ slots[agents[procs[p].key]].agent = p
    /\ Live(p) => procs[p].why = "none"

\* The goroutines that stop agents hold the startMu of the slot meanwhile.
StopperOK(u) ==
    /\ stopper[u].pc # "none" => stopper[u].proc \in ProcIds
    /\ stopper[u].pc \in {"lock", "closing"} => stopper[u].slot \in SlotIds
    /\ stopper[u].pc = "closing" => slots[stopper[u].slot].startMu = ByStopper(u)

IdlerOK(s) ==
    /\ idler[s].pc # "none" => s \in SlotIds
    /\ idler[s].pc = "closing" => slots[s].startMu = ByIdler(s)

CloserOK ==
    /\ closer.todo \subseteq SlotIds
    /\ closer.pc = "closing" => closer.slot \in SlotIds /\ slots[closer.slot].startMu = ByCloser

\* refs counts the users of a slot.
UsersOf(s) == {u \in Users : users[u].pc # "idle" /\ users[u].slot = s}

RefsOK ==
    \A s \in SlotIds : IsFiniteSet(UsersOf(s)) /\ slots[s].refs = Cardinality(UsersOf(s))

IndInv ==
    /\ Types /\ MapOK /\ RefsOK
    /\ \A u \in Users : UserOK(u) /\ StopperOK(u)
    /\ \A s \in SlotIds : SlotOK(s)
    /\ \A p \in ProcIds : ProcOK(p)
    /\ \A s \in 1..MaxSlots : IdlerOK(s)
    /\ CloserOK

\* It implies most of what the runs check.
LEMMA IndInvImplies == IndInv => TypeOK /\ RefsExact /\ InUseIsNotIdle
  <1> SUFFICES ASSUME IndInv PROVE TypeOK /\ RefsExact /\ InUseIsNotIdle
    OBVIOUS
  <1>1. RefsExact
    BY DEF IndInv, RefsOK, UsersOf, RefsExact
  <1>2. TypeOK
    <2>1. \A s \in SlotIds : slots[s].refs >= 0
      <3> TAKE s \in SlotIds
      <3>1. IsFiniteSet(UsersOf(s)) /\ slots[s].refs = Cardinality(UsersOf(s))
        BY DEF IndInv, RefsOK
      <3> QED BY <3>1, FS_CardinalityType
    <2>2. Types
      BY DEF IndInv
    <2> QED BY <2>1, <2>2 DEF Types, TypeOK
  <1>3. InUseIsNotIdle
    BY DEF IndInv, UserOK, InUseIsNotIdle
  <1> QED BY <1>1, <1>2, <1>3

\* The initial state satisfies it.
LEMMA InitIndInv == Init => IndInv
  <1> SUFFICES ASSUME Init PROVE IndInv
    OBVIOUS
  <1>1. Types
    BY PoolAssumption DEF Init, Types, Setting, User, Stopper, Slot, Proc, NoUser, NoStopper, NoIdler
  <1>2. SlotIds = {} /\ ProcIds = {}
    BY DEF Init, SlotIds, ProcIds
  <1>3. \A u \in Users : UserOK(u) /\ StopperOK(u)
    BY DEF Init, UserOK, StopperOK, NoUser, NoStopper
  <1>4. MapOK /\ CloserOK /\ RefsOK /\ \A s \in 1..MaxSlots : IdlerOK(s)
    BY <1>2 DEF Init, MapOK, CloserOK, RefsOK, IdlerOK, NoIdler
  <1> QED BY <1>1, <1>2, <1>3, <1>4 DEF IndInv

-----------------------------------------------------------------------------
(***************************************************************************)
(* What a step leaves alone.  "who" is the goroutine that takes it: it     *)
(* touches no slot whose startMu another one holds.                        *)
(***************************************************************************)
Grows ==
    /\ setting' = setting
    /\ Len(slots') \in Nat /\ Len(procs') \in Nat
    /\ Len(slots) <= Len(slots') /\ Len(procs) <= Len(procs')
    /\ \A t \in SlotIds : slots'[t].key = slots[t].key
    /\ \A p \in ProcIds :
          /\ procs'[p].key = procs[p].key
          /\ procs[p].state \in {"closing", "gone"} => procs'[p].state \in {"closing", "gone"}

Respects(who) ==
    \A t \in SlotIds : slots[t].startMu \notin {None, who} =>
        slots'[t].startMu = slots[t].startMu /\ slots'[t].agent = slots[t].agent

\* A step of who that preserves the invariant.
Kept(who) == IndInv' /\ Grows /\ Respects(who)

\* A user that does not move keeps its part, if its slot stays in the map and
\* its process is not started by others nor stopped for being idle.
LEMMA UserKept ==
    ASSUME IndInv, Grows, NEW u \in Users, NEW who, Respects(who), who # ByUser(u),
           users'[u] = users[u],
           users[u].pc # "idle" => agents'[setting.keyOf[u]] = agents[setting.keyOf[u]],
           users[u].pc = "start" /\ users[u].proc # 0 => procs'[users[u].proc] = procs[users[u].proc],
           users[u].pc = "using" => procs'[users[u].proc].why # "idle"
    PROVE  UserOK(u)'
  <1>1. /\ UserOK(u) /\ Len(slots) \in Nat /\ Len(procs) \in Nat /\ ByUser(u) # None
        /\ users[u].pc \in {"idle", "ensure", "look", "closing", "room", "evict", "start", "using", "failed"}
    <2>1. ByUser(u) # None
      BY NoneAssumption
    <2> QED BY <2>1 DEF IndInv, Types, User
  <1>2. /\ \A t \in SlotIds : t \in SlotIds' /\ slots'[t].key = slots[t].key
        /\ \A t \in SlotIds : slots[t].startMu = ByUser(u) =>
             slots'[t].startMu = slots[t].startMu /\ slots'[t].agent = slots[t].agent
    BY <1>1 DEF Grows, Respects, SlotIds
  <1>3. \A p \in ProcIds :
          /\ p \in ProcIds' /\ procs'[p].key = procs[p].key
          /\ procs[p].state \in {"closing", "gone"} => procs'[p].state \in {"closing", "gone"}
    BY <1>1 DEF Grows, ProcIds
  <1>4. setting' = setting
    BY DEF Grows
  <1> QED BY <1>1, <1>2, <1>3, <1>4 DEF UserOK

\* So do the goroutines that stop agents.
LEMMA StopperKept ==
    ASSUME IndInv, Grows, NEW u \in Users, NEW who, Respects(who), who # ByStopper(u),
           stopper'[u] = stopper[u]
    PROVE  StopperOK(u)'
  <1>1. /\ StopperOK(u) /\ Len(slots) \in Nat /\ Len(procs) \in Nat /\ ByStopper(u) # None
    <2>1. ByStopper(u) # None
      BY NoneAssumption
    <2> QED BY <2>1 DEF IndInv, Types
  <1> QED BY <1>1 DEF StopperOK, Grows, Respects, SlotIds, ProcIds

LEMMA IdlerKept ==
    ASSUME IndInv, Grows, NEW s \in 1..MaxSlots, NEW who, Respects(who), who # ByIdler(s),
           idler'[s] = idler[s]
    PROVE  IdlerOK(s)'
  <1>1. /\ IdlerOK(s) /\ Len(slots) \in Nat /\ ByIdler(s) # None
    <2>1. ByIdler(s) # None
      BY NoneAssumption
    <2> QED BY <2>1 DEF IndInv, Types
  <1> QED BY <1>1 DEF IdlerOK, Grows, Respects, SlotIds

LEMMA CloserKept ==
    ASSUME IndInv, Grows, NEW who, Respects(who), who # ByCloser, closer' = closer
    PROVE  CloserOK'
  <1>1. CloserOK /\ Len(slots) \in Nat /\ ByCloser # None
    <2>1. ByCloser # None
      BY NoneAssumption
    <2> QED BY <2>1 DEF IndInv, Types
  <1> QED BY <1>1 DEF CloserOK, Grows, Respects, SlotIds

\* The map and the slots, when no agent is added and what is dropped is empty.
LEMMA MapKept ==
    ASSUME IndInv, Grows, \A k \in Keys : agents'[k] \in {0, agents[k]}
    PROVE  MapOK'
  <1>1. MapOK /\ Len(slots) \in Nat
    BY DEF IndInv, Types
  <1> QED BY <1>1 DEF MapOK, Grows, SlotIds

LEMMA SlotKept ==
    ASSUME IndInv, Grows, NEW t \in SlotIds, slots'[t].agent \in {0, slots[t].agent},
           slots'[t].agent # 0 => agents'[slots[t].key] = agents[slots[t].key],
           \A p \in ProcIds : procs'[p].state = "starting" => procs[p].state = "starting"
    PROVE  SlotOK(t)'
  <1>1. SlotOK(t) /\ Len(procs) \in Nat
    BY DEF IndInv, Types
  <1> QED BY SMTT(30), <1>1 DEF SlotOK, Grows, ProcIds

\* References, when no user takes or gives one back.
LEMMA RefsKept ==
    ASSUME RefsOK, SlotIds' = SlotIds,
           \A s \in SlotIds : slots'[s].refs = slots[s].refs,
           \A u \in Users : (users'[u].pc # "idle" <=> users[u].pc # "idle")
                              /\ users'[u].slot = users[u].slot
    PROVE  RefsOK'
  <1>1. \A s : UsersOf(s)' = UsersOf(s)
    BY DEF UsersOf
  <1> QED BY <1>1 DEF RefsOK

\* Replacing one slot.
LEMMA SlotReplaced ==
    ASSUME slots \in Seq(Slot), NEW s \in SlotIds, NEW r \in Slot, slots' = [slots EXCEPT ![s] = r]
    PROVE  /\ slots' \in Seq(Slot) /\ Len(slots') = Len(slots) /\ SlotIds' = SlotIds
           /\ slots'[s] = r /\ \A t \in SlotIds \ {s} : slots'[t] = slots[t]
  BY DEF SlotIds

\* Replacing one process.
LEMMA ProcReplaced ==
    ASSUME procs \in Seq(Proc), NEW p \in ProcIds, NEW r \in Proc, procs' = [procs EXCEPT ![p] = r]
    PROVE  /\ procs' \in Seq(Proc) /\ Len(procs') = Len(procs) /\ ProcIds' = ProcIds
           /\ procs'[p] = r /\ \A q \in ProcIds \ {p} : procs'[q] = procs[q]
  BY DEF ProcIds

\* client.Close of a process.
LEMMA CloseOfProc ==
    ASSUME procs \in Seq(Proc), NEW p \in ProcIds, NEW why \in {"exited", "idle", "stopped", "closed"},
           procs' = CloseOf(p, why)
    PROVE  /\ procs' \in Seq(Proc) /\ Len(procs') = Len(procs) /\ ProcIds' = ProcIds
           /\ procs'[p].key = procs[p].key /\ procs'[p].state \in {"closing", "gone"}
           /\ procs'[p].why = IF procs[p].why = "none" THEN why ELSE procs[p].why
           /\ \A q \in ProcIds \ {p} : procs'[q] = procs[q]
  <1> DEFINE r == Closing(procs[p], why)
  <1>1. /\ r \in Proc /\ r.key = procs[p].key /\ r.state \in {"closing", "gone"}
        /\ r.why = IF procs[p].why = "none" THEN why ELSE procs[p].why
    <2>1. procs[p] \in Proc
      BY DEF ProcIds
    <2>2. \A proc \in Proc : LET c == Closing(proc, why) IN
             /\ c \in Proc /\ c.key = proc.key /\ c.state \in {"closing", "gone"}
             /\ c.why = IF proc.why = "none" THEN why ELSE proc.why
      BY DEF Closing, Proc
    <2> QED BY <2>1, <2>2
  <1>2. procs' = [procs EXCEPT ![p] = r]
    BY DEF CloseOf
  <1> HIDE DEF r
  <1> QED BY <1>1, <1>2, ProcReplaced
\* A process nobody touches keeps its part.
LEMMA ProcKept ==
    ASSUME IndInv, NEW p \in ProcIds, procs'[p] = procs[p],
           procs[p].state \in {"running", "exited"} =>
             /\ agents'[procs[p].key] = agents[procs[p].key]
             /\ slots'[agents[procs[p].key]].agent = slots[agents[procs[p].key]].agent,
           \A u \in Users : users[u].pc = "start" /\ users[u].proc = p =>
             users'[u].pc = "start" /\ users'[u].proc = p
    PROVE  ProcOK(p)'
  <1>1. ProcOK(p)
    BY DEF IndInv
  <1> QED BY <1>1 DEF ProcOK, Live

\* A process that was stopped or closed owes nothing.
LEMMA ProcStopped ==
    ASSUME NEW p, procs'[p].state \in {"closing", "gone"}
    PROVE  ProcOK(p)'
  BY DEF ProcOK, Live

\* What a step leaves to the users it does not move.
KeptUsers(S) ==
    \A v \in S :
        /\ users'[v] = users[v]
        /\ users[v].pc # "idle" => agents'[setting.keyOf[v]] = agents[setting.keyOf[v]]
        /\ users[v].pc = "start" /\ users[v].proc # 0 =>
              procs'[users[v].proc] = procs[users[v].proc]
        /\ users[v].pc = "using" => procs'[users[v].proc].why # "idle"

StateKept ==
    /\ MapOK' /\ RefsOK'
    /\ \A s \in SlotIds' : SlotOK(s)'
    /\ \A p \in ProcIds' : ProcOK(p)'

\* A step of a user.
LEMMA UserStep ==
    ASSUME IndInv, NEW u \in Users, Grows, Respects(ByUser(u)), UNCHANGED <<idler, closer>>,
           \A v \in Users : stopper'[v] = stopper[v] \/ StopperOK(v)',
           KeptUsers(Users \ {u}), Types', StateKept, UserOK(u)'
    PROVE  Kept(ByUser(u))
  <1>1. ASSUME NEW v \in Users PROVE UserOK(v)' /\ StopperOK(v)'
    <2>1. StopperOK(v)'
      <3>1. ByUser(u) # ByStopper(v)
        BY DEF ByUser, ByStopper
      <3> QED BY <3>1, StopperKept
    <2>2. CASE v = u
      BY <2>1, <2>2
    <2>3. CASE v # u
      <3>1. ByUser(u) # ByUser(v)
        BY <2>3 DEF ByUser
      <3>2. /\ users'[v] = users[v]
            /\ users[v].pc # "idle" => agents'[setting.keyOf[v]] = agents[setting.keyOf[v]]
            /\ users[v].pc = "start" /\ users[v].proc # 0 =>
                  procs'[users[v].proc] = procs[users[v].proc]
            /\ users[v].pc = "using" => procs'[users[v].proc].why # "idle"
        BY <2>3 DEF KeptUsers
      <3>3. UserOK(v)'
        BY <3>1, <3>2, UserKept
      <3> QED BY <2>1, <3>3
    <2> QED BY <2>2, <2>3
  <1>2. ASSUME NEW s \in 1..MaxSlots PROVE IdlerOK(s)'
    <2>1. ByUser(u) # ByIdler(s)
      BY DEF ByUser, ByIdler
    <2> QED BY <2>1, IdlerKept
  <1>3. CloserOK'
    <2>1. Len(ByCloser) = 1 /\ Len(ByUser(u)) = 2
      BY DEF ByCloser, ByUser
    <2> QED BY <2>1, CloserKept
  <1> QED BY <1>1, <1>2, <1>3 DEF StateKept, IndInv, Kept

\* A step of a goroutine that stops an agent, or of a process.
LEMMA OtherStep ==
    ASSUME IndInv, NEW who, Grows, Respects(who), KeptUsers(Users), Types', StateKept,
           \A u \in Users : who # ByUser(u),
           \A u \in Users : StopperOK(u)' \/ (who # ByStopper(u) /\ stopper'[u] = stopper[u]),
           \A s \in 1..MaxSlots : IdlerOK(s)' \/ (who # ByIdler(s) /\ idler'[s] = idler[s]),
           CloserOK' \/ (who # ByCloser /\ closer' = closer)
    PROVE  Kept(who)
  <1>1. \A u \in Users : UserOK(u)' /\ StopperOK(u)'
    BY UserKept, StopperKept DEF KeptUsers
  <1>2. \A s \in 1..MaxSlots : IdlerOK(s)'
    BY IdlerKept
  <1>3. CloserOK'
    BY CloserKept
  <1> QED BY <1>1, <1>2, <1>3 DEF StateKept, IndInv, Kept

\* Nobody uses a slot without references.
LEMMA UnusedSlot ==
    ASSUME IndInv, NEW s \in SlotIds, slots[s].refs = 0, NEW u \in Users, users[u].pc # "idle"
    PROVE  users[u].slot # s
  <1>1. IsFiniteSet(UsersOf(s)) /\ Cardinality(UsersOf(s)) = 0
    BY DEF IndInv, RefsOK
  <1>2. UsersOf(s) = {}
    BY <1>1, FS_EmptySet
  <1> QED BY <1>2 DEF UsersOf

\* What a process in service is found by.
LEMMA Served ==
    ASSUME IndInv, NEW p \in ProcIds, procs[p].state \in {"running", "exited"}
    PROVE  /\ procs[p].key \in Keys
           /\ agents[procs[p].key] \in SlotIds /\ slots[agents[procs[p].key]].agent = p
  <1>1. procs[p].key \in Keys
    <2>1. procs[p] \in Proc
      BY DEF IndInv, Types, ProcIds
    <2> QED BY <2>1 DEF Proc
  <1>2. agents[procs[p].key] # 0 /\ slots[agents[procs[p].key]].agent = p
    BY DEF IndInv, ProcOK
  <1> QED BY <1>1, <1>2 DEF IndInv, MapOK
-----------------------------------------------------------------------------
(***************************************************************************)
(* Quiet steps of a goroutine: no reference is taken or given back, no     *)
(* agent is put into a slot, and at most process x is stopped or closed.   *)
(***************************************************************************)
SlotsQuiet(who, x) ==
    /\ slots' \in Seq(Slot) /\ Len(slots') = Len(slots)
    /\ \A t \in SlotIds :
          /\ slots'[t].key = slots[t].key /\ slots'[t].refs = slots[t].refs
          /\ slots'[t].agent # slots[t].agent => slots'[t].agent = 0 /\ slots[t].agent = x
          /\ slots[t].startMu \notin {None, who} =>
                slots'[t].startMu = slots[t].startMu /\ slots'[t].agent = slots[t].agent

ProcsQuiet(x) ==
    /\ procs' \in Seq(Proc) /\ Len(procs') = Len(procs)
    /\ \A p \in ProcIds :
          /\ procs'[p].key = procs[p].key
          /\ p # x => procs'[p] = procs[p]
          /\ p = x => procs'[p].state \in {"closing", "gone"}

\* Only empty slots are dropped.
AgentsQuiet ==
    \A k \in Keys : agents'[k] # agents[k] =>
        agents'[k] = 0 /\ (agents[k] \in SlotIds => slots[agents[k]].agent = 0)

UsersQuiet(x) ==
    \A v \in Users :
        /\ (users'[v].pc # "idle" <=> users[v].pc # "idle") /\ users'[v].slot = users[v].slot
        /\ users[v].pc = "start" /\ users[v].proc \notin {0, x} =>
              users'[v].pc = "start" /\ users'[v].proc = users[v].proc

LEMMA QuietStep ==
    ASSUME IndInv, setting' = setting, NEW who, NEW x, SlotsQuiet(who, x), ProcsQuiet(x),
           AgentsQuiet, UsersQuiet(x)
    PROVE  /\ Grows /\ Respects(who) /\ StateKept
           /\ SlotIds' = SlotIds /\ ProcIds' = ProcIds
  <1>1. Len(slots) \in Nat /\ Len(procs) \in Nat
    BY DEF IndInv, Types
  <1>2. SlotIds' = SlotIds /\ ProcIds' = ProcIds
    BY DEF SlotsQuiet, ProcsQuiet, SlotIds, ProcIds
  <1>3. Grows
    <2>1. \A p \in ProcIds : procs[p].state \in {"closing", "gone"} =>
                               procs'[p].state \in {"closing", "gone"}
      BY DEF ProcsQuiet
    <2> QED BY <1>1, <2>1 DEF Grows, SlotsQuiet, ProcsQuiet
  <1>4. Respects(who)
    BY DEF Respects, SlotsQuiet
  <1>5. MapOK'
    BY <1>3, MapKept DEF AgentsQuiet
  <1>6. RefsOK'
    BY <1>2, RefsKept DEF IndInv, SlotsQuiet, UsersQuiet
  <1>7. \A t \in SlotIds' : SlotOK(t)'
    <2> SUFFICES ASSUME NEW t \in SlotIds PROVE SlotOK(t)'
      BY <1>2
    <2>1. slots'[t].agent \in {0, slots[t].agent}
      BY DEF SlotsQuiet
    <2>2. ASSUME slots'[t].agent # 0
          PROVE  agents'[slots[t].key] = agents[slots[t].key]
      <3>1. slots[t].agent # 0 /\ SlotOK(t)
        BY <2>1, <2>2 DEF IndInv
      <3>2. agents[slots[t].key] = t /\ slots[t] \in Slot
        BY <3>1 DEF SlotOK, IndInv, Types, SlotIds
      <3>3. slots[t].key \in Keys
        BY <3>2 DEF Slot
      <3> QED BY <3>1, <3>2, <3>3 DEF AgentsQuiet
    <2>3. \A p \in ProcIds : procs'[p].state = "starting" => procs[p].state = "starting"
      BY DEF ProcsQuiet
    <2> QED BY <1>3, <2>1, <2>2, <2>3, SlotKept
  <1>8. \A p \in ProcIds' : ProcOK(p)'
    <2> SUFFICES ASSUME NEW p \in ProcIds PROVE ProcOK(p)'
      BY <1>2
    <2>1. CASE p = x
      BY <2>1, ProcStopped DEF ProcsQuiet
    <2>2. CASE p # x
      <3>1. procs'[p] = procs[p] /\ p # 0
        BY <2>2 DEF ProcsQuiet, ProcIds
      <3>2. ASSUME procs[p].state \in {"running", "exited"}
            PROVE  /\ agents'[procs[p].key] = agents[procs[p].key]
                   /\ slots'[agents[procs[p].key]].agent = slots[agents[procs[p].key]].agent
        BY <2>2, <3>1, <3>2, Served DEF AgentsQuiet, SlotsQuiet
      <3>3. \A v \in Users : users[v].pc = "start" /\ users[v].proc = p =>
              users'[v].pc = "start" /\ users'[v].proc = p
        BY <2>2, <3>1 DEF UsersQuiet
      <3> QED BY <3>1, <3>2, <3>3, ProcKept
    <2> QED BY <2>1, <2>2
  <1> QED BY <1>2, <1>3, <1>4, <1>5, <1>6, <1>7, <1>8 DEF StateKept

\* Goroutine who turns slot s into r: its startMu is free or held by who, and at
\* most agent x leaves it.
Turns(who, x, s, r) ==
    /\ s \in SlotIds /\ slots' = [slots EXCEPT ![s] = r]
    /\ slots[s].startMu \in {None, who}
    /\ r \in Slot /\ r.key = slots[s].key /\ r.refs = slots[s].refs
    /\ r.agent = slots[s].agent \/ (r.agent = 0 /\ slots[s].agent = x)

LEMMA OneSlot ==
    ASSUME IndInv, NEW who, NEW x, NEW s, NEW r, Turns(who, x, s, r)
    PROVE  /\ SlotsQuiet(who, x) /\ slots'[s] = r /\ SlotIds' = SlotIds
           /\ \A t \in SlotIds \ {s} : slots'[t] = slots[t]
           /\ slots' \in Seq(Slot) /\ Len(slots') <= MaxSlots
  <1>1. slots \in Seq(Slot) /\ Len(slots) <= MaxSlots
    BY DEF IndInv, Types
  <1>2. /\ slots' \in Seq(Slot) /\ Len(slots') = Len(slots) /\ SlotIds' = SlotIds
        /\ slots'[s] = r /\ \A t \in SlotIds \ {s} : slots'[t] = slots[t]
    BY <1>1, SlotReplaced DEF Turns
  <1>3. SlotsQuiet(who, x)
    BY <1>2 DEF SlotsQuiet, Turns
  <1> QED BY <1>1, <1>2, <1>3

LEMMA SameSlots ==
    ASSUME IndInv, slots' = slots, NEW who, NEW x
    PROVE  SlotsQuiet(who, x)
  BY DEF SlotsQuiet, IndInv, Types

LEMMA SameProcs ==
    ASSUME IndInv, procs' = procs
    PROVE  ProcsQuiet(0)
  <1>1. procs \in Seq(Proc) /\ 0 \notin ProcIds
    BY DEF IndInv, Types, ProcIds
  <1> QED BY <1>1 DEF ProcsQuiet

\* One user moves on with its reference.
LEMMA UserMoves ==
    ASSUME IndInv, NEW u \in Users, NEW q \in User, users' = [users EXCEPT ![u] = q], NEW x,
           q.slot = users[u].slot, q.pc # "idle", users[u].pc # "idle",
           users[u].pc = "start" /\ users[u].proc \notin {0, x} =>
             q.pc = "start" /\ q.proc = users[u].proc
    PROVE  /\ UsersQuiet(x) /\ users' \in [Users -> User] /\ users'[u] = q
           /\ \A v \in Users \ {u} : users'[v] = users[v]
  <1>1. users \in [Users -> User]
    BY DEF IndInv, Types
  <1>2. /\ users' \in [Users -> User] /\ users'[u] = q
        /\ \A v \in Users \ {u} : users'[v] = users[v]
    BY <1>1
  <1> QED BY <1>2 DEF UsersQuiet

\* Without a process stopped the others keep what they have, if only unused
\* slots are dropped.
LEMMA QuietOthers ==
    ASSUME IndInv, NEW S \in SUBSET Users, procs' = procs, \A v \in S : users'[v] = users[v],
           \A k \in Keys : agents'[k] # agents[k] => agents[k] \in SlotIds /\ slots[agents[k]].refs = 0
    PROVE  KeptUsers(S)
  <1> SUFFICES ASSUME NEW v \in S
               PROVE  /\ users[v].pc # "idle" => agents'[setting.keyOf[v]] = agents[setting.keyOf[v]]
                      /\ users[v].pc = "using" => procs[users[v].proc].why # "idle"
    BY DEF KeptUsers
  <1>1. UserOK(v) /\ setting.keyOf[v] \in Keys
    BY PoolAssumption DEF IndInv, Types, Setting
  <1> QED BY <1>1, UnusedSlot DEF UserOK

\* client.Close of the agent of a slot: if it is for being idle, nobody uses it.
LEMMA UsersAfterClose ==
    ASSUME IndInv, NEW S \in SUBSET Users, NEW s \in SlotIds, slots[s].agent # 0, agents' = agents,
           NEW why \in {"exited", "idle", "stopped", "closed"}, procs' = CloseOf(slots[s].agent, why),
           why = "idle" => slots[s].refs = 0, \A v \in S : users'[v] = users[v]
    PROVE  /\ KeptUsers(S) /\ ProcsQuiet(slots[s].agent) /\ procs' \in Seq(Proc)
           /\ Len(procs') <= MaxProcs /\ slots[s].agent \in ProcIds
           /\ procs'[slots[s].agent].state \in {"closing", "gone"}
  <1> DEFINE x == slots[s].agent
  <1>1. /\ x \in ProcIds /\ procs[x].key = slots[s].key /\ procs[x].state # "starting"
        /\ agents[slots[s].key] = s
    BY DEF IndInv, SlotOK
  <1>2. /\ procs'[x].why = IF procs[x].why = "none" THEN why ELSE procs[x].why
        /\ \A q \in ProcIds \ {x} : procs'[q] = procs[q]
        /\ procs'[x].key = procs[x].key /\ procs'[x].state \in {"closing", "gone"}
        /\ procs' \in Seq(Proc) /\ Len(procs') = Len(procs) /\ Len(procs) <= MaxProcs
    BY <1>1, CloseOfProc DEF IndInv, Types
  <1>3. ASSUME NEW v \in S, users[v].pc = "start", users[v].proc # 0
        PROVE  procs'[users[v].proc] = procs[users[v].proc]
    <2>1. users[v].proc \in ProcIds /\ procs[users[v].proc].state = "starting"
      BY <1>3 DEF IndInv, UserOK
    <2> QED BY <1>1, <1>2, <2>1
  <1>4. ASSUME NEW v \in S, users[v].pc = "using"
        PROVE  procs'[users[v].proc].why # "idle"
    <2>1. /\ users[v].proc \in ProcIds /\ procs[users[v].proc].key = setting.keyOf[v]
          /\ procs[users[v].proc].why # "idle" /\ agents[setting.keyOf[v]] = users[v].slot
      BY <1>4 DEF IndInv, UserOK
    <2>2. why = "idle" => users[v].slot # s
      BY <1>4, UnusedSlot
    <2> QED BY <1>1, <1>2, <2>1, <2>2
  <1>5. ProcsQuiet(x)
    BY <1>2 DEF ProcsQuiet
  <1> QED BY <1>1, <1>2, <1>3, <1>4, <1>5 DEF KeptUsers
-----------------------------------------------------------------------------
(***************************************************************************)
(* ensureAgent, makeRoom and startAgent.                                   *)
(***************************************************************************)
LEMMA QuietUserStep ==
    ASSUME IndInv, setting' = setting, NEW u \in Users, NEW x,
           SlotsQuiet(ByUser(u), x), ProcsQuiet(x), AgentsQuiet, UsersQuiet(x),
           UNCHANGED <<stopper, idler, closer>>, KeptUsers(Users \ {u}),
           agents' \in [Keys -> 0..MaxSlots], users' \in [Users -> User], UserOK(u)'
    PROVE  Kept(ByUser(u))
  <1>1. Grows /\ Respects(ByUser(u)) /\ StateKept
    BY QuietStep
  <1>2. Types'
    BY DEF IndInv, Types, SlotsQuiet, ProcsQuiet
  <1> QED BY <1>1, <1>2, UserStep

\* What a user with a slot has.
LEMMA UserHas ==
    ASSUME IndInv, NEW u \in Users, users[u].pc # "idle"
    PROVE  /\ users[u] \in User /\ UserOK(u) /\ setting.keyOf[u] \in Keys
           /\ users[u].slot \in SlotIds /\ slots[users[u].slot] \in Slot
           /\ agents \in [Keys -> 0..MaxSlots]
  <1>1. /\ users[u] \in User /\ UserOK(u) /\ setting.keyOf[u] \in Keys
        /\ slots \in Seq(Slot) /\ agents \in [Keys -> 0..MaxSlots]
    BY PoolAssumption DEF IndInv, Types, Setting
  <1>2. users[u].slot \in SlotIds
    BY <1>1 DEF UserOK
  <1> QED BY <1>1, <1>2 DEF SlotIds

\* Zero stands for no slot and no process.
LEMMA ZeroAllowed == 0 \in 0..MaxSlots /\ 0 \in 0..MaxProcs
  BY PoolAssumption

LEMMA EnsureKeeps ==
    ASSUME IndInv, setting' = setting, NEW u \in Users, ensureAgent(u)
    PROVE  Kept(ByUser(u))
  <1> DEFINE s == users[u].slot
             r == [slots[s] EXCEPT !.startMu = ByUser(u)]
             q == [users[u] EXCEPT !.pc = "look"]
  <1>1. /\ users[u].pc = "ensure" /\ slots[s].startMu = None
        /\ slots' = [slots EXCEPT ![s] = r] /\ users' = [users EXCEPT ![u] = q]
        /\ UNCHANGED <<agents, procs, stopper, idler, closer>>
    BY DEF ensureAgent, Lock, UserGoto
  <1>2. /\ users[u] \in User /\ UserOK(u) /\ s \in SlotIds /\ slots[s] \in Slot
        /\ agents \in [Keys -> 0..MaxSlots]
    BY <1>1, UserHas
  <1>3. /\ r \in Slot /\ r.key = slots[s].key /\ r.refs = slots[s].refs /\ r.agent = slots[s].agent
        /\ r.startMu = ByUser(u)
    BY <1>2 DEF Slot, Owner
  <1>4. /\ q \in User /\ q.pc = "look" /\ q.slot = s /\ q.proc = users[u].proc
    BY <1>2 DEF User
  <1> HIDE DEF r, q
  <1>5. /\ SlotsQuiet(ByUser(u), 0) /\ slots'[s] = r /\ SlotIds' = SlotIds
    <2>1. Turns(ByUser(u), 0, s, r)
      BY <1>1, <1>2, <1>3 DEF Turns
    <2> QED BY <2>1, OneSlot
  <1>6. ProcsQuiet(0) /\ AgentsQuiet
    BY <1>1, SameProcs DEF AgentsQuiet
  <1>7. /\ UsersQuiet(0) /\ users' \in [Users -> User] /\ users'[u] = q
        /\ \A v \in Users \ {u} : users'[v] = users[v]
    BY <1>1, <1>4, UserMoves
  <1>8. KeptUsers(Users \ {u})
    BY <1>1, <1>7, QuietOthers
  <1>9. UserOK(u)'
    BY <1>1, <1>2, <1>3, <1>4, <1>5, <1>7 DEF UserOK
  <1> QED BY <1>1, <1>2, <1>5, <1>6, <1>7, <1>8, <1>9, QuietUserStep

LEMMA LookKeeps ==
    ASSUME IndInv, setting' = setting, NEW u \in Users, LookAtAgent(u)
    PROVE  Kept(ByUser(u))
  <1> DEFINE s == users[u].slot
             p == slots[s].agent
  <1>1. users[u].pc = "look" /\ UNCHANGED <<agents, stopper, idler, closer>>
    BY DEF LookAtAgent
  <1>2. /\ users[u] \in User /\ UserOK(u) /\ s \in SlotIds /\ slots[s] \in Slot
        /\ agents \in [Keys -> 0..MaxSlots] /\ setting.keyOf[u] \in Keys
    BY <1>1, UserHas
  <1>3. slots[s].startMu = ByUser(u) /\ users[u].proc = 0
    BY <1>1, <1>2 DEF UserOK
  <1>4. AgentsQuiet
    BY <1>1 DEF AgentsQuiet
  <1>5. CASE p = 0
    <2> DEFINE q == [users[u] EXCEPT !.pc = "room"]
    <2>1. slots' = slots /\ procs' = procs /\ users' = [users EXCEPT ![u] = q]
      BY <1>5 DEF LookAtAgent, UserGoto
    <2>2. q \in User /\ q.pc = "room" /\ q.slot = s /\ q.proc = users[u].proc
      BY <1>2 DEF User
    <2> HIDE DEF q
    <2>3. /\ UsersQuiet(0) /\ users' \in [Users -> User] /\ users'[u] = q
          /\ \A v \in Users \ {u} : users'[v] = users[v]
      BY <1>1, <2>1, <2>2, UserMoves
    <2>4. SlotsQuiet(ByUser(u), 0) /\ ProcsQuiet(0)
      BY <2>1, SameSlots, SameProcs
    <2>5. KeptUsers(Users \ {u})
      BY <1>1, <2>1, <2>3, QuietOthers
    <2>6. UserOK(u)'
      BY <1>1, <1>2, <1>3, <1>5, <2>1, <2>2, <2>3 DEF UserOK, SlotIds
    <2> QED BY <1>1, <1>2, <1>4, <2>3, <2>4, <2>5, <2>6, QuietUserStep
  <1>6. CASE p # 0 /\ procs[p].state = "running"
    <2> DEFINE r == [slots[s] EXCEPT !.startMu = None]
               q == [users[u] EXCEPT !.pc = "using", !.proc = p]
    <2>1. procs' = procs /\ slots' = [slots EXCEPT ![s] = r] /\ users' = [users EXCEPT ![u] = q]
      BY <1>6 DEF LookAtAgent
    <2>2. /\ r \in Slot /\ r.key = slots[s].key /\ r.refs = slots[s].refs /\ r.agent = slots[s].agent
      BY <1>2 DEF Slot, Owner
    <2>3. q \in User /\ q.pc = "using" /\ q.slot = s /\ q.proc = p
      BY <1>2 DEF User, Slot
    <2> HIDE DEF r, q
    <2>4. /\ UsersQuiet(0) /\ users' \in [Users -> User] /\ users'[u] = q
          /\ \A v \in Users \ {u} : users'[v] = users[v]
      BY <1>1, <2>1, <2>3, UserMoves
    <2>5. SlotsQuiet(ByUser(u), 0) /\ SlotIds' = SlotIds /\ slots'[s] = r
      <3>1. Turns(ByUser(u), 0, s, r)
        BY <1>2, <1>3, <2>1, <2>2 DEF Turns
      <3> QED BY <3>1, OneSlot
    <2>6. ProcsQuiet(0) /\ KeptUsers(Users \ {u})
      BY <1>1, <2>1, <2>4, SameProcs, QuietOthers
    <2>7. /\ p \in ProcIds /\ procs[p].key = setting.keyOf[u] /\ procs[p].why = "none"
      <3>1. p \in ProcIds /\ procs[p].key = slots[s].key
        BY <1>2, <1>6 DEF IndInv, SlotOK
      <3>2. procs[p].why = "none"
        BY <1>6, <3>1 DEF IndInv, ProcOK, Live
      <3> QED BY <1>1, <1>2, <3>1, <3>2 DEF UserOK
    <2>8. UserOK(u)'
      BY <1>1, <1>2, <2>1, <2>2, <2>3, <2>4, <2>5, <2>7 DEF UserOK, ProcIds
    <2> QED BY <1>1, <1>2, <1>4, <2>4, <2>5, <2>6, <2>8, QuietUserStep
  <1>7. CASE p # 0 /\ procs[p].state # "running"
    <2> DEFINE q == [users[u] EXCEPT !.pc = "closing", !.proc = p]
    <2>1. slots' = slots /\ procs' = CloseOf(p, "exited") /\ users' = [users EXCEPT ![u] = q]
      BY <1>7 DEF LookAtAgent
    <2>2. q \in User /\ q.pc = "closing" /\ q.slot = s /\ q.proc = p
      BY <1>2 DEF User, Slot
    <2> HIDE DEF q
    <2>3. /\ UsersQuiet(p) /\ users' \in [Users -> User] /\ users'[u] = q
          /\ \A v \in Users \ {u} : users'[v] = users[v]
      BY <1>1, <2>1, <2>2, UserMoves
    <2>4. SlotsQuiet(ByUser(u), p)
      BY <2>1, SameSlots
    <2>5. /\ KeptUsers(Users \ {u}) /\ ProcsQuiet(p) /\ p \in ProcIds
          /\ procs'[p].state \in {"closing", "gone"}
      BY ZenonT(60), <1>1, <1>2, <1>7, <2>1, <2>3, UsersAfterClose
    <2>6. UserOK(u)'
      BY <1>1, <1>2, <1>3, <2>1, <2>2, <2>3, <2>5 DEF UserOK, SlotIds, ProcIds, ProcsQuiet
    <2> QED BY <1>1, <1>2, <1>4, <2>3, <2>4, <2>5, <2>6, QuietUserStep
  <1> QED BY <1>5, <1>6, <1>7

LEMMA ExitedIsClosedKeeps ==
    ASSUME IndInv, setting' = setting, NEW u \in Users, ExitedIsClosed(u)
    PROVE  Kept(ByUser(u))
  <1> DEFINE s == users[u].slot
             r == [slots[s] EXCEPT !.agent = 0]
             q == [users[u] EXCEPT !.pc = "room", !.proc = 0]
  <1>0. PICK x : x = slots[s].agent
    OBVIOUS
  <1>1. /\ users[u].pc = "closing" /\ Gone(users[u].proc) /\ procs' = procs
        /\ slots' = [slots EXCEPT ![s] = r] /\ users' = [users EXCEPT ![u] = q]
        /\ UNCHANGED <<agents, stopper, idler, closer>>
    BY DEF ExitedIsClosed
  <1>2. /\ users[u] \in User /\ UserOK(u) /\ s \in SlotIds /\ slots[s] \in Slot
        /\ agents \in [Keys -> 0..MaxSlots]
    BY <1>1, UserHas
  <1>3. slots[s].startMu = ByUser(u) /\ x = users[u].proc /\ x \in ProcIds
    BY <1>0, <1>1, <1>2 DEF UserOK
  <1>4. /\ r \in Slot /\ r.key = slots[s].key /\ r.refs = slots[s].refs /\ r.agent = 0
        /\ r.startMu = ByUser(u)
    BY <1>2, <1>3, ZeroAllowed DEF Slot
  <1>5. q \in User /\ q.pc = "room" /\ q.slot = s /\ q.proc = 0
    BY <1>2, ZeroAllowed DEF User
  <1> HIDE DEF r, q
  <1>6. /\ SlotsQuiet(ByUser(u), x) /\ slots'[s] = r /\ SlotIds' = SlotIds
    <2>1. Turns(ByUser(u), x, s, r)
      BY <1>0, <1>1, <1>2, <1>3, <1>4 DEF Turns
    <2> QED BY <2>1, OneSlot
  <1>7. ProcsQuiet(x)
    <2>1. procs[x].state = "gone" /\ procs \in Seq(Proc)
      BY <1>1, <1>3 DEF Gone, IndInv, Types
    <2> QED BY <1>1, <2>1 DEF ProcsQuiet
  <1>8. /\ UsersQuiet(x) /\ users' \in [Users -> User] /\ users'[u] = q
        /\ \A v \in Users \ {u} : users'[v] = users[v]
    BY <1>1, <1>5, UserMoves
  <1>9. KeptUsers(Users \ {u}) /\ AgentsQuiet
    BY <1>1, <1>8, QuietOthers DEF AgentsQuiet
  <1>10. UserOK(u)'
    BY <1>1, <1>2, <1>3, <1>4, <1>5, <1>6, <1>8 DEF UserOK
  <1> QED BY <1>1, <1>2, <1>6, <1>7, <1>8, <1>9, <1>10, QuietUserStep
\* ensureAgent fails: nothing is left to the user but its reference.
UserFails(u) == users' = [users EXCEPT ![u] = [@ EXCEPT !.pc = "failed", !.victim = 0]]

LEMMA FailKeeps ==
    ASSUME IndInv, setting' = setting, NEW u \in Users, NEW x,
           users[u].pc \in {"room", "evict", "start"},
           users[u].pc = "start" => users[u].proc \in {0, x},
           UserFails(u),
           SlotsQuiet(ByUser(u), x), ProcsQuiet(x), UNCHANGED <<agents, stopper, idler, closer>>,
           (\A v \in Users \ {u} : users'[v] = users[v]) => KeptUsers(Users \ {u})
    PROVE  Kept(ByUser(u))
  <1> DEFINE q == [users[u] EXCEPT !.pc = "failed", !.victim = 0]
  <1>1. /\ users[u] \in User /\ UserOK(u) /\ users[u].slot \in SlotIds
        /\ agents \in [Keys -> 0..MaxSlots]
    BY UserHas
  <1>2. q \in User /\ q.pc = "failed" /\ q.slot = users[u].slot
    BY <1>1, ZeroAllowed DEF User
  <1>3. users' = [users EXCEPT ![u] = q]
    BY DEF UserFails
  <1> HIDE DEF q
  <1>4. /\ UsersQuiet(x) /\ users' \in [Users -> User] /\ users'[u] = q
        /\ \A v \in Users \ {u} : users'[v] = users[v]
    BY <1>2, <1>3, UserMoves
  <1>5. AgentsQuiet
    BY DEF AgentsQuiet
  <1>6. UserOK(u)'
    <2>1. users'[u].pc = "failed" /\ users'[u].slot = users[u].slot
      BY <1>2, <1>4
    <2>2. /\ users[u].slot \in SlotIds' /\ slots'[users[u].slot].key = slots[users[u].slot].key
      BY <1>1 DEF SlotsQuiet, SlotIds
    <2> QED BY <1>1, <2>1, <2>2 DEF UserOK
  <1> QED BY <1>1, <1>4, <1>5, <1>6, QuietUserStep

LEMMA MakeRoomKeeps ==
    ASSUME IndInv, setting' = setting, NEW u \in Users, makeRoom(u)
    PROVE  Kept(ByUser(u))
  <1> DEFINE s == users[u].slot
  <1>1. users[u].pc = "room" /\ UNCHANGED <<agents, procs, stopper, idler, closer>>
    BY DEF makeRoom
  <1>2. /\ users[u] \in User /\ UserOK(u) /\ s \in SlotIds /\ slots[s] \in Slot
        /\ agents \in [Keys -> 0..MaxSlots] /\ slots \in Seq(Slot)
    BY <1>1, UserHas DEF IndInv, Types
  <1>3. slots[s].startMu = ByUser(u) /\ slots[s].agent = 0 /\ users[u].proc = 0
    BY <1>1, <1>2 DEF UserOK
  <1>4. ProcsQuiet(0) /\ AgentsQuiet
    BY <1>1, SameProcs DEF AgentsQuiet
  <1>5. CASE Fail(u, slots)
    <2> DEFINE r == [slots[s] EXCEPT !.startMu = None]
    <2>1. /\ slots' = [slots EXCEPT ![s] = r]
          /\ UserFails(u)
      BY <1>5 DEF Fail, UserFails
    <2>2. /\ r \in Slot /\ r.key = slots[s].key /\ r.refs = slots[s].refs /\ r.agent = slots[s].agent
      BY <1>2 DEF Slot, Owner
    <2> HIDE DEF r
    <2>3. SlotsQuiet(ByUser(u), 0)
      <3>1. Turns(ByUser(u), 0, s, r)
        BY <1>2, <1>3, <2>1, <2>2 DEF Turns
      <3> QED BY <3>1, OneSlot
    <2>4. (\A v \in Users \ {u} : users'[v] = users[v]) => KeptUsers(Users \ {u})
      BY <1>1, QuietOthers
    <2> QED BY <1>1, <1>4, <2>1, <2>3, <2>4, FailKeeps
  <1>6. CASE UserGoto(u, "start") /\ slots' = slots
    <2> DEFINE q == [users[u] EXCEPT !.pc = "start"]
    <2>1. q \in User /\ q.pc = "start" /\ q.slot = s /\ q.proc = 0 /\ users' = [users EXCEPT ![u] = q]
      BY <1>2, <1>3, <1>6 DEF User, UserGoto
    <2> HIDE DEF q
    <2>2. /\ UsersQuiet(0) /\ users' \in [Users -> User] /\ users'[u] = q
          /\ \A v \in Users \ {u} : users'[v] = users[v]
      BY <1>1, <2>1, UserMoves
    <2>3. SlotsQuiet(ByUser(u), 0) /\ KeptUsers(Users \ {u})
      BY <1>1, <1>6, <2>2, SameSlots, QuietOthers
    <2>4. UserOK(u)'
      BY <1>1, <1>2, <1>3, <1>6, <2>1, <2>2 DEF UserOK, SlotIds
    <2> QED BY <1>1, <1>2, <1>4, <2>2, <2>3, <2>4, QuietUserStep
  <1>7. ASSUME NEW v \in Others(u), Lock(v, ByUser(u)),
               users' = [users EXCEPT ![u] = [@ EXCEPT !.pc = "evict", !.victim = v]]
        PROVE  Kept(ByUser(u))
    <2> DEFINE r == [slots[v] EXCEPT !.startMu = ByUser(u)]
               q == [users[u] EXCEPT !.pc = "evict", !.victim = v]
    <2>1. /\ v \in SlotIds /\ v # s /\ slots[v] \in Slot /\ v \in 0..MaxSlots
          /\ slots[v].startMu = None /\ slots' = [slots EXCEPT ![v] = r]
      <3>1. v \in SlotIds /\ v # s /\ Len(slots) <= MaxSlots /\ Len(slots) \in Nat
        BY <1>2, <1>7 DEF Others, IndInv, Types
      <3> QED BY <1>2, <1>7, <3>1, PoolAssumption DEF Lock, SlotIds
    <2>2. /\ r \in Slot /\ r.key = slots[v].key /\ r.refs = slots[v].refs /\ r.agent = slots[v].agent
          /\ r.startMu = ByUser(u)
      BY <2>1 DEF Slot, Owner
    <2>3. q \in User /\ q.pc = "evict" /\ q.slot = s /\ q.victim = v /\ users' = [users EXCEPT ![u] = q]
      BY <1>2, <1>7, <2>1 DEF User
    <2> HIDE DEF r, q
    <2>4. SlotsQuiet(ByUser(u), 0) /\ slots'[v] = r /\ SlotIds' = SlotIds /\ slots'[s] = slots[s]
      <3>1. Turns(ByUser(u), 0, v, r)
        BY <2>1, <2>2 DEF Turns
      <3> QED BY <1>2, <2>1, <3>1, OneSlot
    <2>5. /\ UsersQuiet(0) /\ users' \in [Users -> User] /\ users'[u] = q
          /\ \A w \in Users \ {u} : users'[w] = users[w]
      BY <1>1, <2>3, UserMoves
    <2>6. KeptUsers(Users \ {u})
      BY <1>1, <2>5, QuietOthers
    <2>7. UserOK(u)'
      BY <1>1, <1>2, <1>3, <2>1, <2>2, <2>3, <2>4, <2>5 DEF UserOK
    <2> QED BY <1>1, <1>2, <1>4, <2>4, <2>5, <2>6, <2>7, QuietUserStep
  <1>8. \/ Fail(u, slots) \/ (UserGoto(u, "start") /\ slots' = slots)
        \/ \E v \in Others(u) : /\ Lock(v, ByUser(u))
                                /\ users' = [users EXCEPT ![u] = [@ EXCEPT !.pc = "evict", !.victim = v]]
    BY DEF makeRoom
  <1> QED BY <1>5, <1>6, <1>7, <1>8

\* An empty unused slot is dropped.
LEMMA Dropped ==
    ASSUME IndInv, NEW v \in SlotIds,
           agents' = IF slots[v].refs = 0 /\ slots[v].agent = 0 THEN dropSlot(v) ELSE agents
    PROVE  /\ agents' \in [Keys -> 0..MaxSlots] /\ AgentsQuiet
           /\ \A k \in Keys : agents'[k] # agents[k] => agents[k] = v /\ slots[v].refs = 0
  <1>1. agents \in [Keys -> 0..MaxSlots]
    BY DEF IndInv, Types
  <1>2. agents' = [k \in Keys |-> IF slots[v].refs = 0 /\ slots[v].agent = 0 /\ k = slots[v].key
                                       /\ agents[k] = v THEN 0 ELSE agents[k]]
    BY <1>1 DEF dropSlot
  <1>3. agents' \in [Keys -> 0..MaxSlots]
    BY <1>1, <1>2, ZeroAllowed
  <1>4. \A k \in Keys : agents'[k] # agents[k] =>
          agents'[k] = 0 /\ agents[k] = v /\ slots[v].refs = 0 /\ slots[v].agent = 0
    BY <1>2
  <1> QED BY <1>3, <1>4 DEF AgentsQuiet

LEMMA EvictBeginsKeeps ==
    ASSUME IndInv, setting' = setting, NEW u \in Users, EvictBegins(u)
    PROVE  Kept(ByUser(u))
  <1> DEFINE s == users[u].slot
             v == users[u].victim
  <1>1. users[u].pc = "evict" /\ UNCHANGED <<agents, stopper, idler, closer>>
    BY DEF EvictBegins
  <1>2. /\ users[u] \in User /\ UserOK(u) /\ s \in SlotIds /\ slots[s] \in Slot
        /\ agents \in [Keys -> 0..MaxSlots] /\ slots \in Seq(Slot)
    BY <1>1, UserHas DEF IndInv, Types
  <1>3. /\ slots[s].startMu = ByUser(u) /\ slots[s].agent = 0
        /\ v \in SlotIds /\ v # s /\ slots[v].startMu = ByUser(u)
    BY <1>1, <1>2 DEF UserOK
  <1>4. slots[v] \in Slot
    BY <1>2, <1>3 DEF SlotIds
  <1>5. CASE CanStop(v)
    <2> DEFINE r == [slots[v] EXCEPT !.agent = 0]
               q == [users[u] EXCEPT !.proc = slots[v].agent]
    <2>0. PICK x : x = slots[v].agent
      OBVIOUS
    <2>1. /\ slots[v].refs = 0 /\ slots[v].agent # 0 /\ procs' = CloseOf(slots[v].agent, "idle")
          /\ slots' = [slots EXCEPT ![v] = r] /\ users' = [users EXCEPT ![u] = q]
      BY <1>5 DEF CanStop, EvictBegins
    <2>2. /\ r \in Slot /\ r.key = slots[v].key /\ r.refs = slots[v].refs /\ r.agent = 0
          /\ r.startMu = slots[v].startMu
      BY <1>4, ZeroAllowed DEF Slot
    <2>3. q \in User /\ q.pc = "evict" /\ q.slot = s /\ q.victim = v
      BY <1>1, <1>2, <1>4 DEF User, Slot
    <2> HIDE DEF r, q
    <2>4. /\ SlotsQuiet(ByUser(u), x) /\ slots'[v] = r /\ SlotIds' = SlotIds
          /\ slots'[s] = slots[s]
      <3>1. Turns(ByUser(u), x, v, r)
        BY <1>3, <2>0, <2>1, <2>2 DEF Turns
      <3> QED BY <1>2, <1>3, <3>1, OneSlot
    <2>5. /\ UsersQuiet(x) /\ users' \in [Users -> User] /\ users'[u] = q
          /\ \A w \in Users \ {u} : users'[w] = users[w]
      BY <1>1, <2>1, <2>3, UserMoves
    <2>6. KeptUsers(Users \ {u}) /\ ProcsQuiet(x)
      BY <1>1, <1>3, <2>0, <2>1, <2>5, UsersAfterClose
    <2>7. UserOK(u)'
      BY <1>1, <1>2, <1>3, <2>2, <2>3, <2>4, <2>5 DEF UserOK
    <2>8. AgentsQuiet
      BY <1>1 DEF AgentsQuiet
    <2> QED BY <1>1, <1>2, <2>4, <2>5, <2>6, <2>7, <2>8, QuietUserStep
  <1>6. CASE ~CanStop(v)
    <2> DEFINE r == [slots[v] EXCEPT !.startMu = None]
               n == [slots[s] EXCEPT !.startMu = None]
               ss == [slots EXCEPT ![v] = r]
    <2>1. /\ procs' = procs /\ slots' = [ss EXCEPT ![s].startMu = None]
          /\ UserFails(u)
      BY <1>6 DEF EvictBegins, Fail, UserFails
    <2>2. /\ r \in Slot /\ r.key = slots[v].key /\ r.refs = slots[v].refs /\ r.agent = slots[v].agent
          /\ n \in Slot /\ n.key = slots[s].key /\ n.refs = slots[s].refs /\ n.agent = slots[s].agent
      BY <1>2, <1>4 DEF Slot, Owner
    <2>3. ss \in Seq(Slot) /\ Len(ss) = Len(slots) /\ ss[s] = slots[s]
      BY <1>2, <1>3, <2>2 DEF SlotIds
    <2>4. slots' = [ss EXCEPT ![s] = n]
      BY <2>1, <2>3
    <2> HIDE DEF r, n
    <2>5. /\ slots' \in Seq(Slot) /\ Len(slots') = Len(slots) /\ slots'[s] = n /\ slots'[v] = r
          /\ \A t \in SlotIds : t # s /\ t # v => slots'[t] = slots[t]
      BY <1>2, <1>3, <2>2, <2>3, <2>4 DEF SlotIds
    <2>6. SlotsQuiet(ByUser(u), 0)
      <3> SUFFICES ASSUME NEW t \in SlotIds
                   PROVE  /\ slots'[t].key = slots[t].key /\ slots'[t].refs = slots[t].refs
                          /\ slots'[t].agent = slots[t].agent
                          /\ slots[t].startMu \notin {None, ByUser(u)} =>
                               slots'[t].startMu = slots[t].startMu
        BY <2>5 DEF SlotsQuiet
      <3> QED BY <1>3, <2>2, <2>5
    <2>7. (\A w \in Users \ {u} : users'[w] = users[w]) => KeptUsers(Users \ {u})
      BY <1>1, <2>1, QuietOthers
    <2>8. ProcsQuiet(0)
      BY <2>1, SameProcs
    <2> QED BY <1>1, <2>1, <2>6, <2>7, <2>8, FailKeeps
  <1> QED BY <1>5, <1>6

LEMMA EvictEndsKeeps ==
    ASSUME IndInv, setting' = setting, NEW u \in Users, EvictEnds(u)
    PROVE  Kept(ByUser(u))
  <1> DEFINE s == users[u].slot
             v == users[u].victim
             r == [slots[v] EXCEPT !.startMu = None]
             q == [users[u] EXCEPT !.pc = "start", !.proc = 0, !.victim = 0]
  <1>1. /\ users[u].pc = "evict" /\ UNCHANGED <<procs, stopper, idler, closer>>
        /\ slots' = [slots EXCEPT ![v] = r] /\ users' = [users EXCEPT ![u] = q]
        /\ agents' = IF slots[v].refs = 0 /\ slots[v].agent = 0 THEN dropSlot(v) ELSE agents
    BY DEF EvictEnds
  <1>2. /\ users[u] \in User /\ UserOK(u) /\ s \in SlotIds /\ slots[s] \in Slot
        /\ slots \in Seq(Slot) /\ setting.keyOf[u] \in Keys
    BY <1>1, UserHas DEF IndInv, Types
  <1>3. /\ slots[s].startMu = ByUser(u) /\ slots[s].agent = 0
        /\ v \in SlotIds /\ v # s /\ slots[v].startMu = ByUser(u)
    BY <1>1, <1>2 DEF UserOK
  <1>4. slots[v] \in Slot
    BY <1>2, <1>3 DEF SlotIds
  <1>5. /\ r \in Slot /\ r.key = slots[v].key /\ r.refs = slots[v].refs /\ r.agent = slots[v].agent
    BY <1>4 DEF Slot, Owner
  <1>6. q \in User /\ q.pc = "start" /\ q.slot = s /\ q.proc = 0
    BY <1>2, ZeroAllowed DEF User
  <1>7. /\ agents' \in [Keys -> 0..MaxSlots] /\ AgentsQuiet
        /\ \A k \in Keys : agents'[k] # agents[k] => agents[k] = v /\ slots[v].refs = 0
    BY <1>1, <1>3, Dropped
  <1> HIDE DEF r, q
  <1>8. SlotsQuiet(ByUser(u), 0) /\ SlotIds' = SlotIds /\ slots'[s] = slots[s]
    <2>1. Turns(ByUser(u), 0, v, r)
      BY <1>1, <1>3, <1>5 DEF Turns
    <2> QED BY <1>2, <1>3, <2>1, OneSlot
  <1>9. /\ UsersQuiet(0) /\ users' \in [Users -> User] /\ users'[u] = q
        /\ \A w \in Users \ {u} : users'[w] = users[w]
    BY <1>1, <1>6, UserMoves
  <1>10. KeptUsers(Users \ {u}) /\ ProcsQuiet(0)
    BY <1>1, <1>3, <1>7, <1>9, QuietOthers, SameProcs
  <1>11. UserOK(u)'
    BY <1>1, <1>2, <1>3, <1>6, <1>7, <1>8, <1>9 DEF UserOK
  <1> QED BY <1>1, <1>7, <1>8, <1>9, <1>10, <1>11, QuietUserStep
\* A process that starts is started by one user.
LEMMA StartsOwn ==
    ASSUME IndInv, NEW u \in Users, NEW v \in Users, u # v,
           users[u].pc = "start", users[u].proc # 0, users[v].pc = "start", users[v].proc # 0
    PROVE  users[v].proc # users[u].proc
  <1>1. /\ UserOK(u) /\ UserOK(v)
    BY DEF IndInv
  <1> SUFFICES ASSUME users[v].proc = users[u].proc PROVE FALSE
    OBVIOUS
  <1>2. setting.keyOf[u] = setting.keyOf[v]
    BY <1>1 DEF UserOK
  <1>3. ByUser(u) = ByUser(v)
    BY <1>1, <1>2 DEF UserOK
  <1> QED BY <1>3 DEF ByUser

LEMMA StartBeginsKeeps ==
    ASSUME IndInv, setting' = setting, NEW u \in Users, StartBegins(u)
    PROVE  Kept(ByUser(u))
  <1> DEFINE s == users[u].slot
             r == [key |-> setting.keyOf[u], state |-> "starting", why |-> "none"]
  <1>0. PICK n : n = Len(procs) + 1
    OBVIOUS
  <1> DEFINE q == [users[u] EXCEPT !.proc = n]
  <1>1. /\ users[u].pc = "start" /\ users[u].proc = 0 /\ Len(procs) < MaxProcs
        /\ procs' = Append(procs, r) /\ users' = [users EXCEPT ![u] = q]
        /\ UNCHANGED <<agents, slots, stopper, idler, closer>>
    BY <1>0 DEF StartBegins
  <1>2. /\ users[u] \in User /\ UserOK(u) /\ s \in SlotIds /\ setting.keyOf[u] \in Keys
        /\ Types /\ procs \in Seq(Proc) /\ MaxProcs \in Nat
    BY <1>1, UserHas, PoolAssumption DEF IndInv, Types
  <1>3. r \in Proc /\ r.key = setting.keyOf[u] /\ r.state = "starting" /\ r.why = "none"
    BY <1>2 DEF Proc
  <1> HIDE DEF r
  <1>4. /\ procs' \in Seq(Proc) /\ Len(procs') = n /\ procs'[n] = r /\ n \in Nat
        /\ \A p \in ProcIds : procs'[p] = procs[p]
        /\ ProcIds' = ProcIds \cup {n} /\ n \notin ProcIds /\ n \in 0..MaxProcs /\ n # 0
    BY <1>0, <1>1, <1>2, <1>3 DEF ProcIds
  <1>5. q \in User /\ q.pc = "start" /\ q.slot = s /\ q.proc = n
    BY <1>1, <1>2, <1>4 DEF User
  <1> HIDE DEF q
  <1>6. /\ users' \in [Users -> User] /\ users'[u] = q
        /\ \A v \in Users \ {u} : users'[v] = users[v]
    BY <1>1, <1>2, <1>5 DEF Types
  <1>7. Grows
    <2>1. Len(procs') \in Nat /\ Len(procs) <= Len(procs') /\ Len(slots) \in Nat
      BY <1>0, <1>2, <1>4 DEF Types
    <2>2. \A p \in ProcIds : procs'[p] = procs[p]
      BY <1>4
    <2>3. slots' = slots
      BY <1>1
    <2> QED BY <2>1, <2>2, <2>3 DEF Grows
  <1>8. Respects(ByUser(u))
    BY <1>1 DEF Respects
  <1>9. Types'
    BY <1>1, <1>2, <1>4, <1>6 DEF Types
  <1>10. SlotIds' = SlotIds
    BY <1>1 DEF SlotIds
  <1>11. StateKept
    <2>1. MapOK'
      BY <1>1, <1>7, MapKept
    <2>2. RefsOK'
      <3>1. \A v \in Users : (users'[v].pc # "idle" <=> users[v].pc # "idle")
                              /\ users'[v].slot = users[v].slot
        BY <1>1, <1>5, <1>6
      <3> QED BY <1>1, <1>10, <3>1, RefsKept DEF IndInv
    <2>3. \A t \in SlotIds' : SlotOK(t)'
      BY <1>1, <1>4, <1>7, <1>10, SlotKept
    <2>4. \A p \in ProcIds' : ProcOK(p)'
      <3>1. ASSUME NEW p \in ProcIds PROVE ProcOK(p)'
        <4>1. procs'[p] = procs[p] /\ p # 0
          BY <1>4 DEF ProcIds
        <4>2. \A v \in Users : users[v].pc = "start" /\ users[v].proc = p =>
                users'[v].pc = "start" /\ users'[v].proc = p
          BY <1>1, <1>6, <4>1
        <4> QED BY <1>1, <4>1, <4>2, ProcKept
      <3>2. ProcOK(n)'
        BY <1>3, <1>4, <1>5, <1>6 DEF ProcOK
      <3> QED BY <1>4, <3>1, <3>2
    <2> QED BY <2>1, <2>2, <2>3, <2>4 DEF StateKept
  <1>12. KeptUsers(Users \ {u})
    <2> SUFFICES ASSUME NEW v \in Users \ {u}
                 PROVE  /\ users[v].pc = "start" /\ users[v].proc # 0 =>
                             procs'[users[v].proc] = procs[users[v].proc]
                        /\ users[v].pc = "using" => procs'[users[v].proc].why # "idle"
      BY <1>1, <1>6 DEF KeptUsers
    <2>1. UserOK(v)
      BY DEF IndInv
    <2> QED BY <1>4, <2>1 DEF UserOK
  <1>13. UserOK(u)'
    BY <1>1, <1>2, <1>3, <1>4, <1>5, <1>6, <1>10 DEF UserOK
  <1> QED BY <1>1, <1>7, <1>8, <1>9, <1>11, <1>12, <1>13, UserStep

LEMMA StartEndsKeeps ==
    ASSUME IndInv, setting' = setting, NEW u \in Users, StartEnds(u)
    PROVE  Kept(ByUser(u))
  <1>0. PICK s, p : s = users[u].slot /\ p = users[u].proc
    OBVIOUS
  <1>1. users[u].pc = "start" /\ p # 0 /\ UNCHANGED <<agents, stopper, idler, closer>>
    BY <1>0 DEF StartEnds
  <1>2. /\ users[u] \in User /\ UserOK(u) /\ s \in SlotIds /\ slots[s] \in Slot
        /\ setting.keyOf[u] \in Keys /\ Types /\ slots \in Seq(Slot) /\ procs \in Seq(Proc)
        /\ Len(procs) <= MaxProcs
    BY <1>0, <1>1, UserHas DEF IndInv, Types
  <1>3. /\ slots[s].startMu = ByUser(u) /\ slots[s].agent = 0
        /\ slots[s].key = setting.keyOf[u] /\ agents[setting.keyOf[u]] = s
        /\ p \in ProcIds /\ procs[p].state = "starting" /\ procs[p].key = setting.keyOf[u]
    BY <1>0, <1>1, <1>2 DEF UserOK
  <1>4. procs[p].why = "none" /\ procs[p] \in Proc
    BY <1>2, <1>3 DEF IndInv, ProcOK, Live, ProcIds
  <1>5. \A v \in Users \ {u} : users[v].pc = "start" /\ users[v].proc # 0 => users[v].proc # p
    BY <1>0, <1>1, StartsOwn
  <1>6. ASSUME procs' = [procs EXCEPT ![p].state = "running"],
               slots' = [slots EXCEPT ![s] = [@ EXCEPT !.agent = p, !.startErr = FALSE,
                                                       !.startMu = None]],
               UserGoto(u, "using")
        PROVE  Kept(ByUser(u))
    <2> DEFINE r == [procs[p] EXCEPT !.state = "running"]
               n == [slots[s] EXCEPT !.agent = p, !.startErr = FALSE, !.startMu = None]
               q == [users[u] EXCEPT !.pc = "using"]
    <2>1. procs' = [procs EXCEPT ![p] = r] /\ slots' = [slots EXCEPT ![s] = n]
          /\ users' = [users EXCEPT ![u] = q]
      BY <1>6 DEF UserGoto
    <2>2. r \in Proc /\ r.key = procs[p].key /\ r.why = "none" /\ r.state = "running"
      BY <1>4 DEF Proc
    <2>3. p \in 0..MaxProcs /\ p # 0
      BY <1>0, <1>1, <1>2 DEF User
    <2>4. /\ n \in Slot /\ n.key = slots[s].key /\ n.refs = slots[s].refs /\ n.agent = p
      BY <1>2, <2>3 DEF Slot, Owner
    <2>5. q \in User /\ q.pc = "using" /\ q.slot = s /\ q.proc = p
      BY <1>0, <1>2 DEF User
    <2> HIDE DEF r, n, q
    <2>6. /\ procs' \in Seq(Proc) /\ Len(procs') = Len(procs) /\ ProcIds' = ProcIds
          /\ procs'[p] = r /\ \A x \in ProcIds \ {p} : procs'[x] = procs[x]
      BY <1>2, <1>3, <2>1, <2>2, ProcReplaced
    <2>7. /\ slots' \in Seq(Slot) /\ Len(slots') = Len(slots) /\ SlotIds' = SlotIds
          /\ slots'[s] = n /\ \A t \in SlotIds \ {s} : slots'[t] = slots[t]
      BY <1>2, <2>1, <2>4, SlotReplaced
    <2>8. /\ users' \in [Users -> User] /\ users'[u] = q
          /\ \A v \in Users \ {u} : users'[v] = users[v]
      BY <1>2, <2>1, <2>5 DEF Types
    <2>9. Grows
      <3>1. \A x \in ProcIds : procs'[x].key = procs[x].key /\
                 (procs[x].state \in {"closing", "gone"} => procs'[x].state \in {"closing", "gone"})
        BY <1>3, <2>2, <2>6
      <3>2. \A t \in SlotIds : slots'[t].key = slots[t].key
        BY <2>4, <2>7
      <3>3. Len(slots) \in Nat /\ Len(procs) \in Nat
        BY <1>2
      <3> QED BY <2>6, <2>7, <3>1, <3>2, <3>3 DEF Grows
    <2>10. Respects(ByUser(u))
      <3> SUFFICES ASSUME NEW t \in SlotIds, slots[t].startMu \notin {None, ByUser(u)}
                   PROVE  slots'[t].startMu = slots[t].startMu /\ slots'[t].agent = slots[t].agent
        BY DEF Respects
      <3>1. t # s
        BY <1>3
      <3> QED BY <2>7, <3>1
    <2>11. Types'
      BY <1>1, <1>2, <2>6, <2>7, <2>8 DEF Types
    <2>12. StateKept
      <3>1. MapOK'
        BY <1>1, <2>9, MapKept
      <3>2. RefsOK'
        <4>1. \A v \in Users : (users'[v].pc # "idle" <=> users[v].pc # "idle")
                                /\ users'[v].slot = users[v].slot
          BY <1>0, <1>1, <2>5, <2>8
        <4>2. \A t \in SlotIds : slots'[t].refs = slots[t].refs
          BY <2>4, <2>7
        <4> QED BY <2>7, <4>1, <4>2, RefsKept DEF IndInv
      <3>3. \A t \in SlotIds' : SlotOK(t)'
        <4>1. ASSUME NEW t \in SlotIds, t # s PROVE SlotOK(t)'
          <5>1. slots'[t].agent = slots[t].agent
            BY <2>7, <4>1
          <5>2. \A x \in ProcIds : procs'[x].state = "starting" => procs[x].state = "starting"
            BY <1>3, <2>6
          <5> QED BY <1>1, <2>9, <5>1, <5>2, SlotKept
        <4>2. SlotOK(s)'
          BY <1>1, <1>3, <2>2, <2>4, <2>6, <2>7 DEF SlotOK
        <4> QED BY <2>7, <4>1, <4>2
      <3>4. \A x \in ProcIds' : ProcOK(x)'
        <4>1. ASSUME NEW x \in ProcIds, x # p PROVE ProcOK(x)'
          <5>1. procs'[x] = procs[x] /\ x # 0
            BY <2>6, <4>1 DEF ProcIds
          <5>2. procs[x].state \in {"running", "exited"} =>
                  /\ agents'[procs[x].key] = agents[procs[x].key]
                  /\ slots'[agents[procs[x].key]].agent = slots[agents[procs[x].key]].agent
            BY <1>1, <1>3, <2>7, <5>1, Served
          <5>3. \A v \in Users : users[v].pc = "start" /\ users[v].proc = x =>
                  users'[v].pc = "start" /\ users'[v].proc = x
            BY <1>0, <2>8, <4>1
          <5> QED BY <5>1, <5>2, <5>3, ProcKept
        <4>2. ProcOK(p)'
          <5>1. s # 0
            BY <1>2 DEF SlotIds
          <5> QED BY <1>1, <1>3, <2>2, <2>4, <2>6, <2>7, <5>1 DEF ProcOK
        <4> QED BY <2>6, <4>1, <4>2
      <3> QED BY <3>1, <3>2, <3>3, <3>4 DEF StateKept
    <2>13. KeptUsers(Users \ {u})
      <3> SUFFICES ASSUME NEW v \in Users \ {u}
                   PROVE  /\ users[v].pc = "start" /\ users[v].proc # 0 =>
                               procs'[users[v].proc] = procs[users[v].proc]
                          /\ users[v].pc = "using" => procs'[users[v].proc].why # "idle"
        BY <1>1, <2>8 DEF KeptUsers
      <3>1. UserOK(v)
        BY DEF IndInv
      <3> QED BY <1>5, <2>2, <2>6, <3>1 DEF UserOK
    <2>14. UserOK(u)'
      BY <1>0, <1>1, <1>2, <1>3, <2>2, <2>3, <2>4, <2>5, <2>6, <2>7, <2>8 DEF UserOK
    <2> QED BY <1>1, <2>9, <2>10, <2>11, <2>12, <2>13, <2>14, UserStep
  <1>7. ASSUME procs' = [procs EXCEPT ![p] = [@ EXCEPT !.state = "gone", !.why = "failed"]],
               NEW notOwner \in BOOLEAN, Fail(u, [slots EXCEPT ![s].startErr = @ \/ ~notOwner])
        PROVE  Kept(ByUser(u))
    <2> DEFINE r == [procs[p] EXCEPT !.state = "gone", !.why = "failed"]
               e == slots[s].startErr \/ ~notOwner
               m == [slots[s] EXCEPT !.startErr = e]
               n == [m EXCEPT !.startMu = None]
               ss == [slots EXCEPT ![s] = m]
    <2>1. /\ procs' = [procs EXCEPT ![p] = r] /\ slots' = [ss EXCEPT ![s].startMu = None]
          /\ UserFails(u)
      BY <1>0, <1>7 DEF Fail, UserFails
    <2>2. r \in Proc /\ r.key = procs[p].key /\ r.why = "failed" /\ r.state = "gone"
      BY <1>4 DEF Proc
    <2>3. /\ m \in Slot /\ n \in Slot /\ n.key = slots[s].key /\ n.refs = slots[s].refs
          /\ n.agent = slots[s].agent
      <3> e \in BOOLEAN
        OBVIOUS
      <3> HIDE DEF e
      <3> QED BY <1>2 DEF Slot, Owner
    <2> HIDE DEF r, e, m
    <2>4. slots' = [slots EXCEPT ![s] = n]
      <3>1. ss \in Seq(Slot) /\ Len(ss) = Len(slots) /\ ss[s] = m
        BY <1>2, <2>3 DEF SlotIds
      <3> QED BY <1>2, <2>1, <3>1
    <2> HIDE DEF n
    <2>5. SlotsQuiet(ByUser(u), p)
      <3>1. Turns(ByUser(u), p, s, n)
        BY <1>2, <1>3, <2>3, <2>4 DEF Turns
      <3> QED BY <3>1, OneSlot
    <2>6. /\ procs' \in Seq(Proc) /\ Len(procs') = Len(procs) /\ ProcIds' = ProcIds
          /\ procs'[p] = r /\ \A y \in ProcIds \ {p} : procs'[y] = procs[y]
      BY <1>2, <1>3, <2>1, <2>2, ProcReplaced
    <2>7. ProcsQuiet(p)
      BY <2>2, <2>6 DEF ProcsQuiet
    <2>8. (\A v \in Users \ {u} : users'[v] = users[v]) => KeptUsers(Users \ {u})
      <3> SUFFICES ASSUME NEW v \in Users \ {u}
                   PROVE  /\ users[v].pc = "start" /\ users[v].proc # 0 =>
                               procs'[users[v].proc] = procs[users[v].proc]
                          /\ users[v].pc = "using" => procs'[users[v].proc].why # "idle"
        BY <1>1 DEF KeptUsers
      <3>1. UserOK(v)
        BY DEF IndInv
      <3> QED BY <1>5, <2>2, <2>6, <3>1 DEF UserOK
    <2>9. users[u].proc \in {0, p}
      BY <1>0
    <2> QED BY <1>1, <2>1, <2>5, <2>7, <2>8, <2>9, FailKeeps
  <1> QED BY <1>0, <1>6, <1>7 DEF StartEnds
-----------------------------------------------------------------------------
(***************************************************************************)
(* acquireAgent and releaseAgent: a reference is taken or given back.      *)
(***************************************************************************)
LEMMA ReleaseKeeps ==
    ASSUME IndInv, setting' = setting, NEW u \in Users, releaseAgent(u)
    PROVE  Kept(ByUser(u))
  <1>0. PICK s, left : s = users[u].slot /\ left = slots[s].refs - 1
    OBVIOUS
  <1> DEFINE idle == slots[s].idle \/ (left = 0 /\ slots[s].agent # 0 /\ setting.idleTimeout)
             empty == slots[s].agent = 0 /\ ~slots[s].startErr
             r == [slots[s] EXCEPT !.refs = left, !.idle = idle]
             q == [NoUser EXCEPT !.acquires = users[u].acquires]
  <1>1. /\ users[u].pc \in {"using", "failed"} /\ UNCHANGED <<procs, stopper, idler, closer>>
        /\ slots' = [slots EXCEPT ![s] = r] /\ users' = [users EXCEPT ![u] = q]
        /\ agents' = IF left = 0 /\ empty THEN dropSlot(s) ELSE agents
    BY <1>0 DEF releaseAgent
  <1>2. /\ users[u] \in User /\ UserOK(u) /\ s \in SlotIds /\ slots[s] \in Slot
        /\ setting.keyOf[u] \in Keys /\ Types /\ slots \in Seq(Slot)
    BY <1>0, <1>1, UserHas DEF IndInv, Types
  <1>3. /\ r \in Slot /\ r.key = slots[s].key /\ r.refs = left /\ r.agent = slots[s].agent
        /\ r.startMu = slots[s].startMu
    <2>1. idle \in BOOLEAN
      OBVIOUS
    <2>2. left \in Int
      BY <1>0, <1>2 DEF Slot
    <2> HIDE DEF idle
    <2> QED BY <1>2, <2>1, <2>2 DEF Slot
  <1>4. q \in User /\ q.pc = "idle" /\ q.proc = 0
    BY <1>2, ZeroAllowed DEF User, NoUser
  <1>5. /\ agents' \in [Keys -> 0..MaxSlots]
        /\ \A k \in Keys : agents'[k] # agents[k] =>
             agents'[k] = 0 /\ agents[k] = s /\ left = 0 /\ slots[s].agent = 0
    <2>1. agents \in [Keys -> 0..MaxSlots]
      BY <1>2 DEF Types
    <2>2. agents' = [k \in Keys |-> IF left = 0 /\ empty /\ k = slots[s].key /\ agents[k] = s
                                    THEN 0 ELSE agents[k]]
      BY <1>1, <2>1 DEF dropSlot
    <2> QED BY <2>1, <2>2, ZeroAllowed
  <1> HIDE DEF idle, empty, r, q
  <1>6. /\ slots' \in Seq(Slot) /\ Len(slots') = Len(slots) /\ SlotIds' = SlotIds
        /\ slots'[s] = r /\ \A t \in SlotIds \ {s} : slots'[t] = slots[t]
    BY <1>1, <1>2, <1>3, SlotReplaced
  <1>7. /\ users' \in [Users -> User] /\ users'[u] = q
        /\ \A v \in Users \ {u} : users'[v] = users[v]
    BY <1>1, <1>2, <1>4 DEF Types
  <1>8. \A t \in SlotIds : /\ slots'[t].key = slots[t].key /\ slots'[t].agent = slots[t].agent
                           /\ slots'[t].startMu = slots[t].startMu
    BY <1>3, <1>6
  <1>9. Grows /\ Respects(ByUser(u))
    <2>1. Len(slots) \in Nat /\ Len(procs) \in Nat /\ procs' = procs
      BY <1>1, <1>2 DEF Types
    <2> QED BY <1>6, <1>8, <2>1 DEF Grows, Respects
  <1>10. Types'
    BY <1>1, <1>2, <1>5, <1>6, <1>7 DEF Types
  <1>11. /\ IsFiniteSet(UsersOf(s)) /\ slots[s].refs = Cardinality(UsersOf(s))
         /\ u \in UsersOf(s) /\ UsersOf(s)' = UsersOf(s) \ {u}
    <2>1. u \in UsersOf(s)
      BY <1>0, <1>1 DEF UsersOf
    <2>2. UsersOf(s)' = UsersOf(s) \ {u}
      BY <1>4, <1>7 DEF UsersOf
    <2> QED BY <1>2, <2>1, <2>2 DEF IndInv, RefsOK
  <1>12. IsFiniteSet(UsersOf(s) \ {u}) /\ Cardinality(UsersOf(s) \ {u}) = left
    BY <1>0, <1>11, FS_RemoveElement
  <1>13. StateKept
    <2>1. MapOK'
      BY <1>5, <1>9, MapKept
    <2>2. RefsOK'
      <3> SUFFICES ASSUME NEW t \in SlotIds
                   PROVE  IsFiniteSet(UsersOf(t)') /\ slots'[t].refs = Cardinality(UsersOf(t)')
        BY <1>6 DEF RefsOK
      <3>1. CASE t = s
        BY <1>3, <1>6, <1>11, <1>12, <3>1
      <3>2. CASE t # s
        <4>1. UsersOf(t)' = UsersOf(t)
          BY <1>0, <1>4, <1>7, <3>2 DEF UsersOf
        <4> QED BY <1>6, <3>2, <4>1 DEF IndInv, RefsOK
      <3> QED BY <3>1, <3>2
    <2>3. \A t \in SlotIds' : SlotOK(t)'
      <3> SUFFICES ASSUME NEW t \in SlotIds PROVE SlotOK(t)'
        BY <1>6
      <3>1. slots'[t].agent # 0 => agents'[slots[t].key] = agents[slots[t].key]
        <4>1. slots[t] \in Slot
          BY <1>2 DEF SlotIds
        <4>2. slots[t].key \in Keys
          BY <4>1 DEF Slot
        <4>3. SlotOK(t)
          BY DEF IndInv
        <4> QED BY <1>5, <1>8, <4>2, <4>3 DEF SlotOK
      <3> QED BY <1>1, <1>8, <1>9, <3>1, SlotKept
    <2>4. \A p \in ProcIds' : ProcOK(p)'
      <3> SUFFICES ASSUME NEW p \in ProcIds PROVE ProcOK(p)'
        BY <1>1 DEF ProcIds
      <3>1. procs'[p] = procs[p] /\ p # 0
        BY <1>1 DEF ProcIds
      <3>2. procs[p].state \in {"running", "exited"} =>
              /\ agents'[procs[p].key] = agents[procs[p].key]
              /\ slots'[agents[procs[p].key]].agent = slots[agents[procs[p].key]].agent
        BY <1>5, <1>8, <3>1, Served
      <3>3. \A v \in Users : users[v].pc = "start" /\ users[v].proc = p =>
              users'[v].pc = "start" /\ users'[v].proc = p
        BY <1>1, <1>7
      <3> QED BY <3>1, <3>2, <3>3, ProcKept
    <2> QED BY <2>1, <2>2, <2>3, <2>4 DEF StateKept
  <1>14. KeptUsers(Users \ {u})
    <2> SUFFICES ASSUME NEW v \in Users \ {u}
                 PROVE  /\ users[v].pc # "idle" =>
                             agents'[setting.keyOf[v]] = agents[setting.keyOf[v]]
                        /\ users[v].pc = "using" => procs[users[v].proc].why # "idle"
      BY <1>1, <1>7 DEF KeptUsers
    <2>1. UserOK(v) /\ setting.keyOf[v] \in Keys
      BY <1>2, PoolAssumption DEF IndInv, Types, Setting
    <2>2. left = 0 /\ users[v].pc # "idle" => users[v].slot # s
      <3>1. left = 0 => UsersOf(s) \ {u} = {}
        BY <1>12, FS_EmptySet
      <3> QED BY <3>1 DEF UsersOf
    <2> QED BY <1>5, <2>1, <2>2 DEF UserOK
  <1>15. UserOK(u)'
    BY <1>4, <1>7 DEF UserOK
  <1> QED BY <1>1, <1>9, <1>10, <1>13, <1>14, <1>15, UserStep

LEMMA AcquireKeeps ==
    ASSUME IndInv, setting' = setting, NEW u \in Users, acquireAgent(u)
    PROVE  Kept(ByUser(u))
  <1>0. PICK k, s : k = setting.keyOf[u] /\ s = IF agents[k] = 0 THEN Len(slots) + 1 ELSE agents[k]
    BY Zenon
  <1> DEFINE fresh == [key |-> k, startMu |-> None, agent |-> 0, refs |-> 0,
                       idle |-> FALSE, startErr |-> FALSE]
             all == IF s > Len(slots) THEN Append(slots, fresh) ELSE slots
             r == [all[s] EXCEPT !.refs = @ + 1, !.idle = FALSE]
             q == [users[u] EXCEPT !.pc = "ensure", !.slot = s, !.acquires = @ + 1]
  <1>1. /\ users[u].pc = "idle" /\ s <= MaxSlots /\ UNCHANGED <<procs, stopper, idler, closer>>
        /\ slots' = [all EXCEPT ![s].refs = @ + 1, ![s].idle = FALSE]
        /\ agents' = [agents EXCEPT ![k] = s]
        /\ users' = [users EXCEPT ![u].pc = "ensure", ![u].slot = s, ![u].acquires = @ + 1]
    BY <1>0 DEF acquireAgent
  <1>2. /\ users[u] \in User /\ UserOK(u) /\ k \in Keys /\ Types /\ slots \in Seq(Slot)
        /\ Len(slots) \in Nat /\ Len(slots) <= MaxSlots /\ MaxSlots \in Nat
        /\ agents \in [Keys -> 0..MaxSlots] /\ MapOK
    BY <1>0, PoolAssumption DEF IndInv, Types, Setting
  <1>3. /\ s \in 1..MaxSlots
        /\ \/ s \in SlotIds /\ agents[k] = s /\ all = slots /\ slots[s].key = k
           \/ s = Len(slots) + 1 /\ agents[k] = 0 /\ all = Append(slots, fresh) /\ s \notin SlotIds
    <2>1. CASE agents[k] = 0
      BY <1>0, <1>1, <1>2, <2>1 DEF SlotIds
    <2>2. CASE agents[k] # 0
      <3>1. s = agents[k] /\ s \in SlotIds /\ slots[s].key = k
        BY <1>0, <1>2, <2>2 DEF MapOK
      <3> QED BY <1>2, <3>1 DEF SlotIds
    <2> QED BY <2>1, <2>2
  <1>4. fresh \in Slot
    BY <1>2, ZeroAllowed DEF Slot, Owner
  <1>5. /\ all \in Seq(Slot) /\ s \in 1..Len(all) /\ SlotIds \subseteq 1..Len(all)
        /\ 1..Len(all) = SlotIds \cup {s} /\ Len(all) \in Nat /\ Len(slots) <= Len(all)
        /\ Len(all) <= MaxSlots /\ all[s].key = k
        /\ \A t \in SlotIds : all[t] = slots[t]
        /\ s \notin SlotIds => all[s].agent = 0 /\ all[s].refs = 0
    <2> HIDE DEF all
    <2>1. CASE s \in SlotIds /\ agents[k] = s /\ all = slots /\ slots[s].key = k
      BY <1>2, <2>1 DEF SlotIds
    <2>2. CASE s = Len(slots) + 1 /\ agents[k] = 0 /\ all = Append(slots, fresh) /\ s \notin SlotIds
      BY <1>1, <1>2, <1>4, <2>2 DEF SlotIds
    <2> QED BY <1>3, <2>1, <2>2
  <1> HIDE DEF all, fresh
  <1>6. all[s] \in Slot
    BY <1>5
  <1>7. /\ r \in Slot /\ r.key = all[s].key /\ r.refs = all[s].refs + 1 /\ r.agent = all[s].agent
        /\ r.startMu = all[s].startMu
    <2>1. PICK m : m = all[s].refs + 1
      OBVIOUS
    <2>2. m \in Int
      BY <1>6, <2>1 DEF Slot
    <2>3. r = [all[s] EXCEPT !.refs = m, !.idle = FALSE]
      BY <2>1
    <2> HIDE DEF r
    <2> QED BY <1>6, <2>1, <2>2, <2>3 DEF Slot
  <1>8. slots' = [all EXCEPT ![s] = r]
    BY <1>1, <1>5, <1>6 DEF Slot
  <1>9. /\ q \in User /\ q.pc = "ensure" /\ q.slot = s /\ q.proc = users[u].proc
        /\ users' = [users EXCEPT ![u] = q]
    <2>1. s \in 0..MaxSlots
      BY <1>2, <1>3
    <2>2. PICK m : m = users[u].acquires + 1
      OBVIOUS
    <2>3. m \in Nat
      BY <1>2, <2>2 DEF User
    <2>4. q = [users[u] EXCEPT !.pc = "ensure", !.slot = s, !.acquires = m]
      BY <2>2
    <2>5. users' = [users EXCEPT ![u] = q]
      BY <1>1
    <2> HIDE DEF q
    <2> QED BY <1>2, <2>1, <2>3, <2>4, <2>5 DEF User
  <1> HIDE DEF r, q
  <1>10. /\ slots' \in Seq(Slot) /\ Len(slots') = Len(all) /\ SlotIds' = SlotIds \cup {s}
         /\ slots'[s] = r /\ \A t \in SlotIds \ {s} : slots'[t] = slots[t]
    BY <1>5, <1>7, <1>8 DEF SlotIds
  <1>11. /\ users' \in [Users -> User] /\ users'[u] = q
         /\ \A v \in Users \ {u} : users'[v] = users[v]
    BY <1>2, <1>9 DEF Types
  <1>12. \A t \in SlotIds : /\ slots'[t].key = slots[t].key /\ slots'[t].agent = slots[t].agent
                            /\ slots'[t].startMu = slots[t].startMu
    BY <1>5, <1>7, <1>10
  <1>13. /\ agents' \in [Keys -> 0..MaxSlots] /\ agents'[k] = s
         /\ \A j \in Keys : agents[j] # 0 \/ j # k => agents'[j] = agents[j]
    BY <1>1, <1>2, <1>3
  <1>14. Grows /\ Respects(ByUser(u))
    <2>1. Len(procs) \in Nat /\ procs' = procs
      BY <1>1, <1>2 DEF Types
    <2> QED BY <1>2, <1>5, <1>10, <1>12, <2>1 DEF Grows, Respects
  <1>15. Types'
    BY <1>1, <1>2, <1>5, <1>10, <1>11, <1>13 DEF Types
  <1>16. StateKept
    <2>1. MapOK'
      <3>1. \A j \in Keys : agents'[j] # 0 => agents'[j] \in SlotIds' /\ slots'[agents'[j]].key = j
        BY <1>2, <1>5, <1>7, <1>10, <1>12, <1>13 DEF MapOK
      <3> QED BY <3>1 DEF MapOK
    <2>2. RefsOK'
      <3>1. ASSUME NEW t \in SlotIds, t # s
            PROVE  IsFiniteSet(UsersOf(t)') /\ slots'[t].refs = Cardinality(UsersOf(t)')
        <4>1. UsersOf(t)' = UsersOf(t)
          BY <1>1, <1>9, <1>11, <3>1 DEF UsersOf
        <4> QED BY <1>10, <3>1, <4>1 DEF IndInv, RefsOK
      <3>2. /\ IsFiniteSet(UsersOf(s)') /\ slots'[s].refs = Cardinality(UsersOf(s)')
        <4>1. IsFiniteSet(UsersOf(s)) /\ all[s].refs = Cardinality(UsersOf(s))
          <5>1. CASE s \in SlotIds
            BY <1>5, <5>1 DEF IndInv, RefsOK
          <5>2. CASE s \notin SlotIds
            <6>1. UsersOf(s) = {}
              BY <5>2 DEF UsersOf, IndInv, UserOK
            <6> QED BY <1>5, <5>2, <6>1, FS_EmptySet
          <5> QED BY <5>1, <5>2
        <4>2. UsersOf(s)' = UsersOf(s) \cup {u} /\ u \notin UsersOf(s)
          BY <1>1, <1>9, <1>11 DEF UsersOf
        <4>3. /\ IsFiniteSet(UsersOf(s) \cup {u})
              /\ Cardinality(UsersOf(s) \cup {u}) = Cardinality(UsersOf(s)) + 1
          BY <4>1, <4>2, FS_AddElement
        <4> QED BY <1>7, <1>10, <4>1, <4>2, <4>3
      <3> QED BY <1>10, <3>1, <3>2 DEF RefsOK
    <2>3. \A t \in SlotIds' : SlotOK(t)'
      <3>1. ASSUME NEW t \in SlotIds PROVE SlotOK(t)'
        <4>1. slots[t] \in Slot /\ SlotOK(t) /\ t # 0
          BY <1>2 DEF SlotIds, IndInv
        <4>2. slots[t].key \in Keys
          BY <4>1 DEF Slot
        <4>3. slots'[t].agent # 0 => agents'[slots[t].key] = agents[slots[t].key]
          BY <1>12, <1>13, <4>1, <4>2 DEF SlotOK
        <4> QED BY <1>1, <1>12, <1>14, <4>3, SlotKept
      <3>2. ASSUME s \notin SlotIds PROVE SlotOK(s)'
        BY <1>5, <1>7, <1>10, <3>2 DEF SlotOK
      <3> QED BY <1>10, <3>1, <3>2
    <2>4. \A p \in ProcIds' : ProcOK(p)'
      <3> SUFFICES ASSUME NEW p \in ProcIds PROVE ProcOK(p)'
        BY <1>1 DEF ProcIds
      <3>1. procs'[p] = procs[p]
        BY <1>1
      <3>2. procs[p].state \in {"running", "exited"} =>
              /\ agents'[procs[p].key] = agents[procs[p].key]
              /\ slots'[agents[procs[p].key]].agent = slots[agents[procs[p].key]].agent
        <4>1. \A t \in SlotIds : t # 0
          BY DEF SlotIds
        <4> QED BY <1>12, <1>13, <4>1, Served
      <3>3. \A v \in Users : users[v].pc = "start" /\ users[v].proc = p =>
              users'[v].pc = "start" /\ users'[v].proc = p
        BY <1>1, <1>11
      <3> QED BY <3>1, <3>2, <3>3, ProcKept
    <2> QED BY <2>1, <2>2, <2>3, <2>4 DEF StateKept
  <1>17. KeptUsers(Users \ {u})
    <2> SUFFICES ASSUME NEW v \in Users \ {u}
                 PROVE  /\ users[v].pc # "idle" =>
                             agents'[setting.keyOf[v]] = agents[setting.keyOf[v]]
                        /\ users[v].pc = "using" => procs[users[v].proc].why # "idle"
      BY <1>1, <1>11 DEF KeptUsers
    <2>1. UserOK(v) /\ setting.keyOf[v] \in Keys
      BY SMTT(30), <1>2, PoolAssumption DEF IndInv, Types, Setting
    <2>2. \A t \in SlotIds : t # 0
      BY DEF SlotIds
    <2> QED BY <1>13, <2>1, <2>2 DEF UserOK
  <1>18. UserOK(u)'
    BY <1>0, <1>1, <1>2, <1>5, <1>7, <1>9, <1>10, <1>11, <1>13 DEF UserOK
  <1> QED BY <1>1, <1>14, <1>15, <1>16, <1>17, <1>18, UserStep
-----------------------------------------------------------------------------
(***************************************************************************)
(* The timers, Close and the processes.                                    *)
(***************************************************************************)
Goroutines ==
    /\ stopper \in [Users -> Stopper]
    /\ idler \in [1..MaxSlots -> [pc : {"none", "lock", "closing"}, proc : 0..MaxProcs]]
    /\ closer \in [pc : {"none", "next", "closing", "over"}, todo : SUBSET (1..MaxSlots),
                   slot : 0..MaxSlots, proc : 0..MaxProcs]

LEMMA QuietOtherStep ==
    ASSUME IndInv, setting' = setting, NEW who, NEW x, SlotsQuiet(who, x), ProcsQuiet(x),
           AgentsQuiet, users' = users, agents' \in [Keys -> 0..MaxSlots], Goroutines',
           KeptUsers(Users), \A u \in Users : who # ByUser(u),
           \A u \in Users : StopperOK(u)' \/ (who # ByStopper(u) /\ stopper'[u] = stopper[u]),
           \A s \in 1..MaxSlots : IdlerOK(s)' \/ (who # ByIdler(s) /\ idler'[s] = idler[s]),
           CloserOK' \/ (who # ByCloser /\ closer' = closer)
    PROVE  Kept(who)
  <1>1. UsersQuiet(x)
    BY DEF UsersQuiet
  <1>2. Grows /\ Respects(who) /\ StateKept
    BY <1>1, QuietStep
  <1>3. Types'
    BY DEF IndInv, Types, Goroutines, SlotsQuiet, ProcsQuiet
  <1> QED BY <1>2, <1>3, OtherStep

\* The goroutines differ, so that a step of one is a step of no other.
LEMMA NotAUser ==
    /\ \A u \in Users : None # ByUser(u) /\ None # ByStopper(u) /\ ByCloser # ByUser(u)
                          /\ ByCloser # ByStopper(u)
    /\ \A s \in 1..MaxSlots : None # ByIdler(s) /\ ByCloser # ByIdler(s)
    /\ None # ByCloser
  <1>1. \A u \in Users : ByCloser # ByUser(u) /\ ByCloser # ByStopper(u)
    <2> TAKE u \in Users
    <2>1. Len(ByCloser) = 1 /\ Len(ByUser(u)) = 2 /\ Len(ByStopper(u)) = 2
      BY DEF ByUser, ByStopper, ByCloser
    <2> QED BY <2>1
  <1>2. \A s \in 1..MaxSlots : ByCloser # ByIdler(s)
    <2> TAKE s \in 1..MaxSlots
    <2>1. Len(ByCloser) = 1 /\ Len(ByIdler(s)) = 2
      BY DEF ByIdler, ByCloser
    <2> QED BY <2>1
  <1> QED BY <1>1, <1>2, NoneAssumption

LEMMA IdlersDiffer ==
    ASSUME NEW s \in 1..MaxSlots
    PROVE  /\ \A u \in Users : ByIdler(s) # ByUser(u) /\ ByIdler(s) # ByStopper(u)
           /\ \A t \in 1..MaxSlots : t # s => ByIdler(s) # ByIdler(t)
           /\ ByIdler(s) # ByCloser /\ ByIdler(s) # None
  <1>1. \A u \in Users : ByIdler(s) # ByUser(u) /\ ByIdler(s) # ByStopper(u)
    BY DEF ByIdler, ByUser, ByStopper
  <1>2. \A t \in 1..MaxSlots : t # s => ByIdler(s) # ByIdler(t)
    BY DEF ByIdler
  <1> QED BY <1>1, <1>2, NotAUser

LEMMA StoppersDiffer ==
    ASSUME NEW u \in Users
    PROVE  /\ \A v \in Users : ByStopper(u) # ByUser(v) /\ (v # u => ByStopper(u) # ByStopper(v))
           /\ \A t \in 1..MaxSlots : ByStopper(u) # ByIdler(t)
           /\ ByStopper(u) # ByCloser /\ ByStopper(u) # None
  <1>1. \A v \in Users : ByStopper(u) # ByUser(v) /\ (v # u => ByStopper(u) # ByStopper(v))
    BY DEF ByUser, ByStopper
  <1>2. \A t \in 1..MaxSlots : ByStopper(u) # ByIdler(t)
    BY DEF ByIdler, ByStopper
  <1> QED BY <1>1, <1>2, NotAUser

\* What a slot that exists has.
LEMMA SlotHas ==
    ASSUME IndInv, NEW s \in SlotIds
    PROVE  /\ slots[s] \in Slot /\ slots \in Seq(Slot) /\ SlotOK(s) /\ s \in 1..MaxSlots
           /\ agents \in [Keys -> 0..MaxSlots] /\ Goroutines
  BY PoolAssumption DEF IndInv, Types, SlotIds, Goroutines

LEMMA IdleTimerKeeps ==
    ASSUME IndInv, setting' = setting, NEW s \in SlotIds, IdleTimer(s)
    PROVE  Kept(None)
  <1> DEFINE r == [slots[s] EXCEPT !.idle = FALSE]
  <1>1. /\ slots' = [slots EXCEPT ![s] = r] /\ idler' = [idler EXCEPT ![s].pc = "lock"]
        /\ UNCHANGED <<agents, procs, users, stopper, closer>>
    BY DEF IdleTimer
  <1>2. /\ slots[s] \in Slot /\ slots \in Seq(Slot) /\ s \in 1..MaxSlots
        /\ agents \in [Keys -> 0..MaxSlots] /\ Goroutines
    BY SlotHas
  <1>3. /\ r \in Slot /\ r.key = slots[s].key /\ r.refs = slots[s].refs /\ r.agent = slots[s].agent
        /\ r.startMu = slots[s].startMu
    BY <1>2 DEF Slot
  <1> HIDE DEF r
  <1>4. /\ slots' \in Seq(Slot) /\ Len(slots') = Len(slots) /\ SlotIds' = SlotIds
        /\ slots'[s] = r /\ \A t \in SlotIds \ {s} : slots'[t] = slots[t]
    BY <1>1, <1>2, <1>3, SlotReplaced
  <1>5. SlotsQuiet(None, 0)
    <2>1. \A t \in SlotIds : /\ slots'[t].key = slots[t].key /\ slots'[t].refs = slots[t].refs
                             /\ slots'[t].agent = slots[t].agent /\ slots'[t].startMu = slots[t].startMu
      BY <1>3, <1>4
    <2> QED BY <1>4, <2>1 DEF SlotsQuiet
  <1>6. ProcsQuiet(0) /\ AgentsQuiet /\ KeptUsers(Users)
    BY <1>1, SameProcs, QuietOthers DEF AgentsQuiet
  <1>7. /\ Goroutines' /\ idler'[s].pc = "lock"
        /\ \A t \in 1..MaxSlots : t # s => idler'[t] = idler[t]
    BY <1>1, <1>2 DEF Goroutines
  <1>8. IdlerOK(s)'
    BY <1>4, <1>7 DEF IdlerOK
  <1> QED BY <1>1, <1>2, <1>5, <1>6, <1>7, <1>8, NotAUser, QuietOtherStep

LEMMA StopIdleKeeps ==
    ASSUME IndInv, setting' = setting, NEW s \in SlotIds, StopIdle(s)
    PROVE  Kept(ByIdler(s))
  <1>1. /\ slots[s].startMu = None /\ UNCHANGED <<agents, users, stopper, closer>>
    BY DEF StopIdle
  <1>2. /\ slots[s] \in Slot /\ slots \in Seq(Slot) /\ s \in 1..MaxSlots
        /\ agents \in [Keys -> 0..MaxSlots] /\ Goroutines
    BY SlotHas
  <1>3. AgentsQuiet
    BY <1>1 DEF AgentsQuiet
  <1>4. CASE CanStop(s)
    <2>0. PICK x : x = slots[s].agent
      OBVIOUS
    <2> DEFINE r == [slots[s] EXCEPT !.agent = 0, !.startMu = ByIdler(s)]
    <2>1. /\ slots[s].refs = 0 /\ slots[s].agent # 0 /\ procs' = CloseOf(slots[s].agent, "idle")
          /\ slots' = [slots EXCEPT ![s] = r]
          /\ idler' = [idler EXCEPT ![s] = [pc |-> "closing", proc |-> x]]
      BY <1>4, <2>0 DEF CanStop, StopIdle
    <2>2. /\ r \in Slot /\ r.key = slots[s].key /\ r.refs = slots[s].refs /\ r.agent = 0
          /\ r.startMu = ByIdler(s)
      BY <1>2, ZeroAllowed DEF Slot, Owner
    <2> HIDE DEF r
    <2>3. SlotsQuiet(ByIdler(s), x) /\ slots'[s] = r /\ SlotIds' = SlotIds
      <3>1. Turns(ByIdler(s), x, s, r)
        BY <1>1, <2>0, <2>1, <2>2 DEF Turns
      <3> QED BY <3>1, OneSlot
    <2>4. KeptUsers(Users) /\ ProcsQuiet(x)
      BY <1>1, <2>0, <2>1, UsersAfterClose
    <2>5. x \in 0..MaxProcs
      BY <1>2, <2>0 DEF Slot
    <2>6. /\ Goroutines' /\ idler'[s].pc = "closing"
          /\ \A t \in 1..MaxSlots : t # s => idler'[t] = idler[t]
      BY <1>1, <1>2, <2>1, <2>5 DEF Goroutines
    <2>7. IdlerOK(s)'
      BY <2>2, <2>3, <2>6 DEF IdlerOK
    <2> QED BY <1>1, <1>2, <1>3, <2>3, <2>4, <2>6, <2>7, IdlersDiffer, QuietOtherStep
  <1>5. CASE ~CanStop(s)
    <2>1. procs' = procs /\ slots' = slots /\ idler' = [idler EXCEPT ![s] = NoIdler]
      BY <1>5 DEF StopIdle
    <2>2. SlotsQuiet(ByIdler(s), 0) /\ ProcsQuiet(0) /\ KeptUsers(Users)
      BY <1>1, <2>1, SameSlots, SameProcs, QuietOthers
    <2>3. /\ Goroutines' /\ idler'[s].pc = "none"
          /\ \A t \in 1..MaxSlots : t # s => idler'[t] = idler[t]
      BY <1>1, <1>2, <2>1, ZeroAllowed DEF Goroutines, NoIdler
    <2>4. IdlerOK(s)'
      BY <2>3 DEF IdlerOK
    <2> QED BY <1>1, <1>2, <1>3, <2>2, <2>3, <2>4, IdlersDiffer, QuietOtherStep
  <1> QED BY <1>4, <1>5

LEMMA IdleStoppedKeeps ==
    ASSUME IndInv, setting' = setting, NEW s \in SlotIds, IdleStopped(s)
    PROVE  Kept(ByIdler(s))
  <1> DEFINE r == [slots[s] EXCEPT !.startMu = None]
  <1>1. /\ idler[s].pc = "closing" /\ slots' = [slots EXCEPT ![s] = r]
        /\ idler' = [idler EXCEPT ![s] = NoIdler] /\ UNCHANGED <<procs, users, stopper, closer>>
        /\ agents' = IF slots[s].refs = 0 /\ slots[s].agent = 0 THEN dropSlot(s) ELSE agents
    BY DEF IdleStopped
  <1>2. /\ slots[s] \in Slot /\ slots \in Seq(Slot) /\ s \in 1..MaxSlots
        /\ agents \in [Keys -> 0..MaxSlots] /\ Goroutines
    BY SlotHas
  <1>3. slots[s].startMu = ByIdler(s)
    BY <1>1, <1>2 DEF IndInv, IdlerOK
  <1>4. /\ r \in Slot /\ r.key = slots[s].key /\ r.refs = slots[s].refs /\ r.agent = slots[s].agent
    BY <1>2 DEF Slot, Owner
  <1> HIDE DEF r
  <1>5. SlotsQuiet(ByIdler(s), 0)
    <2>1. Turns(ByIdler(s), 0, s, r)
      BY <1>1, <1>3, <1>4 DEF Turns
    <2> QED BY <2>1, OneSlot
  <1>6. /\ agents' \in [Keys -> 0..MaxSlots] /\ AgentsQuiet
        /\ \A k \in Keys : agents'[k] # agents[k] => agents[k] = s /\ slots[s].refs = 0
    BY <1>1, Dropped
  <1>7. ProcsQuiet(0) /\ KeptUsers(Users)
    BY <1>1, <1>6, SameProcs, QuietOthers
  <1>8. /\ Goroutines' /\ idler'[s].pc = "none"
        /\ \A t \in 1..MaxSlots : t # s => idler'[t] = idler[t]
    BY <1>1, <1>2, ZeroAllowed DEF Goroutines, NoIdler
  <1>9. IdlerOK(s)'
    BY <1>8 DEF IdlerOK
  <1> QED BY <1>1, <1>2, <1>5, <1>6, <1>7, <1>8, <1>9, IdlersDiffer, QuietOtherStep

LEMMA CancelTimerKeeps ==
    ASSUME IndInv, setting' = setting, NEW u \in Users, CancelTimer(u)
    PROVE  Kept(ByUser(u))
  <1> DEFINE q == [users[u] EXCEPT !.canceled = TRUE]
  <1>1. /\ users[u].pc = "using" /\ users' = [users EXCEPT ![u] = q]
        /\ stopper' = [stopper EXCEPT ![u] = [pc |-> "find", slot |-> 0, proc |-> users[u].proc]]
        /\ UNCHANGED <<agents, slots, procs, idler, closer>>
    BY DEF CancelTimer
  <1>2. /\ users[u] \in User /\ UserOK(u) /\ Types
    BY <1>1, UserHas DEF IndInv
  <1>3. /\ q \in User /\ q.pc = "using" /\ q.slot = users[u].slot /\ q.proc = users[u].proc
    BY <1>1, <1>2 DEF User
  <1> HIDE DEF q
  <1>4. /\ UsersQuiet(0) /\ users' \in [Users -> User] /\ users'[u] = q
        /\ \A v \in Users \ {u} : users'[v] = users[v]
    BY <1>1, <1>3, UserMoves
  <1>5. SlotsQuiet(ByUser(u), 0) /\ ProcsQuiet(0) /\ AgentsQuiet /\ KeptUsers(Users \ {u})
    BY <1>1, <1>4, SameSlots, SameProcs, QuietOthers DEF AgentsQuiet
  <1>6. Grows /\ Respects(ByUser(u)) /\ StateKept
    BY <1>4, <1>5, QuietStep
  <1>7. /\ stopper' \in [Users -> Stopper] /\ stopper'[u].pc = "find"
        /\ stopper'[u].proc = users[u].proc
        /\ \A v \in Users \ {u} : stopper'[v] = stopper[v]
    BY <1>1, <1>2, ZeroAllowed DEF Types, Stopper, User
  <1>8. Types'
    BY <1>1, <1>2, <1>4, <1>7 DEF Types
  <1>9. StopperOK(u)' /\ UserOK(u)'
    BY <1>1, <1>2, <1>3, <1>4, <1>7 DEF StopperOK, UserOK, SlotIds, ProcIds
  <1> QED BY <1>1, <1>5, <1>6, <1>7, <1>8, <1>9, UserStep

LEMMA StopperFindsKeeps ==
    ASSUME IndInv, setting' = setting, NEW u \in Users, StopperFinds(u)
    PROVE  Kept(None)
  <1>0. PICK s : s = agents[procs[stopper[u].proc].key]
    OBVIOUS
  <1>1. /\ stopper[u].pc = "find" /\ UNCHANGED <<agents, slots, procs, users, idler, closer>>
        /\ stopper' = [stopper EXCEPT ![u] = IF s = 0 THEN NoStopper
                                             ELSE [stopper[u] EXCEPT !.pc = "lock", !.slot = s]]
    BY <1>0 DEF StopperFinds
  <1>2. Types /\ StopperOK(u) /\ stopper[u] \in Stopper /\ MapOK
    BY DEF IndInv, Types
  <1>3. stopper[u].proc \in ProcIds
    BY <1>1, <1>2 DEF StopperOK
  <1>4. procs[stopper[u].proc].key \in Keys
    <2>1. procs[stopper[u].proc] \in Proc
      BY <1>2, <1>3 DEF Types, ProcIds
    <2> QED BY <2>1 DEF Proc
  <1>5. s \in 0..MaxSlots /\ (s # 0 => s \in SlotIds)
    BY <1>0, <1>2, <1>4 DEF Types, MapOK
  <1>6. /\ stopper' \in [Users -> Stopper] /\ \A v \in Users \ {u} : stopper'[v] = stopper[v]
        /\ stopper'[u].pc = "none" \/ (stopper'[u].pc = "lock" /\ stopper'[u].slot = s /\ s # 0
                                         /\ stopper'[u].proc = stopper[u].proc)
    BY <1>1, <1>2, <1>5, ZeroAllowed DEF Types, Stopper, NoStopper
  <1>7. StopperOK(u)'
    BY <1>1, <1>3, <1>5, <1>6 DEF StopperOK, SlotIds, ProcIds
  <1>8. SlotsQuiet(None, 0) /\ ProcsQuiet(0) /\ AgentsQuiet /\ KeptUsers(Users)
    BY <1>1, SameSlots, SameProcs, QuietOthers DEF AgentsQuiet
  <1>9. Goroutines' /\ agents' \in [Keys -> 0..MaxSlots]
    BY <1>1, <1>2, <1>6 DEF Types, Goroutines
  <1> QED BY <1>1, <1>6, <1>7, <1>8, <1>9, NotAUser, QuietOtherStep

LEMMA StopAgentKeeps ==
    ASSUME IndInv, setting' = setting, NEW u \in Users, StopAgent(u)
    PROVE  Kept(ByStopper(u))
  <1>0. PICK s, p : s = stopper[u].slot /\ p = stopper[u].proc
    OBVIOUS
  <1>1. /\ stopper[u].pc = "lock" /\ slots[s].startMu = None
        /\ UNCHANGED <<agents, users, idler, closer>>
    BY <1>0 DEF StopAgent
  <1>2. s \in SlotIds /\ p \in ProcIds /\ stopper[u] \in Stopper
    BY <1>0, <1>1 DEF IndInv, StopperOK, Types
  <1>3. /\ slots[s] \in Slot /\ agents \in [Keys -> 0..MaxSlots] /\ Goroutines /\ AgentsQuiet
    BY <1>1, <1>2, SlotHas DEF AgentsQuiet
  <1>4. CASE slots[s].agent = p
    <2> DEFINE r == [slots[s] EXCEPT !.agent = 0, !.startMu = ByStopper(u)]
    <2>1. /\ slots' = [slots EXCEPT ![s] = r] /\ procs' = CloseOf(slots[s].agent, "stopped")
          /\ stopper' = [stopper EXCEPT ![u].pc = "closing"] /\ slots[s].agent # 0
      BY <1>0, <1>2, <1>4 DEF StopAgent, ProcIds
    <2>2. /\ r \in Slot /\ r.key = slots[s].key /\ r.refs = slots[s].refs /\ r.agent = 0
          /\ r.startMu = ByStopper(u)
      BY <1>3, ZeroAllowed DEF Slot, Owner
    <2> HIDE DEF r
    <2>3. SlotsQuiet(ByStopper(u), p) /\ slots'[s] = r /\ SlotIds' = SlotIds
      <3>1. Turns(ByStopper(u), p, s, r)
        BY <1>1, <1>2, <1>4, <2>1, <2>2 DEF Turns
      <3> QED BY <3>1, OneSlot
    <2>4. KeptUsers(Users) /\ ProcsQuiet(p)
      BY <1>1, <1>2, <1>4, <2>1, UsersAfterClose
    <2>5. /\ Goroutines' /\ stopper'[u].pc = "closing" /\ stopper'[u].slot = s /\ stopper'[u].proc = p
          /\ \A v \in Users : v # u => stopper'[v] = stopper[v]
      <3>1. /\ stopper' \in [Users -> Stopper] /\ stopper'[u].pc = "closing"
            /\ stopper'[u].slot = s /\ stopper'[u].proc = p
            /\ \A v \in Users : v # u => stopper'[v] = stopper[v]
        BY <1>0, <1>2, <1>3, <2>1 DEF Goroutines, Stopper
      <3> QED BY <1>1, <1>3, <3>1 DEF Goroutines
    <2>6. StopperOK(u)'
      <3>1. p \in ProcIds'
        BY <1>2, <2>4 DEF ProcsQuiet, ProcIds
      <3> QED BY <1>2, <2>2, <2>3, <2>5, <3>1 DEF StopperOK
    <2> QED BY <1>1, <1>3, <2>3, <2>4, <2>5, <2>6, StoppersDiffer, QuietOtherStep
  <1>5. CASE slots[s].agent # p
    <2>1. procs' = procs /\ slots' = slots /\ stopper' = [stopper EXCEPT ![u] = NoStopper]
      BY <1>0, <1>5 DEF StopAgent
    <2>2. SlotsQuiet(ByStopper(u), 0) /\ ProcsQuiet(0) /\ KeptUsers(Users)
      BY <1>1, <2>1, SameSlots, SameProcs, QuietOthers
    <2>3. /\ Goroutines' /\ stopper'[u].pc = "none"
          /\ \A v \in Users : v # u => stopper'[v] = stopper[v]
      BY <1>1, <1>3, <2>1, ZeroAllowed DEF Goroutines, Stopper, NoStopper
    <2>4. StopperOK(u)'
      BY <2>3 DEF StopperOK
    <2> QED BY <1>1, <1>3, <2>2, <2>3, <2>4, StoppersDiffer, QuietOtherStep
  <1> QED BY <1>4, <1>5

LEMMA AgentStoppedKeeps ==
    ASSUME IndInv, setting' = setting, NEW u \in Users, AgentStopped(u)
    PROVE  Kept(ByStopper(u))
  <1>0. PICK s : s = stopper[u].slot
    OBVIOUS
  <1> DEFINE r == [slots[s] EXCEPT !.startMu = None]
  <1>1. /\ stopper[u].pc = "closing" /\ slots' = [slots EXCEPT ![s] = r]
        /\ stopper' = [stopper EXCEPT ![u] = NoStopper]
        /\ UNCHANGED <<agents, procs, users, idler, closer>>
    BY <1>0 DEF AgentStopped
  <1>2. s \in SlotIds /\ slots[s].startMu = ByStopper(u)
    BY <1>0, <1>1 DEF IndInv, StopperOK
  <1>3. /\ slots[s] \in Slot /\ agents \in [Keys -> 0..MaxSlots] /\ Goroutines /\ AgentsQuiet
    BY <1>1, <1>2, SlotHas DEF AgentsQuiet
  <1>4. /\ r \in Slot /\ r.key = slots[s].key /\ r.refs = slots[s].refs /\ r.agent = slots[s].agent
    BY <1>3 DEF Slot, Owner
  <1> HIDE DEF r
  <1>5. SlotsQuiet(ByStopper(u), 0)
    <2>1. Turns(ByStopper(u), 0, s, r)
      BY <1>1, <1>2, <1>4 DEF Turns
    <2> QED BY <2>1, OneSlot
  <1>6. ProcsQuiet(0) /\ KeptUsers(Users)
    BY <1>1, SameProcs, QuietOthers
  <1>7. /\ Goroutines' /\ stopper'[u].pc = "none"
        /\ \A v \in Users : v # u => stopper'[v] = stopper[v]
    BY <1>1, <1>3, ZeroAllowed DEF Goroutines, Stopper, NoStopper
  <1>8. StopperOK(u)'
    BY <1>7 DEF StopperOK
  <1> QED BY <1>1, <1>3, <1>5, <1>6, <1>7, <1>8, StoppersDiffer, QuietOtherStep
LEMMA CloseKeeps ==
    ASSUME IndInv, setting' = setting, Close
    PROVE  Kept(None)
  <1>1. /\ closer' = [closer EXCEPT !.pc = "next", !.todo = {agents[k] : k \in Keys} \ {0}]
        /\ UNCHANGED <<agents, slots, procs, users, stopper, idler>>
    BY DEF Close
  <1>2. Types /\ MapOK /\ Len(slots) \in Nat
    BY DEF IndInv, Types
  <1>3. PICK todo : todo = {agents[k] : k \in Keys} \ {0}
    OBVIOUS
  <1>4. todo \subseteq SlotIds /\ todo \in SUBSET (1..MaxSlots)
    <2>1. todo \subseteq SlotIds
      BY <1>2, <1>3 DEF MapOK
    <2>2. SlotIds \subseteq 1..MaxSlots
      BY <1>2, PoolAssumption DEF SlotIds, Types
    <2> QED BY <2>1, <2>2
  <1>5. closer' = [closer EXCEPT !.pc = "next", !.todo = todo]
    BY <1>1, <1>3
  <1>6. Goroutines' /\ closer'.pc = "next" /\ closer'.todo = todo
    BY <1>1, <1>2, <1>4, <1>5 DEF Types, Goroutines
  <1>7. CloserOK'
    BY <1>1, <1>4, <1>6 DEF CloserOK, SlotIds
  <1>8. SlotsQuiet(None, 0) /\ ProcsQuiet(0) /\ AgentsQuiet /\ KeptUsers(Users)
    BY <1>1, SameSlots, SameProcs, QuietOthers DEF AgentsQuiet
  <1>9. agents' \in [Keys -> 0..MaxSlots]
    BY <1>1, <1>2 DEF Types
  <1> QED BY <1>1, <1>6, <1>7, <1>8, <1>9, NotAUser, QuietOtherStep

LEMMA CloseSlotKeeps ==
    ASSUME IndInv, setting' = setting, CloseSlot
    PROVE  Kept(ByCloser)
  <1>1. closer.pc = "next" /\ UNCHANGED <<agents, users, stopper, idler>>
    BY DEF CloseSlot
  <1>2. Types /\ Goroutines /\ agents \in [Keys -> 0..MaxSlots] /\ closer.todo \subseteq SlotIds
    BY DEF IndInv, Types, Goroutines, CloserOK
  <1>3. AgentsQuiet
    BY <1>1 DEF AgentsQuiet
  <1>4. CASE closer' = [closer EXCEPT !.pc = "over"] /\ slots' = slots /\ procs' = procs
    <2>1. SlotsQuiet(ByCloser, 0) /\ ProcsQuiet(0) /\ KeptUsers(Users)
      BY <1>1, <1>4, SameSlots, SameProcs, QuietOthers
    <2>2. Goroutines' /\ closer'.pc = "over" /\ closer'.todo = closer.todo
      BY <1>1, <1>2, <1>4 DEF Goroutines
    <2>3. CloserOK'
      BY <1>2, <1>4, <2>2 DEF CloserOK, SlotIds
    <2> QED BY <1>1, <1>2, <1>3, <2>1, <2>2, <2>3, NotAUser, QuietOtherStep
  <1>5. ASSUME NEW s \in closer.todo, slots[s].startMu = None, slots[s].agent = 0,
               closer' = [closer EXCEPT !.todo = @ \ {s}],
               slots' = [slots EXCEPT ![s].idle = FALSE], procs' = procs
        PROVE  Kept(ByCloser)
    <2> DEFINE r == [slots[s] EXCEPT !.idle = FALSE]
    <2>1. s \in SlotIds /\ slots[s] \in Slot
      BY <1>2, SlotHas
    <2>2. /\ r \in Slot /\ r.key = slots[s].key /\ r.refs = slots[s].refs /\ r.agent = slots[s].agent
          /\ slots' = [slots EXCEPT ![s] = r]
      BY <1>5, <2>1 DEF Slot
    <2> HIDE DEF r
    <2>3. SlotsQuiet(ByCloser, 0) /\ SlotIds' = SlotIds
      <3>1. Turns(ByCloser, 0, s, r)
        BY <1>5, <2>1, <2>2 DEF Turns
      <3> QED BY <3>1, OneSlot
    <2>4. ProcsQuiet(0) /\ KeptUsers(Users)
      BY <1>1, <1>5, SameProcs, QuietOthers
    <2>5. Goroutines' /\ closer'.pc = "next" /\ closer'.todo = closer.todo \ {s}
      BY <1>1, <1>2, <1>5 DEF Goroutines
    <2>6. CloserOK'
      BY <1>2, <2>3, <2>5 DEF CloserOK
    <2> QED BY <1>1, <1>2, <1>3, <2>3, <2>4, <2>5, <2>6, NotAUser, QuietOtherStep
  <1>6. ASSUME NEW s \in closer.todo, slots[s].startMu = None, slots[s].agent # 0,
               closer' = [pc |-> "closing", todo |-> closer.todo \ {s}, slot |-> s,
                          proc |-> slots[s].agent],
               slots' = [slots EXCEPT ![s] = [@ EXCEPT !.agent = 0, !.idle = FALSE,
                                                       !.startMu = ByCloser]],
               procs' = CloseOf(slots[s].agent, "closed")
        PROVE  Kept(ByCloser)
    <2> DEFINE r == [slots[s] EXCEPT !.agent = 0, !.idle = FALSE, !.startMu = ByCloser]
    <2>0. PICK x : x = slots[s].agent
      OBVIOUS
    <2>1. s \in SlotIds /\ slots[s] \in Slot /\ s \in 0..MaxSlots /\ x \in 0..MaxProcs
      <3>1. s \in SlotIds /\ slots[s] \in Slot /\ s \in 1..MaxSlots
        BY <1>2, SlotHas
      <3> QED BY <2>0, <3>1 DEF Slot
    <2>2. /\ r \in Slot /\ r.key = slots[s].key /\ r.refs = slots[s].refs /\ r.agent = 0
          /\ r.startMu = ByCloser /\ slots' = [slots EXCEPT ![s] = r]
      BY <1>6, <2>1, ZeroAllowed DEF Slot, Owner
    <2> HIDE DEF r
    <2>3. SlotsQuiet(ByCloser, x) /\ slots'[s] = r /\ SlotIds' = SlotIds
      <3>1. Turns(ByCloser, x, s, r)
        BY <1>6, <2>0, <2>1, <2>2 DEF Turns
      <3> QED BY <3>1, OneSlot
    <2>4. ProcsQuiet(x) /\ KeptUsers(Users)
      BY <1>1, <1>6, <2>0, <2>1, UsersAfterClose
    <2>5. /\ Goroutines' /\ closer'.pc = "closing" /\ closer'.todo = closer.todo \ {s}
          /\ closer'.slot = s
      BY <1>1, <1>2, <1>6, <2>0, <2>1 DEF Goroutines
    <2>6. CloserOK'
      BY <1>2, <2>1, <2>2, <2>3, <2>5 DEF CloserOK
    <2> QED BY <1>1, <1>2, <1>3, <2>3, <2>4, <2>5, <2>6, NotAUser, QuietOtherStep
  <1> QED BY <1>4, <1>5, <1>6 DEF CloseSlot

LEMMA SlotClosedKeeps ==
    ASSUME IndInv, setting' = setting, SlotClosed
    PROVE  Kept(ByCloser)
  <1>0. PICK s : s = closer.slot
    OBVIOUS
  <1> DEFINE r == [slots[s] EXCEPT !.startMu = None]
  <1>1. /\ closer.pc = "closing" /\ slots' = [slots EXCEPT ![s] = r]
        /\ closer' = [closer EXCEPT !.pc = "next", !.slot = 0, !.proc = 0]
        /\ UNCHANGED <<agents, procs, users, stopper, idler>>
    BY <1>0 DEF SlotClosed
  <1>2. /\ s \in SlotIds /\ slots[s].startMu = ByCloser /\ closer.todo \subseteq SlotIds
    BY <1>0, <1>1 DEF IndInv, CloserOK
  <1>3. /\ slots[s] \in Slot /\ agents \in [Keys -> 0..MaxSlots] /\ Goroutines /\ AgentsQuiet
    BY <1>1, <1>2, SlotHas DEF AgentsQuiet
  <1>4. /\ r \in Slot /\ r.key = slots[s].key /\ r.refs = slots[s].refs /\ r.agent = slots[s].agent
    BY <1>3 DEF Slot, Owner
  <1> HIDE DEF r
  <1>5. SlotsQuiet(ByCloser, 0) /\ SlotIds' = SlotIds
    <2>1. Turns(ByCloser, 0, s, r)
      BY <1>1, <1>2, <1>4 DEF Turns
    <2> QED BY <2>1, OneSlot
  <1>6. ProcsQuiet(0) /\ KeptUsers(Users)
    BY <1>1, SameProcs, QuietOthers
  <1>7. Goroutines' /\ closer'.pc = "next" /\ closer'.todo = closer.todo
    BY <1>1, <1>3, ZeroAllowed DEF Goroutines
  <1>8. CloserOK'
    BY <1>2, <1>5, <1>7 DEF CloserOK
  <1> QED BY <1>1, <1>3, <1>5, <1>6, <1>7, <1>8, NotAUser, QuietOtherStep

\* A process that starts is not touched, and nobody's use of another is.
LEMMA ProcMoves ==
    ASSUME IndInv, NEW p \in ProcIds, procs[p].state # "starting", procs'[p].why = procs[p].why,
           \A x \in ProcIds \ {p} : procs'[x] = procs[x], UNCHANGED <<agents, users>>
    PROVE  KeptUsers(Users)
  <1> SUFFICES ASSUME NEW v \in Users
               PROVE  /\ users[v].pc = "start" /\ users[v].proc # 0 =>
                           procs'[users[v].proc] = procs[users[v].proc]
                      /\ users[v].pc = "using" => procs'[users[v].proc].why # "idle"
    BY DEF KeptUsers
  <1>1. UserOK(v)
    BY DEF IndInv
  <1> QED BY <1>1 DEF UserOK

LEMMA ProcExitsKeeps ==
    ASSUME IndInv, setting' = setting, NEW p \in ProcIds, ProcExits(p)
    PROVE  Kept(None)
  <1> DEFINE r == [procs[p] EXCEPT !.state = "exited"]
  <1>1. /\ procs[p].state = "running" /\ procs' = [procs EXCEPT ![p] = r]
        /\ UNCHANGED <<agents, slots, users, stopper, idler, closer>>
    BY DEF ProcExits
  <1>2. Types /\ procs \in Seq(Proc) /\ procs[p] \in Proc
    BY DEF IndInv, Types, ProcIds
  <1>3. r \in Proc /\ r.key = procs[p].key /\ r.why = procs[p].why /\ r.state = "exited"
    BY <1>2 DEF Proc
  <1> HIDE DEF r
  <1>4. /\ procs' \in Seq(Proc) /\ Len(procs') = Len(procs) /\ ProcIds' = ProcIds
        /\ procs'[p] = r /\ \A x \in ProcIds \ {p} : procs'[x] = procs[x]
    BY <1>1, <1>2, <1>3, ProcReplaced
  <1>5. SlotIds' = SlotIds
    BY <1>1 DEF SlotIds
  <1>6. Grows
    <2>1. \A x \in ProcIds : procs'[x].key = procs[x].key /\
             (procs[x].state \in {"closing", "gone"} => procs'[x].state \in {"closing", "gone"})
      BY <1>1, <1>3, <1>4
    <2>2. Len(slots) \in Nat /\ Len(procs) \in Nat
      BY <1>2 DEF Types
    <2> QED BY <1>1, <1>4, <2>1, <2>2 DEF Grows
  <1>7. Respects(None)
    BY <1>1 DEF Respects
  <1>8. Types'
    BY <1>1, <1>2, <1>4 DEF Types
  <1>9. KeptUsers(Users)
    BY <1>1, <1>3, <1>4, ProcMoves
  <1>10. StateKept
    <2>1. MapOK'
      BY <1>1, <1>6, MapKept
    <2>2. RefsOK'
      BY <1>1, <1>5, RefsKept DEF IndInv
    <2>3. \A t \in SlotIds' : SlotOK(t)'
      BY <1>1, <1>3, <1>4, <1>5, <1>6, SlotKept
    <2>4. \A x \in ProcIds' : ProcOK(x)'
      <3> SUFFICES ASSUME NEW x \in ProcIds PROVE ProcOK(x)'
        BY <1>4
      <3>1. CASE x = p
        <4>1. ProcOK(p)
          BY DEF IndInv
        <4> QED BY <1>1, <1>3, <1>4, <3>1, <4>1 DEF ProcOK, Live
      <3>2. CASE x # p
        BY <1>1, <1>4, <3>2, ProcKept
      <3> QED BY <3>1, <3>2
    <2> QED BY <2>1, <2>2, <2>3, <2>4 DEF StateKept
  <1> QED BY <1>1, <1>6, <1>7, <1>8, <1>9, <1>10, NotAUser, OtherStep

LEMMA ProcGoneKeeps ==
    ASSUME IndInv, setting' = setting, NEW p \in ProcIds, ProcGone(p)
    PROVE  Kept(None)
  <1> DEFINE r == [procs[p] EXCEPT !.state = "gone"]
  <1>1. /\ procs[p].state = "closing" /\ procs' = [procs EXCEPT ![p] = r]
        /\ UNCHANGED <<agents, slots, users, stopper, idler, closer>>
    BY DEF ProcGone
  <1>2. Types /\ procs \in Seq(Proc) /\ procs[p] \in Proc
    BY DEF IndInv, Types, ProcIds
  <1>3. r \in Proc /\ r.key = procs[p].key /\ r.why = procs[p].why /\ r.state = "gone"
    BY <1>2 DEF Proc
  <1> HIDE DEF r
  <1>4. /\ procs' \in Seq(Proc) /\ Len(procs') = Len(procs) /\ ProcIds' = ProcIds
        /\ procs'[p] = r /\ \A x \in ProcIds \ {p} : procs'[x] = procs[x]
    BY <1>1, <1>2, <1>3, ProcReplaced
  <1>5. ProcsQuiet(p) /\ SlotsQuiet(None, p) /\ AgentsQuiet
    BY <1>1, <1>3, <1>4, SameSlots DEF ProcsQuiet, AgentsQuiet
  <1>6. KeptUsers(Users)
    BY <1>1, <1>3, <1>4, ProcMoves
  <1>7. Goroutines' /\ agents' \in [Keys -> 0..MaxSlots]
    BY <1>1, <1>2 DEF Types, Goroutines
  <1> QED BY <1>1, <1>5, <1>6, <1>7, NotAUser, QuietOtherStep

-----------------------------------------------------------------------------
(***************************************************************************)
(* The theorems.                                                           *)
(***************************************************************************)
LEMMA NextIndInv == IndInv /\ [Next]_vars => IndInv'
  <1> SUFFICES ASSUME IndInv, [Next]_vars PROVE IndInv'
    OBVIOUS
  <1>1. CASE UNCHANGED vars
    <2>1. SlotIds' = SlotIds /\ ProcIds' = ProcIds
      BY <1>1 DEF vars, SlotIds, ProcIds
    <2>2. Types' /\ MapOK' /\ CloserOK'
      BY <1>1, <2>1 DEF vars, IndInv, Types, MapOK, CloserOK
    <2>3. RefsOK'
      BY <1>1, <2>1 DEF vars, IndInv, RefsOK, UsersOf
    <2>4. \A u \in Users : UserOK(u)' /\ StopperOK(u)'
      BY <1>1, <2>1 DEF vars, IndInv, UserOK, StopperOK
    <2>5. \A s \in SlotIds : SlotOK(s)'
      BY <1>1, <2>1 DEF vars, IndInv, SlotOK
    <2>6. \A p \in ProcIds : ProcOK(p)'
      BY <1>1, <2>1 DEF vars, IndInv, ProcOK, Live
    <2>7. \A s \in 1..MaxSlots : IdlerOK(s)'
      BY <1>1, <2>1 DEF vars, IndInv, IdlerOK
    <2> QED BY <2>1, <2>2, <2>3, <2>4, <2>5, <2>6, <2>7 DEF IndInv
  <1>2. CASE Arrivals
    <2>1. setting' = setting
      BY <1>2 DEF Arrivals
    <2> QED BY <1>2, <2>1, AcquireKeeps, ReleaseKeeps, CancelTimerKeeps, ProcExitsKeeps, CloseKeeps
        DEF Arrivals, Kept
  <1>3. CASE Progress
    <2>1. setting' = setting
      BY <1>3 DEF Progress
    <2>2. ASSUME NEW u \in Users, Acquire(u) PROVE IndInv'
      BY <2>1, <2>2, EnsureKeeps, LookKeeps, ExitedIsClosedKeeps, MakeRoomKeeps, EvictBeginsKeeps,
         EvictEndsKeeps, StartBeginsKeeps, StartEndsKeeps, ReleaseKeeps DEF Acquire, Kept
    <2> QED BY <1>3, <2>1, <2>2, StopperFindsKeeps, StopAgentKeeps, AgentStoppedKeeps,
               IdleTimerKeeps, StopIdleKeeps, IdleStoppedKeeps, ProcGoneKeeps, CloseSlotKeeps,
               SlotClosedKeeps DEF Progress, Kept
  <1> QED BY <1>1, <1>2, <1>3 DEF Next

-----------------------------------------------------------------------------
(***************************************************************************)
(* Who closes a process.  IndInv says that one in service is found; that   *)
(* no other of its key exists, but those of stopAgent, needs to know where *)
(* the closing ones are: their slot stays in the map until they are gone.  *)
(***************************************************************************)
\* Process p was taken out of slot s, which is still the one of its key, and
\* whoever uses the slot waits for its startMu.
Emptied(p, s) ==
    /\ p \in ProcIds /\ s \in SlotIds /\ procs[p].key = slots[s].key
    /\ slots[s].agent = 0 /\ agents[slots[s].key] = s
    /\ \A w \in Users : users[w].pc # "idle" /\ users[w].slot = s => users[w].pc = "ensure"

EvictClosing(u) ==
    users[u].pc = "evict" /\ users[u].proc # 0 => Emptied(users[u].proc, users[u].victim)

IdleClosing(s) == idler[s].pc = "closing" => Emptied(idler[s].proc, s)

\* Close does not look at references: the slot may have been dropped, but there
\* is no new one.
CloserClosing ==
    closer.pc = "closing" =>
        /\ closer.proc \in ProcIds /\ procs[closer.proc].key = slots[closer.slot].key
        /\ slots[closer.slot].agent = 0
        /\ agents[slots[closer.slot].key] \in {0, closer.slot}

Attended(p) ==
    \/ \E u \in Users : users[u].pc \in {"closing", "evict"} /\ users[u].proc = p
    \/ \E s \in 1..MaxSlots : idler[s].pc = "closing" /\ idler[s].proc = p
    \/ closer.pc = "closing" /\ closer.proc = p

ClosingInv ==
    /\ \A u \in Users : EvictClosing(u)
    /\ \A s \in 1..MaxSlots : IdleClosing(s)
    /\ CloserClosing
    /\ \A p \in ProcIds : procs[p].state = "closing" /\ procs[p].why # "stopped" => Attended(p)

\* What the step of goroutine who may do to the map and to the users of slots:
\* a slot is entered into a place that is free, and dropped by the holder of
\* its startMu or by a user that does not wait for it.
MapCalm(who) ==
    \A k \in Keys : agents'[k] # agents[k] =>
        \/ agents[k] = 0 /\ ~Closed
        \/ /\ agents'[k] = 0 /\ agents[k] \in SlotIds
           /\ \/ slots[agents[k]].startMu = who /\ who # None
              \/ \E w \in Users : users[w].pc \notin {"idle", "ensure"} /\ users[w].slot = agents[k]

UserCalm(w) ==
    users'[w].pc \notin {"idle", "ensure"} =>
        /\ users[w].pc # "idle" /\ users'[w].slot = users[w].slot
        /\ users[w].pc = "ensure" => slots[users[w].slot].startMu = None

\* The slot of a process that another goroutine closes stays empty and in its
\* place.
LEMMA EmptiedKept ==
    ASSUME IndInv, NEW who, Kept(who), MapCalm(who), \A w \in Users : UserCalm(w),
           NEW p, NEW s, Emptied(p, s), slots[s].startMu \notin {None, who}
    PROVE  Emptied(p, s)'
  <1>1. /\ p \in ProcIds /\ s \in SlotIds /\ procs[p].key = slots[s].key
        /\ slots[s].agent = 0 /\ agents[slots[s].key] = s
        /\ \A w \in Users : users[w].pc # "idle" /\ users[w].slot = s => users[w].pc = "ensure"
    BY DEF Emptied
  <1>2. /\ slots[s].key \in Keys /\ s # 0 /\ Len(slots) \in Nat /\ Len(procs) \in Nat
    <2>1. slots[s] \in Slot /\ Len(slots) \in Nat /\ Len(procs) \in Nat
      BY <1>1 DEF IndInv, Types, SlotIds
    <2> QED BY <1>1, <2>1 DEF Slot, SlotIds
  <1>3. /\ p \in ProcIds' /\ s \in SlotIds' /\ procs'[p].key = procs[p].key
        /\ slots'[s].key = slots[s].key /\ slots'[s].agent = 0
    BY <1>1, <1>2 DEF Kept, Grows, Respects, SlotIds, ProcIds
  <1>4. agents'[slots[s].key] = s
    <2>1. SUFFICES ASSUME agents'[slots[s].key] # agents[slots[s].key] PROVE FALSE
      BY <1>1
    <2>2. \E w \in Users : users[w].pc \notin {"idle", "ensure"} /\ users[w].slot = s
      BY <1>1, <1>2, <2>1 DEF MapCalm
    <2> QED BY <1>1, <2>2
  <1>5. ASSUME NEW w \in Users, users'[w].pc # "idle", users'[w].slot = s
        PROVE  users'[w].pc = "ensure"
    <2>1. SUFFICES ASSUME users'[w].pc # "ensure" PROVE FALSE
      OBVIOUS
    <2>2. UserCalm(w)
      OBVIOUS
    <2>3. users[w].pc # "idle" /\ users[w].slot = s /\ users[w].pc # "ensure"
      BY <1>5, <2>1, <2>2 DEF UserCalm
    <2> QED BY <1>1, <2>3
  <1> QED BY <1>1, <1>3, <1>4, <1>5 DEF Emptied

\* A step keeps the invariant when the goroutine that takes it accounts for its
\* own part and for the processes that it closes or leaves.
LEMMA ClosingStep ==
    ASSUME IndInv, ClosingInv, NEW who, Kept(who), MapCalm(who), \A w \in Users : UserCalm(w),
           \A u \in Users : EvictClosing(u)' \/ (who # ByUser(u) /\ users'[u] = users[u]),
           \A s \in 1..MaxSlots : IdleClosing(s)' \/ (who # ByIdler(s) /\ idler'[s] = idler[s]),
           CloserClosing' \/ (who # ByCloser /\ closer' = closer),
           \A p \in ProcIds' : procs'[p].state = "closing" /\ procs'[p].why # "stopped" => Attended(p)'
    PROVE  ClosingInv'
  <1>1. ASSUME NEW u \in Users, who # ByUser(u), users'[u] = users[u]
        PROVE  EvictClosing(u)'
    <2> SUFFICES ASSUME users[u].pc = "evict", users[u].proc # 0
                 PROVE  Emptied(users[u].proc, users[u].victim)'
      BY <1>1 DEF EvictClosing
    <2>1. UserOK(u) /\ ByUser(u) # None
      BY NoneAssumption DEF IndInv
    <2>2. slots[users[u].victim].startMu = ByUser(u)
      BY <2>1 DEF UserOK
    <2>3. Emptied(users[u].proc, users[u].victim)
      BY DEF ClosingInv, EvictClosing
    <2>4. slots[users[u].victim].startMu \notin {None, who}
      BY <1>1, <2>1, <2>2
    <2>5. PICK p, s : p = users[u].proc /\ s = users[u].victim
      OBVIOUS
    <2>6. Emptied(p, s)'
      BY <2>3, <2>4, <2>5, EmptiedKept
    <2> QED BY <1>1, <2>5, <2>6
  <1>2. ASSUME NEW s \in 1..MaxSlots, who # ByIdler(s), idler'[s] = idler[s]
        PROVE  IdleClosing(s)'
    <2> SUFFICES ASSUME idler[s].pc = "closing" PROVE Emptied(idler[s].proc, s)'
      BY <1>2 DEF IdleClosing
    <2>1. IdlerOK(s) /\ ByIdler(s) # None
      BY NoneAssumption DEF IndInv
    <2>2. slots[s].startMu \notin {None, who}
      BY <1>2, <2>1 DEF IdlerOK
    <2>3. Emptied(idler[s].proc, s)
      BY DEF ClosingInv, IdleClosing
    <2>4. PICK p : p = idler[s].proc
      OBVIOUS
    <2>5. Emptied(p, s)'
      BY <2>2, <2>3, <2>4, EmptiedKept
    <2> QED BY <1>2, <2>4, <2>5
  <1>3. ASSUME who # ByCloser, closer' = closer
        PROVE  CloserClosing'
    <2> SUFFICES ASSUME closer.pc = "closing" PROVE CloserClosing'
      BY <1>3 DEF CloserClosing
    <2>1. PICK p, s : p = closer.proc /\ s = closer.slot
      OBVIOUS
    <2>2. /\ p \in ProcIds /\ procs[p].key = slots[s].key /\ slots[s].agent = 0
          /\ agents[slots[s].key] \in {0, s} /\ s \in SlotIds /\ slots[s].startMu = ByCloser
      BY <2>1 DEF ClosingInv, CloserClosing, IndInv, CloserOK
    <2>3. slots[s].key \in Keys /\ Len(procs) \in Nat
      <3>1. slots[s] \in Slot /\ Len(procs) \in Nat
        BY <2>2 DEF IndInv, Types, SlotIds
      <3> QED BY <3>1 DEF Slot
    <2>4. ByCloser \notin {None, who}
      BY <1>3, NoneAssumption
    <2>5. /\ p \in ProcIds' /\ procs'[p].key = procs[p].key /\ slots'[s].key = slots[s].key
          /\ slots'[s].agent = 0
      BY <2>2, <2>3, <2>4 DEF Kept, Grows, Respects, ProcIds
    <2>6. agents'[slots[s].key] \in {0, agents[slots[s].key]}
      BY <2>3 DEF MapCalm, Closed
    <2> QED BY <1>3, <2>1, <2>2, <2>5, <2>6 DEF CloserClosing
  <1> QED BY <1>1, <1>2, <1>3 DEF ClosingInv

\* A process that was being closed before the step, and is not by stopAgent.
WasClosing(p) == p \in ProcIds /\ procs[p].state = "closing" /\ procs[p].why # "stopped"

\* A step of user u.
LEMMA UserClosing ==
    ASSUME IndInv, ClosingInv, NEW u \in Users, Kept(ByUser(u)), MapCalm(ByUser(u)), UserCalm(u),
           \A v \in Users \ {u} : users'[v] = users[v], UNCHANGED <<idler, closer>>,
           EvictClosing(u)',
           \A p \in ProcIds' : procs'[p].state = "closing" /\ procs'[p].why # "stopped" =>
              \/ users'[u].pc \in {"closing", "evict"} /\ users'[u].proc = p
              \/ WasClosing(p) /\ (users[u].pc \in {"closing", "evict"} => users[u].proc # p)
    PROVE  ClosingInv'
  <1>1. \A w \in Users : UserCalm(w)
    BY DEF UserCalm
  <1>2. \A v \in Users : EvictClosing(v)' \/ (ByUser(u) # ByUser(v) /\ users'[v] = users[v])
    BY DEF ByUser
  <1>3. \A s \in 1..MaxSlots : ByUser(u) # ByIdler(s) /\ idler'[s] = idler[s]
    BY DEF ByUser, ByIdler
  <1>4. ByUser(u) # ByCloser /\ closer' = closer
    BY NotAUser
  <1>5. ASSUME NEW p \in ProcIds', procs'[p].state = "closing", procs'[p].why # "stopped"
        PROVE  Attended(p)'
    <2>1. CASE users'[u].pc \in {"closing", "evict"} /\ users'[u].proc = p
      BY <2>1 DEF Attended
    <2>2. CASE WasClosing(p) /\ (users[u].pc \in {"closing", "evict"} => users[u].proc # p)
      <3>1. Attended(p)
        BY <2>2 DEF WasClosing, ClosingInv
      <3> QED BY <2>2, <3>1 DEF Attended
    <2> QED BY <1>5, <2>1, <2>2
  <1> QED BY <1>1, <1>2, <1>3, <1>4, <1>5, ClosingStep

\* A step of another goroutine, or of a process.
LEMMA OtherClosing ==
    ASSUME IndInv, ClosingInv, NEW who, Kept(who), MapCalm(who), users' = users,
           \A u \in Users : who # ByUser(u),
           \A s \in 1..MaxSlots : IdleClosing(s)' \/ (who # ByIdler(s) /\ idler'[s] = idler[s]),
           CloserClosing' \/ (who # ByCloser /\ closer' = closer),
           \A p \in ProcIds' : procs'[p].state = "closing" /\ procs'[p].why # "stopped" =>
              \/ Attended(p)'
              \/ /\ WasClosing(p)
                 /\ \A s \in 1..MaxSlots :
                       idler[s].pc = "closing" /\ idler[s].proc = p => idler'[s] = idler[s]
                 /\ closer.pc = "closing" /\ closer.proc = p => closer' = closer
    PROVE  ClosingInv'
  <1>1. \A w \in Users : UserCalm(w)
    <2> TAKE w \in Users
    <2> QED BY DEF UserCalm
  <1>2. ASSUME NEW p \in ProcIds', procs'[p].state = "closing", procs'[p].why # "stopped"
        PROVE  Attended(p)'
    <2>1. CASE /\ WasClosing(p)
               /\ \A s \in 1..MaxSlots :
                     idler[s].pc = "closing" /\ idler[s].proc = p => idler'[s] = idler[s]
               /\ closer.pc = "closing" /\ closer.proc = p => closer' = closer
      <3>1. Attended(p)
        BY <2>1 DEF WasClosing, ClosingInv
      <3> QED BY <2>1, <3>1 DEF Attended
    <2> QED BY <1>2, <2>1
  <1> QED BY <1>1, <1>2, ClosingStep

\* The map is as it was.
LEMMA SameMap ==
    ASSUME NEW who, agents' = agents
    PROVE  MapCalm(who)
  BY DEF MapCalm

\* No process is closed.
LEMMA SameClosing ==
    ASSUME procs' = procs, NEW p \in ProcIds', procs'[p].state = "closing", procs'[p].why # "stopped"
    PROVE  WasClosing(p)
  BY DEF WasClosing, ProcIds

\* A process that is being closed is not gone.
LEMMA ClosingIsNotGone ==
    ASSUME NEW p, WasClosing(p)
    PROVE  ~Gone(p)
  BY DEF WasClosing, Gone

\* client.Close touches one process.
LEMMA ClosesOne ==
    ASSUME IndInv, NEW x \in ProcIds, NEW why \in {"exited", "idle", "stopped", "closed"},
           procs' = CloseOf(x, why)
    PROVE  /\ ProcIds' = ProcIds /\ procs'[x].key = procs[x].key
           /\ procs'[x].why = IF procs[x].why = "none" THEN why ELSE procs[x].why
           /\ \A p \in ProcIds' :
                 p # x /\ procs'[p].state = "closing" /\ procs'[p].why # "stopped" => WasClosing(p)
  <1>1. procs \in Seq(Proc)
    BY DEF IndInv, Types
  <1> QED BY <1>1, CloseOfProc DEF WasClosing

\* Closing the agent x of a slot nobody uses.
LEMMA ClosesUnused ==
    ASSUME IndInv, NEW s \in SlotIds, NEW x, x = slots[s].agent, CanStop(s), agents' = agents,
           procs' = CloseOf(x, "idle"),
           SlotIds' = SlotIds, slots'[s].key = slots[s].key, slots'[s].agent = 0,
           \A w \in Users : users'[w].pc # "idle" /\ users'[w].slot = s =>
              users[w].pc # "idle" /\ users[w].slot = s
    PROVE  /\ Emptied(x, s)'
           /\ \A p \in ProcIds' :
                 p # x /\ procs'[p].state = "closing" /\ procs'[p].why # "stopped" => WasClosing(p)
  <1>1. /\ x \in ProcIds /\ procs[x].key = slots[s].key /\ agents[slots[s].key] = s
        /\ slots[s].refs = 0
    BY DEF IndInv, SlotOK, CanStop
  <1>2. /\ ProcIds' = ProcIds /\ procs'[x].key = procs[x].key
        /\ \A p \in ProcIds' :
              p # x /\ procs'[p].state = "closing" /\ procs'[p].why # "stopped" => WasClosing(p)
    BY <1>1, ClosesOne
  <1>3. \A w \in Users : users'[w].pc # "idle" => users'[w].slot # s
    BY <1>1, UnusedSlot
  <1>4. Emptied(x, s)'
    BY <1>1, <1>2, <1>3 DEF Emptied
  <1> QED BY <1>2, <1>4

\* Steps of a user that close nothing, drop nothing and do not lead to "evict"
\* with a process.
LEMMA QuietClosing ==
    ASSUME IndInv, ClosingInv, NEW u \in Users, Kept(ByUser(u)), agents' = agents, UserCalm(u),
           \A v \in Users \ {u} : users'[v] = users[v], UNCHANGED <<idler, closer>>,
           users'[u].pc = "evict" => users'[u].proc = 0,
           users[u].pc = "closing" \/ (users[u].pc = "evict" /\ users[u].proc # 0) =>
              Gone(users[u].proc),
           \A p \in ProcIds' : procs'[p].state = "closing" => p \in ProcIds /\ procs[p] = procs'[p]
    PROVE  ClosingInv'
  <1>1. MapCalm(ByUser(u))
    BY SameMap
  <1>2. EvictClosing(u)'
    BY DEF EvictClosing
  <1>3. ASSUME NEW p \in ProcIds', procs'[p].state = "closing", procs'[p].why # "stopped"
        PROVE  WasClosing(p) /\ (users[u].pc \in {"closing", "evict"} => users[u].proc # p)
    <2>1. WasClosing(p)
      BY <1>3 DEF WasClosing
    <2>2. p # 0 /\ ~Gone(p)
      BY <2>1, ClosingIsNotGone DEF WasClosing, ProcIds
    <2> QED BY <2>1, <2>2
  <1> QED BY <1>1, <1>2, <1>3, UserClosing

LEMMA EnsureClosing ==
    ASSUME IndInv, ClosingInv, setting' = setting, NEW u \in Users, ensureAgent(u)
    PROVE  ClosingInv'
  <1>1. /\ users[u].pc = "ensure" /\ slots[users[u].slot].startMu = None
        /\ users' = [users EXCEPT ![u].pc = "look"] /\ users \in [Users -> User]
        /\ UNCHANGED <<agents, procs, stopper, idler, closer>>
    BY DEF ensureAgent, Lock, UserGoto, IndInv, Types
  <1>2. Kept(ByUser(u))
    BY EnsureKeeps
  <1>3. /\ users'[u].pc = "look" /\ users'[u].slot = users[u].slot
        /\ \A v \in Users \ {u} : users'[v] = users[v]
    BY <1>1 DEF User
  <1>4. UserCalm(u)
    BY <1>1, <1>3 DEF UserCalm
  <1>5. \A p \in ProcIds' : p \in ProcIds /\ procs[p] = procs'[p]
    BY <1>1 DEF ProcIds
  <1> QED BY <1>1, <1>2, <1>3, <1>4, <1>5, QuietClosing

LEMMA LookClosing ==
    ASSUME IndInv, ClosingInv, setting' = setting, NEW u \in Users, LookAtAgent(u)
    PROVE  ClosingInv'
  <1>0. PICK s, x : s = users[u].slot /\ x = slots[s].agent
    OBVIOUS
  <1>1. users[u].pc = "look" /\ UNCHANGED <<agents, stopper, idler, closer>>
    BY DEF LookAtAgent
  <1>2. Kept(ByUser(u)) /\ users \in [Users -> User] /\ s \in SlotIds
    BY <1>0, <1>1, LookKeeps, UserHas DEF IndInv, Types
  <1>3. CASE x = 0 \/ procs[x].state = "running"
    <2>1. /\ procs' = procs /\ users'[u].pc \in {"room", "using"} /\ users'[u].slot = users[u].slot
          /\ \A v \in Users \ {u} : users'[v] = users[v]
      BY <1>0, <1>2, <1>3 DEF LookAtAgent, UserGoto, User
    <2>2. UserCalm(u)
      BY <1>1, <2>1 DEF UserCalm
    <2>3. \A p \in ProcIds' : p \in ProcIds /\ procs[p] = procs'[p]
      BY <2>1 DEF ProcIds
    <2> QED BY <1>1, <1>2, <2>1, <2>2, <2>3, QuietClosing
  <1>4. CASE x # 0 /\ procs[x].state # "running"
    <2>1. /\ procs' = CloseOf(x, "exited") /\ users'[u].pc = "closing" /\ users'[u].proc = x
          /\ users'[u].slot = users[u].slot /\ \A v \in Users \ {u} : users'[v] = users[v]
      BY <1>0, <1>2, <1>4 DEF LookAtAgent, User
    <2>2. x \in ProcIds
      BY <1>0, <1>2, <1>4 DEF IndInv, SlotOK
    <2>3. \A p \in ProcIds' :
             p # x /\ procs'[p].state = "closing" /\ procs'[p].why # "stopped" => WasClosing(p)
      BY <2>1, <2>2, ClosesOne
    <2>4. UserCalm(u) /\ EvictClosing(u)' /\ MapCalm(ByUser(u))
      BY <1>1, <2>1, SameMap DEF UserCalm, EvictClosing
    <2> QED BY <1>1, <1>2, <2>1, <2>3, <2>4, UserClosing
  <1> QED BY <1>3, <1>4

LEMMA ExitedClosing ==
    ASSUME IndInv, ClosingInv, setting' = setting, NEW u \in Users, ExitedIsClosed(u)
    PROVE  ClosingInv'
  <1>1. /\ users[u].pc = "closing" /\ Gone(users[u].proc) /\ users \in [Users -> User]
        /\ users' = [users EXCEPT ![u] = [@ EXCEPT !.pc = "room", !.proc = 0]]
        /\ UNCHANGED <<agents, procs, stopper, idler, closer>>
    BY DEF ExitedIsClosed, IndInv, Types
  <1>2. Kept(ByUser(u))
    BY ExitedIsClosedKeeps
  <1>3. /\ users'[u].pc = "room" /\ users'[u].slot = users[u].slot
        /\ \A v \in Users \ {u} : users'[v] = users[v]
    BY <1>1 DEF User
  <1>4. UserCalm(u)
    BY <1>1, <1>3 DEF UserCalm
  <1>5. \A p \in ProcIds' : p \in ProcIds /\ procs[p] = procs'[p]
    BY <1>1 DEF ProcIds
  <1> QED BY <1>1, <1>2, <1>3, <1>4, <1>5, QuietClosing

LEMMA MakeRoomClosing ==
    ASSUME IndInv, ClosingInv, setting' = setting, NEW u \in Users, makeRoom(u)
    PROVE  ClosingInv'
  <1>1. /\ users[u].pc = "room" /\ UNCHANGED <<agents, procs, stopper, idler, closer>>
        /\ users \in [Users -> User] /\ UserOK(u)
    BY DEF makeRoom, IndInv, Types
  <1>2. Kept(ByUser(u)) /\ users[u].proc = 0
    BY <1>1, MakeRoomKeeps DEF UserOK
  <1>3. /\ users'[u].pc \in {"failed", "start", "evict"} /\ users'[u].slot = users[u].slot
        /\ users'[u].proc = 0 /\ \A v \in Users \ {u} : users'[v] = users[v]
    <2>1. \/ users' = [users EXCEPT ![u] = [@ EXCEPT !.pc = "failed", !.victim = 0]]
          \/ users' = [users EXCEPT ![u].pc = "start"]
          \/ \E v \in Others(u) : users' = [users EXCEPT ![u] = [@ EXCEPT !.pc = "evict", !.victim = v]]
      BY DEF makeRoom, Fail, UserGoto
    <2>2. PICK r : r = users[u]
      OBVIOUS
    <2>3. r \in User /\ r.proc = 0 /\ r.slot = users[u].slot
      BY <1>1, <1>2, <2>2
    <2>4. PICK q : /\ users' = [users EXCEPT ![u] = q]
                   /\ \/ q = [r EXCEPT !.pc = "failed", !.victim = 0]
                      \/ q = [r EXCEPT !.pc = "start"]
                      \/ \E v \in Others(u) : q = [r EXCEPT !.pc = "evict", !.victim = v]
      BY <1>1, <2>1, <2>2
    <2>5. q.pc \in {"failed", "start", "evict"} /\ q.slot = users[u].slot /\ q.proc = 0
      BY <2>3, <2>4 DEF User
    <2> QED BY <1>1, <2>4, <2>5
  <1>4. UserCalm(u)
    BY <1>1, <1>3 DEF UserCalm
  <1>5. \A p \in ProcIds' : p \in ProcIds /\ procs[p] = procs'[p]
    BY <1>1 DEF ProcIds
  <1> QED BY <1>1, <1>2, <1>3, <1>4, <1>5, QuietClosing

LEMMA EvictBeginsClosing ==
    ASSUME IndInv, ClosingInv, setting' = setting, NEW u \in Users, EvictBegins(u)
    PROVE  ClosingInv'
  <1>0. PICK v, x : v = users[u].victim /\ x = slots[v].agent
    OBVIOUS
  <1>1. /\ users[u].pc = "evict" /\ users[u].proc = 0 /\ UNCHANGED <<agents, stopper, idler, closer>>
        /\ users \in [Users -> User] /\ UserOK(u) /\ slots \in Seq(Slot)
    BY DEF EvictBegins, IndInv, Types
  <1>2. Kept(ByUser(u)) /\ v \in SlotIds /\ slots[v] \in Slot /\ v # users[u].slot
    BY <1>0, <1>1, EvictBeginsKeeps DEF UserOK, SlotIds
  <1>3. CASE CanStop(v)
    <2>1. /\ procs' = CloseOf(x, "idle") /\ slots' = [slots EXCEPT ![v].agent = 0]
          /\ users' = [users EXCEPT ![u].proc = x]
      BY <1>0, <1>3 DEF EvictBegins
    <2>2. /\ users'[u].pc = "evict" /\ users'[u].slot = users[u].slot /\ users'[u].victim = v
          /\ users'[u].proc = x /\ \A w \in Users \ {u} : users'[w] = users[w]
      BY <1>0, <1>1, <2>1 DEF User
    <2>3. SlotIds' = SlotIds /\ slots'[v].key = slots[v].key /\ slots'[v].agent = 0
      BY <1>1, <1>2, <2>1 DEF SlotIds, Slot
    <2>4. \A w \in Users : users'[w].pc # "idle" /\ users'[w].slot = v =>
             users[w].pc # "idle" /\ users[w].slot = v
      BY <1>1, <2>2
    <2>5. /\ Emptied(x, v)'
          /\ \A p \in ProcIds' :
                p # x /\ procs'[p].state = "closing" /\ procs'[p].why # "stopped" => WasClosing(p)
      BY <1>0, <1>1, <1>2, <1>3, <2>1, <2>3, <2>4, ClosesUnused
    <2>6. EvictClosing(u)' /\ UserCalm(u) /\ MapCalm(ByUser(u))
      BY <1>1, <2>2, <2>5, SameMap DEF EvictClosing, UserCalm
    <2>7. ASSUME NEW p \in ProcIds', procs'[p].state = "closing", procs'[p].why # "stopped"
          PROVE  \/ users'[u].pc \in {"closing", "evict"} /\ users'[u].proc = p
                 \/ WasClosing(p) /\ (users[u].pc \in {"closing", "evict"} => users[u].proc # p)
      <3>1. CASE p # x
        <4>1. WasClosing(p) /\ p # 0
          BY <2>5, <2>7, <3>1 DEF WasClosing, ProcIds
        <4> QED BY <1>1, <4>1
      <3> QED BY <2>2, <3>1
    <2> QED BY <1>1, <1>2, <2>2, <2>6, <2>7, UserClosing
  <1>4. CASE ~CanStop(v)
    <2>1. /\ procs' = procs
          /\ users' = [users EXCEPT ![u] = [@ EXCEPT !.pc = "failed", !.victim = 0]]
      BY <1>0, <1>4 DEF EvictBegins, Fail
    <2>2. /\ users'[u].pc = "failed" /\ users'[u].slot = users[u].slot
          /\ \A w \in Users \ {u} : users'[w] = users[w]
      BY <1>1, <2>1 DEF User
    <2>3. UserCalm(u)
      BY <1>1, <2>2 DEF UserCalm
    <2>4. \A p \in ProcIds' : p \in ProcIds /\ procs[p] = procs'[p]
      BY <2>1 DEF ProcIds
    <2> QED BY <1>1, <1>2, <2>2, <2>3, <2>4, QuietClosing
  <1> QED BY <1>3, <1>4

LEMMA EvictEndsClosing ==
    ASSUME IndInv, ClosingInv, setting' = setting, NEW u \in Users, EvictEnds(u)
    PROVE  ClosingInv'
  <1>0. PICK v : v = users[u].victim
    OBVIOUS
  <1>1. /\ users[u].pc = "evict" /\ users[u].proc # 0 /\ Gone(users[u].proc)
        /\ users' = [users EXCEPT ![u] = [@ EXCEPT !.pc = "start", !.proc = 0, !.victim = 0]]
        /\ agents' = IF slots[v].refs = 0 /\ slots[v].agent = 0 THEN dropSlot(v) ELSE agents
        /\ UNCHANGED <<procs, stopper, idler, closer>> /\ users \in [Users -> User] /\ UserOK(u)
    BY <1>0 DEF EvictEnds, IndInv, Types
  <1>2. Kept(ByUser(u)) /\ v \in SlotIds /\ slots[v].startMu = ByUser(u) /\ ByUser(u) # None
    BY <1>0, <1>1, EvictEndsKeeps, NoneAssumption DEF UserOK
  <1>3. /\ users'[u].pc = "start" /\ users'[u].slot = users[u].slot
        /\ \A w \in Users \ {u} : users'[w] = users[w]
    BY <1>1 DEF User
  <1>4. MapCalm(ByUser(u))
    <2>1. /\ agents' \in [Keys -> 0..MaxSlots] /\ AgentsQuiet
          /\ \A k \in Keys : agents'[k] # agents[k] => agents[k] = v
      BY <1>1, <1>2, Dropped
    <2> QED BY <1>2, <2>1 DEF MapCalm, AgentsQuiet
  <1>5. UserCalm(u) /\ EvictClosing(u)'
    BY <1>1, <1>3 DEF UserCalm, EvictClosing
  <1>6. ASSUME NEW p \in ProcIds', procs'[p].state = "closing", procs'[p].why # "stopped"
        PROVE  WasClosing(p) /\ users[u].proc # p
    BY <1>1, <1>6, SameClosing, ClosingIsNotGone
  <1> QED BY <1>1, <1>2, <1>3, <1>4, <1>5, <1>6, UserClosing

LEMMA StartBeginsClosing ==
    ASSUME IndInv, ClosingInv, setting' = setting, NEW u \in Users, StartBegins(u)
    PROVE  ClosingInv'
  <1>1. /\ users[u].pc = "start" /\ users \in [Users -> User] /\ procs \in Seq(Proc)
        /\ users' = [users EXCEPT ![u].proc = Len(procs) + 1]
        /\ UNCHANGED <<agents, slots, stopper, idler, closer>>
    BY DEF StartBegins, IndInv, Types
  <1>2. PICK n : n = [key |-> setting.keyOf[u], state |-> "starting", why |-> "none"]
    OBVIOUS
  <1>3. procs' = Append(procs, n) /\ n.state = "starting" /\ n \in Proc
    <2>1. setting.keyOf[u] \in Keys
      BY <1>1, UserHas
    <2> QED BY <1>2, <2>1 DEF StartBegins, Proc
  <1>4. Kept(ByUser(u))
    BY StartBeginsKeeps
  <1>5. /\ users'[u].pc = "start" /\ users'[u].slot = users[u].slot
        /\ \A w \in Users \ {u} : users'[w] = users[w]
    BY <1>1 DEF User
  <1>6. UserCalm(u)
    BY <1>1, <1>5 DEF UserCalm
  <1>7. \A p \in ProcIds' : procs'[p].state = "closing" => p \in ProcIds /\ procs[p] = procs'[p]
    BY <1>1, <1>3 DEF ProcIds
  <1> QED BY <1>1, <1>4, <1>5, <1>6, <1>7, QuietClosing

LEMMA StartEndsClosing ==
    ASSUME IndInv, ClosingInv, setting' = setting, NEW u \in Users, StartEnds(u)
    PROVE  ClosingInv'
  <1>0. PICK x : x = users[u].proc
    OBVIOUS
  <1>1. /\ users[u].pc = "start" /\ x # 0 /\ users \in [Users -> User] /\ procs \in Seq(Proc)
        /\ UserOK(u) /\ UNCHANGED <<agents, stopper, idler, closer>>
    BY <1>0 DEF StartEnds, IndInv, Types
  <1>2. x \in ProcIds
    BY <1>0, <1>1 DEF UserOK
  <1>3. Kept(ByUser(u))
    BY StartEndsKeeps
  <1>4. /\ \/ procs' = [procs EXCEPT ![x].state = "running"]
           \/ procs' = [procs EXCEPT ![x] = [@ EXCEPT !.state = "gone", !.why = "failed"]]
        /\ \/ users' = [users EXCEPT ![u].pc = "using"]
           \/ users' = [users EXCEPT ![u] = [@ EXCEPT !.pc = "failed", !.victim = 0]]
    BY <1>0 DEF StartEnds, Fail, UserGoto
  <1>5. /\ users'[u].pc \in {"using", "failed"} /\ users'[u].slot = users[u].slot
        /\ \A w \in Users \ {u} : users'[w] = users[w]
    BY <1>1, <1>4 DEF User
  <1>6. UserCalm(u)
    BY <1>1, <1>5 DEF UserCalm
  <1>7. \A p \in ProcIds' : procs'[p].state = "closing" => p \in ProcIds /\ procs[p] = procs'[p]
    <2>1. PICK r : /\ procs' = [procs EXCEPT ![x] = r] /\ r \in Proc
                   /\ r.state \in {"running", "gone"}
      <3>1. procs[x] \in Proc
        BY <1>1, <1>2 DEF ProcIds
      <3>2. CASE procs' = [procs EXCEPT ![x].state = "running"]
        <4> DEFINE r == [procs[x] EXCEPT !.state = "running"]
        <4>1. r \in Proc /\ r.state = "running"
          BY <3>1 DEF Proc
        <4>2. procs' = [procs EXCEPT ![x] = r]
          BY <3>2
        <4> QED BY <4>1, <4>2
      <3>3. CASE procs' = [procs EXCEPT ![x] = [@ EXCEPT !.state = "gone", !.why = "failed"]]
        <4> DEFINE r == [procs[x] EXCEPT !.state = "gone", !.why = "failed"]
        <4>1. r \in Proc /\ r.state = "gone"
          BY <3>1 DEF Proc
        <4>2. procs' = [procs EXCEPT ![x] = r]
          BY <3>3
        <4> QED BY <4>1, <4>2
      <3> QED BY <1>4, <3>2, <3>3
    <2>2. ProcIds' = ProcIds /\ procs'[x] = r /\ \A y \in ProcIds \ {x} : procs'[y] = procs[y]
      BY <1>1, <1>2, <2>1, ProcReplaced
    <2> QED BY <2>1, <2>2
  <1> QED BY <1>1, <1>3, <1>5, <1>6, <1>7, QuietClosing

LEMMA ReleaseClosing ==
    ASSUME IndInv, ClosingInv, setting' = setting, NEW u \in Users, releaseAgent(u)
    PROVE  ClosingInv'
  <1>0. PICK s : s = users[u].slot
    OBVIOUS
  <1>1. /\ users[u].pc \in {"using", "failed"} /\ UNCHANGED <<procs, stopper, idler, closer>>
        /\ users' = [users EXCEPT ![u] = [NoUser EXCEPT !.acquires = users[u].acquires]]
        /\ agents' \in {agents, dropSlot(s)}
        /\ users \in [Users -> User] /\ agents \in [Keys -> 0..MaxSlots]
    BY <1>0 DEF releaseAgent, IndInv, Types
  <1>2. Kept(ByUser(u)) /\ s \in SlotIds
    BY <1>0, <1>1, ReleaseKeeps, UserHas
  <1>3. users'[u].pc = "idle" /\ \A w \in Users \ {u} : users'[w] = users[w]
    BY <1>1 DEF NoUser
  <1>4. MapCalm(ByUser(u))
    <2>1. \A k \in Keys : agents'[k] # agents[k] => agents'[k] = 0 /\ agents[k] = s
      BY <1>1 DEF dropSlot
    <2>2. users[u].pc \notin {"idle", "ensure"} /\ users[u].slot = s
      BY <1>0, <1>1
    <2> QED BY <1>2, <2>1, <2>2 DEF MapCalm
  <1>5. UserCalm(u) /\ EvictClosing(u)'
    BY <1>3 DEF UserCalm, EvictClosing
  <1>6. ASSUME NEW p \in ProcIds', procs'[p].state = "closing", procs'[p].why # "stopped"
        PROVE  WasClosing(p)
    BY <1>1, <1>6, SameClosing
  <1> QED BY <1>1, <1>2, <1>3, <1>4, <1>5, <1>6, UserClosing

LEMMA AcquireClosing ==
    ASSUME IndInv, ClosingInv, setting' = setting, NEW u \in Users, acquireAgent(u)
    PROVE  ClosingInv'
  <1>0. PICK k, s : k = setting.keyOf[u] /\ s = IF agents[k] = 0 THEN Len(slots) + 1 ELSE agents[k]
    BY Zenon
  <1>1. /\ users[u].pc = "idle" /\ ~Closed /\ agents' = [agents EXCEPT ![k] = s]
        /\ users' = [users EXCEPT ![u].pc = "ensure", ![u].slot = s, ![u].acquires = @ + 1]
        /\ UNCHANGED <<procs, stopper, idler, closer>>
        /\ users \in [Users -> User] /\ agents \in [Keys -> 0..MaxSlots]
    BY <1>0 DEF acquireAgent, IndInv, Types
  <1>2. Kept(ByUser(u))
    BY AcquireKeeps
  <1>3. users'[u].pc = "ensure" /\ \A w \in Users \ {u} : users'[w] = users[w]
    BY <1>1 DEF User
  <1>4. MapCalm(ByUser(u))
    BY <1>0, <1>1 DEF MapCalm
  <1>5. UserCalm(u) /\ EvictClosing(u)'
    BY <1>3 DEF UserCalm, EvictClosing
  <1>6. ASSUME NEW p \in ProcIds', procs'[p].state = "closing", procs'[p].why # "stopped"
        PROVE  WasClosing(p)
    BY <1>1, <1>6, SameClosing
  <1> QED BY <1>1, <1>2, <1>3, <1>4, <1>5, <1>6, UserClosing

LEMMA CancelTimerClosing ==
    ASSUME IndInv, ClosingInv, setting' = setting, NEW u \in Users, CancelTimer(u)
    PROVE  ClosingInv'
  <1>1. /\ users[u].pc = "using" /\ users' = [users EXCEPT ![u].canceled = TRUE]
        /\ UNCHANGED <<agents, slots, procs, idler, closer>> /\ users \in [Users -> User]
    BY DEF CancelTimer, IndInv, Types
  <1>2. Kept(ByUser(u))
    BY CancelTimerKeeps
  <1>3. /\ users'[u].pc = "using" /\ users'[u].slot = users[u].slot
        /\ \A w \in Users \ {u} : users'[w] = users[w]
    BY <1>1 DEF User
  <1>4. UserCalm(u)
    BY <1>1, <1>3 DEF UserCalm
  <1>5. \A p \in ProcIds' : p \in ProcIds /\ procs[p] = procs'[p]
    BY <1>1 DEF ProcIds
  <1> QED BY <1>1, <1>2, <1>3, <1>4, <1>5, QuietClosing

\* Steps of others that touch neither the map nor a process.
LEMMA StillClosing ==
    ASSUME IndInv, ClosingInv, NEW who, Kept(who), UNCHANGED <<agents, procs, users>>,
           \A u \in Users : who # ByUser(u),
           \A s \in 1..MaxSlots :
              \/ who # ByIdler(s) /\ idler'[s] = idler[s]
              \/ idler'[s].pc # "closing" /\ (idler[s].pc = "closing" => Gone(idler[s].proc)),
           \/ who # ByCloser /\ closer' = closer
           \/ closer'.pc # "closing" /\ (closer.pc = "closing" => Gone(closer.proc))
    PROVE  ClosingInv'
  <1>1. MapCalm(who)
    BY SameMap
  <1>2. \A s \in 1..MaxSlots : IdleClosing(s)' \/ (who # ByIdler(s) /\ idler'[s] = idler[s])
    BY DEF IdleClosing
  <1>3. CloserClosing' \/ (who # ByCloser /\ closer' = closer)
    BY DEF CloserClosing
  <1>4. ASSUME NEW p \in ProcIds', procs'[p].state = "closing", procs'[p].why # "stopped"
        PROVE  /\ WasClosing(p)
               /\ \A s \in 1..MaxSlots :
                     idler[s].pc = "closing" /\ idler[s].proc = p => idler'[s] = idler[s]
               /\ closer.pc = "closing" /\ closer.proc = p => closer' = closer
    <2>1. WasClosing(p) /\ ~Gone(p)
      BY <1>4, SameClosing, ClosingIsNotGone
    <2> QED BY <2>1
  <1> QED BY <1>1, <1>2, <1>3, <1>4, OtherClosing

LEMMA IdleTimerClosing ==
    ASSUME IndInv, ClosingInv, setting' = setting, NEW s \in SlotIds, IdleTimer(s)
    PROVE  ClosingInv'
  <1>1. /\ idler[s].pc = "none" /\ idler' = [idler EXCEPT ![s].pc = "lock"]
        /\ UNCHANGED <<agents, procs, users, stopper, closer>>
    BY DEF IdleTimer
  <1>2. Goroutines /\ Kept(None)
    BY SlotHas, IdleTimerKeeps
  <1>3. \A t \in 1..MaxSlots : \/ None # ByIdler(t) /\ idler'[t] = idler[t]
                               \/ idler'[t].pc # "closing" /\ idler[t].pc # "closing"
    BY <1>1, <1>2, NotAUser DEF Goroutines
  <1> QED BY <1>1, <1>2, <1>3, NotAUser, StillClosing

LEMMA StopIdleClosing ==
    ASSUME IndInv, ClosingInv, setting' = setting, NEW s \in SlotIds, StopIdle(s)
    PROVE  ClosingInv'
  <1>1. /\ idler[s].pc = "lock" /\ UNCHANGED <<agents, users, stopper, closer>>
    BY DEF StopIdle
  <1>2. /\ Kept(ByIdler(s)) /\ slots[s] \in Slot /\ slots \in Seq(Slot) /\ s \in 1..MaxSlots
        /\ Goroutines
    BY SlotHas, StopIdleKeeps
  <1>3. PICK x : x = slots[s].agent
    OBVIOUS
  <1>4. CASE CanStop(s)
    <2>1. /\ procs' = CloseOf(x, "idle")
          /\ slots' = [slots EXCEPT ![s] = [@ EXCEPT !.agent = 0, !.startMu = ByIdler(s)]]
          /\ idler' = [idler EXCEPT ![s] = [pc |-> "closing", proc |-> x]]
      BY <1>3, <1>4 DEF StopIdle
    <2>2. /\ idler'[s].pc = "closing" /\ idler'[s].proc = x
          /\ \A t \in 1..MaxSlots : t # s => idler'[t] = idler[t]
      BY <1>2, <2>1 DEF Goroutines
    <2>3. SlotIds' = SlotIds /\ slots'[s].key = slots[s].key /\ slots'[s].agent = 0
      BY <1>2, <2>1 DEF SlotIds, Slot
    <2>4. /\ Emptied(x, s)'
          /\ \A p \in ProcIds' :
                p # x /\ procs'[p].state = "closing" /\ procs'[p].why # "stopped" => WasClosing(p)
      BY <1>1, <1>3, <1>4, <2>1, <2>3, ClosesUnused
    <2>5. \A t \in 1..MaxSlots : IdleClosing(t)' \/ (ByIdler(s) # ByIdler(t) /\ idler'[t] = idler[t])
      BY <1>2, <2>2, <2>4, IdlersDiffer DEF IdleClosing
    <2>6. Attended(x)'
      BY <1>2, <2>2 DEF Attended
    <2>7. ASSUME NEW p \in ProcIds', procs'[p].state = "closing", procs'[p].why # "stopped"
          PROVE  \/ Attended(p)'
                 \/ /\ WasClosing(p)
                    /\ \A t \in 1..MaxSlots :
                          idler[t].pc = "closing" /\ idler[t].proc = p => idler'[t] = idler[t]
                    /\ closer.pc = "closing" /\ closer.proc = p => closer' = closer
      <3>1. CASE p = x
        BY <2>6, <3>1
      <3>2. CASE p # x
        BY <1>1, <2>2, <2>4, <2>7, <3>2
      <3> QED BY <3>1, <3>2
    <2>8. MapCalm(ByIdler(s))
      BY <1>1, SameMap
    <2> QED BY <1>1, <1>2, <2>5, <2>7, <2>8, IdlersDiffer, OtherClosing
  <1>5. CASE ~CanStop(s)
    <2>1. procs' = procs /\ idler' = [idler EXCEPT ![s] = NoIdler]
      BY <1>5 DEF StopIdle
    <2>2. \A t \in 1..MaxSlots : \/ ByIdler(s) # ByIdler(t) /\ idler'[t] = idler[t]
                                 \/ idler'[t].pc # "closing" /\ idler[t].pc # "closing"
      BY <1>1, <1>2, <2>1, IdlersDiffer DEF Goroutines, NoIdler
    <2> QED BY <1>1, <1>2, <2>1, <2>2, IdlersDiffer, StillClosing
  <1> QED BY <1>4, <1>5

LEMMA IdleStoppedClosing ==
    ASSUME IndInv, ClosingInv, setting' = setting, NEW s \in SlotIds, IdleStopped(s)
    PROVE  ClosingInv'
  <1>1. /\ idler[s].pc = "closing" /\ Gone(idler[s].proc)
        /\ idler' = [idler EXCEPT ![s] = NoIdler] /\ UNCHANGED <<procs, users, stopper, closer>>
        /\ agents' = IF slots[s].refs = 0 /\ slots[s].agent = 0 THEN dropSlot(s) ELSE agents
    BY DEF IdleStopped
  <1>2. Kept(ByIdler(s)) /\ s \in 1..MaxSlots /\ Goroutines
    BY SlotHas, IdleStoppedKeeps
  <1>3. slots[s].startMu = ByIdler(s)
    BY <1>1, <1>2 DEF IndInv, IdlerOK
  <1>4. /\ idler'[s].pc = "none" /\ \A t \in 1..MaxSlots : t # s => idler'[t] = idler[t]
    BY <1>1, <1>2 DEF Goroutines, NoIdler
  <1>5. MapCalm(ByIdler(s))
    <2>1. /\ agents' \in [Keys -> 0..MaxSlots] /\ AgentsQuiet
          /\ \A k \in Keys : agents'[k] # agents[k] => agents[k] = s
      BY <1>1, Dropped
    <2> QED BY <1>2, <1>3, <2>1, IdlersDiffer DEF MapCalm, AgentsQuiet
  <1>6. \A t \in 1..MaxSlots : IdleClosing(t)' \/ (ByIdler(s) # ByIdler(t) /\ idler'[t] = idler[t])
    BY <1>2, <1>4, IdlersDiffer DEF IdleClosing
  <1>7. ASSUME NEW p \in ProcIds', procs'[p].state = "closing", procs'[p].why # "stopped"
        PROVE  /\ WasClosing(p)
               /\ \A t \in 1..MaxSlots :
                     idler[t].pc = "closing" /\ idler[t].proc = p => idler'[t] = idler[t]
    <2>1. WasClosing(p) /\ ~Gone(p)
      BY <1>1, <1>7, SameClosing, ClosingIsNotGone
    <2> QED BY <1>1, <1>4, <2>1
  <1> QED BY <1>1, <1>2, <1>5, <1>6, <1>7, IdlersDiffer, OtherClosing

LEMMA StopperFindsClosing ==
    ASSUME IndInv, ClosingInv, setting' = setting, NEW u \in Users, StopperFinds(u)
    PROVE  ClosingInv'
  <1>1. UNCHANGED <<agents, slots, procs, users, idler, closer>>
    BY DEF StopperFinds
  <1>2. Kept(None)
    BY StopperFindsKeeps
  <1> QED BY <1>1, <1>2, NotAUser, StillClosing

LEMMA StopAgentClosing ==
    ASSUME IndInv, ClosingInv, setting' = setting, NEW u \in Users, StopAgent(u)
    PROVE  ClosingInv'
  <1>0. PICK x : x = stopper[u].proc
    OBVIOUS
  <1>1. /\ stopper[u].pc = "lock" /\ UNCHANGED <<agents, users, idler, closer>>
        /\ procs' = procs \/ procs' = CloseOf(x, "stopped")
    BY <1>0 DEF StopAgent
  <1>2. Kept(ByStopper(u)) /\ x \in ProcIds
    BY <1>0, <1>1, StopAgentKeeps DEF IndInv, StopperOK
  <1>3. CASE procs' = procs
    BY <1>1, <1>2, <1>3, StoppersDiffer, StillClosing
  <1>4. CASE procs' = CloseOf(x, "stopped")
    <2>1. /\ procs'[x].why = IF procs[x].why = "none" THEN "stopped" ELSE procs[x].why
          /\ \A p \in ProcIds' :
                p # x /\ procs'[p].state = "closing" /\ procs'[p].why # "stopped" => WasClosing(p)
      BY <1>2, <1>4, ClosesOne
    <2>2. procs'[x].state = "closing" /\ procs'[x].why # "stopped" => WasClosing(x)
      <3>1. SUFFICES ASSUME procs'[x].state = "closing", procs'[x].why # "stopped"
                     PROVE  WasClosing(x)
        OBVIOUS
      <3>2. procs[x].why \notin {"none", "stopped"}
        BY <2>1, <3>1
      <3>3. procs \in Seq(Proc) /\ procs[x] \in Proc /\ ProcOK(x)
        BY <1>2 DEF IndInv, Types, ProcIds
      <3>4. procs[x].state \in {"closing", "gone"}
        BY <3>2, <3>3 DEF ProcOK, Live, Proc
      <3>5. procs'[x] = Closing(procs[x], "stopped")
        BY <1>2, <1>4, <3>3 DEF CloseOf, ProcIds
      <3>6. procs[x].state # "gone"
        BY <3>1, <3>3, <3>5 DEF Closing, Proc
      <3> QED BY <1>2, <3>2, <3>4, <3>6 DEF WasClosing
    <2>3. MapCalm(ByStopper(u))
      BY <1>1, SameMap
    <2>4. \A p \in ProcIds' :
             procs'[p].state = "closing" /\ procs'[p].why # "stopped" => WasClosing(p)
      BY <2>1, <2>2
    <2> QED BY <1>1, <1>2, <2>3, <2>4, StoppersDiffer, OtherClosing
  <1> QED BY <1>1, <1>3, <1>4

LEMMA AgentStoppedClosing ==
    ASSUME IndInv, ClosingInv, setting' = setting, NEW u \in Users, AgentStopped(u)
    PROVE  ClosingInv'
  <1>1. UNCHANGED <<agents, procs, users, idler, closer>>
    BY DEF AgentStopped
  <1>2. Kept(ByStopper(u))
    BY AgentStoppedKeeps
  <1> QED BY <1>1, <1>2, StoppersDiffer, StillClosing

LEMMA CloseClosing ==
    ASSUME IndInv, ClosingInv, setting' = setting, Close
    PROVE  ClosingInv'
  <1>1. /\ closer.pc = "none" /\ UNCHANGED <<agents, slots, procs, users, stopper, idler>>
        /\ closer' = [closer EXCEPT !.pc = "next", !.todo = {agents[k] : k \in Keys} \ {0}]
    BY DEF Close
  <1>2. closer'.pc = "next"
    BY <1>1 DEF IndInv, Types
  <1>3. Kept(None)
    BY CloseKeeps
  <1> QED BY <1>1, <1>2, <1>3, NotAUser, StillClosing

LEMMA CloseSlotClosing ==
    ASSUME IndInv, ClosingInv, setting' = setting, CloseSlot
    PROVE  ClosingInv'
  <1>1. /\ closer.pc = "next" /\ UNCHANGED <<agents, users, stopper, idler>>
        /\ Kept(ByCloser) /\ closer.todo \subseteq SlotIds
    BY CloseSlotKeeps DEF CloseSlot, IndInv, CloserOK
  <1>2. CASE procs' = procs /\ closer'.pc # "closing"
    BY <1>1, <1>2, NotAUser, StillClosing
  <1>3. ASSUME NEW s \in closer.todo, slots[s].agent # 0,
               closer' = [pc |-> "closing", todo |-> closer.todo \ {s}, slot |-> s,
                          proc |-> slots[s].agent],
               slots' = [slots EXCEPT ![s] = [@ EXCEPT !.agent = 0, !.idle = FALSE,
                                                       !.startMu = ByCloser]],
               procs' = CloseOf(slots[s].agent, "closed")
        PROVE  ClosingInv'
    <2>1. PICK x : x = slots[s].agent
      OBVIOUS
    <2>2. /\ s \in SlotIds /\ slots[s] \in Slot /\ slots \in Seq(Slot) /\ x \in ProcIds
          /\ procs[x].key = slots[s].key /\ agents[slots[s].key] = s
      BY <1>1, <1>3, <2>1, SlotHas DEF SlotOK
    <2>3. /\ ProcIds' = ProcIds /\ procs'[x].key = procs[x].key
          /\ \A p \in ProcIds' :
                p # x /\ procs'[p].state = "closing" /\ procs'[p].why # "stopped" => WasClosing(p)
      BY <1>3, <2>1, <2>2, ClosesOne
    <2>4. slots'[s].key = slots[s].key /\ slots'[s].agent = 0
      BY <1>3, <2>2 DEF SlotIds, Slot
    <2>5. closer'.pc = "closing" /\ closer'.slot = s /\ closer'.proc = x
      BY <1>3, <2>1
    <2>6. CloserClosing' /\ Attended(x)'
      BY <1>1, <2>2, <2>3, <2>4, <2>5 DEF CloserClosing, Attended
    <2>7. ASSUME NEW p \in ProcIds', procs'[p].state = "closing", procs'[p].why # "stopped"
          PROVE  Attended(p)' \/ (WasClosing(p) /\ closer.pc # "closing")
      <3>1. CASE p = x
        BY <2>6, <3>1
      <3>2. CASE p # x
        BY <1>1, <2>3, <2>7, <3>2
      <3> QED BY <3>1, <3>2
    <2>8. MapCalm(ByCloser)
      BY <1>1, SameMap
    <2>9. \A p \in ProcIds' : procs'[p].state = "closing" /\ procs'[p].why # "stopped" =>
              \/ Attended(p)'
              \/ /\ WasClosing(p)
                 /\ \A t \in 1..MaxSlots :
                       idler[t].pc = "closing" /\ idler[t].proc = p => idler'[t] = idler[t]
                 /\ closer.pc = "closing" /\ closer.proc = p => closer' = closer
      BY <1>1, <2>7
    <2> QED BY <1>1, <2>6, <2>8, <2>9, NotAUser, OtherClosing
  <1>4. \/ procs' = procs /\ closer'.pc # "closing"
        \/ \E s \in closer.todo :
              /\ slots[s].agent # 0
              /\ closer' = [pc |-> "closing", todo |-> closer.todo \ {s}, slot |-> s,
                            proc |-> slots[s].agent]
              /\ slots' = [slots EXCEPT ![s] = [@ EXCEPT !.agent = 0, !.idle = FALSE,
                                                         !.startMu = ByCloser]]
              /\ procs' = CloseOf(slots[s].agent, "closed")
    <2>1. closer \in [pc : {"none", "next", "closing", "over"}, todo : SUBSET (1..MaxSlots),
                      slot : 0..MaxSlots, proc : 0..MaxProcs]
      BY DEF IndInv, Types
    <2>2. CASE closer' = [closer EXCEPT !.pc = "over"] /\ procs' = procs
      BY <2>1, <2>2
    <2>3. CASE (\E s \in closer.todo : closer' = [closer EXCEPT !.todo = @ \ {s}]) /\ procs' = procs
      BY <1>1, <2>1, <2>3
    <2> QED BY <2>2, <2>3 DEF CloseSlot
  <1> QED BY <1>2, <1>3, <1>4

LEMMA SlotClosedClosing ==
    ASSUME IndInv, ClosingInv, setting' = setting, SlotClosed
    PROVE  ClosingInv'
  <1>1. /\ closer.pc = "closing" /\ Gone(closer.proc)
        /\ closer' = [closer EXCEPT !.pc = "next", !.slot = 0, !.proc = 0]
        /\ UNCHANGED <<agents, procs, users, stopper, idler>>
    BY DEF SlotClosed
  <1>2. closer'.pc = "next"
    BY <1>1 DEF IndInv, Types
  <1>3. Kept(ByCloser)
    BY SlotClosedKeeps
  <1> QED BY <1>1, <1>2, <1>3, NotAUser, StillClosing

\* Steps of a process.
LEMMA ProcClosing ==
    ASSUME IndInv, ClosingInv, setting' = setting, NEW x \in ProcIds, ProcExits(x) \/ ProcGone(x)
    PROVE  ClosingInv'
  <1>1. /\ UNCHANGED <<agents, slots, users, stopper, idler, closer>>
        /\ Kept(None) /\ procs \in Seq(Proc) /\ procs[x] \in Proc
    <2>1. Kept(None)
      BY ProcExitsKeeps, ProcGoneKeeps
    <2> QED BY <2>1 DEF ProcExits, ProcGone, IndInv, Types, ProcIds
  <1>2. PICK r \in Proc : procs' = [procs EXCEPT ![x] = r] /\ r.state \in {"exited", "gone"}
    <2>1. PICK st \in {"exited", "gone"} : procs' = [procs EXCEPT ![x].state = st]
      BY DEF ProcExits, ProcGone
    <2> DEFINE r == [procs[x] EXCEPT !.state = st]
    <2>2. r \in Proc /\ r.state = st
      BY <1>1 DEF Proc
    <2>3. procs' = [procs EXCEPT ![x] = r]
      BY <2>1
    <2> QED BY <2>2, <2>3
  <1>3. ProcIds' = ProcIds /\ procs'[x] = r /\ \A p \in ProcIds \ {x} : procs'[p] = procs[p]
    BY <1>1, <1>2, ProcReplaced
  <1>4. \A p \in ProcIds' : procs'[p].state = "closing" /\ procs'[p].why # "stopped" => WasClosing(p)
    BY <1>2, <1>3 DEF WasClosing
  <1>5. MapCalm(None)
    BY <1>1, SameMap
  <1> QED BY <1>1, <1>4, <1>5, NotAUser, OtherClosing

LEMMA NextClosing == IndInv /\ ClosingInv /\ [Next]_vars => ClosingInv'
  <1> SUFFICES ASSUME IndInv, ClosingInv, [Next]_vars PROVE ClosingInv'
    OBVIOUS
  <1>1. CASE UNCHANGED vars
    <2>1. SlotIds' = SlotIds /\ ProcIds' = ProcIds
      BY <1>1 DEF vars, SlotIds, ProcIds
    <2>2. \A u \in Users : EvictClosing(u)'
      BY <1>1, <2>1 DEF vars, ClosingInv, EvictClosing, Emptied
    <2>3. \A s \in 1..MaxSlots : IdleClosing(s)'
      BY <1>1, <2>1 DEF vars, ClosingInv, IdleClosing, Emptied
    <2>4. CloserClosing'
      BY <1>1, <2>1 DEF vars, ClosingInv, CloserClosing
    <2>5. \A p \in ProcIds' : procs'[p].state = "closing" /\ procs'[p].why # "stopped" => Attended(p)'
      BY <1>1, <2>1 DEF vars, ClosingInv, Attended
    <2> QED BY <2>2, <2>3, <2>4, <2>5 DEF ClosingInv
  <1>2. CASE Arrivals
    <2>1. setting' = setting
      BY <1>2 DEF Arrivals
    <2> QED BY <1>2, <2>1, AcquireClosing, ReleaseClosing, CancelTimerClosing, ProcClosing,
               CloseClosing DEF Arrivals
  <1>3. CASE Progress
    <2>1. setting' = setting
      BY <1>3 DEF Progress
    <2>2. ASSUME NEW u \in Users, Acquire(u) PROVE ClosingInv'
      BY <2>1, <2>2, EnsureClosing, LookClosing, ExitedClosing, MakeRoomClosing,
         EvictBeginsClosing, EvictEndsClosing, StartBeginsClosing, StartEndsClosing,
         ReleaseClosing DEF Acquire
    <2> QED BY <1>3, <2>1, <2>2, StopperFindsClosing, StopAgentClosing, AgentStoppedClosing,
               IdleTimerClosing, StopIdleClosing, IdleStoppedClosing, ProcClosing,
               CloseSlotClosing, SlotClosedClosing DEF Progress
  <1> QED BY <1>1, <1>2, <1>3 DEF Next

LEMMA InitClosing == Init => ClosingInv
  <1> SUFFICES ASSUME Init PROVE ClosingInv
    OBVIOUS
  <1>1. ProcIds = {}
    BY DEF Init, ProcIds
  <1> QED BY <1>1 DEF Init, ClosingInv, EvictClosing, IdleClosing, CloserClosing, NoUser, NoIdler

\* Where a process is that exists and is not ended by stopAgent: in a slot, or
\* taken out of it, or not yet in it, by the goroutine that holds its startMu.
Home(p, s) ==
    /\ s \in SlotIds /\ slots[s].key = procs[p].key
    /\ \/ slots[s].agent = p /\ agents[procs[p].key] = s
       \/ /\ slots[s].agent = 0 /\ agents[procs[p].key] = s
          /\ \/ \E u \in Users : slots[s].startMu = ByUser(u) /\ users[u].proc = p
             \/ s \in 1..MaxSlots /\ slots[s].startMu = ByIdler(s) /\ idler[s].proc = p
       \/ /\ slots[s].agent = 0 /\ agents[procs[p].key] \in {0, s}
          /\ slots[s].startMu = ByCloser /\ closer.proc = p /\ closer.slot = s

LEMMA HasHome ==
    ASSUME IndInv, ClosingInv, NEW p \in ProcIds, Exists(p), ~BeingStopped(p)
    PROVE  \E s : Home(p, s)
  <1>1. procs[p] \in Proc /\ ProcOK(p) /\ p # 0
    BY DEF IndInv, Types, ProcIds
  <1>2. CASE procs[p].state = "starting"
    <2>1. PICK u \in Users : users[u].pc = "start" /\ users[u].proc = p
      BY <1>1, <1>2 DEF ProcOK
    <2>2. UserOK(u)
      BY DEF IndInv
    <2>3. Home(p, users[u].slot)
      BY <1>1, <2>1, <2>2 DEF UserOK, Home
    <2> QED BY <2>3
  <1>3. CASE procs[p].state \in {"running", "exited"}
    <2>1. /\ agents[procs[p].key] \in SlotIds /\ slots[agents[procs[p].key]].agent = p
          /\ procs[p].key \in Keys
      BY <1>3, Served
    <2>2. slots[agents[procs[p].key]].key = procs[p].key
      BY <1>1, <1>3, <2>1 DEF ProcOK, IndInv, MapOK
    <2>3. Home(p, agents[procs[p].key])
      BY <2>1, <2>2 DEF Home
    <2> QED BY <2>3
  <1>4. CASE procs[p].state = "closing"
    <2>1. Attended(p)
      BY <1>4 DEF ClosingInv, BeingStopped
    <2>2. ASSUME NEW u \in Users, users[u].pc = "closing", users[u].proc = p
          PROVE  Home(p, users[u].slot)
      <3>1. /\ UserOK(u) /\ users[u].slot \in SlotIds /\ slots[users[u].slot].agent = p
        BY <2>2 DEF IndInv, UserOK
      <3>2. SlotOK(users[u].slot)
        BY <3>1 DEF IndInv
      <3> QED BY <1>1, <3>1, <3>2 DEF SlotOK, Home
    <2>3. ASSUME NEW u \in Users, users[u].pc = "evict", users[u].proc = p
          PROVE  Home(p, users[u].victim)
      <3>1. UserOK(u) /\ Emptied(p, users[u].victim)
        BY <1>1, <2>3 DEF IndInv, ClosingInv, EvictClosing
      <3> QED BY <2>3, <3>1 DEF UserOK, Emptied, Home
    <2>4. ASSUME NEW s \in 1..MaxSlots, idler[s].pc = "closing", idler[s].proc = p
          PROVE  Home(p, s)
      <3>1. IdlerOK(s) /\ Emptied(p, s)
        BY <2>4 DEF IndInv, ClosingInv, IdleClosing
      <3> QED BY <2>4, <3>1 DEF IdlerOK, Emptied, Home
    <2>5. ASSUME closer.pc = "closing", closer.proc = p
          PROVE  Home(p, closer.slot)
      BY <2>5 DEF IndInv, CloserOK, ClosingInv, CloserClosing, Home
    <2> QED BY <2>1, <2>2, <2>3, <2>4, <2>5 DEF Attended
  <1> QED BY <1>1, <1>2, <1>3, <1>4 DEF Proc, Exists

LEMMA OneHome ==
    ASSUME IndInv, NEW p \in ProcIds, NEW q \in ProcIds, NEW s, NEW t, Home(p, s), Home(q, t),
           procs[p].key = procs[q].key
    PROVE  p = q
  <1>1. p # 0 /\ q # 0 /\ s # 0 /\ t # 0
    BY DEF Home, ProcIds, SlotIds
  <1>2. s = t
    BY <1>1 DEF Home
  <1>3. CASE slots[s].agent # 0
    BY <1>2, <1>3 DEF Home
  <1>4. CASE slots[s].agent = 0
    <2>1. \A u, v \in Users : ByUser(u) = ByUser(v) => u = v
      BY DEF ByUser
    <2>2. \A u \in Users : ByUser(u) # ByCloser
      BY NotAUser
    <2>3. s \in 1..MaxSlots => ByIdler(s) # ByCloser /\ \A u \in Users : ByIdler(s) # ByUser(u)
      BY IdlersDiffer
    <2> QED BY <1>1, <1>2, <1>4, <2>1, <2>2, <2>3 DEF Home
  <1> QED BY <1>3, <1>4

LEMMA ClosingInvImplies == IndInv /\ ClosingInv => OneAgentPerKey
  <1> SUFFICES ASSUME IndInv, ClosingInv PROVE OneAgentPerKey
    OBVIOUS
  <1>1. ASSUME NEW p \in ProcIds, NEW q \in ProcIds, SameKey(p, q), Exists(p), Exists(q),
               ~BeingStopped(p), ~BeingStopped(q)
        PROVE  FALSE
    <2>1. PICK s : Home(p, s)
      BY <1>1, HasHome
    <2>2. PICK t : Home(q, t)
      BY <1>1, HasHome
    <2> QED BY <1>1, <2>1, <2>2, OneHome DEF SameKey
  <1> QED BY <1>1 DEF OneAgentPerKey, IndInv, ProcOK

\* The invariant holds in every reachable state.
THEOREM Invariance == Spec => []IndInv
  <1>1. Init => IndInv
    BY InitIndInv
  <1>2. IndInv /\ [Next]_vars => IndInv'
    BY NextIndInv
  <1> QED BY <1>1, <1>2, PTL DEF Spec

\* What is known of the processes that are being closed holds in every
\* reachable state.
THEOREM ClosingInvariance == Spec => []ClosingInv
  <1>1. Init => ClosingInv
    BY InitClosing
  <1>2. IndInv /\ ClosingInv /\ [Next]_vars => ClosingInv'
    BY NextClosing
  <1> QED BY <1>1, <1>2, Invariance, PTL DEF Spec

\* The books of the pool are exact for every number of turns, keys, slots and
\* processes: of two processes of a key that exist stopAgent is ending one (the
\* code's "at most one process per key exists" with its only exception), the one
\* in service is the agent of the slot in the map, and refs counts the users, so
\* that agents are neither forgotten nor kept for ever.
THEOREM PoolBooks == Spec => []PoolExact
  <1>1. IndInv /\ ClosingInv => PoolExact
    BY IndInvImplies, ClosingInvImplies DEF PoolExact
  <1> QED BY <1>1, Invariance, ClosingInvariance, PTL

\* Neither the idle timer nor makeRoom stops an agent that is in use, although
\* both decide on a refs count that acquireAgent may change any time.
THEOREM InUseKept == Spec => []InUseIsNotIdle
  <1>1. IndInv => InUseIsNotIdle
    BY IndInvImplies
  <1> QED BY <1>1, Invariance, PTL
=============================================================================
