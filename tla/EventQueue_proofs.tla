-------------------------- MODULE EventQueue_proofs --------------------------
(***************************************************************************)
(* Proofs about EventQueue, for any number of readers and writers, any     *)
(* size of the buffers and any number of calls: the broker goroutine never *)
(* panics on a channel, only Destroy cuts a broadcast short, and mutex,    *)
(* broker, buffers and queues together implement Broadcast.                *)
(***************************************************************************)
EXTENDS EventQueue, TLAPS, SequenceTheorems

-----------------------------------------------------------------------------
(***************************************************************************)
(* The inductive invariant.                                                *)
(***************************************************************************)
\* A broadcast is under way only while the broker is sending; it is the last
\* of the log, and the queues it still has to reach are registered.
BrokerOK ==
    /\ broker # "sending" => pending = {} /\ target = NoQueue
    /\ broker = "sending" => log # <<>>
    /\ broker = "none" => registered = {}
    /\ pending \cup ({target} \ {NoQueue}) \subseteq registered
    /\ target \notin pending

\* A queue is registered with its channels open, and before it is registered
\* for the first and only time nothing was ever addressed to it.
ChannelOK(q) ==
    /\ closed[q] <= 1
    /\ q \in registered => closed[q] = 0
    /\ op[q] \in {"new", "locking", "connecting"} =>
          /\ q \notin registered /\ closed[q] = 0 /\ got[q] = <<>>
          /\ \A k \in 1..Len(log) : q \notin log[k].audience
ChannelsOK == \A q \in Queues : ChannelOK(q)

\* A broker that is being told to stop was told so by a call of Destroy.
DestroyOK == destroyer # "idle" \/ broker = "stopping" => destroys > 0

Has(q, k) == \E i \in 1..Len(got[q]) : got[q][i] = k
Underway(q) == q \in pending \cup {target}

Owes(q, k) == q \in log[k].audience /\ k > BroadcastPromise!Last(q)

\* While the broker lives a registered queue lacks the broadcast that is under
\* way, if it has not been its turn yet, and no other.
OwedOK ==
    broker \in {"idle", "sending"} =>
        \A q \in registered : \A k \in 1..Len(log) :
            Owes(q, k) <=> k = Len(log) /\ Underway(q)

\* A broadcast has reached those of its audience it need not reach any more.
ReachedOK ==
    /\ broker = "sending" =>
          \A q \in log[Len(log)].audience : Underway(q) \/ Has(q, Len(log))
    /\ \A k \in dispatched : \A q \in log[k].audience : Has(q, k)

DeliveryOK == OwedOK /\ ReachedOK

IndInv ==
    TypeOK /\ BrokerOK /\ ChannelsOK /\ DestroyOK /\ DeliveryOK /\ OnlyDestroyTruncates

-----------------------------------------------------------------------------
(***************************************************************************)
(* Types.                                                                  *)
(***************************************************************************)
LEMMA InitIndInv == Init => IndInv
<1> SUFFICES ASSUME Init  PROVE IndInv
  OBVIOUS
<1>1. TypeOK
  BY BoundsAssumption, QueuesAssumption DEF Init, TypeOK, Ops
<1>2. BrokerOK /\ ChannelsOK /\ DestroyOK
  BY DEF Init, BrokerOK, ChannelsOK, ChannelOK, DestroyOK
<1>3. DeliveryOK /\ OnlyDestroyTruncates
  BY DEF Init, DeliveryOK, OwedOK, ReachedOK, OnlyDestroyTruncates
<1>. QED  BY <1>1, <1>2, <1>3 DEF IndInv

\* Indices into the log stay indices into it when it grows.
LEMMA Grows ==
    ASSUME NEW s \in Seq(1..Len(log)), Len(log) \in Nat, Len(log') = Len(log) + 1
    PROVE  s \in Seq(1..Len(log'))
BY SeqMonotonic, 1..Len(log) \subseteq 1..Len(log')

\* The parts of TypeOK that do not speak of the log, and those that do.
PlainTypeOK ==
    /\ users \in Casts
    /\ mu \in Queues \cup {"destroy", NoQueue}
    /\ broker \in {"none", "idle", "sending", "stopping"}
    /\ pending \subseteq Queues /\ registered \subseteq Queues
    /\ target \in Queues \cup {NoQueue}
    /\ closed \in [Queues -> Nat]
    /\ op \in [Queues -> Ops]
    /\ destroyer \in {"idle", "locking", "signaling", "waiting"}
    /\ destroys \in 0..MaxDestroys /\ writes \in 0..MaxWrites[users]

LogTypeOK ==
    /\ buf \in [Queues -> Seq(1..Len(log))]
    /\ \A q \in Queues : Len(buf[q]) <= BufferSize
    /\ current \in [Queues -> 0..Len(log)]
    /\ dispatched \subseteq 1..Len(log) /\ acked \subseteq 1..Len(log)
    /\ log \in Seq([sender : Queues, audience : SUBSET Queues])
    /\ got \in [Queues -> Seq(1..Len(log))]

logVars == <<buf, current, dispatched, acked, log, got>>

\* TypeOK is these two parts.
LEMMA TypeParts == TypeOK <=> PlainTypeOK /\ LogTypeOK
BY DEF TypeOK, PlainTypeOK, LogTypeOK

\* A step keeps every variable in its type, part one.
LEMMA StepPlainTypeOK ==
    ASSUME TypeOK, Next
    PROVE  PlainTypeOK'
<1>0. PlainTypeOK
  BY TypeParts
<1>1. ASSUME NEW q \in Queues, Create(q)  PROVE PlainTypeOK'
  BY <1>0, <1>1 DEF PlainTypeOK, Create, CallCreate, LockCreate, Register, Goes, Ops, brokerVars
<1>2. ASSUME NEW q \in Queues, BeginWrite(q)  PROVE PlainTypeOK'
  <2>1. MaxWrites[users] \in Nat
    BY <1>0, BoundsAssumption DEF PlainTypeOK
  <2>. QED  BY <1>0, <1>2, <2>1 DEF PlainTypeOK, BeginWrite, Goes, Ops, brokerVars
<1>3. ASSUME NEW q \in Queues, AcceptBroadcast(q)  PROVE PlainTypeOK'
  BY <1>0, <1>3 DEF PlainTypeOK, AcceptBroadcast, Goes, Ops
<1>4. ASSUME NEW q \in Queues, WriteOK(q) \/ WriteClosed(q) \/ WriteCanceled(q)  PROVE PlainTypeOK'
  BY <1>0, <1>4 DEF PlainTypeOK, WriteOK, WriteClosed, WriteCanceled, Goes, Ops, brokerVars
<1>5. ASSUME NEW q \in Queues, Read(q) \/ CloseDrains(q)  PROVE PlainTypeOK'
  BY <1>0, <1>5 DEF PlainTypeOK, Read, CloseDrains, brokerVars
<1>6. ASSUME NEW q \in Queues, BeginClose(q) \/ CloseFindsClosed(q) \/ Unregister(q)  PROVE PlainTypeOK'
  BY <1>0, <1>6 DEF PlainTypeOK, BeginClose, CloseFindsClosed, Unregister, CloseChannels, Goes, Ops,
              brokerVars
<1>7. ASSUME Broker  PROVE PlainTypeOK'
  BY <1>0, <1>7 DEF PlainTypeOK, Broker, PickTarget, Deliver, FinishBroadcast, StopQueue, StopDone,
                    CloseChannels
<1>8. ASSUME Destroy  PROVE PlainTypeOK'
  BY <1>0, <1>8, BoundsAssumption
     DEF PlainTypeOK, Destroy, CallDestroy, LockDestroy, DestroySignal, brokerVars
<1>. QED  BY <1>1, <1>2, <1>3, <1>4, <1>5, <1>6, <1>7, <1>8 DEF Next, Write, Close

\* A step keeps every variable in its type, part two: buffers and histories
\* are indices into the log, which only grows.
LEMMA StepLogTypeOK ==
    ASSUME TypeOK, BrokerOK, Next
    PROVE  LogTypeOK'
<1>0. LogTypeOK /\ Len(log) \in Nat
  BY TypeParts DEF LogTypeOK
<1>1. CASE UNCHANGED logVars
  BY <1>0, <1>1 DEF LogTypeOK, logVars
<1>2. ASSUME NEW q \in Queues, AcceptBroadcast(q)  PROVE LogTypeOK'
  <2>1. registered \subseteq Queues
    BY TypeParts DEF PlainTypeOK
  <2>2. /\ Len(log') = Len(log) + 1
        /\ log' \in Seq([sender : Queues, audience : SUBSET Queues])
    BY <1>0, <1>2, <2>1 DEF LogTypeOK, AcceptBroadcast
  <2>3. /\ buf' = buf /\ got' = got /\ dispatched' = dispatched /\ acked' = acked
        /\ current' = [current EXCEPT ![q] = Len(log) + 1]
    BY <1>2 DEF AcceptBroadcast
  <2>4. \A s \in Seq(1..Len(log)) : s \in Seq(1..Len(log'))
    BY <1>0, <2>2, Grows
  <2>5. buf \in [Queues -> Seq(1..Len(log'))] /\ got \in [Queues -> Seq(1..Len(log'))]
    BY <1>0, <2>4 DEF LogTypeOK
  <2>6. /\ current' \in [Queues -> 0..Len(log')]
        /\ dispatched \subseteq 1..Len(log') /\ acked \subseteq 1..Len(log')
    <3>1. /\ current \in [Queues -> 0..Len(log)]
          /\ dispatched \subseteq 1..Len(log) /\ acked \subseteq 1..Len(log)
      BY <1>0 DEF LogTypeOK
    <3>2. 0..Len(log) \subseteq 0..Len(log') /\ 1..Len(log) \subseteq 1..Len(log')
      BY <1>0, <2>2
    <3>3. Len(log) + 1 \in 0..Len(log')
      BY <1>0, <2>2
    <3>4. current' \in [Queues -> 0..Len(log')]
      BY <2>3, <3>1, <3>2, <3>3
    <3>. QED  BY <3>1, <3>2, <3>4
  <2>. QED  BY <1>0, <2>2, <2>3, <2>5, <2>6 DEF LogTypeOK
<1>3. ASSUME NEW q \in Queues, WriteOK(q)  PROVE LogTypeOK'
  BY <1>0, <1>3 DEF LogTypeOK, WriteOK
<1>4. ASSUME NEW q \in Queues, Read(q) \/ CloseDrains(q)  PROVE LogTypeOK'
  <2>1. /\ buf[q] \in Seq(1..Len(log)) /\ buf[q] # <<>>
        /\ UNCHANGED <<current, dispatched, acked, log, got>>
        /\ buf' = [buf EXCEPT ![q] = Tail(buf[q])]
    BY <1>0, <1>4 DEF LogTypeOK, Read, CloseDrains, historyVars
  <2>2. Tail(buf[q]) \in Seq(1..Len(log)) /\ Len(Tail(buf[q])) = Len(buf[q]) - 1
    BY <2>1, HeadTailProperties
  <2>3. Len(buf[q]) \in Nat /\ Len(buf[q]) <= BufferSize
    BY <1>0, <2>1 DEF LogTypeOK
  <2>4. buf' \in [Queues -> Seq(1..Len(log))]
    BY <1>0, <2>1, <2>2 DEF LogTypeOK
  <2>5. \A r \in Queues : Len(buf'[r]) <= BufferSize
    <3>. TAKE r \in Queues
    <3>1. CASE r = q
      <4>1. buf'[r] = Tail(buf[q])
        BY <1>0, <2>1, <3>1 DEF LogTypeOK
      <4>. QED  BY <4>1, <2>2, <2>3, BoundsAssumption
    <3>2. CASE r # q
      BY <1>0, <2>1, <3>2 DEF LogTypeOK
    <3>. QED  BY <3>1, <3>2
  <2>. QED  BY <1>0, <2>1, <2>4, <2>5 DEF LogTypeOK
<1>5. ASSUME Deliver  PROVE LogTypeOK'
  <2>1. target \in Queues /\ Len(log) \in 1..Len(log)
    BY <1>0, <1>5, TypeParts DEF Deliver, PlainTypeOK, LogTypeOK, BrokerOK
  <2>2. /\ Len(buf[target]) < BufferSize
        /\ UNCHANGED <<current, dispatched, acked, log>>
        /\ buf' = [buf EXCEPT ![target] = Append(buf[target], Len(log))]
        /\ got' = [got EXCEPT ![target] = Append(got[target], Len(log))]
    BY <1>5 DEF Deliver
  <2>3. buf[target] \in Seq(1..Len(log)) /\ got[target] \in Seq(1..Len(log))
    BY <1>0, <2>1 DEF LogTypeOK
  <2>4. /\ Append(buf[target], Len(log)) \in Seq(1..Len(log))
        /\ Append(got[target], Len(log)) \in Seq(1..Len(log))
        /\ Len(Append(buf[target], Len(log))) = Len(buf[target]) + 1
        /\ Len(buf[target]) \in Nat
    BY <2>1, <2>3, AppendProperties
  <2>5. buf' \in [Queues -> Seq(1..Len(log))] /\ got' \in [Queues -> Seq(1..Len(log))]
    BY <1>0, <2>2, <2>4 DEF LogTypeOK
  <2>6. \A r \in Queues : Len(buf'[r]) <= BufferSize
    <3>. TAKE r \in Queues
    <3>1. CASE r = target
      <4>1. buf'[r] = Append(buf[target], Len(log))
        BY <1>0, <2>2, <3>1 DEF LogTypeOK
      <4>. QED  BY <4>1, <2>2, <2>4, BoundsAssumption
    <3>2. CASE r # target
      BY <1>0, <2>2, <3>2 DEF LogTypeOK
    <3>. QED  BY <3>1, <3>2
  <2>. QED  BY <1>0, <2>2, <2>5, <2>6 DEF LogTypeOK
<1>6. ASSUME FinishBroadcast  PROVE LogTypeOK'
  <2>1. Len(log) \in 1..Len(log)
    BY <1>0, <1>6 DEF FinishBroadcast, LogTypeOK, BrokerOK
  <2>. QED  BY <1>0, <1>6, <2>1 DEF LogTypeOK, FinishBroadcast, historyVars
<1>7. ASSUME NEW q \in Queues, Create(q)  PROVE UNCHANGED logVars
  BY <1>7 DEF Create, CallCreate, LockCreate, Register, logVars, historyVars
<1>8. ASSUME NEW q \in Queues, BeginWrite(q) \/ WriteClosed(q) \/ WriteCanceled(q)
      PROVE  UNCHANGED logVars
  BY <1>8 DEF BeginWrite, WriteClosed, WriteCanceled, logVars, historyVars
<1>9. ASSUME NEW q \in Queues, BeginClose(q) \/ CloseFindsClosed(q) \/ Unregister(q)
      PROVE  UNCHANGED logVars
  BY <1>9 DEF BeginClose, CloseFindsClosed, Unregister, logVars, historyVars
<1>10. ASSUME PickTarget \/ StopQueue \/ StopDone \/ Destroy  PROVE UNCHANGED logVars
  BY <1>10 DEF PickTarget, StopQueue, StopDone, Destroy, CallDestroy, LockDestroy, DestroySignal,
               logVars, historyVars
<1>. QED  BY <1>1, <1>2, <1>3, <1>4, <1>5, <1>6, <1>7, <1>8, <1>9, <1>10
          DEF Next, Broker, Write, Close

-----------------------------------------------------------------------------
(***************************************************************************)
(* Histories.                                                              *)
(***************************************************************************)
\* What a delivery does to the history of the queue it reaches, and that it
\* reaches no other.
LEMMA Delivered ==
    ASSUME TypeOK, BrokerOK, Deliver
    PROVE  /\ target \in registered /\ Len(log) \in 1..Len(log)
           /\ \A r \in Queues : r # target => got'[r] = got[r]
           /\ \E q \in Queues :
                /\ q = target
                /\ BroadcastPromise!Last(q)' = Len(log)
                /\ \A k \in 1..Len(log) : Has(q, k)' <=> k = Len(log) \/ Has(q, k)
<1>0. PlainTypeOK /\ LogTypeOK
  BY TypeParts
<1>1. PICK q \in Queues : q = target
  BY <1>0 DEF PlainTypeOK, Deliver
<1>2. q \in registered /\ Len(log) \in 1..Len(log)
  BY <1>0, <1>1, QueuesAssumption DEF LogTypeOK, BrokerOK, Deliver
<1>3. got' = [got EXCEPT ![q] = Append(got[q], Len(log))] /\ log' = log
  BY <1>1 DEF Deliver
<1>4. got[q] \in Seq(1..Len(log))
  BY <1>0 DEF LogTypeOK
<1>5. got'[q] = Append(got[q], Len(log)) /\ \A r \in Queues : r # q => got'[r] = got[r]
  BY <1>0, <1>3 DEF LogTypeOK
<1>6. /\ Len(got'[q]) = Len(got[q]) + 1 /\ Len(got[q]) \in Nat
      /\ got'[q][Len(got[q]) + 1] = Len(log)
      /\ \A i \in 1..Len(got[q]) : got'[q][i] = got[q][i]
      /\ got'[q] # <<>>
  BY <1>2, <1>4, <1>5, AppendProperties
<1>7. 1..Len(got'[q]) = 1..Len(got[q]) \cup {Len(got[q]) + 1}
  BY <1>6
<1>8. BroadcastPromise!Last(q)' = Len(log)
  BY <1>6 DEF BroadcastPromise!Last
<1>9. ASSUME NEW k \in 1..Len(log)  PROVE Has(q, k)' <=> k = Len(log) \/ Has(q, k)
  BY <1>6, <1>7 DEF Has
<1>. QED  BY <1>1, <1>2, <1>5, <1>8, <1>9

\* The history of a queue is unchanged, and so is what it has received.
LEMMA SameHistory ==
    ASSUME NEW q \in Queues, got'[q] = got[q]
    PROVE  /\ BroadcastPromise!Last(q)' = BroadcastPromise!Last(q)
           /\ \A k : Has(q, k)' <=> Has(q, k)
BY DEF BroadcastPromise!Last, Has

\* Broadcasts are addressed to queues.
LEMMA Audiences ==
    ASSUME TypeOK
    PROVE  Len(log) \in Nat /\ \A k \in 1..Len(log) : log[k].audience \subseteq Queues
<1>1. log \in Seq([sender : Queues, audience : SUBSET Queues])
  BY TypeParts DEF LogTypeOK
<1>2. ASSUME NEW k \in 1..Len(log)  PROVE log[k].audience \subseteq Queues
  <2>1. log[k] \in [sender : Queues, audience : SUBSET Queues]
    BY <1>1, ElementOfSeq
  <2>. QED  BY <2>1
<1>. QED  BY <1>1, <1>2

\* What taking a broadcast does to the log.
LEMMA Accepted ==
    ASSUME TypeOK, NEW q \in Queues, AcceptBroadcast(q)
    PROVE  /\ Len(log) \in Nat /\ Len(log') = Len(log) + 1
           /\ log'[Len(log) + 1].audience = registered \ {q}
           /\ \A i \in 1..Len(log) : log'[i] = log[i]
           /\ 1..Len(log') = 1..Len(log) \cup {Len(log) + 1}
<1>0. PlainTypeOK /\ LogTypeOK
  BY TypeParts
<1>1. /\ log \in Seq([sender : Queues, audience : SUBSET Queues])
      /\ [sender |-> q, audience |-> registered \ {q}] \in [sender : Queues, audience : SUBSET Queues]
  BY <1>0 DEF LogTypeOK, PlainTypeOK
<1>2. /\ Len(log') = Len(log) + 1 /\ Len(log) \in Nat
      /\ log'[Len(log) + 1] = [sender |-> q, audience |-> registered \ {q}]
      /\ \A i \in 1..Len(log) : log'[i] = log[i]
  BY <1>1, AppendProperties DEF AcceptBroadcast
<1>. QED  BY <1>2

\* A queue has received nothing that is not in the log yet.
LEMMA LastInLog ==
    ASSUME TypeOK, NEW q \in Queues
    PROVE  BroadcastPromise!Last(q) \in 0..Len(log) /\ Len(log) \in Nat
<1>1. got[q] \in Seq(1..Len(log)) /\ Len(log) \in Nat
  BY TypeParts DEF LogTypeOK
<1>2. CASE got[q] = <<>>
  BY <1>1, <1>2 DEF BroadcastPromise!Last
<1>3. CASE got[q] # <<>>
  BY <1>1, <1>3 DEF BroadcastPromise!Last
<1>. QED  BY <1>2, <1>3

-----------------------------------------------------------------------------
(***************************************************************************)
(* The broker and the channels.                                            *)
(***************************************************************************)
\* A step keeps the bookkeeping of the broadcast that is under way.
LEMMA StepBrokerOK ==
    ASSUME TypeOK, BrokerOK, Next
    PROVE  BrokerOK'
<1>0. PlainTypeOK /\ LogTypeOK
  BY TypeParts
<1>1. ASSUME NEW q \in Queues, Create(q)  PROVE BrokerOK'
  BY <1>0, <1>1 DEF PlainTypeOK, BrokerOK, Create, CallCreate, LockCreate, Register, brokerVars, historyVars
<1>2. ASSUME NEW q \in Queues, AcceptBroadcast(q)  PROVE BrokerOK'
  <2>1. log' # <<>>
    <3>1. log \in Seq([sender : Queues, audience : SUBSET Queues])
          /\ [sender |-> q, audience |-> registered \ {q}] \in [sender : Queues, audience : SUBSET Queues]
      BY <1>0 DEF LogTypeOK, PlainTypeOK
    <3>. QED  BY <1>2, <3>1, AppendProperties DEF AcceptBroadcast
  <2>. QED  BY <1>0, <1>2, <2>1, QueuesAssumption DEF PlainTypeOK, BrokerOK, AcceptBroadcast
<1>3. ASSUME NEW q \in Queues,
             BeginWrite(q) \/ WriteOK(q) \/ WriteClosed(q) \/ WriteCanceled(q) \/ Read(q)
      PROVE  BrokerOK'
  BY <1>3 DEF BrokerOK, BeginWrite, WriteOK, WriteClosed, WriteCanceled, Read, brokerVars, historyVars
<1>4. ASSUME NEW q \in Queues, Close(q)  PROVE BrokerOK'
  BY <1>4 DEF BrokerOK, Close, BeginClose, CloseDrains, CloseFindsClosed, Unregister, brokerVars,
              historyVars
<1>5. ASSUME Broker  PROVE BrokerOK'
  BY <1>0, <1>5, QueuesAssumption
     DEF PlainTypeOK, BrokerOK, Broker, PickTarget, Deliver, FinishBroadcast, StopQueue, StopDone, historyVars
<1>6. ASSUME Destroy  PROVE BrokerOK'
  BY <1>0, <1>6, QueuesAssumption
     DEF PlainTypeOK, BrokerOK, Destroy, CallDestroy, LockDestroy, DestroySignal, brokerVars, historyVars
<1>. QED  BY <1>1, <1>2, <1>3, <1>4, <1>5, <1>6 DEF Next, Write

\* A step closes the channels of a queue only as it takes it off the list,
\* and a queue is put on the list once.
LEMMA StepChannelsOK ==
    ASSUME TypeOK, BrokerOK, ChannelsOK, Next
    PROVE  ChannelsOK'
<1>0. PlainTypeOK /\ LogTypeOK
  BY TypeParts
<1>. SUFFICES ASSUME NEW r \in Queues  PROVE ChannelOK(r)'
  BY DEF ChannelsOK
<1>a. ChannelOK(r)
  BY DEF ChannelsOK
<1>1. ASSUME NEW q \in Queues, Create(q)  PROVE ChannelOK(r)'
  BY <1>0, <1>a, <1>1
     DEF PlainTypeOK, ChannelOK, Create, CallCreate, LockCreate, Register, Goes, brokerVars, historyVars
<1>2. ASSUME NEW q \in Queues, AcceptBroadcast(q)  PROVE ChannelOK(r)'
  <2>1. UNCHANGED <<registered, closed, got>> /\ Goes(q, "waiting") /\ op[q] = "sending"
    BY <1>2 DEF AcceptBroadcast
  <2>2. CASE op'[r] \in {"new", "locking", "connecting"}
    <3>1. r # q /\ op[r] \in {"new", "locking", "connecting"}
      BY <1>0, <2>1, <2>2 DEF PlainTypeOK, Goes
    <3>2. ASSUME NEW k \in 1..Len(log')  PROVE r \notin log'[k].audience
      BY <1>2, <1>a, <3>1, Accepted DEF ChannelOK
    <3>. QED  BY <1>a, <2>1, <3>1, <3>2 DEF ChannelOK
  <2>. QED  BY <1>a, <2>1, <2>2 DEF ChannelOK
<1>3. ASSUME NEW q \in Queues,
             BeginWrite(q) \/ WriteOK(q) \/ WriteClosed(q) \/ WriteCanceled(q) \/ Read(q)
      PROVE  ChannelOK(r)'
  BY <1>0, <1>a, <1>3
     DEF PlainTypeOK, ChannelOK, BeginWrite, WriteOK, WriteClosed, WriteCanceled, Read, Goes,
         brokerVars, historyVars
<1>4. ASSUME NEW q \in Queues, Close(q)  PROVE ChannelOK(r)'
  BY <1>0, <1>a, <1>4
     DEF PlainTypeOK, ChannelOK, Close, BeginClose, CloseDrains, CloseFindsClosed, Unregister,
         CloseChannels, Goes, brokerVars, historyVars
<1>5. ASSUME Deliver  PROVE ChannelOK(r)'
  <2>1. target \in registered /\ (r # target => got'[r] = got[r])
    BY <1>0, <1>5, QueuesAssumption DEF LogTypeOK, BrokerOK, Deliver
  <2>. QED  BY <1>a, <1>5, <2>1 DEF ChannelOK, Deliver
<1>6. ASSUME PickTarget \/ FinishBroadcast \/ StopQueue \/ StopDone  PROVE ChannelOK(r)'
  BY <1>0, <1>a, <1>6
     DEF PlainTypeOK, ChannelOK, PickTarget, FinishBroadcast, StopQueue, StopDone, CloseChannels, historyVars
<1>7. ASSUME Destroy  PROVE ChannelOK(r)'
  BY <1>a, <1>7
     DEF ChannelOK, Destroy, CallDestroy, LockDestroy, DestroySignal, brokerVars, historyVars
<1>. QED  BY <1>1, <1>2, <1>3, <1>4, <1>5, <1>6, <1>7 DEF Next, Write, Broker

\* Only Destroy makes the broker stop.
LEMMA StepDestroyOK ==
    ASSUME TypeOK, DestroyOK, Next
    PROVE  DestroyOK'
<1>0. PlainTypeOK
  BY TypeParts
<1>1. ASSUME NEW q \in Queues, Create(q) \/ AcceptBroadcast(q)  PROVE DestroyOK'
  BY <1>1 DEF DestroyOK, Create, CallCreate, LockCreate, Register, AcceptBroadcast, brokerVars
<1>2. ASSUME NEW q \in Queues,
             BeginWrite(q) \/ WriteOK(q) \/ WriteClosed(q) \/ WriteCanceled(q) \/ Read(q) \/ Close(q)
      PROVE  DestroyOK'
  BY <1>2 DEF DestroyOK, BeginWrite, WriteOK, WriteClosed, WriteCanceled, Read, Close, BeginClose,
              CloseDrains, CloseFindsClosed, Unregister, brokerVars
<1>3. ASSUME Broker  PROVE DestroyOK'
  BY <1>3 DEF DestroyOK, Broker, PickTarget, Deliver, FinishBroadcast, StopQueue, StopDone
<1>4. ASSUME Destroy  PROVE DestroyOK'
  BY <1>0, <1>4
     DEF PlainTypeOK, DestroyOK, Destroy, CallDestroy, LockDestroy, DestroySignal, brokerVars
<1>. QED  BY <1>1, <1>2, <1>3, <1>4 DEF Next, Write

-----------------------------------------------------------------------------
(***************************************************************************)
(* Delivery.                                                               *)
(***************************************************************************)
calmVars == <<pending, target, registered, dispatched, log, got>>

\* A step that leaves the broker's lists and the histories alone, or starts a
\* broker on an empty list.
Calm ==
    /\ UNCHANGED calmVars
    /\ broker' = broker \/ (broker = "none" /\ broker' = "idle")
    /\ destroys' = destroys \/ destroys' = destroys + 1

\* The steps inside a call that has not met the broker are calm.
LEMMA CalmSteps ==
    ASSUME NEW q \in Queues,
           \/ CallCreate(q) \/ LockCreate(q) \/ BeginWrite(q) \/ WriteOK(q) \/ WriteClosed(q)
           \/ WriteCanceled(q) \/ Read(q) \/ BeginClose(q) \/ CloseDrains(q) \/ CloseFindsClosed(q)
    PROVE  Calm
<1>1. CASE CallCreate(q) \/ LockCreate(q)
  BY <1>1 DEF Calm, calmVars, CallCreate, LockCreate, brokerVars, historyVars
<1>2. CASE BeginWrite(q) \/ WriteOK(q) \/ WriteClosed(q) \/ WriteCanceled(q)
  BY <1>2 DEF Calm, calmVars, BeginWrite, WriteOK, WriteClosed, WriteCanceled, brokerVars, historyVars
<1>3. CASE Read(q) \/ BeginClose(q) \/ CloseDrains(q) \/ CloseFindsClosed(q)
  BY <1>3 DEF Calm, calmVars, Read, BeginClose, CloseDrains, CloseFindsClosed, brokerVars, historyVars
<1>. QED  BY <1>1, <1>2, <1>3

\* So are the steps of Destroy until it meets the broker.
LEMMA CalmDestroy ==
    ASSUME CallDestroy \/ LockDestroy
    PROVE  Calm
BY DEF Calm, calmVars, CallDestroy, LockDestroy, brokerVars, historyVars

\* A step keeps it true that a connected queue lacks exactly the broadcast
\* under way, if the broker still has to reach it.
LEMMA StepOwedOK ==
    ASSUME IndInv, Next
    PROVE  OwedOK'
<1>0. TypeOK /\ PlainTypeOK /\ BrokerOK /\ ChannelsOK /\ OwedOK
  BY TypeParts DEF IndInv, DeliveryOK
<1>1. CASE Calm
  BY <1>0, <1>1 DEF OwedOK, Owes, Calm, calmVars, BrokerOK, Underway, BroadcastPromise!Last
<1>2. ASSUME NEW q \in Queues, Register(q)  PROVE OwedOK'
  <2>1. /\ broker = "idle" /\ broker' = "idle" /\ registered' = registered \cup {q}
        /\ UNCHANGED <<pending, target, log, got>> /\ op[q] = "connecting"
        /\ pending = {} /\ target = NoQueue
    BY <1>0, <1>2 DEF Register, BrokerOK, historyVars
  <2>2. \A k \in 1..Len(log) : ~ Owes(q, k)
    BY <1>0, <2>1 DEF ChannelsOK, ChannelOK, Owes
  <2>3. ~ Underway(q)
    BY <2>1, QueuesAssumption DEF Underway
  <2>4. \A r \in Queues : /\ Underway(r)' <=> Underway(r)
                          /\ \A k \in 1..Len(log) : Owes(r, k)' <=> Owes(r, k)
    BY <2>1, SameHistory DEF Underway, Owes
  <2>. QED  BY <1>0, <2>1, <2>2, <2>3, <2>4 DEF OwedOK, PlainTypeOK
<1>3. ASSUME NEW q \in Queues, AcceptBroadcast(q)  PROVE OwedOK'
  <2>1. /\ broker = "idle" /\ registered' = registered /\ pending' = registered \ {q}
        /\ target' = target /\ target = NoQueue /\ pending = {} /\ got' = got
    BY <1>0, <1>3 DEF AcceptBroadcast, BrokerOK
  <2>2. SUFFICES ASSUME NEW r \in registered, NEW k \in 1..Len(log')
                 PROVE  Owes(r, k)' <=> k = Len(log') /\ Underway(r)'
    BY <2>1 DEF OwedOK
  <2>3. r \in Queues /\ r # NoQueue /\ (Underway(r)' <=> r # q) /\ ~ Underway(r)
    BY <1>0, <2>1, QueuesAssumption DEF Underway, PlainTypeOK
  <2>4. BroadcastPromise!Last(r)' = BroadcastPromise!Last(r) /\ BroadcastPromise!Last(r) \in 0..Len(log)
    BY <1>0, <2>1, <2>3, SameHistory, LastInLog
  <2>5. CASE k = Len(log) + 1
    BY <1>0, <1>3, <2>3, <2>4, <2>5, Accepted DEF Owes
  <2>6. CASE k \in 1..Len(log)
    <3>1. ~ Owes(r, k)
      BY <1>0, <2>1, <2>3, <2>6 DEF OwedOK
    <3>. QED  BY <1>0, <1>3, <2>4, <2>6, <3>1, Accepted DEF Owes
  <2>. QED  BY <1>0, <1>3, <2>5, <2>6, Accepted
<1>4. ASSUME PickTarget  PROVE OwedOK'
  <2>1. \A r \in Queues : Underway(r)' <=> Underway(r)
    BY <1>0, <1>4, QueuesAssumption DEF PickTarget, Underway
  <2>2. UNCHANGED <<broker, registered, log, got>>
    BY <1>4 DEF PickTarget, historyVars
  <2>3. \A r \in Queues : \A k \in 1..Len(log) : Owes(r, k)' <=> Owes(r, k)
    BY <2>2, SameHistory DEF Owes
  <2>. QED  BY <1>0, <2>1, <2>2, <2>3 DEF OwedOK, PlainTypeOK
<1>5. ASSUME Deliver  PROVE OwedOK'
  <2>1. PICK q \in Queues : q = target /\ BroadcastPromise!Last(q)' = Len(log)
    BY <1>0, <1>5, Delivered
  <2>2. /\ UNCHANGED <<broker, registered, log, pending>> /\ target' = NoQueue
        /\ broker = "sending" /\ q \notin pending
    BY <1>0, <1>5, <2>1 DEF Deliver, BrokerOK
  <2>3. SUFFICES ASSUME NEW r \in registered, NEW k \in 1..Len(log)
                 PROVE  Owes(r, k)' <=> k = Len(log) /\ Underway(r)'
    BY <2>2 DEF OwedOK
  <2>4. r \in Queues /\ r # NoQueue /\ Len(log) \in Nat
    BY <1>0, QueuesAssumption, LastInLog DEF PlainTypeOK
  <2>5. CASE r = q
    BY <2>1, <2>2, <2>4, <2>5 DEF Owes, Underway
  <2>6. CASE r # q
    <3>1. (Underway(r)' <=> Underway(r)) /\ got'[r] = got[r]
      BY <1>0, <1>5, <2>1, <2>2, <2>4, <2>6, Delivered DEF Underway
    <3>2. Owes(r, k)' <=> Owes(r, k)
      BY <2>2, <2>4, <3>1, SameHistory DEF Owes
    <3>. QED  BY <1>0, <2>2, <3>1, <3>2 DEF OwedOK
  <2>. QED  BY <2>5, <2>6
<1>6. ASSUME FinishBroadcast \/ \E q \in Queues : Unregister(q)  PROVE OwedOK'
  <2>1. /\ UNCHANGED <<pending, target, log, got>> /\ broker' = "idle"
        /\ broker \in {"idle", "sending"} /\ registered' \subseteq registered
    BY <1>6 DEF FinishBroadcast, Unregister, historyVars
  <2>2. \A r \in Queues : /\ Underway(r)' <=> Underway(r)
                          /\ \A k \in 1..Len(log) : Owes(r, k)' <=> Owes(r, k)
    BY <2>1, SameHistory DEF Underway, Owes
  <2>. QED  BY <1>0, <2>1, <2>2 DEF OwedOK, PlainTypeOK
<1>7. ASSUME DestroySignal \/ StopQueue \/ StopDone  PROVE OwedOK'
  BY <1>7 DEF OwedOK, DestroySignal, StopQueue, StopDone
<1>. QED  BY <1>1, <1>2, <1>3, <1>4, <1>5, <1>6, <1>7, CalmSteps, CalmDestroy
          DEF Next, Broker, Create, Write, Close, Destroy

\* A step keeps it true that a broadcast has reached everyone it was
\* addressed to and need not reach any more.
LEMMA StepReachedOK ==
    ASSUME IndInv, Next
    PROVE  ReachedOK'
<1>0. /\ TypeOK /\ PlainTypeOK /\ LogTypeOK /\ BrokerOK /\ ReachedOK
      /\ Len(log) \in Nat /\ dispatched \subseteq 1..Len(log)
      /\ \A k \in 1..Len(log) : log[k].audience \subseteq Queues
  BY TypeParts, Audiences DEF IndInv, DeliveryOK, LogTypeOK
<1>1. CASE Calm
  BY <1>0, <1>1 DEF ReachedOK, Calm, calmVars, Underway, Has
<1>2. ASSUME \/ \E q \in Queues : Register(q) \/ Unregister(q)
             \/ DestroySignal \/ StopQueue \/ StopDone
      PROVE  ReachedOK'
  <2>1. /\ UNCHANGED <<dispatched, log, got>>
        /\ broker' # "sending" \/ UNCHANGED <<broker, pending, target>>
    BY <1>2 DEF Register, Unregister, DestroySignal, StopQueue, StopDone, historyVars
  <2>. QED  BY <1>0, <2>1 DEF ReachedOK, Underway, Has
<1>3. ASSUME NEW q \in Queues, AcceptBroadcast(q)  PROVE ReachedOK'
  <2>1. /\ pending' = registered \ {q} /\ UNCHANGED <<dispatched, got>>
        /\ log'[Len(log')].audience = pending'
        /\ \A k \in dispatched : log'[k] = log[k]
    BY <1>0, <1>3, Accepted DEF AcceptBroadcast
  <2>. QED  BY ZenonT(60), <1>0, <2>1 DEF ReachedOK, Underway, Has
<1>4. ASSUME PickTarget  PROVE ReachedOK'
  <2>1. \A r \in Queues : Underway(r)' <=> Underway(r)
    BY <1>0, <1>4, QueuesAssumption DEF PickTarget, Underway
  <2>2. UNCHANGED <<broker, dispatched, log, got>> /\ Len(log) \in 1..Len(log)
    BY <1>0, <1>4 DEF PickTarget, historyVars, BrokerOK, LogTypeOK
  <2>. QED  BY <1>0, <2>1, <2>2, SameHistory DEF ReachedOK, Has
<1>5. ASSUME Deliver  PROVE ReachedOK'
  <2>1. PICK q \in Queues : q = target /\ \A k \in 1..Len(log) : Has(q, k)' <=> k = Len(log) \/ Has(q, k)
    BY <1>0, <1>5, Delivered
  <2>2. UNCHANGED <<broker, dispatched, log, pending>> /\ broker = "sending"
    BY <1>5 DEF Deliver
  <2>3. \A r \in Queues : \A k \in 1..Len(log) : Has(r, k) => Has(r, k)'
    BY <1>0, <1>5, <2>1, Delivered, SameHistory
  <2>4. Len(log) \in 1..Len(log) /\ Has(q, Len(log))'
    BY <1>0, <1>5, <2>1, <2>2, Delivered DEF Has
  <2>5. ASSUME NEW r \in log[Len(log)].audience  PROVE Underway(r)' \/ Has(r, Len(log))'
    <3>1. r \in Queues /\ (Underway(r) \/ Has(r, Len(log)))
      BY <1>0, <2>2, <2>4 DEF ReachedOK
    <3>2. CASE r = q
      BY <2>4, <3>2
    <3>3. CASE r # q
      BY SMTT(30), <2>1, <2>2, <2>3, <2>4, <3>1, <3>3 DEF Underway, Has
    <3>. QED  BY <3>2, <3>3
  <2>. QED  BY ZenonT(60), <1>0, <2>2, <2>3, <2>5 DEF ReachedOK, Has
<1>6. ASSUME FinishBroadcast  PROVE ReachedOK'
  <2>1. Len(log) \in 1..Len(log)
    BY <1>0, <1>6 DEF FinishBroadcast, BrokerOK, LogTypeOK
  <2>2. \A q \in log[Len(log)].audience : Has(q, Len(log))
    BY <1>0, <1>6, <2>1, QueuesAssumption DEF FinishBroadcast, ReachedOK, Underway
  <2>. QED  BY <1>0, <1>6, <2>2 DEF ReachedOK, FinishBroadcast, historyVars, Has
<1>. QED  BY <1>1, <1>2, <1>3, <1>4, <1>5, <1>6, CalmSteps, CalmDestroy
          DEF Next, Broker, Create, Write, Close, Destroy

\* A step cuts no broadcast short unless Destroy was called.
LEMMA StepTruncates ==
    ASSUME IndInv, Next
    PROVE  OnlyDestroyTruncates'
<1>0. /\ TypeOK /\ PlainTypeOK /\ LogTypeOK /\ BrokerOK /\ ReachedOK /\ OnlyDestroyTruncates
      /\ DestroyOK /\ Len(log) \in Nat
      /\ \A k \in 1..Len(log) : log[k].audience \subseteq Queues
  BY TypeParts, Audiences DEF IndInv, DeliveryOK
<1>1. destroys \in Nat /\ (destroys' = destroys \/ destroys' = destroys + 1)
  <2>1. destroys \in Nat
    BY <1>0, BoundsAssumption DEF PlainTypeOK
  <2>2. ASSUME NEW q \in Queues, Create(q) \/ Write(q) \/ Read(q) \/ Close(q)
        PROVE  destroys' = destroys
    BY <2>2 DEF Create, CallCreate, LockCreate, Register, Write, BeginWrite, AcceptBroadcast, WriteOK,
                WriteClosed, WriteCanceled, Read, Close, BeginClose, CloseDrains, CloseFindsClosed, Unregister
  <2>3. ASSUME Broker \/ Destroy  PROVE destroys' = destroys \/ destroys' = destroys + 1
    BY <2>3 DEF Broker, PickTarget, Deliver, FinishBroadcast, StopQueue, StopDone, Destroy,
                CallDestroy, LockDestroy, DestroySignal
  <2>. QED  BY <2>1, <2>2, <2>3 DEF Next
<1>2. CASE destroys > 0
  BY <1>1, <1>2 DEF OnlyDestroyTruncates
<1>3. CASE destroys = 0
  <2>1. \A k \in 1..Len(log) : \A q \in log[k].audience :
            Has(q, k) \/ (k = Len(log) /\ broker = "sending" /\ Underway(q))
    BY <1>0, <1>3 DEF OnlyDestroyTruncates, Has, Underway
  <2>2. SUFFICES ASSUME NEW k \in 1..Len(log'), NEW q \in log'[k].audience
                 PROVE  \/ Has(q, k)' \/ destroys' > 0
                        \/ k = Len(log') /\ broker' = "sending" /\ Underway(q)'
    BY DEF OnlyDestroyTruncates, Has, Underway
  <2>3. CASE Calm
    BY <1>0, <2>1, <2>3 DEF Calm, calmVars, Has, Underway
  <2>4. ASSUME NEW r \in Queues, Register(r) \/ Unregister(r)
        PROVE  Has(q, k)' \/ (k = Len(log') /\ broker' = "sending" /\ Underway(q)')
    BY <2>1, <2>4 DEF Register, Unregister, historyVars, Has
  <2>5. ASSUME NEW r \in Queues, AcceptBroadcast(r)
        PROVE  Has(q, k)' \/ (k = Len(log') /\ broker' = "sending" /\ Underway(q)')
    <3>1. broker = "idle" /\ got' = got /\ broker' = "sending" /\ pending' = registered \ {r}
      BY <2>5 DEF AcceptBroadcast
    <3>2. CASE k = Len(log')
      BY <1>0, <2>5, <3>1, <3>2, Accepted DEF Underway
    <3>3. CASE k \in 1..Len(log)
      BY <1>0, <2>1, <2>5, <3>1, <3>3, Accepted DEF Has
    <3>. QED  BY <1>0, <2>5, <3>2, <3>3, Accepted
  <2>6. ASSUME PickTarget  PROVE Has(q, k)' \/ (k = Len(log') /\ broker' = "sending" /\ Underway(q)')
    <3>1. UNCHANGED <<log, got, broker>> /\ target = NoQueue
      BY <2>6 DEF PickTarget, historyVars
    <3>2. q \in Queues /\ q # NoQueue
      BY <1>0, <3>1, QueuesAssumption
    <3>3. Underway(q) => Underway(q)'
      BY <2>6, <3>1, <3>2 DEF PickTarget, Underway
    <3>. QED  BY <2>1, <3>1, <3>3 DEF Has
  <2>7. ASSUME Deliver  PROVE Has(q, k)' \/ (k = Len(log') /\ broker' = "sending" /\ Underway(q)')
    <3>1. q \in Queues /\ k \in 1..Len(log)
      BY <1>0, <2>7 DEF Deliver
    <3>2. UNCHANGED <<log, broker, pending>>
      BY <2>7 DEF Deliver
    <3>3. CASE q = target
      <4>1. Has(q, k)' <=> k = Len(log) \/ Has(q, k)
        BY <1>0, <2>7, <3>1, <3>3, Delivered
      <4>. QED  BY <2>1, <3>1, <3>2, <4>1
    <3>4. CASE q # target
      <4>1. Has(q, k)' <=> Has(q, k)
        BY <1>0, <2>7, <3>1, <3>4, Delivered, SameHistory
      <4>. QED  BY <2>1, <3>1, <3>2, <3>4, <4>1 DEF Underway
    <3>. QED  BY <3>3, <3>4
  <2>8. ASSUME FinishBroadcast  PROVE Has(q, k)'
    <3>1. UNCHANGED <<log, got>> /\ ~ Underway(q)
      BY <1>0, <2>8, QueuesAssumption DEF FinishBroadcast, historyVars, Underway
    <3>. QED  BY <2>1, <3>1 DEF Has
  <2>9. ~ (DestroySignal \/ StopQueue \/ StopDone)
    BY <1>0, <1>3 DEF DestroyOK, DestroySignal, StopQueue, StopDone
  <2>. QED  BY <2>3, <2>4, <2>5, <2>6, <2>7, <2>8, <2>9, CalmSteps, CalmDestroy
            DEF Next, Broker, Create, Write, Close, Destroy
<1>. QED  BY <1>1, <1>2, <1>3

-----------------------------------------------------------------------------
(***************************************************************************)
(* The theorems.                                                           *)
(***************************************************************************)
\* The inductive invariant is one: a step keeps it.
LEMMA NextIndInv == IndInv /\ [Next]_vars => IndInv'
<1>. SUFFICES ASSUME IndInv, [Next]_vars  PROVE IndInv'
  OBVIOUS
<1>1. CASE Next
  <2>1. TypeOK /\ BrokerOK /\ ChannelsOK /\ DestroyOK
    BY DEF IndInv
  <2>2. TypeOK'
    <3>1. PlainTypeOK' /\ LogTypeOK'
      BY <1>1, <2>1, StepPlainTypeOK, StepLogTypeOK
    <3>. QED  BY <3>1 DEF TypeOK, PlainTypeOK, LogTypeOK
  <2>3. BrokerOK' /\ ChannelsOK' /\ DestroyOK'
    BY <1>1, <2>1, StepBrokerOK, StepChannelsOK, StepDestroyOK
  <2>4. DeliveryOK' /\ OnlyDestroyTruncates'
    BY <1>1, StepOwedOK, StepReachedOK, StepTruncates DEF DeliveryOK
  <2>. QED  BY <2>2, <2>3, <2>4 DEF IndInv
<1>2. CASE UNCHANGED vars
  <2>1. TypeOK' /\ BrokerOK' /\ ChannelsOK' /\ DestroyOK'
    BY <1>2 DEF vars, IndInv, TypeOK, BrokerOK, ChannelsOK, ChannelOK, DestroyOK
  <2>2. OwedOK' /\ ReachedOK'
    BY <1>2 DEF vars, IndInv, DeliveryOK, OwedOK, ReachedOK, Owes, Underway, Has, BroadcastPromise!Last
  <2>3. OnlyDestroyTruncates'
    BY <1>2 DEF vars, IndInv, OnlyDestroyTruncates
  <2>. QED  BY <2>1, <2>2, <2>3 DEF IndInv, DeliveryOK
<1>. QED  BY <1>1, <1>2

\* Every reachable state of manager, broker and queues satisfies the
\* inductive invariant.
THEOREM Invariance == Spec => []IndInv
BY InitIndInv, NextIndInv, PTL DEF Spec

\* The broker goroutine never sends on a closed channel and closes none twice.
THEOREM NoPanic == Spec => []NoChannelPanic
<1>1. IndInv => NoChannelPanic
  BY QueuesAssumption DEF IndInv, NoChannelPanic, BrokerOK, ChannelsOK, ChannelOK
<1>. QED  BY <1>1, Invariance, PTL

\* Unless Destroy was called a broadcast has reached its whole audience or is
\* the one the broker is working on.
THEOREM Truncation == Spec => []OnlyDestroyTruncates
<1>1. IndInv => OnlyDestroyTruncates
  BY DEF IndInv
<1>. QED  BY <1>1, Invariance, PTL

-----------------------------------------------------------------------------
(***************************************************************************)
(* The refinement.                                                         *)
(***************************************************************************)
\* An idle broker owes nobody anything.
LEMMA IdleIsSettled ==
    ASSUME IndInv, broker = "idle"
    PROVE  BroadcastPromise!Settled
<1>. SUFFICES ASSUME NEW q \in registered  PROVE BroadcastPromise!Owed(q) = {}
  BY DEF BroadcastPromise!Settled
<1>1. q \in Queues /\ pending = {} /\ target = NoQueue
  BY DEF IndInv, TypeOK, BrokerOK
<1>2. ~ Underway(q)
  BY <1>1, QueuesAssumption DEF Underway
<1>3. \A k \in 1..Len(log) : ~ Owes(q, k)
  BY <1>2 DEF IndInv, DeliveryOK, OwedOK
<1>. QED  BY <1>3 DEF BroadcastPromise!Owed, Owes

\* The steps of Broadcast that a step of the detailed model is.
LEMMA Simulation ==
    ASSUME IndInv, [Next]_vars
    PROVE  [BroadcastPromise!Next]_(BroadcastPromise!vars)
<1>0. /\ TypeOK /\ PlainTypeOK /\ LogTypeOK /\ BrokerOK /\ ChannelsOK /\ OwedOK /\ ReachedOK
      /\ registered \subseteq Queues
  BY TypeParts DEF IndInv, DeliveryOK, PlainTypeOK
<1>1. ASSUME NEW q \in Queues, Register(q)  PROVE BroadcastPromise!Join(q)
  <2>1. /\ op[q] = "connecting" /\ broker = "idle" /\ registered' = registered \cup {q}
        /\ UNCHANGED <<log, got, acked>>
    BY <1>1 DEF Register, historyVars
  <2>2. q \notin registered /\ BroadcastPromise!Owed(q) = {}
    BY <1>0, <2>1 DEF ChannelsOK, ChannelOK, BroadcastPromise!Owed
  <2>. QED  BY <2>1, <2>2, IdleIsSettled DEF BroadcastPromise!Join
<1>2. ASSUME NEW q \in Queues, Unregister(q)  PROVE BroadcastPromise!Leave(q)
  BY <1>2 DEF Unregister, historyVars, BroadcastPromise!Leave
<1>3. ASSUME StopQueue  PROVE \E q \in Queues : BroadcastPromise!Leave(q)
  BY <1>0, <1>3 DEF StopQueue, historyVars, BroadcastPromise!Leave
<1>4. ASSUME NEW q \in Queues, AcceptBroadcast(q)  PROVE BroadcastPromise!Take(q)
  BY <1>4, IdleIsSettled DEF AcceptBroadcast, BroadcastPromise!Take
<1>5. ASSUME Deliver  PROVE \E q \in Queues : BroadcastPromise!Receive(q)
  <2>1. PICK q \in Queues : q = target
    BY <1>0, <1>5, Delivered
  <2>2. /\ q \in registered /\ Len(log) \in 1..Len(log) /\ UNCHANGED <<registered, log, acked>>
        /\ got' = [got EXCEPT ![q] = Append(@, Len(log))] /\ broker = "sending"
    BY <1>0, <1>5, <2>1, Delivered DEF Deliver
  <2>3. \A k \in 1..Len(log) : Owes(q, k) <=> k = Len(log)
    BY <1>0, <2>1, <2>2 DEF OwedOK, Underway
  <2>4. BroadcastPromise!Owed(q) = {Len(log)}
    BY <2>2, <2>3 DEF BroadcastPromise!Owed, Owes
  <2>5. BroadcastPromise!Receive(q)
    BY <2>2, <2>4 DEF BroadcastPromise!Receive
  <2>. QED  BY <2>5
<1>6. ASSUME NEW q \in Queues, WriteOK(q)  PROVE BroadcastPromise!Acknowledge
  <2>1. /\ current[q] \in dispatched /\ current[q] \in 1..Len(log)
        /\ acked' = acked \cup {current[q]} /\ UNCHANGED <<registered, log, got>>
    BY <1>0, <1>6 DEF WriteOK, brokerVars, LogTypeOK
  <2>2. \A r \in log[current[q]].audience : \E i \in 1..Len(got[r]) : got[r][i] = current[q]
    BY <1>0, <2>1 DEF ReachedOK, Has
  <2>. QED  BY <2>1, <2>2 DEF BroadcastPromise!Acknowledge
<1>7. ASSUME NEW q \in Queues, CallCreate(q) \/ LockCreate(q)
      PROVE  UNCHANGED BroadcastPromise!vars
  BY <1>7 DEF CallCreate, LockCreate, brokerVars, historyVars, BroadcastPromise!vars
<1>8. ASSUME NEW q \in Queues, BeginWrite(q) \/ WriteClosed(q) \/ WriteCanceled(q) \/ Read(q)
      PROVE  UNCHANGED BroadcastPromise!vars
  BY <1>8 DEF BeginWrite, WriteClosed, WriteCanceled, Read, brokerVars, historyVars, BroadcastPromise!vars
<1>9. ASSUME NEW q \in Queues, BeginClose(q) \/ CloseDrains(q) \/ CloseFindsClosed(q)
      PROVE  UNCHANGED BroadcastPromise!vars
  BY <1>9 DEF BeginClose, CloseDrains, CloseFindsClosed, brokerVars, historyVars, BroadcastPromise!vars
<1>10. ASSUME PickTarget \/ FinishBroadcast \/ StopDone \/ Destroy
       PROVE  UNCHANGED BroadcastPromise!vars
  BY <1>10 DEF PickTarget, FinishBroadcast, StopDone, Destroy, CallDestroy, LockDestroy, DestroySignal,
               brokerVars, historyVars, BroadcastPromise!vars
<1>11. ASSUME UNCHANGED vars  PROVE UNCHANGED BroadcastPromise!vars
  BY <1>11 DEF vars, BroadcastPromise!vars
<1>. QED  BY <1>1, <1>2, <1>3, <1>4, <1>5, <1>6, <1>7, <1>8, <1>9, <1>10, <1>11
          DEF Next, Broker, Create, Write, Close, BroadcastPromise!Next

\* Mutex, broker, buffers, Close and Destroy implement the promise of
\* Broadcast: every queue receives what is addressed to it in order and without
\* a gap while it is connected, and Write returns nil only for a broadcast that
\* its whole audience received.
THEOREM Refinement == Spec => KeepsPromise
<1>1. Init => BroadcastPromise!Init
  BY DEF Init, BroadcastPromise!Init
<1>2. IndInv /\ [Next]_vars => [BroadcastPromise!Next]_(BroadcastPromise!vars)
  BY Simulation
<1>. QED  BY <1>1, <1>2, Invariance, PTL DEF Spec, KeepsPromise, BroadcastPromise!Spec
=============================================================================
