------------------------------ MODULE AcpConn ------------------------------
(***************************************************************************)
(* The JSON-RPC connection to an ACP agent process (internal/acp/conn.go). *)
(*                                                                         *)
(* Every process an executor starts has a connection of its own; a         *)
(* connection is named by the number of its process.  A call registers a   *)
(* one-slot channel under a fresh id, writes its request and waits for the *)
(* response, the end of the connection or the end of its context.  One     *)
(* reader goroutine per connection receives the agent's lines in order.    *)
(* This module gives the state of the connections and the operators on it; *)
(* AcpTurns composes them with the executor.                               *)
(***************************************************************************)
EXTENDS Integers, Sequences, FiniteSets

CONSTANTS
    MaxProcs,       \* bound: processes started
    MaxCalls        \* bound: calls made on all connections

ASSUME ConnAssumption == MaxProcs \in Nat \ {0} /\ MaxCalls \in Nat

Procs == 1..MaxProcs
Calls == 1..MaxCalls

\* What an agent answers: a result (of session/prompt: its stop reason) or
\* an error response.
Responses == {"ok", "error", "end_turn", "cancelled", "refusal"}

VARIABLES
    conn,           \* per process: "unborn", "open" or "done" (the channel done is closed)
    nextID,         \* calls made so far
    pending,        \* ids that have an entry in Conn.pending
    chan,           \* per id: what the one-slot channel of the call holds
    owed            \* requests the agent has received and not answered: [id, proc]

connVars == <<conn, nextID, pending, chan, owed>>

ConnTypeOK ==
    /\ conn \in [Procs -> {"unborn", "open", "done"}]
    /\ nextID \in 0..MaxCalls
    /\ pending \subseteq Calls
    /\ chan \in [Calls -> Responses \cup {"empty"}]
    /\ owed \subseteq [id : Calls, proc : Procs]

-----------------------------------------------------------------------------
\* NewConn and Start: the connection of a process that was just started.
NewConn(p) == conn' = [conn EXCEPT ![p] = "open"]

\* fail: the reader met the end of the output, or Close was called.  The
\* second caller finds err set and leaves it.  The agent is gone and answers
\* none of what it was asked.
fail(p) ==
    /\ conn' = [conn EXCEPT ![p] = "done"]
    /\ owed' = {o \in owed : o.proc # p}

\* Call up to its select: a new id, the entry in pending and the request on
\* the wire.  A connection that has failed refuses the call before it is
\* registered, which the callers test.
Call(p) ==
    /\ nextID < MaxCalls
    /\ nextID' = nextID + 1
    /\ pending' = pending \cup {nextID + 1}
    /\ owed' = owed \cup {[id |-> nextID + 1, proc |-> p]}
    /\ UNCHANGED chan

\* receive, of a response: the entry leaves pending under the mutex and the
\* response goes to its channel, whose slot is free because an entry is taken
\* once.  A response nobody waits for is dropped.
receive(id, r) ==
    /\ IF id \in pending
       THEN /\ chan[id] = "empty"
            /\ chan' = [chan EXCEPT ![id] = r]
       ELSE UNCHANGED chan
    /\ pending' = pending \ {id}

\* A call returns: its entry in pending is gone (unregister, when its context
\* ended; of a dead connection nobody looks at it any more) and so is its
\* channel.
CallOver(id) ==
    /\ pending' = pending \ {id}
    /\ chan' = [chan EXCEPT ![id] = "empty"]
    /\ UNCHANGED <<conn, nextID, owed>>

\* Mutant: the end of the connection wins over a response that is there.
CallReturnsEager(id, p) ==
    IF conn[p] = "done" THEN {"exited"}
    ELSE IF chan[id] # "empty" THEN {chan[id]} ELSE {}

\* The results the select of Call can return with.  When the connection is
\* done the channel is looked at again: a peer that responded and exited has
\* filled it before the reader stopped.
CallReturns(id, p) ==
    IF chan[id] # "empty" THEN {chan[id]}
    ELSE IF conn[p] = "done" THEN {"exited"} ELSE {}
=============================================================================
