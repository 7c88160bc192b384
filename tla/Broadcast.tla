------------------------------ MODULE Broadcast ------------------------------
(***************************************************************************)
(* What eventqueue.Manager promises the users of one task's queues, with   *)
(* no word of mutex, broker, buffers or goroutines: a single log of the    *)
(* broadcasts, each addressed to the other queues that were connected when *)
(* it was taken.  A queue receives what is addressed to it in the order of *)
(* the log and skips nothing while it is connected; nothing is taken, and  *)
(* nobody joins, until the connected queues have received everything; and  *)
(* a Write succeeds only for a broadcast that its whole audience received. *)
(***************************************************************************)
EXTENDS Naturals, Sequences

CONSTANT Queues

VARIABLES
    members,  \* the connected queues
    log,      \* the broadcasts with sender and audience
    got,      \* what each queue received: indices into log
    acked     \* the broadcasts whose Write returned nil

vars == <<members, log, got, acked>>

Init ==
    /\ members = {} /\ log = <<>> /\ acked = {}
    /\ got = [q \in Queues |-> <<>>]

Last(q) == IF got[q] = <<>> THEN 0 ELSE got[q][Len(got[q])]

\* What is addressed to a queue and not received yet.
Owed(q) == {k \in 1..Len(log) : q \in log[k].audience /\ k > Last(q)}

\* No broadcast is on its way to a connected queue.
Settled == \A q \in members : Owed(q) = {}

\* A queue joins once.
Join(q) ==
    /\ q \notin members /\ members' = members \cup {q}
    /\ Owed(q) = {} /\ Settled
    /\ UNCHANGED <<log, got, acked>>

Leave(q) ==
    /\ q \in members /\ members' = members \ {q}
    /\ UNCHANGED <<log, got, acked>>

Take(q) ==
    /\ UNCHANGED <<members, got, acked>>
    /\ q \in members /\ Settled
    /\ log' = Append(log, [sender |-> q, audience |-> members \ {q}])

Receive(q) ==
    /\ UNCHANGED <<members, log, acked>>
    /\ q \in members
    /\ \E k \in Owed(q) : /\ \A j \in Owed(q) : k <= j
                          /\ got' = [got EXCEPT ![q] = Append(@, k)]

Acknowledge ==
    /\ UNCHANGED <<members, log, got>>
    /\ \E k \in 1..Len(log) :
         /\ acked' = acked \cup {k}
         /\ \A q \in log[k].audience : \E i \in 1..Len(got[q]) : got[q][i] = k

Next == Acknowledge \/ \E q \in Queues : Join(q) \/ Leave(q) \/ Take(q) \/ Receive(q)

Spec == Init /\ [][Next]_vars
=============================================================================
