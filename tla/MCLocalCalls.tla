---------------------------- MODULE MCLocalCalls ----------------------------
(***************************************************************************)
(* The calls of one process for TLC: EventQueue, and LocalManager where    *)
(* what it begins must end.  They share no state here, and so a behaviour  *)
(* is one of one of them.                                                  *)
(***************************************************************************)
EXTENDS MCEventQueue

CONSTANTS
    Tasks, Execs, Starters, Cancels, Resubs, TaskOf, Scopes, ScopeOf, Settings, None,
    t1, x1, x2, c1, s1, s2

VARIABLES
    part,
    setting, stored, executions, cancelations, quota, byScope, ex, can, readers, sub

managerVars ==
    <<setting, stored, executions, cancelations, quota, byScope, ex, can, readers, sub>>
localVars == <<part, managerVars, vars>>

Manager == INSTANCE LocalManager

LocalTaskOf == [k \in Execs \cup Cancels \cup Resubs |-> t1]
LocalScopeOf == [x \in Execs |-> IF x = x1 THEN s1 ELSE s2]

\* An execution and a follow-up, which may wait for it, against a cancelation.
FairSettings ==
    {[calls |-> {x1, x2, c1}, leavers |-> {}, maxExecutions |-> 0, maxPerScope |-> 0,
      inactivity |-> TRUE, push |-> FALSE, queueErrors |-> FALSE,
      agentEvents |-> {"input-required"}, cancelEvents |-> {"canceled"}, maxEvents |-> 1]}

LocalInit ==
    /\ part \in {"queue", "manager"} /\ Init /\ Manager!Init
    /\ part = "queue" \/ users = {r1, w1}

LocalNext ==
    \/ part = "queue" /\ Next /\ UNCHANGED <<part, managerVars>>
    \/ part = "manager" /\ Manager!Next /\ UNCHANGED <<part, vars>>

\* The fairness of the part: FairSpec of EventQueue, of LocalManager.
LocalProgress ==
    \/ part = "queue" /\ Progress /\ UNCHANGED <<part, managerVars>>
    \/ part = "manager" /\ Manager!Progress /\ UNCHANGED <<part, vars>>

LocalSpec == LocalInit /\ [][LocalNext]_localVars /\ WF_localVars(LocalProgress)

\* The property of LocalManager, stated there; those of EventQueue hold while
\* the other part moves too.
EverythingEnds == part = "manager" => Manager!EverythingEnds
=============================================================================
