---------------------------- MODULE MCDeployment ----------------------------
(***************************************************************************)
(* TaskList, PullReader and WorkQueues for TLC.  They share no state, and  *)
(* so a behaviour is one of one of them.                                   *)
(***************************************************************************)
EXTENDS Integers, WorkQueues

CONSTANTS
    Ids, Underscored, OwnerOf, ContextOf, States, Requests,
    DefaultPageSize, MaxPageSize, MaxTime, Anonymous, alice, bob,
    MaxLog, Inactivity

VARIABLES
    part,
    tasks, clock, request, pc, token, listed, touched,
    log, poller, cursor, batch, canceled, reader, received, result

listVars == <<tasks, clock, request, pc, token, listed, touched>>
pullVars == <<log, poller, cursor, batch, canceled, reader, received, result>>

List == INSTANCE TaskList
Pull == INSTANCE PullReader

\* Ids are ordered, and Nil is no token and no task.
ASSUME ListAssumption ==
    /\ Ids \subseteq Int /\ IsFiniteSet(Ids) /\ MaxTime \in Nat
    /\ Nil \notin List!Stored /\ Nil \notin [time : 0..MaxTime, id : Ids]

ASSUME LogAssumption == MaxLog \in Nat

MCOwnerOf == [i \in Ids |-> alice]
MCContextOf == [i \in Ids |-> IF i = 3 THEN "c2" ELSE "c1"]

All == [user |-> alice, context |-> Nil, status |-> Nil, after |-> Nil, pageSize |-> 1]

\* Lists of one user in pages of one and two, some with filters, a page size
\* that is too large, and lists for another user and for nobody.
MCRequests ==
    {All,
     [All EXCEPT !.pageSize = 2, !.status = "working", !.after = 1],
     [All EXCEPT !.context = "c1", !.after = 2],
     [All EXCEPT !.pageSize = 0],
     [All EXCEPT !.pageSize = 4],
     [All EXCEPT !.user = bob],
     [All EXCEPT !.user = Anonymous]}

\* Two places for the polling loop, so that it reads while a message is handled.
Places == [s \in Pullers \cup Pushers |-> IF s \in Pullers THEN 2 ELSE 1]

PartsInit ==
    /\ part \in {"list", "pull", "work"} /\ List!Init /\ Pull!Init /\ Init
    /\ part = "list" \/ request = All

PartsNext ==
    \/ part = "list" /\ List!Next /\ UNCHANGED <<part, pullVars, vars>>
    \/ part = "pull" /\ Pull!Next /\ UNCHANGED <<part, listVars, vars>>
    \/ part = "work" /\ Next /\ UNCHANGED <<part, listVars, pullVars>>

PartsSpec == PartsInit /\ [][PartsNext]_<<part, listVars, pullVars, vars>>

\* The properties of TaskList and PullReader, stated there; WorkQueues' own
\* holds while the other parts move too.
PagesComplete == part = "list" => List!PagesComplete
InOrder == part = "pull" => Pull!InOrder
CloseGetsOn == part = "pull" => Pull!CloseGetsOn
=============================================================================
