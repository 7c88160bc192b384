---------------------------- MODULE MCAcpTurns -----------------------------
EXTENDS AcpTurns

CONSTANTS t1, t2, c1

\* Both tasks belong to one context.
MCContextOf == [t \in Tasks |-> c1]

Base == [requests |-> [t \in Tasks |-> IF t = t1 THEN 2 ELSE 0],
         cancelable |-> {}, stoppable |-> {}, canLoad |-> FALSE, reject |-> FALSE,
         shutdown |-> FALSE, inactivity |-> FALSE, exits |-> FALSE]
OneEach == [t \in Tasks |-> 1]

Once == [OneEach EXCEPT ![t2] = 0]

\* A task that pauses and goes on, with an agent that is restarted, with a
\* cancel, or given up by the server and watched for inactivity; two tasks of
\* one context, one rejected; a shutdown and a cancel with an agent that exits.
MCSettings ==
    {[Base EXCEPT !.exits = TRUE, !.canLoad = TRUE],
     [Base EXCEPT !.cancelable = {t1}],
     [Base EXCEPT !.stoppable = {t1}, !.inactivity = TRUE],
     [Base EXCEPT !.requests = OneEach, !.reject = TRUE],
     [Base EXCEPT !.requests = Once, !.exits = TRUE, !.shutdown = TRUE],
     [Base EXCEPT !.requests = Once, !.exits = TRUE, !.cancelable = {t1}]}
=============================================================================
