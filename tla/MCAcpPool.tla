----------------------------- MODULE MCAcpPool -----------------------------
EXTENDS AcpPool

CONSTANTS u1, u2, k1, k2

Shared == [u \in Users |-> k1]
Apart == [u \in Users |-> IF u = u1 THEN k1 ELSE k2]

Twice == [u \in Users |-> IF u = u1 THEN 2 ELSE 1]

Once == [u \in Users |-> 1]

\* Two turns of one key, one of which comes back; two keys that compete for
\* one place; Close.
MCSettings ==
    {[keyOf |-> Shared, acquires |-> Twice, maxAgents |-> 0, idleTimeout |-> TRUE,
      close |-> FALSE],
     [keyOf |-> Apart, acquires |-> Twice, maxAgents |-> 1, idleTimeout |-> TRUE,
      close |-> FALSE],
     [keyOf |-> Shared, acquires |-> Once, maxAgents |-> 1, idleTimeout |-> FALSE,
      close |-> TRUE]}
=============================================================================
