--------------------------- MODULE MCLocalManager ---------------------------
(***************************************************************************)
(* LocalManager for TLC: executions of one or two tasks, the first of      *)
(* which starts its task.                                                  *)
(***************************************************************************)
EXTENDS LocalManager

CONSTANTS t1, t2, x1, x2, x3, c1, c2, r1, s1, s2

\* x1, x2, c1, c2 and r1 are about t1; x3 is a follow-up on t2.
MCTaskOf == [k \in Execs \cup Cancels \cup Resubs |-> IF k = x3 THEN t2 ELSE t1]
MCScopeOf == [x \in Execs |-> IF x = x1 THEN s1 ELSE s2]

Plain == [calls |-> {x1, x2}, leavers |-> {}, maxExecutions |-> 0, maxPerScope |-> 0,
          inactivity |-> FALSE, push |-> FALSE, queueErrors |-> FALSE,
          agentEvents |-> {"input-required"}, cancelEvents |-> {}, maxEvents |-> 1]

\* An execution, a follow-up and a resubscription, while the inactivity timer may
\* end a group in the middle of an event.
Streams == [Plain EXCEPT !.calls = {x1, x2, r1}, !.inactivity = TRUE, !.maxEvents = 2,
                         !.agentEvents = {"working", "input-required"}]

\* An execution and a follow-up against two cancelations that end the task, or
\* one that need not, and an execution against two, one of which is abandoned.
Canceling == [Plain EXCEPT !.calls = {x1, x2, c1, c2}, !.cancelEvents = {"canceled"}]
CancelingOnce == [Canceling EXCEPT !.calls = {x1, x2, c1},
                                   !.cancelEvents = {"canceled", "working"}]
CancelingTwice == [Canceling EXCEPT !.calls = {x1, c1, c2}, !.leavers = {c2}, !.push = TRUE,
                                    !.cancelEvents = {"canceled", "working"}]

\* Both limits, two tasks, and everything that can fail failing.
Limits == [Plain EXCEPT !.calls = {x1, x2, x3}, !.leavers = {x2}, !.push = TRUE,
                        !.maxExecutions = 2, !.maxPerScope = 1, !.queueErrors = TRUE,
                        !.agentEvents = {"message", "input-required"}]

SafetySettings == {Streams, Canceling, CancelingOnce, CancelingTwice, Limits}

LateSettings == {[Plain EXCEPT !.calls = {x1, r1}, !.inactivity = TRUE]}
=============================================================================
