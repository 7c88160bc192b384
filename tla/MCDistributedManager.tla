------------------------ MODULE MCDistributedManager ------------------------
(***************************************************************************)
(* DistributedManager for TLC: e1 starts the task, c1 cancels it, r1       *)
(* subscribes to it.                                                       *)
(***************************************************************************)
EXTENDS DistributedManager

CONSTANTS e1, c1, r1, m1

AskingTask == [state |-> "input-required", history |-> {m1}, artifacts |-> {}]

MCMessageOf == [w \in Executors |-> m1]

\* An agent that asks for input at once and may then complete its task.
AskingEvents == {TaskEvent(AskingTask), StatusEvent("completed")}

\* A cancelation that is accepted, and one that may be refused.
AcceptingEvents == {StatusEvent("canceled")}
MCCancelEvents == AcceptingEvents \cup {StatusEvent("input-required")}
=============================================================================
