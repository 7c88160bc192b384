---------------------------- MODULE MCTaskUpdate ----------------------------
(***************************************************************************)
(* TaskUpdate for TLC: agents that emit a task, status updates, artifacts  *)
(* (new and appended), a message and an invalid event; cancelers whose     *)
(* agent accepts or refuses the cancelation.                               *)
(***************************************************************************)
EXTENDS TaskUpdate

CONSTANTS e1, e2, c1, m1, m2, a1

NewTask == [state |-> "submitted", history |-> {m1}, artifacts |-> {}]
DoneTask == [state |-> "completed", history |-> {m1}, artifacts |-> {a1}]

MCMessageOf == [w \in Executors |-> IF w = e1 THEN m1 ELSE m2]

MCAgentEvents ==
    {TaskEvent(NewTask), TaskEvent(DoneTask), ArtifactEvent(a1, FALSE), ArtifactEvent(a1, TRUE),
     AgentMessage, InvalidEvent} \cup {StatusEvent(s) : s \in {"working", "completed", "input-required"}}

MCCancelEvents == {StatusEvent("canceled"), StatusEvent("working")}
=============================================================================
