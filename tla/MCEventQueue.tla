---------------------------- MODULE MCEventQueue ----------------------------
(***************************************************************************)
(* EventQueue for TLC: two readers of one writer, as in a local execution  *)
(* with a resubscription; two writers with a reader; and one writer and    *)
(* one reader for longer.                                                  *)
(***************************************************************************)
EXTENDS EventQueue

CONSTANTS r1, r2, w1, w2

CallsMaxWrites == [cast \in {{r1, w1}, {r1, r2, w1}, {r1, w1, w2}} |->
                     IF cast = {r1, w1} THEN 4 ELSE 2]
StalledMaxWrites == [cast \in {{r1, r2, w1}} |-> 2]
=============================================================================
