---------------------------- MODULE MCEventLoop ----------------------------
(* Instances of EventLoop for TLC. *)
EXTENDS EventLoop

CONSTANTS h1, h2, m1, m2, l1, l2

(* The priority of every event the runs use. *)
MCPrio == [e \in Events |-> IF e \in {h1, h2} THEN "high"
                            ELSE IF e \in {m1, m2} THEN "medium" ELSE "low"]
=============================================================================
