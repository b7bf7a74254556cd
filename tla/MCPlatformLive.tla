--------------------------- MODULE MCPlatformLive ---------------------------
(* What must happen in the end, in two scenes: "events", an event loop     *)
(* under endless traffic, and "timers", a time queue under clocks that are *)
(* set.  The part that a scene leaves out never starts.                    *)
EXTENDS MCEventLoop, TimeQueue

VARIABLE scene

MCInit == EventLoopInit /\ TimeQueueInit /\ scene \in {"events", "timers"}

MCNext ==
    /\ UNCHANGED scene
    /\ \/ scene = "events" /\ EventLoopNext /\ UNCHANGED timeQueueVars
       \/ scene = "timers" /\ TimeQueueNext /\ UNCHANGED loopVars

MCSpec ==
    /\ MCInit /\ [][MCNext]_<<loopVars, timeQueueVars, scene>>
    /\ EventLoopFairness /\ TimeQueueFairness
=============================================================================
