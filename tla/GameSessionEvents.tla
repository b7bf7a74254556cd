------------------------- MODULE GameSessionEvents -------------------------
(***************************************************************************)
(* One game session of dnfbridge on its event loop: the connection         *)
(* goroutine that calls the loop for every packet, timers and other        *)
(* sessions that post work to it, and the shutdown that cleans the session *)
(* up through the loop, stops the loop, and cleans up itself if it must.   *)
(*                                                                         *)
(* The loop is EventLoop with medium events only.  A task runs from Begin  *)
(* to Finish; what it does to the session is one of TaskEffect.            *)
(***************************************************************************)
EXTENDS EventLoop

CONSTANTS
    Packets,        \* client packets, in any order, one call at a time
    Timers,         \* asynchronous events of a character
    Fanouts,        \* calls from another session's handler, with their own timeout
    Cleanup,        \* the "game-session-shutdown" call
    Characters,     \* character ids
    NoCharacter,    \* id 0
    MaxGeneration   \* bound on characterGeneration

ASSUME SessionAssumption ==
    /\ Events = Packets \union Timers \union Fanouts \union {Cleanup}
    /\ Cleanup \notin Packets \union Timers \union Fanouts
    /\ Timers \intersect (Packets \union Fanouts) = {}
    /\ \A e \in Events : Prio[e] = "medium"
    /\ Blocking = Events /\ OwnContext = Events
    /\ Answered = Packets \union Fanouts \union {Cleanup}
    /\ LateReader = {} /\ Recurring = {}
    /\ MayStop /\ ~MayDrain
    /\ MaxGeneration \in Nat

VARIABLES
    active,      \* events.active
    selected,    \* session.selectedCharacterID
    generation,  \* session.characterGeneration
    armed,       \* the character and generation each timer captured
    task,        \* the event whose run function is executing on the loop
    conn,        \* handleGameConn: where it is, and the packet it waits for
    cleanups,    \* how often cleanup began
    completed    \* cleanupCompleted

session == <<active, selected, generation, armed>>
work == <<task, conn, cleanups, completed>>
vars == <<loopVars, session, work>>

Unarmed == [character |-> NoCharacter, generation |-> 0]

Init ==
    /\ EventLoopInit
    /\ active = FALSE
    /\ selected = NoCharacter
    /\ generation = 1
    /\ armed = [t \in Timers |-> Unarmed]
    /\ task = None
    /\ conn = [at |-> "accepted", on |-> None]
    /\ cleanups = 0
    /\ completed = FALSE

(***************************************************************************)
(* The connection goroutine                                                *)
(***************************************************************************)
startGameSessionEvents ==
    /\ conn.at = "accepted"
    /\ Start
    /\ active' = TRUE
    /\ conn' = [conn EXCEPT !.at = "reading"]
    /\ UNCHANGED <<selected, generation, armed, task, cleanups, completed>>

(* A packet was read: callGameSession begins. *)
ReadPacket(e) ==
    /\ conn.at = "reading" /\ e \in Packets /\ call[e] = "new"
    /\ conn' = [at |-> "calling", on |-> e]
    /\ UNCHANGED <<loopVars, session, task, cleanups, completed>>

ReadFails ==
    /\ conn.at = "reading"
    /\ conn' = [at |-> "closing", on |-> None]
    /\ UNCHANGED <<loopVars, session, task, cleanups, completed>>

(* SubmitBlocking inside callGameSession, for packets and for the cleanup *)
CallSubmits ==
    /\ conn.at \in {"calling", "cleaning"}
    /\ SubmitBlocking(conn.on) \/ GiveUpBlocked(conn.on)
    /\ UNCHANGED <<session, work>>

(* callGameSession is over: refused, answered, or its context is done. *)
CallOver(e) ==
    \/ call[e] = "refused"
    \/ call[e] = "accepted" /\ (answers[e] # <<>> \/ e \in expired)

(* A handler's error closes the connection like any other failed call. *)
PacketReturns ==
    /\ conn.at = "calling"
    /\ CallOver(conn.on)
    /\ conn' \in {[at |-> "closing", on |-> None]}
                 \union {[at |-> "reading", on |-> None] :
                           r \in {"result"} \intersect Range(answers[conn.on])}
    /\ UNCHANGED <<loopVars, session, task, cleanups, completed>>

beginGameSessionClose ==
    /\ conn.at = "closing"
    /\ active' = FALSE
    /\ conn' = [at |-> "cleaning", on |-> Cleanup]
    /\ UNCHANGED <<loopVars, selected, generation, armed, task, cleanups, completed>>

CleanupReturns ==
    /\ conn.at = "cleaning"
    /\ CallOver(Cleanup)
    /\ conn' = [conn EXCEPT !.at = "stopping"]
    /\ UNCHANGED <<loopVars, session, task, cleanups, completed>>

(* mutant: Stop is called without the deadline *)
StopTimesOut_Never == Cleanup \in expired /\ StopGivesUp /\ FALSE

(* the deadline covers the cleanup call and Stop together *)
StopTimesOut == Cleanup \in expired /\ StopGivesUp

stopGameSessionEvents ==
    /\ conn.at = "stopping"
    /\ \/ StopCloses \/ StopCancels \/ StopFlushes \/ StopReturns
       \/ \E p \in Priorities : StopRejects(p)
       \/ StopTimesOut
    /\ UNCHANGED <<session, work>>

(* mutant: the error of Stop is ignored *)
CleansHere_Always == ~completed

(* the connection goroutine cleans up itself only beside a stopped loop *)
CleansHere == ~completed /\ stop = "nil"

ShutdownDecides ==
    /\ conn.at = "stopping"
    /\ stop \in {"nil", "ctx"}
    /\ IF CleansHere
       THEN /\ conn' = [conn EXCEPT !.at = "fallback"]
            /\ cleanups' = cleanups + 1
       ELSE /\ conn' = [conn EXCEPT !.at = "closed"]
            /\ UNCHANGED cleanups
    /\ UNCHANGED <<loopVars, session, task, completed>>

(* unbindGameSession, last: the generation moves if a character is selected *)
Unbind ==
    /\ generation' = IF selected # NoCharacter THEN generation + 1 ELSE generation
    /\ UNCHANGED <<selected, armed>>

FallbackEnds ==
    /\ conn.at = "fallback"
    /\ Unbind
    /\ completed' = TRUE
    /\ conn' = [conn EXCEPT !.at = "closed"]
    /\ UNCHANGED <<loopVars, active, task, cleanups>>

(***************************************************************************)
(* The other actors                                                        *)
(***************************************************************************)
(* A timer that was armed fires: postGameSessionCharacterEvent *)
TimerFires(t) ==
    /\ armed[t] # Unarmed
    /\ SubmitBlocking(t) \/ GiveUpBlocked(t)
    /\ UNCHANGED <<session, work>>

FanoutCalls(f) ==
    /\ conn.at # "accepted"
    /\ SubmitBlocking(f) \/ GiveUpBlocked(f)
    /\ UNCHANGED <<session, work>>

FanoutTimesOut(f) ==
    /\ Expire(f)
    /\ UNCHANGED <<session, work>>

(* gameSessionShutdownWait is over *)
ShutdownTimesOut ==
    /\ conn.at \in {"cleaning", "stopping"}
    /\ Expire(Cleanup)
    /\ UNCHANGED <<session, work>>

(* The service's context, that of the loop, of its packets and its timers, *)
(* ends.                                                                   *)
ServiceEnds ==
    /\ ParentMayCancel
    /\ flags.started /\ ~flags.cancelled
    /\ flags' = [flags EXCEPT !.cancelled = TRUE, !.orphaned = TRUE]
    /\ expired' = expired \union Packets \union Timers
    /\ UNCHANGED <<queue, callbacks, loop, disp, stop, drain, call, ready, history,
                   replies, session, work>>

(***************************************************************************)
(* Tasks on the loop                                                       *)
(***************************************************************************)
(* mutant: the processor does not look at active *)
Current_Closed(t) ==
    /\ armed[t].character = selected
    /\ armed[t].generation = generation

(* the processor's test of an asynchronous task *)
Current(t) ==
    /\ active
    /\ armed[t].character = selected
    /\ armed[t].generation = generation

TaskBegins ==
    /\ Begin
    /\ LET e == loop.cur IN
       /\ task' = IF loop'.at = "run" /\ (e \in Timers => Current(e)) THEN e ELSE None
       /\ cleanups' = IF task' = Cleanup THEN cleanups + 1 ELSE cleanups
    /\ UNCHANGED <<session, conn, completed>>

(* bindGameSessionCharacter *)
SelectCharacter(c) ==
    /\ selected' = c
    /\ generation' = IF selected = c THEN generation ELSE generation + 1
    /\ UNCHANGED armed

(* resetGameSessionForCharacterSelect *)
ReturnToSelect ==
    /\ selected' = NoCharacter
    /\ generation' = IF selected = NoCharacter THEN generation ELSE generation + 1
    /\ UNCHANGED armed

(* a handler arms a timer for the selected character *)
Arm(t) ==
    /\ selected # NoCharacter
    /\ armed' = [armed EXCEPT ![t] = [character |-> selected, generation |-> generation]]
    /\ UNCHANGED <<selected, generation>>

TaskEffect ==
    \/ task = Cleanup /\ Unbind
    \/ task # Cleanup /\ UNCHANGED <<selected, generation, armed>>
    \/ task \in Packets /\ generation < MaxGeneration
       /\ (ReturnToSelect \/ \E c \in Characters : SelectCharacter(c))
    \/ task \in Packets \union Fanouts \union Timers
       /\ \E t \in Timers : call[t] = "new" /\ Arm(t)

TaskEnds ==
    /\ Finish
    /\ TaskEffect
    /\ completed' = (completed \/ task = Cleanup)
    /\ task' = None
    /\ UNCHANGED <<active, conn, cleanups>>

LoopRuns ==
    /\ \/ LoopStep /\ loop.at # "begin"
       \/ DispatchStep \/ Close
    /\ UNCHANGED <<session, work>>

ConnStep ==
    \/ CallSubmits \/ PacketReturns \/ beginGameSessionClose \/ CleanupReturns
    \/ stopGameSessionEvents \/ ShutdownDecides \/ FallbackEnds

Next ==
    \/ startGameSessionEvents \/ ReadFails \/ ConnStep
    \/ \E e \in Packets : ReadPacket(e)
    \/ \E t \in Timers : TimerFires(t)
    \/ \E f \in Fanouts : FanoutCalls(f) \/ FanoutTimesOut(f)
    \/ ShutdownTimesOut \/ ServiceEnds
    \/ TaskBegins \/ TaskEnds \/ LoopRuns

Spec == Init /\ [][Next]_vars

(* The scheduler runs the goroutines and the runtime fires the shutdown    *)
(* timer; a handler need not return (no fairness of TaskEnds).             *)
Fairness ==
    /\ WF_vars(ConnStep) /\ WF_vars(ShutdownTimesOut)
    /\ WF_vars(TaskBegins) /\ WF_vars(LoopRuns)

FairSpec == Spec /\ Fairness

(***************************************************************************)
(* Properties                                                              *)
(***************************************************************************)
(* The state keeps its shape, and the task is the loop's event in hand.    *)
TypeOK ==
    /\ LoopTypeOK
    /\ active \in BOOLEAN /\ completed \in BOOLEAN
    /\ selected \in Characters \union {NoCharacter}
    /\ generation \in 1..(MaxGeneration + 2)
    /\ armed \in [Timers -> [character : Characters \union {NoCharacter},
                             generation : 0..(MaxGeneration + 2)]]
    /\ task # None => loop.at = "run" /\ loop.cur = task
    /\ conn.at \in {"accepted", "reading", "calling", "closing", "cleaning",
                    "stopping", "fallback", "closed"}
    /\ cleanups \in Nat

(* A timer's task runs only for the character and the generation it was    *)
(* armed for, from its first step to its last: it cannot cross a character *)
(* switch or a return to the selection, wherever it waited meanwhile.      *)
(* Once the session was cleaned up none runs any more, even one that late  *)
(* work of a party member's session armed after the cleanup.               *)
TimerOnItsCharacter ==
    task \in Timers =>
        /\ armed[task] = [character |-> selected, generation |-> generation]
        /\ ~completed

(* The state keeps its shape, the session is cleaned up at most once, and  *)
(* never beside a task of the loop: the connection goroutine takes over    *)
(* only when Stop has seen the loop end.  Only when a handler outlives the *)
(* shutdown deadline, so that Stop gives up, are the online player, party  *)
(* and trade left behind.                                                  *)
CleanupExclusive ==
    /\ TypeOK
    /\ cleanups <= 1
    /\ conn.at = "fallback" => task = None /\ loop.at = "exited"
    /\ conn.at = "closed" /\ cleanups = 0 => stop = "ctx"

(* A connection that ends gets through its shutdown although a handler may *)
(* never return.                                                           *)
ShutdownEnds == conn.at = "closing" ~> conn.at = "closed"
=============================================================================
