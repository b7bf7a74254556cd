--------------------------- MODULE MCGameSession ---------------------------
(* Instances of GameSessionEvents for TLC: the session's events are medium. *)
EXTENDS GameSessionEvents

CONSTANTS c1, f1

MCEvents == Packets \union Timers \union Fanouts \union {Cleanup}
MCTraffics == {MCEvents}
MCPrio == [e \in MCEvents |-> "medium"]
MCAnswered == Packets \union Fanouts \union {Cleanup}
MCMayExpire == Fanouts \union {Cleanup}

\* An earlier packet has selected a character, a party member's call has armed
\* a timer for it, and the loop is at rest.
Playing ==
    /\ queue = [p \in Priorities |-> <<>>]
    /\ callbacks = <<>>
    /\ flags = [f \in Flags |-> f \in {"started", "running", "accepting"}]
    /\ loop = Rest
    /\ disp = [at |-> "select", item |-> None]
    /\ stop = "idle"
    /\ drain = "idle"
    /\ call = [e \in Events |-> IF e = f1 THEN "accepted" ELSE "new"]
    /\ expired = {}
    /\ ready = Events \ LateReader
    /\ accepted = <<f1>>
    /\ begun = <<f1>>
    /\ rejected = {}
    /\ answers = [e \in Events |-> IF e = f1 THEN <<"result">> ELSE <<>>]
    /\ dropped = {}
    /\ active = TRUE
    /\ selected = c1
    /\ generation = 2
    /\ armed = [t \in Timers |-> [character |-> c1, generation |-> 2]]
    /\ task = None
    /\ conn = [at |-> "reading", on |-> None]
    /\ cleanups = 0
    /\ completed = FALSE

MCSpec == (Init \/ Playing) /\ [][Next]_vars /\ Fairness
=============================================================================
