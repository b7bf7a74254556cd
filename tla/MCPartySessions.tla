-------------------------- MODULE MCPartySessions --------------------------
(* Instances of PartySessions for TLC. *)
EXTENDS PartySessions, TLC

CONSTANTS a1, a2, b, u1, u2,
          MaxCommands,   \* bound on the handlers started
          MaxBusy        \* bound on the handlers running at the same time

VARIABLE commands

MCMaySelect == a1 :> {u1} @@ a2 :> {u1} @@ b :> {u1, u2}
MCGens == 1 .. 2 * MaxBinds - 1

\* u1 and u2 are selected and in town; a2 and b may select u1.  What is left is
\* two selections among four handlers, or one among five.
MCInit ==
    /\ Init
    /\ char = (a1 :> u1 @@ a2 :> NoUser @@ b :> u2)
    /\ gen = (a1 :> 2 @@ a2 :> 1 @@ b :> 3)
    /\ lastGen = 3
    /\ online = (u1 :> a1 @@ u2 :> b)
    /\ town = (u1 :> a1 @@ u2 :> b)
    /\ view = [s \in Sessions |-> NoView]
    /\ job = [s \in Sessions |-> <<>>]
    /\ got = [s \in Sessions |-> 0]
    /\ closed = {}
    /\ binds \in {2, 3} /\ commands = 3 - binds

Busy == Cardinality({t \in Sessions : job[t] # <<>>})

\* The first handler brings u1 and u2 together, and the last two may overlap.
Started ==
    /\ commands < MaxCommands
    /\ Busy < IF commands < MaxCommands - 2 THEN 1 ELSE MaxBusy
    /\ \E s \in Sessions :
          Command(s) /\ (commands + binds = 3 => \E c \in Users : EntryIntoParty(s, c))
    /\ commands' = commands + 1

MCCalm ==
    \/ Started
    \/ \E s \in Sessions : ~ InWindow(s) /\ Continues(s) /\ UNCHANGED commands

MCCalmSpec == MCInit /\ [][MCCalm]_<<sessionVars, commands>>

MCNext ==
    \/ Started
    \/ \E s \in Sessions : Continues(s) /\ UNCHANGED commands

MCSpec == MCInit /\ [][MCNext]_<<sessionVars, commands>>
=============================================================================
