----------------------------- MODULE MCDungeon -----------------------------
(* Two scenes of the dungeon.  "party": a leader and two followers open    *)
(* the selector and enter.  "settlement": one character and the end of its *)
(* runs.                                                                   *)
EXTENDS PartyDungeon, DungeonSettlement

CONSTANTS ann, bob, cid,
          MaxCommands  \* bound: what the players of a party do in one behaviour

VARIABLES scene, commands

RosterVal == <<ann, bob, cid>>

\* Starting in town, a party spends a command on the op15 that the other
\* start has behind it, so it is given one less.
MCInit ==
    /\ Init /\ SettlementInit
    /\ \/ scene = "party" /\ commands = IF page[ann] THEN 0 ELSE 1
       \/ scene = "settlement" /\ commands = MaxCommands /\ page[ann]

\* The party changes by the last command, and cid, the last of every list,
\* opens and selects nothing.
PartyNext ==
    \/ /\ commands < MaxCommands /\ commands' = commands + 1
       /\ \E m \in Members : Arrive(m) /\ (m = cid => UNCHANGED job)
       /\ party' # party => commands' = MaxCommands
    \/ /\ UNCHANGED commands
       /\ \E m \in Members : Continue(m) \/ Timeout(m) \/ Publish(m) \/ Close(m)

\* Cards are turned in a run without deaths; the next run is there to be
\* disturbed by what is left of it.
ShortRuns ==
    run' # NilRuntime /\ (run'.id = RunBound \/ deaths > 0) => run'.stage <= ClearEnabled

MCNext ==
    /\ UNCHANGED scene
    /\ \/ scene = "party" /\ PartyNext /\ UNCHANGED settlementVars
       \/ /\ scene = "settlement" /\ UNCHANGED <<vars, commands>>
          /\ SettlementNext /\ ShortRuns

MCSpec ==
    /\ MCInit /\ [][MCNext]_<<vars, commands, scene, settlementVars>>
    /\ Fairness /\ SettlementFairness
=============================================================================
