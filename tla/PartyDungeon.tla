---------------------------- MODULE PartyDungeon ----------------------------
(***************************************************************************)
(* How a party opens the dungeon selector and enters a dungeon together    *)
(* (dnfbridge/game_enter_select_dungeon.go, dungeon_navigation_runtime.go).*)
(* Every member has one session with an event loop that runs one handler   *)
(* at a time.  A handler calls another member's loop and waits for the     *)
(* answer with a deadline (callGameSession), so two handlers may wait for  *)
(* each other; it also writes the dungeon runtime of the other sessions    *)
(* directly, under their locks.                                            *)
(*                                                                         *)
(* A step of a handler ends where it calls another loop, takes another     *)
(* session's lock or writes to its socket.  Whether two members stand in   *)
(* the same area, whether a character's position is known, whether it may  *)
(* enter the dungeon, whether an op15 only ends a return to town           *)
(* (backToVillageEnterSelectPending) and whether a write succeeds are free *)
(* choices.  Moving from room to room, returning to character selection    *)
(* and changing the leader are left out.                                   *)
(*                                                                         *)
(* A return from a dungeon has two halves (dungeon_return_town.go): op132  *)
(* marks the run and tells the client to leave, and the first town packet  *)
(* of that client detaches the run and rebuilds its character in town.     *)
(***************************************************************************)
EXTENDS Naturals, Sequences, SequencesExt

CONSTANTS
    Members,     \* sessions of characters that begin in one party
    Roster,      \* the party's member list, its leader first
    NoParty,     \* a projection with PartyID 0
    NoRun,       \* a nil dungeon.runtime
    Idle,        \* a loop that runs no handler
    MaxRuns      \* bound on the runs prepared by op16

Phases == {"sync", "check", "preflight", "commit", "rollback", "announce", "enter",
           "done", "blocked", "failed"}

Projections == [id : Nat, roster : Seq(Members)]

\* A run is active until its boss is dead; leaving is townReturnPending.
Runtimes == [id : Nat, over : BOOLEAN, leaving : BOOLEAN]

\* A handler of a packet has a phase and the members it still has to visit in
\* that phase; all are the members it visits.
Handlers ==
    [op : {"open", "select"}, phase : Phases, state : Projections \cup {NoParty},
     all : Seq(Members), todo : Seq(Members), run : Nat \cup {NoRun}, waiting : BOOLEAN]

\* The execution of another member's call, which may have given up on it.
Serves ==
    [op : {"serve"}, from : Members, kind : {"selector", "entry"},
     state : Projections \cup {NoParty}, run : Nat \cup {NoRun}, live : BOOLEAN]

ASSUME DungeonAssumption ==
    /\ Roster \in Seq(Members) /\ Len(Roster) > 1
    /\ \A i, j \in DOMAIN Roster : Roster[i] = Roster[j] => i = j
    /\ NoRun \notin Nat \cup Runtimes
    /\ NoParty \notin Projections
    /\ Idle \notin Handlers \cup Serves
    /\ MaxRuns \in Nat

VARIABLES
    party,     \* the party manager's record of the party: id and roster
    view,      \* session.party.state: what each session was last sent of it
    page,      \* the selector page: the enterSelectDungeon flags
    origin,    \* townSelectorOriginBound
    unsettled, \* confirmedDungeonReturnStatePending
    runtime,   \* session.dungeon.runtime
    entered,   \* the run each client left the town scene for, until it is back
    conn,      \* each connection
    job,       \* the handler each loop runs
    inbox,     \* the calls waiting on each loop
    launched,  \* history: runs whose leader committed them
    strayed,   \* history: members that went on by themselves while an op16 named them
    runs       \* runs prepared so far

towns == <<page, origin, unsettled>>
dungeons == <<runtime, entered, launched, strayed>>
loops == <<job, inbox>>
vars == <<party, view, towns, dungeons, conn, loops, runs>>

\* Everybody is in town, or an op15 has brought everybody to the selector.
Init ==
    /\ party = [id |-> 1, roster |-> Roster]
    /\ view = [m \in Members |-> party]
    /\ \E open \in BOOLEAN : page = [m \in Members |-> open]
    /\ origin = page
    /\ unsettled = [m \in Members |-> FALSE]
    /\ runtime = [m \in Members |-> NoRun]
    /\ entered = [m \in Members |-> NoRun]
    /\ conn = [m \in Members |-> "open"]
    /\ job = [m \in Members |-> Idle]
    /\ inbox = [m \in Members |-> <<>>]
    /\ launched = {}
    /\ strayed = {}
    /\ runs = 0

-----------------------------------------------------------------------------
(* What the handlers look at *)

Run(n) == [id |-> n, over |-> FALSE, leaving |-> FALSE]

\* The same PartyID and leader (UserID).
SameParty(a, b) ==
    a # NoParty /\ b # NoParty /\ a.id = b.id /\ Head(a.roster) = Head(b.roster)

Leaving(m) == runtime[m] # NoRun /\ runtime[m].leaving

\* A return is under way, or its second half failed.
Returning(m) == Leaving(m) \/ unsettled[m]

\* currentTownEnterSelectReady
Ready(m) == runtime[m] = NoRun /\ entered[m] = NoRun

\* commitDungeonRuntime replaces a run that is over, never an active one.
MayCommit_Replaces(m) == TRUE
MayCommit(m) == runtime[m] # NoRun => runtime[m].over

\* q without its entry at the only position in I.
Less(q, I) == IF I = {} THEN q ELSE RemoveAt(q, CHOOSE i \in I : TRUE)

\* A roster without m
Minus(roster, m) == Less(roster, {i \in DOMAIN roster : roster[i] = m})

Others(state, s) == Minus(state.roster, s)

Free(s) == job[s] = Idle

\* The selections that hold a prepared entry for m.
Naming(m) == {s \in Members : ~Free(s) /\ job[s].op = "select" /\ Contains(job[s].all, m)}

-----------------------------------------------------------------------------
(* Handlers and calls *)

Handler(op, phase, state, all, n) ==
    [op |-> op, phase |-> phase, state |-> state, all |-> all, todo |-> all, run |-> n,
     waiting |-> FALSE]

Phase(h, phase) == [h EXCEPT !.phase = phase, !.todo = h.all, !.waiting = FALSE]

Visited(h) == [h EXCEPT !.todo = Tail(h.todo), !.waiting = FALSE]

\* What an answer makes of the handler that waits for it.  A selection that
\* is not ready everywhere ends quietly before anything is committed; a
\* failed call of the two other fan-outs fails the packet.
Resumed_Carries(h, result) ==
    IF h.phase = "preflight" /\ result # "yes" THEN Phase(h, "blocked") ELSE Visited(h)

Resumed(h, result) ==
    IF h.phase = "preflight" /\ result # "yes" THEN Phase(h, "blocked")
    ELSE IF result = "error" THEN Phase(h, "failed")
    ELSE Visited(h)

\* callGameSession up to the wait: a loop that is closed refuses the event.
Call(s, m, kind) ==
    IF conn[m] = "closed"
    THEN /\ job' = [job EXCEPT ![s] = Resumed(@, "error")]
         /\ UNCHANGED inbox
    ELSE /\ inbox' = [inbox EXCEPT ![m] = Append(@, [from |-> s, kind |-> kind])]
         /\ job' = [job EXCEPT ![s].waiting = TRUE]

\* The deadline of the call.  An event still queued is answered without
\* being run; one that is running ends with nobody to take its result.
Timeout_Never(s) == FALSE /\ UNCHANGED vars

Timeout(s) ==
    /\ ~Free(s) /\ job[s].op # "serve" /\ job[s].waiting
    /\ inbox' = [m \in Members |->
                   Less(inbox[m], {i \in DOMAIN inbox[m] : inbox[m][i].from = s})]
    /\ job' = [m \in Members |->
                 IF m = s THEN Resumed(job[s], "error")
                 ELSE IF ~Free(m) /\ job[m].op = "serve" /\ job[m].from = s
                 THEN [job[m] EXCEPT !.live = FALSE]
                 ELSE job[m]]
    /\ UNCHANGED <<party, view, towns, dungeons, conn, runs>>

\* The loop takes the next call.
Serve(m) ==
    /\ Free(m) /\ conn[m] # "closed" /\ inbox[m] # <<>>
    /\ LET c == Head(inbox[m])
       IN  job' = [job EXCEPT ![m] = [op |-> "serve", from |-> c.from, kind |-> c.kind,
                                      state |-> job[c.from].state, run |-> job[c.from].run,
                                      live |-> TRUE]]
    /\ inbox' = [inbox EXCEPT ![m] = Tail(@)]
    /\ UNCHANGED <<party, view, towns, dungeons, conn, runs>>

Answer(m, result) ==
    /\ job' = [s \in Members |->
                 IF s = m THEN Idle
                 ELSE IF s = job[m].from /\ job[m].live THEN Resumed(job[s], result)
                 ELSE job[s]]
    /\ UNCHANGED <<party, view, conn, inbox, runs>>

\* prepareRuntimePartyFollowerEnterSelect
ServeSelector(m) ==
    /\ ~Free(m) /\ job[m].op = "serve" /\ job[m].kind = "selector"
    /\ \/ page[m] /\ Answer(m, "yes") /\ UNCHANGED <<page, origin>>
       \/ ~page[m] /\ Answer(m, "no") /\ UNCHANGED <<page, origin>>
       \/ ~page[m] /\ Ready(m) /\ Answer(m, "error") /\ UNCHANGED <<page, origin>>
       \/ /\ ~page[m] /\ Ready(m) /\ SameParty(job[m].state, view[m])
          /\ page' = [page EXCEPT ![m] = TRUE]
          /\ origin' = [origin EXCEPT ![m] = TRUE]
          /\ Answer(m, "yes")
    /\ UNCHANGED <<unsettled, dungeons>>

\* The run a town packet leaves m with
Detached(m) == IF Leaving(m) THEN NoRun ELSE runtime[m]

\* commitPendingDungeonReturnForSceneRequest: m's return, if there is one, is
\* confirmed; rebuilding the character in town may fail.
Resume(m, rebuilt) ==
    /\ rebuilt \/ Returning(m)
    /\ runtime' = [runtime EXCEPT ![m] = Detached(m)]
    /\ unsettled' = [unsettled EXCEPT ![m] = ~rebuilt]
    /\ entered' = [entered EXCEPT ![m] = IF Returning(m) /\ rebuilt THEN NoRun ELSE @]

\* handleDungeonSelectUpperPlanned for a prepared follower.  Where its own
\* return cannot be finished, or no origin is bound, it returns nil and sends
\* nothing.  The run is not committed again when the return detached it.
ServeEntry(m) ==
    /\ ~Free(m) /\ job[m].op = "serve" /\ job[m].kind = "entry"
    /\ \/ Resume(m, FALSE) /\ Answer(m, "yes")
       \/ ~origin[m] /\ Resume(m, TRUE) /\ Answer(m, "yes")
       \/ /\ origin[m]
          /\ runtime' = [runtime EXCEPT ![m] = Detached(m)]
          /\ unsettled' = [unsettled EXCEPT ![m] = FALSE]
          /\ entered' = [entered EXCEPT ![m] = job[m].run]
          /\ Answer(m, "yes") \/ Answer(m, "error")
    /\ UNCHANGED <<page, origin, launched, strayed>>

-----------------------------------------------------------------------------
Stray(m) == strayed' = IF Naming(m) = {} THEN strayed ELSE strayed \cup {m}

(* op15: any member opens the selector and takes the others along. *)

\* A pending return is confirmed and a finished run retired on the way.
OpenSelector(s) ==
    /\ Free(s) /\ conn[s] = "open"
    /\ runtime[s] # NoRun => runtime[s].leaving \/ runtime[s].over
    /\ entered[s] # NoRun => runtime[s] # NoRun \/ unsettled[s]
    /\ runtime' = [runtime EXCEPT ![s] = NoRun]
    /\ entered' = [entered EXCEPT ![s] = NoRun]
    /\ unsettled' = [unsettled EXCEPT ![s] = FALSE]
    /\ page' = [page EXCEPT ![s] = TRUE]
    /\ origin' = [origin EXCEPT ![s] = TRUE]
    /\ IF runtime[s] = NoRun /\ ~unsettled[s] THEN UNCHANGED strayed ELSE Stray(s)
    /\ job' = [job EXCEPT ![s] =
                 Handler("open", "sync", view[s],
                         IF view[s] = NoParty THEN <<>> ELSE Others(view[s], s), NoRun)]
    /\ UNCHANGED <<party, view, launched, conn, inbox, runs>>

At(s, phase) == ~Free(s) /\ job[s].op # "serve" /\ job[s].phase = phase /\ ~job[s].waiting

Goto(s, phase) == job' = [job EXCEPT ![s] = Phase(@, phase)] /\ UNCHANGED inbox

\* synchronizeRuntimePartyMembersEnterSelect: members elsewhere are skipped.
Sync(s) ==
    /\ At(s, "sync")
    /\ LET h == job[s]
           m == Head(h.todo)
       IN  \/ h.todo = <<>> /\ Goto(s, "done")
           \/ /\ h.todo # <<>>
              /\ job' = [job EXCEPT ![s] = Visited(h)] /\ UNCHANGED inbox
           \/ /\ h.todo # <<>> /\ conn[m] # "closed" /\ SameParty(h.state, view[m])
              /\ Call(s, m, "selector")
    /\ UNCHANGED <<party, view, towns, dungeons, conn, runs>>

-----------------------------------------------------------------------------
(* op16: the leader of a party enters with everybody, others alone. *)

\* The return it confirms may fail: the packet is then ignored.  A run still
\* active refuses the new one only at its commit.
SelectDungeon(s) ==
    /\ Free(s) /\ conn[s] = "open"
    /\ Stray(s)
    /\ \/ Resume(s, FALSE) /\ UNCHANGED <<job, runs>>
       \/ /\ Resume(s, TRUE)
          /\ runs < MaxRuns /\ runs' = runs + 1
          /\ job' = [job EXCEPT ![s] =
                       Handler("select", "check", view[s],
                               IF view[s] = NoParty \/ Head(view[s].roster) # s THEN <<>>
                               ELSE Others(view[s], s), runs + 1)]
    /\ UNCHANGED <<party, view, page, origin, launched, conn, inbox>>

\* prepareRuntimePartyDungeonEntry, the loop that prepares without calling
Check(s) ==
    /\ At(s, "check")
    /\ LET h == job[s]
           m == Head(h.todo)
       IN  \/ h.todo = <<>> /\ Goto(s, "preflight")
           \/ h.todo # <<>> /\ Goto(s, "blocked")
           \/ /\ h.todo # <<>> /\ conn[m] # "closed" /\ SameParty(h.state, view[m])
              /\ Ready(m) /\ origin[m]
              /\ job' = [job EXCEPT ![s] = Visited(h)] /\ UNCHANGED inbox
    /\ UNCHANGED <<party, view, towns, dungeons, conn, runs>>

\* its second loop, and the origin and packet plan of the leader itself
Preflight(s) ==
    /\ At(s, "preflight")
    /\ LET h == job[s]
       IN  \/ h.todo # <<>> /\ Call(s, Head(h.todo), "selector")
           \/ h.todo = <<>> /\ Goto(s, "blocked")
           \/ /\ h.todo = <<>> /\ origin[s]
              /\ job' = [job EXCEPT ![s] = [Phase(h, "commit") EXCEPT !.todo = Append(h.all, s)]]
              /\ UNCHANGED inbox
    /\ UNCHANGED <<party, view, towns, dungeons, conn, runs>>

\* commitRuntimePartyPreparedFollowers, then the leader's own commit
Commit(s) ==
    /\ At(s, "commit")
    /\ LET h == job[s]
           m == Head(h.todo)
       IN  IF MayCommit(m)
           THEN /\ runtime' = [runtime EXCEPT ![m] = Run(h.run)]
                /\ launched' = IF m = s THEN launched \cup {h.run} ELSE launched
                /\ IF m = s THEN Goto(s, "announce")
                   ELSE job' = [job EXCEPT ![s] = Visited(h)] /\ UNCHANGED inbox
           ELSE /\ job' = [job EXCEPT ![s] =
                            [Phase(h, "rollback") EXCEPT
                               !.todo = SubSeq(h.all, 1, Len(h.all) + 1 - Len(h.todo))]]
                /\ UNCHANGED <<runtime, launched, inbox>>
    /\ UNCHANGED <<party, view, towns, entered, strayed, conn, runs>>

\* rollbackRuntimePartyPreparedFollowers
Rollback_Skips(s) ==
    /\ At(s, "rollback")
    /\ Goto(s, "blocked")
    /\ UNCHANGED <<party, view, towns, dungeons, conn, runs>>

Rollback(s) ==
    /\ At(s, "rollback")
    /\ LET h == job[s]
           m == Head(h.todo)
       IN  IF h.todo = <<>>
           THEN Goto(s, "blocked") /\ UNCHANGED runtime
           ELSE /\ runtime' = [runtime EXCEPT
                                 ![m] = IF @ # NoRun /\ @.id = h.run THEN NoRun ELSE @]
                /\ job' = [job EXCEPT ![s] = Visited(h)] /\ UNCHANGED inbox
    /\ UNCHANGED <<party, view, towns, entered, launched, strayed, conn, runs>>

\* resetDungeonEntrySceneGates and the writes between the commit and the
\* fan-out
Announce(s) ==
    /\ At(s, "announce")
    /\ unsettled' = [unsettled EXCEPT ![s] = FALSE]
    /\ entered' = [entered EXCEPT ![s] = job[s].run]
    /\ Goto(s, "failed") \/ Goto(s, "enter")
    /\ UNCHANGED <<party, view, page, origin, runtime, launched, strayed, conn, runs>>

\* enterRuntimePartyFollowers
Enter(s) ==
    /\ At(s, "enter")
    /\ LET h == job[s]
           m == Head(h.todo)
       IN  \/ h.todo = <<>> /\ Goto(s, "done")
           \/ h.todo # <<>> /\ ~SameParty(h.state, view[m]) /\ Goto(s, "failed")
           \/ h.todo # <<>> /\ SameParty(h.state, view[m]) /\ Call(s, m, "entry")
    /\ UNCHANGED <<party, view, towns, dungeons, conn, runs>>

\* The packet is handled; an error closes its connection (game.go).
End(s) ==
    /\ At(s, "done") \/ At(s, "blocked") \/ At(s, "failed")
    /\ job' = [job EXCEPT ![s] = Idle]
    /\ conn' = IF job[s].phase = "failed" THEN [conn EXCEPT ![s] = "failed"] ELSE conn
    /\ strayed' = {m \in strayed : Naming(m) \ {s} # {}}
    /\ UNCHANGED <<party, view, towns, runtime, entered, launched, inbox, runs>>

-----------------------------------------------------------------------------
(* What else a member's own loop does meanwhile. *)

\* op132 on the selector page
BackToVillage(m) ==
    /\ Free(m) /\ conn[m] = "open"
    /\ Ready(m) /\ page[m] /\ origin[m]
    /\ page' = [page EXCEPT ![m] = FALSE]
    /\ origin' = [origin EXCEPT ![m] = FALSE]
    /\ unsettled' = [unsettled EXCEPT ![m] = TRUE]
    /\ Stray(m)
    /\ UNCHANGED <<party, view, runtime, entered, launched, conn, loops, runs>>

\* op132, op42 or the return after a death, in a dungeon
LeaveDungeon(m) ==
    /\ Free(m) /\ conn[m] = "open"
    /\ runtime[m] # NoRun
    /\ runtime' = [runtime EXCEPT ![m].leaving = TRUE]
    /\ unsettled' = [unsettled EXCEPT ![m] = TRUE]
    /\ Stray(m)
    /\ UNCHANGED <<party, view, page, origin, entered, launched, conn, loops, runs>>

\* A packet only a client in the dungeon sends: the return is off.
StayInDungeon(m) ==
    /\ Free(m) /\ conn[m] = "open"
    /\ Leaving(m)
    /\ runtime' = [runtime EXCEPT ![m].leaving = FALSE]
    /\ unsettled' = [unsettled EXCEPT ![m] = FALSE]
    /\ UNCHANGED <<party, view, page, origin, entered, launched, strayed, conn, loops, runs>>

\* op35, the op15 that ends a return, or an op36 refused after its first step.
\* The former two unbind the origin of the run they detach.
ConfirmReturn(m) ==
    /\ Free(m) /\ conn[m] = "open"
    /\ Returning(m)
    /\ Stray(m)
    /\ \/ /\ Resume(m, FALSE) /\ UNCHANGED origin
          /\ conn' = [conn EXCEPT ![m] = "failed"]
       \/ /\ Resume(m, TRUE) /\ UNCHANGED conn
          /\ \/ UNCHANGED origin
             \/ Leaving(m) /\ origin' = [origin EXCEPT ![m] = FALSE]
    /\ UNCHANGED <<party, view, page, launched, loops, runs>>

\* op36, or the previous village, which confirms no return: another area
MoveTown(m) ==
    /\ Free(m) /\ conn[m] = "open"
    /\ Leaving(m) \/ Ready(m)
    /\ \/ Resume(m, TRUE)
       \/ Ready(m) /\ UNCHANGED <<runtime, unsettled, entered>>
    /\ page' = [page EXCEPT ![m] = FALSE]
    /\ origin' = [origin EXCEPT ![m] = FALSE]
    /\ Stray(m)
    /\ UNCHANGED <<party, view, launched, conn, loops, runs>>

\* The boss of the member's run dies.
Complete(m) ==
    /\ Free(m) /\ conn[m] = "open"
    /\ runtime[m] # NoRun /\ ~runtime[m].over /\ ~runtime[m].leaving
    /\ entered[m] = runtime[m].id
    /\ runtime' = [runtime EXCEPT ![m].over = TRUE]
    /\ Stray(m)
    /\ UNCHANGED <<party, view, towns, entered, launched, conn, loops, runs>>

\* The way to town from the settlement of a run (DungeonSettlement).
FinishDungeon(m) ==
    /\ Free(m) /\ conn[m] = "open"
    /\ runtime[m] # NoRun /\ runtime[m].over
    /\ runtime' = [runtime EXCEPT ![m] = NoRun]
    /\ entered' = [entered EXCEPT ![m] = NoRun]
    /\ page' = [page EXCEPT ![m] = FALSE]
    /\ origin' = [origin EXCEPT ![m] = FALSE]
    /\ unsettled' = [unsettled EXCEPT ![m] = FALSE]
    /\ Stray(m)
    /\ UNCHANGED <<party, view, launched, conn, loops, runs>>

\* The manager's answer to a departure: a successor leads a party of a new id.
Without(m) ==
    [id |-> IF Head(party.roster) = m THEN party.id + 1 ELSE party.id,
     roster |-> Minus(party.roster, m)]

\* A member leaves on its own loop, or is kicked on the leader's.
Depart(m) ==
    /\ Contains(party.roster, m) /\ Len(party.roster) > 1
    /\ \E actor \in {m, Head(party.roster)} : Free(actor) /\ conn[actor] = "open"
    /\ party' = Without(m)
    /\ UNCHANGED <<view, towns, dungeons, conn, loops, runs>>

\* The projection of a party of one is removed.
Seen(m) == IF Contains(party.roster, m) /\ Len(party.roster) > 1 THEN party ELSE NoParty

\* Snapshots reach the sessions one by one.
Publish(m) ==
    /\ view[m] # Seen(m)
    /\ view' = [view EXCEPT ![m] = Seen(m)]
    /\ UNCHANGED <<party, towns, dungeons, conn, loops, runs>>

\* The connection ends: cleanup leaves the party and rejects waiting calls.
Close(m) ==
    /\ Free(m) /\ conn[m] = "failed"
    /\ conn' = [conn EXCEPT ![m] = "closed"]
    /\ party' = IF Contains(party.roster, m) /\ Len(party.roster) > 1
                THEN Without(m) ELSE party
    /\ job' = [s \in Members |->
                 IF \E i \in DOMAIN inbox[m] : inbox[m][i].from = s
                 THEN Resumed(job[s], "error") ELSE job[s]]
    /\ inbox' = [inbox EXCEPT ![m] = <<>>]
    /\ UNCHANGED <<view, towns, dungeons, runs>>

\* The client goes away.
Disconnect(m) ==
    /\ conn[m] = "open" /\ (~Free(m) => job[m].op = "serve")
    /\ conn' = [conn EXCEPT ![m] = "failed"]
    /\ UNCHANGED <<party, view, towns, dungeons, loops, runs>>

-----------------------------------------------------------------------------
Continue(s) ==
    \/ Sync(s) \/ Check(s) \/ Preflight(s) \/ Commit(s) \/ Rollback(s)
    \/ Announce(s) \/ Enter(s) \/ End(s)
    \/ Serve(s) \/ ServeSelector(s) \/ ServeEntry(s)

\* What players do
Arrive(m) ==
    \/ OpenSelector(m) \/ SelectDungeon(m)
    \/ BackToVillage(m) \/ LeaveDungeon(m) \/ StayInDungeon(m) \/ ConfirmReturn(m)
    \/ MoveTown(m) \/ Complete(m) \/ FinishDungeon(m)
    \/ Depart(m) \/ Disconnect(m)

Next ==
    \E m \in Members :
        Arrive(m) \/ Continue(m) \/ Timeout(m) \/ Publish(m) \/ Close(m)

Spec == Init /\ [][Next]_vars

(* Loops run and deadlines pass; nobody has to send a packet. *)
Fairness == \A m \in Members : WF_vars(Continue(m)) /\ WF_vars(Timeout(m))

FairSpec == Spec /\ Fairness

-----------------------------------------------------------------------------
(* The state keeps its shape, and a call waits on a loop or runs there     *)
(* exactly while its caller waits for it.                                  *)
TypeOK ==
    /\ page \in [Members -> BOOLEAN]
    /\ origin \in [Members -> BOOLEAN] /\ \A m \in Members : origin[m] => page[m]
    /\ unsettled \in [Members -> BOOLEAN]
    /\ runtime \in [Members -> {NoRun} \cup
                        [id : 1 .. runs, over : BOOLEAN, leaving : BOOLEAN]]
    /\ entered \in [Members -> {NoRun} \cup 1 .. runs]
    /\ conn \in [Members -> {"open", "failed", "closed"}]
    /\ \A s \in Members :
         LET queued == {m \in Members : \E i \in DOMAIN inbox[m] : inbox[m][i].from = s}
             run == {m \in Members : /\ ~Free(m) /\ job[m].op = "serve"
                                     /\ job[m].from = s /\ job[m].live}
         IN  IF ~Free(s) /\ job[s].op # "serve"
             THEN /\ job[s].phase \in Phases
                  /\ job[s].waiting <=> queued \cup run # {}
             ELSE queued \cup run = {}

(* Followers are "committed first as a rollbackable batch"                 *)
(* (changlog.md:776): a run its leader did not commit leaves no trace once *)
(* op16 is over, although members select, return and disconnect between    *)
(* the commits.                                                            *)
NoOrphanedRuntime ==
    /\ TypeOK
    /\ \A m \in Members :
         runtime[m] # NoRun /\ runtime[m].id \notin launched =>
             \E s \in Members : /\ ~Free(s) /\ job[s].op = "select"
                                /\ job[s].run = runtime[m].id
                                /\ job[s].phase \in {"commit", "rollback"}

(* The leader writes into the sessions of the others while their own loops *)
(* run, and its entry call confirms a return they have begun               *)
(* (dungeon_navigation_runtime.go:76): nobody loses an active run unless   *)
(* it asked to leave that run or the run is rolled back.                   *)
RunsKept ==
    [][\A m \in Members :
         /\ runtime[m] # NoRun /\ ~runtime[m].over
         /\ runtime'[m] = NoRun \/ runtime'[m].id # runtime[m].id
         => \/ runtime[m].leaving
            \/ \E s \in Members : Rollback(s) /\ job[s].run = runtime[m].id]_vars

(* When the leader's op16 ends without an error everybody it prepared is   *)
(* in the dungeon with an active run of it, save those whose own return to *)
(* town is unfinished and those who returned, moved, selected or finished  *)
(* by themselves in the meantime: their entry returns nil, or detaches the *)
(* run before it enters, and the leader does not learn of it               *)
(* (dungeon_navigation_runtime.go:76-86, 132-139).                         *)
OnlyStrayedAreLeft ==
    \A s \in Members :
        At(s, "done") /\ job[s].op = "select" =>
            \A m \in ToSet(job[s].all) :
                \/ m \in strayed \/ unsettled[m]
                \/ entered[m] = job[s].run /\ runtime[m] = Run(job[s].run)

(* Members that open the selector or enter at the same moment call each    *)
(* other's busy loops; every handler still ends, and so every loop serves  *)
(* its queue.                                                              *)
HandlersEnd == \A m \in Members : ~Free(m) ~> Free(m)
=============================================================================
