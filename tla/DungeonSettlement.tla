------------------------- MODULE DungeonSettlement -------------------------
(***************************************************************************)
(* The end of a dungeon run for one character (dnfbridge/dungeon_*.go): the *)
(* result the client asks for once the boss is dead, the experience it     *)
(* commits, the two rows of cards and their rewards, and the ways out:     *)
(* the dialog (op72), giving up (op42), the system menu (op132), the       *)
(* selector (op15), another dungeon (op16) and death.                      *)
(*                                                                         *)
(* All handlers run on the session's loop, one at a time.  What interleaves *)
(* is the order in which a client sends its packets, two timers (the free  *)
(* card turns by itself; a dead character is sent home) that are cancelled *)
(* while their event may already be on the loop, transactions and writes   *)
(* that fail between two effects of one handler, and the connection.  An   *)
(* error that a packet handler returns closes the connection.  A request   *)
(* that a handler ignores changes nothing and is no step.  Tutorials and   *)
(* the other members of a party are left out.                              *)
(***************************************************************************)
EXTENDS Naturals, FiniteSetsExt

CONSTANTS
    NilRuntime, \* a nil session.dungeon.runtime
    Unchosen,   \* settlementCardSideSelectionKnown is false
    Seats,      \* the cards of a row, 0 among them
    RunBound,   \* bound on the runs
    MaxDeaths   \* bound on the deaths

VARIABLES
    online,     \* the connection is open and its character selected
    run,        \* session.dungeon.runtime
    timers,     \* timers that wait in the time queue or whose event is posted
    finalizer,  \* backToVillageEnterSelectPending
    receipt,    \* the settlement receipt in the character's row
    lastRun,    \* runs begun
    settled,    \* history: how often each run's experience was committed
    granted,    \* history: how often each run's cards were paid out
    deaths,     \* history: deaths so far
    fallen,     \* history: the death the character lies dead of, or 0
    sentHome    \* history: the last death whose timer sent the character home

durable == <<receipt, settled, granted>>
death == <<deaths, fallen, sentHome>>
settlementVars == <<online, run, timers, finalizer, durable, lastRun, death>>

Sides == {"free", "paid"}

(* currentDungeonSettlementPhase; the flags set in the same handler as the *)
(* phase (entry, clear reward, scroll and layout sent) are read off it.    *)
Combat == 0
ClearEnabled == 1
ResultShown == 2
CardScroll == 3
CardsRevealed == 4
RewardCommitted == 5
Ending == 6

Marks == [Sides -> BOOLEAN]

(* The fields of a dungeon runtime that the settlement uses (NewRun). *)
Runs ==
    [id : 1 .. RunBound, stage : Combat .. Ending, plan : BOOLEAN, stats : BOOLEAN,
     pick : [Sides -> Seats \cup {Unchosen}], sent : Marks, given : Marks, done : Marks,
     acked : BOOLEAN, returning : BOOLEAN, op24 : BOOLEAN, waiting : BOOLEAN]

(* The bounds are numbers, a nil runtime is no run, and the timer turns a  *)
(* card that exists.                                                       *)
ASSUME SettlementAssumption ==
    /\ RunBound \in Nat /\ MaxDeaths \in Nat
    /\ NilRuntime \notin Runs
    /\ 0 \in Seats

\* advanceSettlementPhase never goes back.
Advance(r, stage) == [r EXCEPT !.stage = Max({@, stage})]

NewRun(n) ==
    [id |-> n, stage |-> Combat,
     plan |-> FALSE,                          \* settlementResultPlan is frozen
     stats |-> FALSE,                         \* settlementStatisticReceived
     pick |-> [s \in Sides |-> Unchosen],     \* the first seat asked for
     sent |-> [s \in Sides |-> FALSE],        \* op71 was written for it
     given |-> [s \in Sides |-> FALSE],       \* dungeonCardState.delivered
     done |-> [s \in Sides |-> FALSE],        \* settlementCardSideRewardCommitted
     acked |-> FALSE,                         \* settlementCardExitAckSent
     returning |-> FALSE, op24 |-> FALSE,     \* townReturnPending, its op24 sent
     waiting |-> FALSE]                       \* deathReturnWaiting

In(stage) == online /\ run # NilRuntime /\ run.stage >= stage
Active == In(Combat) /\ run.stage = Combat

SettlementInit ==
    /\ online = TRUE
    /\ run = NilRuntime
    /\ timers = {}
    /\ finalizer = FALSE
    /\ receipt = [run |-> 0, intact |-> FALSE]
    /\ lastRun = 0
    /\ settled = [n \in 1 .. RunBound |-> 0]
    /\ granted = [n \in 1 .. RunBound |-> [s \in Sides |-> 0]]
    /\ deaths = 0
    /\ fallen = 0
    /\ sentHome = 0

-----------------------------------------------------------------------------
(* Timers *)

Timer(kind, n) == [kind |-> kind, run |-> run.id, death |-> n, posted |-> FALSE, live |-> TRUE]

\* cancelCurrentDungeonDeathReturnLocked, cancelCurrentDungeonCardAutoFlip-
\* Locked: the name is removed from the queue, and the generation moves on so
\* that an event already posted finds itself stale.
Cancel_InQueue(kind, T) == {t \in T : t.kind # kind \/ t.posted}

Cancel(kind, T) ==
    {[t EXCEPT !.live = @ /\ t.kind # kind] : t \in {u \in T : u.kind # kind \/ u.posted}}

CancelBoth(T) == Cancel("flip", Cancel("death", T))

\* The time queue hands a due timer to the session's loop.
TimerDue(kind) ==
    \E t \in timers :
        /\ t.kind = kind /\ ~t.posted
        /\ timers' = (timers \ {t}) \cup {[t EXCEPT !.posted = TRUE]}
        /\ UNCHANGED <<online, run, finalizer, durable, lastRun, death>>

-----------------------------------------------------------------------------
(* The ends a handler may come to: it keeps the run r, it detaches it, or  *)
(* it returns an error.  T are the timers by then.                         *)

Keep(r, T) ==
    /\ run' = r /\ timers' = T
    /\ UNCHANGED <<online, finalizer, lastRun>>

Detach(T) ==
    /\ run' = NilRuntime /\ timers' = CancelBoth(T)
    /\ UNCHANGED <<online, lastRun>>

\* The connection closes; unbindGameSession cancels both timers.
Drop ==
    /\ online' = FALSE
    /\ run' = NilRuntime /\ timers' = CancelBoth(timers)
    /\ finalizer' = FALSE
    /\ UNCHANGED lastRun

\* commitDungeonRuntime replaces a run that is not active.
Begin(T) ==
    /\ lastRun < RunBound
    /\ lastRun' = lastRun + 1
    /\ run' = NewRun(lastRun + 1)
    /\ timers' = CancelBoth(T)
    /\ UNCHANGED online

Grant(sides) ==
    granted' = [granted EXCEPT ![run.id] = [s \in Sides |-> @[s] + IF s \in sides THEN 1 ELSE 0]]

-----------------------------------------------------------------------------
(* Entering and fighting *)

\* op16: a pending return counts as done; an active run stays.
NextDungeon ==
    /\ online /\ (Active => run.returning)
    /\ fallen' = 0 /\ UNCHANGED <<durable, deaths, sentHome>>
    /\ \/ Drop
       \/ Begin(timers) /\ UNCHANGED finalizer
       \/ run # NilRuntime /\ run.returning /\ Detach(timers) /\ UNCHANGED finalizer

\* An accepted monster death (op39) or room change (op45) proves that the
\* client never left the dungeon; a room change also ends the death wait.
Evidence(moved) ==
    /\ In(Combat) /\ (moved => Active)
    /\ Keep([run EXCEPT !.returning = FALSE, !.op24 = FALSE, !.waiting = @ /\ ~moved],
            IF moved THEN Cancel("death", timers) ELSE timers)
    /\ fallen' = IF moved THEN 0 ELSE fallen
    /\ UNCHANGED <<durable, deaths, sentHome>>

\* The boss is dead: op115, op31.
BossDieCheck ==
    /\ Active
    /\ \/ Drop
       \/ Keep(Advance([run EXCEPT !.waiting = FALSE], ClearEnabled), Cancel("death", timers))
    /\ fallen' = 0 /\ UNCHANGED <<durable, deaths, sentHome>>

-----------------------------------------------------------------------------
(* The result *)

\* CommitSettlement: the receipt in the character's row makes a repetition
\* return the committed values, and fail when level or experience moved on.
CommitSettlement ==
    \/ receipt = [run |-> run.id, intact |-> TRUE] /\ UNCHANGED <<settled, receipt>>
    \/ /\ receipt.run # run.id
       /\ settled' = [settled EXCEPT ![run.id] = @ + 1]
       /\ receipt' = [run |-> run.id, intact |-> TRUE]

\* op34, op37, op35: nothing is sent once the run is ending.
SendResults(r) ==
    \/ r.stage < Ending /\ Drop
    \/ Keep(IF r.stage < Ending THEN Advance(r, ResultShown) ELSE r, timers)

\* produceCurrentDungeonSettlementPlanLocked: an error before the commit
\* changes nothing, one after it leaves the run without a plan.
ProducePlan ==
    /\ CommitSettlement
    /\ Keep(run, timers) \/ SendResults([run EXCEPT !.plan = TRUE])

\* op46: the plan is made once.
PlayResult ==
    /\ In(ClearEnabled)
    /\ \/ run.plan /\ SendResults(run) /\ UNCHANGED <<settled, receipt>>
       \/ ~run.plan /\ ProducePlan
    /\ UNCHANGED <<granted, death>>

\* Quests and other rewards change the level or the experience.
ProgressElsewhere ==
    /\ receipt' = [receipt EXCEPT !.intact = FALSE]
    /\ UNCHANGED <<online, run, timers, finalizer, settled, granted, lastRun, death>>

\* op123
Statistic ==
    /\ In(ClearEnabled)
    /\ Keep([run EXCEPT !.stats = TRUE], timers)
    /\ UNCHANGED <<durable, death>>

-----------------------------------------------------------------------------
(* The cards *)

\* op69
ScoreScroll ==
    /\ In(ResultShown)
    /\ Drop \/ Keep(Advance(run, CardScroll), timers)
    /\ UNCHANGED <<durable, death>>

\* op70: the first layout arms the timer that turns the free card.
CardLayout ==
    /\ In(CardScroll)
    /\ \/ Drop
       \/ Keep(Advance(run, CardsRevealed),
               IF run.stage = CardScroll /\ run.pick["free"] = Unchosen
               THEN timers \cup {Timer("flip", 0)} ELSE timers)
    /\ UNCHANGED <<durable, death>>

\* commitCurrentDungeonCardSideRewardLocked: the run and the sides paid, for
\* each outcome of the transaction and of the refresh written after it.
\* reserveSelection reserves nothing for a side that is delivered.
Payments_Again(r, side) ==
    LET paid == [r EXCEPT !.given[side] = TRUE, !.done[side] = TRUE]
        rest == [r EXCEPT !.given[side] = TRUE]
    IN  IF r.done[side] \/ ~r.sent[side] THEN {[run |-> r, grant |-> {}]}
        ELSE {[run |-> r, grant |-> {}],
              [run |-> rest, grant |-> {side}],
              [run |-> IF side = "free" THEN Advance(paid, RewardCommitted) ELSE paid,
               grant |-> {side}]}

Payments(r, side) ==
    LET given == [r EXCEPT !.given[side] = TRUE]
        done == [given EXCEPT !.done[side] = TRUE]
        paid == IF side = "free" THEN Advance(done, RewardCommitted) ELSE done
    IN  IF r.done[side] \/ ~r.sent[side] THEN {[run |-> r, grant |-> {}]}
        ELSE IF r.given[side] THEN {[run |-> paid, grant |-> {}]}
        ELSE {[run |-> r, grant |-> {}],
              [run |-> given, grant |-> {side}],
              [run |-> paid, grant |-> {side}]}

\* selectCurrentDungeonCardLocked: the first seat of a row stands, op71 is
\* written and the row paid; ok is FALSE when the write fails.
Selections(r, side, seat) ==
    LET known == [r EXCEPT !.pick[side] = seat]
        sent == [known EXCEPT !.sent[side] = TRUE]
    IN  IF r.pick[side] \notin {Unchosen, seat}
        THEN {[run |-> r, grant |-> {}, ok |-> TRUE]}
        ELSE {[run |-> known, grant |-> {}, ok |-> FALSE]} \cup
             {[run |-> p.run, grant |-> p.grant, ok |-> TRUE] : p \in Payments(sent, side)}

\* A free card that is sent needs no timer.
Turned_Any(r, T) == IF \E s \in Sides : r.sent[s] THEN Cancel("flip", T) ELSE T
Turned(r, T) == IF r.sent["free"] THEN Cancel("flip", T) ELSE T

\* op71
SelectCard(side, seat) ==
    /\ In(CardsRevealed)
    /\ \E o \in Selections(run, side, seat) :
         /\ IF o.ok THEN Keep(o.run, Turned(o.run, timers)) ELSE Drop
         /\ Grant(o.grant)
    /\ UNCHANGED <<receipt, settled, death>>

\* The timer's event turns seat 0 unless it is stale; its error only is logged.
FlipFires ==
    \E t \in timers :
        /\ t.kind = "flip" /\ t.posted
        /\ LET T == timers \ {t}
           IN  IF /\ In(CardsRevealed) /\ t.run = run.id /\ t.live
                  /\ run.pick["free"] = Unchosen
               THEN \E o \in Selections(run, "free", 0) :
                      Keep(o.run, Turned(o.run, T)) /\ Grant(o.grant)
               ELSE Keep(run, T) /\ UNCHANGED granted
        /\ UNCHANGED <<receipt, settled, death>>

-----------------------------------------------------------------------------
(* The ways out *)

\* What op72 and a completed op42 do first: they turn the free card and pay
\* it if that is still to be done, and carry on when either fails.
BeforeExit(r) ==
    LET turned == IF r.stage >= CardsRevealed /\ ~r.sent["free"]
                  THEN Selections(r, "free", 0)
                  ELSE {[run |-> r, grant |-> {}]}
    IN  UNION {{[run |-> p.run, grant |-> t.grant \cup p.grant] :
                  p \in Payments(t.run, "free")} : t \in turned}

\* Nothing leaves before the free card is paid.
Barrier_Sent(r) == r.stage >= CardsRevealed /\ r.sent["free"]
Barrier(r) == r.stage >= RewardCommitted /\ r.sent["free"] /\ r.done["free"]

\* completedDungeonSettlementExitReady
ExitReady(r) == r.stats /\ Barrier(r)

\* sendCurrentCompletedDungeonReturnToTown: the route may stop on an error or
\* wait for the client; only a complete one detaches the run.
CompletedReturn(r, T) ==
    \/ Drop
    \/ /\ run' = [r EXCEPT !.returning = TRUE]
       /\ timers' = IF r.returning THEN T ELSE Cancel("death", T)
       /\ finalizer' = (finalizer /\ r.returning)
       /\ UNCHANGED <<online, lastRun>>
    \/ Detach(T) /\ finalizer' = (finalizer /\ r.returning)

\* retryCurrentCompletedDungeon: retire the run, then the op16 entry, which
\* may be refused.
Retry(r, T) ==
    \/ ~ExitReady(r) /\ Keep(r, T)
    \/ ExitReady(r) /\ finalizer' = FALSE /\ (Detach(T) \/ Begin(T))
    \/ ExitReady(r) /\ Drop

\* sendEnterSelectDungeonState: after an op24 one op15 only says that the
\* scene is there; any other retires a completed run that may go, unless no
\* town position can be found for the character.
EnterSelect(r, T) ==
    LET confirmed == r.returning /\ r.op24
    IN  \/ finalizer /\ ~confirmed /\ finalizer' = FALSE
           /\ run' = r /\ timers' = T /\ UNCHANGED <<online, lastRun>>
        \/ confirmed /\ Detach(T) /\ finalizer' = FALSE
        \/ ~finalizer /\ ~confirmed /\ ExitReady(r) /\ Detach(T) /\ finalizer' = FALSE
        \/ ~finalizer /\ ~confirmed /\ Keep(r, T)
        \/ Drop

\* op72: one acknowledgement; a second "town" resumes the route.
Eplp(option) ==
    /\ In(ResultShown)
    /\ \E o \in BeforeExit(run) :
         /\ Grant(o.grant)
         /\ LET r == o.run
                T == Turned(r, timers)
                ack == [r EXCEPT !.acked = TRUE]
                end == Advance(ack, Ending)
            IN  \/ ~Barrier(r) /\ Keep(r, T)
                \/ Barrier(r) /\ r.acked /\ option # "town" /\ Keep(r, T)
                \/ Barrier(r) /\ r.acked /\ option = "town" /\ CompletedReturn(r, T)
                \/ Barrier(r) /\ ~r.acked /\ Drop
                \/ Barrier(r) /\ ~r.acked /\ option = "none" /\ Keep(ack, T)
                \/ Barrier(r) /\ ~r.acked /\ option = "town"
                   /\ (CompletedReturn(end, T) \/ Keep(end, T))
                \/ Barrier(r) /\ ~r.acked /\ option = "again" /\ Retry(end, T)
                \/ Barrier(r) /\ ~r.acked /\ option = "other" /\ EnterSelect(end, T)
    /\ UNCHANGED <<receipt, settled, death>>

\* sendCurrentDungeonReturnToTownLocked: the run stays until the client shows
\* up in town.  fails says what a failed write leads to.
SendReturnToTown(T, fails) ==
    \/ fails
    \/ /\ run' = [run EXCEPT !.returning = TRUE, !.op24 = TRUE, !.waiting = FALSE]
       /\ finalizer' = TRUE
       /\ timers' = Cancel("death", T)
       /\ UNCHANGED <<online, lastRun>>

\* op42
Giveup ==
    /\ UNCHANGED <<receipt, settled, death>>
    /\ \/ /\ Active /\ ~run.returning
          /\ SendReturnToTown(timers, Drop) /\ UNCHANGED granted
       \/ /\ In(ResultShown) /\ run.stats
          /\ \E o \in BeforeExit(run) :
               /\ Grant(o.grant)
               /\ LET T == Turned(o.run, timers)
                  IN  \/ ~Barrier(o.run) /\ Keep(o.run, T)
                      \/ Barrier(o.run) /\ CompletedReturn(Advance(o.run, Ending), T)

\* op132: a pending attempt starts over; from the selection page there is no
\* run, only the way back.
VillageRequest ==
    /\ \/ In(Combat) /\ SendReturnToTown(timers, Drop)
       \/ online /\ run = NilRuntime /\ Drop
       \/ /\ online /\ run = NilRuntime
          /\ finalizer' = TRUE /\ UNCHANGED <<online, run, timers, lastRun>>
    /\ UNCHANGED <<durable, death>>

\* op15; without a run it only takes the finalizer back.
SelectorRequest ==
    /\ online
    /\ IF run = NilRuntime THEN finalizer' = FALSE /\ UNCHANGED <<online, run, timers, lastRun>>
       ELSE EnterSelect(run, timers)
    /\ UNCHANGED <<durable, death>>

\* op36, and op35 once the op24 is out: the client is in town.
TownRequest ==
    /\ In(Combat) /\ run.returning
    /\ (Detach(timers) /\ UNCHANGED finalizer) \/ Drop
    /\ UNCHANGED <<durable, death>>

\* Back to character selection: only the card's timer is cancelled.
Leave ==
    /\ online
    /\ online' = FALSE
    /\ run' = NilRuntime /\ timers' = Cancel("flip", timers)
    /\ finalizer' = FALSE
    /\ UNCHANGED <<durable, lastRun, death>>

Unbind == online /\ Drop /\ UNCHANGED <<durable, death>>

Login ==
    /\ ~online /\ online' = TRUE
    /\ UNCHANGED <<run, timers, finalizer, durable, lastRun, death>>

-----------------------------------------------------------------------------
(* Death *)

\* op40: every death starts the wait anew.
Die ==
    /\ Active /\ ~run.returning /\ deaths < MaxDeaths
    /\ deaths' = deaths + 1 /\ fallen' = deaths + 1
    /\ \/ Drop
       \/ Keep([run EXCEPT !.waiting = TRUE],
               Cancel("death", timers) \cup {Timer("death", deaths + 1)})
    /\ UNCHANGED <<durable, sentHome>>

\* op41: the coin is spent before the answer is written.
UseCoin ==
    /\ Active /\ ~run.returning /\ run.waiting
    /\ fallen' = 0
    /\ Drop \/ Keep([run EXCEPT !.waiting = FALSE], Cancel("death", timers))
    /\ UNCHANGED <<durable, deaths, sentHome>>

\* fireCurrentDungeonDeathReturn; a failed write only is logged.
DeathFires ==
    \E t \in timers :
        /\ t.kind = "death" /\ t.posted
        /\ IF Active /\ t.run = run.id /\ run.waiting /\ t.live /\ ~run.returning
           THEN /\ SendReturnToTown(timers \ {t},
                                    Keep([run EXCEPT !.returning = TRUE, !.waiting = FALSE],
                                         Cancel("death", timers \ {t})))
                /\ sentHome' = t.death
           ELSE Keep(run, timers \ {t}) /\ UNCHANGED sentHome
        /\ UNCHANGED <<durable, deaths, fallen>>

-----------------------------------------------------------------------------
SettlementNext ==
    \/ NextDungeon \/ BossDieCheck \/ PlayResult \/ ProgressElsewhere \/ Statistic
    \/ \E moved \in BOOLEAN : Evidence(moved)
    \/ ScoreScroll \/ CardLayout
    \/ \E side \in Sides, seat \in Seats : SelectCard(side, seat)
    \/ \E option \in {"town", "again", "other", "none"} : Eplp(option)
    \/ Giveup \/ VillageRequest \/ SelectorRequest \/ TownRequest
    \/ Leave \/ Unbind \/ Login
    \/ Die \/ UseCoin
    \/ \E kind \in {"flip", "death"} : TimerDue(kind)
    \/ FlipFires \/ DeathFires

(* The time queue and the loop go on; nobody has to send a packet. *)
SettlementFairness == WF_settlementVars(TimerDue("flip")) /\ WF_settlementVars(FlipFires)

SettlementSpec == SettlementInit /\ [][SettlementNext]_settlementVars /\ SettlementFairness

-----------------------------------------------------------------------------
Timers == [kind : {"flip", "death"}, run : 1 .. RunBound, death : 0 .. MaxDeaths,
           posted : BOOLEAN, live : BOOLEAN]

(* The state keeps its shape, and what a run records of itself agrees: a   *)
(* row is paid only after it was sent, sent only after it was chosen, and  *)
(* a character that waits to be sent home has a timer that will do it.     *)
SettlementTypeOK ==
    /\ online \in BOOLEAN /\ finalizer \in BOOLEAN
    /\ timers \subseteq Timers
    /\ run # NilRuntime =>
         /\ run \in Runs
         /\ \A s \in Sides : /\ run.done[s] => run.given[s]
                             /\ run.given[s] => run.sent[s]
                             /\ run.sent[s] => run.pick[s] \in Seats
         /\ run.waiting => \E t \in timers : t.kind = "death" /\ t.run = run.id /\ t.live

(* A run is settled at most once and each of its cards is paid at most     *)
(* once, however often op46, op71, op72, op42 and the timer repeat what a  *)
(* failed write or transaction interrupted; and what the run records as    *)
(* settled or paid has been.                                               *)
RewardsOnce ==
    /\ SettlementTypeOK
    /\ \A n \in 1 .. RunBound : settled[n] <= 1 /\ \A s \in Sides : granted[n][s] <= 1
    /\ run # NilRuntime =>
         /\ run.plan => settled[run.id] = 1
         /\ \A s \in Sides : run.done[s] => granted[run.id][s] = 1

(* "None of those actions may cross the op69 -> op70 -> op71 card/reward   *)
(* barriers" (dungeon_card_flow.go:278): a connected player's completed    *)
(* run is let go without its free card only by an op16 or to end a return  *)
(* to town (op132, or a death's) that was under way already; never by      *)
(* op72, op42, the retry or the selector.                                  *)
PaidBeforeExit ==
    [][/\ run # NilRuntime /\ run.stage # Combat
       /\ online' /\ (run' = NilRuntime \/ run'.id # run.id)
       => granted'[run.id]["free"] = 1 \/ run.returning \/ NextDungeon]_settlementVars

(* A timer sends a character home only for the death it still lies dead    *)
(* of: not after a revival, a later death, a new room, the boss's death or *)
(* in another run, although its event may already wait on the loop.        *)
ReturnFollowsDeath == [][sentHome' # sentHome => sentHome' = fallen]_settlementVars

(* Once the cards lie open the free one is turned, by the player or by the *)
(* timer, unless the run is gone before.                                   *)
FreeCardTurns ==
    LET open == run # NilRuntime /\ run.stage >= CardsRevealed /\ run.pick["free"] = Unchosen
    IN  open ~> ~open
=============================================================================
