----------------------------- MODULE TimeQueue -----------------------------
(***************************************************************************)
(* The queue of due times of platform/timequeue, on which the game server  *)
(* keeps every timer: named tasks in a heap that sessions schedule, replace *)
(* and cancel under q.mu, and one goroutine (Start) that sleeps until the  *)
(* first of them is due, takes what is due and calls it back outside the   *)
(* lock.                                                                   *)
(*                                                                         *)
(* The heap is a set ordered by (due, id).  Due times are moments of the   *)
(* wall clock, which may be set forward and back (UTC() strips Go's        *)
(* monotonic reading); the goroutine's timer runs on monotonic time.  A    *)
(* task called every minute, day or week is one that recurs at the         *)
(* multiples of Period.                                                    *)
(***************************************************************************)
EXTENDS Integers, FiniteSets

CONSTANTS
    TaskNames,      \* names of tasks
    Periodic,       \* the names registered to recur; the others are scheduled
    Period,         \* the period of the tasks that recur
    StaleThreshold, \* marks that start a compaction
    IdleWait,       \* the hour nextDelay waits without a task
    Delays,         \* how far ahead a task is scheduled
    MaxID,          \* bound on the ids given to scheduled tasks
    MaxTime,        \* bound on monotonic time
    MaxShift,       \* bound on the shift of the wall clock
    MaxSettings     \* bound on how often the wall clock is set

ASSUME TimeQueueAssumption ==
    /\ Periodic \subseteq TaskNames
    /\ Period \in Nat \ {0}
    /\ StaleThreshold \in Nat \ {0}
    /\ IdleWait \in Nat
    /\ Delays \subseteq Nat
    /\ MaxShift \in Nat

VARIABLES
    tasks,      \* q.items
    byName,     \* q.byName, 0 for no entry
    canceled,   \* q.canceled
    nextID,     \* q.nextID
    lastNow,    \* q.lastNow, 0 for the zero time
    token,      \* a token in q.wake
    runner,     \* the goroutine of Start
    time,       \* monotonic time
    shift,      \* what the wall clock is ahead of it
    settings    \* how often the wall clock was set

queueVars == <<tasks, byName, canceled, nextID, lastNow, token>>
clockVars == <<time, shift, settings>>
timeQueueVars == <<queueVars, runner, clockVars>>

\* q.now()
Now == time + shift

\* The runner: where it is, until when it sleeps, the time the timer gave it
\* and the callbacks it has taken; and, as history, with which shift of the
\* wall clock it computed its sleep.  What it has no use for is 0.
Runner(at) ==
    [at |-> at, until |-> 0, now |-> 0, calls |-> {}, ahead |-> 0]

TimeQueueInit ==
    /\ tasks = {}
    /\ byName = [n \in TaskNames |-> 0]
    /\ canceled = {}
    /\ nextID = 0
    /\ lastNow = 0
    /\ token = FALSE
    /\ runner = Runner("off")
    /\ time = 0
    /\ shift = MaxShift     \* so that it can be set back
    /\ settings = 0

-----------------------------------------------------------------------------
(* Tasks *)

\* taskHeap.Less
Before(t, u) == t.due < u.due \/ (t.due = u.due /\ t.id < u.id)

First(S) == CHOOSE t \in S : \A u \in S : u = t \/ Before(t, u)

Current(t, named) == named[t.name] = t.id

\* Neither marked nor replaced.
Live(t) == t.id \notin canceled /\ Current(t, byName)

IDs(S) == {t.id : t \in S}

\* The next minute, day or week after now.
NextMoment(now) == ((now \div Period) + 1) * Period

\* compactLocked: what stays of the heap and of the marks.
Compacts(marks) == Cardinality(marks) >= StaleThreshold

Kept(S, marks, named) ==
    IF Compacts(marks) THEN {t \in S : t.id \notin marks /\ Current(t, named)} ELSE S

Marked(S, marks) ==
    IF Compacts(marks) THEN marks \ IDs(S) ELSE marks

\* signalLocked: at most one token.
Signal_Lost == UNCHANGED token
Signal == token' = TRUE

\* addTask: a task of the same name is replaced, the sleeper is woken.
AddTask(name, due) ==
    LET id == nextID + 1
        all == tasks \cup {[id |-> id, name |-> name, due |-> due]}
        marks == IF byName[name] # 0 THEN canceled \cup {byName[name]} ELSE canceled
        named == [byName EXCEPT ![name] = id]
    IN  /\ nextID < MaxID
        /\ nextID' = id
        /\ byName' = named
        /\ tasks' = Kept(all, marks, named)
        /\ canceled' = Marked(all, marks)
        /\ Signal
        /\ UNCHANGED <<lastNow, runner, clockVars>>

ScheduleAfter(name, delay) == name \notin Periodic /\ AddTask(name, Now + delay)

Register(name) == name \in Periodic /\ AddTask(name, NextMoment(Now))

\* The entries of these names go, their tasks are marked and stay in the heap.
Forget(names) ==
    /\ names # {}
    /\ byName' = [n \in TaskNames |-> IF n \in names THEN 0 ELSE byName[n]]
    /\ canceled' = canceled \cup {byName[n] : n \in names}
    /\ Signal
    /\ UNCHANGED <<tasks, nextID, lastNow, runner, clockVars>>

Cancel(name) == byName[name] # 0 /\ Forget({name})

\* A handle cancels the task it was given for and no later one of that name.
CancelHandle(name, id) == id # 0 /\ byName[name] = id /\ Forget({name})

CancelPrefix(names) == Forget({n \in names : byName[n] # 0})

-----------------------------------------------------------------------------
(* The goroutine *)

StartQueue ==
    /\ runner.at = "off"
    /\ runner' = Runner("plan")
    /\ UNCHANGED <<queueVars, clockVars>>

\* nextDelay pops the stale tasks in front of the first live one, and with
\* them their marks; the timer is set to the time that is left.
StaleInFront == {t \in tasks : \A u \in tasks : Live(u) => Before(t, u)}

Wait(S) ==
    IF S = {} THEN IdleWait
    ELSE IF First(S).due > Now THEN First(S).due - Now ELSE 0

Plan ==
    /\ runner.at = "plan"
    /\ LET rest == tasks \ StaleInFront
       IN  /\ tasks' = rest
           /\ runner' = [Runner("sleep") EXCEPT !.until = time + Wait(rest), !.ahead = shift]
    /\ canceled' = canceled \ IDs(StaleInFront)
    /\ UNCHANGED <<byName, nextID, lastNow, token, clockVars>>

\* select: the token, the timer or the context.
Wake ==
    /\ runner.at = "sleep" /\ token
    /\ token' = FALSE
    /\ runner' = Runner("plan")
    /\ UNCHANGED <<tasks, byName, canceled, nextID, lastNow, clockVars>>

\* The timer gives the moment it was set to, on the wall clock of now.
TimerFires ==
    /\ runner.at = "sleep" /\ time >= runner.until
    /\ runner' = [Runner("take") EXCEPT !.now = runner.until + shift]
    /\ UNCHANGED <<queueVars, clockVars>>

StopQueue ==
    /\ runner.at = "sleep"
    /\ runner' = Runner("done")
    /\ UNCHANGED <<queueVars, clockVars>>

\* reanchorLocked, when the clock was set back: recurring tasks get the next
\* moment after the new time.
Reanchor(now) ==
    /\ tasks' = {IF Current(t, byName) /\ t.name \in Periodic
                 THEN [t EXCEPT !.due = NextMoment(now)] ELSE t : t \in tasks}
    /\ runner' = Runner("plan")
    /\ UNCHANGED <<byName, canceled, nextID>>

\* Tasks that are due leave the heap: a marked one with its mark, a current
\* one to be called back.  One that recurs comes back under a new id.
Collect(now) ==
    LET due == {t \in tasks : t.due <= now}
        live == {t \in due : Live(t)}
        again == {t \in live : t.name \in Periodic}
        NewID(t) == nextID + Cardinality({u \in again : u = t \/ Before(u, t)})
        all == (tasks \ due)
                 \cup {[t EXCEPT !.id = NewID(t), !.due = NextMoment(now)] : t \in again}
        marks == (canceled \ IDs(due)) \cup {t.id : t \in {u \in due : u.id \notin canceled} \ live}
        named == [n \in TaskNames |->
                    IF \E t \in again : t.name = n
                    THEN NewID(CHOOSE t \in again : t.name = n)
                    ELSE IF \E t \in live : t.name = n THEN 0 ELSE byName[n]]
    IN  /\ tasks' = Kept(all, marks, named)
        /\ canceled' = Marked(all, marks)
        /\ byName' = named
        /\ nextID' = nextID + Cardinality(again)
        /\ runner' = [Runner("call") EXCEPT !.calls = live]

TakeDue ==
    /\ runner.at = "take"
    /\ IF runner.now < lastNow THEN Reanchor(runner.now) ELSE Collect(runner.now)
    /\ lastNow' = runner.now
    /\ Signal
    /\ UNCHANGED clockVars

\* RunDue calls back in the order of the heap; invoke recovers a panic.
Invoke_PanicEnds ==
    /\ runner.at = "call"
    /\ runner' = Runner(IF runner.calls = {} THEN "plan" ELSE "off")
    /\ UNCHANGED <<queueVars, clockVars>>

Invoke ==
    /\ runner.at = "call"
    /\ runner' = IF runner.calls = {} THEN Runner("plan")
                 ELSE [runner EXCEPT !.calls = @ \ {First(@)}]
    /\ UNCHANGED <<queueVars, clockVars>>

-----------------------------------------------------------------------------
(* Clocks *)

Tick ==
    /\ time < MaxTime
    /\ time' = time + 1
    /\ UNCHANGED <<queueVars, runner, shift, settings>>

SetClock ==
    /\ settings < MaxSettings
    /\ settings' = settings + 1
    /\ shift' \in (0 .. MaxShift) \ {shift}
    /\ UNCHANGED <<queueVars, runner, time>>

-----------------------------------------------------------------------------
RunnerStep == Plan \/ Wake \/ TimerFires \/ TakeDue \/ Invoke

TimeQueueNext ==
    \/ \E n \in TaskNames :
         \/ \E d \in Delays : ScheduleAfter(n, d)
         \/ Register(n)
         \/ Cancel(n)
         \/ \E id \in 1 .. nextID : CancelHandle(n, id)
    \/ \E S \in SUBSET TaskNames : CancelPrefix(S)
    \/ StartQueue \/ StopQueue \/ RunnerStep
    \/ Tick \/ SetClock

TimeQueueSpec == TimeQueueInit /\ [][TimeQueueNext]_timeQueueVars

(* The goroutine runs and time passes under it; nobody has to schedule or  *)
(* cancel.                                                                 *)
TimeQueueFairness ==
    /\ WF_timeQueueVars(RunnerStep)
    /\ WF_timeQueueVars(runner.at # "off" /\ Tick)

-----------------------------------------------------------------------------
(* Properties *)

Tasks == [id : Nat \ {0}, name : TaskNames, due : Nat]

TimeQueueTypeOK ==
    /\ tasks \subseteq Tasks
    /\ byName \in [TaskNames -> Nat]
    /\ nextID \in Nat /\ lastNow \in Nat
    /\ token \in BOOLEAN
    /\ runner.at \in {"off", "plan", "sleep", "take", "call", "done"}
    /\ runner.until \in Nat /\ runner.now \in Nat
    /\ runner.ahead \in Nat
    /\ time \in Nat /\ shift \in 0 .. MaxShift /\ settings \in Nat

\* Every entry of byName has its task in the heap, and the marks are exactly
\* those of the other tasks: none is forgotten (a cancelled or replaced task
\* would be called back) and none is left over (it would never be removed).
StaleAreMarked ==
    /\ \A t \in tasks : t.id <= nextID
    /\ \A t, u \in tasks : t.id = u.id => t = u
    /\ \A n \in TaskNames : byName[n] # 0 => \E t \in tasks : t.id = byName[n] /\ t.name = n
    /\ canceled = {t.id : t \in {u \in tasks : ~Current(u, byName)}}

\* A goroutine that goes on sleeping without a token in the channel wakes no
\* later than any current task is due, on the clock it looked at; whatever was
\* scheduled between its look at the heap and its sleep.
NoOversleep ==
    runner.at = "sleep" /\ ~token /\ time < runner.until =>
        \A t \in tasks : Current(t, byName) => runner.until + runner.ahead <= t.due

(* The queue never loses track of a task: it is current and waited for, or *)
(* it is marked and will be dropped.                                       *)
QueueSound == TimeQueueTypeOK /\ StaleAreMarked /\ NoOversleep

(* A task is called back once its moment has come, however the clock is    *)
(* set and whoever schedules and cancels meanwhile, unless it is cancelled *)
(* or replaced or the queue is stopped.                                    *)
TaskFires ==
    \A id \in 1 .. MaxID :
        LET Pending == \E t \in tasks : t.id = id /\ Current(t, byName) /\ t.due <= MaxTime
        IN  runner.at # "off" /\ Pending ~> ~Pending \/ runner.at = "done"
=============================================================================
