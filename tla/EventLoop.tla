----------------------------- MODULE EventLoop -----------------------------
(***************************************************************************)
(* The priority driven event loop of platform/eventloop: three bounded     *)
(* queues consumed by one goroutine, a second goroutine that dispatches    *)
(* results to callback channels, and the callers of Submit,                *)
(* SubmitBlocking, Stop and Drain.  One such loop owns every game session. *)
(*                                                                         *)
(* Every receive, every send on a bounded channel and every critical       *)
(* section is one step, so the goroutines interleave between them.  A      *)
(* handler is a Begin and a Finish step; what it computes is left out.     *)
(***************************************************************************)
EXTENDS Naturals, Sequences, SequencesExt

CONSTANTS
    Events,             \* the events callers may submit
    None,               \* no event
    Prio,               \* Event.Priority
    Blocking,           \* events submitted by SubmitBlocking, the others by Submit
    Answered,           \* events with a Callback channel
    LateReader,         \* of those, the ones whose reader is not there from the start
    OwnContext,         \* events that carry their own Context
    MayExpire,          \* of those, the ones whose Context may be cancelled
    Recurring,          \* events without callback that are submitted again and again
    Traffics,           \* sets of events: those of one are submitted in a behaviour
    QueueSize,          \* capacity of each queue
    CallbackQueueSize,  \* capacity of the callback queue
    HighBurst, MediumBurst,
    MayStop, MayDrain,  \* is Stop, is Drain called
    MayGiveUp,          \* may the context of the Stop or Drain call expire
    Orphaning           \* of Traffics, those with a context of Start that may be cancelled

Priorities == {"high", "medium", "low"}

ASSUME EventsAssumption ==
    /\ None \notin Events
    /\ Prio \in [Events -> Priorities]
    /\ Blocking \subseteq Events
    /\ Answered \subseteq Events
    /\ LateReader \subseteq Answered
    /\ OwnContext \subseteq Events
    /\ MayExpire \subseteq OwnContext
    /\ Recurring \subseteq Events \ Answered
    /\ Traffics \subseteq SUBSET Events

ASSUME BoundsAssumption ==
    /\ QueueSize \in Nat \ {0}
    /\ CallbackQueueSize \in Nat \ {0}
    /\ HighBurst \in Nat \ {0}
    /\ MediumBurst \in Nat \ {0}
    /\ {MayStop, MayDrain, MayGiveUp} \subseteq BOOLEAN
    /\ Orphaning \subseteq Traffics

VARIABLES
    queue,      \* the channels high, medium and low
    callbacks,  \* the channel of results to dispatch
    flags,      \* started, closed, running, accepting, draining, and the channels
                \* that only signal: ctx cancelled (by its parent: orphaned), a
                \* token in wake, done closed
    loop,       \* runPriorityDriven: where it is, the burst count, whether a burst
                \* processed something, the event in hand, the event select received
    disp,       \* dispatchCallbacks: where it is and the item in hand
    stop,       \* where the call of Stop is; it holds submitMu while "rejecting"
    drain,      \* where the call of Drain is
    call,       \* where the submission of each event is
    expired,    \* events whose own Context is done
    ready,      \* events whose callback channel can take a result
    accepted,   \* history: events put on a queue, in order
    begun,      \* history: events handed to the processor, in order
    rejected,   \* history: events Stop took off a queue
    answers,    \* what each callback channel received
    dropped     \* events whose result was dropped (callbackDropped)

history == <<accepted, begun, rejected>>
replies == <<answers, dropped>>
callers == <<stop, drain, call, expired, ready>>
loopVars == <<queue, callbacks, flags, loop, disp, stop, drain, call, expired,
              ready, accepted, begun, rejected, answers, dropped>>

Flags == {"started", "closed", "running", "accepting", "draining",
          "cancelled", "orphaned", "wake", "done"}
Results == {"result", "expired", "closed"}
Items == [event : Events, result : Results]

\* No event and no item: a nil of the code.
ASSUME NoneAssumption == None \notin Items

Rest == [at |-> "top", n |-> 0, did |-> FALSE, cur |-> None, held |-> None,
         back |-> "top", res |-> "result"]

(* New: nothing runs until Start. *)
EventLoopInit ==
    /\ queue = [p \in Priorities |-> <<>>]
    /\ callbacks = <<>>
    /\ flags = [f \in Flags |-> FALSE]
    /\ loop = [Rest EXCEPT !.at = "off"]
    /\ disp = [at |-> "off", item |-> None]
    /\ stop = "idle"
    /\ drain = "idle"
    /\ \E T \in Traffics : call = [e \in Events |-> IF e \in T THEN "new" ELSE "unused"]
    /\ expired = {}
    /\ ready = Events \ LateReader
    /\ accepted = <<>>
    /\ begun = <<>>
    /\ rejected = {}
    /\ answers = [e \in Events |-> <<>>]
    /\ dropped = {}

(***************************************************************************)
(* Callers                                                                 *)
(***************************************************************************)
Start ==
    /\ ~flags.started /\ ~flags.closed
    /\ flags' = [flags EXCEPT !.started = TRUE, !.running = TRUE, !.accepting = TRUE]
    /\ loop' = Rest
    /\ disp' = [disp EXCEPT !.at = "select"]
    /\ UNCHANGED <<queue, callbacks, callers, history, replies>>

\* May the context given to Start be cancelled?
ParentMayCancel == {e \in Events : call[e] # "unused"} \in Orphaning

(* The context given to Start ends. *)
ParentCancels ==
    /\ ParentMayCancel
    /\ flags.started /\ ~flags.cancelled
    /\ flags' = [flags EXCEPT !.cancelled = TRUE, !.orphaned = TRUE]
    /\ UNCHANGED <<queue, callbacks, loop, disp, callers, history, replies>>

(* prepareEvent lets the event through *)
Prepared == flags.running /\ flags.accepting /\ ~flags.closed /\ ~flags.draining

SubmitMuFree == stop # "rejecting"

Enqueue(e) ==
    /\ queue' = [queue EXCEPT ![Prio[e]] = Append(@, e)]
    /\ call' = [call EXCEPT ![e] = "accepted"]
    /\ accepted' = Append(accepted, e)

Refuse(e) ==
    /\ call' = [call EXCEPT ![e] = "refused"]
    /\ UNCHANGED <<queue, accepted>>

Full(e) == Len(queue[Prio[e]]) >= QueueSize

(* Submit: a full queue is an error. *)
Submit(e) ==
    /\ e \in Events \ Blocking
    /\ call[e] = "new"
    /\ SubmitMuFree
    /\ IF Prepared /\ ~Full(e) THEN Enqueue(e) ELSE Refuse(e)
    /\ UNCHANGED <<callbacks, flags, loop, disp, stop, drain, expired, ready,
                   begun, rejected, replies>>

(* One turn of the loop in SubmitBlocking: the context is looked at before *)
(* the lock is taken; a full queue sends the caller to its retry timer.    *)
SubmitBlocking(e) ==
    /\ e \in Blocking
    /\ call[e] \in {"new", "blocked"}
    /\ \/ /\ e \in expired
          /\ Refuse(e)
       \/ /\ e \notin expired
          /\ SubmitMuFree
          /\ ~Prepared
          /\ Refuse(e)
       \/ /\ e \notin expired
          /\ SubmitMuFree
          /\ Prepared /\ ~Full(e)
          /\ Enqueue(e)
       \/ /\ e \notin expired
          /\ SubmitMuFree
          /\ Prepared /\ Full(e)
          /\ call' = [call EXCEPT ![e] = "blocked"]
          /\ UNCHANGED <<queue, accepted>>
    /\ UNCHANGED <<callbacks, flags, loop, disp, stop, drain, expired, ready,
                   begun, rejected, replies>>

(* A caller on its retry timer sees its own context or the loop's end. *)
GiveUpBlocked(e) ==
    /\ call[e] = "blocked"
    /\ e \in expired \/ flags.cancelled
    /\ Refuse(e)
    /\ UNCHANGED <<callbacks, flags, loop, disp, stop, drain, expired, ready,
                   begun, rejected, replies>>

(* The context of an event is cancelled, or times out. *)
Expire(e) ==
    /\ e \in MayExpire \ expired /\ call[e] # "unused"
    /\ expired' = expired \union {e}
    /\ UNCHANGED <<queue, callbacks, flags, loop, disp, stop, drain, call, ready,
                   history, replies>>

(* The reader of a callback channel arrives. *)
ReaderArrives(e) ==
    /\ e \in LateReader \ ready /\ call[e] # "unused"
    /\ ready' = ready \union {e}
    /\ UNCHANGED <<queue, callbacks, flags, loop, disp, stop, drain, call, expired,
                   history, replies>>

(***************************************************************************)
(* Results                                                                 *)
(***************************************************************************)
(* A send that does not wait: deliverCallbackNow, deliverItemNow. *)
Deliver(e, r) ==
    IF e \in ready
    THEN /\ answers' = [answers EXCEPT ![e] = Append(@, r)]
         /\ UNCHANGED dropped
    ELSE /\ dropped' = dropped \union {e}
         /\ UNCHANGED answers

(* drainCallbacks takes one item. *)
DeliverQueued ==
    /\ callbacks # <<>>
    /\ callbacks' = Tail(callbacks)
    /\ Deliver(Head(callbacks).event, Head(callbacks).result)

(***************************************************************************)
(* Stop and Drain                                                          *)
(***************************************************************************)
(* Stop, up to the first rejection: takes submitMu, closes the loop. *)
StopCloses ==
    /\ MayStop /\ stop = "idle"
    /\ flags.started
    /\ stop' = "rejecting"
    /\ flags' = [flags EXCEPT !.closed = TRUE, !.accepting = FALSE, !.draining = FALSE]
    /\ UNCHANGED <<queue, callbacks, loop, disp, drain, call, expired, ready,
                   history, replies>>

(* rejectQueued empties high, then medium, then low. *)
RejectFrom(p) ==
    /\ queue[p] # <<>>
    /\ p = "medium" => queue["high"] = <<>>
    /\ p = "low" => queue["high"] = <<>> /\ queue["medium"] = <<>>

StopRejects(p) ==
    /\ stop = "rejecting"
    /\ RejectFrom(p)
    /\ LET e == Head(queue[p]) IN
       /\ queue' = [queue EXCEPT ![p] = Tail(@)]
       /\ rejected' = rejected \union {e}
       /\ IF e \in Answered THEN Deliver(e, "closed") ELSE UNCHANGED replies
    /\ UNCHANGED <<callbacks, flags, loop, disp, callers, accepted, begun>>

(* The queues are empty: cancel, release submitMu, wait for done. *)
StopCancels ==
    /\ stop = "rejecting"
    /\ \A p \in Priorities : queue[p] = <<>>
    /\ stop' = "waiting"
    /\ flags' = [flags EXCEPT !.cancelled = TRUE]
    /\ UNCHANGED <<queue, callbacks, loop, disp, drain, call, expired, ready,
                   history, replies>>

(* The goroutines are gone: what they left in callbacks is delivered here. *)
StopFlushes ==
    /\ stop = "waiting" /\ flags.done
    /\ DeliverQueued
    /\ UNCHANGED <<queue, flags, loop, disp, callers, history>>

(* mutant: Stop returns without the last drainCallbacks *)
StopReturns_NoFlush ==
    /\ stop = "waiting" /\ flags.done
    /\ stop' = "nil"
    /\ UNCHANGED <<queue, callbacks, flags, loop, disp, drain, call, expired, ready,
                   history, replies>>

StopReturns ==
    /\ stop = "waiting" /\ flags.done
    /\ callbacks = <<>>
    /\ stop' = "nil"
    /\ UNCHANGED <<queue, callbacks, flags, loop, disp, drain, call, expired, ready,
                   history, replies>>

StopGivesUp ==
    /\ MayGiveUp /\ stop = "waiting"
    /\ stop' = "ctx"
    /\ UNCHANGED <<queue, callbacks, flags, loop, disp, drain, call, expired, ready,
                   history, replies>>

DrainFlags ==
    /\ MayDrain /\ drain = "idle"
    /\ flags.started
    /\ SubmitMuFree
    /\ drain' = "waking"
    /\ flags' = [flags EXCEPT !.accepting = FALSE, !.draining = TRUE]
    /\ UNCHANGED <<queue, callbacks, loop, disp, stop, call, expired, ready,
                   history, replies>>

(* mutant: Drain relies on the loop looking at the flag by itself *)
DrainWakes_NoToken ==
    /\ drain = "waking"
    /\ drain' = "waiting"
    /\ UNCHANGED <<queue, callbacks, flags, loop, disp, stop, call, expired, ready,
                   history, replies>>

(* wakeLoop: the channel holds one token. *)
DrainWakes ==
    /\ drain = "waking"
    /\ drain' = "waiting"
    /\ flags' = [flags EXCEPT !.wake = TRUE]
    /\ UNCHANGED <<queue, callbacks, loop, disp, stop, call, expired, ready,
                   history, replies>>

DrainReturns ==
    /\ drain = "waiting" /\ flags.done
    /\ drain' = "nil"
    /\ UNCHANGED <<queue, callbacks, flags, loop, disp, stop, call, expired, ready,
                   history, replies>>

DrainGivesUp ==
    /\ MayGiveUp /\ drain = "waiting"
    /\ drain' = "ctx"
    /\ UNCHANGED <<queue, callbacks, flags, loop, disp, stop, call, expired, ready,
                   history, replies>>

(***************************************************************************)
(* The loop goroutine                                                      *)
(***************************************************************************)
(* shouldStopAfterDrain; a result still queued only makes it sleep *)
DrainedOut ==
    /\ flags.draining
    /\ \A p \in Priorities : queue[p] = <<>>
    /\ callbacks = <<>>

LoopTop ==
    /\ loop.at = "top"
    /\ IF DrainedOut
       THEN /\ flags' = [flags EXCEPT !.cancelled = TRUE]
            /\ loop' = [loop EXCEPT !.at = "exited"]
       ELSE /\ loop' = [Rest EXCEPT !.at = "high"]
            /\ UNCHANGED flags
    /\ UNCHANGED <<queue, callbacks, disp, callers, history, replies>>

(* The head of queue p goes to processEvent, which returns to b. *)
Receive(p, b, k) ==
    /\ queue[p] # <<>>
    /\ queue' = [queue EXCEPT ![p] = Tail(@)]
    /\ loop' = [loop EXCEPT !.at = "begin", !.cur = Head(queue[p]), !.back = b,
                            !.n = k, !.did = TRUE]

BurstLimit(p) == IF p = "high" THEN HighBurst ELSE MediumBurst

(* mutant: an event received by select waits for both bursts *)
HeldAfter_Both(p) == p = "medium" /\ loop.held # None

(* select holds back the event it received for the bursts above its level *)
HeldAfter(p) ==
    /\ loop.held # None
    /\ p = "high" => Prio[loop.held] = "medium"

(* One turn of processBurst, and what follows its last. *)
LoopBurst(p) ==
    /\ loop.at = p
    /\ IF queue[p] # <<>> /\ loop.n < BurstLimit(p)
       THEN Receive(p, p, loop.n + 1)
       ELSE /\ loop' = IF HeldAfter(p)
                       THEN [loop EXCEPT !.at = "begin", !.cur = loop.held,
                                         !.held = None, !.back = "top"]
                       ELSE [loop EXCEPT !.at = IF p = "high" THEN "medium" ELSE "low",
                                         !.n = 0]
            /\ UNCHANGED queue
    /\ UNCHANGED <<callbacks, flags, disp, callers, history, replies>>

(* mutant: the low queue is looked at only when the bursts found nothing *)
LoopLow_WhenIdle ==
    /\ loop.at = "low"
    /\ \/ ~loop.did /\ Receive("low", "top", 0)
       \/ /\ loop.did \/ queue["low"] = <<>>
          /\ loop' = [loop EXCEPT !.at = IF loop.did THEN "top" ELSE "select"]
          /\ UNCHANGED queue
    /\ UNCHANGED <<callbacks, flags, disp, callers, history, replies>>

(* One low event for every round of bursts. *)
LoopLow ==
    /\ loop.at = "low"
    /\ \/ Receive("low", "top", 0)
       \/ /\ queue["low"] = <<>>
          /\ loop' = [loop EXCEPT !.at = IF loop.did THEN "top" ELSE "select"]
          /\ UNCHANGED queue
    /\ UNCHANGED <<callbacks, flags, disp, callers, history, replies>>

(* select takes any of its cases that is ready. *)
SelectDone ==
    /\ loop.at = "select" /\ flags.cancelled
    /\ loop' = [loop EXCEPT !.at = "exited"]
    /\ UNCHANGED <<queue, callbacks, flags, disp, callers, history, replies>>

SelectWake ==
    /\ loop.at = "select" /\ flags.wake
    /\ flags' = [flags EXCEPT !.wake = FALSE]
    /\ loop' = Rest
    /\ UNCHANGED <<queue, callbacks, disp, callers, history, replies>>

SelectHigh ==
    /\ loop.at = "select"
    /\ Receive("high", "top", 0)
    /\ UNCHANGED <<callbacks, flags, disp, callers, history, replies>>

SelectLower(p) ==
    /\ loop.at = "select"
    /\ p \in {"medium", "low"}
    /\ queue[p] # <<>>
    /\ queue' = [queue EXCEPT ![p] = Tail(@)]
    /\ loop' = [Rest EXCEPT !.at = "high", !.held = Head(queue[p])]
    /\ UNCHANGED <<callbacks, flags, disp, callers, history, replies>>

(* processEvent: an event whose context is done is not processed. *)
ContextDone(e) == IF e \in OwnContext THEN e \in expired ELSE flags.cancelled

Begin ==
    /\ loop.at = "begin"
    /\ IF ContextDone(loop.cur)
       THEN /\ loop' = [loop EXCEPT !.at = "answer", !.res = "expired"]
            /\ UNCHANGED begun
       ELSE /\ loop' = [loop EXCEPT !.at = "run", !.res = "result"]
            /\ begun' = Append(begun, loop.cur)
    /\ UNCHANGED <<queue, callbacks, flags, disp, callers, accepted, rejected, replies>>

(* The processor returns, or panics and is recovered. *)
Finish ==
    /\ loop.at = "run"
    /\ loop' = [loop EXCEPT !.at = "answer"]
    /\ UNCHANGED <<queue, callbacks, flags, disp, callers, history, replies>>

Resume == [loop EXCEPT !.at = loop.back, !.cur = None]

Erase(s, e) ==
    IF Contains(s, e) THEN RemoveAt(s, CHOOSE i \in DOMAIN s : s[i] = e) ELSE s

(* A recurring event may be submitted again once it was processed; the     *)
(* histories, which have it once at most, forget it.                       *)
Recycle(e) ==
    IF e \in Recurring
    THEN /\ call' = [call EXCEPT ![e] = "new"]
         /\ accepted' = Erase(accepted, e)
         /\ begun' = Erase(begun, e)
    ELSE UNCHANGED <<call, accepted, begun>>

(* mutant: the return after the direct delivery is missing *)
AnswerNow_NoReturn ==
    /\ loop.at = "answer" /\ loop.cur \in Answered /\ flags.closed
    /\ Deliver(loop.cur, loop.res)
    /\ loop' = [loop EXCEPT !.at = "enqueue"]
    /\ UNCHANGED <<queue, callbacks, flags, disp, callers, history>>

(* deliverCallback: on a closed loop the result bypasses the queue. *)
AnswerNow ==
    /\ loop.at = "answer" /\ loop.cur \in Answered /\ flags.closed
    /\ Deliver(loop.cur, loop.res)
    /\ loop' = Resume
    /\ UNCHANGED <<queue, callbacks, flags, disp, callers, history>>

AnswerNobody ==
    /\ loop.at = "answer" /\ loop.cur \notin Answered
    /\ Recycle(loop.cur)
    /\ loop' = Resume
    /\ UNCHANGED <<queue, callbacks, flags, disp, stop, drain, expired, ready,
                   rejected, replies>>

AnswerLater ==
    /\ loop.at = "answer" /\ loop.cur \in Answered /\ ~flags.closed
    /\ loop' = [loop EXCEPT !.at = "enqueue"]
    /\ UNCHANGED <<queue, callbacks, flags, disp, callers, history, replies>>

AnswerEnqueued ==
    /\ loop.at = "enqueue"
    /\ IF Len(callbacks) < CallbackQueueSize
       THEN /\ callbacks' = Append(callbacks, [event |-> loop.cur, result |-> loop.res])
            /\ UNCHANGED dropped
       ELSE /\ dropped' = dropped \union {loop.cur}
            /\ UNCHANGED callbacks
    /\ loop' = Resume
    /\ UNCHANGED <<queue, flags, disp, callers, history, answers>>

LoopStep ==
    \/ LoopTop \/ LoopLow \/ SelectDone \/ SelectWake \/ SelectHigh \/ Begin
    \/ \E p \in {"high", "medium"} : LoopBurst(p)
    \/ \E p \in Priorities : SelectLower(p)
    \/ AnswerNow \/ AnswerNobody \/ AnswerLater \/ AnswerEnqueued

(***************************************************************************)
(* The dispatcher goroutine and the one that waits for both                *)
(***************************************************************************)
DispatchTakes ==
    /\ disp.at = "select"
    /\ callbacks # <<>>
    /\ callbacks' = Tail(callbacks)
    /\ disp' = [at |-> "send", item |-> Head(callbacks)]
    /\ UNCHANGED <<queue, flags, loop, callers, history, replies>>

(* sendCallback, the attempt that does not wait *)
DispatchSends ==
    /\ disp.at = "send"
    /\ IF disp.item.event \in ready
       THEN /\ Deliver(disp.item.event, disp.item.result)
            /\ disp' = [at |-> "select", item |-> None]
       ELSE /\ disp' = [disp EXCEPT !.at = "wait"]
            /\ UNCHANGED replies
    /\ UNCHANGED <<queue, callbacks, flags, loop, callers, history>>

(* sendCallback, the attempt that waits for CallbackTimeout or the context *)
DispatchWaits ==
    /\ disp.at = "wait"
    /\ \/ /\ disp.item.event \in ready
          /\ Deliver(disp.item.event, disp.item.result)
       \/ /\ dropped' = dropped \union {disp.item.event}
          /\ UNCHANGED answers
    /\ disp' = [at |-> "select", item |-> None]
    /\ UNCHANGED <<queue, callbacks, flags, loop, callers, history>>

DispatchEnds ==
    /\ disp.at = "select" /\ flags.cancelled
    /\ disp' = [disp EXCEPT !.at = "flush"]
    /\ UNCHANGED <<queue, callbacks, flags, loop, callers, history, replies>>

DispatchFlushes ==
    /\ disp.at = "flush"
    /\ \/ DeliverQueued /\ UNCHANGED disp
       \/ /\ callbacks = <<>>
          /\ disp' = [disp EXCEPT !.at = "exited"]
          /\ UNCHANGED <<callbacks, replies>>
    /\ UNCHANGED <<queue, flags, loop, callers, history>>

DispatchStep ==
    DispatchTakes \/ DispatchSends \/ DispatchWaits \/ DispatchEnds \/ DispatchFlushes

(* wg.Wait returns *)
Close ==
    /\ loop.at = "exited" /\ disp.at = "exited" /\ ~flags.done
    /\ flags' = [flags EXCEPT !.running = FALSE, !.accepting = FALSE,
                              !.closed = TRUE, !.done = TRUE]
    /\ UNCHANGED <<queue, callbacks, loop, disp, callers, history, replies>>

StopStep == StopCloses \/ (\E p \in Priorities : StopRejects(p)) \/ StopCancels
            \/ StopFlushes \/ StopReturns \/ StopGivesUp

DrainStep == DrainFlags \/ DrainWakes \/ DrainReturns \/ DrainGivesUp

EventLoopNext ==
    \/ Start \/ ParentCancels
    \/ \E e \in Events : \/ Submit(e) \/ SubmitBlocking(e) \/ GiveUpBlocked(e)
                         \/ Expire(e) \/ ReaderArrives(e)
    \/ LoopStep \/ Finish \/ DispatchStep \/ Close \/ StopStep \/ DrainStep

EventLoopSpec == EventLoopInit /\ [][EventLoopNext]_loopVars

(* The scheduler runs every goroutine that can move, and every handler     *)
(* returns.  Nobody has to submit, to stop, to drain or to read a result;  *)
(* once Stop or Drain was called its goroutine runs on.                    *)
EventLoopFairness ==
    /\ WF_loopVars(LoopStep) /\ WF_loopVars(Finish)
    /\ WF_loopVars(DispatchStep) /\ WF_loopVars(Close)
    /\ WF_loopVars(StopCancels \/ (\E p \in Priorities : StopRejects(p))
                   \/ StopFlushes \/ StopReturns)
    /\ WF_loopVars(DrainWakes \/ DrainReturns)

EventLoopFairSpec == EventLoopSpec /\ EventLoopFairness

(***************************************************************************)
(* Properties                                                              *)
(***************************************************************************)
(* The state keeps its shape; no queue holds more than its channel.        *)
LoopTypeOK ==
    /\ \A p \in Priorities :
          /\ queue[p] \in Seq(Events)
          /\ Len(queue[p]) <= QueueSize
          /\ \A i \in 1..Len(queue[p]) : Prio[queue[p][i]] = p
    /\ callbacks \in Seq(Items) /\ Len(callbacks) <= CallbackQueueSize
    /\ flags \in [Flags -> BOOLEAN]
    /\ loop.at \in {"off", "top", "high", "medium", "low", "select", "begin", "run",
                    "answer", "enqueue", "exited"}
    /\ loop.cur \in Events \union {None} /\ loop.held \in Events \union {None}
    /\ loop.at \in {"begin", "run", "answer", "enqueue"} <=> loop.cur # None
    /\ disp.at \in {"off", "select", "send", "wait", "flush", "exited"}
    /\ disp.at \in {"send", "wait"} <=> disp.item # None
    /\ call \in [Events -> {"unused", "new", "blocked", "accepted", "refused"}]
    /\ accepted \in Seq(Events) /\ begun \in Seq(Events)
    /\ rejected \subseteq Events /\ dropped \subseteq Answered

(* Events of one priority reach the processor in the order in which their  *)
(* submission succeeded, also when select held one of them back while it   *)
(* served the queues above it (runPriorityDriven).                         *)
Fifo ==
    \A i, j \in 1..Len(begun) :
        /\ i < j
        /\ Prio[begun[i]] = Prio[begun[j]]
        => \E k, l \in 1..Len(accepted) :
              k < l /\ accepted[k] = begun[i] /\ accepted[l] = begun[j]

(* Stop and the goroutines race for the same events and the same results:  *)
(* no event reaches the processor twice, none that Stop rejected does, and *)
(* a callback channel gets at most one result or a counted drop, never     *)
(* both.                                                                   *)
OutcomeOnce ==
    /\ \A i, j \in 1..Len(begun) : begun[i] = begun[j] => i = j
    /\ \A i \in 1..Len(begun) : begun[i] \notin rejected
    /\ \A e \in Events : Len(answers[e]) <= 1
    /\ \A e \in dropped : answers[e] = <<>>

(* When Stop returns nil nothing is left behind: the goroutines have       *)
(* ended, no event is queued, and every accepted event that has a callback *)
(* channel was answered or counted as dropped.  Session shutdown runs its  *)
(* own cleanup beside the loop on the strength of this.                    *)
StopSettles ==
    stop = "nil" =>
        /\ loop.at = "exited" /\ disp.at = "exited"
        /\ \A p \in Priorities : queue[p] = <<>>
        /\ \A e \in Answered :
              call[e] = "accepted" => answers[e] # <<>> \/ e \in dropped

(* When Drain returns nil, nobody called Stop and the context given to     *)
(* Start lives, every event accepted before it was processed, or found its *)
(* own context done, and its result was delivered or counted as dropped.   *)
DrainSettles ==
    drain = "nil" /\ stop = "idle" /\ ~flags.orphaned =>
        \A e \in Events : call[e] = "accepted" =>
            /\ Contains(begun, e) \/ e \in expired
            /\ e \in Answered => answers[e] # <<>> \/ e \in dropped

(* Whoever waited for Stop or for Drain may rely on what it returned.      *)
Settles == StopSettles /\ DrainSettles

(* The queues above cannot starve a low event: whatever is submitted, it   *)
(* is processed, or rejected by Stop, or the loop is cancelled.            *)
LowServed ==
    \A e \in Events \ Recurring :
        Prio[e] = "low" /\ call[e] = "accepted"
            ~> Contains(begun, e) \/ e \in expired \/ e \in rejected \/ flags.cancelled

(* A call of Stop ends: the loop notices the cancelled context, both       *)
(* goroutines leave, done is closed (Stop without a deadline).             *)
StopEnds == stop = "rejecting" ~> stop = "nil"

(* A call of Drain ends, without a deadline and with handlers that return: *)
(* the one token of wakeLoop reaches a loop that sleeps in select, in      *)
(* whatever round Drain met it.  For events without callback channel, like *)
(* those of the only caller of Drain: a result that waits for a slow       *)
(* reader outlives the token, and then nothing wakes the loop again.       *)
DrainEnds == drain = "waking" ~> drain = "nil"

(* Neither of the two calls waits for ever.                                *)
LoopEnds == StopEnds /\ DrainEnds
=============================================================================
