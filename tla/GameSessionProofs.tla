------------------------- MODULE GameSessionProofs -------------------------
(***************************************************************************)
(* Proofs about EventLoop, for every set of events, any traffic and any    *)
(* queue and burst sizes, and about GameSessionEvents, for any packets,    *)
(* timers, calls of other sessions and characters: on the invariant of the *)
(* event loop rest the exclusive cleanup of a session and the identity of  *)
(* its timers.                                                             *)
(***************************************************************************)
EXTENDS GameSessionEvents, TLAPS

\* x occurs before y.
Before(s, x, y) == \E k, l \in 1 .. Len(s) : k < l /\ s[k] = x /\ s[l] = y

-----------------------------------------------------------------------------
(* What Append, Tail and Erase do to the occurrences and their order. *)

\* The empty sequence has no element and no order.
LEMMA NothingInEmpty ==
  ASSUME NEW x, NEW y
  PROVE  ~ Contains(<<>>, x) /\ ~ Before(<<>>, x, y)
BY DEF Contains, Before

\* What is before something occurs, and so does what it is before.
LEMMA BeforeOccurs ==
  ASSUME NEW S, NEW s \in Seq(S), NEW x, NEW y, Before(s, x, y)
  PROVE  Contains(s, x) /\ Contains(s, y)
BY DEF Contains, Before

\* A submission goes behind everything that is there.
LEMMA AppendOccurs ==
  ASSUME NEW S, NEW s \in Seq(S), NEW e \in S, NEW x, NEW y
  PROVE  /\ Contains(Append(s, e), x) <=> Contains(s, x) \/ x = e
         /\ Before(Append(s, e), x, y) <=> Before(s, x, y) \/ (Contains(s, x) /\ y = e)
<1>1. /\ Append(s, e) \in Seq(S)
      /\ Len(Append(s, e)) = Len(s) + 1
      /\ Len(s) \in Nat
      /\ \A i \in 1 .. Len(s) : Append(s, e)[i] = s[i]
      /\ Append(s, e)[Len(s) + 1] = e
  OBVIOUS
<1> DEFINE t == Append(s, e)
<1> HIDE DEF t
<1>2. /\ Len(t) = Len(s) + 1
      /\ Len(s) \in Nat
      /\ \A i \in 1 .. Len(s) : t[i] = s[i]
      /\ t[Len(s) + 1] = e
  BY <1>1 DEF t
<1>3. Contains(t, x) <=> Contains(s, x) \/ x = e
  <2>1. ASSUME Contains(t, x) PROVE Contains(s, x) \/ x = e
    <3>1. PICK i \in 1 .. Len(t) : t[i] = x
      BY <2>1 DEF Contains
    <3>2. i \in 1 .. Len(s) \/ i = Len(s) + 1
      BY <1>2
    <3> QED
      BY <1>2, <3>1, <3>2 DEF Contains
  <2>2. ASSUME Contains(s, x) PROVE Contains(t, x)
    <3>1. PICK i \in 1 .. Len(s) : s[i] = x
      BY <2>2 DEF Contains
    <3>2. i \in 1 .. Len(t)
      BY <1>2
    <3> QED
      BY <1>2, <3>1, <3>2 DEF Contains
  <2>3. Len(s) + 1 \in 1 .. Len(t)
    BY <1>2
  <2>4. Contains(t, e)
    BY <1>2, <2>3 DEF Contains
  <2> QED
    BY <2>1, <2>2, <2>4
<1>4. ASSUME Before(t, x, y) PROVE Before(s, x, y) \/ (Contains(s, x) /\ y = e)
  <2>1. PICK k, l \in 1 .. Len(t) : k < l /\ t[k] = x /\ t[l] = y
    BY <1>4 DEF Before
  <2>2. k \in 1 .. Len(s) /\ (l \in 1 .. Len(s) \/ l = Len(s) + 1)
    BY <1>2, <2>1
  <2> QED
    BY <1>2, <2>1, <2>2 DEF Before, Contains
<1>5. ASSUME Before(s, x, y) PROVE Before(t, x, y)
  <2>1. PICK k, l \in 1 .. Len(s) : k < l /\ s[k] = x /\ s[l] = y
    BY <1>5 DEF Before
  <2>2. k \in 1 .. Len(t) /\ l \in 1 .. Len(t)
    BY <1>2
  <2> QED
    BY <1>2, <2>1, <2>2 DEF Before
<1>6. ASSUME Contains(s, x) PROVE Before(t, x, e)
  <2>1. PICK k \in 1 .. Len(s) : s[k] = x
    BY <1>6 DEF Contains
  <2>2. k \in 1 .. Len(t) /\ Len(s) + 1 \in 1 .. Len(t) /\ k < Len(s) + 1
    BY <1>2
  <2> QED
    BY <1>2, <2>1, <2>2 DEF Before
<1> QED
  BY <1>3, <1>4, <1>5, <1>6 DEF t

\* A receive takes the first; the others keep their order behind it.
LEMMA TailOccurs ==
  ASSUME NEW S, NEW s \in Seq(S), s # <<>>, NEW x, NEW y
  PROVE  /\ Head(s) \in S /\ Tail(s) \in Seq(S) /\ Len(Tail(s)) = Len(s) - 1
         /\ Contains(s, x) <=> x = Head(s) \/ Contains(Tail(s), x)
         /\ Before(s, x, y) <=> (x = Head(s) /\ Contains(Tail(s), y)) \/ Before(Tail(s), x, y)
<1>1. /\ Head(s) \in S /\ Tail(s) \in Seq(S) /\ Len(Tail(s)) = Len(s) - 1
      /\ Len(s) \in Nat /\ Len(s) > 0 /\ Head(s) = s[1]
      /\ \A i \in 1 .. Len(s) - 1 : Tail(s)[i] = s[i + 1]
  OBVIOUS
<1> DEFINE t == Tail(s)
           h == Head(s)
<1> HIDE DEF t, h
<1>2. /\ Len(t) = Len(s) - 1 /\ Len(s) \in Nat /\ Len(s) > 0 /\ h = s[1]
      /\ \A i \in 1 .. Len(t) : t[i] = s[i + 1] /\ i + 1 \in 2 .. Len(s)
      /\ \A i \in 2 .. Len(s) : s[i] = t[i - 1] /\ i - 1 \in 1 .. Len(t)
  BY <1>1 DEF t, h
<1>3. ASSUME Contains(s, x) PROVE x = h \/ Contains(t, x)
  <2>1. PICK i \in 1 .. Len(s) : s[i] = x
    BY <1>3 DEF Contains
  <2>2. i = 1 \/ i \in 2 .. Len(s)
    BY <1>2
  <2> QED
    BY <1>2, <2>1, <2>2 DEF Contains
<1>4. ASSUME x = h \/ Contains(t, x) PROVE Contains(s, x)
  <2>1. CASE x = h
    <3>1. 1 \in 1 .. Len(s)
      BY <1>2
    <3> QED
      BY <1>2, <2>1, <3>1 DEF Contains
  <2>2. CASE Contains(t, x)
    <3>1. PICK i \in 1 .. Len(t) : t[i] = x
      BY <2>2 DEF Contains
    <3>2. i + 1 \in 1 .. Len(s) /\ s[i + 1] = x
      BY <1>2, <3>1
    <3> QED
      BY <3>2 DEF Contains
  <2> QED
    BY <1>4, <2>1, <2>2
<1>5. ASSUME Before(s, x, y) PROVE (x = h /\ Contains(t, y)) \/ Before(t, x, y)
  <2>1. PICK k, l \in 1 .. Len(s) : k < l /\ s[k] = x /\ s[l] = y
    BY <1>5 DEF Before
  <2>2. l - 1 \in 1 .. Len(t) /\ t[l - 1] = y
    BY <1>2, <2>1
  <2>3. CASE k = 1
    BY <1>2, <2>1, <2>2, <2>3 DEF Contains
  <2>4. CASE k # 1
    <3>1. k - 1 \in 1 .. Len(t) /\ t[k - 1] = x /\ k - 1 < l - 1
      BY <1>2, <2>1, <2>4
    <3> QED
      BY <2>2, <3>1 DEF Before
  <2> QED
    BY <2>3, <2>4
<1>6. ASSUME x = h, Contains(t, y) PROVE Before(s, x, y)
  <2>1. PICK l \in 1 .. Len(t) : t[l] = y
    BY <1>6 DEF Contains
  <2>2. 1 \in 1 .. Len(s) /\ l + 1 \in 1 .. Len(s) /\ 1 < l + 1 /\ s[1] = x /\ s[l + 1] = y
    BY <1>2, <1>6, <2>1
  <2> QED
    BY <2>2 DEF Before
<1>7. ASSUME Before(t, x, y) PROVE Before(s, x, y)
  <2>1. PICK k, l \in 1 .. Len(t) : k < l /\ t[k] = x /\ t[l] = y
    BY <1>7 DEF Before
  <2>2. k + 1 \in 1 .. Len(s) /\ l + 1 \in 1 .. Len(s) /\ k + 1 < l + 1
        /\ s[k + 1] = x /\ s[l + 1] = y
    BY <1>2, <2>1
  <2> QED
    BY <2>2 DEF Before
<1> QED
  BY <1>1, <1>3, <1>4, <1>5, <1>6, <1>7 DEF t, h

\* Recycling takes one event out of a history and leaves the order of the others.
LEMMA EraseOccurs ==
  ASSUME NEW S, NEW s \in Seq(S), NEW e, ~ Before(s, e, e), NEW x, NEW y
  PROVE  /\ Erase(s, e) \in Seq(S)
         /\ Contains(Erase(s, e), x) <=> Contains(s, x) /\ x # e
         /\ Before(Erase(s, e), x, y) <=> Before(s, x, y) /\ x # e /\ y # e
<1>1. CASE ~ Contains(s, e)
  <2>1. Erase(s, e) = s
    BY <1>1 DEF Erase
  <2> QED
    BY <1>1, <2>1, BeforeOccurs
<1>2. CASE Contains(s, e)
  <2>1. PICK i \in 1 .. Len(s) : i = CHOOSE j \in DOMAIN s : s[j] = e
    BY <1>2 DEF Contains
  <2>2. s[i] = e
    BY <1>2, <2>1 DEF Contains
  <2>3. \A j \in 1 .. Len(s) : s[j] = e => j = i
    <3>1. SUFFICES ASSUME NEW j \in 1 .. Len(s), s[j] = e, j # i PROVE FALSE
      OBVIOUS
    <3>2. i < j \/ j < i
      BY <3>1
    <3> QED
      BY <2>2, <3>1, <3>2 DEF Before
  <2> DEFINE t == SubSeq(s, 1, i - 1) \o SubSeq(s, i + 1, Len(s))
  <2>4. Erase(s, e) = t
    BY <1>2, <2>1 DEF Erase, RemoveAt
  <2>5. /\ t \in Seq(S) /\ Len(t) = Len(s) - 1 /\ Len(s) \in Nat
        /\ \A j \in 1 .. Len(t) : t[j] = IF j < i THEN s[j] ELSE s[j + 1]
    <3>1. /\ SubSeq(s, 1, i - 1) \in Seq(S) /\ SubSeq(s, i + 1, Len(s)) \in Seq(S)
          /\ Len(SubSeq(s, 1, i - 1)) = i - 1
          /\ Len(SubSeq(s, i + 1, Len(s))) = Len(s) - i
          /\ \A j \in 1 .. i - 1 : SubSeq(s, 1, i - 1)[j] = s[j]
          /\ \A j \in 1 .. Len(s) - i : SubSeq(s, i + 1, Len(s))[j] = s[i + j]
      OBVIOUS
    <3> DEFINE a == SubSeq(s, 1, i - 1)
               b == SubSeq(s, i + 1, Len(s))
    <3>2. /\ a \in Seq(S) /\ b \in Seq(S) /\ Len(a) = i - 1 /\ Len(b) = Len(s) - i
          /\ \A j \in 1 .. i - 1 : a[j] = s[j]
          /\ \A j \in 1 .. Len(s) - i : b[j] = s[i + j]
      BY <3>1
    <3>3. t = a \o b /\ Len(s) \in Nat
      OBVIOUS
    <3> HIDE DEF a, b, t
    <3>4. t \in Seq(S) /\ Len(t) = Len(s) - 1
      BY <3>2, <3>3
    <3>5. ASSUME NEW j \in 1 .. Len(t)
          PROVE  t[j] = IF j < i THEN s[j] ELSE s[j + 1]
      <4>1. CASE j < i
        BY <3>2, <3>3, <3>4, <4>1
      <4>2. CASE ~ (j < i)
        <5>1. j - (i - 1) \in 1 .. Len(s) - i /\ i + (j - (i - 1)) = j + 1
          BY <3>4, <4>2
        <5>2. t[j] = b[j - Len(a)]
          BY <3>2, <3>3, <3>4, <4>2
        <5> QED
          BY <3>2, <4>2, <5>1, <5>2
      <4> QED
        BY <4>1, <4>2
    <3> QED
      BY <3>3, <3>4, <3>5
  <2> HIDE DEF t
  <2>6. \A k \in 1 .. Len(t) : t[k] # e
    BY <2>3, <2>5
  <2>7. \A k \in 1 .. Len(s) : k # i =>
          \E m \in 1 .. Len(t) : /\ t[m] = s[k]
                                 /\ m = IF k < i THEN k ELSE k - 1
    <3>1. SUFFICES ASSUME NEW k \in 1 .. Len(s), k # i
                   PROVE  \E m \in 1 .. Len(t) : /\ t[m] = s[k]
                                                 /\ m = IF k < i THEN k ELSE k - 1
      OBVIOUS
    <3>2. CASE k < i
      BY <2>5, <3>1, <3>2
    <3>3. CASE k > i
      <4>1. k - 1 \in 1 .. Len(t) /\ ~(k - 1 < i) /\ (k - 1) + 1 = k
        BY <2>5, <3>3
      <4> QED
        BY <2>5, <3>3, <4>1
    <3> QED
      BY <3>1, <3>2, <3>3
  <2>8. ASSUME Contains(t, x) PROVE Contains(s, x) /\ x # e
    <3>1. PICK k \in 1 .. Len(t) : t[k] = x
      BY <2>8 DEF Contains
    <3>2. k \in 1 .. Len(s) /\ k + 1 \in 1 .. Len(s)
      BY <2>5
    <3> QED
      BY <2>5, <2>6, <3>1, <3>2 DEF Contains
  <2>9. ASSUME Contains(s, x), x # e PROVE Contains(t, x)
    <3>1. PICK k \in 1 .. Len(s) : s[k] = x
      BY <2>9 DEF Contains
    <3> QED
      BY <2>2, <2>7, <2>9, <3>1 DEF Contains
  <2>10. ASSUME Before(t, x, y) PROVE Before(s, x, y) /\ x # e /\ y # e
    <3>1. PICK k, l \in 1 .. Len(t) : k < l /\ t[k] = x /\ t[l] = y
      BY <2>10 DEF Before
    <3>2. x # e /\ y # e
      BY <2>6, <3>1
    <3>3. \E a, b \in 1 .. Len(s) : a < b /\ s[a] = x /\ s[b] = y
      <4>1. /\ k \in 1 .. Len(s) /\ k + 1 \in 1 .. Len(s)
            /\ l \in 1 .. Len(s) /\ l + 1 \in 1 .. Len(s)
        BY <2>5
      <4> QED
        BY <2>5, <3>1, <4>1
    <3> QED
      BY <3>2, <3>3 DEF Before
  <2>11. ASSUME Before(s, x, y), x # e, y # e PROVE Before(t, x, y)
    <3>1. PICK k, l \in 1 .. Len(s) : k < l /\ s[k] = x /\ s[l] = y
      BY <2>11 DEF Before
    <3>2. k # i /\ l # i
      BY <2>2, <2>11, <3>1
    <3>3. PICK m \in 1 .. Len(t) : t[m] = s[k] /\ m = IF k < i THEN k ELSE k - 1
      BY <2>7, <3>2
    <3>4. PICK n \in 1 .. Len(t) : t[n] = s[l] /\ n = IF l < i THEN l ELSE l - 1
      BY <2>7, <3>2
    <3>5. m < n
      BY <3>1, <3>2, <3>3, <3>4
    <3> QED
      BY <3>1, <3>3, <3>4, <3>5 DEF Before
  <2> QED
    BY <2>4, <2>5, <2>8, <2>9, <2>10, <2>11
<1> QED
  BY <1>1, <1>2

-----------------------------------------------------------------------------
(* The parts of the inductive invariant. *)

LoopPlaces == {"off", "top", "high", "medium", "low", "select", "begin", "run", "answer",
               "enqueue", "exited"}

QueuesOK ==
    /\ queue \in [Priorities -> Seq(Events)]
    /\ \A p \in Priorities : /\ Len(queue[p]) <= QueueSize
                             /\ \A i \in 1 .. Len(queue[p]) : Prio[queue[p][i]] = p

LoopRecordOK ==
    /\ loop \in [at : LoopPlaces, n : Nat, did : BOOLEAN, cur : Events \cup {None},
                 held : Events \cup {None}, back : {"top", "high", "medium"}, res : Results]
    /\ loop.at \in {"begin", "run", "answer", "enqueue"} <=> loop.cur # None
    /\ loop.at = "enqueue" => loop.cur \in Answered

DispatcherOK ==
    /\ disp \in [at : {"off", "select", "send", "wait", "flush", "exited"},
                 item : Items \cup {None}]
    /\ disp.at \in {"send", "wait"} <=> disp.item # None

CallbacksOK == callbacks \in Seq(Items) /\ Len(callbacks) <= CallbackQueueSize

CallsOK == call \in [Events -> {"unused", "new", "blocked", "accepted", "refused"}]

RepliesOK == dropped \subseteq Events /\ answers \in [Events -> Seq(Results)]

LoopShape ==
    /\ QueuesOK /\ CallbacksOK /\ LoopRecordOK /\ DispatcherOK /\ CallsOK /\ RepliesOK
    /\ flags \in [Flags -> BOOLEAN]
    /\ accepted \in Seq(Events) /\ begun \in Seq(Events) /\ rejected \subseteq Events

-----------------------------------------------------------------------------
(* Where the events are. *)

Queued(x) == \E p \in Priorities : Contains(queue[p], x)

InHand(x) == x # None /\ x \in {loop.cur, loop.held}

\* Not yet handed to the processor.
Waiting(x) == Queued(x) \/ (x # None /\ loop.held = x) \/ (loop.at = "begin" /\ loop.cur = x)

\* The burst the loop is in, or will return to.
Stage == IF loop.cur # None THEN loop.back ELSE loop.at

\* An event that select received waits for bursts above its own level only.
HeldOK ==
    loop.held # None =>
        /\ Prio[loop.held] \in {"medium", "low"}
        /\ Stage = "high" \/ (Stage = "medium" /\ Prio[loop.held] = "low")
        /\ loop.cur # None => Prio[loop.cur] = Stage

\* Of one priority, what was begun was accepted before what is in the hands of the
\* loop, and that before what is queued, everything in the order of acceptance.
Ordered ==
    /\ \A x \in Events : ~ Before(accepted, x, x)
    /\ \A x \in Events : Contains(accepted, x) <=> call[x] = "accepted"
    /\ \A p \in Priorities : \A x, y \in Events :
         Before(queue[p], x, y) => Before(accepted, x, y)
    /\ \A x \in Events : Queued(x) \/ InHand(x) \/ Contains(begun, x) => Contains(accepted, x)
    /\ \A x, y \in Events : InHand(x) /\ Contains(queue[Prio[x]], y) => Before(accepted, x, y)
    /\ \A x, y \in Events :
         Prio[x] = Prio[y] /\ Before(begun, x, y) => Before(accepted, x, y)
    /\ \A x, y \in Events :
         Prio[x] = Prio[y] /\ Contains(begun, x) /\ Waiting(y) => Before(accepted, x, y)
    /\ \A x \in rejected : /\ Contains(accepted, x) /\ ~ Contains(begun, x)
                           /\ ~ Queued(x) /\ ~ InHand(x)

-----------------------------------------------------------------------------
(* Where the results are. *)

Enqueued(x) == \E i \in 1 .. Len(callbacks) : callbacks[i].event = x

Dispatched(x) == disp.item # None /\ disp.item.event = x

Settled(x) == answers[x] # <<>> \/ x \in dropped

\* A channel has one result at most, and none if a drop was counted.
RepliedOnce == \A x \in Events : /\ Len(answers[x]) <= 1
                                 /\ x \in dropped => answers[x] = <<>>

\* On its way to the processor, or in the hands of the loop.
Ahead(x) == Queued(x) \/ InHand(x)

\* An event with a callback channel is on its way to the processor, has its
\* result on its way back, or is settled, and one of these only.
OneResult ==
    /\ RepliedOnce
    /\ \A i, j \in 1 .. Len(callbacks) : callbacks[i].event = callbacks[j].event => i = j
    /\ \A x \in Events :
         /\ Ahead(x) => ~ Enqueued(x) /\ ~ Dispatched(x) /\ ~ Settled(x)
         /\ Enqueued(x) => ~ Dispatched(x) /\ ~ Settled(x)
         /\ Dispatched(x) => ~ Settled(x)
         /\ Enqueued(x) \/ Dispatched(x) \/ Settled(x) =>
              Contains(accepted, x) /\ x \in Answered
         /\ x \in Answered /\ Contains(accepted, x) =>
              Ahead(x) \/ Enqueued(x) \/ Dispatched(x) \/ Settled(x)

-----------------------------------------------------------------------------
(* How the goroutines and the callers of Stop and Drain end. *)

QueuesEmpty == \A p \in Priorities : queue[p] = <<>>

Ending ==
    /\ ~ flags.started => /\ loop.at = "off" /\ disp.at = "off" /\ stop = "idle"
                          /\ drain = "idle" /\ ~ flags.cancelled
    /\ flags.done => loop.at = "exited" /\ disp.at = "exited"
    /\ loop.at = "exited" => flags.cancelled
    /\ stop # "idle" => flags.closed
    /\ stop \in {"waiting", "nil", "ctx"} => QueuesEmpty
    /\ stop = "nil" => flags.done /\ callbacks = <<>>
    /\ drain = "nil" => flags.done
    /\ flags.cancelled /\ ~ flags.orphaned /\ stop = "idle" =>
         loop.at = "exited" /\ flags.draining /\ QueuesEmpty /\ callbacks = <<>>

\* Without Stop and with a live context no accepted event is skipped.
NoneSkipped ==
    stop = "idle" /\ ~ flags.orphaned =>
        \A x \in Events : Contains(accepted, x) =>
            Waiting(x) \/ Contains(begun, x) \/ x \in expired

LoopInv == LoopShape /\ HeldOK /\ Ordered /\ OneResult /\ Ending /\ NoneSkipped

-----------------------------------------------------------------------------
(* The shape. *)

\* New builds a state of that shape.
LEMMA ShapeInit ==
  ASSUME EventLoopInit
  PROVE  LoopShape
<1>1. /\ queue \in [Priorities -> Seq(Events)]
      /\ \A p \in Priorities : queue[p] = <<>>
  BY DEF EventLoopInit
<1>2. QueuesOK
  BY <1>1, BoundsAssumption DEF QueuesOK
<1>3. CallbacksOK
  BY BoundsAssumption DEF EventLoopInit, CallbacksOK
<1>4. CallsOK
  BY DEF EventLoopInit, CallsOK
<1>5. accepted \in Seq(Events) /\ begun \in Seq(Events) /\ rejected \subseteq Events
      /\ flags \in [Flags -> BOOLEAN]
  BY DEF EventLoopInit
<1>6. RepliesOK
  BY DEF EventLoopInit, RepliesOK
<1>7. LoopRecordOK
  BY DEF EventLoopInit, Rest, LoopPlaces, Results, LoopRecordOK
<1>8. DispatcherOK
  BY DEF EventLoopInit, DispatcherOK
<1> QED
  BY <1>2, <1>3, <1>4, <1>5, <1>6, <1>7, <1>8 DEF LoopShape

\* A receive from a queue leaves it shorter, with events of its priority.
LEMMA TakeShape ==
  ASSUME QueuesOK, NEW p \in Priorities, queue[p] # <<>>,
         queue' = [queue EXCEPT ![p] = Tail(@)]
  PROVE  /\ QueuesOK'
         /\ Head(queue[p]) \in Events /\ Head(queue[p]) # None /\ Prio[Head(queue[p])] = p
<1>1. queue[p] \in Seq(Events) /\ queue'[p] = Tail(queue[p])
  BY DEF QueuesOK
<1>2. \A q \in Priorities : q # p => queue'[q] = queue[q]
  BY DEF QueuesOK
<1>3. /\ Head(queue[p]) \in Events /\ Tail(queue[p]) \in Seq(Events)
      /\ Len(Tail(queue[p])) = Len(queue[p]) - 1 /\ Len(queue[p]) \in Nat \ {0}
      /\ Head(queue[p]) = queue[p][1]
      /\ \A i \in 1 .. Len(queue[p]) - 1 : Tail(queue[p])[i] = queue[p][i + 1]
  BY <1>1
<1>4. queue' \in [Priorities -> Seq(Events)]
  BY <1>3 DEF QueuesOK
<1>5. Prio[Head(queue[p])] = p
  <2>1. 1 \in 1 .. Len(queue[p])
    BY <1>3
  <2>2. Prio[queue[p][1]] = p
    BY <2>1 DEF QueuesOK
  <2> QED
    BY <1>3, <2>2
<1>6. Len(queue'[p]) <= QueueSize
  BY <1>1, <1>3, BoundsAssumption DEF QueuesOK
<1>7. ASSUME NEW i \in 1 .. Len(queue'[p]) PROVE Prio[queue'[p][i]] = p
  <2>1. i \in 1 .. Len(queue[p]) - 1
    BY <1>1, <1>3
  <2>2. queue'[p][i] = queue[p][i + 1]
    BY <1>1, <1>3, <2>1
  <2>3. i + 1 \in 1 .. Len(queue[p])
    BY <1>3, <2>1
  <2> QED
    BY <2>2, <2>3 DEF QueuesOK
<1>8. QueuesOK'
  BY <1>2, <1>4, <1>6, <1>7 DEF QueuesOK
<1> QED
  BY <1>3, <1>5, <1>8, EventsAssumption

\* A submission that succeeded left room for no more than the channel takes.
LEMMA EnqueueShape ==
  ASSUME QueuesOK, CallsOK, accepted \in Seq(Events), NEW e \in Events, ~ Full(e), Enqueue(e)
  PROVE  QueuesOK' /\ CallsOK' /\ accepted' \in Seq(Events)
<1> DEFINE p == Prio[e]
<1>1. p \in Priorities
  BY EventsAssumption
<1> HIDE DEF p
<1>2. queue[p] \in Seq(Events) /\ queue'[p] = Append(queue[p], e)
  BY <1>1 DEF QueuesOK, Enqueue, p
<1>3. \A q \in Priorities : q # p => queue'[q] = queue[q]
  BY DEF QueuesOK, Enqueue, p
<1>4. /\ Append(queue[p], e) \in Seq(Events)
      /\ Len(Append(queue[p], e)) = Len(queue[p]) + 1 /\ Len(queue[p]) \in Nat
      /\ \A i \in 1 .. Len(queue[p]) : Append(queue[p], e)[i] = queue[p][i]
      /\ Append(queue[p], e)[Len(queue[p]) + 1] = e
  BY <1>2
<1>5. queue' \in [Priorities -> Seq(Events)]
  BY <1>1, <1>4 DEF QueuesOK, Enqueue, p
<1>6. Len(queue'[p]) <= QueueSize
  BY <1>2, <1>4, BoundsAssumption DEF Full, p
<1>7. ASSUME NEW i \in 1 .. Len(queue'[p]) PROVE Prio[queue'[p][i]] = p
  <2>1. i \in 1 .. Len(queue[p]) \/ i = Len(queue[p]) + 1
    BY <1>2, <1>4
  <2> QED
    BY <1>1, <1>2, <1>4, <2>1 DEF QueuesOK, p
<1>8. accepted' \in Seq(Events) /\ CallsOK'
  BY DEF CallsOK, Enqueue
<1> QED
  BY <1>3, <1>5, <1>6, <1>7, <1>8 DEF QueuesOK

\* Results go to the channel of the event they belong to.
LEMMA DeliverShape ==
  ASSUME RepliesOK, NEW e \in Events, NEW r \in Results, Deliver(e, r)
  PROVE  RepliesOK'
<1>1. answers \in [Events -> Seq(Results)] /\ answers[e] \in Seq(Results)
  BY DEF RepliesOK
<1>2. Append(answers[e], r) \in Seq(Results)
  BY <1>1
<1> QED
  BY <1>1, <1>2 DEF Deliver, RepliesOK

\* Taking a result off its queue.
LEMMA PopShape ==
  ASSUME CallbacksOK, callbacks # <<>>, callbacks' = Tail(callbacks)
  PROVE  /\ CallbacksOK' /\ Head(callbacks) \in Items
         /\ Head(callbacks).event \in Events /\ Head(callbacks).result \in Results
<1>1. Head(callbacks) \in Items /\ CallbacksOK'
  BY BoundsAssumption DEF CallbacksOK
<1> QED
  BY <1>1 DEF Items

\* drainCallbacks takes a result and delivers it.
LEMMA DeliverQueuedShape ==
  ASSUME CallbacksOK, RepliesOK, DeliverQueued
  PROVE  CallbacksOK' /\ RepliesOK'
BY PopShape, DeliverShape DEF DeliverQueued

\* A history that forgets an event is still a sequence of events.
LEMMA EraseShape ==
  ASSUME NEW s \in Seq(Events), NEW e
  PROVE  Erase(s, e) \in Seq(Events)
<1>1. CASE ~ Contains(s, e)
  BY <1>1 DEF Erase
<1>2. CASE Contains(s, e)
  <2>1. PICK i \in 1 .. Len(s) : i = CHOOSE j \in DOMAIN s : s[j] = e
    BY <1>2 DEF Contains
  <2>2. SubSeq(s, 1, i - 1) \in Seq(Events) /\ SubSeq(s, i + 1, Len(s)) \in Seq(Events)
    OBVIOUS
  <2>3. Erase(s, e) = SubSeq(s, 1, i - 1) \o SubSeq(s, i + 1, Len(s))
    BY <1>2, <2>1 DEF Erase, RemoveAt
  <2> QED
    BY <2>2, <2>3
<1> QED
  BY <1>1, <1>2

\* The record of the loop where the loop goes on without an event in hand,
LEMMA RecordMoves ==
  ASSUME LoopRecordOK, NEW p \in {"top", "high", "medium", "low", "select", "exited"},
         \/ loop' = [loop EXCEPT !.at = p, !.cur = None]
         \/ loop' = [loop EXCEPT !.at = p] /\ loop.cur = None
         \/ loop' = [loop EXCEPT !.at = p, !.n = 0] /\ loop.cur = None
  PROVE  LoopRecordOK'
<1> USE EventsAssumption DEF LoopRecordOK, LoopPlaces
<1>1. CASE loop' = [loop EXCEPT !.at = p, !.cur = None]
  BY <1>1
<1>2. CASE loop' = [loop EXCEPT !.at = p] /\ loop.cur = None
  BY <1>2
<1>3. CASE loop' = [loop EXCEPT !.at = p, !.n = 0] /\ loop.cur = None
  BY <1>3
<1> QED
  BY <1>1, <1>2, <1>3

\* where it starts a round,
LEMMA RecordRests ==
  ASSUME NEW p \in {"top", "high"}, NEW h \in Events \cup {None},
         \/ loop' = [Rest EXCEPT !.at = p, !.held = h]
         \/ loop' = [Rest EXCEPT !.at = p]
         \/ loop' = Rest
  PROVE  LoopRecordOK'
<1> USE DEF Rest
<1>1. CASE loop' = [Rest EXCEPT !.at = p, !.held = h]
  BY <1>1 DEF LoopRecordOK, LoopPlaces, Results
<1>2. CASE loop' = [Rest EXCEPT !.at = p]
  BY <1>2 DEF LoopRecordOK, LoopPlaces, Results
<1>3. CASE loop' = Rest
  BY <1>3 DEF LoopRecordOK, LoopPlaces, Results
<1> QED
  BY <1>1, <1>2, <1>3

\* and where it takes an event.
LEMMA RecordTakes ==
  ASSUME LoopRecordOK, NEW e \in Events, NEW b \in {"top", "high", "medium"}, NEW k \in Nat,
         \/ loop' = [loop EXCEPT !.at = "begin", !.cur = e, !.back = b, !.n = k, !.did = TRUE]
         \/ loop' = [loop EXCEPT !.at = "begin", !.cur = e, !.held = None, !.back = b]
  PROVE  LoopRecordOK'
<1> USE EventsAssumption DEF LoopRecordOK, LoopPlaces
<1>1. CASE loop' = [loop EXCEPT !.at = "begin", !.cur = e, !.back = b, !.n = k, !.did = TRUE]
  BY <1>1
<1>2. CASE loop' = [loop EXCEPT !.at = "begin", !.cur = e, !.held = None, !.back = b]
  BY <1>2
<1> QED
  BY <1>1, <1>2

\* Every step keeps the shape.
LEMMA ShapeKept ==
  ASSUME LoopShape, Ending, EventLoopNext
  PROVE  LoopShape'
<1> USE DEF LoopShape
<1>1. ASSUME UNCHANGED <<queue, callbacks, loop, disp, call, history, replies>>,
             flags' \in [Flags -> BOOLEAN]
      PROVE  LoopShape'
  BY <1>1 DEF history, replies, QueuesOK, CallbacksOK, LoopRecordOK, DispatcherOK, CallsOK, RepliesOK
\* the callers
<1>2. CASE \/ ParentCancels \/ StopCloses \/ StopCancels \/ StopReturns \/ StopGivesUp
           \/ DrainFlags \/ DrainWakes \/ DrainReturns \/ DrainGivesUp \/ Close
           \/ \E e \in Events : Expire(e) \/ ReaderArrives(e)
  <2>1. flags' \in [Flags -> BOOLEAN]
    BY <1>2 DEF ParentCancels, StopCloses, StopCancels, StopReturns, StopGivesUp, DrainFlags,
                DrainWakes, DrainReturns, DrainGivesUp, Close, Expire, ReaderArrives, Flags
  <2>2. UNCHANGED <<queue, callbacks, loop, disp, call, history, replies>>
    BY <1>2 DEF ParentCancels, StopCloses, StopCancels, StopReturns, StopGivesUp, DrainFlags,
                DrainWakes, DrainReturns, DrainGivesUp, Close, Expire, ReaderArrives, callers
  <2> QED
    BY <2>1, <2>2, <1>1
<1>3. CASE Start
  <2>1. flags' \in [Flags -> BOOLEAN]
    BY <1>3 DEF Start, Flags
  <2>2. LoopRecordOK'
    BY <1>3 DEF Start, LoopRecordOK, Rest, LoopPlaces, Results
  <2>3. DispatcherOK'
    BY <1>3 DEF Start, DispatcherOK, Ending
  <2> QED
    BY <1>3, <2>1, <2>2, <2>3 DEF Start, callers, history, replies, QueuesOK, CallbacksOK,
                                CallsOK, RepliesOK
<1>4. ASSUME NEW e \in Events, Submit(e) \/ SubmitBlocking(e) \/ GiveUpBlocked(e)
      PROVE  LoopShape'
  <2>1. \/ ~ Full(e) /\ Enqueue(e)
        \/ UNCHANGED <<queue, accepted>> /\ (Refuse(e) \/ call' = [call EXCEPT ![e] = "blocked"])
    BY <1>4 DEF Submit, SubmitBlocking, GiveUpBlocked, Refuse
  <2>2. QueuesOK' /\ CallsOK' /\ accepted' \in Seq(Events)
    <3>1. CASE ~ Full(e) /\ Enqueue(e)
      BY <3>1, EnqueueShape
    <3>2. CASE UNCHANGED <<queue, accepted>> /\ (Refuse(e) \/ call' = [call EXCEPT ![e] = "blocked"])
      BY <3>2 DEF Refuse, QueuesOK, CallsOK
    <3> QED
      BY <2>1, <3>1, <3>2
  <2> QED
    BY <1>4, <2>2 DEF Submit, SubmitBlocking, GiveUpBlocked, replies, CallbacksOK, LoopRecordOK,
                      DispatcherOK, RepliesOK
\* the loop
<1>5. CASE LoopTop
  <2>1. flags' \in [Flags -> BOOLEAN]
    BY <1>5 DEF LoopTop, Flags
  <2>2. LoopRecordOK'
    <3>1. CASE loop' = [loop EXCEPT !.at = "exited"]
      BY <1>5, <3>1, RecordMoves DEF LoopTop, LoopRecordOK
    <3>2. CASE loop' = [Rest EXCEPT !.at = "high"]
      BY <3>2, RecordRests
    <3> QED
      BY <1>5, <3>1, <3>2 DEF LoopTop
  <2> QED
    BY <1>5, <2>1, <2>2 DEF LoopTop, QueuesOK, callers, history, replies, CallbacksOK,
               DispatcherOK, CallsOK, RepliesOK
<1> DEFINE Frame == UNCHANGED <<callbacks, flags, disp, callers, history, replies>>
<1>6. ASSUME QueuesOK', LoopRecordOK', Frame PROVE LoopShape'
  BY <1>6 DEF callers, history, replies, CallbacksOK, DispatcherOK, CallsOK, RepliesOK
<1>7. ASSUME NEW p \in Priorities, NEW b \in {"top", "high", "medium"}, NEW k \in Nat,
             Receive(p, b, k)
      PROVE  QueuesOK' /\ LoopRecordOK'
  BY <1>7, TakeShape, RecordTakes DEF Receive
<1>8. ASSUME NEW p \in {"high", "medium"}, LoopBurst(p) PROVE LoopShape'
  <2>1. CASE Receive(p, p, loop.n + 1)
    <3>1. loop.n + 1 \in Nat /\ p \in Priorities
      BY DEF LoopRecordOK, Priorities
    <3>2. QueuesOK' /\ LoopRecordOK'
      BY <2>1, <3>1, <1>7
    <3> QED
      BY <1>8, <3>2, <1>6 DEF LoopBurst
  <2>2. CASE /\ HeldAfter(p) /\ UNCHANGED queue
             /\ loop' = [loop EXCEPT !.at = "begin", !.cur = loop.held,
                                     !.held = None, !.back = "top"]
    <3>1. loop.held \in Events
      BY <2>2 DEF HeldAfter, LoopRecordOK
    <3>2. LoopRecordOK'
      BY <2>2, <3>1, RecordTakes
    <3> QED
      BY <1>8, <2>2, <3>2, <1>6 DEF LoopBurst, QueuesOK
  <2>3. CASE /\ UNCHANGED queue
             /\ loop' = [loop EXCEPT !.at = IF p = "high" THEN "medium" ELSE "low", !.n = 0]
    <3>1. loop.cur = None
      BY <1>8 DEF LoopBurst, LoopRecordOK
    <3>2. LoopRecordOK'
      BY <2>3, <3>1, RecordMoves
    <3> QED
      BY <1>8, <2>3, <3>2, <1>6 DEF LoopBurst, QueuesOK
  <2> QED
    BY <1>8, <2>1, <2>2, <2>3 DEF LoopBurst
<1>9. CASE LoopLow
  <2>1. CASE Receive("low", "top", 0)
    BY <1>9, <2>1, <1>7, <1>6 DEF LoopLow, Priorities
  <2>2. CASE /\ UNCHANGED queue
             /\ loop' = [loop EXCEPT !.at = IF loop.did THEN "top" ELSE "select"]
    <3>1. loop.cur = None
      BY <1>9 DEF LoopLow, LoopRecordOK
    <3>2. LoopRecordOK'
      BY <2>2, <3>1, RecordMoves
    <3> QED
      BY <1>9, <2>2, <3>2, <1>6 DEF LoopLow, QueuesOK
  <2> QED
    BY <1>9, <2>1, <2>2 DEF LoopLow
<1>10. CASE SelectDone
  <2>1. LoopRecordOK'
    BY <1>10, RecordMoves DEF SelectDone, LoopRecordOK
  <2> QED
    BY <1>10, <2>1, <1>6 DEF SelectDone, QueuesOK
<1>11. CASE SelectWake
  <2>1. LoopRecordOK'
    BY <1>11, RecordRests DEF SelectWake
  <2>2. flags' \in [Flags -> BOOLEAN]
    BY <1>11 DEF SelectWake, Flags
  <2> QED
    BY <1>11, <2>1, <2>2 DEF SelectWake, QueuesOK, callers, history, replies, CallbacksOK,
               DispatcherOK, CallsOK, RepliesOK
<1>12. CASE SelectHigh
  BY <1>12, <1>7, <1>6 DEF SelectHigh, Priorities
<1>13. ASSUME NEW p \in Priorities, SelectLower(p) PROVE LoopShape'
  <2>1. QueuesOK' /\ Head(queue[p]) \in Events
    BY <1>13, TakeShape DEF SelectLower
  <2>2. LoopRecordOK'
    BY <1>13, <2>1, RecordRests DEF SelectLower
  <2> QED
    BY <1>13, <2>1, <2>2, <1>6 DEF SelectLower
<1>14. CASE Begin
  <2>1. loop.cur \in Events /\ loop.cur # None
    BY <1>14 DEF Begin, LoopRecordOK
  <2>2. LoopRecordOK'
    <3>1. CASE loop' = [loop EXCEPT !.at = "answer", !.res = "expired"]
      BY <2>1, <3>1 DEF LoopRecordOK, LoopPlaces, Results
    <3>2. CASE loop' = [loop EXCEPT !.at = "run", !.res = "result"]
      BY <2>1, <3>2 DEF LoopRecordOK, LoopPlaces, Results
    <3> QED
      BY <1>14, <3>1, <3>2 DEF Begin
  <2>3. begun' \in Seq(Events)
    BY <1>14, <2>1 DEF Begin
  <2> QED
    BY <1>14, <2>2, <2>3 DEF Begin, QueuesOK, callers, history, replies, CallbacksOK,
               DispatcherOK, CallsOK, RepliesOK
<1>15. CASE Finish \/ AnswerLater
  <2>1. LoopRecordOK'
    BY <1>15 DEF Finish, AnswerLater, LoopRecordOK, LoopPlaces
  <2> QED
    BY <1>15, <2>1, <1>6 DEF Finish, AnswerLater, QueuesOK
<1>16. ASSUME loop' = Resume PROVE LoopRecordOK'
  <2>1. loop.back \in {"top", "high", "medium"}
    BY DEF LoopRecordOK
  <2> QED
    BY <1>16, <2>1, RecordMoves DEF Resume
<1>17. CASE AnswerNow
  <2>1. loop.cur \in Events /\ loop.res \in Results
    BY <1>17 DEF AnswerNow, LoopRecordOK
  <2>2. RepliesOK' /\ LoopRecordOK'
    BY <1>17, <2>1, <1>16, DeliverShape DEF AnswerNow
  <2> QED
    BY <1>17, <2>2 DEF AnswerNow, QueuesOK, callers, history, CallbacksOK, DispatcherOK, CallsOK
<1>18. CASE AnswerNobody
  <2>1. accepted' \in Seq(Events) /\ begun' \in Seq(Events) /\ CallsOK'
    BY <1>18, EraseShape DEF AnswerNobody, Recycle, CallsOK
  <2>2. LoopRecordOK'
    BY <1>18, <1>16 DEF AnswerNobody
  <2> QED
    BY <1>18, <2>1, <2>2 DEF AnswerNobody, QueuesOK, replies, CallbacksOK, DispatcherOK, RepliesOK
<1>19. CASE AnswerEnqueued
  <2>1. loop.cur \in Events /\ loop.res \in Results
    BY <1>19 DEF AnswerEnqueued, LoopRecordOK
  <2>2. [event |-> loop.cur, result |-> loop.res] \in Items
    BY <2>1 DEF Items
  <2>3. CallbacksOK' /\ RepliesOK'
    <3>1. CASE /\ Len(callbacks) < CallbackQueueSize /\ UNCHANGED dropped
               /\ callbacks' = Append(callbacks, [event |-> loop.cur, result |-> loop.res])
      <4>1. callbacks' \in Seq(Items) /\ Len(callbacks') = Len(callbacks) + 1
        BY <2>2, <3>1 DEF CallbacksOK
      <4>2. Len(callbacks) \in Nat
        BY DEF CallbacksOK
      <4> QED
        BY <1>19, <3>1, <4>1, <4>2, BoundsAssumption DEF AnswerEnqueued, CallbacksOK, RepliesOK
    <3>2. CASE dropped' = dropped \union {loop.cur} /\ UNCHANGED callbacks
      BY <1>19, <2>1, <3>2 DEF AnswerEnqueued, CallbacksOK, RepliesOK
    <3> QED
      BY <1>19, <3>1, <3>2 DEF AnswerEnqueued
  <2>4. LoopRecordOK'
    BY <1>19, <1>16 DEF AnswerEnqueued
  <2> QED
    BY <1>19, <2>3, <2>4 DEF AnswerEnqueued, QueuesOK, callers, history, DispatcherOK, CallsOK
\* the dispatcher and the last delivery of Stop
<1>20. CASE DispatchTakes
  <2>1. CallbacksOK' /\ Head(callbacks) \in Items
    BY <1>20, PopShape DEF DispatchTakes
  <2>2. DispatcherOK'
    BY <1>20, <2>1, NoneAssumption DEF DispatchTakes, DispatcherOK
  <2> QED
    BY <1>20, <2>1, <2>2 DEF DispatchTakes, RepliesOK, callers, history, replies, QueuesOK,
               LoopRecordOK, CallsOK
<1>21. CASE DispatchSends \/ DispatchWaits
  <2>1. disp.item \in Items
    BY <1>21 DEF DispatchSends, DispatchWaits, DispatcherOK
  <2>2. disp.item.event \in Events /\ disp.item.result \in Results
    BY <2>1 DEF Items
  <2>3. RepliesOK'
    <3>1. CASE Deliver(disp.item.event, disp.item.result)
      BY <2>2, <3>1, DeliverShape
    <3>2. CASE UNCHANGED replies
      BY <3>2 DEF replies, RepliesOK
    <3>3. CASE dropped' = dropped \union {disp.item.event} /\ UNCHANGED answers
      BY <2>2, <3>3 DEF RepliesOK
    <3> QED
      BY <1>21, <3>1, <3>2, <3>3 DEF DispatchSends, DispatchWaits
  <2>4. DispatcherOK'
    BY <1>21 DEF DispatchSends, DispatchWaits, DispatcherOK
  <2> QED
    BY <1>21, <2>3, <2>4 DEF DispatchSends, DispatchWaits, CallbacksOK, callers, history, replies, QueuesOK,
               LoopRecordOK, CallsOK
<1>22. CASE DispatchEnds
  <2>1. DispatcherOK'
    BY <1>22 DEF DispatchEnds, DispatcherOK
  <2> QED
    BY <1>22, <2>1 DEF DispatchEnds, CallbacksOK, RepliesOK, callers, history, replies, QueuesOK,
               LoopRecordOK, CallsOK
<1>23. CASE DispatchFlushes \/ StopFlushes
  <2>1. CallbacksOK' /\ RepliesOK'
    BY <1>23, DeliverQueuedShape DEF DispatchFlushes, StopFlushes, replies, CallbacksOK, RepliesOK
  <2>2. DispatcherOK'
    BY <1>23 DEF DispatchFlushes, StopFlushes, DispatcherOK
  <2> QED
    BY <1>23, <2>1, <2>2 DEF DispatchFlushes, StopFlushes, callers, history, replies, QueuesOK,
               LoopRecordOK, CallsOK
<1>24. ASSUME NEW p \in Priorities, StopRejects(p) PROVE LoopShape'
  <2>1. QueuesOK' /\ Head(queue[p]) \in Events
    BY <1>24, TakeShape DEF StopRejects, RejectFrom
  <2>2. Deliver(Head(queue[p]), "closed") \/ UNCHANGED replies
    BY <1>24 DEF StopRejects
  <2>3. RepliesOK'
    BY <2>1, <2>2, DeliverShape DEF replies, RepliesOK, Results
  <2> QED
    BY <1>24, <2>1, <2>3 DEF StopRejects, callers, CallbacksOK, LoopRecordOK, DispatcherOK, CallsOK
<1> QED
  BY <1>2, <1>3, <1>4, <1>5, <1>8, <1>9, <1>10, <1>11, <1>12, <1>13, <1>14, <1>15, <1>17, <1>18, <1>19, <1>20, <1>21, <1>22, <1>23, <1>24
  DEF EventLoopNext, LoopStep, DispatchStep, StopStep, DrainStep

-----------------------------------------------------------------------------
(* The order. *)

\* What is queued is queued at its own priority.
LEMMA QueuedAtPrio ==
  ASSUME QueuesOK, NEW p \in Priorities, NEW x, Contains(queue[p], x)
  PROVE  x \in Events /\ Prio[x] = p
<1>1. PICK i \in 1 .. Len(queue[p]) : queue[p][i] = x
  BY DEF Contains
<1> QED
  BY <1>1 DEF QueuesOK

\* Nothing is queued twice, begun and waiting, or queued and in hand.
LEMMA OnePlace ==
  ASSUME QueuesOK, Ordered, NEW x \in Events
  PROVE  /\ \A p \in Priorities : ~ Before(queue[p], x, x)
         /\ ~ Before(begun, x, x)
         /\ ~ (Contains(begun, x) /\ Waiting(x))
         /\ ~ (InHand(x) /\ Queued(x))
BY QueuedAtPrio DEF Ordered, Queued

\* Between two steps that submit, take, begin or recycle an event, the loop can
\* only let go of what it has in hand.
LEMMA OrderedKept ==
  ASSUME Ordered, UNCHANGED <<queue, accepted, begun, rejected>>,
         \A x \in Events : call'[x] = "accepted" <=> call[x] = "accepted",
         \A x \in Events : InHand(x)' => InHand(x),
         \A x \in Events : Waiting(x)' => Waiting(x),
         rejected \subseteq Events
  PROVE  Ordered'
<1>1. \A x \in Events : Queued(x)' <=> Queued(x)
  BY DEF Queued
<1> QED
  BY <1>1 DEF Ordered

\* What a submission does to the queues.
LEMMA EnqueueOccurs ==
  ASSUME QueuesOK, NEW e \in Events, Enqueue(e),
         NEW p \in Priorities, NEW x \in Events, NEW y \in Events
  PROVE  /\ Contains(queue'[p], x) <=> Contains(queue[p], x) \/ (p = Prio[e] /\ x = e)
         /\ Before(queue'[p], x, y) <=>
              Before(queue[p], x, y) \/ (p = Prio[e] /\ Contains(queue[p], x) /\ y = e)
<1>1. CASE p = Prio[e]
  <2>1. queue'[p] = Append(queue[p], e) /\ queue[p] \in Seq(Events)
    BY <1>1 DEF Enqueue, QueuesOK
  <2> QED
    BY <1>1, <2>1, AppendOccurs
<1>2. CASE p # Prio[e]
  <2>1. queue'[p] = queue[p]
    BY <1>2 DEF Enqueue, QueuesOK
  <2> QED
    BY <1>2, <2>1
<1> QED
  BY <1>1, <1>2

\* A submission.
LEMMA OrderedEnqueue ==
  ASSUME LoopShape, Ordered, NEW e \in Events, call[e] # "accepted", Enqueue(e),
         UNCHANGED <<loop, begun, rejected>>
  PROVE  Ordered'
<1>1. ~ Contains(accepted, e) /\ Prio[e] \in Priorities
  BY EventsAssumption DEF Ordered
<1>2. ~ Queued(e) /\ ~ InHand(e) /\ ~ Contains(begun, e) /\ e \notin rejected
  BY <1>1 DEF Ordered
<1>3. \A x, y \in Events :
        /\ Contains(accepted', x) <=> Contains(accepted, x) \/ x = e
        /\ Before(accepted', x, y) <=> Before(accepted, x, y) \/ (Contains(accepted, x) /\ y = e)
  BY AppendOccurs DEF Enqueue, LoopShape
<1>4. \A p \in Priorities : \A x, y \in Events :
        /\ Contains(queue'[p], x) <=> Contains(queue[p], x) \/ (p = Prio[e] /\ x = e)
        /\ Before(queue'[p], x, y) <=>
             Before(queue[p], x, y) \/ (p = Prio[e] /\ Contains(queue[p], x) /\ y = e)
  BY EnqueueOccurs DEF LoopShape
<1>5. \A x \in Events : (Queued(x)' <=> Queued(x) \/ x = e)
  BY <1>1, <1>4 DEF Queued
<1>6. \A x \in Events : (InHand(x)' <=> InHand(x))
  BY DEF InHand
<1>7. \A x \in Events : (Waiting(x)' <=> Waiting(x) \/ x = e)
  BY <1>5 DEF Waiting
<1>8. \A x \in Events : call'[x] = "accepted" <=> call[x] = "accepted" \/ x = e
  BY DEF Enqueue, LoopShape, CallsOK
<1>9. \A p \in Priorities : \A x \in Events : Contains(queue[p], x) => Contains(accepted, x)
  BY DEF Ordered, Queued
<1>10. /\ \A x \in Events : ~ Before(accepted', x, x)
       /\ \A x \in Events : Contains(accepted', x) <=> call'[x] = "accepted"
  BY <1>1, <1>3, <1>8 DEF Ordered
<1>11. \A p \in Priorities : \A x, y \in Events :
         Before(queue'[p], x, y) => Before(accepted', x, y)
  BY <1>3, <1>4, <1>9 DEF Ordered
<1>12. \A x \in Events :
         Queued(x)' \/ InHand(x)' \/ Contains(begun', x) => Contains(accepted', x)
  BY <1>3, <1>5, <1>6 DEF Ordered
<1>13. \A x, y \in Events :
         InHand(x)' /\ Contains(queue'[Prio[x]], y) => Before(accepted', x, y)
  BY <1>3, <1>4, <1>6, EventsAssumption DEF Ordered
<1>14. \A x, y \in Events :
         Prio[x] = Prio[y] /\ Before(begun', x, y) => Before(accepted', x, y)
  BY <1>3 DEF Ordered
<1>15. \A x, y \in Events :
         Prio[x] = Prio[y] /\ Contains(begun', x) /\ Waiting(y)' => Before(accepted', x, y)
  BY <1>3, <1>7 DEF Ordered
<1>16. \A x \in rejected' : /\ Contains(accepted', x) /\ ~ Contains(begun', x)
                            /\ ~ Queued(x)' /\ ~ InHand(x)'
  BY <1>2, <1>3, <1>5, <1>6 DEF Ordered, LoopShape
<1> QED
  BY <1>10, <1>11, <1>12, <1>13, <1>14, <1>15, <1>16 DEF Ordered

\* What a receive does to the queues.
LEMMA TakeOccurs ==
  ASSUME QueuesOK, NEW p \in Priorities, queue[p] # <<>>,
         queue' = [queue EXCEPT ![p] = Tail(@)], ~ Before(queue[p], Head(queue[p]), Head(queue[p])),
         NEW q \in Priorities, NEW x \in Events, NEW y \in Events
  PROVE  /\ Contains(queue'[q], x) <=> Contains(queue[q], x) /\ x # Head(queue[p])
         /\ Before(queue'[q], x, y) <=> Before(queue[q], x, y) /\ x # Head(queue[p])
<1>1. queue[p] \in Seq(Events) /\ queue'[p] = Tail(queue[p]) /\ Prio[Head(queue[p])] = p
  BY TakeShape DEF QueuesOK
<1>2. CASE q = p
  <2>1. ~ Contains(Tail(queue[p]), Head(queue[p]))
    BY <1>1, TailOccurs
  <2>2. Tail(queue[p]) \in Seq(Events)
    BY <1>1
  <2>3. ~ Before(Tail(queue[p]), Head(queue[p]), y)
    BY <2>1, <2>2, BeforeOccurs
  <2>4. /\ Contains(queue[p], x) <=> x = Head(queue[p]) \/ Contains(Tail(queue[p]), x)
        /\ Before(queue[p], x, y) <=> \/ x = Head(queue[p]) /\ Contains(Tail(queue[p]), y)
                                      \/ Before(Tail(queue[p]), x, y)
    BY <1>1, TailOccurs
  <2> QED
    BY <1>1, <1>2, <2>1, <2>3, <2>4
<1>3. CASE q # p
  <2>1. queue'[q] = queue[q] /\ queue[q] \in Seq(Events)
    BY <1>3 DEF QueuesOK
  <2>2. ~ Contains(queue[q], Head(queue[p]))
    BY <1>1, <1>3, QueuedAtPrio
  <2> QED
    BY <2>1, <2>2, BeforeOccurs
<1> QED
  BY <1>2, <1>3

\* The loop takes an event.
LEMMA OrderedTake ==
  ASSUME LoopShape, Ordered, NEW p \in Priorities, queue[p] # <<>>,
         queue' = [queue EXCEPT ![p] = Tail(@)], UNCHANGED <<accepted, begun, rejected, call>>,
         \A x \in Events : InHand(x)' => InHand(x) \/ x = Head(queue[p]),
         \A x \in Events : Waiting(x)' => Waiting(x)
  PROVE  Ordered'
<1> DEFINE h == Head(queue[p])
<1>1. h \in Events /\ Prio[h] = p
  BY TakeShape DEF LoopShape
<1>2. ~ Before(queue[p], h, h)
  BY <1>1, OnePlace DEF LoopShape
<1>3. \A q \in Priorities : \A x, y \in Events :
        /\ Contains(queue'[q], x) <=> Contains(queue[q], x) /\ x # h
        /\ Before(queue'[q], x, y) <=> Before(queue[q], x, y) /\ x # h
  BY <1>2, TakeOccurs DEF LoopShape
<1>4. \A y \in Events : Contains(queue'[p], y) => Before(queue[p], h, y)
  <2>1. queue'[p] = Tail(queue[p]) /\ queue[p] \in Seq(Events)
    BY DEF LoopShape, QueuesOK
  <2> QED
    BY <2>1, TailOccurs
<1>5. Contains(queue[p], h)
  BY TailOccurs DEF LoopShape, QueuesOK
<1>6. \A x \in Events : InHand(x)' => InHand(x) \/ x = h
  OBVIOUS
<1> HIDE DEF h
<1>7. Queued(h)
  BY <1>5 DEF Queued
<1>8. \A x \in Events : (Queued(x)' => Queued(x) /\ x # h)
  BY <1>3 DEF Queued
<1>9. \A q \in Priorities : \A x, y \in Events :
        Before(queue'[q], x, y) => Before(accepted', x, y)
  BY <1>3 DEF Ordered
<1>10. \A x \in Events :
         Queued(x)' \/ InHand(x)' \/ Contains(begun', x) => Contains(accepted', x)
  BY <1>6, <1>7, <1>8 DEF Ordered
<1>11. \A x, y \in Events :
         InHand(x)' /\ Contains(queue'[Prio[x]], y) => Before(accepted', x, y)
  BY <1>1, <1>3, <1>4, <1>6, EventsAssumption DEF Ordered
<1>12. \A x \in rejected' : /\ Contains(accepted', x) /\ ~ Contains(begun', x)
                            /\ ~ Queued(x)' /\ ~ InHand(x)'
  BY <1>6, <1>7, <1>8 DEF Ordered, LoopShape
<1> QED
  BY <1>9, <1>10, <1>11, <1>12 DEF Ordered

\* Stop takes an event.
LEMMA OrderedReject ==
  ASSUME LoopShape, Ordered, NEW p \in Priorities, queue[p] # <<>>,
         queue' = [queue EXCEPT ![p] = Tail(@)], UNCHANGED <<accepted, begun, call, loop>>,
         rejected' = rejected \union {Head(queue[p])}
  PROVE  Ordered'
<1> DEFINE h == Head(queue[p])
<1>1. h \in Events /\ Prio[h] = p
  BY TakeShape DEF LoopShape
<1>2. ~ Before(queue[p], h, h)
  BY <1>1, OnePlace DEF LoopShape
<1>3. \A q \in Priorities : \A x, y \in Events :
        /\ Contains(queue'[q], x) <=> Contains(queue[q], x) /\ x # h
        /\ Before(queue'[q], x, y) <=> Before(queue[q], x, y) /\ x # h
  BY <1>2, TakeOccurs DEF LoopShape
<1>4. Contains(queue[p], h)
  BY TailOccurs DEF LoopShape, QueuesOK
<1>5. rejected' = rejected \union {h}
  OBVIOUS
<1> HIDE DEF h
<1>6. Queued(h) /\ Waiting(h)
  BY <1>4 DEF Queued, Waiting
<1>7. ~ InHand(h) /\ ~ Contains(begun, h) /\ Contains(accepted, h)
  BY <1>1, <1>6, OnePlace DEF Ordered, LoopShape
<1>8. \A x \in Events : (Queued(x)' <=> Queued(x) /\ x # h)
  BY <1>3 DEF Queued
<1>9. \A x \in Events : (InHand(x)' <=> InHand(x)) /\ (Waiting(x)' => Waiting(x))
  BY <1>8 DEF InHand, Waiting
<1>10. \A q \in Priorities : \A x, y \in Events :
         Before(queue'[q], x, y) => Before(accepted', x, y)
  BY <1>3 DEF Ordered
<1>11. \A x, y \in Events :
         InHand(x)' /\ Contains(queue'[Prio[x]], y) => Before(accepted', x, y)
  BY <1>3, <1>9, EventsAssumption DEF Ordered
<1>12. \A x \in rejected' : /\ Contains(accepted', x) /\ ~ Contains(begun', x)
                            /\ ~ Queued(x)' /\ ~ InHand(x)'
  BY <1>1, <1>5, <1>7, <1>8, <1>9 DEF Ordered, LoopShape
<1> QED
  BY <1>8, <1>9, <1>10, <1>11, <1>12 DEF Ordered

\* What select holds back has another priority than what is processed meanwhile.
LEMMA HeldApart ==
  ASSUME HeldOK, LoopRecordOK, loop.cur # None, loop.held # None
  PROVE  Prio[loop.held] # Prio[loop.cur]
BY DEF HeldOK, Stage

\* An event is handed to the processor.
LEMMA OrderedBegin ==
  ASSUME LoopShape, HeldOK, Ordered, loop.at = "begin", begun' = Append(begun, loop.cur),
         loop'.at = "run", loop'.cur = loop.cur, loop'.held = loop.held,
         UNCHANGED <<queue, accepted, rejected, call>>
  PROVE  Ordered'
<1> DEFINE e == loop.cur
<1>1. e \in Events /\ e # None
  BY DEF LoopShape, LoopRecordOK
<1>2. InHand(e) /\ Waiting(e) /\ ~ Contains(begun, e)
  BY <1>1, OnePlace DEF InHand, Waiting, LoopShape
<1>3. \A x, y \in Events :
        /\ Contains(begun', x) <=> Contains(begun, x) \/ x = e
        /\ Before(begun', x, y) <=> Before(begun, x, y) \/ (Contains(begun, x) /\ y = e)
  BY <1>1, AppendOccurs DEF LoopShape
<1>4. \A x \in Events : (Queued(x)' <=> Queued(x)) /\ (InHand(x)' <=> InHand(x))
  BY DEF Queued, InHand
<1>5. \A y \in Events : Waiting(y)' => /\ Waiting(y)
                                       /\ Queued(y) \/ (loop.held # None /\ y = loop.held)
  BY DEF Waiting, Queued
<1>6. \A y \in Events : Waiting(y)' /\ Prio[y] = Prio[e] => Before(accepted, e, y)
  <2>1. SUFFICES ASSUME NEW y \in Events, Waiting(y)', Prio[y] = Prio[e]
                 PROVE  Before(accepted, e, y)
    OBVIOUS
  <2>2. Queued(y)
    BY <1>1, <1>5, <2>1, HeldApart DEF LoopShape
  <2>3. Contains(queue[Prio[e]], y)
    BY <2>1, <2>2, QueuedAtPrio DEF Queued, LoopShape
  <2> QED
    BY <1>1, <1>2, <2>3 DEF Ordered
<1> HIDE DEF e
<1>7. \A x, y \in Events :
        Prio[x] = Prio[y] /\ Before(begun', x, y) => Before(accepted', x, y)
  BY <1>1, <1>2, <1>3 DEF Ordered
<1>8. \A x, y \in Events :
        Prio[x] = Prio[y] /\ Contains(begun', x) /\ Waiting(y)' => Before(accepted', x, y)
  <2>1. SUFFICES ASSUME NEW x \in Events, NEW y \in Events,
                        Prio[x] = Prio[y], Contains(begun', x), Waiting(y)'
                 PROVE  Before(accepted, x, y)
    OBVIOUS
  <2>2. CASE x = e
    BY <1>6, <2>1, <2>2
  <2>3. CASE Contains(begun, x)
    <3>1. Waiting(y)
      BY <1>5, <2>1
    <3> QED
      BY <2>1, <2>3, <3>1 DEF Ordered
  <2> QED
    BY <1>3, <2>1, <2>2, <2>3
<1>9. \A x \in Events :
        Queued(x)' \/ InHand(x)' \/ Contains(begun', x) => Contains(accepted', x)
  BY <1>1, <1>2, <1>3, <1>4 DEF Ordered
<1>10. \A x \in rejected' : /\ Contains(accepted', x) /\ ~ Contains(begun', x)
                            /\ ~ Queued(x)' /\ ~ InHand(x)'
  BY <1>1, <1>2, <1>3, <1>4 DEF Ordered, LoopShape
<1> QED
  BY <1>4, <1>7, <1>8, <1>9, <1>10 DEF Ordered

\* A recurring event leaves the histories.
LEMMA OrderedRecycle ==
  ASSUME LoopShape, HeldOK, Ordered, loop.at = "answer", Recycle(loop.cur),
         loop'.cur = None, loop'.at # "begin", loop'.held = loop.held, UNCHANGED <<queue, rejected>>,
         loop.cur \in Recurring
  PROVE  Ordered'
<1> DEFINE e == loop.cur
<1>1. e \in Events /\ e # None
  BY DEF LoopShape, LoopRecordOK
<1>2. InHand(e) /\ ~ Queued(e)
  BY <1>1, OnePlace DEF InHand, LoopShape
<1>3. ~ Before(accepted, e, e) /\ ~ Before(begun, e, e) /\ e \notin rejected
  BY <1>1, <1>2, OnePlace DEF Ordered, LoopShape
<1>4. \A x, y \in Events :
        /\ Contains(accepted', x) <=> Contains(accepted, x) /\ x # e
        /\ Before(accepted', x, y) <=> Before(accepted, x, y) /\ x # e /\ y # e
        /\ Contains(begun', x) <=> Contains(begun, x) /\ x # e
        /\ Before(begun', x, y) <=> Before(begun, x, y) /\ x # e /\ y # e
  <2>1. /\ accepted' = Erase(accepted, e) /\ begun' = Erase(begun, e)
        /\ accepted \in Seq(Events) /\ begun \in Seq(Events)
    BY DEF Recycle, LoopShape
  <2> HIDE DEF e
  <2>2. \A x, y \in Events :
          /\ Contains(Erase(accepted, e), x) <=> Contains(accepted, x) /\ x # e
          /\ Before(Erase(accepted, e), x, y) <=> Before(accepted, x, y) /\ x # e /\ y # e
    BY <1>3, <2>1, EraseOccurs
  <2>3. \A x, y \in Events :
          /\ Contains(Erase(begun, e), x) <=> Contains(begun, x) /\ x # e
          /\ Before(Erase(begun, e), x, y) <=> Before(begun, x, y) /\ x # e /\ y # e
    BY <1>3, <2>1, EraseOccurs
  <2> QED
    BY <2>1, <2>2, <2>3
<1>5. \A x \in Events : (Queued(x)' <=> Queued(x))
  BY DEF Queued
<1>6. \A x \in Events : InHand(x)' => InHand(x) /\ x # e
  BY <1>1, HeldApart DEF InHand, LoopShape
<1>7. \A x \in Events : Waiting(x)' => Waiting(x) /\ x # e
  BY <1>1, <1>2, <1>5, HeldApart DEF Waiting, LoopShape
<1>8. \A x \in Events : call'[x] = "accepted" <=> call[x] = "accepted" /\ x # e
  BY DEF Recycle, LoopShape, CallsOK
<1>9. \A p \in Priorities : \A x \in Events : Contains(queue[p], x) => x # e
  BY <1>2 DEF Queued
<1>10. \A p \in Priorities : \A x, y \in Events :
         Before(queue[p], x, y) => Contains(queue[p], x) /\ Contains(queue[p], y)
  BY BeforeOccurs DEF LoopShape, QueuesOK
<1> HIDE DEF e
<1>11. /\ \A x \in Events : ~ Before(accepted', x, x)
       /\ \A x \in Events : Contains(accepted', x) <=> call'[x] = "accepted"
  BY <1>4, <1>8 DEF Ordered
<1>12. \A p \in Priorities : \A x, y \in Events :
         Before(queue'[p], x, y) => Before(accepted', x, y)
  BY <1>4, <1>9, <1>10 DEF Ordered
<1>13. \A x \in Events :
         Queued(x)' \/ InHand(x)' \/ Contains(begun', x) => Contains(accepted', x)
  BY <1>2, <1>4, <1>5, <1>6 DEF Ordered
<1>14. \A x, y \in Events :
         InHand(x)' /\ Contains(queue'[Prio[x]], y) => Before(accepted', x, y)
  BY <1>4, <1>6, <1>9, EventsAssumption DEF Ordered
<1>15. \A x, y \in Events :
         Prio[x] = Prio[y] /\ Before(begun', x, y) => Before(accepted', x, y)
  BY <1>4 DEF Ordered
<1>16. \A x, y \in Events :
         Prio[x] = Prio[y] /\ Contains(begun', x) /\ Waiting(y)' => Before(accepted', x, y)
  BY <1>4, <1>7 DEF Ordered
<1>17. \A x \in rejected' : /\ Contains(accepted', x) /\ ~ Contains(begun', x)
                            /\ ~ Queued(x)' /\ ~ InHand(x)'
  BY <1>3, <1>4, <1>5, <1>6 DEF Ordered, LoopShape
<1> QED
  BY <1>11, <1>12, <1>13, <1>14, <1>15, <1>16, <1>17 DEF Ordered

-----------------------------------------------------------------------------
(* Each part, over the steps. *)

\* select holds an event back below its level only, whatever the loop does next.
LEMMA HeldKept ==
  ASSUME LoopShape, HeldOK, EventLoopNext
  PROVE  HeldOK'
<1> USE DEF LoopShape
<1>1. CASE UNCHANGED loop
  BY <1>1 DEF HeldOK, Stage
<1>2. CASE Start \/ SelectWake
  BY <1>2 DEF Start, SelectWake, Rest, HeldOK
<1>3. CASE LoopTop
  <2>1. loop.held = None
    BY <1>3 DEF LoopTop, HeldOK, Stage, LoopRecordOK
  <2> QED
    BY <1>3, <2>1 DEF LoopTop, Rest, HeldOK, LoopRecordOK
<1>4. ASSUME NEW p \in {"high", "medium"}, LoopBurst(p) PROVE HeldOK'
  <2>1. loop.at = p /\ loop.cur = None
    BY <1>4 DEF LoopBurst, LoopRecordOK
  <2>2. CASE Receive(p, p, loop.n + 1)
    <3>1. Prio[Head(queue[p])] = p /\ Head(queue[p]) # None
      BY <2>2, TakeShape DEF Receive, Priorities
    <3>2. loop'.held = loop.held /\ loop'.back = p /\ loop'.cur = Head(queue[p])
      BY <2>2 DEF Receive, LoopRecordOK
    <3> QED
      BY <2>1, <3>1, <3>2 DEF HeldOK, Stage
  <2>3. CASE loop' = [loop EXCEPT !.at = "begin", !.cur = loop.held, !.held = None, !.back = "top"]
    BY <2>3 DEF HeldOK, LoopRecordOK
  <2>4. CASE /\ ~ HeldAfter(p)
             /\ loop' = [loop EXCEPT !.at = IF p = "high" THEN "medium" ELSE "low", !.n = 0]
    <3>1. loop'.held = loop.held /\ loop'.cur = None
          /\ loop'.at = IF p = "high" THEN "medium" ELSE "low"
      BY <2>1, <2>4 DEF LoopRecordOK
    <3> QED
      BY <2>1, <2>4, <3>1 DEF HeldOK, Stage, HeldAfter
  <2> QED
    BY <1>4, <2>2, <2>3, <2>4 DEF LoopBurst
<1>5. CASE LoopLow \/ SelectDone \/ SelectHigh
  <2>1. loop.held = None
    BY <1>5 DEF LoopLow, SelectDone, SelectHigh, HeldOK, Stage, LoopRecordOK
  <2>2. loop'.held = loop.held
    BY <1>5 DEF LoopLow, SelectDone, SelectHigh, Receive, LoopRecordOK
  <2> QED
    BY <2>1, <2>2 DEF HeldOK
<1>6. ASSUME NEW p \in Priorities, SelectLower(p) PROVE HeldOK'
  <2>1. Prio[Head(queue[p])] = p
    BY <1>6, TakeShape DEF SelectLower
  <2>2. loop'.held = Head(queue[p]) /\ loop'.cur = None /\ loop'.at = "high"
    BY <1>6 DEF SelectLower, Rest
  <2> QED
    BY <1>6, <2>1, <2>2 DEF SelectLower, HeldOK, Stage
<1>7. CASE Begin \/ Finish \/ AnswerLater
  <2>1. loop'.held = loop.held /\ loop'.cur = loop.cur /\ loop'.back = loop.back /\ loop.cur # None
    BY <1>7 DEF Begin, Finish, AnswerLater, LoopRecordOK
  <2> QED
    BY <2>1 DEF HeldOK, Stage
<1>8. ASSUME loop' = Resume, loop.cur # None PROVE HeldOK'
  <2>1. loop'.held = loop.held /\ loop'.cur = None /\ loop'.at = loop.back
    BY <1>8 DEF Resume, LoopRecordOK
  <2> QED
    BY <1>8, <2>1 DEF HeldOK, Stage
<1>9. CASE AnswerNow \/ AnswerNobody \/ AnswerEnqueued
  BY <1>8, <1>9 DEF AnswerNow, AnswerNobody, AnswerEnqueued, LoopRecordOK
<1> QED
  BY <1>1, <1>2, <1>3, <1>4, <1>5, <1>6, <1>7, <1>9
  DEF EventLoopNext, LoopStep, DispatchStep, StopStep, DrainStep,
      ParentCancels, Submit, SubmitBlocking, GiveUpBlocked, Expire, ReaderArrives,
      StopCloses, StopRejects, StopCancels, StopFlushes, StopReturns, StopGivesUp,
      DrainFlags, DrainWakes, DrainReturns, DrainGivesUp, Close,
      DispatchTakes, DispatchSends, DispatchWaits, DispatchEnds, DispatchFlushes

\* Steps of the callers and of the dispatcher that neither submit nor reject.
Quiet ==
    \/ ParentCancels \/ StopCloses \/ StopCancels \/ StopFlushes \/ StopReturns \/ StopGivesUp
    \/ DrainStep \/ Close \/ DispatchStep
    \/ \E e \in Events : Expire(e) \/ ReaderArrives(e)

\* They leave the events where they are.
LEMMA QuietLeaves ==
  ASSUME Quiet
  PROVE  UNCHANGED <<queue, loop, call, accepted, begun, rejected>>
BY DEF Quiet, DrainStep, DispatchStep, callers, history,
       ParentCancels, StopCloses, StopCancels, StopFlushes, StopReturns, StopGivesUp,
       DrainFlags, DrainWakes, DrainReturns, DrainGivesUp, Close, Expire, ReaderArrives,
       DispatchTakes, DispatchSends, DispatchWaits, DispatchEnds, DispatchFlushes

\* The three ways a submission step ends.
LEMMA SubmitEnds ==
  ASSUME CallsOK, NEW e \in Events, Submit(e) \/ SubmitBlocking(e) \/ GiveUpBlocked(e)
  PROVE  /\ call[e] # "accepted"
         /\ UNCHANGED <<callbacks, flags, loop, disp, stop, drain, expired, ready, begun, rejected,
                        answers, dropped>>
         /\ \/ ~ Full(e) /\ Enqueue(e) /\ Prepared
            \/ /\ UNCHANGED <<queue, accepted>>
               /\ \A x \in Events : call'[x] = "accepted" <=> call[x] = "accepted"
<1>1. /\ call[e] # "accepted"
      /\ UNCHANGED <<callbacks, flags, loop, disp, stop, drain, expired, ready, begun, rejected,
                     answers, dropped>>
  BY DEF Submit, SubmitBlocking, GiveUpBlocked, replies
<1>2. \/ ~ Full(e) /\ Enqueue(e) /\ Prepared
      \/ /\ UNCHANGED <<queue, accepted>>
         /\ call' = [call EXCEPT ![e] = "refused"] \/ call' = [call EXCEPT ![e] = "blocked"]
  BY DEF Submit, SubmitBlocking, GiveUpBlocked, Refuse
<1> QED
  BY <1>1, <1>2 DEF CallsOK

\* Loop steps that take nothing off a queue and begin nothing: the loop only
\* goes on, brings out what it held back, or lets go of what it answered.
Onward ==
    \/ Start \/ LoopTop \/ SelectDone \/ SelectWake \/ Finish
    \/ AnswerNow \/ AnswerLater \/ AnswerEnqueued
    \/ \E p \in {"high", "medium"} : LoopBurst(p) /\ UNCHANGED queue
    \/ LoopLow /\ UNCHANGED queue
    \/ Begin /\ UNCHANGED begun
    \/ AnswerNobody /\ loop.cur \notin Recurring

\* A receive changes the queue.
LEMMA NoTail ==
  ASSUME NEW s \in Seq(Events), s # <<>>
  PROVE  s # Tail(s)
<1>1. PICK n \in Nat : n = Len(s) /\ n > 0
  OBVIOUS
<1>2. Len(Tail(s)) = n - 1 /\ n - 1 # n
  BY <1>1
<1> QED
  BY <1>1, <1>2

\* Where these steps leave the event in hand.
LEMMA OnwardLeaves ==
  ASSUME LoopShape, HeldOK, Ending, Onward
  PROVE  /\ UNCHANGED <<queue, call, accepted, begun, rejected>>
         /\ \A x \in Events : InHand(x)' => InHand(x)
         /\ \A x \in Events : Waiting(x)' => Waiting(x)
         /\ \A x \in Events : InHand(x) => \/ InHand(x)'
                                           \/ /\ x = loop.cur
                                              /\ AnswerNow \/ AnswerEnqueued \/ AnswerNobody
         /\ \A x \in Events : Waiting(x) => \/ Waiting(x)'
                                            \/ x = loop.cur /\ Begin /\ ContextDone(x)
<1> USE DEF LoopShape
<1>1. UNCHANGED <<queue, call, accepted, begun, rejected>>
  BY DEF Onward, Start, LoopTop, SelectDone, SelectWake, Finish, AnswerNow, AnswerLater,
         AnswerEnqueued, AnswerNobody, LoopBurst, LoopLow, Begin, Recycle, callers, history
<1>2. \A x \in Events : (Queued(x)' <=> Queued(x))
  BY <1>1 DEF Queued
<1>3. CASE \/ Start \/ LoopTop \/ SelectDone \/ SelectWake \/ (LoopLow /\ UNCHANGED queue)
           \/ \E p \in {"high", "medium"} :
                LoopBurst(p) /\ UNCHANGED queue /\ loop'.at # "begin"
  <2>1. loop.cur = None /\ loop.at # "begin"
    BY <1>3 DEF Start, LoopTop, SelectDone, SelectWake, LoopLow, LoopBurst, LoopRecordOK, Ending
  <2>2. loop'.cur = None /\ loop'.at # "begin" /\ loop'.held = loop.held
    <3>1. CASE Start \/ LoopTop \/ SelectWake
      <4>1. loop.held = None
        BY <2>1, <3>1 DEF Start, LoopTop, SelectWake, HeldOK, Stage, Ending
      <4> QED
        BY <2>1, <3>1, <4>1 DEF Start, LoopTop, SelectWake, LoopRecordOK, Rest
    <3>2. CASE SelectDone
      BY <2>1, <3>2 DEF SelectDone, LoopRecordOK
    <3>3. CASE LoopLow /\ UNCHANGED queue
      <4>1. loop' = [loop EXCEPT !.at = IF loop.did THEN "top" ELSE "select"]
        BY <3>3, NoTail DEF LoopLow, Receive, QueuesOK, Priorities
      <4> QED
        BY <2>1, <4>1 DEF LoopRecordOK
    <3>4. ASSUME NEW p \in {"high", "medium"}, LoopBurst(p), UNCHANGED queue, loop'.at # "begin"
          PROVE  loop'.cur = None /\ loop'.at # "begin" /\ loop'.held = loop.held
      <4>1. loop' = [loop EXCEPT !.at = IF p = "high" THEN "medium" ELSE "low", !.n = 0]
        BY <3>4 DEF LoopBurst, Receive, LoopRecordOK
      <4> QED
        BY <2>1, <4>1 DEF LoopRecordOK
    <3> QED
      BY <1>3, <3>1, <3>2, <3>3, <3>4
  <2> QED
    BY <1>1, <1>2, <2>1, <2>2 DEF InHand, Waiting
<1>4. ASSUME NEW p \in {"high", "medium"}, LoopBurst(p), UNCHANGED queue, loop'.at = "begin"
      PROVE  /\ \A x \in Events : (InHand(x)' <=> InHand(x))
             /\ \A x \in Events : (Waiting(x)' <=> Waiting(x))
  <2>0. ~ Receive(p, p, loop.n + 1)
    <3>1. queue[p] \in Seq(Events) /\ p \in Priorities
      BY DEF QueuesOK, Priorities
    <3>2. queue[p] # <<>> => [queue EXCEPT ![p] = Tail(@)] # queue
      BY <3>1, NoTail DEF QueuesOK
    <3> QED
      BY <1>4, <3>2 DEF Receive
  <2>1. loop' = [loop EXCEPT !.at = "begin", !.cur = loop.held, !.held = None, !.back = "top"]
    BY <1>4, <2>0 DEF LoopBurst, LoopRecordOK
  <2>2. loop.cur = None /\ loop.at # "begin"
    BY <1>4 DEF LoopBurst, LoopRecordOK
  <2>3. loop'.cur = loop.held /\ loop'.held = None
    BY <2>1 DEF LoopRecordOK
  <2> QED
    BY <1>2, <1>4, <2>2, <2>3, EventsAssumption DEF InHand, Waiting
<1>5. CASE Finish \/ AnswerLater
  <2>1. /\ loop'.cur = loop.cur /\ loop'.held = loop.held
        /\ loop'.at # "begin" /\ loop.at # "begin"
    BY <1>5 DEF Finish, AnswerLater, LoopRecordOK
  <2> QED
    BY <1>1, <1>2, <2>1 DEF InHand, Waiting
<1>6. CASE Begin /\ UNCHANGED begun
  <2>1. ContextDone(loop.cur)
    <3>1. begun # Append(begun, loop.cur)
      BY <1>6 DEF Begin, LoopRecordOK
    <3> QED
      BY <1>6, <3>1 DEF Begin
  <2>2. loop'.cur = loop.cur /\ loop'.held = loop.held /\ loop'.at # "begin"
    BY <1>6, <2>1 DEF Begin, LoopRecordOK
  <2> QED
    BY <1>1, <1>2, <1>6, <2>1, <2>2 DEF InHand, Waiting
<1>7. CASE AnswerNow \/ AnswerEnqueued \/ AnswerNobody
  <2>1. loop' = Resume /\ loop.at \in {"answer", "enqueue"}
    BY <1>7 DEF AnswerNow, AnswerEnqueued, AnswerNobody
  <2>2. loop'.cur = None /\ loop'.held = loop.held /\ loop'.at # "begin"
    BY <2>1 DEF Resume, LoopRecordOK
  <2> QED
    BY <1>1, <1>2, <1>7, <2>1, <2>2 DEF InHand, Waiting
<1> QED
  BY <1>1, <1>3, <1>4, <1>5, <1>6, <1>7 DEF Onward

\* What a step of the loop leaves to the others.
Others == UNCHANGED <<callbacks, flags, disp, stop, drain, expired, answers, dropped>>

\* The loop receives from queue p: the event is begun next, or held back.
Taking(p) ==
    /\ loop.cur = None /\ loop.at # "begin"
    /\ queue[p] # <<>> /\ queue' = [queue EXCEPT ![p] = Tail(@)]
    /\ \/ loop'.at = "begin" /\ loop'.cur = Head(queue[p]) /\ loop'.held = loop.held
       \/ /\ loop.held = None /\ loop'.held = Head(queue[p])
          /\ loop'.cur = None /\ loop'.at = "high"
    /\ UNCHANGED <<call, accepted, begun, rejected>> /\ Others

Beginning ==
    /\ loop.at = "begin" /\ begun' = Append(begun, loop.cur)
    /\ loop'.at = "run" /\ loop'.cur = loop.cur /\ loop'.held = loop.held
    /\ UNCHANGED <<queue, call, accepted, rejected>> /\ Others

Recycling ==
    /\ loop.at = "answer" /\ loop.cur \in Recurring /\ Recycle(loop.cur)
    /\ loop'.cur = None /\ loop'.at \in {"top", "high", "medium"} /\ loop'.held = loop.held
    /\ UNCHANGED <<queue, rejected>> /\ Others

\* These are all the steps of the loop.
LEMMA LoopMoves ==
  ASSUME LoopShape, HeldOK, LoopStep \/ Finish \/ Start
  PROVE  Onward \/ (\E p \in Priorities : Taking(p)) \/ Beginning \/ Recycling
<1> USE DEF LoopShape
<1>1. ASSUME NEW p \in Priorities, NEW b, NEW k, Receive(p, b, k), loop.cur = None,
             UNCHANGED <<callbacks, flags, disp, callers, history, replies>>
      PROVE  Taking(p)
  <2>1. loop'.at = "begin" /\ loop'.cur = Head(queue[p]) /\ loop'.held = loop.held
    BY <1>1 DEF Receive, LoopRecordOK
  <2> QED
    BY <1>1, <2>1 DEF Taking, Receive, LoopRecordOK, Others, callers, history, replies
<1>2. ASSUME NEW p \in {"high", "medium"}, LoopBurst(p) PROVE Onward \/ Taking(p)
  <2>1. CASE Receive(p, p, loop.n + 1)
    BY <1>1, <1>2, <2>1 DEF LoopBurst, LoopRecordOK, Priorities
  <2>2. CASE UNCHANGED queue
    BY <1>2, <2>2 DEF Onward
  <2> QED
    BY <1>2, <2>1, <2>2 DEF LoopBurst
<1>3. CASE LoopLow
  <2>1. CASE Receive("low", "top", 0)
    BY <1>1, <1>3, <2>1 DEF LoopLow, LoopRecordOK, Priorities
  <2>2. CASE UNCHANGED queue
    BY <1>3, <2>2 DEF Onward
  <2> QED
    BY <1>3, <2>1, <2>2 DEF LoopLow
<1>4. CASE SelectHigh
  BY <1>1, <1>4 DEF SelectHigh, LoopRecordOK, Priorities
<1>5. ASSUME NEW p \in Priorities, SelectLower(p) PROVE Taking(p)
  <2>1. loop.cur = None /\ loop.held = None
    BY <1>5 DEF SelectLower, HeldOK, Stage, LoopRecordOK
  <2>2. loop'.held = Head(queue[p]) /\ loop'.cur = None /\ loop'.at = "high"
    BY <1>5 DEF SelectLower, Rest
  <2> QED
    BY <1>5, <2>1, <2>2 DEF SelectLower, Taking, Others, callers, history, replies
<1>6. CASE Begin
  <2>1. CASE ContextDone(loop.cur)
    BY <1>6, <2>1 DEF Begin, Onward
  <2>2. CASE ~ ContextDone(loop.cur)
    <3>1. loop'.at = "run" /\ loop'.cur = loop.cur /\ loop'.held = loop.held
      BY <1>6, <2>2 DEF Begin, LoopRecordOK
    <3> QED
      BY <1>6, <2>2, <3>1 DEF Begin, Beginning, Others, callers, replies
  <2> QED
    BY <2>1, <2>2
<1>7. CASE AnswerNobody
  <2>1. CASE loop.cur \notin Recurring
    BY <1>7, <2>1 DEF Onward
  <2>2. CASE loop.cur \in Recurring
    <3>1. loop'.cur = None /\ loop'.at \in {"top", "high", "medium"} /\ loop'.held = loop.held
      BY <1>7 DEF AnswerNobody, Resume, LoopRecordOK
    <3> QED
      BY <1>7, <2>2, <3>1 DEF AnswerNobody, Recycling, Others, replies
  <2> QED
    BY <2>1, <2>2
<1> QED
  BY <1>2, <1>3, <1>4, <1>5, <1>6, <1>7 DEF LoopStep, Onward, Priorities

\* A receive brings the event from the queue into the hands of the loop.
LEMMA TakingLeaves ==
  ASSUME LoopShape, Ordered, NEW p \in Priorities, Taking(p)
  PROVE  /\ Head(queue[p]) \in Events /\ Queued(Head(queue[p]))
         /\ \A x \in Events : (Queued(x)' <=> Queued(x) /\ x # Head(queue[p]))
         /\ \A x \in Events : (InHand(x)' <=> InHand(x) \/ x = Head(queue[p]))
         /\ \A x \in Events : (Waiting(x)' <=> Waiting(x))
<1> DEFINE h == Head(queue[p])
<1>1. h \in Events /\ h # None /\ Prio[h] = p
  BY TakeShape DEF LoopShape, Taking
<1>2. ~ Before(queue[p], h, h)
  BY <1>1, OnePlace DEF LoopShape
<1>3. \A q \in Priorities : \A x \in Events : Contains(queue'[q], x) <=> Contains(queue[q], x) /\ x # h
  BY <1>2, TakeOccurs DEF LoopShape, Taking
<1>4. Contains(queue[p], h)
  BY TailOccurs DEF LoopShape, QueuesOK, Taking
<1>5. Queued(h) /\ \A x \in Events : (Queued(x)' <=> Queued(x) /\ x # h)
  BY <1>3, <1>4 DEF Queued
<1>6. /\ \A x \in Events : (InHand(x)' <=> InHand(x) \/ x = h)
      /\ \A x \in Events : (Waiting(x)' <=> Waiting(x))
  <2>1. CASE loop'.at = "begin" /\ loop'.cur = h /\ loop'.held = loop.held
    BY <1>1, <1>5, <2>1 DEF Taking, InHand, Waiting
  <2>2. CASE loop.held = None /\ loop'.held = h /\ loop'.cur = None /\ loop'.at = "high"
    BY <1>1, <1>5, <2>2 DEF Taking, InHand, Waiting
  <2> QED
    BY <2>1, <2>2 DEF Taking
<1> QED
  BY <1>1, <1>5, <1>6

\* The order is kept by every step.
LEMMA OrderedNext ==
  ASSUME LoopShape, HeldOK, Ordered, Ending, EventLoopNext
  PROVE  Ordered'
<1>1. CASE Quiet
  <2>1. UNCHANGED <<queue, loop, call, accepted, begun, rejected>>
    BY <1>1, QuietLeaves
  <2> QED
    BY <2>1 DEF Ordered, Queued, InHand, Waiting
<1>2. ASSUME NEW e \in Events, Submit(e) \/ SubmitBlocking(e) \/ GiveUpBlocked(e)
      PROVE  Ordered'
  <2>1. CASE Enqueue(e)
    BY <1>2, <2>1, SubmitEnds, OrderedEnqueue DEF LoopShape
  <2>2. CASE /\ UNCHANGED <<queue, accepted>>
             /\ \A x \in Events : call'[x] = "accepted" <=> call[x] = "accepted"
    <3>1. UNCHANGED <<loop, begun, rejected>>
      BY <1>2, SubmitEnds DEF LoopShape
    <3> QED
      BY <2>2, <3>1 DEF Ordered, Queued, InHand, Waiting
  <2> QED
    BY <1>2, <2>1, <2>2, SubmitEnds DEF LoopShape
<1>3. ASSUME NEW p \in Priorities, StopRejects(p) PROVE Ordered'
  BY <1>3, OrderedReject DEF StopRejects, RejectFrom, callers
<1>4. CASE Onward
  <2>1. /\ UNCHANGED <<queue, call, accepted, begun, rejected>>
        /\ \A x \in Events : InHand(x)' => InHand(x)
        /\ \A x \in Events : Waiting(x)' => Waiting(x)
    BY <1>4, OnwardLeaves
  <2> QED
    BY <2>1, OrderedKept DEF LoopShape
<1>5. ASSUME NEW p \in Priorities, Taking(p) PROVE Ordered'
  <2>1. /\ \A x \in Events : InHand(x)' => InHand(x) \/ x = Head(queue[p])
        /\ \A x \in Events : Waiting(x)' => Waiting(x)
    BY <1>5, TakingLeaves
  <2> QED
    BY <1>5, <2>1, OrderedTake DEF Taking
<1>6. CASE Beginning
  BY <1>6, OrderedBegin DEF Beginning
<1>7. CASE Recycling
  BY <1>7, OrderedRecycle DEF Recycling
<1>8. CASE LoopStep \/ Finish \/ Start
  BY <1>4, <1>5, <1>6, <1>7, <1>8, LoopMoves
<1> QED
  BY <1>1, <1>2, <1>3, <1>8 DEF EventLoopNext, StopStep, Quiet

-----------------------------------------------------------------------------
(* The results. *)

\* A delivery or a counted drop settles an event that was not settled.
LEMMA SettledNow ==
  ASSUME RepliesOK, RepliedOnce, NEW e \in Events, ~ Settled(e),
         \/ \E r \in Results : Deliver(e, r)
         \/ dropped' = dropped \union {e} /\ UNCHANGED answers
  PROVE  RepliedOnce' /\ \A x \in Events : (Settled(x)' <=> Settled(x) \/ x = e)
<1>1. answers[e] = <<>> /\ e \notin dropped
  BY DEF Settled
<1>2. CASE \E r \in Results : /\ answers' = [answers EXCEPT ![e] = Append(@, r)]
                              /\ UNCHANGED dropped
  <2>1. PICK r \in Results : /\ answers' = [answers EXCEPT ![e] = Append(@, r)]
                             /\ UNCHANGED dropped
    BY <1>2
  <2>2. answers'[e] = Append(<<>>, r) /\ \A x \in Events : x # e => answers'[x] = answers[x]
    BY <1>1, <2>1 DEF RepliesOK
  <2>3. Append(<<>>, r) # <<>> /\ Len(Append(<<>>, r)) = 1
    OBVIOUS
  <2> QED
    BY <1>1, <2>1, <2>2, <2>3 DEF RepliedOnce, Settled
<1>3. CASE dropped' = dropped \union {e} /\ UNCHANGED answers
  BY <1>1, <1>3 DEF RepliedOnce, Settled
<1> QED
  BY <1>2, <1>3 DEF Deliver

\* Where the results are when one is put on the queue to the dispatcher,
LEMMA ResultAppended ==
  ASSUME CallbacksOK, OneResult, NEW e \in Events, NEW r \in Results, ~ Enqueued(e),
         callbacks' = Append(callbacks, [event |-> e, result |-> r])
  PROVE  /\ \A x \in Events : (Enqueued(x)' <=> Enqueued(x) \/ x = e)
         /\ \A i, j \in 1 .. Len(callbacks') : callbacks'[i].event = callbacks'[j].event => i = j
<1> DEFINE it == [event |-> e, result |-> r]
<1>1. it \in Items /\ it.event = e
  BY DEF Items
<1> HIDE DEF it
<1>2. /\ Len(callbacks') = Len(callbacks) + 1 /\ Len(callbacks) \in Nat
      /\ \A i \in 1 .. Len(callbacks) : callbacks'[i] = callbacks[i]
      /\ callbacks'[Len(callbacks) + 1] = it
  BY <1>1 DEF CallbacksOK, it
<1>3. ASSUME NEW x \in Events PROVE Enqueued(x)' <=> Enqueued(x) \/ x = e
  <2>1. ASSUME Enqueued(x)' PROVE Enqueued(x) \/ x = e
    <3>1. PICK i \in 1 .. Len(callbacks') : callbacks'[i].event = x
      BY <2>1 DEF Enqueued
    <3>2. i \in 1 .. Len(callbacks) \/ i = Len(callbacks) + 1
      BY <1>2
    <3> QED
      BY <1>1, <1>2, <3>1, <3>2 DEF Enqueued
  <2>2. ASSUME Enqueued(x) PROVE Enqueued(x)'
    <3>1. PICK i \in 1 .. Len(callbacks) : callbacks[i].event = x
      BY <2>2 DEF Enqueued
    <3>2. i \in 1 .. Len(callbacks')
      BY <1>2
    <3> QED
      BY <1>2, <3>1, <3>2 DEF Enqueued
  <2>3. ASSUME x = e PROVE Enqueued(x)'
    <3>1. Len(callbacks) + 1 \in 1 .. Len(callbacks')
      BY <1>2
    <3> QED
      BY <1>1, <1>2, <2>3, <3>1 DEF Enqueued
  <2> QED
    BY <2>1, <2>2, <2>3
<1>4. ASSUME NEW i \in 1 .. Len(callbacks'), NEW j \in 1 .. Len(callbacks'),
             callbacks'[i].event = callbacks'[j].event
      PROVE  i = j
  <2>1. /\ i \in 1 .. Len(callbacks) \/ i = Len(callbacks) + 1
        /\ j \in 1 .. Len(callbacks) \/ j = Len(callbacks) + 1
    BY <1>2
  <2>2. \A k \in 1 .. Len(callbacks) : callbacks[k].event # e
    BY DEF Enqueued
  <2>3. CASE i \in 1 .. Len(callbacks) /\ j \in 1 .. Len(callbacks)
    BY <1>2, <1>4, <2>3 DEF OneResult
  <2> QED
    BY <1>1, <1>2, <1>4, <2>1, <2>2, <2>3
<1> QED
  BY <1>3, <1>4

\* and when one is taken off it.
LEMMA ResultTaken ==
  ASSUME CallbacksOK, OneResult, callbacks # <<>>, callbacks' = Tail(callbacks)
  PROVE  /\ Enqueued(Head(callbacks).event)
         /\ \A x \in Events : (Enqueued(x)' <=> Enqueued(x) /\ x # Head(callbacks).event)
         /\ \A i, j \in 1 .. Len(callbacks') : callbacks'[i].event = callbacks'[j].event => i = j
<1>1. /\ Len(callbacks') = Len(callbacks) - 1 /\ Len(callbacks) \in Nat /\ Len(callbacks) > 0
      /\ Head(callbacks) = callbacks[1]
      /\ \A i \in 1 .. Len(callbacks) - 1 : callbacks'[i] = callbacks[i + 1]
  BY DEF CallbacksOK
<1>2. /\ 1 \in 1 .. Len(callbacks)
      /\ \A i \in 1 .. Len(callbacks') : i + 1 \in 1 .. Len(callbacks) /\ callbacks'[i] = callbacks[i + 1]
  BY <1>1
<1>3. \A i, j \in 1 .. Len(callbacks) : callbacks[i].event = callbacks[j].event => i = j
  BY DEF OneResult
<1> DEFINE h == Head(callbacks).event
<1>4. h = callbacks[1].event
  BY <1>1
<1> HIDE DEF h
<1>5. Enqueued(h)
  BY <1>2, <1>4 DEF Enqueued
<1>6. ASSUME NEW x \in Events PROVE Enqueued(x)' <=> Enqueued(x) /\ x # h
  <2>1. ASSUME Enqueued(x)' PROVE Enqueued(x) /\ x # h
    <3>1. PICK i \in 1 .. Len(callbacks') : callbacks'[i].event = x
      BY <2>1 DEF Enqueued
    <3>2. i + 1 \in 1 .. Len(callbacks) /\ callbacks[i + 1].event = x /\ i + 1 # 1
      BY <1>2, <3>1
    <3> QED
      BY <1>2, <1>3, <1>4, <3>2 DEF Enqueued
  <2>2. ASSUME Enqueued(x), x # h PROVE Enqueued(x)'
    <3>1. PICK i \in 1 .. Len(callbacks) : callbacks[i].event = x
      BY <2>2 DEF Enqueued
    <3>2. i # 1
      BY <1>4, <2>2, <3>1
    <3>3. i - 1 \in 1 .. Len(callbacks') /\ (i - 1) + 1 = i
      BY <1>1, <3>2
    <3>4. callbacks'[i - 1] = callbacks[i]
      BY <1>2, <3>3
    <3> QED
      BY <3>1, <3>3, <3>4 DEF Enqueued
  <2> QED
    BY <2>1, <2>2
<1>7. ASSUME NEW i \in 1 .. Len(callbacks'), NEW j \in 1 .. Len(callbacks'),
             callbacks'[i].event = callbacks'[j].event
      PROVE  i = j
  <2>1. i + 1 = j + 1
    BY <1>2, <1>3, <1>7
  <2> QED
    BY <2>1
<1> QED
  BY <1>5, <1>6, <1>7 DEF h

\* Steps that move no result: the events they take out of the hands of the
\* loop have no callback channel.
LEMMA ResultsKept ==
  ASSUME OneResult, UNCHANGED <<callbacks, answers, dropped, accepted>>, disp'.item = disp.item,
         \A x \in Events : Ahead(x)' => Ahead(x),
         \A x \in Events : x \in Answered /\ Ahead(x) => Ahead(x)'
  PROVE  OneResult'
<1>1. \A x \in Events : /\ Enqueued(x)' <=> Enqueued(x)
                        /\ Dispatched(x)' <=> Dispatched(x)
                        /\ Settled(x)' <=> Settled(x)
  BY DEF Enqueued, Dispatched, Settled
<1>2. RepliedOnce'
  BY DEF OneResult, RepliedOnce
<1> QED
  BY <1>1, <1>2 DEF OneResult

\* An event that is ahead, enqueued or dispatched is settled.
LEMMA ResultSettled ==
  ASSUME LoopShape, OneResult, NEW e \in Events, e \in Answered, ~ Settled(e),
         \/ \E r \in Results : Deliver(e, r)
         \/ dropped' = dropped \union {e} /\ UNCHANGED answers,
         Contains(accepted, e), UNCHANGED accepted,
         \A x \in Events : (Ahead(x)' <=> Ahead(x) /\ x # e),
         \A x \in Events : (Enqueued(x)' <=> Enqueued(x) /\ x # e),
         \A x \in Events : (Dispatched(x)' <=> Dispatched(x) /\ x # e),
         \A i, j \in 1 .. Len(callbacks') : callbacks'[i].event = callbacks'[j].event => i = j
  PROVE  OneResult'
<1>1. RepliedOnce' /\ \A x \in Events : (Settled(x)' <=> Settled(x) \/ x = e)
  BY SettledNow DEF OneResult, LoopShape
<1> QED
  BY <1>1 DEF OneResult

\* Every event has one result at most, over every step.
LEMMA OneResultNext ==
  ASSUME LoopShape, HeldOK, Ordered, OneResult, Ending, EventLoopNext
  PROVE  OneResult'
<1>a. ASSUME UNCHANGED <<queue, loop>>
      PROVE  \A x \in Events : (Ahead(x)' <=> Ahead(x))
  BY <1>a DEF Ahead, Queued, InHand
<1>b. ASSUME UNCHANGED callbacks PROVE \A x \in Events : (Enqueued(x)' <=> Enqueued(x))
  BY <1>b DEF Enqueued
<1>c. ASSUME disp'.item = disp.item PROVE \A x \in Events : (Dispatched(x)' <=> Dispatched(x))
  BY <1>c DEF Dispatched
\* steps that move neither an event nor a result
<1>1. ASSUME UNCHANGED <<queue, loop, accepted, callbacks, answers, dropped>>, disp'.item = disp.item
      PROVE  OneResult'
  BY <1>1, <1>a, ResultsKept
<1>2. CASE \/ ParentCancels \/ StopCloses \/ StopCancels \/ StopReturns \/ StopGivesUp
           \/ DrainStep \/ Close \/ DispatchEnds
           \/ \E e \in Events : Expire(e) \/ ReaderArrives(e)
  <2>1. UNCHANGED <<queue, loop, accepted, callbacks, answers, dropped>>
    BY <1>2 DEF ParentCancels, StopCloses, StopCancels, StopReturns, StopGivesUp, DrainStep,
                DrainFlags, DrainWakes, DrainReturns, DrainGivesUp, Close, DispatchEnds, Expire,
                ReaderArrives, callers, history, replies
  <2>2. disp'.item = disp.item
    BY <1>2 DEF ParentCancels, StopCloses, StopCancels, StopReturns, StopGivesUp, DrainStep,
                DrainFlags, DrainWakes, DrainReturns, DrainGivesUp, Close, DispatchEnds, Expire,
                ReaderArrives, LoopShape, DispatcherOK
  <2> QED
    BY <1>1, <2>1, <2>2
\* the callers
<1>3. ASSUME NEW e \in Events, Submit(e) \/ SubmitBlocking(e) \/ GiveUpBlocked(e)
      PROVE  OneResult'
  <2>1. UNCHANGED <<loop, callbacks, disp, answers, dropped>> /\ call[e] # "accepted"
    BY <1>3, SubmitEnds DEF LoopShape
  <2>2. CASE Enqueue(e)
    <3>1. ~ Contains(accepted, e)
      BY <2>1 DEF Ordered
    <3>2. ~ Ahead(e) /\ ~ Enqueued(e) /\ ~ Dispatched(e) /\ ~ Settled(e)
      BY <3>1 DEF Ahead, Ordered, OneResult
    <3>3. \A x \in Events : Contains(accepted', x) <=> Contains(accepted, x) \/ x = e
      BY <2>2, AppendOccurs DEF Enqueue, LoopShape
    <3>4. \A x \in Events : (Ahead(x)' <=> Ahead(x) \/ x = e)
      <4>1. \A p \in Priorities : \A x \in Events :
              Contains(queue'[p], x) <=> Contains(queue[p], x) \/ (p = Prio[e] /\ x = e)
        BY <2>2, EnqueueOccurs DEF LoopShape
      <4> QED
        BY <2>1, <4>1, EventsAssumption DEF Ahead, Queued, InHand
    <3>5. \A x \in Events : /\ Enqueued(x)' <=> Enqueued(x)
                            /\ Dispatched(x)' <=> Dispatched(x)
                            /\ Settled(x)' <=> Settled(x)
      BY <2>1 DEF Enqueued, Dispatched, Settled
    <3>6. RepliedOnce'
      BY <2>1 DEF OneResult, RepliedOnce
    <3> QED
      BY <2>1, <3>2, <3>3, <3>4, <3>5, <3>6 DEF OneResult
  <2>3. CASE UNCHANGED <<queue, accepted>>
    BY <1>1, <2>1, <2>3
  <2> QED
    BY <1>3, <2>2, <2>3, SubmitEnds DEF LoopShape
<1>4. ASSUME NEW p \in Priorities, StopRejects(p) PROVE OneResult'
  <2> DEFINE h == Head(queue[p])
  <2>1. /\ queue[p] # <<>> /\ queue' = [queue EXCEPT ![p] = Tail(@)]
        /\ UNCHANGED <<callbacks, loop, disp, accepted>>
        /\ IF h \in Answered THEN Deliver(h, "closed") ELSE UNCHANGED <<answers, dropped>>
    BY <1>4 DEF StopRejects, RejectFrom, callers, replies
  <2>2. h \in Events /\ h # None /\ Prio[h] = p /\ Contains(queue[p], h)
    BY <2>1, TakeShape, TailOccurs DEF LoopShape, QueuesOK
  <2>3. ~ Before(queue[p], h, h)
    BY <2>2, OnePlace DEF LoopShape
  <2>4. \A q \in Priorities : \A x \in Events :
          Contains(queue'[q], x) <=> Contains(queue[q], x) /\ x # h
    BY <2>1, <2>3, TakeOccurs DEF LoopShape
  <2> HIDE DEF h
  <2>5. Queued(h) /\ ~ InHand(h) /\ Contains(accepted, h)
    BY <2>2, OnePlace DEF Queued, Ordered, LoopShape
  <2>6. \A x \in Events : (Ahead(x)' <=> Ahead(x) /\ x # h)
    <3>1. \A x \in Events : (InHand(x)' <=> InHand(x))
      BY <2>1 DEF InHand
    <3>2. \A x \in Events : (Queued(x)' <=> Queued(x) /\ x # h)
      BY <2>4 DEF Queued
    <3> QED
      BY <2>5, <3>1, <3>2 DEF Ahead
  <2>7. ~ Enqueued(h) /\ ~ Dispatched(h) /\ ~ Settled(h)
    BY <2>2, <2>5 DEF OneResult, Ahead
  <2>8. CASE h \in Answered
    <3>1. /\ \A x \in Events : (Enqueued(x)' <=> Enqueued(x) /\ x # h)
          /\ \A x \in Events : (Dispatched(x)' <=> Dispatched(x) /\ x # h)
      BY <1>b, <1>c, <2>1, <2>7
    <3>2. \E r \in Results : Deliver(h, r)
      BY <2>1, <2>8 DEF Results
    <3>3. \A i, j \in 1 .. Len(callbacks') : callbacks'[i].event = callbacks'[j].event => i = j
      BY <2>1 DEF OneResult
    <3> QED
      BY <2>1, <2>2, <2>5, <2>6, <2>7, <2>8, <3>1, <3>2, <3>3, ResultSettled
  <2>9. CASE h \notin Answered
    BY <2>1, <2>6, <2>9, ResultsKept
  <2> QED
    BY <2>8, <2>9
\* the loop
<1>5. CASE AnswerNow \/ AnswerEnqueued
  <2> DEFINE e == loop.cur
  <2>1. /\ e \in Events /\ e # None /\ e \in Answered /\ loop.res \in Results
        /\ loop' = Resume /\ UNCHANGED <<queue, disp, accepted>>
    BY <1>5 DEF AnswerNow, AnswerEnqueued, LoopShape, LoopRecordOK, callers, history
  <2>2. loop'.cur = None /\ loop'.held = loop.held
    BY <2>1 DEF Resume, LoopShape, LoopRecordOK
  <2>3. InHand(e) /\ ~ Queued(e)
    BY <2>1, OnePlace DEF InHand, LoopShape
  <2>4. \A x \in Events : (InHand(x)' <=> InHand(x) /\ x # e)
    BY <2>1, <2>2, HeldApart DEF InHand, LoopShape
  <2>5. \A x \in Events : (Ahead(x)' <=> Ahead(x) /\ x # e)
    BY <2>1, <2>3, <2>4 DEF Ahead, Queued
  <2>6. ~ Enqueued(e) /\ ~ Dispatched(e) /\ ~ Settled(e) /\ Contains(accepted, e)
    BY <2>1, <2>3 DEF OneResult, Ordered, Ahead
  <2>7. \A x \in Events : (Dispatched(x)' <=> Dispatched(x))
    BY <1>c, <2>1
  <2>8. CASE \/ AnswerNow
             \/ UNCHANGED <<callbacks, answers>> /\ dropped' = dropped \union {loop.cur}
    <3>1. UNCHANGED callbacks
      BY <2>8 DEF AnswerNow
    <3>2. \A x \in Events : (Enqueued(x)' <=> Enqueued(x) /\ x # e)
      BY <1>b, <2>6, <3>1
    <3>3. \/ \E r \in Results : Deliver(e, r)
          \/ dropped' = dropped \union {e} /\ UNCHANGED answers
      BY <2>1, <2>8 DEF AnswerNow
    <3>4. \A i, j \in 1 .. Len(callbacks') : callbacks'[i].event = callbacks'[j].event => i = j
      BY <3>1 DEF OneResult
    <3>5. \A x \in Events : (Dispatched(x)' <=> Dispatched(x) /\ x # e)
      BY <2>6, <2>7
    <3> HIDE DEF e
    <3> QED
      BY <2>1, <2>5, <2>6, <3>2, <3>3, <3>4, <3>5, ResultSettled
  <2>9. CASE /\ callbacks' = Append(callbacks, [event |-> loop.cur, result |-> loop.res])
             /\ UNCHANGED <<answers, dropped>>
    <3>1. /\ \A x \in Events : (Enqueued(x)' <=> Enqueued(x) \/ x = e)
          /\ \A i, j \in 1 .. Len(callbacks') : callbacks'[i].event = callbacks'[j].event => i = j
      BY <2>1, <2>6, <2>9, ResultAppended DEF LoopShape
    <3>2. RepliedOnce' /\ \A x \in Events : (Settled(x)' <=> Settled(x))
      BY <2>9 DEF OneResult, RepliedOnce, Settled
    <3> HIDE DEF e
    <3> QED
      BY <2>1, <2>5, <2>6, <2>7, <3>1, <3>2 DEF OneResult
  <2> QED
    BY <1>5, <2>8, <2>9 DEF AnswerEnqueued
<1>6. CASE Onward /\ ~ AnswerNow /\ ~ AnswerEnqueued
  <2>1. UNCHANGED <<queue, accepted>> /\ \A x \in Events : InHand(x)' => InHand(x)
    BY <1>6, OnwardLeaves
  <2>2. \A x \in Events : InHand(x) => InHand(x)' \/ (x = loop.cur /\ AnswerNobody)
    BY <1>6, OnwardLeaves
  <2>3. UNCHANGED <<callbacks, answers, dropped>>
    BY <1>6 DEF Onward, Start, LoopTop, SelectDone, SelectWake, Finish, AnswerLater, LoopBurst,
                LoopLow, Begin, AnswerNobody, replies
  <2>4. disp'.item = disp.item
    BY <1>6 DEF Onward, Start, LoopTop, SelectDone, SelectWake, Finish, AnswerLater, LoopBurst,
                LoopLow, Begin, AnswerNobody, LoopShape, DispatcherOK
  <2>5. \A x \in Events : (Queued(x)' <=> Queued(x))
    BY <2>1 DEF Queued
  <2>6. /\ \A x \in Events : Ahead(x)' => Ahead(x)
        /\ \A x \in Events : x \in Answered /\ Ahead(x) => Ahead(x)'
    BY <2>1, <2>2, <2>5 DEF Ahead, AnswerNobody
  <2> QED
    BY <2>1, <2>3, <2>4, <2>6, ResultsKept
<1>7. ASSUME NEW p \in Priorities, Taking(p) PROVE OneResult'
  <2>1. \A x \in Events : (Ahead(x)' <=> Ahead(x))
    BY <1>7, TakingLeaves DEF Ahead
  <2> QED
    BY <1>7, <2>1, ResultsKept DEF Taking, Others
<1>8. CASE Beginning
  <2>1. \A x \in Events : (Ahead(x)' <=> Ahead(x))
    BY <1>8 DEF Beginning, Ahead, Queued, InHand
  <2> QED
    BY <1>8, <2>1, ResultsKept DEF Beginning, Others
<1>9. CASE Recycling
  <2> DEFINE e == loop.cur
  <2>1. e \in Events /\ e # None /\ e \notin Answered
    BY <1>9, EventsAssumption DEF Recycling, LoopShape, LoopRecordOK
  <2>2. InHand(e) /\ ~ Queued(e) /\ ~ Before(accepted, e, e)
    BY <2>1, OnePlace DEF InHand, Ordered, LoopShape
  <2>3. accepted' = Erase(accepted, e) /\ UNCHANGED <<queue, callbacks, disp, answers, dropped>>
    BY <1>9 DEF Recycling, Recycle, Others
  <2>4. \A x \in Events : (InHand(x)' <=> InHand(x) /\ x # e)
    BY <1>9, <2>1, HeldApart DEF Recycling, InHand, LoopShape
  <2> HIDE DEF e
  <2>5. \A x \in Events : Contains(accepted', x) <=> Contains(accepted, x) /\ x # e
    BY <2>2, <2>3, EraseOccurs DEF LoopShape
  <2>6. \A x \in Events : (Ahead(x)' <=> Ahead(x) /\ x # e)
    BY <2>2, <2>3, <2>4 DEF Ahead, Queued
  <2>7. /\ ~ Enqueued(e) /\ ~ Dispatched(e) /\ ~ Settled(e)
        /\ RepliedOnce'
        /\ \A x \in Events : /\ Enqueued(x)' <=> Enqueued(x)
                             /\ Dispatched(x)' <=> Dispatched(x)
                             /\ Settled(x)' <=> Settled(x)
    BY <2>1, <2>3 DEF OneResult, RepliedOnce, Enqueued, Dispatched, Settled
  <2> QED
    BY <2>1, <2>3, <2>5, <2>6, <2>7 DEF OneResult
<1>10. CASE LoopStep \/ Finish \/ Start
  BY <1>5, <1>6, <1>7, <1>8, <1>9, <1>10, LoopMoves
\* the dispatcher
<1>11. CASE DispatchTakes
  <2> DEFINE h == Head(callbacks).event
  <2>1. /\ callbacks # <<>> /\ callbacks' = Tail(callbacks) /\ disp.item = None
        /\ disp'.item = Head(callbacks) /\ UNCHANGED <<queue, loop, accepted, answers, dropped>>
    BY <1>11 DEF DispatchTakes, LoopShape, DispatcherOK, callers, history, replies
  <2>2. Head(callbacks) \in Items /\ h \in Events
    BY <2>1, PopShape DEF LoopShape
  <2>3. /\ Enqueued(h)
        /\ \A x \in Events : (Enqueued(x)' <=> Enqueued(x) /\ x # h)
        /\ \A i, j \in 1 .. Len(callbacks') : callbacks'[i].event = callbacks'[j].event => i = j
    BY <2>1, ResultTaken DEF LoopShape
  <2>4. \A x \in Events : (Dispatched(x)' <=> x = h) /\ ~ Dispatched(x)
    BY <2>1, <2>2, NoneAssumption DEF Dispatched
  <2> HIDE DEF h
  <2>5. \A x \in Events : (Ahead(x)' <=> Ahead(x)) /\ (Settled(x)' <=> Settled(x))
    BY <2>1, <1>a DEF Settled
  <2>6. RepliedOnce'
    BY <2>1 DEF OneResult, RepliedOnce
  <2> QED
    BY <2>1, <2>2, <2>3, <2>4, <2>5, <2>6 DEF OneResult
<1>12. CASE DispatchSends \/ DispatchWaits
  <2> DEFINE e == disp.item.event
  <2>1. /\ disp.item \in Items /\ disp.item # None /\ e \in Events
        /\ disp.item.result \in Results
        /\ UNCHANGED <<queue, loop, accepted, callbacks>>
    <3>1. disp.item \in Items /\ disp.item # None
      BY <1>12 DEF DispatchSends, DispatchWaits, LoopShape, DispatcherOK
    <3> QED
      BY <1>12, <3>1 DEF DispatchSends, DispatchWaits, Items, callers, history
  <2>2. Dispatched(e)
    BY <2>1 DEF Dispatched
  <2>3. CASE disp'.item = disp.item /\ UNCHANGED replies
    BY <1>1, <2>1, <2>3 DEF replies
  <2>4. CASE /\ disp'.item = None
             /\ \/ Deliver(e, disp.item.result)
                \/ dropped' = dropped \union {e} /\ UNCHANGED answers
    <3>1. \/ \E r \in Results : Deliver(e, r)
          \/ dropped' = dropped \union {e} /\ UNCHANGED answers
      BY <2>1, <2>4
    <3>2. \A x \in Events : (Dispatched(x)' <=> Dispatched(x) /\ x # e)
      BY <2>4 DEF Dispatched
    <3> HIDE DEF e
    <3>3. /\ ~ Settled(e) /\ ~ Enqueued(e) /\ ~ Ahead(e) /\ e \in Answered /\ Contains(accepted, e)
      BY <2>1, <2>2 DEF OneResult
    <3>4. /\ \A x \in Events : (Ahead(x)' <=> Ahead(x) /\ x # e)
          /\ \A x \in Events : (Enqueued(x)' <=> Enqueued(x) /\ x # e)
          /\ \A i, j \in 1 .. Len(callbacks') : callbacks'[i].event = callbacks'[j].event => i = j
      BY <1>a, <1>b, <2>1, <3>3 DEF OneResult
    <3> QED
      BY <2>1, <3>1, <3>2, <3>3, <3>4, ResultSettled
  <2> QED
    BY <1>12, <2>3, <2>4 DEF DispatchSends, DispatchWaits, LoopShape, DispatcherOK
<1>13. ASSUME DeliverQueued, disp'.item = disp.item, UNCHANGED <<queue, loop, accepted>>
       PROVE  OneResult'
  <2> DEFINE e == Head(callbacks).event
  <2>1. /\ callbacks # <<>> /\ callbacks' = Tail(callbacks)
        /\ Deliver(e, Head(callbacks).result)
    BY <1>13 DEF DeliverQueued
  <2>2. e \in Events /\ Head(callbacks).result \in Results
    BY <2>1, PopShape DEF LoopShape
  <2>3. /\ Enqueued(e)
        /\ \A x \in Events : (Enqueued(x)' <=> Enqueued(x) /\ x # e)
        /\ \A i, j \in 1 .. Len(callbacks') : callbacks'[i].event = callbacks'[j].event => i = j
    BY <2>1, ResultTaken DEF LoopShape
  <2>4. \E r \in Results : Deliver(e, r)
    BY <2>1, <2>2
  <2> HIDE DEF e
  <2>5. ~ Settled(e) /\ ~ Dispatched(e) /\ ~ Ahead(e) /\ e \in Answered /\ Contains(accepted, e)
    BY <2>2, <2>3 DEF OneResult
  <2>6. /\ \A x \in Events : (Ahead(x)' <=> Ahead(x) /\ x # e)
        /\ \A x \in Events : (Dispatched(x)' <=> Dispatched(x) /\ x # e)
    BY <1>a, <1>c, <1>13, <2>5
  <2> QED
    BY <1>13, <2>2, <2>3, <2>4, <2>5, <2>6, ResultSettled
<1>14. CASE DispatchFlushes \/ StopFlushes
  <2>1. UNCHANGED <<queue, loop, accepted>> /\ disp'.item = disp.item
    BY <1>14 DEF DispatchFlushes, StopFlushes, callers, history, LoopShape, DispatcherOK
  <2>2. DeliverQueued \/ UNCHANGED <<callbacks, answers, dropped>>
    BY <1>14 DEF DispatchFlushes, StopFlushes, replies
  <2> QED
    BY <1>1, <1>13, <2>1, <2>2
<1> QED
  BY <1>2, <1>3, <1>4, <1>10, <1>11, <1>12, <1>14
  DEF EventLoopNext, StopStep, DispatchStep

-----------------------------------------------------------------------------
(* The end. *)

\* The signals between the goroutines, Stop and Drain keep their meaning.
LEMMA EndingNext ==
  ASSUME LoopShape, Ending, EventLoopNext
  PROVE  Ending'
<1> USE DEF LoopShape, Ending
<1>1. CASE Start
  BY <1>1 DEF Start, Rest, Flags, callers, QueuesEmpty
<1>2. CASE ParentCancels
  BY <1>2 DEF ParentCancels, Flags, callers, QueuesEmpty
<1>3. ASSUME NEW e \in Events, Submit(e) \/ SubmitBlocking(e) \/ GiveUpBlocked(e) PROVE Ending'
  <2>1. UNCHANGED <<callbacks, flags, loop, disp, stop, drain>>
    BY <1>3, SubmitEnds
  <2>2. CASE UNCHANGED queue
    BY <2>1, <2>2 DEF QueuesEmpty
  <2>3. CASE Prepared
    <3>1. ~ flags.closed /\ ~ flags.draining
      BY <2>3 DEF Prepared
    <3>2. stop = "idle" /\ ~ (flags.cancelled /\ ~ flags.orphaned)
      BY <3>1
    <3> QED
      BY <2>1, <3>2
  <2> QED
    BY <1>3, <2>2, <2>3, SubmitEnds
<1>4. ASSUME NEW e \in Events, Expire(e) \/ ReaderArrives(e) PROVE Ending'
  BY <1>4 DEF Expire, ReaderArrives, QueuesEmpty
<1>5. CASE LoopTop
  <2>1. CASE DrainedOut
    <3>1. loop'.at = "exited" /\ flags' = [flags EXCEPT !.cancelled = TRUE]
          /\ UNCHANGED <<queue, callbacks, disp, stop, drain>>
      BY <1>5, <2>1 DEF LoopTop, LoopRecordOK, callers
    <3>2. loop.at = "top" /\ QueuesEmpty /\ callbacks = <<>> /\ flags.draining
      BY <1>5, <2>1 DEF LoopTop, DrainedOut, QueuesEmpty
    <3> QED
      BY <3>1, <3>2 DEF Flags, QueuesEmpty
  <2>2. CASE ~ DrainedOut
    <3>1. loop'.at = "high" /\ loop.at = "top" /\ UNCHANGED <<queue, callbacks, flags, disp, stop, drain>>
      BY <1>5, <2>2 DEF LoopTop, Rest, callers
    <3> QED
      BY <3>1 DEF QueuesEmpty
  <2> QED
    BY <2>1, <2>2
<1>6. CASE SelectDone
  BY <1>6 DEF SelectDone, LoopRecordOK, callers, QueuesEmpty
<1>7. CASE SelectWake
  <2>1. loop.at = "select" /\ loop'.at = "top" /\ flags' = [flags EXCEPT !.wake = FALSE]
        /\ UNCHANGED <<queue, callbacks, disp, stop, drain>>
    BY <1>7 DEF SelectWake, Rest, callers
  <2> QED
    BY <2>1 DEF Flags, QueuesEmpty
\* the other steps of the loop: it is awake before and after
<1>8. ASSUME loop.at \notin {"off", "exited"}, loop'.at \notin {"off", "exited"},
             UNCHANGED <<flags, disp, stop, drain>>,
             QueuesEmpty => UNCHANGED queue
      PROVE  Ending'
  BY <1>8 DEF QueuesEmpty
<1>9. CASE \/ (\E p \in {"high", "medium"} : LoopBurst(p)) \/ LoopLow \/ SelectHigh
           \/ (\E p \in Priorities : SelectLower(p))
  <2>1. loop.at \notin {"off", "exited"} /\ UNCHANGED <<flags, disp, stop, drain>>
    BY <1>9 DEF LoopBurst, LoopLow, SelectHigh, SelectLower, callers
  <2>2. loop'.at \notin {"off", "exited"}
    <3>1. ASSUME NEW p, NEW b, NEW k, Receive(p, b, k) PROVE loop'.at = "begin"
      BY <3>1 DEF Receive, LoopRecordOK
    <3>2. CASE \E p \in {"high", "medium"} : LoopBurst(p)
      <4>1. PICK p \in {"high", "medium"} : LoopBurst(p)
        BY <3>2
      <4>2. CASE Receive(p, p, loop.n + 1)
        BY <3>1, <4>2
      <4>3. CASE loop' = [loop EXCEPT !.at = "begin", !.cur = loop.held, !.held = None, !.back = "top"]
        BY <4>3 DEF LoopRecordOK
      <4>4. CASE loop' = [loop EXCEPT !.at = IF p = "high" THEN "medium" ELSE "low", !.n = 0]
        BY <4>4 DEF LoopRecordOK
      <4> QED
        BY <4>1, <4>2, <4>3, <4>4 DEF LoopBurst
    <3>3. CASE LoopLow \/ SelectHigh
      BY <3>1, <3>3 DEF LoopLow, SelectHigh, LoopRecordOK
    <3>4. CASE \E p \in Priorities : SelectLower(p)
      BY <3>4 DEF SelectLower, Rest
    <3> QED
      BY <1>9, <3>2, <3>3, <3>4
  <2>3. QueuesEmpty => UNCHANGED queue
    BY <1>9 DEF LoopBurst, LoopLow, SelectHigh, SelectLower, Receive, QueuesEmpty, Priorities
  <2> QED
    BY <1>8, <2>1, <2>2, <2>3
<1>10. CASE \/ Begin \/ Finish \/ AnswerNow \/ AnswerNobody \/ AnswerLater \/ AnswerEnqueued
  <2>1. loop.at \notin {"off", "exited"} /\ UNCHANGED <<queue, flags, disp, stop, drain>>
    BY <1>10 DEF Begin, Finish, AnswerNow, AnswerNobody, AnswerLater, AnswerEnqueued, callers
  <2>2. loop'.at \notin {"off", "exited"}
    <3>1. CASE Begin \/ Finish \/ AnswerLater
      <4>1. \/ loop' = [loop EXCEPT !.at = "answer", !.res = "expired"]
            \/ loop' = [loop EXCEPT !.at = "run", !.res = "result"]
            \/ loop' = [loop EXCEPT !.at = "answer"]
            \/ loop' = [loop EXCEPT !.at = "enqueue"]
        BY <3>1 DEF Begin, Finish, AnswerLater
      <4> QED
        BY <4>1 DEF LoopRecordOK
    <3>2. CASE loop' = Resume
      BY <3>2 DEF Resume, LoopRecordOK
    <3> QED
      BY <1>10, <3>1, <3>2 DEF AnswerNow, AnswerNobody, AnswerEnqueued
  <2> QED
    BY <1>8, <2>1, <2>2
\* the dispatcher
<1>11. ASSUME disp.at \notin {"off", "exited"}, disp'.at # "off",
              UNCHANGED <<queue, flags, loop, stop, drain>>,
              callbacks = <<>> => callbacks' = <<>>
       PROVE  Ending'
  BY <1>11 DEF QueuesEmpty
<1>12. CASE DispatchStep
  <2>1. disp.at \notin {"off", "exited"} /\ UNCHANGED <<queue, flags, loop, stop, drain>>
    BY <1>12 DEF DispatchStep, DispatchTakes, DispatchSends, DispatchWaits, DispatchEnds,
                 DispatchFlushes, callers
  <2>2. disp'.at # "off"
    BY <1>12 DEF DispatchStep, DispatchTakes, DispatchSends, DispatchWaits, DispatchEnds,
                 DispatchFlushes, DispatcherOK
  <2>3. callbacks = <<>> => callbacks' = <<>>
    BY <1>12 DEF DispatchStep, DispatchTakes, DispatchSends, DispatchWaits, DispatchEnds,
                 DispatchFlushes, DeliverQueued
  <2> QED
    BY <1>11, <2>1, <2>2, <2>3
<1>13. CASE Close
  BY <1>13 DEF Close, Flags, callers, QueuesEmpty
\* Stop and Drain
<1>14. CASE StopCloses
  BY <1>14 DEF StopCloses, Flags
<1>15. ASSUME NEW p \in Priorities, StopRejects(p) PROVE Ending'
  BY <1>15 DEF StopRejects, callers
<1>16. CASE StopCancels
  BY <1>16 DEF StopCancels, Flags, QueuesEmpty
<1>17. CASE StopFlushes
  BY <1>17 DEF StopFlushes, DeliverQueued, QueuesEmpty, callers
<1>18. CASE StopReturns \/ StopGivesUp
  BY <1>18 DEF StopReturns, StopGivesUp, QueuesEmpty
<1>19. CASE DrainFlags \/ DrainWakes
  BY <1>19 DEF DrainFlags, DrainWakes, Flags, QueuesEmpty
<1>20. CASE DrainReturns \/ DrainGivesUp
  BY <1>20 DEF DrainReturns, DrainGivesUp, QueuesEmpty
<1> QED
  BY <1>1, <1>2, <1>3, <1>4, <1>5, <1>6, <1>7, <1>9, <1>10, <1>12, <1>13, <1>14, <1>15, <1>16,
     <1>17, <1>18, <1>19, <1>20
  DEF EventLoopNext, LoopStep, StopStep, DrainStep

\* Without Stop and with a live context no step skips an event.
LEMMA NoneSkippedNext ==
  ASSUME LoopShape, HeldOK, Ordered, Ending, NoneSkipped, EventLoopNext
  PROVE  NoneSkipped'
<1>1. CASE Quiet
  <2>1. UNCHANGED <<queue, loop, accepted, begun>>
    BY <1>1, QuietLeaves
  <2>2. expired \subseteq expired' /\ (stop' = "idle" => stop = "idle")
        /\ (~ flags'.orphaned => ~ flags.orphaned)
    BY <1>1 DEF Quiet, DrainStep, DispatchStep, callers, LoopShape, Flags,
       ParentCancels, StopCloses, StopCancels, StopFlushes, StopReturns, StopGivesUp,
       DrainFlags, DrainWakes, DrainReturns, DrainGivesUp, Close, Expire, ReaderArrives,
       DispatchTakes, DispatchSends, DispatchWaits, DispatchEnds, DispatchFlushes
  <2>3. \A x \in Events : (Waiting(x)' <=> Waiting(x))
    BY <2>1 DEF Waiting, Queued
  <2> QED
    BY <2>1, <2>2, <2>3 DEF NoneSkipped
<1>2. ASSUME NEW e \in Events, Submit(e) \/ SubmitBlocking(e) \/ GiveUpBlocked(e)
      PROVE  NoneSkipped'
  <2>1. UNCHANGED <<flags, loop, stop, expired, begun>>
    BY <1>2, SubmitEnds DEF LoopShape
  <2>2. CASE Enqueue(e)
    <3>1. \A x \in Events : Contains(accepted', x) <=> Contains(accepted, x) \/ x = e
      BY <2>2, AppendOccurs DEF Enqueue, LoopShape
    <3>2. \A p \in Priorities : \A x \in Events :
            Contains(queue'[p], x) <=> Contains(queue[p], x) \/ (p = Prio[e] /\ x = e)
      BY <2>2, EnqueueOccurs DEF LoopShape
    <3>3. \A x \in Events : (Waiting(x)' <=> Waiting(x) \/ x = e)
      BY <2>1, <3>2, EventsAssumption DEF Waiting, Queued
    <3> QED
      BY <2>1, <3>1, <3>3 DEF NoneSkipped
  <2>3. CASE UNCHANGED <<queue, accepted>>
    <3>1. \A x \in Events : (Waiting(x)' <=> Waiting(x))
      BY <2>1, <2>3 DEF Waiting, Queued
    <3> QED
      BY <2>1, <2>3, <3>1 DEF NoneSkipped
  <2> QED
    BY <1>2, <2>2, <2>3, SubmitEnds DEF LoopShape
<1>3. ASSUME NEW p \in Priorities, StopRejects(p) PROVE NoneSkipped'
  BY <1>3 DEF StopRejects, callers, NoneSkipped
<1>4. CASE Onward
  <2>1. UNCHANGED <<accepted, begun>>
    BY <1>4, OnwardLeaves
  <2>2. \A x \in Events : Waiting(x) => \/ Waiting(x)'
                                        \/ x = loop.cur /\ Begin /\ ContextDone(x)
    BY <1>4, OnwardLeaves
  <2>3. UNCHANGED <<stop, expired>> /\ (~ flags'.orphaned => ~ flags.orphaned)
    BY <1>4 DEF Onward, Start, LoopTop, SelectDone, SelectWake, Finish, AnswerNow, AnswerLater,
                AnswerEnqueued, AnswerNobody, LoopBurst, LoopLow, Begin, callers, LoopShape, Flags
  <2>4. ASSUME NEW x \in Events, Begin, ContextDone(x), stop = "idle", ~ flags.orphaned
        PROVE  x \in expired
    BY <2>4 DEF ContextDone, Ending, Begin
  <2> QED
    BY <2>1, <2>2, <2>3, <2>4 DEF NoneSkipped
<1>5. ASSUME NEW p \in Priorities, Taking(p) PROVE NoneSkipped'
  <2>1. \A x \in Events : (Waiting(x)' <=> Waiting(x))
    BY <1>5, TakingLeaves
  <2> QED
    BY <1>5, <2>1 DEF Taking, Others, NoneSkipped
<1>6. CASE Beginning
  <2> DEFINE e == loop.cur
  <2>1. e \in Events
    BY <1>6 DEF Beginning, LoopShape, LoopRecordOK
  <2>2. \A x \in Events : Waiting(x) => Waiting(x)' \/ x = e
    BY <1>6 DEF Beginning, Waiting, Queued
  <2>3. begun' = Append(begun, e) /\ begun \in Seq(Events)
    BY <1>6 DEF Beginning, LoopShape
  <2> HIDE DEF e
  <2>4. \A x \in Events : Contains(begun', x) <=> Contains(begun, x) \/ x = e
    BY <2>1, <2>3, AppendOccurs
  <2> QED
    BY <1>6, <2>2, <2>4 DEF Beginning, Others, NoneSkipped
<1>7. CASE Recycling
  <2> DEFINE e == loop.cur
  <2>1. e \in Events /\ e # None
    BY <1>7 DEF Recycling, LoopShape, LoopRecordOK
  <2>2. ~ Before(accepted, e, e) /\ ~ Before(begun, e, e)
    BY <2>1, OnePlace DEF Ordered, LoopShape
  <2>3. accepted' = Erase(accepted, e) /\ begun' = Erase(begun, e)
    BY <1>7 DEF Recycling, Recycle
  <2>4. \A x \in Events : Waiting(x) => Waiting(x)'
    BY <1>7 DEF Recycling, Waiting, Queued
  <2> HIDE DEF e
  <2>5. \A x \in Events : /\ Contains(accepted', x) <=> Contains(accepted, x) /\ x # e
                          /\ Contains(begun', x) <=> Contains(begun, x) /\ x # e
    BY <2>2, <2>3, EraseOccurs DEF LoopShape
  <2> QED
    BY <1>7, <2>4, <2>5 DEF Recycling, Others, NoneSkipped
<1>8. CASE LoopStep \/ Finish \/ Start
  BY <1>4, <1>5, <1>6, <1>7, <1>8, LoopMoves
<1> QED
  BY <1>1, <1>2, <1>3, <1>8 DEF EventLoopNext, StopStep, Quiet

-----------------------------------------------------------------------------
(* The theorems. *)

\* New establishes the invariant.
LEMMA LoopInvInit ==
  ASSUME EventLoopInit
  PROVE  LoopInv
<1>1. LoopShape
  BY ShapeInit
<1>2. /\ accepted = <<>> /\ begun = <<>> /\ rejected = {} /\ callbacks = <<>> /\ dropped = {}
      /\ QueuesEmpty /\ loop.at = "off" /\ loop.cur = None /\ loop.held = None
      /\ disp.at = "off" /\ disp.item = None /\ stop = "idle" /\ drain = "idle"
      /\ \A f \in Flags : ~ flags[f]
      /\ \A e \in Events : answers[e] = <<>> /\ call[e] # "accepted"
  BY DEF EventLoopInit, QueuesEmpty, Rest
<1>3. \A x, y : ~ Contains(<<>>, x) /\ ~ Before(<<>>, x, y)
  BY NothingInEmpty
<1>4. \A x \in Events : ~ Queued(x) /\ ~ InHand(x) /\ ~ Waiting(x)
  BY <1>2, <1>3 DEF Queued, InHand, Waiting, QueuesEmpty
<1>5. HeldOK
  BY <1>2 DEF HeldOK
<1>6. Ordered
  BY <1>2, <1>3, <1>4, EventsAssumption DEF Ordered, QueuesEmpty
<1>7. OneResult
  <2>1. \A x \in Events : ~ Enqueued(x) /\ ~ Dispatched(x) /\ ~ Settled(x)
    BY <1>2 DEF Enqueued, Dispatched, Settled
  <2>2. RepliedOnce
    BY <1>2 DEF RepliedOnce
  <2> QED
    BY <1>2, <1>3, <1>4, <2>1, <2>2 DEF OneResult, Ahead
<1>8. Ending
  BY <1>2 DEF Ending, Flags
<1>9. NoneSkipped
  BY <1>2, <1>3 DEF NoneSkipped
<1> QED
  BY <1>1, <1>5, <1>6, <1>7, <1>8, <1>9 DEF LoopInv

\* Every step of the event loop keeps the invariant.
LEMMA LoopInvNext ==
  ASSUME LoopInv, EventLoopNext
  PROVE  LoopInv'
BY ShapeKept, HeldKept, OrderedNext, OneResultNext, EndingNext, NoneSkippedNext DEF LoopInv

\* So does a step of something else.
LEMMA LoopInvStutters ==
  ASSUME LoopInv, UNCHANGED loopVars
  PROVE  LoopInv'
BY DEF LoopInv, loopVars, LoopShape, QueuesOK, CallbacksOK, LoopRecordOK, DispatcherOK, CallsOK,
       RepliesOK, HeldOK, Stage, Ordered, Queued, InHand, Waiting, OneResult, RepliedOnce, Ahead,
       Enqueued, Dispatched, Settled, Ending, QueuesEmpty, NoneSkipped

\* The order in the queues is the order in which events are begun.
LEMMA OrderedIsFifo ==
  ASSUME LoopInv
  PROVE  Fifo
<1>1. SUFFICES ASSUME NEW i \in 1 .. Len(begun), NEW j \in 1 .. Len(begun), i < j,
                      Prio[begun[i]] = Prio[begun[j]]
               PROVE  Before(accepted, begun[i], begun[j])
  BY DEF Fifo, Before
<1>2. begun[i] \in Events /\ begun[j] \in Events /\ Before(begun, begun[i], begun[j])
  BY <1>1 DEF LoopInv, LoopShape, Before
<1> QED
  BY <1>1, <1>2 DEF LoopInv, Ordered

\* One place for every event and every result is one outcome.
LEMMA OnePlaceIsOneOutcome ==
  ASSUME LoopInv
  PROVE  OutcomeOnce
<1>1. \A i \in 1 .. Len(begun) : begun[i] \in Events /\ Contains(begun, begun[i])
  BY DEF LoopInv, LoopShape, Contains
<1>2. ASSUME NEW i \in 1 .. Len(begun), NEW j \in 1 .. Len(begun), begun[i] = begun[j], i < j
      PROVE  FALSE
  <2>1. Before(begun, begun[i], begun[i])
    BY <1>2 DEF Before
  <2> QED
    BY <1>1, <2>1, OnePlace DEF LoopInv, LoopShape
<1>3. \A i, j \in 1 .. Len(begun) : begun[i] = begun[j] => i = j
  <2>1. SUFFICES ASSUME NEW i \in 1 .. Len(begun), NEW j \in 1 .. Len(begun),
                        begun[i] = begun[j], i # j
                 PROVE  FALSE
    OBVIOUS
  <2>2. i < j \/ j < i
    BY <2>1
  <2> QED
    BY <1>2, <2>1, <2>2
<1>4. \A i \in 1 .. Len(begun) : begun[i] \notin rejected
  BY <1>1 DEF LoopInv, Ordered
<1>5. /\ \A e \in Events : Len(answers[e]) <= 1
      /\ \A e \in dropped : answers[e] = <<>>
  BY DEF LoopInv, OneResult, RepliedOnce, LoopShape, RepliesOK
<1> QED
  BY <1>3, <1>4, <1>5 DEF OutcomeOnce

\* What Stop and Drain left behind.
LEMMA EndingSettles ==
  ASSUME LoopInv
  PROVE  Settles
<1> USE DEF LoopInv
<1>1. \A x \in Events : QueuesEmpty => ~ Queued(x)
  BY NothingInEmpty DEF QueuesEmpty, Queued
<1>2. ASSUME flags.done PROVE \A x \in Events : ~ Dispatched(x) /\ (loop.held # x \/ x = None)
                                              /\ loop.cur = None
  BY <1>2 DEF Ending, Dispatched, LoopShape, DispatcherOK, LoopRecordOK, HeldOK, Stage
<1>3. ASSUME flags.done, QueuesEmpty, callbacks = <<>>
      PROVE  \A x \in Events : /\ ~ Waiting(x)
                               /\ x \in Answered /\ call[x] = "accepted" => Settled(x)
  <2>1. \A x \in Events : ~ Enqueued(x) /\ ~ Queued(x) /\ ~ Dispatched(x) /\ ~ InHand(x)
    BY <1>1, <1>2, <1>3 DEF Enqueued, InHand
  <2>2. \A x \in Events : ~ Waiting(x)
    BY <1>2, <1>3, <2>1, EventsAssumption DEF Waiting, Ending
  <2> QED
    BY <2>1, <2>2 DEF OneResult, Ordered, Ahead
<1>4. StopSettles
  <2>1. SUFFICES ASSUME stop = "nil"
                 PROVE  /\ loop.at = "exited" /\ disp.at = "exited"
                        /\ \A p \in Priorities : queue[p] = <<>>
                        /\ \A e \in Answered :
                              call[e] = "accepted" => answers[e] # <<>> \/ e \in dropped
    BY DEF StopSettles
  <2>2. flags.done /\ callbacks = <<>> /\ QueuesEmpty /\ loop.at = "exited" /\ disp.at = "exited"
    BY <2>1 DEF Ending
  <2> QED
    BY <1>3, <2>2, EventsAssumption DEF QueuesEmpty, Settled
<1>5. DrainSettles
  <2>1. SUFFICES ASSUME drain = "nil", stop = "idle", ~ flags.orphaned
                 PROVE  \A e \in Events : call[e] = "accepted" =>
                            /\ Contains(begun, e) \/ e \in expired
                            /\ e \in Answered => answers[e] # <<>> \/ e \in dropped
    BY DEF DrainSettles
  <2>2. flags.done /\ callbacks = <<>> /\ QueuesEmpty
    BY <2>1 DEF Ending
  <2>3. \A x \in Events : /\ ~ Waiting(x)
                          /\ x \in Answered /\ call[x] = "accepted" => Settled(x)
    BY <1>3, <2>2
  <2> QED
    BY <2>1, <2>3 DEF NoneSkipped, Ordered, Settled
<1> QED
  BY <1>4, <1>5 DEF Settles

\* The invariant fixes the shape of the state; drops are of answered events.
LEMMA ShapeIsType ==
  ASSUME LoopInv
  PROVE  LoopTypeOK
<1> USE DEF LoopInv
<1>1. \A p \in Priorities : /\ queue[p] \in Seq(Events)
                            /\ Len(queue[p]) <= QueueSize
                            /\ \A i \in 1 .. Len(queue[p]) : Prio[queue[p][i]] = p
  BY DEF LoopShape, QueuesOK
<1>2. dropped \subseteq Answered
  BY DEF LoopShape, RepliesOK, OneResult, Settled
<1>3. /\ loop.at \in LoopPlaces
      /\ loop.cur \in Events \union {None} /\ loop.held \in Events \union {None}
      /\ loop.at \in {"begin", "run", "answer", "enqueue"} <=> loop.cur # None
  BY DEF LoopShape, LoopRecordOK
<1>4. /\ disp.at \in {"off", "select", "send", "wait", "flush", "exited"}
      /\ disp.at \in {"send", "wait"} <=> disp.item # None
  BY DEF LoopShape, DispatcherOK
<1> QED
  BY <1>1, <1>2, <1>3, <1>4 DEF LoopTypeOK, LoopShape, CallbacksOK, CallsOK, LoopPlaces

\* LoopInv is an invariant of the event loop.
THEOREM LoopInvHolds == EventLoopSpec => []LoopInv
<1>1. EventLoopInit => LoopInv
  BY LoopInvInit
<1>2. LoopInv /\ [EventLoopNext]_loopVars => LoopInv'
  BY LoopInvNext, LoopInvStutters
<1> QED
  BY <1>1, <1>2, PTL DEF EventLoopSpec

\* The state of the event loop keeps its shape, and no queue grows beyond its
\* channel, for any number of events and any sizes.
THEOREM LoopTypes == EventLoopSpec => []LoopTypeOK
<1>1. LoopInv => LoopTypeOK
  BY ShapeIsType
<1> QED
  BY <1>1, LoopInvHolds, PTL

\* Events of one priority reach the processor in the order of their submission,
\* whatever select held back (runPriorityDriven).
THEOREM ProcessedInOrder == EventLoopSpec => []Fifo
<1>1. LoopInv => Fifo
  BY OrderedIsFifo
<1> QED
  BY <1>1, LoopInvHolds, PTL

\* No event is processed twice or after Stop rejected it, and no callback channel
\* gets two results, or a result and a counted drop (deliverCallback, rejectQueued).
THEOREM OneOutcome == EventLoopSpec => []OutcomeOnce
<1>1. LoopInv => OutcomeOnce
  BY OnePlaceIsOneOutcome
<1> QED
  BY <1>1, LoopInvHolds, PTL

\* Whoever waited for Stop or Drain may rely on what it returned: nothing runs,
\* nothing is queued, and every accepted event is accounted for.
THEOREM StopAndDrainSettle == EventLoopSpec => []Settles
<1>1. LoopInv => Settles
  BY EndingSettles
<1> QED
  BY <1>1, LoopInvHolds, PTL

-----------------------------------------------------------------------------
(* The session on its event loop *)

ConnPlaces == {"accepted", "reading", "calling", "closing", "cleaning", "stopping",
               "fallback", "closed"}

SessionShape ==
    /\ active \in BOOLEAN /\ completed \in BOOLEAN
    /\ selected \in Characters \union {NoCharacter}
    /\ generation \in 1 .. (MaxGeneration + 2)
    /\ ~ completed => generation <= MaxGeneration + 1
    /\ armed \in [Timers -> [character : Characters \union {NoCharacter},
                             generation : 0 .. (MaxGeneration + 2)]]
    /\ conn \in [at : ConnPlaces, on : Events \union {None}]
    /\ cleanups \in Nat

\* The task is the event that the loop has in hand.
TaskInHand == task # None => loop.at = "run" /\ loop.cur = task

\* The connection goroutine has come to its shutdown.
Closing == conn.at \in {"cleaning", "stopping", "fallback", "closed"}

\* The shutdown calls the loop first, then stops it; events are taken before.
ConnectionOK ==
    /\ conn.at = "calling" => conn.on \in Packets
    /\ conn.at = "cleaning" => conn.on = Cleanup
    /\ call[Cleanup] = "accepted" => Closing
    /\ active => conn.at \in {"reading", "calling", "closing"}
    /\ stop # "idle" => conn.at \in {"stopping", "fallback", "closed"}
    /\ conn.at = "fallback" => stop = "nil"
    /\ conn.at = "closed" => stop \in {"nil", "ctx"}

\* The loop has begun the cleanup.
CleanupBegun == Contains(begun, Cleanup)

\* The connection goroutine cleans up, or did, beside a stopped loop.
CleanedHere == conn.at = "fallback" \/ (conn.at = "closed" /\ stop = "nil" /\ ~ CleanupBegun)

\* One cleanup on the loop or one beside it.
CleanupOnce ==
    /\ cleanups = IF CleanupBegun \/ CleanedHere THEN 1 ELSE 0
    /\ CleanedHere => ~ CleanupBegun
    /\ CleanupBegun => completed \/ task = Cleanup
    /\ task = Cleanup => CleanupBegun /\ ~ completed
    /\ conn.at = "fallback" => ~ completed
    /\ completed => CleanupBegun \/ (conn.at = "closed" /\ stop = "nil")
    /\ conn.at = "closed" /\ stop = "nil" => completed

SessionInv ==
    /\ LoopInv
    /\ SessionShape /\ TaskInHand /\ ConnectionOK /\ CleanupOnce /\ TimerOnItsCharacter

-----------------------------------------------------------------------------
(* What the event loop gives the session. *)

\* Of the events of a session none recurs and every one is medium.
LEMMA SessionEvents ==
    /\ Packets \subseteq Events /\ Timers \subseteq Events /\ Fanouts \subseteq Events
    /\ Cleanup \in Events /\ Cleanup \notin Packets \union Timers \union Fanouts
    /\ Timers \intersect Packets = {} /\ None \notin Events /\ None # Cleanup
BY SessionAssumption, EventsAssumption

\* When Stop has returned nil the loop has ended.
LEMMA StoppedLoop ==
  ASSUME LoopInv, stop = "nil"
  PROVE  loop.at = "exited"
BY DEF LoopInv, Ending

\* The loop begins the cleanup only after it was submitted.
LEMMA BegunWasCalled ==
  ASSUME LoopInv, CleanupBegun
  PROVE  call[Cleanup] = "accepted"
BY SessionEvents DEF LoopInv, Ordered, CleanupBegun

\* The end of the service's context keeps the invariant of the loop.
LEMMA ServiceEndsLoop ==
  ASSUME LoopInv, ServiceEnds
  PROVE  LoopInv'
<1>1. /\ UNCHANGED <<queue, callbacks, loop, disp, stop, drain, call, accepted, begun, rejected,
                     answers, dropped>>
      /\ flags' = [flags EXCEPT !.cancelled = TRUE, !.orphaned = TRUE]
      /\ flags.started
  BY DEF ServiceEnds, history, replies
<1>2. /\ flags' \in [Flags -> BOOLEAN] /\ flags'.orphaned /\ flags'.cancelled
      /\ flags'.started /\ flags'.closed = flags.closed /\ flags'.done = flags.done
  BY <1>1 DEF LoopInv, LoopShape, Flags
<1>3. LoopShape'
  BY <1>1, <1>2 DEF LoopInv, LoopShape, QueuesOK, CallbacksOK, LoopRecordOK, DispatcherOK, CallsOK,
                    RepliesOK
<1>4. HeldOK' /\ Ordered'
  BY <1>1 DEF LoopInv, HeldOK, Stage, Ordered, Queued, InHand, Waiting
<1>5. OneResult'
  BY <1>1 DEF LoopInv, OneResult, RepliedOnce, Ahead, Queued, InHand, Enqueued, Dispatched, Settled
<1>6. Ending'
  BY <1>1, <1>2 DEF LoopInv, Ending, QueuesEmpty
<1>7. NoneSkipped'
  BY <1>2 DEF NoneSkipped
<1> QED
  BY <1>3, <1>4, <1>5, <1>6, <1>7 DEF LoopInv

\* Steps that work on the loop beside its tasks.
Beside ==
    \/ CallSubmits \/ stopGameSessionEvents
    \/ \E t \in Timers : TimerFires(t)
    \/ \E f \in Fanouts : FanoutCalls(f) \/ FanoutTimesOut(f)
    \/ ShutdownTimesOut \/ LoopRuns

\* They are steps of the loop that begin and end no task.
LEMMA BesideIsLoop ==
  ASSUME LoopInv, ConnectionOK, Beside
  PROVE  /\ EventLoopNext
         /\ UNCHANGED <<session, work, begun>>
         /\ loop.at = "run" => UNCHANGED loop
         /\ stop' = stop \/ conn.at = "stopping"
         /\ conn.at # "cleaning" => call'[Cleanup] = call[Cleanup]
<1>1. ASSUME NEW e \in Events, SubmitBlocking(e) \/ GiveUpBlocked(e)
      PROVE  /\ EventLoopNext /\ UNCHANGED <<begun, loop, stop>>
             /\ e # Cleanup => call'[Cleanup] = call[Cleanup]
  <2>1. EventLoopNext
    BY <1>1 DEF EventLoopNext
  <2>2. UNCHANGED <<begun, loop, stop>>
    BY <1>1 DEF SubmitBlocking, GiveUpBlocked
  <2>3. \/ call' = [call EXCEPT ![e] = "accepted"] \/ call' = [call EXCEPT ![e] = "refused"]
        \/ call' = [call EXCEPT ![e] = "blocked"]
    BY <1>1 DEF SubmitBlocking, GiveUpBlocked, Enqueue, Refuse
  <2> QED
    BY <2>1, <2>2, <2>3, SessionEvents DEF LoopInv, LoopShape, CallsOK
<1>2. CASE CallSubmits
  BY <1>1, <1>2, SessionEvents DEF CallSubmits, ConnectionOK
<1>3. CASE stopGameSessionEvents
  <2>1. StopStep /\ conn.at = "stopping"
    BY <1>3 DEF stopGameSessionEvents, StopStep, StopTimesOut
  <2>2. UNCHANGED <<begun, loop, call>>
    BY <2>1 DEF StopStep, StopCloses, StopRejects, StopCancels, StopFlushes, StopReturns,
                StopGivesUp, callers, history
  <2> QED
    BY <1>3, <2>1, <2>2 DEF EventLoopNext, stopGameSessionEvents
<1>4. ASSUME NEW t \in Timers, TimerFires(t)
      PROVE  /\ EventLoopNext /\ UNCHANGED <<session, work, begun, loop, stop>>
             /\ call'[Cleanup] = call[Cleanup]
  BY <1>1, <1>4, SessionEvents DEF TimerFires
<1>5. ASSUME NEW f \in Fanouts, FanoutCalls(f)
      PROVE  /\ EventLoopNext /\ UNCHANGED <<session, work, begun, loop, stop>>
             /\ call'[Cleanup] = call[Cleanup]
  BY <1>1, <1>5, SessionEvents DEF FanoutCalls
<1>6. ASSUME NEW e \in Events, Expire(e), UNCHANGED <<session, work>>
      PROVE  /\ EventLoopNext /\ UNCHANGED <<session, work, begun, loop, stop>>
             /\ call'[Cleanup] = call[Cleanup]
  BY <1>6 DEF EventLoopNext, Expire, history
<1>7. CASE LoopRuns
  <2>1. EventLoopNext /\ UNCHANGED <<session, work>>
    BY <1>7 DEF LoopRuns, EventLoopNext
  <2>2. CASE DispatchStep \/ Close
    BY <2>1, <2>2 DEF DispatchStep, DispatchTakes, DispatchSends, DispatchWaits, DispatchEnds,
                      DispatchFlushes, Close, callers, history
  <2>3. CASE LoopStep /\ loop.at # "begin"
    <3>1. UNCHANGED <<begun, stop, call>>
      BY <2>3, SessionAssumption
      DEF LoopStep, LoopTop, LoopLow, SelectDone, SelectWake, SelectHigh, Begin, LoopBurst,
          SelectLower, AnswerNow, AnswerNobody, AnswerLater, AnswerEnqueued, Recycle, callers,
          history
    <3>2. loop.at # "run"
      BY <2>3 DEF LoopStep, LoopTop, LoopLow, SelectDone, SelectWake, SelectHigh, Begin, LoopBurst,
          SelectLower, AnswerNow, AnswerNobody, AnswerLater, AnswerEnqueued
    <3> QED
      BY <2>1, <3>1, <3>2
  <2> QED
    BY <1>7, <2>2, <2>3 DEF LoopRuns
<1> QED
  BY <1>2, <1>3, <1>4, <1>5, <1>6, <1>7, SessionEvents
  DEF Beside, FanoutTimesOut, ShutdownTimesOut

-----------------------------------------------------------------------------
(* The invariant of the session. *)

\* A new session has it.
LEMMA SessionInvInit ==
  ASSUME Init
  PROVE  SessionInv
<1>1. LoopInv
  BY LoopInvInit DEF Init
<1>2. stop = "idle" /\ begun = <<>> /\ call[Cleanup] # "accepted"
  BY SessionEvents DEF Init, EventLoopInit
<1>3. ~ CleanupBegun
  BY <1>2, NothingInEmpty DEF CleanupBegun
<1>4. SessionShape
  <2>1. generation = 1 /\ 1 \in 1 .. (MaxGeneration + 2) /\ 1 <= MaxGeneration + 1
        /\ 0 \in 0 .. (MaxGeneration + 2)
    BY SessionAssumption DEF Init
  <2>2. armed \in [Timers -> [character : Characters \union {NoCharacter},
                              generation : 0 .. (MaxGeneration + 2)]]
    BY <2>1 DEF Init, Unarmed
  <2>3. conn \in [at : ConnPlaces, on : Events \union {None}]
    BY DEF Init, ConnPlaces
  <2> QED
    BY <2>1, <2>2, <2>3 DEF Init, SessionShape
<1>5. ConnectionOK
  BY <1>2 DEF Init, ConnectionOK
<1>6. CleanupOnce
  BY <1>3, SessionEvents DEF Init, CleanupOnce, CleanedHere
<1>7. TaskInHand /\ TimerOnItsCharacter
  BY SessionEvents DEF Init, TaskInHand, TimerOnItsCharacter
<1> QED
  BY <1>1, <1>4, <1>5, <1>6, <1>7 DEF SessionInv

\* Work on the loop beside its tasks leaves the session alone; it can submit the
\* cleanup or stop the loop only when the shutdown has come to it.
LEMMA BesideKeeps ==
  ASSUME SessionInv, Beside
  PROVE  SessionInv'
<1>1. /\ EventLoopNext
      /\ UNCHANGED <<session, work, begun>>
      /\ loop.at = "run" => UNCHANGED loop
      /\ stop' = stop \/ conn.at = "stopping"
      /\ conn.at # "cleaning" => call'[Cleanup] = call[Cleanup]
  BY BesideIsLoop DEF SessionInv
<1>2. LoopInv'
  BY <1>1, LoopInvNext DEF SessionInv
<1>3. UNCHANGED <<active, selected, generation, armed, task, conn, cleanups, completed>>
  BY <1>1 DEF session, work
<1>4. SessionShape'
  BY <1>3 DEF SessionInv, SessionShape
<1>5. TaskInHand'
  BY <1>1, <1>3 DEF SessionInv, TaskInHand
<1>6. ConnectionOK'
  BY <1>1, <1>3 DEF SessionInv, ConnectionOK, Closing
<1>7. CleanupOnce'
  <2>1. CleanupBegun' <=> CleanupBegun
    BY <1>1 DEF CleanupBegun
  <2>2. conn.at \in {"fallback", "closed"} => stop' = stop
    BY <1>1
  <2>3. CleanedHere' <=> CleanedHere
    BY <1>3, <2>1, <2>2 DEF CleanedHere
  <2> QED
    BY <1>3, <2>1, <2>2, <2>3 DEF SessionInv, CleanupOnce
<1>8. TimerOnItsCharacter'
  BY <1>3 DEF SessionInv, TimerOnItsCharacter
<1> QED
  BY <1>2, <1>4, <1>5, <1>6, <1>7, <1>8 DEF SessionInv

\* The steps of the connection goroutine that do not touch the loop.
LEMMA ConnectionKeeps ==
  ASSUME SessionInv,
         \/ \E e \in Packets : ReadPacket(e)
         \/ ReadFails \/ PacketReturns \/ beginGameSessionClose \/ CleanupReturns
         \/ ShutdownDecides \/ FallbackEnds
  PROVE  SessionInv'
<1> USE DEF SessionInv
<1>1. UNCHANGED loopVars
  BY DEF ReadPacket, ReadFails, PacketReturns, beginGameSessionClose, CleanupReturns,
         ShutdownDecides, FallbackEnds
<1>2. LoopInv' /\ UNCHANGED <<begun, stop, call, loop>> /\ (CleanupBegun' <=> CleanupBegun)
  BY <1>1, LoopInvStutters DEF loopVars, CleanupBegun
<1>3. CASE ReadFails \/ PacketReturns \/ \E e \in Packets : ReadPacket(e)
  <2>1. UNCHANGED <<active, selected, generation, armed, task, cleanups, completed>>
    BY <1>3 DEF ReadPacket, ReadFails, PacketReturns, session
  <2>2. /\ conn.at \in {"reading", "calling"}
        /\ conn' \in [at : {"reading", "calling", "closing"}, on : Packets \union {None}]
        /\ conn'.at = "calling" => conn'.on \in Packets
    BY <1>3 DEF ReadPacket, ReadFails, PacketReturns
  <2>3. SessionShape'
    BY <2>1, <2>2, SessionEvents DEF SessionShape, ConnPlaces
  <2>4. ConnectionOK'
    BY <1>2, <2>1, <2>2 DEF ConnectionOK, Closing
  <2>5. CleanupOnce'
    BY <1>2, <2>1, <2>2 DEF CleanupOnce, CleanedHere
  <2> QED
    BY <1>2, <2>1, <2>3, <2>4, <2>5 DEF TaskInHand, TimerOnItsCharacter
<1>4. CASE beginGameSessionClose \/ CleanupReturns
  <2>1. /\ UNCHANGED <<selected, generation, armed, task, cleanups, completed>>
        /\ active' \in {active, FALSE}
    BY <1>4 DEF beginGameSessionClose, CleanupReturns, session
  <2>2. \/ /\ conn.at = "closing" /\ ~ active'
           /\ conn' = [at |-> "cleaning", on |-> Cleanup]
        \/ /\ conn.at = "cleaning" /\ UNCHANGED active
           /\ conn'.at = "stopping" /\ conn' \in [at : ConnPlaces, on : Events \union {None}]
    BY <1>4 DEF beginGameSessionClose, CleanupReturns, session, SessionShape, ConnPlaces
  <2>3. SessionShape'
    <3>1. conn' \in [at : ConnPlaces, on : Events \union {None}]
      BY <2>2, SessionEvents DEF ConnPlaces
    <3> QED
      BY <2>1, <3>1 DEF SessionShape
  <2>4. ConnectionOK'
    BY <1>2, <2>1, <2>2 DEF ConnectionOK, Closing
  <2>5. CleanupOnce'
    BY <1>2, <2>1, <2>2 DEF CleanupOnce, CleanedHere
  <2> QED
    BY <1>2, <2>1, <2>3, <2>4, <2>5 DEF TaskInHand, TimerOnItsCharacter
<1>5. CASE ShutdownDecides
  <2>1. /\ UNCHANGED <<active, selected, generation, armed, task, completed>>
        /\ conn.at = "stopping" /\ stop \in {"nil", "ctx"} /\ ~ active
    BY <1>5 DEF ShutdownDecides, session, ConnectionOK
  <2>2. \/ /\ CleansHere /\ conn'.at = "fallback" /\ cleanups' = cleanups + 1
        \/ /\ ~ CleansHere /\ conn'.at = "closed" /\ UNCHANGED cleanups
    BY <1>5 DEF ShutdownDecides, SessionShape
  <2>3. SessionShape'
    <3>1. conn' \in [at : ConnPlaces, on : Events \union {None}]
      BY <1>5 DEF ShutdownDecides, SessionShape, ConnPlaces
    <3>2. cleanups' \in Nat
      BY <2>2 DEF SessionShape
    <3> QED
      BY <2>1, <3>1, <3>2 DEF SessionShape
  <2>4. ConnectionOK'
    BY <1>2, <2>1, <2>2 DEF ConnectionOK, Closing, CleansHere
  <2>5. CleanupOnce'
    <3>1. stop = "nil" => task = None
      BY StoppedLoop DEF TaskInHand
    <3>2. ~ CleanedHere
      BY <2>1 DEF CleanedHere
    <3>3. CASE CleansHere /\ conn'.at = "fallback" /\ cleanups' = cleanups + 1
      <4>1. ~ CleanupBegun /\ cleanups = 0 /\ ~ completed
        BY <3>1, <3>2, <3>3, SessionEvents DEF CleansHere, CleanupOnce
      <4> QED
        BY <1>2, <2>1, <3>1, <3>3, <4>1, SessionEvents DEF CleanupOnce, CleanedHere, CleansHere
    <3>4. CASE ~ CleansHere /\ conn'.at = "closed" /\ UNCHANGED cleanups
      BY <1>2, <2>1, <3>2, <3>4 DEF CleanupOnce, CleanedHere, CleansHere
    <3> QED
      BY <2>2, <3>3, <3>4
  <2> QED
    BY <1>2, <2>1, <2>3, <2>4, <2>5 DEF TaskInHand, TimerOnItsCharacter
<1>6. CASE FallbackEnds
  <2>1. /\ UNCHANGED <<active, selected, armed, task, cleanups>>
        /\ conn.at = "fallback" /\ conn'.at = "closed" /\ completed' = TRUE
        /\ conn' \in [at : ConnPlaces, on : Events \union {None}]
        /\ generation' \in {generation, generation + 1}
    BY <1>6 DEF FallbackEnds, Unbind, SessionShape, ConnPlaces
  <2>2. stop = "nil" /\ task = None /\ ~ completed /\ ~ active
    BY <2>1, StoppedLoop DEF ConnectionOK, TaskInHand, CleanupOnce
  <2>3. SessionShape'
    BY <2>1, <2>2, SessionAssumption DEF SessionShape
  <2>4. ConnectionOK'
    BY <1>2, <2>1, <2>2 DEF ConnectionOK, Closing
  <2>5. CleanupOnce'
    BY <1>2, <2>1, <2>2, SessionEvents DEF CleanupOnce, CleanedHere
  <2> QED
    BY <1>2, <2>1, <2>2, <2>3, <2>4, <2>5, SessionEvents DEF TaskInHand, TimerOnItsCharacter
<1> QED
  BY <1>3, <1>4, <1>5, <1>6

\* The first and the last step of a task.
LEMMA TaskKeeps ==
  ASSUME SessionInv, TaskBegins \/ TaskEnds
  PROVE  SessionInv'
<1> USE DEF SessionInv
<1>1. EventLoopNext
  BY DEF TaskBegins, TaskEnds, EventLoopNext, LoopStep
<1>2. LoopInv'
  BY <1>1, LoopInvNext
<1>3. CASE TaskBegins
  <2> DEFINE e == loop.cur
  <2>1. /\ loop.at = "begin" /\ e \in Events /\ e # None /\ task = None /\ stop # "nil"
        /\ InHand(e) /\ Waiting(e)
    <3>1. loop.at = "begin"
      BY <1>3 DEF TaskBegins, Begin
    <3>2. e \in Events /\ e # None
      BY <3>1 DEF LoopInv, LoopShape, LoopRecordOK
    <3> QED
      BY <3>1, <3>2, StoppedLoop DEF TaskInHand, InHand, Waiting
  <2>2. /\ UNCHANGED <<active, selected, generation, armed, conn, completed, stop, call>>
        /\ task' = IF loop'.at = "run" /\ (e \in Timers => Current(e)) THEN e ELSE None
        /\ cleanups' = IF task' = Cleanup THEN cleanups + 1 ELSE cleanups
    BY <1>3 DEF TaskBegins, Begin, session, callers
  <2>3. \/ loop'.at = "answer" /\ UNCHANGED begun
        \/ loop'.at = "run" /\ begun' = Append(begun, e) /\ loop'.cur = e
    BY <1>3 DEF TaskBegins, Begin, LoopInv, LoopShape, LoopRecordOK
  <2>4. begun \in Seq(Events) /\ ~ Contains(begun, e)
    BY <2>1, OnePlace DEF LoopInv, LoopShape
  <2>5. ~ CleanedHere /\ (e = Cleanup => call[Cleanup] = "accepted")
    BY <2>1, SessionEvents DEF CleanedHere, ConnectionOK, LoopInv, Ordered
  <2> HIDE DEF e
  <2>6. CleanupBegun' <=> CleanupBegun \/ (loop'.at = "run" /\ e = Cleanup)
    <3>1. CASE loop'.at = "answer" /\ UNCHANGED begun
      BY <3>1 DEF CleanupBegun
    <3>2. CASE loop'.at = "run" /\ begun' = Append(begun, e)
      <4>1. Contains(Append(begun, e), Cleanup) <=> Contains(begun, Cleanup) \/ Cleanup = e
        BY <2>1, <2>4, AppendOccurs
      <4> QED
        BY <3>2, <4>1 DEF CleanupBegun
    <3> QED
      BY <2>3, <3>1, <3>2
  <2>7. SessionShape'
    BY <2>2 DEF SessionShape
  <2>8. TaskInHand'
    BY <2>2, <2>3 DEF TaskInHand
  <2>9. ConnectionOK'
    BY <2>2 DEF ConnectionOK, Closing
  <2>10. ~ CleanedHere'
    BY <2>1, <2>2, <2>5 DEF CleanedHere, ConnectionOK
  <2>11. CleanupOnce'
    <3>1. CASE loop'.at = "run" /\ e = Cleanup
      <4>1. ~ CleanupBegun /\ ~ completed /\ cleanups = 0
        BY <2>1, <2>4, <2>5, <3>1 DEF CleanupBegun, CleanupOnce
      <4>2. task' = Cleanup /\ cleanups' = 1 /\ conn.at # "fallback"
        BY <2>2, <2>5, <3>1, <4>1, SessionEvents DEF CleanedHere
      <4> QED
        BY <2>1, <2>2, <2>6, <2>10, <3>1, <4>1, <4>2 DEF CleanupOnce
    <3>2. CASE ~ (loop'.at = "run" /\ e = Cleanup)
      <4>1. task' # Cleanup /\ UNCHANGED cleanups
        BY <2>2, <3>2, SessionEvents
      <4> QED
        BY <2>1, <2>2, <2>5, <2>6, <2>10, <3>2, <4>1, SessionEvents DEF CleanupOnce
    <3> QED
      BY <3>1, <3>2
  <2>12. TimerOnItsCharacter'
    <3>1. SUFFICES ASSUME task' \in Timers
                   PROVE  /\ armed[task'] = [character |-> selected, generation |-> generation]
                          /\ ~ completed
      BY <2>2 DEF TimerOnItsCharacter
    <3>2. task' = e /\ Current(e) /\ e \in Timers
      BY <2>2, <3>1, SessionEvents
    <3>3. armed[e] \in [character : Characters \union {NoCharacter},
                        generation : 0 .. (MaxGeneration + 2)]
      BY <3>2 DEF SessionShape
    <3>4. armed[e] = [character |-> selected, generation |-> generation]
      BY <3>2, <3>3 DEF Current
    <3>5. ~ completed
      <4>1. conn.at \in {"reading", "calling", "closing"}
        BY <3>2 DEF Current, ConnectionOK
      <4>2. completed => CleanupBegun
        BY <4>1 DEF CleanupOnce
      <4> QED
        BY <4>1, <4>2, BegunWasCalled DEF ConnectionOK, Closing
    <3> QED
      BY <3>2, <3>4, <3>5
  <2> QED
    BY <1>2, <2>7, <2>8, <2>9, <2>11, <2>12
<1>4. CASE TaskEnds
  <2>1. /\ loop.at = "run" /\ task' = None /\ UNCHANGED <<active, conn, cleanups, begun, stop, call>>
        /\ completed' = (completed \/ task = Cleanup)
    BY <1>4 DEF TaskEnds, Finish, callers, history
  <2>2. stop # "nil"
    BY <2>1, StoppedLoop
  <2>3. SessionShape'
    <3>1. /\ active' \in BOOLEAN /\ completed' \in BOOLEAN /\ cleanups' \in Nat
          /\ conn' \in [at : ConnPlaces, on : Events \union {None}]
      BY <2>1 DEF SessionShape
    <3>2. CASE task = Cleanup /\ Unbind
      <4>1. ~ completed /\ completed'
        BY <2>1, <3>2 DEF CleanupOnce
      <4>2. generation' \in {generation, generation + 1} /\ UNCHANGED <<selected, armed>>
        BY <3>2 DEF Unbind
      <4> QED
        BY <3>1, <4>1, <4>2, SessionAssumption DEF SessionShape
    <3>3. CASE task # Cleanup /\ UNCHANGED <<selected, generation, armed>>
      BY <2>1, <3>1, <3>3 DEF SessionShape
    <3>4. CASE /\ task \in Packets /\ generation < MaxGeneration
               /\ ReturnToSelect \/ \E c \in Characters : SelectCharacter(c)
      <4>1. /\ generation' \in {generation, generation + 1} /\ UNCHANGED armed
            /\ selected' \in Characters \union {NoCharacter}
        BY <3>4 DEF ReturnToSelect, SelectCharacter
      <4> QED
        BY <3>1, <3>4, <4>1, SessionAssumption DEF SessionShape
    <3>5. CASE /\ task \in Packets \union Fanouts \union Timers
               /\ \E t \in Timers : call[t] = "new" /\ Arm(t)
      <4>1. completed' = completed
        BY <2>1, <3>5, SessionEvents DEF SessionShape
      <4>2. PICK t \in Timers : Arm(t)
        BY <3>5
      <4>3. [character |-> selected, generation |-> generation]
              \in [character : Characters \union {NoCharacter},
                   generation : 0 .. (MaxGeneration + 2)]
        BY SessionAssumption DEF SessionShape
      <4>4. /\ armed' \in [Timers -> [character : Characters \union {NoCharacter},
                                      generation : 0 .. (MaxGeneration + 2)]]
            /\ UNCHANGED <<selected, generation>>
        BY <4>2, <4>3 DEF Arm, SessionShape
      <4> QED
        BY <3>1, <4>1, <4>4 DEF SessionShape
    <3> QED
      BY <1>4, <3>2, <3>3, <3>4, <3>5 DEF TaskEnds, TaskEffect
  <2>4. ConnectionOK'
    BY <2>1 DEF ConnectionOK, Closing
  <2>5. CleanupOnce'
    <3>1. CleanupBegun' <=> CleanupBegun
      BY <2>1 DEF CleanupBegun
    <3>2. ~ CleanedHere' /\ ~ CleanedHere /\ conn.at # "fallback"
      BY <2>1, <2>2, <3>1 DEF CleanedHere, ConnectionOK
    <3> QED
      BY <2>1, <2>2, <3>1, <3>2, SessionEvents DEF CleanupOnce, SessionShape
  <2> QED
    BY <1>2, <2>1, <2>3, <2>4, <2>5, SessionEvents DEF TaskInHand, TimerOnItsCharacter
<1> QED
  BY <1>3, <1>4

\* The connection goroutine starts the loop.
LEMMA StartKeeps ==
  ASSUME SessionInv, startGameSessionEvents
  PROVE  SessionInv'
<1> USE DEF SessionInv
<1>1. /\ EventLoopNext /\ conn.at = "accepted" /\ conn'.at = "reading"
      /\ conn' \in [at : ConnPlaces, on : Events \union {None}]
      /\ UNCHANGED <<selected, generation, armed, task, cleanups, completed, begun, stop, call>>
      /\ active' = TRUE
  BY DEF startGameSessionEvents, Start, EventLoopNext, SessionShape, ConnPlaces, callers, history
<1>2. LoopInv' /\ (CleanupBegun' <=> CleanupBegun)
  BY <1>1, LoopInvNext DEF CleanupBegun
<1>3. loop.at = "off" /\ task = None
  BY DEF startGameSessionEvents, Start, LoopInv, Ending, TaskInHand
<1>4. SessionShape'
  BY <1>1 DEF SessionShape
<1>5. ConnectionOK'
  BY <1>1 DEF ConnectionOK, Closing
<1>6. CleanupOnce'
  BY <1>1, <1>2 DEF CleanupOnce, CleanedHere
<1> QED
  BY <1>1, <1>2, <1>3, <1>4, <1>5, <1>6, SessionEvents DEF TaskInHand, TimerOnItsCharacter

\* The service's context ends.
LEMMA ServiceKeeps ==
  ASSUME SessionInv, ServiceEnds
  PROVE  SessionInv'
<1>1. LoopInv'
  BY ServiceEndsLoop DEF SessionInv
<1>2. UNCHANGED <<active, selected, generation, armed, task, conn, cleanups, completed, loop, call,
                  stop, begun>>
  BY DEF ServiceEnds, session, work, history
<1> QED
  BY <1>1, <1>2 DEF SessionInv, SessionShape, TaskInHand, ConnectionOK, Closing, CleanupOnce,
                    CleanupBegun, CleanedHere, TimerOnItsCharacter

\* Every step of a session keeps the invariant.
LEMMA SessionInvNext ==
  ASSUME SessionInv, [Next]_vars
  PROVE  SessionInv'
<1>1. CASE UNCHANGED vars
  <2>1. LoopInv' /\ UNCHANGED <<session, work, loop, call, stop, begun>>
    BY <1>1, LoopInvStutters DEF vars, loopVars, SessionInv
  <2> QED
    BY <2>1 DEF SessionInv, SessionShape, TaskInHand, ConnectionOK, Closing, CleanupOnce,
                CleanupBegun, CleanedHere, TimerOnItsCharacter, session, work
<1>2. CASE Next
  BY <1>2, BesideKeeps, ConnectionKeeps, TaskKeeps, StartKeeps, ServiceKeeps
  DEF Next, ConnStep, Beside
<1> QED
  BY <1>1, <1>2

\* SessionInv is an invariant of the session on its loop.
THEOREM SessionInvHolds == Spec => []SessionInv
<1>1. Init => SessionInv
  BY SessionInvInit
<1>2. SessionInv /\ [Next]_vars => SessionInv'
  BY SessionInvNext
<1> QED
  BY <1>1, <1>2, PTL DEF Spec

\* A session is cleaned up once at most, never beside a task of its loop, and left
\* without cleanup only when Stop gave up on a handler that did not return
\* (shutdownGameSession, stopGameSessionEvents).
THEOREM CleanupIsExclusive == Spec => []CleanupExclusive
<1>1. SessionInv => CleanupExclusive
  <2> SUFFICES ASSUME SessionInv PROVE CleanupExclusive
    OBVIOUS
  <2> USE DEF SessionInv
  <2>1. TypeOK
    <3>1. LoopTypeOK
      BY ShapeIsType
    <3>2. conn.at \in ConnPlaces
      BY DEF SessionShape
    <3> QED
      BY <3>1, <3>2 DEF TypeOK, SessionShape, TaskInHand, ConnPlaces
  <2>2. cleanups <= 1
    BY DEF CleanupOnce
  <2>3. conn.at = "fallback" => task = None /\ loop.at = "exited"
    BY StoppedLoop DEF ConnectionOK, TaskInHand
  <2>4. conn.at = "closed" /\ cleanups = 0 => stop = "ctx"
    BY DEF CleanupOnce, CleanedHere, ConnectionOK
  <2> QED
    BY <2>1, <2>2, <2>3, <2>4 DEF CleanupExclusive
<1> QED
  BY <1>1, SessionInvHolds, PTL

\* A timer's task runs for the character and the generation it was armed for, from
\* its first step to its last, and never after the cleanup
\* (postGameSessionCharacterEvent and the processor's test).
THEOREM TimersKeepTheirCharacter == Spec => []TimerOnItsCharacter
<1>1. SessionInv => TimerOnItsCharacter
  BY DEF SessionInv
<1> QED
  BY <1>1, SessionInvHolds, PTL

\* In a session, too, tasks are begun in the order of their submission,
THEOREM SessionInOrder == Spec => []Fifo
<1>1. SessionInv => Fifo
  BY OrderedIsFifo DEF SessionInv
<1> QED
  BY <1>1, SessionInvHolds, PTL

\* and every task and every call has one outcome at most.
THEOREM SessionOneOutcome == Spec => []OutcomeOnce
<1>1. SessionInv => OutcomeOnce
  BY OnePlaceIsOneOutcome DEF SessionInv
<1> QED
  BY <1>1, SessionInvHolds, PTL
=============================================================================
