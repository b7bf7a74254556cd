-------------------------- MODULE TimeQueueProofs --------------------------
(***************************************************************************)
(* Proofs about TimeQueue for every set of names, every period, every      *)
(* compaction threshold and every way the wall clock is set.               *)
(***************************************************************************)
EXTENDS TimeQueue, Foundations, TLAPS

Runners == [at : {"off", "plan", "sleep", "take", "call", "done"},
            until : Nat, now : Nat, calls : SUBSET Tasks, ahead : Nat]

(* The inductive invariant: QueueSound, and what its proof needs besides,  *)
(* a heap that is finite, so that the ids of tasks that recur can be       *)
(* counted, and a runner that is a record.                                 *)
QueueInv == QueueSound /\ IsFiniteSet(tasks) /\ runner \in Runners

-----------------------------------------------------------------------------
(* The order of the heap. *)

\* Tasks with ids of their own that the heap can tell apart.
Distinct(S) == S \in SUBSET Tasks /\ \A t, u \in S : t.id = u.id => t = u

\* taskHeap.Less orders such tasks totally.
LEMMA BeforeOrders ==
    ASSUME NEW S, Distinct(S)
    PROVE  /\ \A t \in S : ~ Before(t, t)
           /\ \A t, u \in S : t = u \/ Before(t, u) \/ Before(u, t)
           /\ \A t, u \in S : Before(t, u) => ~ Before(u, t)
           /\ \A t, u, v \in S : Before(t, u) /\ Before(u, v) => Before(t, v)
<1>1. \A t \in S : t.id \in Nat /\ t.due \in Nat
  BY DEF Distinct, Tasks
<1> QED BY <1>1 DEF Distinct, Before

\* The heap has a first task unless it is empty.
LEMMA FirstIsFirst ==
    ASSUME NEW S, Distinct(S), S # {}
    PROVE  First(S) \in S /\ \A u \in S : First(S).due <= u.due
<1>0. \A t \in S : t.id \in Nat /\ t.due \in Nat
  BY DEF Distinct, Tasks
<1> DEFINE D == {t.due : t \in S}
<1>1. PICK d \in D : \A e \in D : d <= e
  <2>1. D \in SUBSET Nat /\ D # {}
    BY <1>0
  <2> HIDE DEF D
  <2> QED BY <2>1, NatMin
<1>2. \E t \in S : t.due = d
  BY <1>1
<1>3. \A t \in S : d <= t.due
  BY <1>1
<1> DEFINE I == {t.id : t \in {u \in S : u.due = d}}
<1>4. PICK i \in I : \A j \in I : i <= j
  <2>1. I \in SUBSET Nat /\ I # {}
    BY <1>0, <1>2
  <2> HIDE DEF I
  <2> QED BY <2>1, NatMin
<1>5. PICK t \in S : t.due = d /\ t.id = i
  BY <1>4
<1>6. \A u \in S : u = t \/ Before(t, u)
  <2> SUFFICES ASSUME NEW u \in S, u # t PROVE Before(t, u)
    OBVIOUS
  <2>1. t.id # u.id
    BY <1>5 DEF Distinct
  <2>2. u.due = d => i <= u.id
    BY <1>4
  <2> QED BY <2>1, <2>2, <1>0, <1>3, <1>5 DEF Before
<1>7. First(S) \in S /\ \A u \in S : u = First(S) \/ Before(First(S), u)
  BY <1>5, <1>6, Zenon DEF First
<1> QED BY <1>0, <1>7 DEF Before

\* The next moment of a recurring task is a moment.
LEMMA NextMomentType == ASSUME NEW n \in Nat PROVE NextMoment(n) \in Nat
<1>1. Period \in Nat /\ Period > 0
  BY TimeQueueAssumption
<1>2. n \div Period \in Nat
  BY <1>1
<1> QED BY <1>1, <1>2 DEF NextMoment

-----------------------------------------------------------------------------
(* The heap, the names and the marks. *)

\* The tasks of S that are not current under the names.
Stale(S, named) == {t.id : t \in {u \in S : ~Current(u, named)}}

\* StaleAreMarked of a heap S, names, marks and a last id that are given.
HeapSound(S, named, marks, last) ==
    /\ Distinct(S) /\ IsFiniteSet(S)
    /\ named \in [TaskNames -> Nat]
    /\ last \in Nat
    /\ \A t \in S : t.id <= last
    /\ \A n \in TaskNames : named[n] # 0 => \E t \in S : t.id = named[n] /\ t.name = n
    /\ marks = Stale(S, named)

\* The state's own heap, names, marks and ids.
HeapNow == HeapSound(tasks, byName, canceled, nextID)

\* QueueInv, taken apart.
LEMMA QueueInvParts ==
    QueueInv <=> /\ HeapNow /\ NoOversleep /\ runner \in Runners
                 /\ lastNow \in Nat /\ token \in BOOLEAN
                 /\ time \in Nat /\ shift \in 0 .. MaxShift /\ settings \in Nat
<1>1. runner \in Runners =>
        /\ runner.at \in {"off", "plan", "sleep", "take", "call", "done"}
        /\ runner.until \in Nat /\ runner.now \in Nat /\ runner.ahead \in Nat
  BY DEF Runners
<1>2. TimeQueueTypeOK /\ StaleAreMarked /\ IsFiniteSet(tasks)
        => HeapNow
  BY DEF TimeQueueTypeOK, StaleAreMarked, HeapNow, HeapSound, Distinct, Stale
<1>3. HeapNow => /\ StaleAreMarked /\ IsFiniteSet(tasks)
                 /\ tasks \subseteq Tasks
                 /\ byName \in [TaskNames -> Nat] /\ nextID \in Nat
  BY DEF StaleAreMarked, HeapNow, HeapSound, Distinct, Stale
<1> QED BY <1>1, <1>2, <1>3 DEF QueueInv, QueueSound, TimeQueueTypeOK

\* The same of the state a step leads to.
LEMMA QueueInvNext ==
    ASSUME HeapNow', NoOversleep', runner' \in Runners,
           lastNow' \in Nat, token' \in BOOLEAN,
           time' \in Nat, shift' \in 0 .. MaxShift, settings' \in Nat
    PROVE  QueueInv'
<1>1. /\ runner'.at \in {"off", "plan", "sleep", "take", "call", "done"}
      /\ runner'.until \in Nat /\ runner'.now \in Nat /\ runner'.ahead \in Nat
  BY DEF Runners
<1>2. /\ StaleAreMarked' /\ IsFiniteSet(tasks')
      /\ tasks' \subseteq Tasks
      /\ byName' \in [TaskNames -> Nat] /\ nextID' \in Nat
  BY DEF StaleAreMarked, HeapNow, HeapSound, Distinct, Stale
<1> QED BY <1>1, <1>2 DEF QueueInv, QueueSound, TimeQueueTypeOK

\* A current task of a sound heap is not marked.
LEMMA CurrentUnmarked ==
    ASSUME NEW S, NEW named, NEW marks, NEW last, HeapSound(S, named, marks, last)
    PROVE  \A t \in S : t.id \in marks <=> ~Current(t, named)
BY DEF HeapSound, Distinct, Stale

\* The tasks that are live are the current ones.
LEMMA LiveIsCurrent == HeapNow => \A t \in tasks : Live(t) <=> Current(t, byName)
BY CurrentUnmarked DEF HeapNow, Live

\* Two current tasks have two names.
LEMMA CurrentNames ==
    ASSUME NEW S, NEW named, NEW marks, NEW last, HeapSound(S, named, marks, last)
    PROVE  \A t, u \in S :
             Current(t, named) /\ Current(u, named) /\ t.name = u.name => t = u
BY DEF HeapSound, Distinct, Current

\* compactLocked keeps the heap sound: it removes what is marked, and with it
\* the marks.
LEMMA CompactSound ==
    ASSUME NEW S, NEW named, NEW marks, NEW last, HeapSound(S, named, marks, last)
    PROVE  HeapSound(Kept(S, marks, named), named, Marked(S, marks), last)
<1>1. CASE ~Compacts(marks)
  BY <1>1 DEF Kept, Marked
<1>2. CASE Compacts(marks)
  <2> DEFINE K == {t \in S : t.id \notin marks /\ Current(t, named)}
  <2>1. Kept(S, marks, named) = K /\ Marked(S, marks) = marks \ IDs(S)
    BY <1>2 DEF Kept, Marked
  <2>2. K = {t \in S : Current(t, named)}
    BY CurrentUnmarked
  <2>3. marks \ IDs(S) = {}
    BY DEF HeapSound, Stale, IDs
  <2>4. Stale(K, named) = {}
    BY DEF Stale
  <2>5. Distinct(K) /\ IsFiniteSet(K)
    <3>1. Distinct(K)
      BY DEF HeapSound, Distinct
    <3>2. K \in SUBSET S /\ IsFiniteSet(S)
      BY DEF HeapSound
    <3> QED BY <3>1, <3>2, FS_Subset
  <2>6. ASSUME NEW n \in TaskNames, named[n] # 0
        PROVE  \E t \in K : t.id = named[n] /\ t.name = n
    <3>1. PICK t \in S : t.id = named[n] /\ t.name = n
      BY <2>6 DEF HeapSound
    <3>2. t \in K
      BY <3>1, <2>2 DEF Current
    <3> QED BY <3>1, <3>2
  <2>7. \A t \in K : t.id <= last
    BY DEF HeapSound
  <2> HIDE DEF K
  <2> QED BY <2>1, <2>3, <2>4, <2>5, <2>6, <2>7 DEF HeapSound
<1> QED BY <1>1, <1>2

\* addTask: the new task takes the name over, and the task it replaces is
\* marked.
LEMMA AddTaskSound ==
    ASSUME HeapNow, NEW name \in TaskNames, NEW due \in Nat, AddTask(name, due)
    PROVE  HeapNow'
<1> DEFINE id == nextID + 1
           new == [id |-> id, name |-> name, due |-> due]
           all == tasks \cup {new}
           marks == IF byName[name] # 0 THEN canceled \cup {byName[name]} ELSE canceled
           named == [byName EXCEPT ![name] = id]
<1>1. /\ nextID' = id /\ byName' = named
      /\ tasks' = Kept(all, marks, named) /\ canceled' = Marked(all, marks)
  BY DEF AddTask
<1>2. HeapSound(all, named, marks, id)
  <2>1. /\ Distinct(tasks) /\ IsFiniteSet(tasks) /\ nextID \in Nat
        /\ byName \in [TaskNames -> Nat]
        /\ \A t \in tasks : t.id <= nextID /\ t.id \in Nat /\ t.name \in TaskNames
    BY DEF HeapNow, HeapSound, Distinct, Tasks
  <2>2. new \in Tasks /\ \A t \in tasks : t.id # new.id
    BY <2>1 DEF Tasks
  <2>3. Distinct(all)
    BY <2>1, <2>2 DEF Distinct
  <2>4. IsFiniteSet(all)
    BY <2>1, FS_AddElement
  <2>5. named \in [TaskNames -> Nat] /\ id \in Nat
    BY <2>1
  <2>6. \A t \in all : t.id <= id
    BY <2>1
  <2>7. ASSUME NEW n \in TaskNames, named[n] # 0
        PROVE  \E t \in all : t.id = named[n] /\ t.name = n
    <3>1. CASE n = name
      <4>1. new \in all /\ new.id = named[n] /\ new.name = n
        BY <2>1, <3>1
      <4> QED BY <4>1
    <3>2. CASE n # name
      BY <2>1, <2>7, <3>2 DEF HeapNow, HeapSound
    <3> QED BY <3>1, <3>2
  <2>8. marks = Stale(all, named)
    <3>1. \A t \in tasks : Current(t, named) <=> Current(t, byName) /\ t.name # name
      BY <2>1, <2>2 DEF Current
    <3>2. Current(new, named)
      BY <2>1 DEF Current
    <3>3. \A t \in tasks : Current(t, byName) /\ t.name = name => t.id = byName[name]
      BY DEF Current
    <3>4. byName[name] # 0 => \E t \in tasks : /\ t.id = byName[name] /\ t.name = name
                                               /\ Current(t, byName)
      BY DEF HeapNow, HeapSound, Current
    <3>5. \A t \in tasks : t.id # 0
      BY DEF HeapNow, HeapSound, Distinct, Tasks
    <3>6. canceled = Stale(tasks, byName)
      BY DEF HeapNow, HeapSound
    <3>7. ASSUME NEW i \in marks PROVE i \in Stale(all, named)
      <4>1. CASE i \in canceled
        BY <4>1, <3>1, <3>6 DEF Stale
      <4>2. CASE i \notin canceled
        BY <4>2, <3>1, <3>4, <3>7 DEF Stale
      <4> QED BY <4>1, <4>2
    <3>8. ASSUME NEW i \in Stale(all, named) PROVE i \in marks
      <4>1. PICK t \in all : t.id = i /\ ~Current(t, named)
        BY <3>8 DEF Stale
      <4>2. t \in tasks
        BY <4>1, <3>2
      <4>3. CASE Current(t, byName)
        BY <4>1, <4>2, <4>3, <3>1, <3>3, <3>5
      <4>4. CASE ~Current(t, byName)
        BY <4>1, <4>2, <4>4, <3>6 DEF Stale
      <4> QED BY <4>3, <4>4
    <3> HIDE DEF marks, all, named
    <3> QED BY <3>7, <3>8
  <2> HIDE DEF all, marks, named, id
  <2> QED BY <2>3, <2>4, <2>5, <2>6, <2>7, <2>8 DEF HeapSound
<1> HIDE DEF all, marks, named, id
<1>3. HeapSound(Kept(all, marks, named), named, Marked(all, marks), id)
  BY <1>2, CompactSound
<1> QED BY <1>1, <1>3 DEF HeapNow

\* Cancel, CancelHandle and CancelPrefix: tasks that lose their name are
\* marked.
LEMMA ForgetSound ==
    ASSUME HeapNow, NEW names \in SUBSET {n \in TaskNames : byName[n] # 0},
           Forget(names)
    PROVE  HeapNow'
<1> DEFINE named == [n \in TaskNames |-> IF n \in names THEN 0 ELSE byName[n]]
           marks == canceled \cup {byName[n] : n \in names}
<1>1. byName' = named /\ canceled' = marks /\ tasks' = tasks /\ nextID' = nextID
  BY DEF Forget
<1>2. /\ Distinct(tasks) /\ IsFiniteSet(tasks) /\ nextID \in Nat
      /\ byName \in [TaskNames -> Nat]
      /\ \A t \in tasks : t.id <= nextID /\ t.id # 0 /\ t.name \in TaskNames
      /\ \A n \in TaskNames :
            byName[n] # 0 => \E t \in tasks : t.id = byName[n] /\ t.name = n
      /\ canceled = Stale(tasks, byName)
  BY DEF HeapNow, HeapSound, Distinct, Tasks
<1>3. named \in [TaskNames -> Nat]
  BY <1>2
<1>4. \A t \in tasks : Current(t, named) <=> Current(t, byName) /\ t.name \notin names
  BY <1>2 DEF Current
<1>5. ASSUME NEW i \in marks PROVE i \in Stale(tasks, named)
  <2>1. CASE i \in canceled
    BY <2>1, <1>2, <1>4 DEF Stale
  <2>2. CASE i \notin canceled
    <3>1. PICK n \in names : i = byName[n]
      BY <1>5, <2>2
    <3>2. PICK t \in tasks : t.id = i /\ t.name = n
      BY <1>2, <3>1
    <3> QED BY <3>2, <1>4 DEF Stale
  <2> QED BY <2>1, <2>2
<1>6. ASSUME NEW i \in Stale(tasks, named) PROVE i \in marks
  <2>1. PICK t \in tasks : t.id = i /\ ~Current(t, named)
    BY <1>6 DEF Stale
  <2>2. CASE Current(t, byName)
    BY <2>1, <2>2, <1>4 DEF Current
  <2>3. CASE ~Current(t, byName)
    BY <2>1, <2>3, <1>2 DEF Stale
  <2> QED BY <2>2, <2>3
<1>7. \A n \in TaskNames : named[n] # 0 => \E t \in tasks : t.id = named[n] /\ t.name = n
  BY <1>2
<1>8. marks = Stale(tasks, named)
  <2> HIDE DEF marks, named
  <2> QED BY <1>5, <1>6
<1> HIDE DEF marks, named
<1> QED BY <1>1, <1>2, <1>3, <1>7, <1>8 DEF HeapNow, HeapSound

\* nextDelay: what it pops is marked, and its mark goes with it.
LEMMA PlanSound == ASSUME HeapNow, Plan PROVE HeapNow'
<1> DEFINE rest == tasks \ StaleInFront
           marks == canceled \ IDs(StaleInFront)
<1>1. tasks' = rest /\ canceled' = marks /\ byName' = byName /\ nextID' = nextID
  BY DEF Plan
<1>2. /\ Distinct(tasks) /\ IsFiniteSet(tasks) /\ nextID \in Nat
      /\ byName \in [TaskNames -> Nat]
      /\ \A t \in tasks : t.id <= nextID
      /\ canceled = Stale(tasks, byName)
  BY DEF HeapNow, HeapSound
<1>3. StaleInFront \subseteq tasks /\ \A t \in StaleInFront : ~Current(t, byName)
  <2>1. \A t \in tasks : Live(t) <=> Current(t, byName)
    BY LiveIsCurrent
  <2>2. \A t \in tasks : ~Before(t, t)
    BY <1>2, BeforeOrders
  <2> QED BY <2>1, <2>2 DEF StaleInFront
<1>4. Distinct(rest) /\ IsFiniteSet(rest)
  <2>1. Distinct(rest)
    BY <1>2 DEF Distinct
  <2>2. rest \in SUBSET tasks
    OBVIOUS
  <2> QED BY <2>1, <2>2, <1>2, FS_Subset
<1>5. ASSUME NEW n \in TaskNames, byName[n] # 0
      PROVE  \E t \in rest : t.id = byName[n] /\ t.name = n
  <2>1. PICK t \in tasks : t.id = byName[n] /\ t.name = n
    BY <1>5 DEF HeapNow, HeapSound
  <2>2. Current(t, byName)
    BY <2>1 DEF Current
  <2> QED BY <2>1, <2>2, <1>3
<1>6. marks = Stale(rest, byName)
  <2>1. ASSUME NEW i \in marks PROVE i \in Stale(rest, byName)
    <3>1. PICK t \in tasks : t.id = i /\ ~Current(t, byName)
      BY <1>2 DEF Stale
    <3>2. t \notin StaleInFront
      BY <3>1 DEF IDs
    <3> QED BY <3>1, <3>2 DEF Stale
  <2>2. ASSUME NEW i \in Stale(rest, byName) PROVE i \in marks
    <3>1. PICK t \in rest : t.id = i /\ ~Current(t, byName)
      BY <2>2 DEF Stale
    <3>2. i \in canceled
      BY <3>1, <1>2 DEF Stale
    <3>3. i \notin IDs(StaleInFront)
      BY <3>1, <1>2, <1>3 DEF IDs, Distinct
    <3> QED BY <3>2, <3>3
  <2> HIDE DEF marks, rest
  <2> QED BY <2>1, <2>2
<1>7. \A t \in rest : t.id <= nextID
  BY <1>2
<1> HIDE DEF marks, rest
<1> QED BY <1>1, <1>2, <1>4, <1>5, <1>6, <1>7 DEF HeapNow, HeapSound

\* reanchorLocked moves tasks in time and keeps their ids and names.
LEMMA ReanchorSound ==
    ASSUME HeapNow, NEW now \in Nat, Reanchor(now)
    PROVE  HeapNow'
<1> DEFINE Moved(t) == IF Current(t, byName) /\ t.name \in Periodic
                       THEN [t EXCEPT !.due = NextMoment(now)] ELSE t
           moved == {Moved(t) : t \in tasks}
<1>1. tasks' = moved /\ canceled' = canceled /\ byName' = byName /\ nextID' = nextID
  BY DEF Reanchor
<1>2. /\ Distinct(tasks) /\ tasks \in SUBSET Tasks
      /\ IsFiniteSet(tasks) /\ nextID \in Nat
      /\ byName \in [TaskNames -> Nat]
      /\ \A t \in tasks : t.id <= nextID
      /\ canceled = Stale(tasks, byName)
  BY DEF HeapNow, HeapSound, Distinct
<1>3. \A t \in tasks : Moved(t) \in Tasks /\ Moved(t).id = t.id /\ Moved(t).name = t.name
  BY <1>2, NextMomentType DEF Tasks
<1> HIDE DEF Moved
<1>4. Distinct(moved)
  BY <1>2, <1>3 DEF Distinct
<1>5. IsFiniteSet(moved)
  <2> DEFINE f == [t \in tasks |-> Moved(t)]
  <2>1. IsFiniteSet({f[t] : t \in tasks})
    <3>1. f = [t \in tasks |-> f[t]]
      OBVIOUS
    <3> HIDE DEF f
    <3> QED BY <3>1, <1>2, FiniteImage
  <2>2. {f[t] : t \in tasks} = moved
    OBVIOUS
  <2> QED BY <2>1, <2>2
<1>6. ASSUME NEW n \in TaskNames, byName[n] # 0
      PROVE  \E t \in moved : t.id = byName[n] /\ t.name = n
  BY <1>3, <1>6 DEF HeapNow, HeapSound
<1>7. Stale(moved, byName) = Stale(tasks, byName)
  BY <1>3 DEF Stale, Current
<1>8. \A t \in moved : t.id <= nextID
  BY <1>2, <1>3
<1> HIDE DEF moved
<1> QED BY <1>1, <1>2, <1>4, <1>5, <1>6, <1>7, <1>8 DEF HeapNow, HeapSound

-----------------------------------------------------------------------------
(* Tasks that recur get consecutive ids in the order of the heap. *)

\* The place of a task among those of S.
Rank(S, t) == Cardinality({u \in S : u = t \/ Before(u, t)})

\* Places are counted from one to the number of tasks, and no two tasks share
\* one.
LEMMA RankOrders ==
    ASSUME NEW S, Distinct(S), IsFiniteSet(S)
    PROVE  /\ Cardinality(S) \in Nat
           /\ \A t \in S : Rank(S, t) \in 1 .. Cardinality(S)
           /\ \A t, u \in S : Rank(S, t) = Rank(S, u) => t = u
<1> DEFINE Upto(t) == {u \in S : u = t \/ Before(u, t)}
<1>1. Cardinality(S) \in Nat
  BY FS_CardinalityType
<1>2. ASSUME NEW t \in S
      PROVE  IsFiniteSet(Upto(t)) /\ Rank(S, t) \in 1 .. Cardinality(S)
  <2>1. /\ IsFiniteSet(Upto(t)) /\ Cardinality(Upto(t)) <= Cardinality(S)
        /\ Cardinality(Upto(t)) \in Nat
    <3>1. Upto(t) \in SUBSET S
      OBVIOUS
    <3> HIDE DEF Upto
    <3> QED BY <3>1, FS_Subset, FS_CardinalityType
  <2>2. Cardinality(Upto(t)) # 0
    <3>1. t \in Upto(t)
      OBVIOUS
    <3> HIDE DEF Upto
    <3> QED BY <3>1, <2>1, FS_EmptySet
  <2> QED BY <1>1, <2>1, <2>2 DEF Rank
<1>3. ASSUME NEW t \in S, NEW u \in S, Before(t, u) PROVE Rank(S, t) # Rank(S, u)
  <2>1. Upto(t) \in SUBSET Upto(u)
    BY <1>3, BeforeOrders
  <2>2. u \in Upto(u) /\ u \notin Upto(t)
    BY <1>3, BeforeOrders
  <2>3. IsFiniteSet(Upto(u))
    BY <1>2
  <2>4. Rank(S, t) = Cardinality(Upto(t)) /\ Rank(S, u) = Cardinality(Upto(u))
    BY DEF Rank
  <2> HIDE DEF Upto
  <2> QED BY <2>1, <2>2, <2>3, <2>4, FS_Subset
<1>4. \A t, u \in S : t = u \/ Before(t, u) \/ Before(u, t)
  BY BeforeOrders
<1> QED BY <1>1, <1>2, <1>3, <1>4

\* popDueLocked: due tasks leave with their marks; the ones that recur come
\* back under ids of their own, which their names now have.
LEMMA CollectSound ==
    ASSUME HeapNow, NEW now \in Nat, Collect(now)
    PROVE  HeapNow' /\ runner'.calls \in SUBSET Tasks
<1> DEFINE due == {t \in tasks : t.due <= now}
           live == {t \in due : Live(t)}
           again == {t \in live : t.name \in Periodic}
           NewID(t) == nextID + Rank(again, t)
           New(t) == [t EXCEPT !.id = NewID(t), !.due = NextMoment(now)]
           all == (tasks \ due) \cup {New(t) : t \in again}
           marks == (canceled \ IDs(due))
                      \cup {t.id : t \in {u \in due : u.id \notin canceled} \ live}
           named == [n \in TaskNames |->
                       IF \E t \in again : t.name = n
                       THEN NewID(CHOOSE t \in again : t.name = n)
                       ELSE IF \E t \in live : t.name = n THEN 0 ELSE byName[n]]
           last == nextID + Cardinality(again)
<1>1. /\ tasks' = Kept(all, marks, named) /\ canceled' = Marked(all, marks)
      /\ byName' = named /\ nextID' = last
      /\ runner' = [Runner("call") EXCEPT !.calls = live]
  BY DEF Collect, Rank
<1>2. /\ Distinct(tasks) /\ tasks \in SUBSET Tasks
      /\ IsFiniteSet(tasks) /\ nextID \in Nat
      /\ byName \in [TaskNames -> Nat]
      /\ \A t \in tasks : t.id <= nextID /\ t.id \in Nat \ {0} /\ t.name \in TaskNames
      /\ canceled = Stale(tasks, byName)
  BY DEF HeapNow, HeapSound, Distinct, Tasks
<1>3. live = {t \in due : Current(t, byName)}
  BY LiveIsCurrent
<1>4. \A t, u \in tasks :
         Current(t, byName) /\ Current(u, byName) /\ t.name = u.name => t = u
  BY CurrentNames DEF HeapNow
<1>5. /\ again \in SUBSET tasks /\ Distinct(again) /\ IsFiniteSet(again)
      /\ \A t \in again : Current(t, byName) /\ t.due <= now
      /\ \A t, u \in again : t.name = u.name => t = u
  <2>1. again \in SUBSET tasks
    OBVIOUS
  <2>2. IsFiniteSet(again)
    BY <2>1, <1>2, FS_Subset
  <2> QED BY <2>1, <2>2, <1>2, <1>3, <1>4 DEF Distinct
<1>6. /\ last \in Nat /\ nextID <= last
      /\ \A t \in again : NewID(t) \in Nat /\ NewID(t) > nextID /\ NewID(t) <= last
      /\ \A t, u \in again : NewID(t) = NewID(u) => t = u
  <2>1. /\ Cardinality(again) \in Nat
        /\ \A t \in again : Rank(again, t) \in 1 .. Cardinality(again)
        /\ \A t, u \in again : Rank(again, t) = Rank(again, u) => t = u
    <3> HIDE DEF again
    <3> QED BY <1>5, RankOrders
  <2> HIDE DEF again
  <2> QED BY <2>1, <1>2
<1>7. /\ runner'.calls = live
      /\ live \in SUBSET Tasks
  BY <1>1, <1>2 DEF Runner
<1>8. \A t \in again : /\ New(t) \in Tasks /\ New(t).id = NewID(t)
                       /\ New(t).name = t.name
  <2> HIDE DEF again, NewID
  <2>1. NextMoment(now) \in Nat
    BY NextMomentType
  <2> SUFFICES ASSUME NEW t \in again
               PROVE  /\ New(t) \in Tasks /\ New(t).id = NewID(t)
                      /\ New(t).name = t.name
    BY Zenon
  <2>2. t \in Tasks /\ NewID(t) \in Nat /\ NewID(t) # 0
    BY <1>2, <1>5, <1>6
  <2>3. t = [id |-> t.id, name |-> t.name, due |-> t.due] /\ t.name \in TaskNames
    BY <2>2 DEF Tasks
  <2> QED BY <2>1, <2>2, <2>3 DEF Tasks
<1>9. \A t \in again : named[t.name] = NewID(t)
  <2> SUFFICES ASSUME NEW t \in again PROVE named[t.name] = NewID(t)
    OBVIOUS
  <2>1. t.name \in TaskNames
    BY <1>2, <1>5
  <2>2. (CHOOSE u \in again : u.name = t.name) = t
    <3> HIDE DEF again
    <3> QED BY <1>5
  <2> HIDE DEF NewID, again, live
  <2> QED BY <2>1, <2>2
<1>10. named \in [TaskNames -> Nat]
  <2> HIDE DEF NewID, again, live
  <2>1. \A n \in TaskNames : (\E t \in again : t.name = n)
                               => (CHOOSE t \in again : t.name = n) \in again
    OBVIOUS
  <2> QED BY <2>1, <1>2, <1>6
\* A task that stays is current afterwards if it was before.
<1>11. \A t \in tasks \ due : Current(t, named) <=> Current(t, byName)
  <2> SUFFICES ASSUME NEW t \in tasks, t \notin due
               PROVE  named[t.name] = t.id <=> byName[t.name] = t.id
    BY DEF Current
  <2>1. t.name \in TaskNames /\ t.id # 0 /\ t.id <= nextID /\ t.id \in Nat
    BY <1>2
  <2>2. ASSUME NEW u \in live, u.name = t.name PROVE byName[t.name] # t.id
    BY <2>2, <1>2, <1>3 DEF Current, Distinct
  <2>3. CASE \E u \in again : u.name = t.name
    <3>1. PICK u \in again : u.name = t.name
      BY <2>3
    <3>2. named[t.name] = NewID(u)
      BY <3>1, <1>9
    <3>3. NewID(u) # t.id
      <4> HIDE DEF NewID, again
      <4> QED BY <2>1, <1>6, <1>2
    <3>4. u \in live
      OBVIOUS
    <3> HIDE DEF named, again, live
    <3> QED BY <3>1, <3>2, <3>3, <3>4, <2>2
  <2>4. CASE ~ \E u \in again : u.name = t.name
    <3> HIDE DEF NewID, again, live
    <3> QED BY <2>1, <2>2, <2>4
  <2> QED BY <2>3, <2>4
<1>12. \A t \in again : Current(New(t), named)
  <2> HIDE DEF New, named, NewID, again
  <2> QED BY <1>8, <1>9 DEF Current
<1>13. Distinct(all)
  <2> SUFFICES ASSUME NEW a \in all, NEW b \in all, a.id = b.id PROVE a = b
    <3>1. all \in SUBSET Tasks
      <4> HIDE DEF New, again, due
      <4> QED BY <1>2, <1>8
    <3> HIDE DEF all
    <3> QED BY <3>1 DEF Distinct
  <2>1. \A t \in tasks : t.id <= nextID /\ t.id \in Nat
    BY <1>2
  <2>2. \A t \in again : New(t).id \in Nat /\ New(t).id > nextID
    <3> HIDE DEF New, again, NewID
    <3> QED BY <1>6, <1>8
  <2>3. CASE a \in tasks /\ b \in tasks
    BY <2>3, <1>2 DEF Distinct
  <2>4. CASE a \notin tasks /\ b \notin tasks
    <3> HIDE DEF New, again, NewID, due
    <3> QED BY <2>4, <1>6, <1>8
  <2>5. ~ (a \in tasks /\ b \notin tasks) /\ ~ (a \notin tasks /\ b \in tasks)
    <3> HIDE DEF New, again, due
    <3> QED BY <2>1, <2>2, <1>2
  <2> QED BY <2>3, <2>4, <2>5
<1>14. IsFiniteSet(all)
  <2> DEFINE f == [t \in again |-> New(t)]
  <2>1. IsFiniteSet({f[t] : t \in again})
    <3>1. f = [t \in again |-> f[t]]
      OBVIOUS
    <3> HIDE DEF f, again
    <3> QED BY <3>1, <1>5, FiniteImage
  <2>2. {f[t] : t \in again} = {New(t) : t \in again}
    <3> HIDE DEF New, again
    <3> QED OBVIOUS
  <2>3. IsFiniteSet(tasks \ due)
    BY <1>2, FS_Difference
  <2> HIDE DEF New, again, due, f
  <2> QED BY <2>1, <2>2, <2>3, FS_Union
<1>15. \A t \in all : t.id <= last
  <2> HIDE DEF New, again, NewID, due, last
  <2> QED BY <1>2, <1>6, <1>8
<1>16. ASSUME NEW n \in TaskNames, named[n] # 0
       PROVE  \E t \in all : t.id = named[n] /\ t.name = n
  <2>1. CASE \E u \in again : u.name = n
    <3>1. PICK u \in again : u.name = n
      BY <2>1
    <3>2. New(u) \in all
      OBVIOUS
    <3> HIDE DEF named, all, again, New, NewID
    <3> QED BY <3>1, <3>2, <1>8, <1>9
  <2>2. CASE ~ \E u \in again : u.name = n
    <3>1. named[n] = byName[n] /\ ~ \E u \in live : u.name = n
      <4> HIDE DEF NewID, again, live
      <4> QED BY <2>2, <1>16
    <3>2. PICK t \in tasks : t.id = byName[n] /\ t.name = n
      BY <3>1, <1>16 DEF HeapNow, HeapSound
    <3>3. Current(t, byName)
      BY <3>2 DEF Current
    <3>4. t \notin due
      <4> HIDE DEF due, live
      <4> QED BY <3>1, <3>2, <3>3, <1>3
    <3> HIDE DEF named, again, due, live
    <3> QED BY <3>1, <3>2, <3>4
  <2> QED BY <2>1, <2>2
<1>17. marks = Stale(all, named)
  <2>1. marks = canceled \ IDs(due)
    BY <1>2, <1>3 DEF Stale
  <2>2. ASSUME NEW i \in marks PROVE i \in Stale(all, named)
    <3>1. i \in canceled /\ i \notin IDs(due)
      BY <2>1, <2>2
    <3>2. PICK t \in tasks : t.id = i /\ ~Current(t, byName)
      BY <3>1, <1>2 DEF Stale
    <3>3. t \notin due
      BY <3>1, <3>2 DEF IDs
    <3>4. t \in all
      BY <3>2, <3>3
    <3> HIDE DEF named, all, due
    <3> QED BY <3>2, <3>3, <3>4, <1>11 DEF Stale
  <2>3. ASSUME NEW i \in Stale(all, named) PROVE i \in marks
    <3>1. PICK t \in all : t.id = i /\ ~Current(t, named)
      BY <2>3 DEF Stale
    <3>2. t \in tasks /\ t \notin due
      <4> HIDE DEF named, again, due, New
      <4> QED BY <3>1, <1>12
    <3>3. i \in canceled
      <4> HIDE DEF named, due
      <4> QED BY <3>1, <3>2, <1>2, <1>11 DEF Stale
    <3>4. i \notin IDs(due)
      BY <3>1, <3>2, <1>2 DEF IDs, Distinct
    <3> QED BY <3>3, <3>4
  <2> HIDE DEF marks, all, named
  <2> QED BY <2>2, <2>3
<1> HIDE DEF marks, all, named, last, live
<1>18. HeapSound(all, named, marks, last)
  BY <1>6, <1>10, <1>13, <1>14, <1>15, <1>16, <1>17 DEF HeapSound
<1>19. HeapSound(Kept(all, marks, named), named, Marked(all, marks), last)
  BY <1>18, CompactSound
<1> QED BY <1>1, <1>7, <1>19 DEF HeapNow

-----------------------------------------------------------------------------
(* The steps. *)

\* Runner(at) is a runner.
LEMMA RunnerType ==
    ASSUME NEW at \in {"off", "plan", "sleep", "take", "call", "done"}
    PROVE  Runner(at) \in Runners /\ Runner(at).at = at
BY DEF Runner, Runners

\* A step that leaves the heap alone and does not put the goroutine to sleep.
LEMMA AwakeKeeps ==
    ASSUME QueueInv, HeapNow', runner' \in Runners, runner'.at # "sleep",
           lastNow' \in Nat, token' \in BOOLEAN,
           time' \in Nat, shift' \in 0 .. MaxShift, settings' \in Nat
    PROVE  QueueInv'
<1>1. NoOversleep'
  BY DEF NoOversleep
<1> QED BY <1>1, QueueInvNext

\* A step that changes the heap and leaves a token in the channel.
LEMMA SignalledKeeps ==
    ASSUME QueueInv, HeapNow', token' = TRUE, UNCHANGED <<lastNow, runner, clockVars>>
    PROVE  QueueInv'
<1>1. NoOversleep'
  BY DEF NoOversleep
<1>2. /\ runner' \in Runners /\ lastNow' \in Nat /\ token' \in BOOLEAN
      /\ time' \in Nat /\ shift' \in 0 .. MaxShift /\ settings' \in Nat
  BY QueueInvParts DEF clockVars
<1> QED BY <1>1, <1>2, QueueInvNext

\* The goroutine goes to sleep until the first task of the heap it has looked
\* at is due.
LEMMA PlanKeeps == ASSUME QueueInv, Plan PROVE QueueInv'
<1>1. HeapNow'
  BY QueueInvParts, PlanSound
<1> DEFINE rest == tasks \ StaleInFront
<1>2. /\ tasks' = rest
      /\ runner' = [Runner("sleep") EXCEPT !.until = time + Wait(rest), !.ahead = shift]
      /\ UNCHANGED <<lastNow, token, time, shift, settings>>
  BY DEF Plan, clockVars
<1>3. Distinct(rest) /\ time \in Nat /\ shift \in Nat
  BY <1>1, <1>2, QueueInvParts, TimeQueueAssumption DEF HeapNow, HeapSound
<1> HIDE DEF rest
<1>4. /\ Wait(rest) \in Nat
      /\ Wait(rest) > 0 =>
           \A t \in rest : time + Wait(rest) + shift <= t.due
  <2>1. CASE rest = {}
    BY <2>1, TimeQueueAssumption DEF Wait
  <2>2. CASE rest # {}
    <3>1. First(rest) \in rest /\ \A u \in rest : First(rest).due <= u.due
      BY <2>2, <1>3, FirstIsFirst
    <3>2. \A u \in rest : u.due \in Nat
      BY <1>3 DEF Distinct, Tasks
    <3> QED BY <2>2, <3>1, <3>2, <1>3 DEF Wait, Now
  <2> QED BY <2>1, <2>2
<1>5. /\ runner' \in Runners
      /\ runner'.until = time + Wait(rest) /\ runner'.ahead = shift
  <2>1. time + Wait(rest) \in Nat
    BY <1>3, <1>4
  <2> HIDE DEF Wait
  <2> QED BY <1>2, <1>3, <2>1 DEF Runner, Runners
<1>6. NoOversleep'
  <2> SUFFICES ASSUME time' < runner'.until, NEW t \in tasks'
               PROVE  runner'.until + runner'.ahead <= t.due
    BY DEF NoOversleep
  <2> QED BY <1>2, <1>3, <1>4, <1>5
<1>7. /\ lastNow' \in Nat /\ token' \in BOOLEAN
      /\ time' \in Nat /\ shift' \in 0 .. MaxShift /\ settings' \in Nat
  BY <1>2, QueueInvParts
<1> QED BY <1>1, <1>5, <1>6, <1>7, QueueInvNext

\* What takes tasks out of the heap leaves the goroutine awake.
LEMMA TakeDueKeeps == ASSUME QueueInv, TakeDue PROVE QueueInv'
<1>1. /\ HeapNow /\ runner \in Runners /\ runner.now \in Nat
      /\ time \in Nat /\ shift \in 0 .. MaxShift /\ settings \in Nat
  BY QueueInvParts DEF Runners
<1>2. /\ lastNow' \in Nat /\ token' \in BOOLEAN
      /\ time' \in Nat /\ shift' \in 0 .. MaxShift /\ settings' \in Nat
  BY <1>1 DEF TakeDue, Signal, clockVars
<1>3. CASE Reanchor(runner.now)
  <2>1. HeapNow'
    BY <1>1, <1>3, ReanchorSound
  <2>2. runner' \in Runners /\ runner'.at # "sleep"
    BY <1>3, RunnerType DEF Reanchor
  <2> QED BY <1>2, <2>1, <2>2, AwakeKeeps
<1>4. CASE Collect(runner.now)
  <2>1. HeapNow' /\ runner'.calls \in SUBSET Tasks
    BY <1>1, <1>4, CollectSound
  <2>2. \E S : runner' = [Runner("call") EXCEPT !.calls = S]
    BY <1>4 DEF Collect
  <2>3. runner' \in Runners /\ runner'.at # "sleep"
    BY <2>1, <2>2 DEF Runner, Runners
  <2> QED BY <1>2, <2>1, <2>3, AwakeKeeps
<1> QED BY <1>3, <1>4 DEF TakeDue

\* Every step keeps the invariant.
LEMMA StepKeeps == QueueInv /\ [TimeQueueNext]_timeQueueVars => QueueInv'
<1> SUFFICES ASSUME QueueInv, [TimeQueueNext]_timeQueueVars PROVE QueueInv'
  OBVIOUS
<1>0. /\ HeapNow /\ NoOversleep /\ runner \in Runners
      /\ lastNow \in Nat /\ token \in BOOLEAN
      /\ time \in Nat /\ shift \in 0 .. MaxShift /\ settings \in Nat
      /\ Now \in Nat
  BY QueueInvParts, TimeQueueAssumption DEF Now
<1>1. ASSUME NEW n \in TaskNames, NEW d \in Delays, ScheduleAfter(n, d) PROVE QueueInv'
  <2>1. Now + d \in Nat
    BY <1>0, TimeQueueAssumption
  <2>2. HeapNow'
    BY <2>1, <1>0, <1>1, AddTaskSound DEF ScheduleAfter
  <2> QED BY <2>2, <1>1, SignalledKeeps DEF ScheduleAfter, AddTask, Signal
<1>2. ASSUME NEW n \in TaskNames, Register(n) PROVE QueueInv'
  <2>1. NextMoment(Now) \in Nat
    BY <1>0, NextMomentType
  <2>2. HeapNow'
    BY <2>1, <1>0, <1>2, AddTaskSound DEF Register
  <2> QED BY <2>2, <1>2, SignalledKeeps DEF Register, AddTask, Signal
<1>3. ASSUME NEW S \in SUBSET {n \in TaskNames : byName[n] # 0}, Forget(S)
      PROVE  QueueInv'
  <2>1. HeapNow'
    BY <1>0, <1>3, ForgetSound
  <2> QED BY <2>1, <1>3, SignalledKeeps DEF Forget, Signal
<1>4. CASE StartQueue
  BY <1>0, <1>4, RunnerType, AwakeKeeps DEF StartQueue, queueVars, clockVars, HeapNow
<1>5. CASE StopQueue
  BY <1>0, <1>5, RunnerType, AwakeKeeps DEF StopQueue, queueVars, clockVars, HeapNow
<1>6. CASE Plan
  BY <1>6, PlanKeeps
<1>7. CASE Wake
  BY <1>0, <1>7, RunnerType, AwakeKeeps DEF Wake, clockVars, HeapNow
<1>8. CASE TimerFires
  <2>1. runner' \in Runners /\ runner'.at = "take"
    BY <1>0, <1>8, TimeQueueAssumption DEF TimerFires, Runner, Runners
  <2> QED BY <2>1, <1>0, <1>8, AwakeKeeps DEF TimerFires, queueVars, clockVars, HeapNow
<1>9. CASE TakeDue
  BY <1>9, TakeDueKeeps
<1>10. CASE Invoke
  <2>1. runner' \in Runners /\ runner'.at # "sleep"
    BY <1>0, <1>10 DEF Invoke, Runner, Runners
  <2> QED BY <2>1, <1>0, <1>10, AwakeKeeps DEF Invoke, queueVars, clockVars, HeapNow
<1>11. CASE Tick
  <2>1. HeapNow' /\ time' = time + 1 /\ UNCHANGED <<tasks, byName, token, runner>>
    BY <1>0, <1>11 DEF Tick, queueVars, HeapNow
  <2>2. NoOversleep'
    BY <2>1, <1>0 DEF NoOversleep, Runners, Current
  <2>3. /\ runner' \in Runners /\ lastNow' \in Nat /\ token' \in BOOLEAN
        /\ time' \in Nat /\ shift' \in 0 .. MaxShift /\ settings' \in Nat
    BY <1>0, <1>11 DEF Tick, queueVars
  <2> QED BY <2>1, <2>2, <2>3, QueueInvNext
<1>12. CASE SetClock
  <2>1. HeapNow' /\ NoOversleep'
    BY <1>0, <1>12 DEF SetClock, queueVars, HeapNow, NoOversleep
  <2>2. /\ runner' \in Runners /\ lastNow' \in Nat /\ token' \in BOOLEAN
        /\ time' \in Nat /\ shift' \in 0 .. MaxShift /\ settings' \in Nat
    BY <1>0, <1>12 DEF SetClock, queueVars
  <2> QED BY <2>1, <2>2, QueueInvNext
<1>13. CASE UNCHANGED timeQueueVars
  <2>1. HeapNow' /\ NoOversleep'
    BY <1>0, <1>13 DEF timeQueueVars, queueVars, clockVars, HeapNow, NoOversleep
  <2>2. /\ runner' \in Runners /\ lastNow' \in Nat /\ token' \in BOOLEAN
        /\ time' \in Nat /\ shift' \in 0 .. MaxShift /\ settings' \in Nat
    BY <1>0, <1>13 DEF timeQueueVars, queueVars, clockVars
  <2> QED BY <2>1, <2>2, QueueInvNext
<1>14. ASSUME NEW n \in TaskNames, byName[n] # 0, Forget({n}) PROVE QueueInv'
  BY <1>3, <1>14
<1>15. CASE \E n \in TaskNames : Cancel(n) \/ \E id \in 1 .. nextID : CancelHandle(n, id)
  BY <1>14, <1>15 DEF Cancel, CancelHandle
<1>16. CASE \E S \in SUBSET TaskNames : CancelPrefix(S)
  <2>1. PICK S \in SUBSET TaskNames : CancelPrefix(S)
    BY <1>16
  <2>2. {n \in S : byName[n] # 0} \in SUBSET {n \in TaskNames : byName[n] # 0}
    OBVIOUS
  <2> QED BY <2>1, <2>2, <1>3 DEF CancelPrefix
<1> QED BY <1>1, <1>2, <1>4, <1>5, <1>6, <1>7, <1>8, <1>9, <1>10, <1>11, <1>12,
           <1>13, <1>15, <1>16 DEF TimeQueueNext, RunnerStep

(* The queue stays sound whatever is scheduled, replaced and cancelled, in *)
(* whatever order the goroutine plans, sleeps, wakes and collects, and     *)
(* however the wall clock is set: every entry of byName has its task, the  *)
(* marks are exactly those of the tasks that were cancelled or replaced,   *)
(* and the goroutine does not sleep past a task (platform/timequeue).      *)
THEOREM QueueIsSound == TimeQueueSpec => []QueueSound
<1>1. TimeQueueInit => QueueInv
  <2> SUFFICES ASSUME TimeQueueInit PROVE QueueInv
    OBVIOUS
  <2>1. HeapNow
    BY FS_EmptySet DEF TimeQueueInit, HeapNow, HeapSound, Distinct, Stale
  <2>2. NoOversleep /\ runner \in Runners
    BY DEF TimeQueueInit, NoOversleep, Runner, Runners
  <2>3. lastNow \in Nat /\ token \in BOOLEAN /\ time \in Nat /\ settings \in Nat
    BY DEF TimeQueueInit
  <2>4. shift \in 0 .. MaxShift
    BY TimeQueueAssumption DEF TimeQueueInit
  <2> QED BY <2>1, <2>2, <2>3, <2>4, QueueInvParts
<1>2. QueueInv => QueueSound
  BY DEF QueueInv
<1> QED BY <1>1, <1>2, StepKeeps, PTL DEF TimeQueueSpec
=============================================================================
