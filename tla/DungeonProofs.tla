--------------------------- MODULE DungeonProofs ---------------------------
(***************************************************************************)
(* Proofs about the two halves of a dungeon run: how a party enters        *)
(* together (PartyDungeon), for any number of members, selections and      *)
(* calls, and how a run is settled (DungeonSettlement), for any number of  *)
(* runs and deaths and any number of cards in a row.  The two machines     *)
(* share no variable.                                                      *)
(***************************************************************************)
EXTENDS PartyDungeon, DungeonSettlement, TLAPS

-----------------------------------------------------------------------------
(* Entering together: the inductive invariant. *)

Jobs == {Idle} \cup Handlers \cup Serves

Calls == [from : Members, kind : {"selector", "entry"}]

\* Every variable has its type.
WorldTypes ==
    /\ party \in Projections
    /\ view \in [Members -> Projections \cup {NoParty}]
    /\ page \in [Members -> BOOLEAN]
    /\ origin \in [Members -> BOOLEAN]
    /\ unsettled \in [Members -> BOOLEAN]
    /\ \A m \in Members : origin[m] => page[m]
    /\ runs \in Nat
    /\ runtime \in [Members -> {NoRun} \cup [id : 1 .. runs, over : BOOLEAN, leaving : BOOLEAN]]
    /\ entered \in [Members -> {NoRun} \cup 1 .. runs]
    /\ conn \in [Members -> {"open", "failed", "closed"}]

Types ==
    /\ WorldTypes
    /\ job \in [Members -> Jobs]
    /\ inbox \in [Members -> Seq(Calls)]

\* What a handler of s is about: the run it prepared, its phases, and in the
\* commit phase those that are still to be visited, with the leader last.
HandlerOK(h, s, n) ==
    /\ h.run \in {NoRun} \cup 1 .. n
    /\ h.op = "select" => h.run \in 1 .. n
    /\ h.phase \in {"check", "preflight", "commit", "rollback", "announce", "enter"}
         => h.op = "select"
    /\ h.phase = "commit" =>
         /\ Len(h.todo) \in 1 .. Len(h.all) + 1
         /\ \A i \in 1 .. Len(h.todo) :
              h.todo[i] = Append(h.all, s)[Len(h.all) + 1 - Len(h.todo) + i]

HandlersOK ==
    \A s \in Members : /\ job[s] \in Handlers => HandlerOK(job[s], s, runs)
                       /\ job[s] \in Serves => job[s].run \in {NoRun} \cup 1 .. runs

Waits(s) == job[s] \in Handlers /\ job[s].waiting

\* A call of s is queued at m, or runs there.
Queued(s, m) == \E i \in 1 .. Len(inbox[m]) : inbox[m][i].from = s

Running(s, m) == job[m] \in Serves /\ job[m].from = s /\ job[m].live

\* A call belongs to a handler that waits for it, at the member the handler
\* visits; each waiting handler has one call.
CalledOK ==
    \A s, m \in Members : Queued(s, m) \/ Running(s, m) =>
        Waits(s) /\ job[s].todo # <<>> /\ m = Head(job[s].todo)

OncePerLoop ==
    \A m \in Members : /\ \A s \in Members : ~ (Queued(s, m) /\ Running(s, m))
                       /\ \A i, j \in 1 .. Len(inbox[m]) :
                            inbox[m][i].from = inbox[m][j].from => i = j

AnsweredOK ==
    \A s \in Members : Waits(s) =>
        /\ job[s].phase \in {"sync", "preflight", "enter"}
        /\ \E m \in Members : Queued(s, m) \/ Running(s, m)

CallsOK == CalledOK /\ OncePerLoop /\ AnsweredOK

\* The handler h has committed run n for m and may still withdraw it.
Covers(h, m, n) ==
    /\ h \in Handlers /\ h.op = "select" /\ h.run = n
    /\ \/ /\ h.phase = "commit"
          /\ \E i \in 1 .. Len(h.all) + 1 - Len(h.todo) : h.all[i] = m
       \/ h.phase = "rollback" /\ \E i \in 1 .. Len(h.todo) : h.todo[i] = m

OrphansOK ==
    \A m \in Members : runtime[m] # NoRun /\ runtime[m].id \notin launched =>
        \E s \in Members : Covers(job[s], m, runtime[m].id)

DInv == Types /\ HandlersOK /\ CallsOK /\ OrphansOK

-----------------------------------------------------------------------------
(* Sequences without one entry *)

\* The elements of two sequences put together.
LEMMA ConcatParts ==
    ASSUME NEW S, NEW a \in Seq(S), NEW b \in Seq(S)
    PROVE  /\ a \o b \in Seq(S) /\ Len(a \o b) = Len(a) + Len(b)
           /\ \A k \in 1 .. Len(a) + Len(b) :
                (a \o b)[k] = IF k <= Len(a) THEN a[k] ELSE b[k - Len(a)]
OBVIOUS

\* The entry at the only position in I goes away, the others stay in order.
LEMMA LessFacts ==
    ASSUME NEW S, NEW q \in Seq(S), NEW I \in SUBSET (1 .. Len(q)),
           \A i, j \in I : i = j
    PROVE  /\ Less(q, I) \in Seq(S)
           /\ I = {} => Less(q, I) = q
           /\ \A i \in I : /\ Len(Less(q, I)) = Len(q) - 1
                           /\ \A k \in 1 .. Len(q) - 1 :
                                Less(q, I)[k] = IF k < i THEN q[k] ELSE q[k + 1]
<1>1. CASE I = {}
  BY <1>1 DEF Less
<1>2. CASE I # {}
  <2> DEFINE i == CHOOSE i \in I : TRUE
             a == SubSeq(q, 1, i - 1)
             b == SubSeq(q, i + 1, Len(q))
  <2>1. i \in I /\ I = {i} /\ i \in 1 .. Len(q)
    BY <1>2
  <2>2. Less(q, I) = a \o b
    BY <1>2 DEF Less, RemoveAt
  <2> HIDE DEF i
  <2>3. /\ a \in Seq(S) /\ Len(a) = i - 1 /\ \A k \in 1 .. i - 1 : a[k] = q[k]
        /\ b \in Seq(S) /\ Len(b) = Len(q) - i /\ \A k \in 1 .. Len(q) - i : b[k] = q[i + k]
    BY <2>1
  <2> HIDE DEF a, b
  <2>4. /\ a \o b \in Seq(S) /\ Len(a \o b) = Len(q) - 1
        /\ \A k \in 1 .. Len(q) - 1 : (a \o b)[k] = IF k < i THEN q[k] ELSE q[k + 1]
    <3>0. /\ a \o b \in Seq(S) /\ Len(a \o b) = Len(a) + Len(b)
          /\ \A k \in 1 .. Len(a) + Len(b) : (a \o b)[k] = IF k <= Len(a) THEN a[k] ELSE b[k - Len(a)]
      BY <2>3, ConcatParts
    <3>1. /\ a \o b \in Seq(S) /\ Len(a \o b) = Len(q) - 1
          /\ \A k \in 1 .. Len(q) - 1 : (a \o b)[k] = IF k <= i - 1 THEN a[k] ELSE b[k - (i - 1)]
      BY <2>1, <2>3, <3>0
    <3>2. ASSUME NEW k \in 1 .. Len(q) - 1 PROVE (a \o b)[k] = IF k < i THEN q[k] ELSE q[k + 1]
      <4>1. CASE k < i
        BY <2>1, <2>3, <3>1, <4>1
      <4>2. CASE ~ (k < i)
        <5>1. (a \o b)[k] = b[k - (i - 1)] /\ k - (i - 1) \in 1 .. Len(q) - i
              /\ i + (k - (i - 1)) = k + 1
          BY <2>1, <2>3, <3>1, <4>2
        <5> QED BY <2>3, <4>2, <5>1
      <4> QED BY <4>1, <4>2
    <3> QED BY <3>1, <3>2
  <2> QED BY <1>2, <2>1, <2>2, <2>4
<1> QED BY <1>1, <1>2

\* A sequence without an entry has the type it had.
LEMMA LessType ==
    ASSUME NEW S, NEW q \in Seq(S), NEW I \in SUBSET (1 .. Len(q))
    PROVE  Less(q, I) \in Seq(S)
<1> DEFINE i == CHOOSE i \in I : TRUE
           a == SubSeq(q, 1, i - 1)
           b == SubSeq(q, i + 1, Len(q))
<1>1. Less(q, I) = IF I = {} THEN q ELSE a \o b
  BY DEF Less, RemoveAt
<1>2. I # {} => i \in 1 .. Len(q)
  OBVIOUS
<1> HIDE DEF i
<1>3. I # {} => a \in Seq(S) /\ b \in Seq(S)
  BY <1>2
<1> HIDE DEF a, b
<1> QED BY <1>1, <1>3, ConcatParts

\* A roster without a member.
LEMMA MinusType ==
    ASSUME NEW r \in Seq(Members), NEW m
    PROVE  Minus(r, m) \in Seq(Members)
<1>1. {i \in DOMAIN r : r[i] = m} \in SUBSET (1 .. Len(r))
  OBVIOUS
<1> QED BY <1>1, LessType DEF Minus

-----------------------------------------------------------------------------
(* Handlers *)

\* What the handlers are made of.
LEMMA HandlerParts ==
    ASSUME NEW h \in Handlers
    PROVE  /\ h.op \in {"open", "select"} /\ h.phase \in Phases
           /\ h.state \in Projections \cup {NoParty}
           /\ h.all \in Seq(Members) /\ h.todo \in Seq(Members)
           /\ h.run \in Nat \cup {NoRun} /\ h.waiting \in BOOLEAN
           /\ h # Idle /\ h \notin Serves
BY DungeonAssumption DEF Handlers, Serves

\* What the execution of a call is made of.
LEMMA ServeParts ==
    ASSUME NEW h \in Serves
    PROVE  /\ h.op = "serve" /\ h.from \in Members /\ h.kind \in {"selector", "entry"}
           /\ h.state \in Projections \cup {NoParty}
           /\ h.run \in Nat \cup {NoRun} /\ h.live \in BOOLEAN
           /\ h # Idle /\ h \notin Handlers
BY DungeonAssumption DEF Handlers, Serves

\* A handler that goes to another phase visits everybody again.
LEMMA PhaseParts ==
    ASSUME NEW h \in Handlers, NEW p \in Phases
    PROVE  /\ Phase(h, p) \in Handlers
           /\ Phase(h, p).op = h.op /\ Phase(h, p).run = h.run /\ Phase(h, p).all = h.all
           /\ Phase(h, p).phase = p /\ Phase(h, p).todo = h.all /\ ~ Phase(h, p).waiting
BY DEF Handlers, Phase

\* A handler that has visited a member.
LEMMA VisitedParts ==
    ASSUME NEW h \in Handlers, h.todo # <<>>
    PROVE  /\ Visited(h) \in Handlers
           /\ Visited(h).op = h.op /\ Visited(h).run = h.run /\ Visited(h).all = h.all
           /\ Visited(h).phase = h.phase /\ Visited(h).todo = Tail(h.todo)
           /\ ~ Visited(h).waiting
<1>1. Tail(h.todo) \in Seq(Members)
  BY HandlerParts
<1> QED BY <1>1 DEF Handlers, Visited

\* A handler that waits for an answer.
LEMMA WaitingParts ==
    ASSUME NEW h \in Handlers
    PROVE  /\ [h EXCEPT !.waiting = TRUE] \in Handlers
           /\ [h EXCEPT !.waiting = TRUE].op = h.op /\ [h EXCEPT !.waiting = TRUE].run = h.run
           /\ [h EXCEPT !.waiting = TRUE].all = h.all
           /\ [h EXCEPT !.waiting = TRUE].phase = h.phase
           /\ [h EXCEPT !.waiting = TRUE].todo = h.todo
           /\ [h EXCEPT !.waiting = TRUE].waiting
BY DEF Handlers

\* A handler that an answer resumes.
LEMMA ResumedParts ==
    ASSUME NEW h \in Handlers, h.todo # <<>>, NEW r
    PROVE  /\ Resumed(h, r) \in Handlers
           /\ Resumed(h, r).op = h.op /\ Resumed(h, r).run = h.run
           /\ Resumed(h, r).phase \in {h.phase, "blocked", "failed"}
           /\ ~ Resumed(h, r).waiting
<1>1. "blocked" \in Phases /\ "failed" \in Phases
  BY DEF Phases
<1> QED BY <1>1, PhaseParts, VisitedParts DEF Resumed

\* A handler that is resumed outside the commits keeps what it is about.
LEMMA ResumedOK ==
    ASSUME NEW h \in Handlers, h.todo # <<>>, NEW s, NEW n, HandlerOK(h, s, n), NEW r,
           h.phase # "commit"
    PROVE  HandlerOK(Resumed(h, r), s, n)
<1> DEFINE g == Resumed(h, r)
<1>1. g.op = h.op /\ g.run = h.run /\ g.phase \in {h.phase, "blocked", "failed"}
  BY ResumedParts
<1> HIDE DEF g
<1>2. HandlerOK(g, s, n)
  BY <1>1 DEF HandlerOK
<1> QED BY <1>2 DEF g

\* A handler in any other phase than the commits.
LEMMA PhaseOK ==
    ASSUME NEW h \in Handlers, NEW s, NEW n, HandlerOK(h, s, n), NEW p \in Phases, p # "commit",
           p \in {"check", "preflight", "commit", "rollback", "announce", "enter"} => h.op = "select"
    PROVE  HandlerOK(Phase(h, p), s, n)
<1> DEFINE g == Phase(h, p)
<1>1. g.op = h.op /\ g.run = h.run /\ g.phase = p
  BY PhaseParts
<1> HIDE DEF g
<1>2. HandlerOK(g, s, n)
  BY <1>1 DEF HandlerOK
<1> QED BY <1>2 DEF g

-----------------------------------------------------------------------------
(* Steps of a handler that make or answer no call *)

\* A session that runs a handler of its own, or none, and waits for nothing.
Calm(s) == job[s] \notin Serves /\ ~ Waits(s)

\* What runs on a loop.
LEMMA JobParts ==
    ASSUME DInv, NEW s \in Members
    PROVE  /\ job[s] \in Jobs
           /\ Free(s) => job[s] \notin Handlers /\ job[s] \notin Serves
           /\ ~ Free(s) /\ job[s].op = "serve" => job[s] \in Serves
           /\ ~ Free(s) /\ job[s].op # "serve" => job[s] \in Handlers
           /\ ~ Free(s) /\ job[s].op = "select" => job[s] \in Handlers
<1>1. job[s] \in Jobs
  BY DEF DInv, Types
<1> QED BY <1>1, HandlerParts, ServeParts, DungeonAssumption DEF Jobs, Free

\* A handler that is at a phase.
LEMMA AtParts ==
    ASSUME DInv, NEW s \in Members, NEW p, At(s, p)
    PROVE  /\ job[s] \in Handlers /\ job[s].phase = p /\ ~ job[s].waiting
           /\ HandlerOK(job[s], s, runs) /\ Calm(s)
<1>1. job[s] \in Handlers /\ job[s].phase = p /\ ~ job[s].waiting
  BY JobParts DEF At
<1> QED BY <1>1, HandlerParts DEF DInv, HandlersOK, Calm, Waits

\* Nothing is queued or runs for a session that does not wait.
LEMMA CalmNotCalled ==
    ASSUME DInv, NEW s \in Members, ~ Waits(s)
    PROVE  \A m \in Members : ~ Queued(s, m) /\ ~ Running(s, m)
BY DEF DInv, CallsOK, CalledOK

\* Neither calls nor handlers that wait change.
LEMMA SameCalls ==
    ASSUME DInv, NEW s \in Members, Calm(s), NEW g \in {Idle} \cup Handlers,
           g \in Handlers => ~ g.waiting, job' = [job EXCEPT ![s] = g], inbox' = inbox
    PROVE  CallsOK'
<1>1. /\ job \in [Members -> Jobs] /\ job'[s] = g
      /\ \A m \in Members : m # s => job'[m] = job[m]
  BY DEF DInv, Types
<1>2. g \notin Serves
  BY HandlerParts, DungeonAssumption
<1>3. \A r, m \in Members : /\ Queued(r, m)' <=> Queued(r, m)
                            /\ Running(r, m)' <=> Running(r, m)
  BY <1>1, <1>2 DEF Queued, Running, Calm
<1>4. \A r \in Members : /\ Waits(r)' <=> Waits(r)
                         /\ Waits(r) => job'[r] = job[r]
  BY <1>1 DEF Waits, Calm
<1>5. CalledOK'
  BY <1>3, <1>4 DEF DInv, CallsOK, CalledOK
<1>6. OncePerLoop'
  BY <1>3 DEF DInv, CallsOK, OncePerLoop
<1>7. AnsweredOK'
  BY <1>3, <1>4 DEF DInv, CallsOK, AnsweredOK
<1> QED BY <1>5, <1>6, <1>7 DEF CallsOK

\* A handler that could withdraw a run is left alone, no run gets a member and
\* none loses its leader.
LEMMA SameOrphans ==
    ASSUME DInv,
           \A s \in Members : \/ job'[s] = job[s]
                              \/ job[s] \notin Handlers
                              \/ job[s].phase \notin {"commit", "rollback"},
           \A m \in Members : \/ runtime'[m] = NoRun
                              \/ runtime[m] # NoRun /\ runtime'[m].id = runtime[m].id,
           launched' = launched
    PROVE  OrphansOK'
<1> SUFFICES ASSUME NEW m \in Members, runtime'[m] # NoRun, runtime'[m].id \notin launched
             PROVE  \E s \in Members : Covers(job'[s], m, runtime'[m].id)
  BY DEF OrphansOK
<1>1. runtime[m] # NoRun /\ runtime'[m].id = runtime[m].id
  OBVIOUS
<1>2. PICK s \in Members : Covers(job[s], m, runtime[m].id)
  BY <1>1 DEF DInv, OrphansOK
<1>3. job'[s] = job[s]
  BY <1>2 DEF Covers
<1> QED BY <1>1, <1>2, <1>3

\* The same when no run changes.
LEMMA QuietOrphans ==
    ASSUME DInv,
           \A s \in Members : \/ job'[s] = job[s]
                              \/ job[s] \notin Handlers
                              \/ job[s].phase \notin {"commit", "rollback"},
           runtime' = runtime, launched' = launched
    PROVE  OrphansOK'
<1>1. \A m \in Members : \/ runtime'[m] = NoRun
                         \/ runtime[m] # NoRun /\ runtime'[m].id = runtime[m].id
  OBVIOUS
<1> QED BY <1>1, SameOrphans

\* The handlers of the others stay what they are.
LEMMA OneHandler ==
    ASSUME DInv, NEW s \in Members, NEW g \in Jobs, job' = [job EXCEPT ![s] = g],
           runs' \in Nat, runs <= runs',
           g \in Handlers => HandlerOK(g, s, runs'),
           g \in Serves => g.run \in {NoRun} \cup 1 .. runs'
    PROVE  HandlersOK' /\ job' \in [Members -> Jobs]
<1>1. /\ job \in [Members -> Jobs] /\ job'[s] = g /\ runs \in Nat
      /\ \A m \in Members : m # s => job'[m] = job[m]
  BY DEF DInv, Types, WorldTypes
<1>2. 1 .. runs \subseteq 1 .. runs'
  BY <1>1
<1>3. ASSUME NEW r \in Members
      PROVE  /\ job'[r] \in Handlers => HandlerOK(job'[r], r, runs')
             /\ job'[r] \in Serves => job'[r].run \in {NoRun} \cup 1 .. runs'
  <2>1. CASE r = s
    BY <1>1, <2>1
  <2>2. CASE r # s
    <3>1. /\ job[r] \in Handlers => HandlerOK(job[r], r, runs)
          /\ job[r] \in Serves => job[r].run \in {NoRun} \cup 1 .. runs
      BY DEF DInv, HandlersOK
    <3>2. ASSUME NEW h, HandlerOK(h, r, runs) PROVE HandlerOK(h, r, runs')
      BY <1>2, <3>2 DEF HandlerOK
    <3> QED BY <1>1, <1>2, <2>2, <3>1, <3>2
  <2> QED BY <2>1, <2>2
<1> QED BY <1>1, <1>3 DEF HandlersOK

\* A step of s that changes its handler and perhaps the selector pages, the
\* connections, the party or the runs sent, makes no call and gives nobody a
\* run.
LEMMA OwnRunStep ==
    ASSUME DInv, NEW s \in Members, Calm(s), NEW g \in {Idle} \cup Handlers,
           g \in Handlers => ~ g.waiting /\ HandlerOK(g, s, runs'),
           job' = [job EXCEPT ![s] = g], inbox' = inbox,
           job[s] \in Handlers => job[s].phase \notin {"commit", "rollback"},
           \A m \in Members : \/ runtime'[m] = NoRun
                              \/ runtime[m] # NoRun /\ runtime'[m].id = runtime[m].id,
           launched' = launched, WorldTypes', runs <= runs'
    PROVE  DInv'
<1>1. /\ job \in [Members -> Jobs] /\ \A m \in Members : m # s => job'[m] = job[m]
  BY DEF DInv, Types
<1>2. g \in Jobs /\ g \notin Serves
  BY HandlerParts, DungeonAssumption DEF Jobs
<1>3. CallsOK'
  BY SameCalls
<1>4. OrphansOK'
  BY <1>1, SameOrphans
<1>5. HandlersOK' /\ job' \in [Members -> Jobs]
  BY <1>2, OneHandler DEF WorldTypes
<1>6. Types'
  BY <1>5 DEF DInv, Types
<1> QED BY <1>3, <1>4, <1>5, <1>6 DEF DInv

\* The same when no run changes.
LEMMA OwnStep ==
    ASSUME DInv, NEW s \in Members, Calm(s), NEW g \in {Idle} \cup Handlers,
           g \in Handlers => ~ g.waiting /\ HandlerOK(g, s, runs'),
           job' = [job EXCEPT ![s] = g], inbox' = inbox,
           job[s] \in Handlers => job[s].phase \notin {"commit", "rollback"},
           UNCHANGED <<runtime, launched>>, WorldTypes', runs <= runs'
    PROVE  DInv'
<1>1. \A m \in Members : \/ runtime'[m] = NoRun
                         \/ runtime[m] # NoRun /\ runtime'[m].id = runtime[m].id
  OBVIOUS
<1> QED BY <1>1, OwnRunStep

-----------------------------------------------------------------------------
(* Steps that leave the loops alone *)

\* What happens to parties, pages, connections and runs beside the loops.
LEMMA WorldStep ==
    ASSUME DInv, UNCHANGED loops, UNCHANGED runs, UNCHANGED launched, WorldTypes',
           \A m \in Members : \/ runtime'[m] = NoRun
                              \/ runtime[m] # NoRun /\ runtime'[m].id = runtime[m].id
    PROVE  DInv'
<1>1. job' = job /\ inbox' = inbox /\ runs' = runs
  BY DEF loops
<1>2. Types'
  BY <1>1 DEF DInv, Types
<1>3. HandlersOK'
  BY <1>1 DEF DInv, HandlersOK
<1>4. CallsOK'
  BY <1>1 DEF DInv, CallsOK, CalledOK, OncePerLoop, AnsweredOK, Waits, Queued, Running
<1>5. OrphansOK'
  BY <1>1, SameOrphans
<1> QED BY <1>2, <1>3, <1>4, <1>5 DEF DInv

\* The runs of the others stay as they are.
LEMMA OneRuntime ==
    ASSUME WorldTypes, NEW m \in Members,
           NEW r \in {NoRun} \cup [id : 1 .. runs, over : BOOLEAN, leaving : BOOLEAN],
           runtime' = [runtime EXCEPT ![m] = r], runs' = runs
    PROVE  /\ runtime' \in [Members -> {NoRun} \cup [id : 1 .. runs', over : BOOLEAN, leaving : BOOLEAN]]
           /\ runtime'[m] = r /\ \A x \in Members : x # m => runtime'[x] = runtime[x]
BY DEF WorldTypes

\* A run is not the lack of one.
LEMMA NoRunIsNone ==
    ASSUME WorldTypes, NEW r \in [id : 1 .. runs, over : BOOLEAN, leaving : BOOLEAN]
    PROVE  r # NoRun
<1>1. 1 .. runs \subseteq Nat
  BY DEF WorldTypes
<1>2. r \in Runtimes
  BY <1>1 DEF Runtimes
<1> QED BY <1>2, DungeonAssumption

\* op132 on the selector page
LEMMA BackToVillageKept ==
    ASSUME DInv, NEW m \in Members, BackToVillage(m)
    PROVE  DInv'
<1>1. WorldTypes'
  BY DEF BackToVillage, DInv, Types, WorldTypes
<1>2. UNCHANGED loops /\ UNCHANGED runs /\ UNCHANGED launched /\ UNCHANGED runtime
  BY DEF BackToVillage
<1> QED BY <1>1, <1>2, WorldStep

\* What becomes of m when its return is confirmed.
LEMMA ResumeParts ==
    ASSUME WorldTypes, NEW m \in Members, NEW b \in BOOLEAN, Resume(m, b)
    PROVE  /\ runtime' \in [Members -> {NoRun} \cup [id : 1 .. runs, over : BOOLEAN, leaving : BOOLEAN]]
           /\ entered' \in [Members -> {NoRun} \cup 1 .. runs]
           /\ unsettled' \in [Members -> BOOLEAN]
           /\ \A x \in Members : runtime'[x] = NoRun \/ runtime'[x] = runtime[x]
           /\ \A x \in Members : x # m => /\ runtime'[x] = runtime[x] /\ entered'[x] = entered[x]
                                          /\ unsettled'[x] = unsettled[x]
           /\ runtime'[m] = Detached(m)
<1>1. Detached(m) \in {NoRun, runtime[m]}
  BY DEF Detached
<1>2. /\ runtime \in [Members -> {NoRun} \cup [id : 1 .. runs, over : BOOLEAN, leaving : BOOLEAN]]
      /\ entered \in [Members -> {NoRun} \cup 1 .. runs] /\ unsettled \in [Members -> BOOLEAN]
  BY DEF WorldTypes
<1>3. /\ runtime' = [runtime EXCEPT ![m] = Detached(m)]
      /\ unsettled' = [unsettled EXCEPT ![m] = ~ b]
      /\ entered' = [entered EXCEPT ![m] = NoRun] \/ entered' = [entered EXCEPT ![m] = entered[m]]
  BY DEF Resume
<1>4. (~ b) \in BOOLEAN
  OBVIOUS
<1>5. entered' \in [Members -> {NoRun} \cup 1 .. runs] /\ \A x \in Members : x # m => entered'[x] = entered[x]
  BY <1>2, <1>3
<1>6. unsettled' \in [Members -> BOOLEAN] /\ \A x \in Members : x # m => unsettled'[x] = unsettled[x]
  BY <1>2, <1>3, <1>4
<1>7. /\ runtime' \in [Members -> {NoRun} \cup [id : 1 .. runs, over : BOOLEAN, leaving : BOOLEAN]]
      /\ runtime'[m] = Detached(m) /\ \A x \in Members : x # m => runtime'[x] = runtime[x]
  BY <1>1, <1>2, <1>3
<1> QED BY <1>1, <1>5, <1>6, <1>7

\* op132 in a dungeon
LEMMA LeaveDungeonKept ==
    ASSUME DInv, NEW m \in Members, LeaveDungeon(m)
    PROVE  DInv' /\ runtime'[m].id = runtime[m].id /\ runtime'[m] # NoRun
           /\ \A x \in Members : x # m => runtime'[x] = runtime[x]
<1> DEFINE r == [runtime[m] EXCEPT !.leaving = TRUE]
<1>1. /\ UNCHANGED loops /\ UNCHANGED runs /\ UNCHANGED launched /\ runtime[m] # NoRun
      /\ runtime' = [runtime EXCEPT ![m] = r]
  BY DEF LeaveDungeon
<1>2. WorldTypes
  BY DEF DInv, Types
<1>3. runtime[m] \in [id : 1 .. runs, over : BOOLEAN, leaving : BOOLEAN]
  BY <1>1, <1>2 DEF WorldTypes
<1>4. r \in [id : 1 .. runs, over : BOOLEAN, leaving : BOOLEAN] /\ r.id = runtime[m].id
  BY <1>3
<1> HIDE DEF r
<1>5. r # NoRun
  BY <1>2, <1>4, NoRunIsNone
<1>6. /\ runtime' \in [Members -> {NoRun} \cup [id : 1 .. runs', over : BOOLEAN, leaving : BOOLEAN]]
      /\ runtime'[m] = r /\ \A x \in Members : x # m => runtime'[x] = runtime[x]
  BY <1>1, <1>2, <1>4, OneRuntime
<1>7. WorldTypes'
  BY <1>1, <1>2, <1>6 DEF LeaveDungeon, WorldTypes
<1>8. DInv'
  BY <1>1, <1>4, <1>6, <1>7, WorldStep
<1> QED BY <1>4, <1>5, <1>6, <1>8

\* The return is off.
LEMMA StayInDungeonKept ==
    ASSUME DInv, NEW m \in Members, StayInDungeon(m)
    PROVE  DInv' /\ runtime'[m].id = runtime[m].id /\ runtime'[m] # NoRun
           /\ \A x \in Members : x # m => runtime'[x] = runtime[x]
<1> DEFINE r == [runtime[m] EXCEPT !.leaving = FALSE]
<1>1. /\ UNCHANGED loops /\ UNCHANGED runs /\ UNCHANGED launched /\ runtime[m] # NoRun
      /\ runtime' = [runtime EXCEPT ![m] = r]
  BY DEF StayInDungeon, Leaving
<1>2. WorldTypes
  BY DEF DInv, Types
<1>3. runtime[m] \in [id : 1 .. runs, over : BOOLEAN, leaving : BOOLEAN]
  BY <1>1, <1>2 DEF WorldTypes
<1>4. r \in [id : 1 .. runs, over : BOOLEAN, leaving : BOOLEAN] /\ r.id = runtime[m].id
  BY <1>3
<1> HIDE DEF r
<1>5. r # NoRun
  BY <1>2, <1>4, NoRunIsNone
<1>6. /\ runtime' \in [Members -> {NoRun} \cup [id : 1 .. runs', over : BOOLEAN, leaving : BOOLEAN]]
      /\ runtime'[m] = r /\ \A x \in Members : x # m => runtime'[x] = runtime[x]
  BY <1>1, <1>2, <1>4, OneRuntime
<1>7. WorldTypes'
  BY <1>1, <1>2, <1>6 DEF StayInDungeon, WorldTypes
<1>8. DInv'
  BY <1>1, <1>4, <1>6, <1>7, WorldStep
<1> QED BY <1>4, <1>5, <1>6, <1>8

\* A town packet confirms the return.
LEMMA ConfirmReturnKept ==
    ASSUME DInv, NEW m \in Members, ConfirmReturn(m)
    PROVE  DInv' /\ runtime'[m] = Detached(m)
           /\ \A x \in Members : x # m => runtime'[x] = runtime[x]
<1>1. WorldTypes
  BY DEF DInv, Types
<1>2. PICK b \in BOOLEAN : Resume(m, b)
  BY DEF ConfirmReturn
<1>3. /\ runtime' \in [Members -> {NoRun} \cup [id : 1 .. runs, over : BOOLEAN, leaving : BOOLEAN]]
      /\ entered' \in [Members -> {NoRun} \cup 1 .. runs]
      /\ unsettled' \in [Members -> BOOLEAN]
      /\ \A x \in Members : runtime'[x] = NoRun \/ runtime'[x] = runtime[x]
      /\ \A x \in Members : x # m => runtime'[x] = runtime[x]
      /\ runtime'[m] = Detached(m)
  BY <1>1, <1>2, ResumeParts
<1>4. UNCHANGED loops /\ UNCHANGED <<runs, launched, page, party, view>>
  BY DEF ConfirmReturn
<1>5. conn' \in [Members -> {"open", "failed", "closed"}]
  BY <1>1 DEF ConfirmReturn, WorldTypes
<1>6. origin' \in [Members -> BOOLEAN] /\ \A x \in Members : origin'[x] => origin[x]
  BY <1>1 DEF ConfirmReturn, WorldTypes
<1>7. WorldTypes'
  BY <1>1, <1>3, <1>4, <1>5, <1>6 DEF WorldTypes
<1> QED BY <1>3, <1>4, <1>7, WorldStep

\* Another area of the town
LEMMA MoveTownKept ==
    ASSUME DInv, NEW m \in Members, MoveTown(m)
    PROVE  DInv' /\ runtime'[m] \in {Detached(m), runtime[m]}
           /\ \A x \in Members : x # m => runtime'[x] = runtime[x]
<1>1. WorldTypes
  BY DEF DInv, Types
<1>2. /\ runtime' \in [Members -> {NoRun} \cup [id : 1 .. runs, over : BOOLEAN, leaving : BOOLEAN]]
      /\ entered' \in [Members -> {NoRun} \cup 1 .. runs]
      /\ unsettled' \in [Members -> BOOLEAN]
      /\ \A x \in Members : runtime'[x] = NoRun \/ runtime'[x] = runtime[x]
      /\ \A x \in Members : x # m => runtime'[x] = runtime[x]
      /\ runtime'[m] \in {Detached(m), runtime[m]}
  <2>1. CASE Resume(m, TRUE)
    BY <1>1, <2>1, ResumeParts
  <2>2. CASE UNCHANGED <<runtime, unsettled, entered>>
    BY <1>1, <2>2 DEF WorldTypes
  <2> QED BY <2>1, <2>2 DEF MoveTown
<1>3. UNCHANGED loops /\ UNCHANGED <<runs, launched, conn, party, view>>
  BY DEF MoveTown
<1>4. /\ page' \in [Members -> BOOLEAN] /\ origin' \in [Members -> BOOLEAN]
      /\ \A x \in Members : origin'[x] => page'[x]
  BY <1>1 DEF MoveTown, WorldTypes
<1>5. WorldTypes'
  BY <1>1, <1>2, <1>3, <1>4 DEF WorldTypes
<1> QED BY <1>2, <1>3, <1>5, WorldStep

\* The way to town from the settlement
LEMMA FinishDungeonKept ==
    ASSUME DInv, NEW m \in Members, FinishDungeon(m)
    PROVE  DInv' /\ \A x \in Members : x # m => runtime'[x] = runtime[x]
<1>1. /\ UNCHANGED loops /\ UNCHANGED runs /\ UNCHANGED launched
      /\ runtime' = [runtime EXCEPT ![m] = NoRun]
  BY DEF FinishDungeon
<1>2. WorldTypes
  BY DEF DInv, Types
<1>3. /\ runtime' \in [Members -> {NoRun} \cup [id : 1 .. runs', over : BOOLEAN, leaving : BOOLEAN]]
      /\ runtime'[m] = NoRun /\ \A x \in Members : x # m => runtime'[x] = runtime[x]
  BY <1>1, <1>2, OneRuntime
<1>4. /\ page' \in [Members -> BOOLEAN] /\ origin' \in [Members -> BOOLEAN]
      /\ unsettled' \in [Members -> BOOLEAN] /\ entered' \in [Members -> {NoRun} \cup 1 .. runs]
      /\ \A x \in Members : origin'[x] => page'[x]
  BY <1>2 DEF FinishDungeon, WorldTypes
<1>5. WorldTypes'
  BY <1>1, <1>2, <1>3, <1>4 DEF FinishDungeon, WorldTypes
<1> QED BY <1>1, <1>3, <1>5, WorldStep

\* The boss dies.
LEMMA CompleteKept ==
    ASSUME DInv, NEW m \in Members, Complete(m)
    PROVE  DInv' /\ runtime'[m].id = runtime[m].id /\ runtime'[m] # NoRun
           /\ \A x \in Members : x # m => runtime'[x] = runtime[x]
<1> DEFINE r == [runtime[m] EXCEPT !.over = TRUE]
<1>1. /\ UNCHANGED loops /\ UNCHANGED runs /\ UNCHANGED launched /\ runtime[m] # NoRun
      /\ runtime' = [runtime EXCEPT ![m].over = TRUE]
  BY DEF Complete
<1>2. WorldTypes
  BY DEF DInv, Types
<1>3. runtime[m] \in [id : 1 .. runs, over : BOOLEAN, leaving : BOOLEAN] /\ runs \in Nat
  BY <1>1, <1>2 DEF WorldTypes
<1>4. r \in [id : 1 .. runs, over : BOOLEAN, leaving : BOOLEAN] /\ r.id = runtime[m].id
  BY <1>3
<1>6. runtime' = [runtime EXCEPT ![m] = r]
  BY <1>1
<1> HIDE DEF r
<1>5. r # NoRun
  BY <1>2, <1>4, NoRunIsNone
<1>7. /\ runtime' \in [Members -> {NoRun} \cup [id : 1 .. runs', over : BOOLEAN, leaving : BOOLEAN]]
      /\ runtime'[m] = r /\ \A x \in Members : x # m => runtime'[x] = runtime[x]
  BY <1>1, <1>2, <1>4, <1>6, OneRuntime
<1>8. WorldTypes'
  BY <1>1, <1>2, <1>7 DEF Complete, WorldTypes, towns
<1>9. DInv'
  BY <1>1, <1>4, <1>7, <1>8, WorldStep
<1> QED BY <1>4, <1>5, <1>7, <1>9

\* Who stays when m leaves is a party.
LEMMA WithoutType ==
    ASSUME WorldTypes, NEW m
    PROVE  Without(m) \in Projections
<1>1. party.id \in Nat /\ party.roster \in Seq(Members)
  BY DEF WorldTypes, Projections
<1>2. Minus(party.roster, m) \in Seq(Members)
  BY <1>1, MinusType
<1> QED BY <1>1, <1>2 DEF Without, Projections

\* A member leaves or is kicked.
LEMMA DepartKept ==
    ASSUME DInv, NEW m \in Members, Depart(m)
    PROVE  DInv'
<1>1. WorldTypes'
  BY WithoutType DEF Depart, DInv, Types, WorldTypes, dungeons, towns
<1>2. UNCHANGED loops /\ UNCHANGED runs /\ UNCHANGED launched /\ UNCHANGED runtime
  BY DEF Depart, dungeons, towns
<1> QED BY <1>1, <1>2, WorldStep

\* A snapshot reaches a session.
LEMMA PublishKept ==
    ASSUME DInv, NEW m \in Members, Publish(m)
    PROVE  DInv'
<1>1. WorldTypes'
  BY DEF Publish, Seen, DInv, Types, WorldTypes, dungeons, towns
<1>2. UNCHANGED loops /\ UNCHANGED runs /\ UNCHANGED launched /\ UNCHANGED runtime
  BY DEF Publish, dungeons, towns
<1> QED BY <1>1, <1>2, WorldStep

\* The client goes away.
LEMMA DisconnectKept ==
    ASSUME DInv, NEW m \in Members, Disconnect(m)
    PROVE  DInv'
<1>1. WorldTypes'
  BY DEF Disconnect, DInv, Types, WorldTypes, dungeons, towns
<1>2. UNCHANGED loops /\ UNCHANGED runs /\ UNCHANGED launched /\ UNCHANGED runtime
  BY DEF Disconnect, dungeons, towns
<1> QED BY <1>1, <1>2, WorldStep

-----------------------------------------------------------------------------
(* Steps of a handler that make no call *)

\* A loop without a handler.
LEMMA FreeIsCalm ==
    ASSUME DInv, NEW s \in Members, Free(s)
    PROVE  Calm(s) /\ job[s] \notin Handlers
BY JobParts DEF Calm, Waits

\* op15
LEMMA OpenSelectorKept ==
    ASSUME DInv, NEW s \in Members, OpenSelector(s)
    PROVE  DInv'
<1> DEFINE a == IF view[s] = NoParty THEN <<>> ELSE Others(view[s], s)
           g == Handler("open", "sync", view[s], a, NoRun)
<1>1. /\ Free(s) /\ job' = [job EXCEPT ![s] = g] /\ inbox' = inbox /\ UNCHANGED runs
      /\ launched' = launched /\ runtime' = [runtime EXCEPT ![s] = NoRun]
  BY DEF OpenSelector
<1>2. WorldTypes' /\ \A x \in Members : runtime'[x] = NoRun \/ runtime'[x] = runtime[x]
  <2>1. WorldTypes
    BY DEF DInv, Types
  <2>2. /\ runtime' \in [Members -> {NoRun} \cup [id : 1 .. runs', over : BOOLEAN, leaving : BOOLEAN]]
        /\ runtime'[s] = NoRun /\ \A x \in Members : x # s => runtime'[x] = runtime[x]
    BY <1>1, <2>1, OneRuntime
  <2>3. /\ page' \in [Members -> BOOLEAN] /\ origin' \in [Members -> BOOLEAN]
        /\ unsettled' \in [Members -> BOOLEAN] /\ entered' \in [Members -> {NoRun} \cup 1 .. runs]
        /\ \A x \in Members : origin'[x] => page'[x]
    BY <2>1 DEF OpenSelector, WorldTypes
  <2>4. WorldTypes'
    BY <1>1, <2>1, <2>2, <2>3 DEF OpenSelector, WorldTypes
  <2> QED BY <2>2, <2>4
<1>3. view[s] \in Projections \cup {NoParty} /\ runs \in Nat
  BY DEF DInv, Types, WorldTypes
<1>4. a \in Seq(Members)
  <2>1. CASE view[s] = NoParty
    BY <2>1
  <2>2. CASE view[s] # NoParty
    BY <1>3, <2>2, MinusType DEF Others, Projections
  <2> QED BY <2>1, <2>2
<1> HIDE DEF a
<1>5. g \in Handlers /\ g.op = "open" /\ g.phase = "sync" /\ g.run = NoRun /\ ~ g.waiting
  <2>1. "sync" \in Phases
    BY DEF Phases
  <2> QED BY <1>3, <1>4, <2>1 DEF Handler, Handlers
<1> HIDE DEF g
<1>6. HandlerOK(g, s, runs') /\ runs <= runs'
  BY <1>1, <1>3, <1>5 DEF HandlerOK
<1> QED BY <1>1, <1>2, <1>3, <1>5, <1>6, FreeIsCalm, OwnRunStep

\* op16: the return it confirms
LEMMA SelectResumes ==
    ASSUME DInv, NEW s \in Members, SelectDungeon(s)
    PROVE  /\ WorldTypes' /\ launched' = launched /\ inbox' = inbox /\ runs <= runs' /\ Free(s)
           /\ \A x \in Members : runtime'[x] = NoRun \/ runtime'[x] = runtime[x]
           /\ \A x \in Members : x # s => runtime'[x] = runtime[x]
           /\ runtime'[s] = Detached(s)
<1>1. WorldTypes
  BY DEF DInv, Types
<1>2. PICK b \in BOOLEAN : Resume(s, b)
  BY DEF SelectDungeon
<1>3. /\ runtime' \in [Members -> {NoRun} \cup [id : 1 .. runs, over : BOOLEAN, leaving : BOOLEAN]]
      /\ entered' \in [Members -> {NoRun} \cup 1 .. runs]
      /\ unsettled' \in [Members -> BOOLEAN]
      /\ \A x \in Members : runtime'[x] = NoRun \/ runtime'[x] = runtime[x]
      /\ \A x \in Members : x # s => runtime'[x] = runtime[x]
      /\ runtime'[s] = Detached(s)
  BY <1>1, <1>2, ResumeParts
<1>4. /\ runs' \in {runs, runs + 1} /\ Free(s)
      /\ UNCHANGED <<party, view, page, origin, launched, conn, inbox>>
  BY DEF SelectDungeon
<1>5. runs \in Nat /\ runs' \in Nat /\ runs <= runs' /\ 1 .. runs \subseteq 1 .. runs'
  BY <1>1, <1>4 DEF WorldTypes
<1>6. runtime' \in [Members -> {NoRun} \cup [id : 1 .. runs', over : BOOLEAN, leaving : BOOLEAN]]
  BY <1>3, <1>5
<1>7. entered' \in [Members -> {NoRun} \cup 1 .. runs']
  BY <1>3, <1>5
<1>8. WorldTypes'
  BY <1>1, <1>3, <1>4, <1>5, <1>6, <1>7 DEF WorldTypes
<1> QED BY <1>3, <1>4, <1>5, <1>8

\* op16
LEMMA SelectDungeonKept ==
    ASSUME DInv, NEW s \in Members, SelectDungeon(s)
    PROVE  DInv'
<1> DEFINE a == IF view[s] = NoParty \/ Head(view[s].roster) # s THEN <<>>
                ELSE Others(view[s], s)
           g == Handler("select", "check", view[s], a, runs + 1)
<1>1. /\ WorldTypes' /\ launched' = launched /\ inbox' = inbox /\ runs <= runs' /\ Free(s)
      /\ \A x \in Members : runtime'[x] = NoRun \/ runtime'[x] = runtime[x]
  BY SelectResumes
<1>2. view[s] \in Projections \cup {NoParty} /\ runs \in Nat
  BY DEF DInv, Types, WorldTypes
<1>3. CASE UNCHANGED <<job, runs>>
  <2>1. UNCHANGED loops /\ UNCHANGED runs
    BY <1>1, <1>3 DEF loops
  <2> QED BY <1>1, <2>1, WorldStep
<1>4. a \in Seq(Members)
  <2>1. CASE view[s] = NoParty
    BY <2>1
  <2>2. CASE view[s] # NoParty
    BY <1>2, <2>2, MinusType DEF Others, Projections
  <2> QED BY <2>1, <2>2
<1>5. CASE runs' = runs + 1 /\ job' = [job EXCEPT ![s] = g]
  <2> HIDE DEF a
  <2>1. g \in Handlers /\ g.op = "select" /\ g.phase = "check" /\ g.run = runs' /\ ~ g.waiting
    <3>1. "check" \in Phases /\ runs + 1 \in Nat
      BY <1>2 DEF Phases
    <3> QED BY <1>2, <1>4, <1>5, <3>1 DEF Handler, Handlers
  <2> HIDE DEF g
  <2>2. HandlerOK(g, s, runs')
    BY <1>2, <1>5, <2>1 DEF HandlerOK
  <2>3. Calm(s) /\ job[s] \notin Handlers
    BY <1>1, FreeIsCalm
  <2> QED BY <1>1, <1>5, <2>1, <2>2, <2>3, OwnRunStep
<1> QED BY <1>3, <1>5 DEF SelectDungeon

\* A step beside the commits that leaves the world as it is.
LEMMA HandlerStep ==
    ASSUME DInv, NEW s \in Members, NEW p, At(s, p), p \notin {"commit", "rollback"},
           NEW g \in Handlers, ~ g.waiting, HandlerOK(g, s, runs),
           job' = [job EXCEPT ![s] = g], inbox' = inbox,
           UNCHANGED <<runtime, launched, runs>>, WorldTypes'
    PROVE  DInv'
<1>1. Calm(s) /\ (job[s] \in Handlers => job[s].phase \notin {"commit", "rollback"})
  BY AtParts
<1>2. HandlerOK(g, s, runs') /\ runs <= runs'
  BY DEF DInv, Types, WorldTypes
<1> QED BY <1>1, <1>2, OwnStep

\* The handler goes to another phase.
LEMMA GotoKept ==
    ASSUME DInv, NEW s \in Members, NEW p, At(s, p), p \notin {"commit", "rollback"},
           NEW q \in Phases, q # "commit", Goto(s, q),
           q \in {"check", "preflight", "commit", "rollback", "announce", "enter"} => job[s].op = "select",
           UNCHANGED <<runtime, launched, runs>>, WorldTypes'
    PROVE  DInv'
<1>1. job[s] \in Handlers /\ HandlerOK(job[s], s, runs)
  BY AtParts
<1> DEFINE g == Phase(job[s], q)
<1>2. g \in Handlers /\ ~ g.waiting
  BY <1>1, PhaseParts
<1>3. HandlerOK(g, s, runs)
  BY <1>1, PhaseOK
<1>4. job' = [job EXCEPT ![s] = g] /\ inbox' = inbox
  BY DEF Goto
<1> HIDE DEF g
<1> QED BY <1>2, <1>3, <1>4, HandlerStep

\* A handler whose phase, run and members stay keeps what it is about.
LEMMA VisitedOK ==
    ASSUME NEW h \in Handlers, h.todo # <<>>, NEW s, NEW n, HandlerOK(h, s, n), h.phase # "commit"
    PROVE  HandlerOK(Visited(h), s, n)
<1> DEFINE g == Visited(h)
<1>1. g.op = h.op /\ g.run = h.run /\ g.phase = h.phase
  BY VisitedParts
<1> HIDE DEF g
<1>2. HandlerOK(g, s, n)
  BY <1>1 DEF HandlerOK
<1> QED BY <1>2 DEF g

\* The handler goes on to the next member.
LEMMA VisitKept ==
    ASSUME DInv, NEW s \in Members, NEW p, At(s, p), p \notin {"commit", "rollback"},
           job[s].todo # <<>>, job' = [job EXCEPT ![s] = Visited(job[s])], inbox' = inbox,
           UNCHANGED <<runtime, launched, runs>>, WorldTypes'
    PROVE  DInv'
<1>1. job[s] \in Handlers /\ HandlerOK(job[s], s, runs) /\ job[s].phase # "commit"
  BY AtParts
<1> DEFINE g == Visited(job[s])
<1>2. g \in Handlers /\ ~ g.waiting
  BY <1>1, VisitedParts
<1>3. HandlerOK(g, s, runs)
  BY <1>1, VisitedOK
<1> HIDE DEF g
<1>4. job' = [job EXCEPT ![s] = g]
  BY DEF g
<1> QED BY <1>2, <1>3, <1>4, HandlerStep

-----------------------------------------------------------------------------
(* Calls *)

\* A waiting handler is about the same things.
LEMMA WaitingOK ==
    ASSUME NEW h \in Handlers, NEW s, NEW n, HandlerOK(h, s, n), h.phase # "commit"
    PROVE  HandlerOK([h EXCEPT !.waiting = TRUE], s, n)
<1> DEFINE g == [h EXCEPT !.waiting = TRUE]
<1>1. g.op = h.op /\ g.run = h.run /\ g.phase = h.phase
  BY WaitingParts
<1> HIDE DEF g
<1>2. HandlerOK(g, s, n)
  BY <1>1 DEF HandlerOK
<1> QED BY <1>2 DEF g

\* A queued call: its caller waits from now on.
LEMMA QueuedKept ==
    ASSUME DInv, NEW s \in Members, NEW p \in {"sync", "preflight", "enter"}, At(s, p),
           job[s].todo # <<>>, NEW m \in Members, m = Head(job[s].todo),
           NEW c \in Calls, c.from = s, inbox' = [inbox EXCEPT ![m] = Append(@, c)],
           job' = [job EXCEPT ![s].waiting = TRUE],
           UNCHANGED <<runtime, launched, runs>>, WorldTypes'
    PROVE  DInv'
<1> DEFINE g == [job[s] EXCEPT !.waiting = TRUE]
<1>1. job[s] \in Handlers /\ job[s].phase = p /\ HandlerOK(job[s], s, runs) /\ Calm(s)
  BY AtParts
<1>2. /\ g \in Handlers /\ g.phase = p /\ g.todo = job[s].todo /\ g.waiting
  BY <1>1, WaitingParts
<1>3. HandlerOK(g, s, runs)
  BY <1>1, WaitingOK
<1>4. job' = [job EXCEPT ![s] = g]
  OBVIOUS
<1> HIDE DEF g
<1>5. /\ job \in [Members -> Jobs] /\ job'[s] = g
      /\ \A x \in Members : x # s => job'[x] = job[x]
  BY <1>4 DEF DInv, Types
<1>6. g \notin Serves /\ g \in Jobs /\ job[s] \notin Serves
  BY <1>1, <1>2, HandlerParts DEF Jobs
<1>7. HandlersOK' /\ job' \in [Members -> Jobs]
  <2>1. runs' \in Nat /\ runs <= runs' /\ HandlerOK(g, s, runs')
    BY <1>3 DEF WorldTypes
  <2> QED BY <1>4, <1>6, <2>1, OneHandler
<1>8. /\ inbox' \in [Members -> Seq(Calls)]
      /\ \A x \in Members : x # m => inbox'[x] = inbox[x]
      /\ Len(inbox'[m]) = Len(inbox[m]) + 1
      /\ Len(inbox[m]) \in Nat
      /\ \A i \in 1 .. Len(inbox[m]) : inbox'[m][i] = inbox[m][i]
      /\ inbox'[m][Len(inbox[m]) + 1] = c
      /\ \A r, x \in Members : Queued(r, x)' <=> Queued(r, x) \/ (r = s /\ x = m)
  <2>1. inbox \in [Members -> Seq(Calls)]
    BY DEF DInv, Types
  <2>2. /\ inbox' \in [Members -> Seq(Calls)]
        /\ \A x \in Members : x # m => inbox'[x] = inbox[x]
        /\ inbox'[m] = Append(inbox[m], c)
    <3> DEFINE q == Append(inbox[m], c)
    <3>1. q \in Seq(Calls)
      BY <2>1
    <3>2. inbox' = [inbox EXCEPT ![m] = q]
      OBVIOUS
    <3> HIDE DEF q
    <3>3. /\ inbox' \in [Members -> Seq(Calls)]
          /\ \A x \in Members : x # m => inbox'[x] = inbox[x]
          /\ inbox'[m] = q
      BY ONLY <2>1, <3>1, <3>2, m \in Members
    <3> QED BY <3>3 DEF q
  <2>3. /\ Len(inbox'[m]) = Len(inbox[m]) + 1
        /\ Len(inbox[m]) \in Nat
        /\ \A i \in 1 .. Len(inbox[m]) : inbox'[m][i] = inbox[m][i]
        /\ inbox'[m][Len(inbox[m]) + 1] = c
        /\ \A r, x \in Members : Queued(r, x)' <=> Queued(r, x) \/ (r = s /\ x = m)
    <3>1. /\ Len(inbox'[m]) = Len(inbox[m]) + 1 /\ Len(inbox[m]) \in Nat
          /\ \A i \in 1 .. Len(inbox[m]) : inbox'[m][i] = inbox[m][i]
          /\ inbox'[m][Len(inbox[m]) + 1] = c
      BY ONLY <2>1, <2>2, m \in Members, c \in Calls
    <3>2. ASSUME NEW r \in Members, NEW x \in Members
          PROVE  Queued(r, x)' <=> Queued(r, x) \/ (r = s /\ x = m)
      <4>1. CASE x # m
        BY ONLY <2>2, <4>1, x \in Members DEF Queued
      <4>2. CASE x = m
        <5>1. Queued(r, m)' <=> \E i \in 1 .. Len(inbox[m]) + 1 : inbox'[m][i].from = r
          BY ONLY <3>1 DEF Queued
        <5>2. (\E i \in 1 .. Len(inbox[m]) + 1 : inbox'[m][i].from = r) <=>
                 \/ \E i \in 1 .. Len(inbox[m]) : inbox'[m][i].from = r
                 \/ inbox'[m][Len(inbox[m]) + 1].from = r
          BY ONLY <3>1
        <5>3. (\E i \in 1 .. Len(inbox[m]) : inbox'[m][i].from = r) <=> Queued(r, m)
          BY ONLY <3>1 DEF Queued
        <5> QED BY ONLY <3>1, <4>2, <5>1, <5>2, <5>3, c.from = s
      <4> QED BY <4>1, <4>2
    <3> QED BY <3>1, <3>2
  <2> QED BY <2>2, <2>3
<1>9. Types'
  BY <1>7, <1>8 DEF Types
<1>10. \A x \in Members : ~ Queued(s, x) /\ ~ Running(s, x)
  BY <1>1, CalmNotCalled DEF Calm
<1>11. \A r, x \in Members : Running(r, x)' <=> Running(r, x)
  BY <1>5, <1>6 DEF Running
<1>12. \A r \in Members : /\ r # s => (Waits(r)' <=> Waits(r)) /\ job'[r] = job[r]
                          /\ r = s => Waits(r)'
  BY <1>2, <1>5 DEF Waits
<1>13. CalledOK'
  <2> SUFFICES ASSUME NEW r \in Members, NEW x \in Members, (Queued(r, x) \/ Running(r, x))'
               PROVE  Waits(r)' /\ job'[r].todo # <<>> /\ x = Head(job'[r].todo)
    BY DEF CalledOK
  <2>1. CASE r = s
    BY <1>2, <1>5, <1>8, <1>10, <1>11, <1>12, <2>1
  <2>2. CASE r # s
    BY <1>8, <1>11, <1>12, <2>2 DEF DInv, CallsOK, CalledOK
  <2> QED BY <2>1, <2>2
<1>14. OncePerLoop'
  <2>1. ASSUME NEW x \in Members, NEW r \in Members PROVE ~ (Queued(r, x)' /\ Running(r, x)')
    BY <1>8, <1>10, <1>11 DEF DInv, CallsOK, OncePerLoop
  <2>2. ASSUME NEW x \in Members, NEW i \in 1 .. Len(inbox'[x]), NEW j \in 1 .. Len(inbox'[x]),
               inbox'[x][i].from = inbox'[x][j].from
        PROVE  i = j
    <3>1. CASE x # m
      BY <1>8, <2>2, <3>1 DEF DInv, CallsOK, OncePerLoop
    <3>2. CASE x = m
      <4>1. \A k \in 1 .. Len(inbox[m]) : inbox[m][k].from # s
        BY <1>10 DEF Queued
      <4>2. \A k \in 1 .. Len(inbox[m]) + 1 : \/ k \in 1 .. Len(inbox[m]) /\ inbox'[m][k] = inbox[m][k]
                                              \/ k = Len(inbox[m]) + 1 /\ inbox'[m][k].from = s
        BY <1>8
      <4>3. \A k, l \in 1 .. Len(inbox[m]) : inbox[m][k].from = inbox[m][l].from => k = l
        BY DEF DInv, CallsOK, OncePerLoop
      <4>4. i \in 1 .. Len(inbox[m]) + 1 /\ j \in 1 .. Len(inbox[m]) + 1
            /\ inbox'[m][i].from = inbox'[m][j].from
        BY <1>8, <2>2, <3>2
      <4> QED BY <4>1, <4>2, <4>3, <4>4
    <3> QED BY <3>1, <3>2
  <2> QED BY <2>1, <2>2 DEF OncePerLoop
<1>15. AnsweredOK'
  <2> SUFFICES ASSUME NEW r \in Members, Waits(r)'
               PROVE  /\ job'[r].phase \in {"sync", "preflight", "enter"}
                      /\ \E x \in Members : Queued(r, x)' \/ Running(r, x)'
    BY DEF AnsweredOK
  <2>1. CASE r = s
    BY <1>2, <1>5, <1>8, <2>1
  <2>2. CASE r # s
    BY <1>8, <1>11, <1>12, <2>2 DEF DInv, CallsOK, AnsweredOK
  <2> QED BY <2>1, <2>2
<1>16. OrphansOK'
  <2>1. \A r \in Members : \/ job'[r] = job[r] \/ job[r].phase \notin {"commit", "rollback"}
    BY <1>1, <1>5
  <2> QED BY <2>1, QuietOrphans
<1> QED BY <1>7, <1>9, <1>13, <1>14, <1>15, <1>16 DEF DInv, CallsOK

\* callGameSession, at an open loop and at a closed one.
LEMMA CallKept ==
    ASSUME DInv, NEW s \in Members, NEW p \in {"sync", "preflight", "enter"}, At(s, p),
           job[s].todo # <<>>, NEW kind \in {"selector", "entry"},
           Call(s, Head(job[s].todo), kind),
           UNCHANGED <<runtime, launched, runs>>, WorldTypes'
    PROVE  DInv'
<1> DEFINE m == Head(job[s].todo)
           c == [from |-> s, kind |-> kind]
<1>1. job[s] \in Handlers /\ job[s].phase = p /\ HandlerOK(job[s], s, runs)
  BY AtParts
<1>2. m \in Members
  BY <1>1, HandlerParts
<1>3. CASE conn[m] = "closed"
  <2> DEFINE g == Resumed(job[s], "error")
  <2>1. job' = [job EXCEPT ![s] = g] /\ inbox' = inbox
    BY <1>3 DEF Call
  <2>2. g \in Handlers /\ ~ g.waiting /\ HandlerOK(g, s, runs)
    BY <1>1, ResumedParts, ResumedOK
  <2> HIDE DEF g
  <2> QED BY <2>1, <2>2, HandlerStep
<1>4. CASE conn[m] # "closed"
  <2>1. /\ inbox' = [inbox EXCEPT ![m] = Append(@, c)]
        /\ job' = [job EXCEPT ![s].waiting = TRUE]
    BY <1>4 DEF Call
  <2>2. c \in Calls /\ c.from = s
    BY DEF Calls
  <2> HIDE DEF c
  <2> QED BY <1>2, <2>1, <2>2, QueuedKept
<1> QED BY <1>3, <1>4

-----------------------------------------------------------------------------
(* The phases before and after the commits *)

\* A step that changes the loops only.
LEMMA LoopWorld ==
    ASSUME DInv, UNCHANGED <<party, view, towns, dungeons, conn, runs>>
    PROVE  WorldTypes' /\ UNCHANGED <<runtime, launched, runs>>
BY DEF DInv, Types, WorldTypes, dungeons, towns

\* synchronizeRuntimePartyMembersEnterSelect
LEMMA SyncKept ==
    ASSUME DInv, NEW s \in Members, Sync(s)
    PROVE  DInv'
<1>1. At(s, "sync") /\ WorldTypes' /\ UNCHANGED <<runtime, launched, runs>>
  BY LoopWorld DEF Sync
<1>2. "done" \in Phases
  BY DEF Phases
<1>3. \/ Goto(s, "done")
      \/ job[s].todo # <<>> /\ job' = [job EXCEPT ![s] = Visited(job[s])] /\ inbox' = inbox
      \/ job[s].todo # <<>> /\ Call(s, Head(job[s].todo), "selector")
  BY DEF Sync
<1>4. CASE Goto(s, "done")
  BY <1>1, <1>2, <1>4, GotoKept
<1>5. CASE job[s].todo # <<>> /\ job' = [job EXCEPT ![s] = Visited(job[s])] /\ inbox' = inbox
  BY <1>1, <1>5, VisitKept
<1>6. CASE job[s].todo # <<>> /\ Call(s, Head(job[s].todo), "selector")
  BY <1>1, <1>6, CallKept
<1> QED BY <1>3, <1>4, <1>5, <1>6

\* Beyond the selector only op16 gets.
LEMMA SelectAt ==
    ASSUME DInv, NEW s \in Members,
           NEW p \in {"check", "preflight", "commit", "rollback", "announce", "enter"}, At(s, p)
    PROVE  job[s].op = "select"
BY AtParts DEF HandlerOK

\* prepareRuntimePartyDungeonEntry, first loop
LEMMA CheckKept ==
    ASSUME DInv, NEW s \in Members, Check(s)
    PROVE  DInv'
<1>1. At(s, "check") /\ WorldTypes' /\ UNCHANGED <<runtime, launched, runs>>
  BY LoopWorld DEF Check
<1>2. "preflight" \in Phases /\ "blocked" \in Phases /\ job[s].op = "select"
  BY <1>1, SelectAt DEF Phases
<1>3. \/ Goto(s, "preflight") \/ Goto(s, "blocked")
      \/ job[s].todo # <<>> /\ job' = [job EXCEPT ![s] = Visited(job[s])] /\ inbox' = inbox
  BY DEF Check
<1>4. CASE Goto(s, "preflight")
  BY <1>1, <1>2, <1>4, GotoKept
<1>5. CASE Goto(s, "blocked")
  BY <1>1, <1>2, <1>5, GotoKept
<1>6. CASE job[s].todo # <<>> /\ job' = [job EXCEPT ![s] = Visited(job[s])] /\ inbox' = inbox
  BY <1>1, <1>6, VisitKept
<1> QED BY <1>3, <1>4, <1>5, <1>6

\* The commits begin: everybody is to be visited, the leader last.
LEMMA BeginOK ==
    ASSUME NEW s \in Members, NEW h \in Handlers, NEW n, HandlerOK(h, s, n), h.op = "select"
    PROVE  /\ [Phase(h, "commit") EXCEPT !.todo = Append(h.all, s)] \in Handlers
           /\ ~ [Phase(h, "commit") EXCEPT !.todo = Append(h.all, s)].waiting
           /\ HandlerOK([Phase(h, "commit") EXCEPT !.todo = Append(h.all, s)], s, n)
<1> DEFINE f == Phase(h, "commit")
           t == Append(h.all, s)
           g == [f EXCEPT !.todo = t]
<1>1. "commit" \in Phases /\ h.all \in Seq(Members)
  BY HandlerParts DEF Phases
<1>2. f \in Handlers /\ f.op = h.op /\ f.run = h.run /\ f.all = h.all /\ f.phase = "commit" /\ ~ f.waiting
  BY <1>1, PhaseParts
<1>3. t \in Seq(Members) /\ Len(t) = Len(h.all) + 1 /\ Len(h.all) \in Nat
  BY <1>1
<1>4. Append(h.all, s) = t
  OBVIOUS
<1> HIDE DEF f, t
<1>5. g \in Handlers /\ ~ g.waiting /\ g.op = h.op /\ g.run = h.run /\ g.all = h.all
      /\ g.phase = "commit" /\ g.todo = t
  BY <1>2, <1>3 DEF Handlers
<1> HIDE DEF g
<1>6. HandlerOK(g, s, n)
  <2>1. Len(g.todo) \in 1 .. Len(g.all) + 1 /\ Len(g.all) + 1 - Len(g.todo) = 0
    BY <1>3, <1>5
  <2>2. \A i \in 1 .. Len(g.todo) : g.todo[i] = Append(g.all, s)[Len(g.all) + 1 - Len(g.todo) + i]
    <3>1. \A i \in 1 .. Len(g.todo) : Len(g.all) + 1 - Len(g.todo) + i = i
      BY <1>3, <1>5
    <3> QED BY <1>4, <1>5, <3>1
  <2> QED BY <1>5, <2>1, <2>2 DEF HandlerOK
<1> QED BY <1>5, <1>6 DEF f, t, g

\* prepareRuntimePartyDungeonEntry, second loop
LEMMA PreflightKept ==
    ASSUME DInv, NEW s \in Members, Preflight(s)
    PROVE  DInv'
<1>1. At(s, "preflight") /\ WorldTypes' /\ UNCHANGED <<runtime, launched, runs>>
  BY LoopWorld DEF Preflight
<1>2. "blocked" \in Phases /\ job[s].op = "select"
  BY <1>1, SelectAt DEF Phases
<1>3. \/ job[s].todo # <<>> /\ Call(s, Head(job[s].todo), "selector")
      \/ Goto(s, "blocked")
      \/ /\ job' = [job EXCEPT ![s] = [Phase(job[s], "commit") EXCEPT !.todo = Append(job[s].all, s)]]
         /\ inbox' = inbox
  BY DEF Preflight
<1>4. CASE job[s].todo # <<>> /\ Call(s, Head(job[s].todo), "selector")
  BY <1>1, <1>4, CallKept
<1>5. CASE Goto(s, "blocked")
  BY <1>1, <1>2, <1>5, GotoKept
<1>6. CASE /\ job' = [job EXCEPT ![s] = [Phase(job[s], "commit") EXCEPT !.todo = Append(job[s].all, s)]]
           /\ inbox' = inbox
  <2> DEFINE g == [Phase(job[s], "commit") EXCEPT !.todo = Append(job[s].all, s)]
  <2>1. job[s] \in Handlers /\ HandlerOK(job[s], s, runs)
    BY <1>1, AtParts
  <2>2. g \in Handlers /\ ~ g.waiting /\ HandlerOK(g, s, runs)
    BY <1>2, <2>1, BeginOK
  <2>3. job' = [job EXCEPT ![s] = g]
    BY <1>6
  <2> HIDE DEF g
  <2> QED BY <1>1, <1>6, <2>2, <2>3, HandlerStep
<1> QED BY <1>3, <1>4, <1>5, <1>6

\* enterRuntimePartyFollowers
LEMMA EnterKept ==
    ASSUME DInv, NEW s \in Members, Enter(s)
    PROVE  DInv'
<1>1. At(s, "enter") /\ WorldTypes' /\ UNCHANGED <<runtime, launched, runs>>
  BY LoopWorld DEF Enter
<1>2. "done" \in Phases /\ "failed" \in Phases
  BY DEF Phases
<1>3. \/ Goto(s, "done") \/ Goto(s, "failed")
      \/ job[s].todo # <<>> /\ Call(s, Head(job[s].todo), "entry")
  BY DEF Enter
<1>4. CASE Goto(s, "done")
  BY <1>1, <1>2, <1>4, GotoKept
<1>5. CASE Goto(s, "failed")
  BY <1>1, <1>2, <1>5, GotoKept
<1>6. CASE job[s].todo # <<>> /\ Call(s, Head(job[s].todo), "entry")
  BY <1>1, <1>6, CallKept
<1> QED BY <1>3, <1>4, <1>5, <1>6

\* The writes after the commit
LEMMA AnnounceKept ==
    ASSUME DInv, NEW s \in Members, Announce(s)
    PROVE  DInv'
<1>1. At(s, "announce") /\ UNCHANGED <<party, view, page, origin, runtime, launched, conn, runs>>
  BY DEF Announce
<1>2. "failed" \in Phases /\ "enter" \in Phases /\ job[s].op = "select"
  BY <1>1, SelectAt DEF Phases
<1>3. job[s].run \in 1 .. runs
  BY <1>1, <1>2, AtParts DEF HandlerOK
<1>4. entered' \in [Members -> {NoRun} \cup 1 .. runs]
  <2>1. entered \in [Members -> {NoRun} \cup 1 .. runs]
    BY DEF DInv, Types, WorldTypes
  <2>2. entered' = [entered EXCEPT ![s] = job[s].run]
    BY DEF Announce
  <2> QED BY <1>3, <2>1, <2>2
<1>5. WorldTypes'
  <2>1. unsettled' \in [Members -> BOOLEAN]
    BY DEF Announce, DInv, Types, WorldTypes
  <2> QED BY <1>1, <1>4, <2>1 DEF DInv, Types, WorldTypes
<1>6. Goto(s, "failed") \/ Goto(s, "enter")
  BY DEF Announce
<1>7. CASE Goto(s, "failed")
  BY <1>1, <1>2, <1>5, <1>7, GotoKept
<1>8. CASE Goto(s, "enter")
  BY <1>1, <1>2, <1>5, <1>8, GotoKept
<1> QED BY <1>6, <1>7, <1>8

\* The packet is handled.
LEMMA EndKept ==
    ASSUME DInv, NEW s \in Members, End(s)
    PROVE  DInv'
<1>1. PICK p \in {"done", "blocked", "failed"} : At(s, p)
  BY DEF End
<1>2. /\ job' = [job EXCEPT ![s] = Idle] /\ inbox' = inbox
      /\ UNCHANGED <<party, view, page, origin, unsettled, runtime, entered, launched, runs>>
  BY DEF End, towns
<1>3. WorldTypes'
  <2>1. conn \in [Members -> {"open", "failed", "closed"}]
    BY DEF DInv, Types, WorldTypes
  <2>2. conn' = conn \/ conn' = [conn EXCEPT ![s] = "failed"]
    BY DEF End
  <2>3. conn' \in [Members -> {"open", "failed", "closed"}]
    BY <2>1, <2>2
  <2> QED BY <1>2, <2>3 DEF DInv, Types, WorldTypes
<1>4. Calm(s) /\ (job[s] \in Handlers => job[s].phase \notin {"commit", "rollback"})
  BY <1>1, AtParts
<1>5. Idle \notin Handlers /\ runs <= runs'
  BY <1>2, DungeonAssumption DEF DInv, Types, WorldTypes
<1> QED BY <1>2, <1>3, <1>4, <1>5, OwnStep

-----------------------------------------------------------------------------
(* The commits and their rollback *)

\* A sequence without its head.
LEMMA TailParts ==
    ASSUME NEW S, NEW q \in Seq(S), q # <<>>
    PROVE  /\ Tail(q) \in Seq(S) /\ Len(q) \in Nat /\ Len(q) >= 1 /\ Len(Tail(q)) = Len(q) - 1
           /\ \A i \in 1 .. Len(q) - 1 : Tail(q)[i] = q[i + 1]
           /\ Head(q) = q[1] /\ Head(q) \in S
OBVIOUS

\* The member the commits have come to.
LEMMA CommitParts ==
    ASSUME NEW s \in Members, NEW n, NEW h \in Handlers, HandlerOK(h, s, n), h.phase = "commit"
    PROVE  /\ h.todo # <<>> /\ Head(h.todo) \in Members
           /\ Len(h.todo) \in 1 .. Len(h.all) + 1 /\ Len(h.all) \in Nat
           /\ Head(h.todo) # s => /\ Len(h.todo) >= 2
                                  /\ Len(h.all) + 2 - Len(h.todo) \in 1 .. Len(h.all)
                                  /\ h.all[Len(h.all) + 2 - Len(h.todo)] = Head(h.todo)
<1> DEFINE a == h.all
           t == h.todo
           k == Len(a) + 2 - Len(t)
<1>1. a \in Seq(Members) /\ t \in Seq(Members)
  BY HandlerParts
<1>2. Len(t) \in 1 .. Len(a) + 1 /\ \A i \in 1 .. Len(t) : t[i] = Append(a, s)[Len(a) + 1 - Len(t) + i]
  BY DEF HandlerOK
<1> HIDE DEF a, t
<1>3. Len(a) \in Nat /\ Len(t) \in Nat
  BY <1>1
<1>4. t # <<>>
  BY <1>1, <1>2, <1>3
<1>5. Head(t) = t[1] /\ Head(t) \in Members
  BY <1>1, <1>4, TailParts
<1>6. Head(t) = Append(a, s)[k]
  <2>1. 1 \in 1 .. Len(t) /\ Len(a) + 1 - Len(t) + 1 = k
    BY <1>2, <1>3
  <2> QED BY <1>2, <1>5, <2>1
<1>7. k \in 1 .. Len(a) + 1
  BY <1>2, <1>3
<1>8. Append(a, s)[Len(a) + 1] = s /\ \A i \in 1 .. Len(a) : Append(a, s)[i] = a[i]
  BY <1>1
<1>9. Head(t) # s => k \in 1 .. Len(a) /\ a[k] = Head(t) /\ Len(t) >= 2
  <2> SUFFICES ASSUME Head(t) # s PROVE k \in 1 .. Len(a) /\ a[k] = Head(t) /\ Len(t) >= 2
    OBVIOUS
  <2>1. k # Len(a) + 1
    BY <1>6, <1>8
  <2>2. k \in 1 .. Len(a)
    BY <1>3, <1>7, <2>1
  <2> QED BY <1>2, <1>3, <1>6, <1>8, <2>2
<1> QED BY <1>2, <1>3, <1>4, <1>5, <1>9 DEF a, t

\* The commits go on to the next member.
LEMMA CommitVisitedOK ==
    ASSUME NEW s \in Members, NEW n, NEW h \in Handlers, HandlerOK(h, s, n), h.phase = "commit",
           Head(h.todo) # s
    PROVE  HandlerOK(Visited(h), s, n)
<1> DEFINE g == Visited(h)
           a == h.all
           t == h.todo
           u == Tail(t)
<1>1. h.todo # <<>> /\ Len(t) \in 1 .. Len(a) + 1 /\ Len(a) \in Nat /\ Len(t) >= 2
  BY CommitParts
<1>2. g.op = h.op /\ g.run = h.run /\ g.all = a /\ g.phase = "commit" /\ g.todo = u
  BY <1>1, VisitedParts
<1>3. \A i \in 1 .. Len(t) : t[i] = Append(a, s)[Len(a) + 1 - Len(t) + i]
  BY DEF HandlerOK
<1>4. Len(u) = Len(t) - 1 /\ \A i \in 1 .. Len(t) - 1 : u[i] = t[i + 1]
  BY <1>1, HandlerParts, TailParts
<1> HIDE DEF g, a, t, u
<1>5. Len(u) \in 1 .. Len(a) + 1
  BY <1>1, <1>4
<1>6. ASSUME NEW i \in 1 .. Len(u) PROVE u[i] = Append(a, s)[Len(a) + 1 - Len(u) + i]
  <2>1. i \in 1 .. Len(t) - 1 /\ i + 1 \in 1 .. Len(t)
        /\ Len(a) + 1 - Len(t) + (i + 1) = Len(a) + 1 - Len(u) + i
    BY <1>1, <1>4
  <2> QED BY <1>3, <1>4, <2>1
<1>7. /\ h.run \in {NoRun} \cup 1 .. n /\ h.op = "select" /\ h.run \in 1 .. n
  BY DEF HandlerOK
<1>8. HandlerOK(g, s, n)
  BY <1>2, <1>5, <1>6, <1>7 DEF HandlerOK
<1> QED BY <1>8 DEF g

\* How many members are committed, and how many after the next.
LEMMA CountParts ==
    ASSUME NEW a \in Nat, NEW t \in 1 .. a + 1
    PROVE  a + 1 - t \in 0 .. a /\ a + 2 - t = a + 1 - (t - 1)
OBVIOUS

\* A step of the commits or of their rollback: it is enough that every run
\* without its leader can still be withdrawn.
LEMMA CommitStep ==
    ASSUME DInv, NEW s \in Members, NEW p, At(s, p), NEW g \in Handlers, ~ g.waiting,
           HandlerOK(g, s, runs), job' = [job EXCEPT ![s] = g], inbox' = inbox, runs' = runs,
           WorldTypes', OrphansOK'
    PROVE  DInv'
<1>1. Calm(s)
  BY AtParts
<1>2. CallsOK'
  BY <1>1, SameCalls
<1>3. g \in Jobs /\ g \notin Serves
  BY HandlerParts DEF Jobs
<1>4. runs' \in Nat /\ runs <= runs' /\ HandlerOK(g, s, runs')
  BY DEF DInv, Types, WorldTypes
<1>5. HandlersOK' /\ job' \in [Members -> Jobs]
  BY <1>3, <1>4, OneHandler
<1>6. Types'
  BY <1>5 DEF DInv, Types
<1> QED BY <1>2, <1>5, <1>6 DEF DInv

\* What s covers it goes on to cover, or the run is gone or has its leader.
LEMMA CoversKept ==
    ASSUME DInv, NEW s \in Members, NEW g, job'[s] = g,
           \A x \in Members : x # s => job'[x] = job[x],
           NEW m \in Members, launched \subseteq launched',
           \A x \in Members : x # m => runtime'[x] = runtime[x],
           \A x \in Members, n \in 1 .. runs :
              Covers(job[s], x, n) =>
                 \/ Covers(g, x, n) \/ n \in launched'
                 \/ x = m /\ (runtime'[m] = NoRun \/ runtime'[m] # runtime[m]),
           \/ runtime'[m] = NoRun
           \/ runtime'[m] = runtime[m]
           \/ runtime'[m].id \in launched'
           \/ Covers(g, m, runtime'[m].id)
    PROVE  OrphansOK'
<1>1. job'[s] = g /\ \A x \in Members : x # s => job'[x] = job[x]
  OBVIOUS
<1> SUFFICES ASSUME NEW x \in Members, runtime'[x] # NoRun, runtime'[x].id \notin launched'
             PROVE  \E r \in Members : Covers(job'[r], x, runtime'[x].id)
  BY DEF OrphansOK
<1>2. CASE runtime'[x] = runtime[x]
  <2>1. runtime[x].id \notin launched
    BY <1>2
  <2>2. PICK r \in Members : Covers(job[r], x, runtime[x].id)
    BY <1>2, <2>1 DEF DInv, OrphansOK
  <2>3. runtime[x].id \in 1 .. runs
    BY <1>2 DEF DInv, Types, WorldTypes
  <2>4. CASE r # s
    BY <1>1, <1>2, <2>2, <2>4
  <2>5. CASE r = s
    <3>1. Covers(g, x, runtime[x].id)
      BY <1>2, <2>2, <2>3, <2>5
    <3> QED BY <1>1, <1>2, <3>1
  <2> QED BY <2>4, <2>5
<1>3. CASE runtime'[x] # runtime[x]
  <2>1. x = m /\ Covers(g, m, runtime'[m].id)
    BY <1>3
  <2> QED BY <1>1, <2>1
<1> QED BY <1>2, <1>3

\* A follower's commit, or the leader's own.
LEMMA CommitDone ==
    ASSUME DInv, NEW s \in Members, Commit(s), MayCommit(Head(job[s].todo))
    PROVE  DInv'
<1> DEFINE h == job[s]
           m == Head(h.todo)
           r == Run(h.run)
<1>1. At(s, "commit") /\ h \in Handlers /\ HandlerOK(h, s, runs) /\ h.phase = "commit"
      /\ h.op = "select"
  BY AtParts, SelectAt DEF Commit
<1>2. h.todo # <<>> /\ m \in Members /\ Len(h.todo) \in 1 .. Len(h.all) + 1 /\ Len(h.all) \in Nat
      /\ (m # s => /\ Len(h.todo) >= 2
                   /\ Len(h.all) + 2 - Len(h.todo) \in 1 .. Len(h.all)
                   /\ h.all[Len(h.all) + 2 - Len(h.todo)] = m)
  BY <1>1, CommitParts
<1>3. h.run \in 1 .. runs
  BY <1>1 DEF HandlerOK
<1>4. /\ runtime' = [runtime EXCEPT ![m] = r]
      /\ launched' = IF m = s THEN launched \cup {h.run} ELSE launched
      /\ UNCHANGED <<party, view, page, origin, unsettled, entered, conn, runs>> /\ inbox' = inbox
      /\ m = s => job' = [job EXCEPT ![s] = Phase(h, "announce")]
      /\ m # s => job' = [job EXCEPT ![s] = Visited(h)]
  BY DEF Commit, Goto, towns
<1>5. r \in [id : 1 .. runs, over : BOOLEAN, leaving : BOOLEAN] /\ r.id = h.run
  BY <1>3 DEF Run
<1> HIDE DEF r
<1>6. WorldTypes
  BY DEF DInv, Types
<1>7. /\ runtime' \in [Members -> {NoRun} \cup [id : 1 .. runs', over : BOOLEAN, leaving : BOOLEAN]]
      /\ runtime'[m] = r /\ \A x \in Members : x # m => runtime'[x] = runtime[x]
  BY <1>2, <1>4, <1>5, <1>6, OneRuntime
<1>8. WorldTypes'
  BY <1>4, <1>6, <1>7 DEF WorldTypes
<1>9. CASE m = s
  <2> DEFINE g == Phase(h, "announce")
  <2>1. "announce" \in Phases
    BY DEF Phases
  <2>2. g \in Handlers /\ ~ g.waiting /\ HandlerOK(g, s, runs)
    BY <1>1, <2>1, PhaseParts, PhaseOK
  <2>3. job' = [job EXCEPT ![s] = g]
    BY <1>4, <1>9
  <2> HIDE DEF g
  <2>4. OrphansOK'
    <3>1. \A x \in Members, n \in 1 .. runs : Covers(h, x, n) => n \in launched'
      BY <1>4, <1>9 DEF Covers
    <3>2. launched \subseteq launched' /\ runtime'[m].id \in launched'
      BY <1>4, <1>5, <1>7, <1>9
    <3>3. \A x \in Members, n \in 1 .. runs :
             Covers(job[s], x, n) =>
                \/ Covers(g, x, n) \/ n \in launched'
                \/ x = m /\ (runtime'[m] = NoRun \/ runtime'[m] # runtime[m])
      BY <3>1
    <3>4. job'[s] = g /\ \A x \in Members : x # s => job'[x] = job[x]
      BY <2>3 DEF DInv, Types
    <3> HIDE DEF h, m
    <3> QED BY ONLY DInv, s \in Members, <1>2, <1>7, <3>2, <3>3, <3>4, CoversKept
  <2> QED BY <1>1, <1>4, <1>8, <2>2, <2>3, <2>4, CommitStep
<1>10. CASE m # s
  <2> DEFINE g == Visited(h)
             k == Len(h.all) + 2 - Len(h.todo)
  <2>1. /\ g \in Handlers /\ ~ g.waiting /\ g.op = "select" /\ g.run = h.run /\ g.all = h.all
        /\ g.phase = "commit" /\ g.todo = Tail(h.todo)
    BY <1>1, <1>2, VisitedParts
  <2>2. HandlerOK(g, s, runs)
    BY <1>1, <1>10, CommitVisitedOK
  <2>3. job' = [job EXCEPT ![s] = g]
    BY <1>4, <1>10
  <2> HIDE DEF g
  <2>4. Len(g.todo) = Len(h.todo) - 1
    BY <1>1, <1>2, <2>1, HandlerParts, TailParts
  <2>5. k = Len(g.all) + 1 - Len(g.todo) /\ k \in 1 .. Len(h.all)
    <3>1. k = Len(h.all) + 1 - Len(g.todo)
      BY <1>2, <2>4, CountParts
    <3> QED BY <1>2, <1>10, <2>1, <3>1
  <2>6. Covers(g, m, h.run)
    <3>1. k \in 1 .. k
      BY <1>2, <1>10
    <3> QED BY <1>2, <1>10, <2>1, <2>5, <3>1 DEF Covers
  <2>7. ASSUME NEW x \in Members, NEW n \in 1 .. runs, Covers(h, x, n) PROVE Covers(g, x, n)
    <3>1. PICK i \in 1 .. Len(h.all) + 1 - Len(h.todo) : h.all[i] = x
      BY <1>1, <2>7 DEF Covers
    <3>2. i \in 1 .. Len(g.all) + 1 - Len(g.todo)
      BY <1>2, <2>1, <2>4
    <3>3. n = h.run
      BY <2>7 DEF Covers
    <3> QED BY <2>1, <3>1, <3>2, <3>3 DEF Covers
  <2>8. OrphansOK'
    <3>1. launched \subseteq launched' /\ Covers(g, m, runtime'[m].id)
      BY <1>4, <1>5, <1>7, <1>10, <2>6
    <3>2. \A x \in Members, n \in 1 .. runs :
             Covers(job[s], x, n) =>
                \/ Covers(g, x, n) \/ n \in launched'
                \/ x = m /\ (runtime'[m] = NoRun \/ runtime'[m] # runtime[m])
      BY <2>7
    <3>3. job'[s] = g /\ \A x \in Members : x # s => job'[x] = job[x]
      BY <2>3 DEF DInv, Types
    <3> HIDE DEF h, m
    <3> QED BY ONLY DInv, s \in Members, <1>2, <1>7, <3>1, <3>2, <3>3, CoversKept
  <2> QED BY <1>1, <1>4, <1>8, <2>1, <2>2, <2>3, <2>8, CommitStep
<1> QED BY <1>9, <1>10

\* A commit is refused: what was committed is to be withdrawn.
LEMMA CommitRefused ==
    ASSUME DInv, NEW s \in Members, Commit(s), ~ MayCommit(Head(job[s].todo))
    PROVE  DInv'
<1> DEFINE h == job[s]
           f == Phase(h, "rollback")
           k == Len(h.all) + 1 - Len(h.todo)
           t == SubSeq(h.all, 1, k)
           g == [f EXCEPT !.todo = t]
<1>1. At(s, "commit") /\ h \in Handlers /\ HandlerOK(h, s, runs) /\ h.phase = "commit"
      /\ h.op = "select"
  BY AtParts, SelectAt DEF Commit
<1>2. Len(h.todo) \in 1 .. Len(h.all) + 1 /\ Len(h.all) \in Nat
  BY <1>1, CommitParts
<1>3. /\ job' = [job EXCEPT ![s] = g] /\ inbox' = inbox
      /\ UNCHANGED <<runtime, launched, party, view, page, origin, unsettled, entered, conn, runs>>
  BY DEF Commit, towns
<1>4. "rollback" \in Phases
  BY DEF Phases
<1>5. f \in Handlers /\ f.op = "select" /\ f.run = h.run /\ f.all = h.all /\ f.phase = "rollback"
      /\ ~ f.waiting
  BY <1>1, <1>4, PhaseParts
<1>6. h.all \in Seq(Members)
  BY <1>1, HandlerParts
<1>7. k \in 0 .. Len(h.all)
  BY <1>2, CountParts
<1>8. t \in Seq(Members) /\ Len(t) = k /\ \A i \in 1 .. k : t[i] = h.all[i]
  <2> DEFINE a == h.all
  <2>1. a \in Seq(Members) /\ k \in 0 .. Len(a) /\ t = SubSeq(a, 1, k)
    BY <1>6, <1>7
  <2> HIDE DEF a, k, t
  <2>2. t \in Seq(Members) /\ Len(t) = k /\ \A i \in 1 .. k : t[i] = a[i]
    BY <2>1
  <2> QED BY <2>2 DEF a
<1> HIDE DEF f, t
<1>9. g \in Handlers /\ ~ g.waiting /\ g.op = "select" /\ g.run = h.run /\ g.phase = "rollback"
      /\ g.todo = t
  BY <1>5, <1>8 DEF Handlers
<1> HIDE DEF g
<1>10. HandlerOK(g, s, runs)
  BY <1>1, <1>9 DEF HandlerOK
<1>11. ASSUME NEW x \in Members, NEW n \in 1 .. runs, Covers(h, x, n) PROVE Covers(g, x, n)
  <2>1. PICK i \in 1 .. k : h.all[i] = x
    BY <1>1, <1>11 DEF Covers
  <2>2. n = h.run
    BY <1>11 DEF Covers
  <2> QED BY <1>8, <1>9, <2>1, <2>2 DEF Covers
<1>12. OrphansOK'
  <2>1. launched \subseteq launched' /\ \A x \in Members : runtime'[x] = runtime[x]
    BY <1>3
  <2>2. job'[s] = g /\ \A x \in Members : x # s => job'[x] = job[x]
    BY <1>3 DEF DInv, Types
  <2> HIDE DEF h
  <2> QED BY <1>11, <2>1, <2>2, CoversKept DEF h
<1>13. WorldTypes'
  BY <1>3 DEF DInv, Types, WorldTypes
<1> QED BY <1>1, <1>3, <1>9, <1>10, <1>12, <1>13, CommitStep

\* commitRuntimePartyPreparedFollowers, then the leader's own commit
LEMMA CommitKept ==
    ASSUME DInv, NEW s \in Members, Commit(s)
    PROVE  DInv'
BY CommitDone, CommitRefused

\* rollbackRuntimePartyPreparedFollowers
LEMMA RollbackKept ==
    ASSUME DInv, NEW s \in Members, Rollback(s)
    PROVE  DInv'
<1> DEFINE h == job[s]
           m == Head(h.todo)
<1>1. At(s, "rollback") /\ h \in Handlers /\ HandlerOK(h, s, runs) /\ h.phase = "rollback"
      /\ h.op = "select"
  BY AtParts, SelectAt DEF Rollback
<1>2. UNCHANGED <<party, view, page, origin, unsettled, entered, launched, conn, runs>> /\ inbox' = inbox
  BY DEF Rollback, Goto, towns
<1>3. CASE h.todo = <<>>
  <2> DEFINE g == Phase(h, "blocked")
  <2>1. "blocked" \in Phases
    BY DEF Phases
  <2>2. g \in Handlers /\ ~ g.waiting /\ HandlerOK(g, s, runs)
    BY <1>1, <2>1, PhaseParts, PhaseOK
  <2>3. job' = [job EXCEPT ![s] = g] /\ runtime' = runtime
    BY <1>3 DEF Rollback, Goto
  <2> HIDE DEF g
  <2>4. \A x \in Members, n \in 1 .. runs : ~ Covers(h, x, n)
    <3>1. Len(h.todo) = 0
      BY <1>3
    <3>2. \A x : ~ \E i \in 1 .. Len(h.todo) : h.todo[i] = x
      BY <3>1
    <3> QED BY <1>1, <3>2 DEF Covers
  <2>5. OrphansOK'
    <3>1. launched \subseteq launched' /\ \A x \in Members : runtime'[x] = runtime[x]
      BY <1>2, <2>3
    <3>2. job'[s] = g /\ \A x \in Members : x # s => job'[x] = job[x]
      BY <2>3 DEF DInv, Types
    <3> HIDE DEF h
    <3> QED BY <2>4, <3>1, <3>2, CoversKept DEF h
  <2>6. WorldTypes'
    BY <1>2, <2>3 DEF DInv, Types, WorldTypes
  <2> QED BY <1>1, <1>2, <2>2, <2>3, <2>5, <2>6, CommitStep
<1>4. CASE h.todo # <<>>
  <2> DEFINE g == Visited(h)
             r == IF runtime[m] # NoRun /\ runtime[m].id = h.run THEN NoRun ELSE runtime[m]
  <2>1. /\ g \in Handlers /\ ~ g.waiting /\ g.op = "select" /\ g.run = h.run
        /\ g.phase = "rollback" /\ g.todo = Tail(h.todo)
    BY <1>1, <1>4, VisitedParts
  <2>2. HandlerOK(g, s, runs)
    BY <1>1, <1>4, VisitedOK
  <2>3. job' = [job EXCEPT ![s] = g] /\ runtime' = [runtime EXCEPT ![m] = r]
    BY <1>4 DEF Rollback
  <2>4. /\ Len(h.todo) \in Nat /\ Len(h.todo) >= 1 /\ Len(g.todo) = Len(h.todo) - 1
        /\ \A i \in 1 .. Len(h.todo) - 1 : g.todo[i] = h.todo[i + 1]
        /\ m = h.todo[1] /\ m \in Members
    BY <1>1, <1>4, <2>1, HandlerParts, TailParts
  <2>5. WorldTypes /\ r \in {NoRun} \cup [id : 1 .. runs, over : BOOLEAN, leaving : BOOLEAN]
    BY <2>4 DEF DInv, Types, WorldTypes
  <2>6. (runtime[m] # NoRun /\ runtime[m].id = h.run => r = NoRun) /\ (r # NoRun => r = runtime[m])
    OBVIOUS
  <2> HIDE DEF g, r
  <2>7. /\ runtime' \in [Members -> {NoRun} \cup [id : 1 .. runs', over : BOOLEAN, leaving : BOOLEAN]]
        /\ runtime'[m] = r /\ \A x \in Members : x # m => runtime'[x] = runtime[x]
    BY <1>2, <2>3, <2>4, <2>5, OneRuntime
  <2>8. WorldTypes'
    BY <1>2, <2>5, <2>7 DEF WorldTypes
  <2>9. OrphansOK'
    <3>1. /\ job \in [Members -> Jobs] /\ job'[s] = g
          /\ \A x \in Members : x # s => job'[x] = job[x]
      BY <2>3 DEF DInv, Types
    <3> SUFFICES ASSUME NEW x \in Members, runtime'[x] # NoRun, runtime'[x].id \notin launched'
                 PROVE  \E y \in Members : Covers(job'[y], x, runtime'[x].id)
      BY DEF OrphansOK
    <3>2. runtime'[x] = runtime[x] /\ (x = m => runtime[m].id # h.run)
      BY <2>6, <2>7
    <3>3. PICK y \in Members : Covers(job[y], x, runtime[x].id)
      BY <1>2, <3>2 DEF DInv, OrphansOK
    <3>4. CASE y # s
      BY <3>1, <3>2, <3>3, <3>4
    <3>5. CASE y = s
      <4>1. runtime[x].id = h.run /\ \E i \in 1 .. Len(h.todo) : h.todo[i] = x
        BY <1>1, <3>3, <3>5 DEF Covers
      <4>2. PICK i \in 1 .. Len(h.todo) : h.todo[i] = x
        BY <4>1
      <4>3. i # 1
        BY <2>4, <3>2, <4>1, <4>2
      <4>4. i - 1 \in 1 .. Len(h.todo) - 1 /\ (i - 1) + 1 = i
        BY <2>4, <4>3
      <4>5. g.todo[i - 1] = x /\ i - 1 \in 1 .. Len(g.todo)
        BY <2>4, <4>2, <4>4
      <4>6. Covers(g, x, runtime[x].id)
        BY <2>1, <4>1, <4>5 DEF Covers
      <4> QED BY <3>1, <3>2, <4>6
    <3> QED BY <3>4, <3>5
  <2> QED BY <1>1, <1>2, <2>1, <2>2, <2>3, <2>8, <2>9, CommitStep
<1> QED BY <1>3, <1>4

-----------------------------------------------------------------------------
(* The ends of calls *)

\* The calls of the sessions in D end, and these go on.
LEMMA CallsEnd ==
    ASSUME DInv, NEW D \in SUBSET Members,
           \A s \in D : ~ Waits(s)',
           \A s \in Members : s \notin D => (Waits(s)' <=> Waits(s)),
           \A s \in Members : s \notin D /\ Waits(s) => job'[s] = job[s],
           \A s, m \in Members : Queued(s, m)' <=> s \notin D /\ Queued(s, m),
           \A s, m \in Members : Running(s, m)' <=> s \notin D /\ Running(s, m),
           \A m \in Members : \A i, j \in 1 .. Len(inbox'[m]) :
               inbox'[m][i].from = inbox'[m][j].from => i = j
    PROVE  CallsOK'
<1>1. CalledOK'
  <2> SUFFICES ASSUME NEW s \in Members, NEW m \in Members, Queued(s, m)' \/ Running(s, m)'
               PROVE  Waits(s)' /\ job'[s].todo # <<>> /\ m = Head(job'[s].todo)
    BY DEF CalledOK
  <2>1. s \notin D /\ (Queued(s, m) \/ Running(s, m))
    OBVIOUS
  <2>2. Waits(s) /\ job[s].todo # <<>> /\ m = Head(job[s].todo)
    BY <2>1 DEF DInv, CallsOK, CalledOK
  <2> QED BY <2>1, <2>2
<1>2. OncePerLoop'
  <2>1. \A s, m \in Members : ~ (Queued(s, m)' /\ Running(s, m)')
    BY DEF DInv, CallsOK, OncePerLoop
  <2> QED BY <2>1 DEF OncePerLoop
<1>3. AnsweredOK'
  <2> SUFFICES ASSUME NEW s \in Members, Waits(s)'
               PROVE  /\ job'[s].phase \in {"sync", "preflight", "enter"}
                      /\ \E m \in Members : Queued(s, m)' \/ Running(s, m)'
    BY DEF AnsweredOK
  <2>1. s \notin D /\ Waits(s) /\ job'[s] = job[s]
    OBVIOUS
  <2> QED BY <2>1 DEF DInv, CallsOK, AnsweredOK
<1> QED BY <1>1, <1>2, <1>3 DEF CallsOK

\* A handler that waits can be resumed.
LEMMA WaitsParts ==
    ASSUME DInv, NEW s \in Members, Waits(s), NEW r
    PROVE  /\ job[s] \in Handlers /\ job[s].phase \in {"sync", "preflight", "enter"}
           /\ Resumed(job[s], r) \in Handlers /\ ~ Resumed(job[s], r).waiting
           /\ HandlerOK(Resumed(job[s], r), s, runs)
<1>1. job[s] \in Handlers /\ job[s].phase \in {"sync", "preflight", "enter"}
  BY DEF DInv, CallsOK, AnsweredOK, Waits
<1>2. job[s].todo # <<>>
  BY DEF DInv, CallsOK, AnsweredOK, CalledOK
<1>3. HandlerOK(job[s], s, runs)
  BY <1>1 DEF DInv, HandlersOK
<1>4. Resumed(job[s], r) \in Handlers /\ ~ Resumed(job[s], r).waiting
  BY <1>1, <1>2, ResumedParts
<1>5. HandlerOK(Resumed(job[s], r), s, runs)
  BY <1>1, <1>2, <1>3, ResumedOK
<1> QED BY <1>1, <1>4, <1>5

\* Handlers in D are resumed; elsewhere loops end, or learn that nobody waits.
LEMMA ResumeStep ==
    ASSUME DInv, NEW D \in SUBSET Members,
           \A s \in D : /\ Waits(s) /\ job'[s] \in Handlers /\ ~ job'[s].waiting
                        /\ HandlerOK(job'[s], s, runs),
           \A s \in Members : s \notin D =>
              \/ job'[s] = job[s]
              \/ job[s] \in Serves /\ job'[s] = Idle
              \/ job[s] \in Serves /\ job'[s] \in Serves /\ job'[s].run = job[s].run,
           job' = [s \in Members |-> job'[s]],
           inbox' \in [Members -> Seq(Calls)], WorldTypes',
           UNCHANGED <<launched, runs>>,
           \A m \in Members : \/ runtime'[m] = NoRun
                              \/ runtime[m] # NoRun /\ runtime'[m].id = runtime[m].id,
           \A s, m \in Members : Queued(s, m)' <=> s \notin D /\ Queued(s, m),
           \A s, m \in Members : Running(s, m)' <=> s \notin D /\ Running(s, m),
           \A m \in Members : \A i, j \in 1 .. Len(inbox'[m]) :
               inbox'[m][i].from = inbox'[m][j].from => i = j
    PROVE  DInv'
<1>1. \A s \in D : /\ job[s] \in Handlers /\ job[s].phase \in {"sync", "preflight", "enter"}
                   /\ job'[s] \in Handlers /\ ~ job'[s].waiting /\ HandlerOK(job'[s], s, runs)
  BY DEF DInv, CallsOK, AnsweredOK, Waits
<1>2. \A s \in Members : job[s] \in Jobs
  BY DEF DInv, Types
<1>3. \A s \in Members : job'[s] \in Jobs
  BY <1>1, <1>2 DEF Jobs
<1>4. job' \in [Members -> Jobs]
  BY <1>3
<1>5. Types'
  BY <1>4 DEF Types
<1>6. \A h \in Serves : h \notin Handlers
  BY ServeParts
<1>7. Idle \notin Handlers /\ Idle \notin Serves
  BY DungeonAssumption
<1>8. HandlersOK'
  <2> SUFFICES ASSUME NEW s \in Members
               PROVE  /\ job'[s] \in Handlers => HandlerOK(job'[s], s, runs)
                      /\ job'[s] \in Serves => job'[s].run \in {NoRun} \cup 1 .. runs
    BY DEF HandlersOK
  <2>1. CASE s \in D
    BY <1>1, <1>6, <2>1
  <2>2. CASE s \notin D
    <3>1. /\ job[s] \in Handlers => HandlerOK(job[s], s, runs)
          /\ job[s] \in Serves => job[s].run \in {NoRun} \cup 1 .. runs
      BY DEF DInv, HandlersOK
    <3> QED BY <1>6, <1>7, <2>2, <3>1
  <2> QED BY <2>1, <2>2
<1>9. \A s \in D : ~ Waits(s)'
  BY <1>1 DEF Waits
<1>10. \A s \in Members : s \notin D => (Waits(s)' <=> Waits(s)) /\ (Waits(s) => job'[s] = job[s])
  BY <1>6, <1>7 DEF Waits
<1>11. CallsOK'
  BY <1>9, <1>10, CallsEnd
<1>12. OrphansOK'
  <2>1. \A s \in Members : \/ job'[s] = job[s]
                           \/ job[s] \notin Handlers
                           \/ job[s].phase \notin {"commit", "rollback"}
    BY <1>1, <1>6
  <2> QED BY <2>1, SameOrphans
<1> QED BY <1>5, <1>8, <1>11, <1>12 DEF DInv

\* The member at which the calls of a session are.
LEMMA OneCall ==
    ASSUME DInv, NEW s \in Members, NEW m \in Members, NEW x \in Members,
           Queued(s, m) \/ Running(s, m), Queued(s, x) \/ Running(s, x)
    PROVE  m = x /\ (Queued(s, m) => ~ Running(s, m)) /\ Waits(s)
BY DEF DInv, CallsOK, CalledOK, OncePerLoop

\* The answer of a call that has been run.
LEMMA AnswerKept ==
    ASSUME DInv, NEW m \in Members, job[m] \in Serves, NEW result, Answer(m, result),
           WorldTypes', launched' = launched,
           \A x \in Members : \/ runtime'[x] = NoRun
                              \/ runtime[x] # NoRun /\ runtime'[x].id = runtime[x].id
    PROVE  DInv'
<1> DEFINE D == {s \in Members : Running(s, m)}
<1>1. inbox' = inbox /\ runs' = runs
  BY DEF Answer
<1>2. job' = [s \in Members |->
                 IF s = m THEN Idle
                 ELSE IF s = job[m].from /\ job[m].live THEN Resumed(job[s], result)
                 ELSE job[s]]
  BY DEF Answer
<1>3. \A s \in D : Waits(s) /\ s # m
  <2>1. \A s \in D : Waits(s)
    BY DEF DInv, CallsOK, CalledOK
  <2> QED BY <2>1, ServeParts DEF Waits
<1>4. \A s \in Members : s \in D <=> s = job[m].from /\ job[m].live
  BY DEF Running
<1>5. \A s \in D : job'[s] = Resumed(job[s], result)
  BY <1>2, <1>3, <1>4
<1>6. job'[m] = Idle /\ \A s \in Members : s \notin D /\ s # m => job'[s] = job[s]
  BY <1>2, <1>4
<1>7. \A s, x \in Members : Queued(s, x)' <=> Queued(s, x)
  BY <1>1 DEF Queued
<1>8. \A s, x \in Members : s \in D => ~ Queued(s, x) /\ (Running(s, x) => x = m)
  BY OneCall
<1>9. ASSUME NEW s \in D
      PROVE  /\ job'[s] \in Handlers /\ ~ job'[s].waiting /\ HandlerOK(job'[s], s, runs)
             /\ job'[s] \notin Serves /\ job[s] \notin Serves
  <2>1. s \in Members /\ Waits(s) /\ job'[s] = Resumed(job[s], result)
    BY <1>3, <1>5
  <2>2. job'[s] \in Handlers /\ ~ job'[s].waiting /\ HandlerOK(job'[s], s, runs)
        /\ job[s] \in Handlers
    BY <2>1, WaitsParts
  <2> QED BY <2>2, HandlerParts
<1>10. Idle \notin Serves
  BY DungeonAssumption
<1>11. ASSUME NEW s \in Members, NEW x \in Members
       PROVE  Running(s, x)' <=> s \notin D /\ Running(s, x)
  <2>1. CASE x = m
    BY <1>6, <1>10, <2>1 DEF Running
  <2>2. CASE x # m /\ x \in D
    BY <1>9, <2>2 DEF Running
  <2>3. CASE x # m /\ x \notin D
    <3>1. job'[x] = job[x]
      BY <1>6, <2>3
    <3> QED BY <1>8, <2>3, <3>1 DEF Running
  <2> QED BY <2>1, <2>2, <2>3
<1> HIDE DEF D
<1>12. /\ \A x \in Members : \A i, j \in 1 .. Len(inbox'[x]) :
            inbox'[x][i].from = inbox'[x][j].from => i = j
       /\ inbox' \in [Members -> Seq(Calls)]
  BY <1>1 DEF DInv, Types, CallsOK, OncePerLoop
<1>13. D \in SUBSET Members
  BY DEF D
<1>14. job' = [s \in Members |-> job'[s]]
  BY <1>2
<1>15. ASSUME NEW s \in Members, s \notin D
       PROVE  job'[s] = job[s] \/ (job[s] \in Serves /\ job'[s] = Idle)
  BY <1>6, <1>15
<1>16. \A s, x \in Members : Queued(s, x)' <=> s \notin D /\ Queued(s, x)
  BY <1>7, <1>8
<1>17. \A s \in D : /\ Waits(s) /\ job'[s] \in Handlers /\ ~ job'[s].waiting
                    /\ HandlerOK(job'[s], s, runs)
  BY <1>3, <1>9
<1> QED BY <1>1, <1>11, <1>12, <1>13, <1>14, <1>15, <1>16, <1>17, ResumeStep

\* prepareRuntimePartyFollowerEnterSelect
LEMMA ServeSelectorKept ==
    ASSUME DInv, NEW m \in Members, ServeSelector(m)
    PROVE  DInv'
<1>1. job[m] \in Serves
  BY JobParts DEF ServeSelector
<1>2. PICK result \in {"yes", "no", "error"} : Answer(m, result)
  BY DEF ServeSelector
<1>3. UNCHANGED <<runtime, launched, entered, unsettled>>
  BY DEF ServeSelector, dungeons
<1>4. /\ page' \in [Members -> BOOLEAN] /\ origin' \in [Members -> BOOLEAN]
      /\ \A x \in Members : origin'[x] => page'[x]
  <2>1. CASE UNCHANGED <<page, origin>>
    BY <2>1 DEF DInv, Types, WorldTypes
  <2>2. CASE page' = [page EXCEPT ![m] = TRUE] /\ origin' = [origin EXCEPT ![m] = TRUE]
    BY <2>2 DEF DInv, Types, WorldTypes
  <2> QED BY <2>1, <2>2 DEF ServeSelector
<1>5. UNCHANGED <<party, view, conn, runs>>
  BY <1>2 DEF Answer
<1>6. WorldTypes'
  BY <1>3, <1>4, <1>5 DEF DInv, Types, WorldTypes
<1>7. \A x \in Members : runtime'[x] = NoRun \/ runtime'[x] = runtime[x]
  BY <1>3
<1> QED BY <1>1, <1>2, <1>3, <1>6, <1>7, AnswerKept

\* handleDungeonSelectUpperPlanned for a prepared follower: its run is there
\* as it was, or its return detached it.
LEMMA EntryParts ==
    ASSUME DInv, NEW m \in Members, ServeEntry(m)
    PROVE  /\ job[m] \in Serves /\ job[m].kind = "entry" /\ runtime'[m] = Detached(m)
           /\ runtime' \in [Members -> {NoRun} \cup [id : 1 .. runs, over : BOOLEAN, leaving : BOOLEAN]]
           /\ entered' \in [Members -> {NoRun} \cup 1 .. runs]
           /\ unsettled' \in [Members -> BOOLEAN]
           /\ \A x \in Members : runtime'[x] = NoRun \/ runtime'[x] = runtime[x]
           /\ \A x \in Members : x # m => /\ runtime'[x] = runtime[x] /\ entered'[x] = entered[x]
                                          /\ unsettled'[x] = unsettled[x]
<1>1. job[m] \in Serves /\ job[m].kind = "entry" /\ WorldTypes
  BY JobParts DEF ServeEntry, DInv, Types
<1>2. CASE \E b \in BOOLEAN : Resume(m, b)
  BY <1>1, <1>2, ResumeParts
<1>3. CASE /\ runtime' = [runtime EXCEPT ![m] = Detached(m)]
           /\ unsettled' = [unsettled EXCEPT ![m] = FALSE]
           /\ entered' = [entered EXCEPT ![m] = job[m].run]
  <2>1. entered \in [Members -> {NoRun} \cup 1 .. runs] /\ job[m].run \in {NoRun} \cup 1 .. runs
    BY <1>1 DEF DInv, WorldTypes, HandlersOK
  <2>2. entered' \in [Members -> {NoRun} \cup 1 .. runs] /\ \A x \in Members : x # m => entered'[x] = entered[x]
    BY <1>3, <2>1
  <2>3. unsettled' \in [Members -> BOOLEAN] /\ \A x \in Members : x # m => unsettled'[x] = unsettled[x]
    BY <1>1, <1>3 DEF WorldTypes
  <2>4. Detached(m) \in {NoRun, runtime[m]}
    BY DEF Detached
  <2>5. /\ runtime' \in [Members -> {NoRun} \cup [id : 1 .. runs, over : BOOLEAN, leaving : BOOLEAN]]
        /\ runtime'[m] = Detached(m) /\ \A x \in Members : x # m => runtime'[x] = runtime[x]
    BY <1>1, <1>3, <2>4 DEF WorldTypes
  <2> QED BY <1>1, <2>2, <2>3, <2>4, <2>5
<1> QED BY <1>2, <1>3 DEF ServeEntry

\* An entry keeps the invariant.
LEMMA ServeEntryKept ==
    ASSUME DInv, NEW m \in Members, ServeEntry(m)
    PROVE  DInv'
<1>1. /\ job[m] \in Serves
      /\ runtime' \in [Members -> {NoRun} \cup [id : 1 .. runs, over : BOOLEAN, leaving : BOOLEAN]]
      /\ entered' \in [Members -> {NoRun} \cup 1 .. runs]
      /\ unsettled' \in [Members -> BOOLEAN]
      /\ \A x \in Members : runtime'[x] = NoRun \/ runtime'[x] = runtime[x]
  BY EntryParts
<1>2. PICK result \in {"yes", "error"} : Answer(m, result)
  BY DEF ServeEntry
<1>3. UNCHANGED <<launched, page, origin>>
  BY DEF ServeEntry
<1>4. UNCHANGED <<party, view, conn, runs>>
  BY <1>2 DEF Answer
<1>5. WorldTypes'
  BY <1>1, <1>3, <1>4 DEF DInv, Types, WorldTypes
<1> QED BY <1>1, <1>2, <1>3, <1>5, AnswerKept

\* Each caller has one call in a queue; I is where s has its call in q; the
\* callers in p are those in q without s.
OnePerCaller(q) == \A i, j \in 1 .. Len(q) : q[i].from = q[j].from => i = j

Places(I, q, s) == I \in SUBSET (1 .. Len(q)) /\ \A i \in 1 .. Len(q) : i \in I <=> q[i].from = s

CallersBut(p, q, s) ==
    \A r : (\E i \in 1 .. Len(p) : p[i].from = r)
              <=> r # s /\ \E i \in 1 .. Len(q) : q[i].from = r

\* A queue of calls without the call of s.
LEMMA LessCalls ==
    ASSUME NEW q \in Seq(Calls), NEW s, NEW I, Places(I, q, s), NEW p, p = Less(q, I),
           OnePerCaller(q)
    PROVE  p \in Seq(Calls) /\ CallersBut(p, q, s) /\ OnePerCaller(p)
<1>1. Len(q) \in Nat
  OBVIOUS
<1>2. /\ I \in SUBSET (1 .. Len(q)) /\ (\A i, j \in I : i = j)
      /\ \A i \in 1 .. Len(q) : i \in I <=> q[i].from = s
  BY DEF Places, OnePerCaller
<1>3. /\ p \in Seq(Calls) /\ (I = {} => p = q)
      /\ \A i \in I : /\ Len(p) = Len(q) - 1
                      /\ \A k \in 1 .. Len(q) - 1 : p[k] = IF k < i THEN q[k] ELSE q[k + 1]
  BY <1>2, LessFacts
<1>4. CASE I = {}
  <2>1. p = q /\ \A i \in 1 .. Len(q) : q[i].from # s
    BY <1>2, <1>3, <1>4
  <2>2. /\ \A r : (\E i \in 1 .. Len(p) : p[i].from = r)
                     <=> r # s /\ \E i \in 1 .. Len(q) : q[i].from = r
        /\ \A i, j \in 1 .. Len(p) : p[i].from = p[j].from => i = j
    BY <2>1 DEF OnePerCaller
  <2> QED BY <1>3, <2>2 DEF CallersBut, OnePerCaller
<1>5. CASE I # {}
  <2>1. PICK d \in I : TRUE
    BY <1>5
  <2>2. d \in 1 .. Len(q) /\ q[d].from = s
    BY <1>2, <2>1
  <2>3. Len(p) = Len(q) - 1 /\ \A k \in 1 .. Len(q) - 1 : p[k] = IF k < d THEN q[k] ELSE q[k + 1]
    BY <1>3, <2>1
  <2>4. \A k \in 1 .. Len(p) : /\ k < d => k \in 1 .. Len(q) /\ k # d /\ p[k] = q[k]
                               /\ ~ (k < d) => k + 1 \in 1 .. Len(q) /\ k + 1 # d /\ p[k] = q[k + 1]
    BY <1>1, <2>2, <2>3
  <2>5. \A k \in 1 .. Len(q) : /\ k < d => k \in 1 .. Len(p) /\ p[k] = q[k]
                               /\ k > d => k - 1 \in 1 .. Len(p) /\ p[k - 1] = q[k]
                               /\ k < d \/ k > d \/ k = d
    <3> SUFFICES ASSUME NEW k \in 1 .. Len(q)
                 PROVE  /\ k < d => k \in 1 .. Len(p) /\ p[k] = q[k]
                        /\ k > d => k - 1 \in 1 .. Len(p) /\ p[k - 1] = q[k]
                        /\ k < d \/ k > d \/ k = d
      OBVIOUS
    <3>1. CASE k < d
      BY <1>1, <2>2, <2>3, <3>1
    <3>2. CASE k > d
      <4>1. k - 1 \in 1 .. Len(q) - 1 /\ ~ (k - 1 < d) /\ (k - 1) + 1 = k
        BY <1>1, <2>2, <3>2
      <4> QED BY <1>1, <2>2, <2>3, <3>2, <4>1
    <3> QED BY <1>1, <2>2, <3>1, <3>2
  <2>6. ASSUME NEW r, NEW i \in 1 .. Len(p), p[i].from = r
        PROVE  r # s /\ \E k \in 1 .. Len(q) : q[k].from = r
    <3>1. PICK k \in 1 .. Len(q) : k # d /\ p[i] = q[k]
      BY <2>4
    <3> QED BY <2>2, <2>6, <3>1 DEF OnePerCaller
  <2>7. ASSUME NEW r, r # s, NEW i \in 1 .. Len(q), q[i].from = r
        PROVE  \E k \in 1 .. Len(p) : p[k].from = r
    <3>1. i # d
      BY <2>2, <2>7
    <3>2. PICK k \in 1 .. Len(p) : p[k] = q[i]
      BY <2>5, <3>1
    <3> QED BY <2>7, <3>2
  <2>8. ASSUME NEW i \in 1 .. Len(p), NEW j \in 1 .. Len(p), p[i].from = p[j].from
        PROVE  i = j
    <3> DEFINE f(k) == IF k < d THEN k ELSE k + 1
    <3>1. f(i) \in 1 .. Len(q) /\ p[i] = q[f(i)] /\ f(j) \in 1 .. Len(q) /\ p[j] = q[f(j)]
      BY <2>4
    <3>2. f(i) = f(j)
      BY <2>8, <3>1 DEF OnePerCaller
    <3>3. i \in Nat /\ j \in Nat /\ d \in Nat
      BY <1>1, <2>2, <2>3
    <3> QED BY <3>2, <3>3
  <2>9. \A r : (\E i \in 1 .. Len(p) : p[i].from = r)
                  <=> r # s /\ \E i \in 1 .. Len(q) : q[i].from = r
    BY <2>6, <2>7
  <2> QED BY <1>3, <2>8, <2>9 DEF CallersBut, OnePerCaller
<1> QED BY <1>4, <1>5

\* The deadline of a call
LEMMA TimeoutKept ==
    ASSUME DInv, NEW s \in Members, Timeout(s)
    PROVE  DInv'
<1>1. Waits(s) /\ WorldTypes' /\ UNCHANGED <<runtime, launched, runs>>
  BY JobParts, LoopWorld DEF Timeout, Waits
<1>2. inbox \in [Members -> Seq(Calls)]
  BY DEF DInv, Types
<1>3. \A m \in Members : inbox'[m] = Less(inbox[m], {i \in DOMAIN inbox[m] : inbox[m][i].from = s})
  BY DEF Timeout
<1>4. ASSUME NEW m \in Members
      PROVE  /\ inbox'[m] \in Seq(Calls)
             /\ \A r : (\E i \in 1 .. Len(inbox'[m]) : inbox'[m][i].from = r)
                          <=> r # s /\ \E i \in 1 .. Len(inbox[m]) : inbox[m][i].from = r
             /\ \A i, j \in 1 .. Len(inbox'[m]) : inbox'[m][i].from = inbox'[m][j].from => i = j
  <2> DEFINE q == inbox[m]
             I == {i \in DOMAIN q : q[i].from = s}
  <2>1. q \in Seq(Calls) /\ OnePerCaller(q)
    BY <1>2 DEF DInv, CallsOK, OncePerLoop, OnePerCaller
  <2>2. inbox'[m] = Less(q, I)
    BY <1>3
  <2>3. Places(I, q, s)
    BY <2>1 DEF Places
  <2> HIDE DEF q, I
  <2>4. inbox'[m] \in Seq(Calls) /\ CallersBut(inbox'[m], q, s) /\ OnePerCaller(inbox'[m])
    BY ONLY <2>1, <2>2, <2>3, LessCalls
  <2> QED BY <2>4 DEF q, CallersBut, OnePerCaller
<1>5. inbox' = [m \in Members |-> inbox'[m]]
  BY DEF Timeout
<1>6. inbox' \in [Members -> Seq(Calls)]
  BY <1>4, <1>5
<1>7. \A r, m \in Members : Queued(r, m)' <=> r \notin {s} /\ Queued(r, m)
  BY <1>4 DEF Queued
<1>8. job' = [m \in Members |->
                 IF m = s THEN Resumed(job[s], "error")
                 ELSE IF ~Free(m) /\ job[m].op = "serve" /\ job[m].from = s
                 THEN [job[m] EXCEPT !.live = FALSE]
                 ELSE job[m]]
  BY DEF Timeout
<1>9. /\ job'[s] \in Handlers /\ ~ job'[s].waiting /\ HandlerOK(job'[s], s, runs)
      /\ job'[s] \notin Serves /\ job[s] \notin Serves
  <2>1. job'[s] = Resumed(job[s], "error")
    BY <1>8
  <2>2. job'[s] \in Handlers /\ ~ job'[s].waiting /\ HandlerOK(job'[s], s, runs) /\ job[s] \in Handlers
    BY <1>1, <2>1, WaitsParts
  <2> QED BY <2>2, HandlerParts
<1>10. ASSUME NEW m \in Members, m # s
       PROVE  \/ job'[m] = job[m] /\ (job[m] \in Serves => job[m].from # s)
              \/ /\ job[m] \in Serves /\ job[m].from = s
                 /\ job'[m] \in Serves /\ job'[m].run = job[m].run /\ ~ job'[m].live
  <2>1. CASE ~Free(m) /\ job[m].op = "serve" /\ job[m].from = s
    <3>1. job'[m] = [job[m] EXCEPT !.live = FALSE] /\ job[m] \in Serves
      BY <1>8, <1>10, <2>1, JobParts
    <3> QED BY <2>1, <3>1 DEF Serves
  <2>2. CASE ~ (~Free(m) /\ job[m].op = "serve" /\ job[m].from = s)
    <3>1. job'[m] = job[m]
      BY <1>8, <1>10, <2>2
    <3>2. job[m] \in Serves => ~ Free(m) /\ job[m].op = "serve"
      BY ServeParts DEF Free
    <3> QED BY <2>2, <3>1, <3>2
  <2> QED BY <2>1, <2>2
<1>11. \A r, m \in Members : Running(r, m)' <=> r \notin {s} /\ Running(r, m)
  BY <1>9, <1>10 DEF Running
<1>12. job' = [m \in Members |-> job'[m]]
  BY <1>8
<1>13. \A m \in Members : m \notin {s} =>
           \/ job'[m] = job[m]
           \/ job[m] \in Serves /\ job'[m] = Idle
           \/ job[m] \in Serves /\ job'[m] \in Serves /\ job'[m].run = job[m].run
  BY <1>10
<1>14. {s} \in SUBSET Members /\ \A r \in {s} : /\ Waits(r) /\ job'[r] \in Handlers
                                               /\ ~ job'[r].waiting /\ HandlerOK(job'[r], r, runs)
  BY <1>1, <1>9
<1>15. \A m \in Members : \A i, j \in 1 .. Len(inbox'[m]) :
           inbox'[m][i].from = inbox'[m][j].from => i = j
  BY <1>4
<1> QED BY <1>1, <1>6, <1>7, <1>11, <1>12, <1>13, <1>14, <1>15, ResumeStep

\* The connection ends and its loop rejects the calls that wait there.
LEMMA CloseKept ==
    ASSUME DInv, NEW m \in Members, Close(m)
    PROVE  DInv'
<1> DEFINE D == {s \in Members : Queued(s, m)}
<1>1. UNCHANGED <<view, page, origin, unsettled, runtime, entered, launched, runs>>
  BY DEF Close, dungeons, towns
<1>2. WorldTypes'
  <2>1. WorldTypes
    BY DEF DInv, Types
  <2>2. party' \in Projections
    BY <2>1, WithoutType DEF Close, WorldTypes
  <2>3. conn' \in [Members -> {"open", "failed", "closed"}]
    BY <2>1 DEF Close, WorldTypes
  <2> QED BY <1>1, <2>1, <2>2, <2>3 DEF WorldTypes
<1>3. inbox \in [Members -> Seq(Calls)]
  BY DEF DInv, Types
<1>4. /\ inbox'[m] = <<>> /\ inbox' \in [Members -> Seq(Calls)]
      /\ \A x \in Members : x # m => inbox'[x] = inbox[x]
  BY <1>3 DEF Close
<1>5. job' = [s \in Members |->
                 IF \E i \in DOMAIN inbox[m] : inbox[m][i].from = s
                 THEN Resumed(job[s], "error") ELSE job[s]]
  BY DEF Close
<1>6. \A s \in Members : s \in D <=> \E i \in DOMAIN inbox[m] : inbox[m][i].from = s
  BY <1>3 DEF Queued
<1>7. ASSUME NEW s \in D
      PROVE  /\ s \in Members /\ Waits(s)
             /\ job'[s] \in Handlers /\ ~ job'[s].waiting /\ HandlerOK(job'[s], s, runs)
             /\ job'[s] \notin Serves /\ job[s] \notin Serves
  <2>1. s \in Members /\ Waits(s) /\ job'[s] = Resumed(job[s], "error")
    BY <1>5, <1>6 DEF DInv, CallsOK, CalledOK
  <2>2. job'[s] \in Handlers /\ ~ job'[s].waiting /\ HandlerOK(job'[s], s, runs)
        /\ job[s] \in Handlers
    BY <2>1, WaitsParts
  <2> QED BY <2>1, <2>2, HandlerParts
<1>8. \A s \in Members : s \notin D => job'[s] = job[s]
  BY <1>5, <1>6
<1>9. \A s, x \in Members : s \in D => ~ Running(s, x) /\ (Queued(s, x) => x = m)
  BY OneCall
<1>10. \A s \in Members : ~ Queued(s, m)'
  BY <1>4 DEF Queued
<1>11. \A s, x \in Members : x # m => (Queued(s, x)' <=> Queued(s, x))
  BY <1>4 DEF Queued
<1>12. \A s, x \in Members : Queued(s, x)' <=> s \notin D /\ Queued(s, x)
  <2> SUFFICES ASSUME NEW s \in Members, NEW x \in Members
               PROVE  Queued(s, x)' <=> s \notin D /\ Queued(s, x)
    OBVIOUS
  <2>1. CASE x = m
    BY <1>10, <2>1
  <2>2. CASE x # m
    BY <1>9, <1>11, <2>2
  <2> QED BY <2>1, <2>2
<1>13. \A s, x \in Members : Running(s, x)' <=> s \notin D /\ Running(s, x)
  <2> SUFFICES ASSUME NEW s \in Members, NEW x \in Members
               PROVE  Running(s, x)' <=> s \notin D /\ Running(s, x)
    OBVIOUS
  <2>1. CASE x \in D
    BY <1>7, <2>1 DEF Running
  <2>2. CASE x \notin D
    BY <1>8, <1>9, <2>2 DEF Running
  <2> QED BY <2>1, <2>2
<1>14. \A x \in Members : \A i, j \in 1 .. Len(inbox'[x]) :
           inbox'[x][i].from = inbox'[x][j].from => i = j
  <2> SUFFICES ASSUME NEW x \in Members
               PROVE  \A i, j \in 1 .. Len(inbox'[x]) : inbox'[x][i].from = inbox'[x][j].from => i = j
    OBVIOUS
  <2>1. CASE x = m
    BY <1>4, <2>1
  <2>2. CASE x # m
    BY <1>4, <2>2 DEF DInv, CallsOK, OncePerLoop
  <2> QED BY <2>1, <2>2
<1>15. D \in SUBSET Members
  OBVIOUS
<1> HIDE DEF D
<1>16. job' = [s \in Members |-> job'[s]]
  BY <1>5
<1>17. \A s \in D : /\ Waits(s) /\ job'[s] \in Handlers /\ ~ job'[s].waiting
                    /\ HandlerOK(job'[s], s, runs)
  BY <1>7
<1> QED BY <1>1, <1>2, <1>4, <1>8, <1>12, <1>13, <1>14, <1>15, <1>16, <1>17, ResumeStep

\* The loop takes the next call.
LEMMA ServeKept ==
    ASSUME DInv, NEW m \in Members, Serve(m)
    PROVE  DInv'
<1> DEFINE q == inbox[m]
           c == Head(q)
           f == c.from
           g == [op |-> "serve", from |-> f, kind |-> c.kind,
                 state |-> job[f].state, run |-> job[f].run, live |-> TRUE]
<1>1. WorldTypes' /\ UNCHANGED <<runtime, launched, runs>> /\ Free(m) /\ q # <<>>
  BY LoopWorld DEF Serve
<1>2. job' = [job EXCEPT ![m] = g] /\ inbox' = [inbox EXCEPT ![m] = Tail(q)]
  BY DEF Serve
<1>3. inbox \in [Members -> Seq(Calls)] /\ q \in Seq(Calls) /\ job \in [Members -> Jobs]
  BY DEF DInv, Types
<1>4. /\ Tail(q) \in Seq(Calls) /\ Len(q) \in Nat /\ Len(q) >= 1 /\ Len(Tail(q)) = Len(q) - 1
      /\ \A i \in 1 .. Len(q) - 1 : Tail(q)[i] = q[i + 1]
      /\ c = q[1] /\ c \in Calls
  BY <1>1, <1>3, TailParts
<1>5. f \in Members /\ c.kind \in {"selector", "entry"}
  BY <1>4 DEF Calls
<1>6. Queued(f, m)
  <2>1. 1 \in 1 .. Len(q)
    BY <1>4
  <2> QED BY <1>4, <2>1 DEF Queued
<1>7. Waits(f) /\ job[f].todo # <<>> /\ m = Head(job[f].todo)
  BY <1>5, <1>6 DEF DInv, CallsOK, CalledOK
<1>8. job[f] \in Handlers /\ HandlerOK(job[f], f, runs)
  BY <1>5, <1>7 DEF Waits, DInv, HandlersOK
<1>9. f # m /\ job[m] \notin Handlers /\ job[m] \notin Serves
  BY <1>1, <1>8, JobParts
<1>10. /\ job[f].state \in Projections \cup {NoParty} /\ job[f].run \in Nat \cup {NoRun}
       /\ job[f].run \in {NoRun} \cup 1 .. runs
  BY <1>8, HandlerParts DEF HandlerOK
<1> HIDE DEF f
<1>11. g \in Serves /\ g.from = f /\ g.live /\ g.run = job[f].run
  BY <1>5, <1>10 DEF Serves
<1> HIDE DEF g, c
<1>12. g \notin Handlers /\ g \in Jobs
  BY <1>11, ServeParts DEF Jobs
<1>13. HandlersOK' /\ job' \in [Members -> Jobs]
  <2>1. runs' \in Nat /\ runs <= runs' /\ g.run \in {NoRun} \cup 1 .. runs'
    BY <1>1, <1>10, <1>11 DEF WorldTypes
  <2> QED BY <1>2, <1>12, <2>1, OneHandler
<1>14. /\ job'[m] = g /\ \A x \in Members : x # m => job'[x] = job[x]
  BY <1>2, <1>3
<1> DEFINE u == Tail(q)
<1>15. u \in Seq(Calls) /\ inbox' = [inbox EXCEPT ![m] = u]
  BY <1>2, <1>4
<1>16. \A i \in 1 .. Len(u) : i + 1 \in 1 .. Len(q) /\ u[i] = q[i + 1] /\ i + 1 # 1
  BY <1>4
<1>17. \A i \in 1 .. Len(q) : i = 1 \/ (i - 1 \in 1 .. Len(u) /\ u[i - 1] = q[i])
  <2> SUFFICES ASSUME NEW i \in 1 .. Len(q), i # 1
               PROVE  i - 1 \in 1 .. Len(u) /\ u[i - 1] = q[i]
    OBVIOUS
  <2>1. i - 1 \in 1 .. Len(q) - 1 /\ (i - 1) + 1 = i
    BY <1>4
  <2> QED BY <1>4, <2>1
<1>18. \A i, j \in 1 .. Len(q) : q[i].from = q[j].from => i = j
  BY DEF DInv, CallsOK, OncePerLoop
<1>19. q[1].from = f /\ 1 \in 1 .. Len(q)
  BY <1>4 DEF f
<1> HIDE DEF u
<1>20. /\ inbox' \in [Members -> Seq(Calls)] /\ inbox'[m] = u
       /\ \A x \in Members : x # m => inbox'[x] = inbox[x]
  BY ONLY <1>3, <1>15, m \in Members
<1>21. ASSUME NEW r PROVE (\E i \in 1 .. Len(u) : u[i].from = r)
                             <=> r # f /\ \E i \in 1 .. Len(q) : q[i].from = r
  <2>1. ASSUME NEW i \in 1 .. Len(u), u[i].from = r
        PROVE  r # f /\ \E k \in 1 .. Len(q) : q[k].from = r
    <3>1. i + 1 \in 1 .. Len(q) /\ q[i + 1].from = r /\ i + 1 # 1
      BY <1>16, <2>1
    <3> QED BY <1>18, <1>19, <3>1
  <2>2. ASSUME r # f, NEW i \in 1 .. Len(q), q[i].from = r
        PROVE  \E k \in 1 .. Len(u) : u[k].from = r
    <3>1. i # 1
      BY <1>19, <2>2
    <3> QED BY <1>17, <2>2, <3>1
  <2> QED BY <2>1, <2>2
<1>22. ASSUME NEW r \in Members, NEW x \in Members
       PROVE  Queued(r, x)' <=> Queued(r, x) /\ ~ (r = f /\ x = m)
  <2>1. CASE x = m
    BY <1>20, <1>21, <2>1 DEF Queued
  <2>2. CASE x # m
    BY <1>20, <2>2 DEF Queued
  <2> QED BY <2>1, <2>2
<1>23. ASSUME NEW r \in Members, NEW x \in Members
       PROVE  Running(r, x)' <=> Running(r, x) \/ (r = f /\ x = m)
  <2>1. CASE x = m
    BY <1>9, <1>11, <1>14, <2>1 DEF Running
  <2>2. CASE x # m
    BY <1>14, <2>2 DEF Running
  <2> QED BY <2>1, <2>2
<1>24. \A r \in Members : /\ Waits(r)' <=> Waits(r)
                          /\ Waits(r) => job'[r] = job[r]
  BY <1>9, <1>12, <1>14 DEF Waits
<1>25. \A r, x \in Members : (Queued(r, x) \/ Running(r, x))' <=> Queued(r, x) \/ Running(r, x)
  <2> SUFFICES ASSUME NEW r \in Members, NEW x \in Members
               PROVE  (Queued(r, x) \/ Running(r, x))' <=> Queued(r, x) \/ Running(r, x)
    OBVIOUS
  <2>1. (r = f /\ x = m) => Queued(r, x)
    BY <1>6
  <2> QED BY <1>22, <1>23, <2>1
<1>26. CalledOK'
  BY <1>24, <1>25 DEF DInv, CallsOK, CalledOK
<1>27. AnsweredOK'
  BY <1>24, <1>25 DEF DInv, CallsOK, AnsweredOK
<1>28. OncePerLoop'
  <2>1. ASSUME NEW x \in Members, NEW r \in Members PROVE ~ (Queued(r, x)' /\ Running(r, x)')
    BY <1>22, <1>23 DEF DInv, CallsOK, OncePerLoop
  <2>2. ASSUME NEW x \in Members, NEW i \in 1 .. Len(inbox'[x]), NEW j \in 1 .. Len(inbox'[x]),
               inbox'[x][i].from = inbox'[x][j].from
        PROVE  i = j
    <3>1. CASE x # m
      BY <1>20, <2>2, <3>1 DEF DInv, CallsOK, OncePerLoop
    <3>2. CASE x = m
      <4>1. i \in 1 .. Len(u) /\ j \in 1 .. Len(u) /\ u[i].from = u[j].from
        BY <1>20, <2>2, <3>2
      <4>2. i + 1 = j + 1
        BY <1>16, <1>18, <4>1
      <4>3. Len(u) \in Nat
        BY <1>15
      <4> QED BY <4>1, <4>2, <4>3
    <3> QED BY <3>1, <3>2
  <2> QED BY <2>1, <2>2 DEF OncePerLoop
<1>29. OrphansOK'
  <2>1. \A r \in Members : \/ job'[r] = job[r] \/ job[r] \notin Handlers
    BY <1>9, <1>14
  <2> QED BY <1>1, <2>1, QuietOrphans
<1>30. Types'
  BY <1>1, <1>13, <1>20 DEF Types
<1> QED BY <1>13, <1>26, <1>27, <1>28, <1>29, <1>30 DEF DInv, CallsOK

-----------------------------------------------------------------------------
(* The invariant *)

\* In town or at the selector, with idle loops.
LEMMA InitDInv == Init => DInv
<1> SUFFICES ASSUME Init PROVE DInv
  OBVIOUS
<1>1. WorldTypes
  <2>1. [id |-> 1, roster |-> Roster] \in Projections
    BY DungeonAssumption DEF Projections
  <2> QED BY <2>1 DEF Init, WorldTypes
<1>2. job = [m \in Members |-> Idle] /\ inbox = [m \in Members |-> <<>>]
  BY DEF Init
<1>3. Types
  BY <1>1, <1>2 DEF Types, Jobs
<1>4. Idle \notin Handlers /\ Idle \notin Serves
  BY DungeonAssumption
<1>5. \A m \in Members : job[m] \notin Handlers /\ job[m] \notin Serves /\ inbox[m] = <<>>
  BY <1>2, <1>4
<1>6. HandlersOK
  BY <1>5 DEF HandlersOK
<1>7. CallsOK
  BY <1>5 DEF CallsOK, CalledOK, OncePerLoop, AnsweredOK, Waits, Queued, Running
<1>8. OrphansOK
  BY DEF Init, OrphansOK
<1> QED BY <1>3, <1>6, <1>7, <1>8 DEF DInv

\* What a player does keeps the invariant.
LEMMA ArriveKept ==
    ASSUME DInv, NEW m \in Members, Arrive(m)
    PROVE  DInv'
BY OpenSelectorKept, SelectDungeonKept, BackToVillageKept, LeaveDungeonKept, StayInDungeonKept,
   ConfirmReturnKept, MoveTownKept, CompleteKept, FinishDungeonKept, DepartKept,
   DisconnectKept DEF Arrive

\* What a loop does keeps the invariant.
LEMMA ContinueKept ==
    ASSUME DInv, NEW s \in Members, Continue(s)
    PROVE  DInv'
BY SyncKept, CheckKept, PreflightKept, CommitKept, RollbackKept, AnnounceKept, EnterKept, EndKept,
   ServeKept, ServeSelectorKept, ServeEntryKept DEF Continue

\* A step that changes nothing.
LEMMA StutterKept ==
    ASSUME DInv, UNCHANGED vars
    PROVE  DInv'
<1>1. /\ UNCHANGED <<party, view, towns, dungeons, conn, runs>> /\ UNCHANGED loops /\ UNCHANGED runs
      /\ UNCHANGED launched /\ UNCHANGED runtime
  BY DEF vars, dungeons, towns
<1>2. WorldTypes'
  BY <1>1, LoopWorld
<1> QED BY <1>1, <1>2, WorldStep

\* DInv is inductive.
LEMMA NextDInv == DInv /\ [Next]_vars => DInv'
<1> SUFFICES ASSUME DInv, [Next]_vars PROVE DInv'
  OBVIOUS
<1>1. CASE UNCHANGED vars
  BY <1>1, StutterKept
<1>2. ASSUME NEW m \in Members, Arrive(m) \/ Continue(m) \/ Timeout(m) \/ Publish(m) \/ Close(m)
      PROVE  DInv'
  BY <1>2, ArriveKept, ContinueKept, TimeoutKept, PublishKept, CloseKept
<1> QED BY <1>1, <1>2 DEF Next

\* Every reachable state of the fan-out has its types, handlers that are about
\* a prepared run, one call for each handler that waits, and a handler that
\* withdraws each run without its leader.
THEOREM DungeonInvariant == Spec => []DInv
<1>1. Init => DInv
  BY InitDInv
<1>2. DInv /\ [Next]_vars => DInv'
  BY NextDInv
<1> QED BY <1>1, <1>2, PTL DEF Spec

\* The invariant gives the calls their shape.
LEMMA DInvType == DInv => TypeOK
<1> SUFFICES ASSUME DInv PROVE TypeOK
  OBVIOUS
<1>1. /\ page \in [Members -> BOOLEAN]
      /\ origin \in [Members -> BOOLEAN] /\ \A m \in Members : origin[m] => page[m]
      /\ unsettled \in [Members -> BOOLEAN]
      /\ runtime \in [Members -> {NoRun} \cup [id : 1 .. runs, over : BOOLEAN, leaving : BOOLEAN]]
      /\ entered \in [Members -> {NoRun} \cup 1 .. runs]
      /\ conn \in [Members -> {"open", "failed", "closed"}]
  BY DEF DInv, Types, WorldTypes
<1>2. ASSUME NEW s \in Members
      PROVE  LET queued == {m \in Members : \E i \in DOMAIN inbox[m] : inbox[m][i].from = s}
                 served == {m \in Members : /\ ~Free(m) /\ job[m].op = "serve"
                                            /\ job[m].from = s /\ job[m].live}
             IN  IF ~Free(s) /\ job[s].op # "serve"
                 THEN /\ job[s].phase \in Phases
                      /\ job[s].waiting <=> queued \cup served # {}
                 ELSE queued \cup served = {}
  <2> DEFINE queued == {m \in Members : \E i \in DOMAIN inbox[m] : inbox[m][i].from = s}
             served == {m \in Members : /\ ~Free(m) /\ job[m].op = "serve"
                                        /\ job[m].from = s /\ job[m].live}
  <2>1. \A m \in Members : DOMAIN inbox[m] = 1 .. Len(inbox[m])
    BY DEF DInv, Types
  <2>2. \A m \in Members : m \in queued <=> Queued(s, m)
    BY <2>1 DEF Queued
  <2>3. \A m \in Members : m \in served <=> Running(s, m)
    <3>1. \A m \in Members : job[m] \in Serves <=> ~ Free(m) /\ job[m].op = "serve"
      BY JobParts, ServeParts DEF Free
    <3> QED BY <3>1 DEF Running
  <2>4. queued \subseteq Members /\ served \subseteq Members
    OBVIOUS
  <2> HIDE DEF queued, served
  <2>5. queued \cup served # {} <=> \E m \in Members : Queued(s, m) \/ Running(s, m)
    BY <2>2, <2>3, <2>4
  <2>6. Waits(s) <=> \E m \in Members : Queued(s, m) \/ Running(s, m)
    BY DEF DInv, CallsOK, CalledOK, AnsweredOK
  <2>7. CASE ~Free(s) /\ job[s].op # "serve"
    <3>1. job[s] \in Handlers
      BY <2>7, JobParts
    <3>2. job[s].phase \in Phases /\ (job[s].waiting <=> queued \cup served # {})
      BY <2>5, <2>6, <3>1, HandlerParts DEF Waits
    <3> QED BY <2>7, <3>2 DEF queued, served
  <2>8. CASE ~ (~Free(s) /\ job[s].op # "serve")
    <3>1. job[s] \notin Handlers
      BY <2>8, HandlerParts DEF Free
    <3>2. queued \cup served = {}
      BY <2>5, <2>6, <3>1 DEF Waits
    <3> QED BY <2>8, <3>2 DEF queued, served
  <2> QED BY <2>7, <2>8
<1> QED BY <1>1, <1>2 DEF TypeOK

\* A run without its leader belongs to a selection that withdraws it.
LEMMA DInvNoOrphans == DInv => NoOrphanedRuntime
<1> SUFFICES ASSUME DInv PROVE NoOrphanedRuntime
  OBVIOUS
<1>1. TypeOK
  BY DInvType
<1>2. ASSUME NEW m \in Members, runtime[m] # NoRun, runtime[m].id \notin launched
      PROVE  \E s \in Members : /\ ~Free(s) /\ job[s].op = "select"
                                /\ job[s].run = runtime[m].id
                                /\ job[s].phase \in {"commit", "rollback"}
  <2>1. PICK s \in Members : Covers(job[s], m, runtime[m].id)
    BY <1>2 DEF DInv, OrphansOK
  <2>2. ~ Free(s)
    BY <2>1, HandlerParts DEF Covers, Free
  <2> QED BY <2>1, <2>2 DEF Covers
<1> QED BY <1>1, <1>2 DEF NoOrphanedRuntime

\* A run its leader did not commit leaves no trace once op16 is over, whoever
\* selects, returns or disconnects between the commits of the batch, for
\* every number of members and of selections.
THEOREM NoRunIsOrphaned == Spec => []NoOrphanedRuntime
<1>1. DInv => NoOrphanedRuntime
  BY DInvNoOrphans
<1> QED BY <1>1, DungeonInvariant, PTL

-----------------------------------------------------------------------------
(* Who takes an active run away *)

\* One step: a return takes a run its member was leaving, commits replace runs
\* that are over, and a rollback takes its own.
LEMMA RunKeptStep ==
    ASSUME DInv, NEW a \in Members,
           Arrive(a) \/ Continue(a) \/ Timeout(a) \/ Publish(a) \/ Close(a),
           NEW m \in Members, runtime[m] # NoRun, ~ runtime[m].over,
           runtime'[m] = NoRun \/ runtime'[m].id # runtime[m].id
    PROVE  \/ runtime[m].leaving
           \/ \E s \in Members : Rollback(s) /\ job[s].run = runtime[m].id
<1>1. runtime' # runtime /\ runtime'[m] # runtime[m]
  OBVIOUS
<1>2. WorldTypes
  BY DEF DInv, Types
<1>3. ASSUME Detached(m) # runtime[m] PROVE runtime[m].leaving
  BY <1>3 DEF Detached, Leaving
<1>4. CASE Arrive(a)
  <2>1. CASE BackToVillage(a) \/ Depart(a) \/ Disconnect(a)
    BY <1>1, <2>1 DEF BackToVillage, Depart, Disconnect, dungeons
  <2>2. CASE OpenSelector(a)
    <3>1. runtime' = [runtime EXCEPT ![a] = NoRun]
      BY <2>2 DEF OpenSelector
    <3>2. a = m
      BY <1>1, <1>2, <3>1 DEF WorldTypes
    <3> QED BY <2>2, <3>2 DEF OpenSelector
  <2>3. CASE SelectDungeon(a)
    BY <1>1, <1>3, <2>3, SelectResumes
  <2>4. CASE LeaveDungeon(a)
    BY <1>1, <2>4, LeaveDungeonKept
  <2>5. CASE StayInDungeon(a)
    BY <1>1, <2>5, StayInDungeonKept
  <2>6. CASE ConfirmReturn(a)
    BY <1>1, <1>3, <2>6, ConfirmReturnKept
  <2>7. CASE MoveTown(a)
    BY <1>1, <1>3, <2>7, MoveTownKept
  <2>8. CASE Complete(a)
    BY <1>1, <2>8, CompleteKept
  <2>9. CASE FinishDungeon(a)
    <3>1. a = m
      BY <1>1, <2>9, FinishDungeonKept
    <3> QED BY <2>9, <3>1 DEF FinishDungeon
  <2> QED BY <1>4, <2>1, <2>2, <2>3, <2>4, <2>5, <2>6, <2>7, <2>8, <2>9 DEF Arrive
<1>5. CASE ServeEntry(a)
  BY <1>1, <1>3, <1>5, EntryParts
<1>6. CASE Commit(a)
  <2> DEFINE x == Head(job[a].todo)
  <2>1. runtime' = [runtime EXCEPT ![x] = Run(job[a].run)] /\ MayCommit(x)
    BY <1>1, <1>6 DEF Commit
  <2> HIDE DEF x
  <2>2. x = m
    BY <1>1, <1>2, <2>1 DEF WorldTypes
  <2> QED BY <2>1, <2>2 DEF MayCommit
<1>7. CASE Rollback(a)
  <2> DEFINE x == Head(job[a].todo)
             r == IF runtime[x] # NoRun /\ runtime[x].id = job[a].run THEN NoRun ELSE runtime[x]
  <2>1. runtime' = [runtime EXCEPT ![x] = r]
    BY <1>1, <1>7 DEF Rollback
  <2>2. r # runtime[x] => runtime[x].id = job[a].run
    OBVIOUS
  <2> HIDE DEF x, r
  <2>3. x = m /\ r # runtime[x]
    BY <1>1, <1>2, <2>1 DEF WorldTypes
  <2> QED BY <1>7, <2>2, <2>3
<1>8. CASE Continue(a) /\ ~ ServeEntry(a) /\ ~ Commit(a) /\ ~ Rollback(a)
  BY <1>1, <1>8 DEF Continue, Sync, Check, Preflight, Announce, Enter, End, Serve, ServeSelector, dungeons
<1>9. CASE Timeout(a) \/ Publish(a) \/ Close(a)
  BY <1>1, <1>9 DEF Timeout, Publish, Close, dungeons
<1> QED BY <1>4, <1>5, <1>6, <1>7, <1>8, <1>9

\* Nobody loses an active run unless it asked to leave that run or the run is
\* rolled back, although every leader writes into the sessions of its
\* followers and its entry calls confirm the returns they have begun.
THEOREM ActiveRunsAreKept == Spec => RunsKept
<1> DEFINE Kept(m) ==
       (/\ runtime[m] # NoRun /\ ~runtime[m].over
        /\ runtime'[m] = NoRun \/ runtime'[m].id # runtime[m].id)
       => \/ runtime[m].leaving
          \/ \E s \in Members : Rollback(s) /\ job[s].run = runtime[m].id
<1>1. DInv /\ [Next]_vars => [\A m \in Members : Kept(m)]_vars
  <2> SUFFICES ASSUME DInv, Next, NEW m \in Members PROVE Kept(m)
    OBVIOUS
  <2>1. PICK a \in Members :
            Arrive(a) \/ Continue(a) \/ Timeout(a) \/ Publish(a) \/ Close(a)
    BY DEF Next
  <2> QED BY <2>1, RunKeptStep
<1>2. Spec => []DInv
  BY DungeonInvariant
<1>3. Spec => [][\A m \in Members : Kept(m)]_vars
  BY <1>1, <1>2, PTL DEF Spec
<1> QED BY <1>3 DEF RunsKept

-----------------------------------------------------------------------------
(* Entering together: nobody is left but those who strayed. *)

Selects(h) == h \in Handlers /\ h.op = "select"

Names(s, m) == Selects(job[s]) /\ Contains(job[s].all, m)

\* How far a selection has come with m: checked, ready, committed, called to
\* enter, entered.
Stage(h, m) ==
    IF h.phase = "check" THEN IF Contains(h.todo, m) THEN 0 ELSE 1
    ELSE IF h.phase = "preflight" THEN IF Contains(h.todo, m) THEN 1 ELSE 2
    ELSE IF h.phase = "commit" THEN IF Contains(h.todo, m) THEN 2 ELSE 3
    ELSE IF h.phase = "announce" THEN 3
    ELSE IF h.phase = "enter"
         THEN IF ~ Contains(h.todo, m) THEN 5
              ELSE IF h.waiting /\ Head(h.todo) = m THEN 4 ELSE 3
    ELSE IF h.phase = "done" THEN 5 ELSE 0

\* The loop runs an entry.
IsEntry(h) == h \in Serves /\ h.kind = "entry"

\* What a selection of run n that has come to stage st with a member relies on
\* as long as the member does not go elsewhere: its origin, its active run, that
\* it was sent there or is not done with its return, and that its loop does not
\* do anything else about dungeons.
Local(st, n, og, un, rt, en, j) ==
    /\ st >= 1 => og
    /\ st >= 2 => ~ Selects(j)
    /\ st >= 3 => rt = Run(n)
    /\ st = 5 => un \/ en = n
    /\ st >= 2 /\ IsEntry(j) /\ j.run # n => st < 5 /\ rt = Run(j.run)

LocalOK ==
    \A s, m \in Members : Names(s, m) /\ m \notin strayed =>
        Local(Stage(job[s], m), job[s].run, origin[m], unsettled[m], runtime[m], entered[m], job[m])

\* Of two selections that take m along the later one has the later party.
OrderOK ==
    \A s, r, m \in Members :
        /\ s # r /\ Names(s, m) /\ Names(r, m) /\ m \notin strayed
        /\ Stage(job[s], m) >= 4 /\ Stage(job[r], m) >= 1
        => job[r].state.id < job[s].state.id

\* No roster lists anybody twice.
Distinct(q) == \A i, j \in 1 .. Len(q) : q[i] = q[j] => i = j

\* The party of a projection has the leader the party of that id always had.
Older(p) ==
    p # NoParty =>
        /\ p.id <= party.id /\ p.roster # <<>> /\ Distinct(p.roster)
        /\ p.id = party.id => Head(p.roster) = Head(party.roster)

Agree(p, q) == p # NoParty /\ q # NoParty /\ p.id = q.id => Head(p.roster) = Head(q.roster)

Known == {view[m] : m \in Members} \cup {job[s].state : s \in {r \in Members : job[r] \in Handlers}}

KnownOK ==
    /\ party.roster # <<>> /\ Distinct(party.roster)
    /\ \A p \in Known : Older(p)
    /\ \A p, q \in Known : Agree(p, q)

\* A selection goes by the party of its leader, and that was the party of
\* everybody it has checked.
ViewsOK ==
    \A s, m \in Members : Names(s, m) =>
        /\ job[s].state # NoParty /\ Head(job[s].state.roster) = s /\ m # s
        /\ Stage(job[s], m) >= 1 /\ view[m] # NoParty => view[m].id >= job[s].state.id

\* Nobody is visited twice.
Visits(h) == Distinct(h.todo) /\ \A m \in Members : Contains(h.todo, m) => Contains(h.all, m)

\* Runs belong to one selection; the leader has committed what is entered.
RunsOK ==
    /\ launched \subseteq 1 .. runs
    /\ \A s, r \in Members : Selects(job[s]) /\ Selects(job[r]) /\ s # r => job[s].run # job[r].run
    /\ \A s \in Members : Selects(job[s]) =>
         /\ job[s].phase # "sync"
         /\ Distinct(job[s].all)
         /\ job[s].phase = "enter" => Visits(job[s])
         /\ job[s].phase \in {"announce", "enter", "done"} => job[s].run \in launched
         /\ job[s].phase \in {"check", "preflight", "commit", "rollback"} => job[s].run \notin launched
    /\ \A m \in Members : /\ entered[m] # NoRun => entered[m] \in launched
                          /\ IsEntry(job[m]) => job[m].run \in launched

\* A call is what its caller's phase says, and an entry of a selection's run is
\* its own call.
KindsOK ==
    /\ \A s, m \in Members : \A i \in 1 .. Len(inbox[m]) :
         inbox[m][i].from = s => (inbox[m][i].kind = "entry" <=> job[s].phase = "enter")
    /\ \A s, m \in Members : Running(s, m) =>
         /\ job[m].kind = "entry" <=> job[s].phase = "enter"
         /\ job[m].run = job[s].run
    /\ \A s, m \in Members : IsEntry(job[m]) /\ Selects(job[s]) /\ job[m].run = job[s].run =>
         job[m].from = s /\ (job[m].live \/ job[s].phase = "failed")

SInv == DInv /\ LocalOK /\ OrderOK /\ KnownOK /\ ViewsOK /\ RunsOK /\ KindsOK

\* What no step of a handler changes.
Like(g, h) ==
    /\ g \in Handlers /\ h \in Handlers
    /\ g.op = h.op /\ g.run = h.run /\ g.all = h.all /\ g.state = h.state

\* Another phase of the same handler.
LEMMA SamePhase ==
    ASSUME NEW h \in Handlers, NEW p \in Phases
    PROVE  Like(Phase(h, p), h) /\ Phase(h, p).phase = p /\ Phase(h, p).todo = h.all
           /\ ~ Phase(h, p).waiting
BY DEF Like, Handlers, Phase

\* The same handler on its way to the next member.
LEMMA SameVisited ==
    ASSUME NEW h \in Handlers, h.todo # <<>>
    PROVE  Like(Visited(h), h) /\ Visited(h).phase = h.phase /\ Visited(h).todo = Tail(h.todo)
           /\ ~ Visited(h).waiting
<1>1. Tail(h.todo) \in Seq(Members)
  BY HandlerParts
<1> QED BY <1>1 DEF Like, Handlers, Visited

\* The same handler with something else to visit.
LEMMA SameTodo ==
    ASSUME NEW h \in Handlers, NEW t \in Seq(Members)
    PROVE  /\ Like([h EXCEPT !.todo = t], h) /\ [h EXCEPT !.todo = t].phase = h.phase
           /\ [h EXCEPT !.todo = t].todo = t
BY DEF Like, Handlers

\* The same handler waiting.
LEMMA SameWaiting ==
    ASSUME NEW h \in Handlers
    PROVE  /\ Like([h EXCEPT !.waiting = TRUE], h)
           /\ [h EXCEPT !.waiting = TRUE].phase = h.phase
           /\ [h EXCEPT !.waiting = TRUE].todo = h.todo
           /\ [h EXCEPT !.waiting = TRUE].waiting
BY DEF Like, Handlers

\* What an answer makes of a handler that waits for it.
LEMMA SameResumed ==
    ASSUME NEW h \in Handlers, h.todo # <<>>, NEW r
    PROVE  /\ Like(Resumed(h, r), h)
           /\ \/ Resumed(h, r).phase \in {"blocked", "failed"}
              \/ /\ r # "error" /\ (h.phase = "preflight" => r = "yes")
                 /\ Resumed(h, r).phase = h.phase /\ Resumed(h, r).todo = Tail(h.todo)
                 /\ ~ Resumed(h, r).waiting
           /\ r = "error" => Resumed(h, r).phase \in {"blocked", "failed"}
           /\ r = "error" /\ h.phase # "preflight" => Resumed(h, r).phase = "failed"
<1>1. "blocked" \in Phases /\ "failed" \in Phases
  BY DEF Phases
<1>2. CASE h.phase = "preflight" /\ r # "yes"
  <2>1. Resumed(h, r) = Phase(h, "blocked")
    BY <1>2 DEF Resumed
  <2> QED BY <1>1, <1>2, <2>1, SamePhase
<1>3. CASE ~ (h.phase = "preflight" /\ r # "yes") /\ r = "error"
  <2>1. Resumed(h, r) = Phase(h, "failed")
    BY <1>3 DEF Resumed
  <2> QED BY <1>1, <1>3, <2>1, SamePhase
<1>4. CASE ~ (h.phase = "preflight" /\ r # "yes") /\ r # "error"
  <2>1. Resumed(h, r) = Visited(h)
    BY <1>4 DEF Resumed
  <2> QED BY <1>4, <2>1, SameVisited
<1> QED BY <1>2, <1>3, <1>4

\* The entries of a sequence and of its tail.
LEMMA ContainsTail ==
    ASSUME NEW S, NEW q \in Seq(S), q # <<>>, NEW m
    PROVE  /\ Contains(Tail(q), m) => Contains(q, m)
           /\ Contains(q, m) => m = Head(q) \/ Contains(Tail(q), m)
           /\ Contains(q, Head(q))
<1>1. /\ Tail(q) \in Seq(S) /\ Len(q) \in Nat /\ Len(q) >= 1 /\ Len(Tail(q)) = Len(q) - 1
      /\ \A i \in 1 .. Len(q) - 1 : Tail(q)[i] = q[i + 1]
      /\ Head(q) = q[1]
  BY TailParts
<1>2. ASSUME NEW i \in 1 .. Len(Tail(q)), Tail(q)[i] = m PROVE Contains(q, m)
  <2>1. i + 1 \in 1 .. Len(q) /\ q[i + 1] = m
    BY <1>1, <1>2
  <2> QED BY <2>1 DEF Contains
<1>3. ASSUME NEW i \in 1 .. Len(q), q[i] = m, m # Head(q) PROVE Contains(Tail(q), m)
  <2>1. i # 1
    BY <1>1, <1>3
  <2>2. i - 1 \in 1 .. Len(q) - 1 /\ (i - 1) + 1 = i
    BY <1>1, <2>1
  <2>3. i - 1 \in 1 .. Len(Tail(q)) /\ Tail(q)[i - 1] = m
    BY <1>1, <1>3, <2>2
  <2> QED BY <2>3 DEF Contains
<1>4. Contains(q, Head(q))
  <2>1. 1 \in 1 .. Len(q)
    BY <1>1
  <2> QED BY <1>1, <2>1 DEF Contains
<1> QED BY <1>2, <1>3, <1>4 DEF Contains

\* The entries of a longer sequence.
LEMMA ContainsAppend ==
    ASSUME NEW S, NEW q \in Seq(S), NEW x \in S, NEW m
    PROVE  Contains(Append(q, x), m) <=> Contains(q, m) \/ m = x
<1>1. /\ Len(Append(q, x)) = Len(q) + 1 /\ Len(q) \in Nat
      /\ \A i \in 1 .. Len(q) : Append(q, x)[i] = q[i]
      /\ Append(q, x)[Len(q) + 1] = x
  OBVIOUS
<1>2. ASSUME NEW i \in 1 .. Len(Append(q, x)), Append(q, x)[i] = m PROVE Contains(q, m) \/ m = x
  <2>1. i \in 1 .. Len(q) \/ i = Len(q) + 1
    BY <1>1
  <2> QED BY <1>1, <1>2, <2>1 DEF Contains
<1>3. ASSUME NEW i \in 1 .. Len(q), q[i] = m PROVE Contains(Append(q, x), m)
  <2>1. i \in 1 .. Len(Append(q, x))
    BY <1>1
  <2> QED BY <1>1, <1>3, <2>1 DEF Contains
<1>4. ASSUME m = x PROVE Contains(Append(q, x), m)
  <2>1. Len(q) + 1 \in 1 .. Len(Append(q, x))
    BY <1>1
  <2> QED BY <1>1, <1>4, <2>1 DEF Contains
<1> QED BY <1>2, <1>3, <1>4 DEF Contains

\* Nothing is in the empty sequence.
LEMMA ContainsNone ==
    ASSUME NEW m
    PROVE  ~ Contains(<<>>, m)
BY DEF Contains

\* Before a selection has begun with anybody, or when it has been given up.
LEMMA StageGivenUp ==
    ASSUME NEW h, NEW m, h.phase \in {"sync", "rollback", "blocked", "failed"}
    PROVE  Stage(h, m) = 0
BY DEF Stage

\* A stage is one of six.
LEMMA StageType ==
    ASSUME NEW h, NEW m
    PROVE  Stage(h, m) \in 0 .. 5
BY DEF Stage

\* The stages of a phase.
LEMMA StagePhases ==
    ASSUME NEW h, NEW m
    PROVE  /\ h.phase = "check" => Stage(h, m) = IF Contains(h.todo, m) THEN 0 ELSE 1
           /\ h.phase = "preflight" => Stage(h, m) = IF Contains(h.todo, m) THEN 1 ELSE 2
           /\ h.phase = "commit" => Stage(h, m) = IF Contains(h.todo, m) THEN 2 ELSE 3
           /\ h.phase = "announce" => Stage(h, m) = 3
           /\ h.phase = "enter" =>
                /\ ~ Contains(h.todo, m) => Stage(h, m) = 5
                /\ Contains(h.todo, m) /\ h.waiting /\ Head(h.todo) = m => Stage(h, m) = 4
                /\ Contains(h.todo, m) /\ ~ (h.waiting /\ Head(h.todo) = m) => Stage(h, m) = 3
           /\ h.phase = "done" => Stage(h, m) = 5
BY DEF Stage

-----------------------------------------------------------------------------
(* Parties and their leaders *)

\* A roster without a member: the others stay, under the same leader unless
\* the leader left.
LEMMA MinusFacts ==
    ASSUME NEW q \in Seq(Members), Distinct(q), NEW m
    PROVE  /\ Distinct(Minus(q, m)) /\ ~ Contains(Minus(q, m), m)
           /\ Contains(q, m) /\ Len(q) > 1 =>
                /\ Minus(q, m) # <<>>
                /\ Head(q) # m => Head(Minus(q, m)) = Head(q)
<1> DEFINE I == {i \in DOMAIN q : q[i] = m}
           p == Less(q, I)
<1>1. Len(q) \in Nat /\ DOMAIN q = 1 .. Len(q)
  OBVIOUS
<1>2. /\ I \in SUBSET (1 .. Len(q)) /\ (\A i, j \in I : i = j)
      /\ \A i \in 1 .. Len(q) : i \in I <=> q[i] = m
  BY <1>1 DEF Distinct
<1>3. Minus(q, m) = p
  BY DEF Minus
<1> HIDE DEF I
<1>4. /\ p \in Seq(Members) /\ (I = {} => p = q)
      /\ \A i \in I : /\ Len(p) = Len(q) - 1
                      /\ \A k \in 1 .. Len(q) - 1 : p[k] = IF k < i THEN q[k] ELSE q[k + 1]
  BY <1>2, LessFacts
<1> HIDE DEF p
<1>5. CASE I = {}
  <2>1. p = q /\ ~ Contains(q, m)
    BY <1>2, <1>4, <1>5 DEF Contains
  <2> QED BY <1>3, <2>1
<1>6. CASE I # {}
  <2>1. PICK d \in I : TRUE
    BY <1>6
  <2>2. d \in 1 .. Len(q) /\ q[d] = m
    BY <1>2, <2>1
  <2>3. Len(p) = Len(q) - 1 /\ \A k \in 1 .. Len(q) - 1 : p[k] = IF k < d THEN q[k] ELSE q[k + 1]
    BY <1>4, <2>1
  <2>4. \A k \in 1 .. Len(p) : /\ k < d => k \in 1 .. Len(q) /\ k # d /\ p[k] = q[k]
                               /\ ~ (k < d) => k + 1 \in 1 .. Len(q) /\ k + 1 # d /\ p[k] = q[k + 1]
    BY <1>1, <2>2, <2>3
  <2>5. Distinct(p)
    <3> SUFFICES ASSUME NEW i \in 1 .. Len(p), NEW j \in 1 .. Len(p), p[i] = p[j] PROVE i = j
      BY DEF Distinct
    <3> DEFINE f(k) == IF k < d THEN k ELSE k + 1
    <3>1. f(i) \in 1 .. Len(q) /\ p[i] = q[f(i)] /\ f(j) \in 1 .. Len(q) /\ p[j] = q[f(j)]
      BY <2>4
    <3>2. f(i) = f(j)
      BY <3>1 DEF Distinct
    <3>3. i \in Nat /\ j \in Nat /\ d \in Nat
      BY <1>1, <2>2, <2>3
    <3> QED BY <3>2, <3>3
  <2>6. ~ Contains(p, m)
    <3> SUFFICES ASSUME NEW k \in 1 .. Len(p), p[k] = m PROVE FALSE
      BY DEF Contains
    <3>1. PICK i \in 1 .. Len(q) : i # d /\ p[k] = q[i]
      BY <2>4
    <3> QED BY <2>2, <3>1 DEF Distinct
  <2>7. ASSUME Len(q) > 1 PROVE p # <<>> /\ (Head(q) # m => Head(p) = Head(q))
    <3>1. Len(p) >= 1 /\ Len(p) \in Nat /\ 1 \in 1 .. Len(q) - 1
      BY <1>1, <2>3, <2>7
    <3>2. p # <<>>
      BY <3>1
    <3>3. q # <<>>
      BY <1>1, <2>7
    <3>5. Head(p) = p[1] /\ Head(q) = q[1]
      BY <1>4, <3>2, <3>3, TailParts
    <3>4. ASSUME Head(q) # m PROVE p[1] = q[1]
      <4>1. d # 1
        BY <2>2, <3>4, <3>5
      <4>2. 1 < d
        BY <1>1, <2>2, <4>1
      <4> QED BY <2>3, <3>1, <4>2
    <3> QED BY <3>2, <3>4, <3>5
  <2> QED BY <1>3, <2>5, <2>6, <2>7
<1> QED BY <1>5, <1>6

\* The party of the manager changes by departures only.
PartyMoves ==
    \/ party' = party
    \/ \E m \in Members : /\ Contains(party.roster, m) /\ Len(party.roster) > 1
                          /\ party' = Without(m)

\* A departure leaves the id with its leader.
LEMMA PartyMoved ==
    ASSUME WorldTypes, KnownOK, PartyMoves
    PROVE  /\ party' \in Projections /\ party'.roster # <<>> /\ Distinct(party'.roster)
           /\ \/ party'.id = party.id /\ Head(party'.roster) = Head(party.roster)
              \/ party'.id = party.id + 1
<1>1. party \in Projections /\ party.id \in Nat /\ party.roster \in Seq(Members)
  BY DEF WorldTypes, Projections
<1>2. party.roster # <<>> /\ Distinct(party.roster)
  BY DEF KnownOK
<1>3. CASE party' = party
  BY <1>1, <1>2, <1>3
<1>4. ASSUME NEW m \in Members, Contains(party.roster, m), Len(party.roster) > 1, party' = Without(m)
      PROVE  /\ party' \in Projections /\ party'.roster # <<>> /\ Distinct(party'.roster)
             /\ \/ party'.id = party.id /\ Head(party'.roster) = Head(party.roster)
                \/ party'.id = party.id + 1
  <2> DEFINE q == Minus(party.roster, m)
  <2>1. Distinct(q) /\ q # <<>> /\ (Head(party.roster) # m => Head(q) = Head(party.roster))
    BY <1>1, <1>2, <1>4, MinusFacts
  <2>2. party' \in Projections
    BY <1>4, WithoutType
  <2>3. /\ party'.id = IF Head(party.roster) = m THEN party.id + 1 ELSE party.id
        /\ party'.roster = q
    BY <1>4 DEF Without
  <2> QED BY <2>1, <2>2, <2>3
<1> QED BY <1>3, <1>4 DEF PartyMoves

\* Projections come from the manager, and their ids keep their leaders.
LEMMA KnownKept ==
    ASSUME SInv, PartyMoves,
           \A p \in Known' : p \in Known \/ p = party \/ p = NoParty
    PROVE  KnownOK'
<1>1. WorldTypes /\ KnownOK
  BY DEF SInv, DInv, Types
<1>2. /\ party' \in Projections /\ party'.roster # <<>> /\ Distinct(party'.roster)
      /\ \/ party'.id = party.id /\ Head(party'.roster) = Head(party.roster)
         \/ party'.id = party.id + 1
  BY <1>1, PartyMoved
<1>3. party \in Projections /\ party.id \in Nat /\ party'.id \in Nat
  BY <1>1, <1>2 DEF WorldTypes, Projections
<1>4. \A p \in Known : p \in Projections \cup {NoParty}
  <2>1. \A m \in Members : view[m] \in Projections \cup {NoParty}
    BY <1>1 DEF WorldTypes
  <2>2. \A s \in Members : job[s] \in Handlers => job[s].state \in Projections \cup {NoParty}
    BY HandlerParts
  <2> QED BY <2>1, <2>2 DEF Known
<1>5. \A p \in Known' : p \in Projections \cup {NoParty} /\ Older(p)
  BY <1>1, <1>3, <1>4 DEF KnownOK, Older
<1>6. \A p, q \in Known' : Agree(p, q)
  BY <1>1, <1>5 DEF KnownOK, Older, Agree
<1>7. ASSUME NEW p \in Known' PROVE Older(p)'
  <2>1. Older(p) /\ (p # NoParty => p.id \in Nat)
    BY <1>5 DEF Projections
  <2> QED BY <1>2, <1>3, <2>1 DEF Older
<1> QED BY <1>2, <1>6, <1>7 DEF KnownOK, Agree

-----------------------------------------------------------------------------
(* What each part of the invariant needs of a step *)

Early == {"check", "preflight", "commit", "rollback"}

Late == {"announce", "enter", "done"}

\* The handler g continues h, neither back to nor past the commits.
Goes(g, h) ==
    /\ Like(g, h) /\ g.phase # "sync"
    /\ g.phase \in Late => h.phase \in Late
    /\ g.phase \in Early => h.phase \in Early
    /\ g.phase = "enter" => Visits(g)

\* Sessions see what the manager says, and handlers what their session sees.
LEMMA KnownFrom ==
    ASSUME SInv, PartyMoves,
           \A m \in Members : view'[m] \in {view[m], party, NoParty},
           \A s \in Members : job'[s] \in Handlers =>
              Like(job'[s], job[s]) \/ job'[s].state = view[s]
    PROVE  KnownOK'
<1>1. ASSUME NEW p \in Known' PROVE p \in Known \/ p = party \/ p = NoParty
  <2>1. CASE \E m \in Members : p = view'[m]
    BY <2>1 DEF Known
  <2>2. CASE \E s \in Members : job'[s] \in Handlers /\ p = job'[s].state
    <3>1. PICK s \in Members : job'[s] \in Handlers /\ p = job'[s].state
      BY <2>2
    <3> QED BY <3>1 DEF Known, Like
  <2> QED BY <2>1, <2>2 DEF Known
<1> QED BY <1>1, KnownKept

\* A selection checks members of its own party.
LEMMA ViewsKept ==
    ASSUME SInv,
           \A m \in Members : view'[m] \in {view[m], party, NoParty},
           \A s, m \in Members : Names(s, m)' =>
              \/ /\ Names(s, m) /\ Like(job'[s], job[s])
                 /\ Stage(job'[s], m) >= 1 => Stage(job[s], m) >= 1
              \/ /\ Names(s, m) /\ Like(job'[s], job[s]) /\ view'[m] = view[m]
                 /\ view[m] # NoParty => view[m].id >= job[s].state.id
              \/ /\ Stage(job'[s], m) = 0 /\ job'[s].state # NoParty
                 /\ Head(job'[s].state.roster) = s /\ m # s
    PROVE  ViewsOK'
<1> SUFFICES ASSUME NEW s \in Members, NEW m \in Members, Names(s, m)'
             PROVE  /\ job'[s].state # NoParty /\ Head(job'[s].state.roster) = s /\ m # s
                    /\ Stage(job'[s], m) >= 1 /\ view'[m] # NoParty => view'[m].id >= job'[s].state.id
  BY DEF ViewsOK
<1>1. CASE Stage(job'[s], m) = 0 /\ job'[s].state # NoParty /\ Head(job'[s].state.roster) = s /\ m # s
  BY <1>1
<1>2. CASE Names(s, m) /\ Like(job'[s], job[s])
  <2>1. /\ job[s].state # NoParty /\ Head(job[s].state.roster) = s /\ m # s
        /\ Stage(job[s], m) >= 1 /\ view[m] # NoParty => view[m].id >= job[s].state.id
    BY <1>2 DEF SInv, ViewsOK
  <2>2. job'[s].state = job[s].state
    BY <1>2 DEF Like
  <2>3. party.id >= job[s].state.id
    <3>1. job[s].state \in Known /\ job[s].state \in Projections /\ party \in Projections
      BY <1>2, <2>1, HandlerParts DEF Known, Like, SInv, DInv, Types, WorldTypes
    <3>2. job[s].state.id <= party.id
      BY <2>1, <3>1 DEF SInv, KnownOK, Older
    <3> QED BY <3>1, <3>2 DEF Projections
  <2> QED BY <1>1, <2>1, <2>2, <2>3
<1> QED BY <1>1, <1>2

\* The order of two selections stays.
LEMMA OrderKept ==
    ASSUME SInv,
           \A s, m \in Members : Names(s, m)' /\ m \notin strayed' /\ Stage(job'[s], m) >= 1 =>
              /\ Names(s, m) /\ m \notin strayed /\ Like(job'[s], job[s])
              /\ Stage(job[s], m) >= 1
              /\ Stage(job'[s], m) >= 4 => Stage(job[s], m) >= 4
    PROVE  OrderOK'
<1> SUFFICES ASSUME NEW s \in Members, NEW r \in Members, NEW m \in Members,
                    s # r, Names(s, m)', Names(r, m)', m \notin strayed',
                    Stage(job'[s], m) >= 4, Stage(job'[r], m) >= 1
             PROVE  job'[r].state.id < job'[s].state.id
  BY DEF OrderOK
<1>1. Stage(job'[s], m) >= 1
  BY StageType
<1>2. /\ Names(s, m) /\ Names(r, m) /\ m \notin strayed /\ Like(job'[s], job[s]) /\ Like(job'[r], job[r])
      /\ Stage(job[s], m) >= 4 /\ Stage(job[r], m) >= 1
  BY <1>1
<1>3. job[r].state.id < job[s].state.id
  BY <1>2 DEF SInv, OrderOK
<1> QED BY <1>2, <1>3 DEF Like

\* A selection that has not asked m yet relies on nothing.
LEMMA LocalLow ==
    ASSUME NEW st, st = 0, NEW n, NEW og, NEW un, NEW rt, NEW en, NEW j
    PROVE  Local(st, n, og, un, rt, en, j)
BY DEF Local

\* Nothing happens to the selection of s and its member m.
Keeps(s, m) ==
    /\ Names(s, m) /\ m \notin strayed /\ Like(job'[s], job[s])
    /\ Stage(job'[s], m) = Stage(job[s], m)
    /\ origin[m] => origin'[m]
    /\ unsettled'[m] = unsettled[m] /\ runtime'[m] = runtime[m] /\ entered'[m] = entered[m]
    /\ Selects(job'[m]) => Selects(job[m])
    /\ IsEntry(job'[m]) => IsEntry(job[m]) /\ job'[m].run = job[m].run

\* Then what s relies on stays.
LEMMA KeepsLocal ==
    ASSUME SInv, NEW s \in Members, NEW m \in Members, Keeps(s, m)
    PROVE  Local(Stage(job'[s], m), job'[s].run, origin'[m], unsettled'[m], runtime'[m], entered'[m], job'[m])
<1> DEFINE st == Stage(job[s], m)
           n == job[s].run
<1>1. Local(st, n, origin[m], unsettled[m], runtime[m], entered[m], job[m])
  BY DEF SInv, LocalOK, Keeps
<1>2. Stage(job'[s], m) = st /\ job'[s].run = n /\ runtime'[m] = runtime[m] /\ entered'[m] = entered[m]
      /\ (origin[m] => origin'[m]) /\ unsettled'[m] = unsettled[m]
      /\ (Selects(job'[m]) => Selects(job[m]))
      /\ (IsEntry(job'[m]) => IsEntry(job[m]) /\ job'[m].run = job[m].run)
  BY DEF Keeps, Like
<1> HIDE DEF st, n
<1>3. Local(st, n, origin'[m], unsettled'[m], runtime[m], entered[m], job'[m])
  BY <1>1, <1>2 DEF Local
<1> QED BY <1>2, <1>3

\* A step that brings no selection further.
LEMMA PairsKept ==
    ASSUME SInv,
           \A s, m \in Members : Names(s, m)' /\ m \notin strayed' =>
              Stage(job'[s], m) = 0 \/ Keeps(s, m)
    PROVE  LocalOK' /\ OrderOK'
<1>1. ASSUME NEW s \in Members, NEW m \in Members, Names(s, m)', m \notin strayed'
      PROVE  Local(Stage(job'[s], m), job'[s].run, origin'[m], unsettled'[m], runtime'[m], entered'[m], job'[m])
  BY <1>1, KeepsLocal, LocalLow
<1>2. LocalOK'
  BY <1>1 DEF LocalOK
<1>3. \A s, m \in Members : Names(s, m)' /\ m \notin strayed' /\ Stage(job'[s], m) >= 1 =>
              /\ Names(s, m) /\ m \notin strayed /\ Like(job'[s], job[s])
              /\ Stage(job[s], m) >= 1
              /\ Stage(job'[s], m) >= 4 => Stage(job[s], m) >= 4
  BY DEF Keeps
<1>4. OrderOK'
  BY <1>3, OrderKept
<1> QED BY <1>2, <1>4

\* No handler gets past the commits, and nothing else is entered.
LEMMA RunsKeep ==
    ASSUME SInv, launched' = launched, runs' = runs,
           \A s \in Members : Selects(job'[s]) => Goes(job'[s], job[s]),
           \A m \in Members : /\ entered'[m] # NoRun => entered'[m] \in launched
                              /\ IsEntry(job'[m]) => job'[m].run \in launched
    PROVE  RunsOK'
<1>1. \A s \in Members : Selects(job'[s]) => Selects(job[s]) /\ job'[s].run = job[s].run
  BY DEF Goes, Like, Selects
<1>2. \A s, r \in Members : Selects(job'[s]) /\ Selects(job'[r]) /\ s # r => job'[s].run # job'[r].run
  BY <1>1 DEF SInv, RunsOK
<1>3. ASSUME NEW s \in Members, Selects(job'[s])
      PROVE  /\ job'[s].phase # "sync"
             /\ Distinct(job'[s].all)
             /\ job'[s].phase = "enter" => Visits(job'[s])
             /\ job'[s].phase \in {"announce", "enter", "done"} => job'[s].run \in launched
             /\ job'[s].phase \in {"check", "preflight", "commit", "rollback"} => job'[s].run \notin launched
  <2>1. Goes(job'[s], job[s]) /\ Selects(job[s]) /\ job'[s].run = job[s].run
    BY <1>1, <1>3
  <2>2. /\ job[s].phase \in {"announce", "enter", "done"} => job[s].run \in launched
        /\ job[s].phase \in {"check", "preflight", "commit", "rollback"} => job[s].run \notin launched
        /\ Distinct(job[s].all)
    BY <2>1 DEF SInv, RunsOK
  <2>3. job'[s].all = job[s].all
    BY <2>1 DEF Goes, Like
  <2> QED BY <2>1, <2>2, <2>3 DEF Goes, Early, Late
<1>4. \A s \in Members : Visits(job[s])' <=> Visits(job'[s])
  BY DEF Visits
<1> QED BY <1>2, <1>3, <1>4 DEF SInv, RunsOK

\* A selection that does nothing goes on.
LEMMA GoesSelf ==
    ASSUME SInv, NEW s \in Members, Selects(job[s])
    PROVE  Goes(job[s], job[s])
<1>1. job[s].phase # "sync" /\ (job[s].phase = "enter" => Visits(job[s]))
  BY DEF SInv, RunsOK
<1> QED BY <1>1 DEF Goes, Like, Selects

\* A caller that waits is the handler its call belongs to.
LEMMA CallerParts ==
    ASSUME DInv, NEW s \in Members, NEW m \in Members, Queued(s, m) \/ Running(s, m)
    PROVE  Waits(s) /\ job[s] \in Handlers /\ job[s].todo # <<>> /\ m = Head(job[s].todo)
BY DEF DInv, CallsOK, CalledOK, Waits

\* No call is made and none begins to run.
LEMMA KindsKept ==
    ASSUME SInv, DInv',
           \A m \in Members : \A i \in 1 .. Len(inbox'[m]) :
              \E k \in 1 .. Len(inbox[m]) : inbox'[m][i] = inbox[m][k],
           \A s \in Members : Waits(s)' => job'[s] = job[s],
           \A m \in Members : job'[m] \in Serves =>
              /\ job[m] \in Serves /\ job'[m].from = job[m].from /\ job'[m].kind = job[m].kind
              /\ job'[m].run = job[m].run
              /\ \/ job'[m].live = job[m].live
                 \/ ~ job'[m].live /\ job'[job[m].from].phase = "failed"
                 \/ ~ job'[m].live /\ ~ IsEntry(job[m]),
           \A s \in Members : Selects(job'[s]) =>
              \/ /\ Selects(job[s]) /\ job'[s].run = job[s].run
                 /\ job[s].phase = "failed" => job'[s].phase = "failed"
              \/ \A m \in Members : job[m] \in Serves => job[m].run # job'[s].run
    PROVE  KindsOK'
<1>1. ASSUME NEW s \in Members, NEW m \in Members, NEW i \in 1 .. Len(inbox'[m]),
             inbox'[m][i].from = s
      PROVE  inbox'[m][i].kind = "entry" <=> job'[s].phase = "enter"
  <2>1. PICK k \in 1 .. Len(inbox[m]) : inbox'[m][i] = inbox[m][k]
    OBVIOUS
  <2>2. Queued(s, m)'
    BY <1>1 DEF Queued
  <2>3. Waits(s)'
    BY <2>2 DEF DInv, CallsOK, CalledOK
  <2>4. job'[s] = job[s]
    BY <2>3
  <2> QED BY <1>1, <2>1, <2>4 DEF SInv, KindsOK
<1>2. ASSUME NEW s \in Members, NEW m \in Members, Running(s, m)'
      PROVE  /\ job'[m].kind = "entry" <=> job'[s].phase = "enter"
             /\ job'[m].run = job'[s].run
  <2>1. Waits(s)'
    BY <1>2 DEF DInv, CallsOK, CalledOK
  <2>2. job'[s] = job[s]
    BY <2>1
  <2>3. job'[m] \in Serves /\ job'[m].from = s /\ job'[m].live
    BY <1>2 DEF Running
  <2>4. Running(s, m) /\ job'[m].kind = job[m].kind /\ job'[m].run = job[m].run
    BY <2>3 DEF Running
  <2> QED BY <2>2, <2>4 DEF SInv, KindsOK
<1>3. ASSUME NEW s \in Members, NEW m \in Members, IsEntry(job'[m]), Selects(job'[s]),
             job'[m].run = job'[s].run
      PROVE  job'[m].from = s /\ (job'[m].live \/ job'[s].phase = "failed")
  <2>1. /\ IsEntry(job[m]) /\ job'[m].from = job[m].from /\ job'[m].run = job[m].run
        /\ job'[m].live = job[m].live \/ (~ job'[m].live /\ job'[job[m].from].phase = "failed")
    BY <1>3 DEF IsEntry
  <2>2. /\ Selects(job[s]) /\ job'[s].run = job[s].run
        /\ job[s].phase = "failed" => job'[s].phase = "failed"
    BY <1>3, <2>1 DEF IsEntry
  <2>3. job[m].run = job[s].run
    BY <1>3, <2>1, <2>2
  <2>4. KindsOK
    BY DEF SInv
  <2>5. job[m].from = s /\ (job[m].live \/ job[s].phase = "failed")
    BY <2>1, <2>2, <2>3, <2>4 DEF KindsOK
  <2> QED BY <2>1, <2>2, <2>5
<1> QED BY <1>1, <1>2, <1>3 DEF KindsOK

\* A step of a handler that is not called back and calls nobody.
LEMMA OwnKinds ==
    ASSUME SInv, DInv', NEW s \in Members, NEW p, At(s, p), NEW g \in {Idle} \cup Handlers,
           g \in Handlers => ~ g.waiting /\ Like(g, job[s]) /\ job[s].phase # "failed",
           \A x \in Members : x # s => job'[x] = job[x], job'[s] = g, inbox' = inbox
    PROVE  KindsOK'
<1>1. DInv /\ job[s] \in Handlers
  BY AtParts DEF SInv
<1>2. g \notin Serves /\ ~ (g \in Handlers /\ g.waiting)
  BY HandlerParts, DungeonAssumption
<1>3. \A m \in Members : \A i \in 1 .. Len(inbox'[m]) :
         \E k \in 1 .. Len(inbox[m]) : inbox'[m][i] = inbox[m][k]
  OBVIOUS
<1>4. \A x \in Members : Waits(x)' => job'[x] = job[x]
  BY <1>2 DEF Waits
<1>5. \A m \in Members : job'[m] \in Serves => job'[m] = job[m]
  BY <1>2
<1>6. \A x \in Members : Selects(job'[x]) =>
           /\ Selects(job[x]) /\ job'[x].run = job[x].run
           /\ job[x].phase = "failed" => job'[x].phase = "failed"
  BY <1>1, <1>2, DungeonAssumption DEF Selects, Like
<1> QED BY <1>3, <1>4, <1>5, <1>6, KindsKept

-----------------------------------------------------------------------------
(* Steps that leave the loops alone *)

\* Who names m has prepared an entry for it.
LEMMA NamingParts ==
    ASSUME DInv, NEW s \in Members, NEW m \in Members
    PROVE  s \in Naming(m) <=> Names(s, m)
<1>1. ~ Free(s) /\ job[s].op = "select" <=> Selects(job[s])
  BY JobParts, HandlerParts DEF Selects, Free
<1> QED BY <1>1 DEF Naming, Names

\* Who goes elsewhere has strayed for everybody who names it.
LEMMA StrayParts ==
    ASSUME DInv, NEW m \in Members, Stray(m)
    PROVE  /\ \A x \in Members : x \in strayed => x \in strayed'
           /\ \A s \in Members : Names(s, m) => m \in strayed'
<1>1. \A s \in Members : Names(s, m) => Naming(m) # {}
  BY NamingParts
<1> QED BY <1>1 DEF Stray

\* What the loops do stays; it remains to look at what a selection relies on.
LEMMA LoopsStay ==
    ASSUME SInv, DInv', job' = job, inbox' = inbox, launched' = launched, runs' = runs,
           PartyMoves, \A m \in Members : view'[m] \in {view[m], party, NoParty},
           \A m \in Members : entered'[m] \in {entered[m], NoRun},
           \A m \in Members : m \in strayed => m \in strayed',
           \A s, m \in Members : Names(s, m) /\ m \notin strayed' =>
              Local(Stage(job[s], m), job[s].run, origin'[m], unsettled'[m], runtime'[m], entered'[m], job[m])
    PROVE  SInv'
<1>0. \A s, m \in Members : Names(s, m)' <=> Names(s, m)
  BY DEF Names
<1>1. \A s \in Members : job[s] \in Handlers => Like(job[s], job[s])
  BY DEF Like
<1>2. KnownOK'
  BY <1>1, KnownFrom
<1>3. ViewsOK'
  <2>1. \A s, m \in Members : Names(s, m) => Names(s, m) /\ Like(job'[s], job[s])
    BY <1>1 DEF Names, Selects
  <2> QED BY <1>0, <2>1, ViewsKept
<1>4. LocalOK'
  BY <1>0 DEF LocalOK
<1>5. OrderOK'
  BY <1>0 DEF SInv, OrderOK
<1>6. RunsOK'
  BY DEF SInv, RunsOK
<1>7. KindsOK'
  BY DEF SInv, KindsOK, Running
<1> QED BY <1>2, <1>3, <1>4, <1>5, <1>6, <1>7 DEF SInv

\* Nothing changes but the party and what is seen of it.
LEMMA WorldStays ==
    ASSUME SInv, DInv', UNCHANGED <<job, inbox, launched, runs, page, origin, unsettled, runtime, entered, strayed>>,
           PartyMoves, \A m \in Members : view'[m] \in {view[m], party, NoParty}
    PROVE  SInv'
<1>1. \A s, m \in Members : Names(s, m) /\ m \notin strayed' =>
          Local(Stage(job[s], m), job[s].run, origin'[m], unsettled'[m], runtime'[m], entered'[m], job[m])
  BY DEF SInv, LocalOK
<1> QED BY <1>1, LoopsStay

\* A member leaves or is kicked.
LEMMA DepartSInv ==
    ASSUME SInv, NEW m \in Members, Depart(m)
    PROVE  SInv'
<1>1. DInv'
  BY DepartKept DEF SInv
<1>2. PartyMoves /\ view' = view
  BY DEF PartyMoves, Depart
<1> QED BY <1>1, <1>2, WorldStays DEF Depart, dungeons, towns, loops

\* A snapshot reaches a session.
LEMMA PublishSInv ==
    ASSUME SInv, NEW m \in Members, Publish(m)
    PROVE  SInv'
<1>1. DInv'
  BY PublishKept DEF SInv
<1>2. PartyMoves
  BY DEF PartyMoves, Publish
<1>3. view' = [view EXCEPT ![m] = Seen(m)] /\ view \in [Members -> Projections \cup {NoParty}]
  BY DEF Publish, SInv, DInv, Types, WorldTypes
<1>4. \A x \in Members : view'[x] \in {view[x], party, NoParty}
  BY <1>3 DEF Seen
<1> QED BY <1>1, <1>2, <1>4, WorldStays DEF Publish, dungeons, towns, loops

\* The client goes away.
LEMMA DisconnectSInv ==
    ASSUME SInv, NEW m \in Members, Disconnect(m)
    PROVE  SInv'
<1>1. DInv'
  BY DisconnectKept DEF SInv
<1>2. PartyMoves /\ view' = view
  BY DEF PartyMoves, Disconnect
<1> QED BY <1>1, <1>2, WorldStays DEF Disconnect, dungeons, towns, loops

\* A member goes on by itself: whoever takes it along has lost it.
LEMMA ElsewhereSInv ==
    ASSUME SInv, DInv', NEW m \in Members, Stray(m),
           UNCHANGED <<party, view, job, inbox, launched, runs>>,
           entered'[m] \in {entered[m], NoRun},
           \A x \in Members : x # m => /\ origin'[x] = origin[x] /\ unsettled'[x] = unsettled[x]
                                       /\ runtime'[x] = runtime[x] /\ entered'[x] = entered[x]
    PROVE  SInv'
<1>1. /\ \A x \in Members : x \in strayed => x \in strayed'
      /\ \A s \in Members : Names(s, m) => m \in strayed'
  BY StrayParts DEF SInv
<1>2. \A s, x \in Members : Names(s, x) /\ x \notin strayed' =>
          Local(Stage(job[s], x), job[s].run, origin'[x], unsettled'[x], runtime'[x], entered'[x], job[x])
  BY <1>1 DEF SInv, LocalOK
<1>3. PartyMoves
  BY DEF PartyMoves
<1> QED BY <1>1, <1>2, <1>3, LoopsStay

\* op132 on the selector page
LEMMA BackToVillageSInv ==
    ASSUME SInv, NEW m \in Members, BackToVillage(m)
    PROVE  SInv'
<1>1. DInv'
  BY BackToVillageKept DEF SInv
<1>2. \A x \in Members : x # m => origin'[x] = origin[x] /\ unsettled'[x] = unsettled[x]
  BY DEF BackToVillage, SInv, DInv, Types, WorldTypes
<1> QED BY <1>1, <1>2, ElsewhereSInv DEF BackToVillage, loops

\* op132 in a dungeon
LEMMA LeaveDungeonSInv ==
    ASSUME SInv, NEW m \in Members, LeaveDungeon(m)
    PROVE  SInv'
<1>1. DInv' /\ \A x \in Members : x # m => runtime'[x] = runtime[x]
  BY LeaveDungeonKept DEF SInv
<1>2. \A x \in Members : x # m => unsettled'[x] = unsettled[x]
  BY DEF LeaveDungeon, SInv, DInv, Types, WorldTypes
<1> QED BY <1>1, <1>2, ElsewhereSInv DEF LeaveDungeon, loops

\* Confirming a return, a session leaves its run or stays where it was.
LEMMA ResumeLeaves ==
    ASSUME DInv, NEW m \in Members, NEW b \in BOOLEAN, Resume(m, b)
    PROVE  /\ entered'[m] \in {entered[m], NoRun}
           /\ \A x \in Members : x # m => /\ runtime'[x] = runtime[x] /\ entered'[x] = entered[x]
                                          /\ unsettled'[x] = unsettled[x]
<1>1. WorldTypes
  BY DEF DInv, Types
<1>2. entered'[m] \in {entered[m], NoRun}
  BY <1>1 DEF Resume, WorldTypes
<1> QED BY <1>1, <1>2, ResumeParts

\* The first town packet after it
LEMMA ConfirmReturnSInv ==
    ASSUME SInv, NEW m \in Members, ConfirmReturn(m)
    PROVE  SInv'
<1>1. DInv' /\ DInv
  BY ConfirmReturnKept DEF SInv
<1>2. PICK b \in BOOLEAN : Resume(m, b)
  BY DEF ConfirmReturn
<1>3. /\ entered'[m] \in {entered[m], NoRun}
      /\ \A x \in Members : x # m => /\ runtime'[x] = runtime[x] /\ entered'[x] = entered[x]
                                     /\ unsettled'[x] = unsettled[x]
  BY <1>1, <1>2, ResumeLeaves
<1>4. \A x \in Members : x # m => origin'[x] = origin[x]
  BY <1>1 DEF ConfirmReturn, DInv, Types, WorldTypes
<1> QED BY <1>1, <1>3, <1>4, ElsewhereSInv DEF ConfirmReturn, loops

\* op36 and the previous village
LEMMA MoveTownSInv ==
    ASSUME SInv, NEW m \in Members, MoveTown(m)
    PROVE  SInv'
<1>1. DInv' /\ DInv
  BY MoveTownKept DEF SInv
<1>2. Resume(m, TRUE) \/ UNCHANGED <<runtime, unsettled, entered>>
  BY DEF MoveTown
<1>3. /\ entered'[m] \in {entered[m], NoRun}
      /\ \A x \in Members : x # m => /\ runtime'[x] = runtime[x] /\ entered'[x] = entered[x]
                                     /\ unsettled'[x] = unsettled[x]
  BY <1>1, <1>2, ResumeLeaves
<1>4. \A x \in Members : x # m => origin'[x] = origin[x]
  BY <1>1 DEF MoveTown, DInv, Types, WorldTypes
<1> QED BY <1>1, <1>3, <1>4, ElsewhereSInv DEF MoveTown, loops

\* The way to town from the settlement
LEMMA FinishDungeonSInv ==
    ASSUME SInv, NEW m \in Members, FinishDungeon(m)
    PROVE  SInv'
<1>1. DInv' /\ DInv /\ \A x \in Members : x # m => runtime'[x] = runtime[x]
  BY FinishDungeonKept DEF SInv
<1>2. entered'[m] = NoRun /\ \A x \in Members : x # m => entered'[x] = entered[x]
  BY <1>1 DEF FinishDungeon, DInv, Types, WorldTypes
<1>3. \A x \in Members : x # m => origin'[x] = origin[x] /\ unsettled'[x] = unsettled[x]
  BY <1>1 DEF FinishDungeon, DInv, Types, WorldTypes
<1> QED BY <1>1, <1>2, <1>3, ElsewhereSInv DEF FinishDungeon, loops

\* The boss of a member's run dies.
LEMMA CompleteSInv ==
    ASSUME SInv, NEW m \in Members, Complete(m)
    PROVE  SInv'
<1>1. DInv' /\ \A x \in Members : x # m => runtime'[x] = runtime[x]
  BY CompleteKept DEF SInv
<1> QED BY <1>1, ElsewhereSInv DEF Complete, loops, towns

\* The return is off: whoever relied on the run had lost the member before.
LEMMA StayInDungeonSInv ==
    ASSUME SInv, NEW m \in Members, StayInDungeon(m)
    PROVE  SInv'
<1>1. DInv' /\ DInv /\ \A x \in Members : x # m => runtime'[x] = runtime[x]
  BY StayInDungeonKept DEF SInv
<1>2. PartyMoves
  BY DEF PartyMoves, StayInDungeon
<1>3. ~ IsEntry(job[m]) /\ runtime[m] # NoRun /\ runtime[m].leaving
  BY <1>1, JobParts DEF StayInDungeon, IsEntry, Leaving
<1>4. UNCHANGED <<view, origin, entered, launched, strayed, job, inbox, runs>>
  BY DEF StayInDungeon, loops
<1>5. \A x \in Members : x # m => unsettled'[x] = unsettled[x]
  BY <1>1 DEF StayInDungeon, DInv, Types, WorldTypes
<1>6. ASSUME NEW s \in Members, NEW x \in Members, Names(s, x), x \notin strayed'
      PROVE  Local(Stage(job[s], x), job[s].run, origin'[x], unsettled'[x], runtime'[x], entered'[x], job[x])
  <2>1. Local(Stage(job[s], x), job[s].run, origin[x], unsettled[x], runtime[x], entered[x], job[x])
    BY <1>4, <1>6 DEF SInv, LocalOK
  <2>2. CASE x # m
    BY <1>1, <1>4, <1>5, <2>1, <2>2
  <2>3. CASE x = m
    <3>1. ~ (Stage(job[s], x) >= 3)
      BY <1>3, <2>1, <2>3 DEF Local, Run
    <3>2. Stage(job[s], x) \in 0 .. 5
      BY StageType
    <3> QED BY <1>3, <1>4, <2>1, <2>3, <3>1, <3>2 DEF Local
  <2> QED BY <2>2, <2>3
<1>7. \A x \in Members : view'[x] \in {view[x], party, NoParty} /\ entered'[x] \in {entered[x], NoRun}
  BY <1>4
<1> QED BY <1>1, <1>2, <1>4, <1>6, <1>7, LoopsStay

-----------------------------------------------------------------------------
(* Steps of one handler *)

\* Only the handler of s goes on.
OwnTurn(s) ==
    /\ \A x \in Members : x # s => job'[x] = job[x]
    /\ Like(job'[s], job[s])

\* The same selections name the same members.
LEMMA OwnNames ==
    ASSUME NEW s \in Members, OwnTurn(s)
    PROVE  /\ \A r, m \in Members : Names(r, m)' <=> Names(r, m)
           /\ \A r \in Members : /\ job'[r] \in Handlers <=> job[r] \in Handlers
                                 /\ job[r] \in Handlers => Like(job'[r], job[r])
                                 /\ Selects(job'[r]) <=> Selects(job[r])
                                 /\ IsEntry(job'[r]) <=> IsEntry(job[r])
                                 /\ IsEntry(job[r]) => job'[r] = job[r]
<1>1. job[s] \in Handlers /\ job'[s] \in Handlers /\ job[s] \notin Serves /\ job'[s] \notin Serves
      /\ (Selects(job'[s]) <=> Selects(job[s])) /\ job'[s].all = job[s].all
  BY HandlerParts DEF OwnTurn, Like, Selects
<1>2. ASSUME NEW r \in Members
      PROVE  /\ job'[r] \in Handlers <=> job[r] \in Handlers
             /\ job[r] \in Handlers => Like(job'[r], job[r])
             /\ Selects(job'[r]) <=> Selects(job[r])
             /\ IsEntry(job'[r]) <=> IsEntry(job[r])
             /\ IsEntry(job[r]) => job'[r] = job[r]
             /\ Selects(job[r]) => job'[r].all = job[r].all
  <2>1. CASE r = s
    BY <1>1, <2>1 DEF OwnTurn, IsEntry
  <2>2. CASE r # s
    BY <2>2 DEF OwnTurn, Like
  <2> QED BY <2>1, <2>2
<1>3. ASSUME NEW r \in Members, NEW m \in Members PROVE Names(r, m)' <=> Names(r, m)
  BY <1>2 DEF Names
<1> QED BY <1>2, <1>3

\* What the selection of s relies on is as before, or it relies on nothing yet.
LEMMA OwnLocal ==
    ASSUME SInv, NEW s \in Members, OwnTurn(s), UNCHANGED <<page, origin, unsettled, runtime, entered, strayed>>,
           \A m \in Members : Names(s, m) /\ m \notin strayed =>
              \/ Stage(job'[s], m) \in {0, Stage(job[s], m)}
              \/ Local(Stage(job'[s], m), job[s].run, origin[m], unsettled[m], runtime[m], entered[m], job[m])
    PROVE  LocalOK'
<1>1. /\ \A r, m \in Members : Names(r, m)' <=> Names(r, m)
      /\ \A r \in Members : /\ job'[r] \in Handlers <=> job[r] \in Handlers
                            /\ job[r] \in Handlers => Like(job'[r], job[r])
                            /\ Selects(job'[r]) <=> Selects(job[r])
                            /\ IsEntry(job'[r]) <=> IsEntry(job[r])
                            /\ IsEntry(job[r]) => job'[r] = job[r]
  BY OwnNames
<1>2. ASSUME NEW st, NEW n, NEW m \in Members, Local(st, n, origin[m], unsettled[m], runtime[m], entered[m], job[m])
      PROVE  Local(st, n, origin[m], unsettled[m], runtime[m], entered[m], job'[m])
  BY <1>1, <1>2 DEF Local
<1>3. ASSUME NEW r \in Members, NEW m \in Members, Names(r, m), m \notin strayed
      PROVE  Local(Stage(job'[r], m), job'[r].run, origin[m], unsettled[m], runtime[m], entered[m], job'[m])
  <2>1. Local(Stage(job[r], m), job[r].run, origin[m], unsettled[m], runtime[m], entered[m], job[m])
    BY <1>3 DEF SInv, LocalOK
  <2>2. job'[r].run = job[r].run
    BY <1>1, <1>3 DEF Names, Selects, Like
  <2>3. CASE Stage(job'[r], m) = 0
    BY <2>3, LocalLow
  <2>4. CASE Stage(job'[r], m) = Stage(job[r], m)
    BY <1>2, <2>1, <2>2, <2>4
  <2>5. CASE Local(Stage(job'[r], m), job[r].run, origin[m], unsettled[m], runtime[m], entered[m], job[m])
    BY <1>2, <2>2, <2>5
  <2>6. r # s => job'[r] = job[r]
    BY DEF OwnTurn
  <2> QED BY <1>3, <2>3, <2>4, <2>5, <2>6
<1> QED BY <1>1, <1>3 DEF LocalOK

\* The party of s is later than that of who has come further with m, or has
\* gone to it before.
Orders(s, m) ==
    \A r \in Members : r # s /\ Names(r, m) =>
        /\ Stage(job'[s], m) >= 4 /\ Stage(job[r], m) >= 1 => job[r].state.id < job[s].state.id
        /\ Stage(job'[s], m) >= 1 /\ Stage(job[r], m) >= 4 => job[s].state.id < job[r].state.id

\* Then the selections that take somebody along stay in order.
LEMMA OwnOrder ==
    ASSUME SInv, NEW s \in Members, OwnTurn(s), strayed' = strayed,
           \A m \in Members : Names(s, m) /\ m \notin strayed =>
              \/ /\ Stage(job'[s], m) >= 1 => Stage(job[s], m) >= 1
                 /\ Stage(job'[s], m) >= 4 => Stage(job[s], m) >= 4
              \/ Orders(s, m)
    PROVE  OrderOK'
<1>1. /\ \A r, m \in Members : Names(r, m)' <=> Names(r, m)
      /\ job'[s].state = job[s].state
      /\ \A x \in Members : x # s => job'[x] = job[x]
  BY OwnNames DEF OwnTurn, Like
<1> SUFFICES ASSUME NEW t \in Members, NEW r \in Members, NEW m \in Members,
                    t # r, Names(t, m), Names(r, m), m \notin strayed,
                    Stage(job'[t], m) >= 4, Stage(job'[r], m) >= 1
             PROVE  job'[r].state.id < job'[t].state.id
  BY <1>1 DEF OrderOK
<1>2. Stage(job[t], m) >= 4 /\ Stage(job[r], m) >= 1 => job[r].state.id < job[t].state.id
  BY DEF SInv, OrderOK
<1>3. Stage(job'[t], m) >= 1
  BY StageType
<1>4. CASE t # s /\ r # s
  BY <1>1, <1>2, <1>4
<1>5. CASE t = s
  <2>1. CASE /\ Stage(job'[s], m) >= 1 => Stage(job[s], m) >= 1
             /\ Stage(job'[s], m) >= 4 => Stage(job[s], m) >= 4
    BY <1>1, <1>2, <1>5, <2>1
  <2>2. CASE Orders(s, m)
    BY <1>1, <1>5, <2>2 DEF Orders
  <2> QED BY <1>5, <2>1, <2>2
<1>6. CASE r = s
  <2>1. CASE /\ Stage(job'[s], m) >= 1 => Stage(job[s], m) >= 1
             /\ Stage(job'[s], m) >= 4 => Stage(job[s], m) >= 4
    BY <1>1, <1>2, <1>6, <2>1
  <2>2. CASE Orders(s, m)
    BY <1>1, <1>6, <2>2 DEF Orders
  <2> QED BY <1>6, <2>1, <2>2
<1> QED BY <1>4, <1>5, <1>6

\* The parties that are known stay.
LEMMA OwnViews ==
    ASSUME SInv, NEW s \in Members, OwnTurn(s), UNCHANGED <<party, view>>,
           \A m \in Members : Names(s, m) =>
              \/ Stage(job'[s], m) >= 1 => Stage(job[s], m) >= 1
              \/ view[m] # NoParty => view[m].id >= job[s].state.id
    PROVE  KnownOK' /\ ViewsOK'
<1>1. /\ \A r, m \in Members : Names(r, m)' <=> Names(r, m)
      /\ \A r \in Members : /\ job'[r] \in Handlers <=> job[r] \in Handlers
                            /\ job[r] \in Handlers => Like(job'[r], job[r])
  BY OwnNames
<1>2. KnownOK'
  <2>1. PartyMoves /\ \A m \in Members : view'[m] \in {view[m], party, NoParty}
    BY DEF PartyMoves
  <2> QED BY <1>1, <2>1, KnownFrom
<1>3. ViewsOK'
  <2>1. \A r, m \in Members : Names(r, m) =>
              \/ /\ Names(r, m) /\ Like(job'[r], job[r])
                 /\ Stage(job'[r], m) >= 1 => Stage(job[r], m) >= 1
              \/ /\ Names(r, m) /\ Like(job'[r], job[r]) /\ view'[m] = view[m]
                 /\ view[m] # NoParty => view[m].id >= job[r].state.id
    BY <1>1 DEF OwnTurn, Names, Selects
  <2>2. \A m \in Members : view'[m] \in {view[m], party, NoParty}
    OBVIOUS
  <2> QED BY <1>1, <2>1, <2>2, ViewsKept
<1> QED BY <1>2, <1>3

\* The parties that are known and the runs stay.
LEMMA OwnRest ==
    ASSUME SInv, NEW s \in Members, OwnTurn(s), UNCHANGED <<party, view, launched, runs>>,
           \A m \in Members : entered'[m] # NoRun => entered'[m] \in launched,
           Selects(job[s]) => Goes(job'[s], job[s]),
           \A m \in Members : Names(s, m) =>
              \/ Stage(job'[s], m) >= 1 => Stage(job[s], m) >= 1
              \/ view[m] # NoParty => view[m].id >= job[s].state.id
    PROVE  KnownOK' /\ ViewsOK' /\ RunsOK'
<1>1. \A r \in Members : /\ Selects(job'[r]) <=> Selects(job[r])
                         /\ IsEntry(job'[r]) <=> IsEntry(job[r])
                         /\ IsEntry(job[r]) => job'[r] = job[r]
  BY OwnNames
<1>2. KnownOK' /\ ViewsOK'
  BY OwnViews
<1>3. RunsOK'
  <2>1. \A r \in Members : Selects(job'[r]) => Goes(job'[r], job[r])
    BY <1>1, GoesSelf DEF OwnTurn
  <2>2. \A m \in Members : IsEntry(job'[m]) => job'[m].run \in launched
    BY <1>1 DEF SInv, RunsOK
  <2> QED BY <2>1, <2>2, RunsKeep
<1> QED BY <1>2, <1>3

\* A step of a handler that brings it no further with anybody.
LEMMA OwnQuiet ==
    ASSUME SInv, DInv', NEW s \in Members, NEW p, At(s, p), p # "failed", NEW g, Like(g, job[s]),
           ~ g.waiting, job' = [job EXCEPT ![s] = g], inbox' = inbox,
           UNCHANGED <<party, view, page, origin, unsettled, runtime, entered, launched, strayed, runs>>,
           Selects(job[s]) => Goes(g, job[s]),
           \A m \in Members : Names(s, m) => Stage(g, m) \in {0, Stage(job[s], m)}
    PROVE  SInv'
<1>1. job'[s] = g /\ \A x \in Members : x # s => job'[x] = job[x]
  BY DEF SInv, DInv, Types
<1>2. OwnTurn(s)
  BY <1>1 DEF OwnTurn
<1>3. \A m \in Members : Names(s, m) =>
         /\ Stage(job'[s], m) >= 1 => Stage(job[s], m) >= 1
         /\ Stage(job'[s], m) >= 4 => Stage(job[s], m) >= 4
  BY <1>1
<1>4. LocalOK'
  BY <1>1, <1>2, OwnLocal
<1>5. OrderOK'
  BY <1>2, <1>3, OwnOrder
<1>6. \A m \in Members : entered'[m] # NoRun => entered'[m] \in launched
  BY DEF SInv, RunsOK
<1>7. KnownOK' /\ ViewsOK' /\ RunsOK'
  BY <1>1, <1>2, <1>3, <1>6, OwnRest
<1>8. KindsOK'
  <2>1. g \in Handlers /\ job[s].phase # "failed"
    BY AtParts DEF Like, SInv
  <2> QED BY <1>1, <2>1, OwnKinds
<1> QED BY <1>4, <1>5, <1>7, <1>8 DEF SInv

\* A selection is given up.
LEMMA GiveUp ==
    ASSUME SInv, DInv', NEW s \in Members, NEW p, At(s, p), p # "failed",
           NEW q \in {"blocked", "failed"}, Goto(s, q),
           UNCHANGED <<party, view, page, origin, unsettled, runtime, entered, launched, strayed, runs>>
    PROVE  SInv'
<1> DEFINE g == Phase(job[s], q)
<1>1. job[s] \in Handlers /\ q \in Phases
  BY AtParts DEF SInv, Phases
<1>2. Like(g, job[s]) /\ ~ g.waiting /\ g.phase = q
  BY <1>1, SamePhase
<1>3. job' = [job EXCEPT ![s] = g] /\ inbox' = inbox
  BY DEF Goto
<1> HIDE DEF g
<1>4. \A m \in Members : Names(s, m) => Stage(g, m) \in {0, Stage(job[s], m)}
  BY <1>2, StageGivenUp
<1>5. Selects(job[s]) => Goes(g, job[s])
  BY <1>2 DEF Goes, Early, Late
<1> QED BY <1>2, <1>3, <1>4, <1>5, OwnQuiet

\* A selection is never at the phase of op15.
LEMMA SyncOpens ==
    ASSUME SInv, NEW s \in Members, job[s] \in Handlers, job[s].phase = "sync"
    PROVE  ~ Selects(job[s]) /\ \A m \in Members : ~ Names(s, m)
BY DEF SInv, RunsOK, Names

\* What an error makes of a handler: it gives up.
LEMMA FailedCall ==
    ASSUME SInv, DInv', NEW s \in Members, NEW p \in {"sync", "preflight", "enter"}, At(s, p),
           job[s].todo # <<>>, job' = [job EXCEPT ![s] = Resumed(job[s], "error")], inbox' = inbox,
           UNCHANGED <<party, view, page, origin, unsettled, runtime, entered, launched, strayed, runs>>
    PROVE  SInv'
<1> DEFINE g == Resumed(job[s], "error")
<1>1. job[s] \in Handlers /\ p # "failed"
  BY AtParts DEF SInv
<1>2. Like(g, job[s]) /\ g.phase \in {"blocked", "failed"}
  BY <1>1, SameResumed
<1>3. ~ g.waiting
  BY <1>1, ResumedParts
<1> HIDE DEF g
<1>4. \A m \in Members : Names(s, m) => Stage(g, m) \in {0, Stage(job[s], m)}
  BY <1>2, StageGivenUp
<1>5. Selects(job[s]) => Goes(g, job[s])
  BY <1>2 DEF Goes, Early, Late
<1>6. job' = [job EXCEPT ![s] = g]
  BY DEF g
<1> QED BY <1>1, <1>2, <1>3, <1>4, <1>5, <1>6, OwnQuiet

\* A call that is queued is what the phase of its caller says.
LEMMA CallKinds ==
    ASSUME SInv, DInv', NEW s \in Members, NEW p \in {"sync", "preflight", "enter"}, At(s, p),
           NEW m \in Members, NEW kind \in {"selector", "entry"}, kind = "entry" <=> p = "enter",
           inbox' = [inbox EXCEPT ![m] = Append(@, [from |-> s, kind |-> kind])],
           OwnTurn(s), job'[s].phase = p
    PROVE  KindsOK'
<1> DEFINE c == [from |-> s, kind |-> kind]
<1>1. DInv /\ KindsOK /\ inbox \in [Members -> Seq(Calls)]
  BY DEF SInv, DInv, Types
<1>2. /\ inbox'[m] = Append(inbox[m], c) /\ \A x \in Members : x # m => inbox'[x] = inbox[x]
  BY <1>1
<1>3. c.from = s /\ (c.kind = "entry" <=> p = "enter")
  OBVIOUS
<1> HIDE DEF c
<1>4. job[s] \in Handlers /\ job[s].phase = p /\ Calm(s)
  BY <1>1, AtParts
<1>5. \A x \in Members : ~ Queued(s, x) /\ ~ Running(s, x)
  BY <1>1, <1>4, CalmNotCalled DEF Calm
<1>6. /\ \A x \in Members : x # s => job'[x] = job[x]
      /\ job'[s] \in Handlers /\ job'[s] \notin Serves /\ job'[s].run = job[s].run
      /\ job'[s].phase = job[s].phase /\ job[s] \notin Serves
      /\ Selects(job'[s]) <=> Selects(job[s])
  BY <1>4, HandlerParts DEF OwnTurn, Like, Selects
<1>7. ASSUME NEW r \in Members, NEW x \in Members, NEW i \in 1 .. Len(inbox'[x]), inbox'[x][i].from = r
      PROVE  inbox'[x][i].kind = "entry" <=> job'[r].phase = "enter"
  <2>1. \/ inbox'[x][i] = c
        \/ i \in 1 .. Len(inbox[x]) /\ inbox'[x][i] = inbox[x][i]
    <3>1. CASE x # m
      BY <1>2, <3>1
    <3>2. CASE x = m
      <4>1. inbox[m] \in Seq(Calls) /\ inbox'[m] = Append(inbox[m], c) /\ i \in 1 .. Len(inbox'[m])
        BY <1>1, <1>2, <3>2
      <4> QED BY <3>2, <4>1
    <3> QED BY <3>1, <3>2
  <2>2. CASE inbox'[x][i] = c
    BY <1>3, <1>4, <1>6, <1>7, <2>2
  <2>3. CASE i \in 1 .. Len(inbox[x]) /\ inbox'[x][i] = inbox[x][i]
    <3>1. Queued(r, x)
      BY <1>7, <2>3 DEF Queued
    <3>2. r # s
      BY <1>5, <3>1
    <3>3. inbox[x][i].kind = "entry" <=> job[r].phase = "enter"
      BY <1>1, <1>7, <2>3 DEF KindsOK
    <3> QED BY <1>6, <2>3, <3>2, <3>3
  <2> QED BY <2>1, <2>2, <2>3
<1>8. ASSUME NEW r \in Members, NEW x \in Members, Running(r, x)'
      PROVE  (job'[x].kind = "entry" <=> job'[r].phase = "enter") /\ job'[x].run = job'[r].run
  <2>1. x # s
    BY <1>6, <1>8 DEF Running
  <2>2. Running(r, x) /\ job'[x] = job[x]
    BY <1>6, <1>8, <2>1 DEF Running
  <2>3. r # s
    BY <1>5, <2>2
  <2> QED BY <1>1, <1>6, <2>2, <2>3 DEF KindsOK
<1>9. ASSUME NEW r \in Members, NEW x \in Members, IsEntry(job'[x]), Selects(job'[r]),
             job'[x].run = job'[r].run
      PROVE  job'[x].from = r /\ (job'[x].live \/ job'[r].phase = "failed")
  <2>1. IsEntry(job[x]) /\ job'[x] = job[x]
    BY <1>6, <1>9 DEF IsEntry
  <2>2. Selects(job[r]) /\ job'[r].run = job[r].run /\ job'[r].phase = job[r].phase
    BY <1>6, <1>9
  <2>3. job[x].run = job[r].run
    BY <1>9, <2>1, <2>2
  <2>4. job[x].from = r /\ (job[x].live \/ job[r].phase = "failed")
    BY <1>1, <2>1, <2>2, <2>3 DEF KindsOK
  <2> QED BY <2>1, <2>2, <2>4
<1> QED BY <1>7, <1>8, <1>9 DEF KindsOK

\* A call to the selector brings a handler no further.
LEMMA SelectorCall ==
    ASSUME SInv, DInv', NEW s \in Members, NEW p \in {"sync", "preflight"}, At(s, p),
           job[s].todo # <<>>, Call(s, Head(job[s].todo), "selector"),
           UNCHANGED <<party, view, page, origin, unsettled, runtime, entered, launched, strayed, runs>>
    PROVE  SInv'
<1> DEFINE m == Head(job[s].todo)
<1>1. job[s] \in Handlers /\ job[s].phase = p /\ DInv /\ m \in Members
  BY AtParts, HandlerParts, TailParts DEF SInv
<1>2. CASE conn[m] = "closed"
  <2>1. job' = [job EXCEPT ![s] = Resumed(job[s], "error")] /\ inbox' = inbox
    BY <1>2 DEF Call
  <2> QED BY <2>1, FailedCall
<1>3. CASE conn[m] # "closed"
  <2> DEFINE g == [job[s] EXCEPT !.waiting = TRUE]
  <2>1. /\ inbox' = [inbox EXCEPT ![m] = Append(@, [from |-> s, kind |-> "selector"])]
        /\ job' = [job EXCEPT ![s] = g]
    BY <1>3 DEF Call
  <2>2. Like(g, job[s]) /\ g.phase = p /\ g.todo = job[s].todo
    BY <1>1, SameWaiting
  <2> HIDE DEF g
  <2>3. job'[s] = g /\ \A x \in Members : x # s => job'[x] = job[x]
    BY <1>1, <2>1 DEF DInv, Types
  <2>4. OwnTurn(s)
    BY <2>2, <2>3 DEF OwnTurn
  <2>5. \A x \in Members : Stage(job'[s], x) = Stage(job[s], x)
    BY <1>1, <2>2, <2>3 DEF Stage
  <2>6. Selects(job[s]) => Goes(job'[s], job[s])
    BY <1>1, <2>2, <2>3, SyncOpens DEF Goes, Early, Late
  <2>7. \A x \in Members : entered'[x] # NoRun => entered'[x] \in launched
    BY DEF SInv, RunsOK
  <2>8. LocalOK' /\ OrderOK'
    BY <2>4, <2>5, OwnLocal, OwnOrder
  <2>9. KnownOK' /\ ViewsOK' /\ RunsOK'
    BY <2>4, <2>5, <2>6, <2>7, OwnRest
  <2>10. KindsOK'
    BY <1>1, <2>1, <2>2, <2>3, <2>4, CallKinds
  <2> QED BY <2>8, <2>9, <2>10 DEF SInv
<1> QED BY <1>2, <1>3

\* synchronizeRuntimePartyMembersEnterSelect
LEMMA SyncSInv ==
    ASSUME SInv, NEW s \in Members, Sync(s)
    PROVE  SInv'
<1>1. DInv' /\ At(s, "sync") /\ DInv
  BY SyncKept DEF SInv, Sync
<1>2. UNCHANGED <<party, view, page, origin, unsettled, runtime, entered, launched, strayed, runs>>
  BY DEF Sync, dungeons, towns
<1>3. job[s] \in Handlers /\ job[s].phase = "sync"
  BY <1>1, AtParts
<1>4. ~ Selects(job[s]) /\ \A m \in Members : ~ Names(s, m)
  BY <1>3, SyncOpens
<1>5. \/ Goto(s, "done")
      \/ job[s].todo # <<>> /\ job' = [job EXCEPT ![s] = Visited(job[s])] /\ inbox' = inbox
      \/ job[s].todo # <<>> /\ Call(s, Head(job[s].todo), "selector")
  BY DEF Sync
<1>6. CASE Goto(s, "done")
  <2> DEFINE g == Phase(job[s], "done")
  <2>1. "done" \in Phases
    BY DEF Phases
  <2>2. Like(g, job[s]) /\ ~ g.waiting
    BY <1>3, <2>1, SamePhase
  <2>3. job' = [job EXCEPT ![s] = g] /\ inbox' = inbox
    BY <1>6 DEF Goto
  <2> HIDE DEF g
  <2> QED BY <1>1, <1>2, <1>4, <2>2, <2>3, OwnQuiet
<1>7. CASE job[s].todo # <<>> /\ job' = [job EXCEPT ![s] = Visited(job[s])] /\ inbox' = inbox
  <2> DEFINE g == Visited(job[s])
  <2>1. Like(g, job[s]) /\ ~ g.waiting
    BY <1>3, <1>7, SameVisited
  <2>2. job' = [job EXCEPT ![s] = g] /\ inbox' = inbox
    BY <1>7
  <2> HIDE DEF g
  <2> QED BY <1>1, <1>2, <1>4, <2>1, <2>2, OwnQuiet
<1>8. CASE job[s].todo # <<>> /\ Call(s, Head(job[s].todo), "selector")
  BY <1>1, <1>2, <1>8, SelectorCall
<1> QED BY <1>5, <1>6, <1>7, <1>8

\* prepareRuntimePartyDungeonEntry, first loop: who is ready for one selection
\* has not been called into the dungeon by another.
LEMMA CheckSInv ==
    ASSUME SInv, NEW s \in Members, Check(s)
    PROVE  SInv'
<1> DEFINE h == job[s]
           m == Head(h.todo)
<1>1. DInv' /\ At(s, "check") /\ DInv
  BY CheckKept DEF SInv, Check
<1>2. UNCHANGED <<party, view, page, origin, unsettled, runtime, entered, launched, strayed, runs>>
  BY DEF Check, dungeons, towns
<1>3. h \in Handlers /\ h.phase = "check" /\ ~ h.waiting
  BY <1>1, AtParts
<1>4. \/ h.todo = <<>> /\ Goto(s, "preflight")
      \/ Goto(s, "blocked")
      \/ /\ h.todo # <<>> /\ SameParty(h.state, view[m]) /\ Ready(m) /\ origin[m]
         /\ job' = [job EXCEPT ![s] = Visited(h)] /\ inbox' = inbox
  BY DEF Check
<1>5. CASE h.todo = <<>> /\ Goto(s, "preflight")
  <2> DEFINE g == Phase(h, "preflight")
  <2>1. "preflight" \in Phases
    BY DEF Phases
  <2>2. Like(g, h) /\ ~ g.waiting /\ g.phase = "preflight" /\ g.todo = h.all
    BY <1>3, <2>1, SamePhase
  <2>3. job' = [job EXCEPT ![s] = g] /\ inbox' = inbox
    BY <1>5 DEF Goto
  <2> HIDE DEF g
  <2>4. \A x \in Members : Names(s, x) => Stage(g, x) \in {0, Stage(job[s], x)}
    BY <1>3, <1>5, <2>2, ContainsNone, StagePhases DEF Names
  <2>5. Selects(h) => Goes(g, h)
    BY <1>3, <2>2 DEF Goes, Early, Late
  <2> QED BY <1>1, <1>2, <2>2, <2>3, <2>4, <2>5, OwnQuiet
<1>6. CASE Goto(s, "blocked")
  BY <1>1, <1>2, <1>6, GiveUp
<1>7. CASE /\ h.todo # <<>> /\ SameParty(h.state, view[m]) /\ Ready(m) /\ origin[m]
           /\ job' = [job EXCEPT ![s] = Visited(h)] /\ inbox' = inbox
  <2> DEFINE g == Visited(h)
  <2>1. Like(g, h) /\ ~ g.waiting /\ g.phase = "check" /\ g.todo = Tail(h.todo)
    BY <1>3, <1>7, SameVisited
  <2>2. job' = [job EXCEPT ![s] = g] /\ inbox' = inbox
    BY <1>7
  <2> HIDE DEF g
  <2>3. job'[s] = g /\ \A x \in Members : x # s => job'[x] = job[x]
    BY <1>1, <2>2 DEF DInv, Types
  <2>4. OwnTurn(s)
    BY <2>1, <2>3 DEF OwnTurn
  <2>5. h.todo \in Seq(Members)
    BY <1>3, HandlerParts
  <2>6. \A x \in Members : /\ Stage(g, x) \in {0, 1}
                           /\ x # m => Stage(g, x) = Stage(h, x)
    BY <1>3, <1>7, <2>1, <2>5, ContainsTail, StagePhases
  <2>7. m \in Members /\ view[m] # NoParty /\ view[m].id = h.state.id
        /\ runtime[m] = NoRun /\ entered[m] = NoRun
    BY <1>7, <2>5, TailParts DEF SameParty, Ready
  <2>8. ASSUME NEW r \in Members, Names(r, m), m \notin strayed PROVE Stage(job[r], m) < 4
    <3>1. Local(Stage(job[r], m), job[r].run, origin[m], unsettled[m], runtime[m], entered[m], job[m])
      BY <2>7, <2>8 DEF SInv, LocalOK
    <3>2. job[r].run \in 1 .. runs /\ runs \in Nat
      BY <1>1, <2>8 DEF Names, Selects, DInv, HandlersOK, HandlerOK, Types, WorldTypes
    <3>3. NoRun # job[r].run /\ NoRun # Run(job[r].run)
      <4>1. job[r].run \in Nat
        BY <3>2
      <4>2. Run(job[r].run) \in Runtimes
        BY <4>1 DEF Run, Runtimes
      <4> QED BY <4>1, <4>2, DungeonAssumption
    <3>4. Stage(job[r], m) \notin {3, 4, 5}
      BY <2>7, <3>1, <3>3 DEF Local
    <3> QED BY <3>4, StageType
  <2>9. Orders(s, m) \/ m \in strayed
    <3> SUFFICES ASSUME m \notin strayed, NEW r \in Members, r # s, Names(r, m)
                 PROVE  /\ ~ (Stage(job'[s], m) >= 4)
                        /\ ~ (Stage(job[r], m) >= 4)
      BY DEF Orders
    <3>1. Stage(job'[s], m) \in {0, 1}
      BY <2>3, <2>6, <2>7
    <3>2. Stage(job[r], m) < 4 /\ Stage(job[r], m) \in 0 .. 5
      BY <2>8, StageType
    <3> QED BY <3>1, <3>2
  <2>10. \A x \in Members : Names(s, x) /\ x \notin strayed =>
              \/ /\ Stage(job'[s], x) >= 1 => Stage(job[s], x) >= 1
                 /\ Stage(job'[s], x) >= 4 => Stage(job[s], x) >= 4
              \/ Orders(s, x)
    BY <2>3, <2>6, <2>9
  <2>11. LocalOK' /\ OrderOK'
    <3>1. ASSUME NEW x \in Members
          PROVE  \/ Stage(job'[s], x) \in {0, Stage(job[s], x)}
                 \/ Local(Stage(job'[s], x), job[s].run, origin[x], unsettled[x], runtime[x], entered[x], job[x])
      <4>1. CASE x = m
        <5>1. Stage(job'[s], x) \in {0, 1} /\ origin[x]
          BY <1>7, <2>3, <2>6, <4>1
        <5> QED BY <5>1 DEF Local
      <4>2. CASE x # m
        BY <2>3, <2>6, <4>2
      <4> QED BY <4>1, <4>2
    <3> QED BY <1>2, <2>4, <2>10, <3>1, OwnLocal, OwnOrder
  <2>12. Selects(job[s]) => Goes(job'[s], job[s])
    BY <1>3, <2>1, <2>3 DEF Goes, Early, Late
  <2>13. \A x \in Members : entered'[x] # NoRun => entered'[x] \in launched
    BY <1>2 DEF SInv, RunsOK
  <2>14. h.state.id \in Nat
    BY <1>3, <1>7, HandlerParts DEF SameParty, Projections
  <2>15. \A x \in Members : Names(s, x) =>
              \/ Stage(job'[s], x) >= 1 => Stage(job[s], x) >= 1
              \/ view[x] # NoParty => view[x].id >= job[s].state.id
    BY <2>3, <2>6, <2>7, <2>14
  <2>16. KnownOK' /\ ViewsOK' /\ RunsOK'
    BY <1>2, <2>4, <2>12, <2>13, <2>15, OwnRest
  <2>17. KindsOK'
    <3>1. g \in Handlers /\ job[s].phase # "failed"
      BY <1>3, <2>1 DEF Like
    <3> QED BY <1>1, <2>1, <2>2, <2>3, <3>1, OwnKinds
  <2> QED BY <1>1, <2>11, <2>16, <2>17 DEF SInv
<1> QED BY <1>4, <1>5, <1>6, <1>7

\* its second loop
LEMMA PreflightSInv ==
    ASSUME SInv, NEW s \in Members, Preflight(s)
    PROVE  SInv'
<1> DEFINE h == job[s]
<1>1. DInv' /\ At(s, "preflight") /\ DInv
  BY PreflightKept DEF SInv, Preflight
<1>2. UNCHANGED <<party, view, page, origin, unsettled, runtime, entered, launched, strayed, runs>>
  BY DEF Preflight, dungeons, towns
<1>3. h \in Handlers /\ h.phase = "preflight" /\ ~ h.waiting
  BY <1>1, AtParts
<1>4. \/ h.todo # <<>> /\ Call(s, Head(h.todo), "selector")
      \/ Goto(s, "blocked")
      \/ /\ h.todo = <<>>
         /\ job' = [job EXCEPT ![s] = [Phase(h, "commit") EXCEPT !.todo = Append(h.all, s)]]
         /\ inbox' = inbox
  BY DEF Preflight
<1>5. CASE h.todo # <<>> /\ Call(s, Head(h.todo), "selector")
  BY <1>1, <1>2, <1>5, SelectorCall
<1>6. CASE Goto(s, "blocked")
  BY <1>1, <1>2, <1>6, GiveUp
<1>7. CASE /\ h.todo = <<>>
           /\ job' = [job EXCEPT ![s] = [Phase(h, "commit") EXCEPT !.todo = Append(h.all, s)]]
           /\ inbox' = inbox
  <2> DEFINE f == Phase(h, "commit")
             t == Append(h.all, s)
             g == [f EXCEPT !.todo = t]
  <2>1. "commit" \in Phases /\ h.all \in Seq(Members)
    BY <1>3, HandlerParts DEF Phases
  <2>2. Like(f, h) /\ ~ f.waiting /\ f.phase = "commit"
    BY <1>3, <2>1, SamePhase
  <2>3. t \in Seq(Members) /\ \A x \in Members : Contains(h.all, x) => Contains(t, x)
    BY <2>1, ContainsAppend
  <2>4. job' = [job EXCEPT ![s] = g] /\ inbox' = inbox
    BY <1>7
  <2> HIDE DEF f, t
  <2>5. Like(g, f) /\ g.phase = "commit" /\ g.todo = t /\ ~ g.waiting
    BY <2>2, <2>3, SameTodo DEF Like, Handlers
  <2>6. Like(g, h)
    BY <2>2, <2>5 DEF Like
  <2> HIDE DEF g
  <2>7. \A x \in Members : Names(s, x) => Stage(g, x) \in {0, Stage(job[s], x)}
    BY <1>3, <1>7, <2>3, <2>5, ContainsNone, StagePhases DEF Names
  <2>8. Selects(h) => Goes(g, h)
    BY <1>3, <2>5, <2>6 DEF Goes, Early, Late
  <2> QED BY <1>1, <1>2, <2>4, <2>5, <2>6, <2>7, <2>8, OwnQuiet
<1> QED BY <1>4, <1>5, <1>6, <1>7

\* enterRuntimePartyFollowers: of two selections that call m the later one has
\* the later party, because the party of m is its own.
LEMMA EntryCall ==
    ASSUME SInv, DInv', NEW s \in Members, At(s, "enter"), job[s].todo # <<>>,
           NEW m \in Members, m = Head(job[s].todo), SameParty(job[s].state, view[m]),
           inbox' = [inbox EXCEPT ![m] = Append(@, [from |-> s, kind |-> "entry"])],
           job' = [job EXCEPT ![s].waiting = TRUE],
           UNCHANGED <<party, view, page, origin, unsettled, runtime, entered, launched, strayed, runs>>
    PROVE  SInv'
<1> DEFINE h == job[s]
           g == [h EXCEPT !.waiting = TRUE]
<1>1. h \in Handlers /\ h.phase = "enter" /\ ~ h.waiting /\ DInv /\ h.todo \in Seq(Members)
  BY AtParts, HandlerParts DEF SInv
<1>2. Selects(h)
  BY <1>1, SelectAt DEF Selects
<1>3. Like(g, h) /\ g.phase = "enter" /\ g.todo = h.todo /\ g.waiting
  BY <1>1, SameWaiting
<1>4. job' = [job EXCEPT ![s] = g]
  OBVIOUS
<1> HIDE DEF g
<1>5. job'[s] = g /\ \A x \in Members : x # s => job'[x] = job[x]
  BY <1>1, <1>4 DEF DInv, Types
<1>6. OwnTurn(s)
  BY <1>3, <1>5 DEF OwnTurn
<1>7. Contains(h.todo, m)
  BY <1>1, ContainsTail
<1>8. Stage(h, m) = 3 /\ Stage(g, m) = 4
  BY <1>1, <1>3, <1>7, StagePhases
<1>9. \A x \in Members : x # m => Stage(g, x) = Stage(h, x)
  BY <1>1, <1>3, StagePhases
<1>10. Names(s, m)
  <2>1. Contains(h.all, m)
    BY <1>1, <1>2, <1>7 DEF SInv, RunsOK, Visits
  <2> QED BY <1>2, <2>1 DEF Names
<1>11. ASSUME m \notin strayed
       PROVE  Local(Stage(g, m), h.run, origin[m], unsettled[m], runtime[m], entered[m], job[m])
  <2>1. Local(Stage(h, m), h.run, origin[m], unsettled[m], runtime[m], entered[m], job[m])
    BY <1>10, <1>11 DEF SInv, LocalOK
  <2> QED BY <1>8, <2>1 DEF Local
<1>12. ASSUME m \notin strayed PROVE Orders(s, m)
  <2> SUFFICES ASSUME NEW r \in Members, r # s, Names(r, m)
               PROVE  /\ Stage(job[r], m) >= 1 => job[r].state.id < job[s].state.id
                      /\ Stage(job[r], m) >= 4 => job[s].state.id < job[r].state.id
    BY DEF Orders
  <2>1. ASSUME Stage(job[r], m) >= 1 PROVE job[r].state.id < job[s].state.id
    <3>1. /\ job[r].state # NoParty /\ Head(job[r].state.roster) = r
          /\ view[m] # NoParty => view[m].id >= job[r].state.id
      BY <2>1 DEF SInv, ViewsOK
    <3>2. h.state # NoParty /\ Head(h.state.roster) = s
      BY <1>10 DEF SInv, ViewsOK
    <3>3. view[m] # NoParty /\ view[m].id = h.state.id
      BY DEF SameParty
    <3>4. job[r] \in Handlers
      BY DEF Names, Selects
    <3>5. job[r].state \in Known /\ h.state \in Known
      BY <1>1, <3>4 DEF Known
    <3>6. job[r].state.id \in Nat /\ h.state.id \in Nat
      BY <1>1, <3>1, <3>2, <3>4, HandlerParts DEF Projections
    <3>7. job[r].state.id # h.state.id
      BY <3>1, <3>2, <3>5 DEF SInv, KnownOK, Agree
    <3> QED BY <3>1, <3>3, <3>6, <3>7
  <2>2. ASSUME Stage(job[r], m) >= 4 PROVE job[s].state.id < job[r].state.id
    <3>1. Stage(job[s], m) >= 1
      BY <1>8
    <3> QED BY <1>10, <1>12, <2>2, <3>1 DEF SInv, OrderOK
  <2> QED BY <2>1, <2>2
<1>13. LocalOK'
  <2>1. \A x \in Members : Names(s, x) /\ x \notin strayed =>
              \/ Stage(job'[s], x) \in {0, Stage(job[s], x)}
              \/ Local(Stage(job'[s], x), job[s].run, origin[x], unsettled[x], runtime[x], entered[x], job[x])
    BY <1>5, <1>9, <1>11
  <2> QED BY <1>6, <2>1, OwnLocal
<1>14. OrderOK'
  <2>1. \A x \in Members : Names(s, x) /\ x \notin strayed =>
              \/ /\ Stage(job'[s], x) >= 1 => Stage(job[s], x) >= 1
                 /\ Stage(job'[s], x) >= 4 => Stage(job[s], x) >= 4
              \/ Orders(s, x)
    BY <1>5, <1>9, <1>12
  <2> QED BY <1>6, <2>1, OwnOrder
<1>15. KnownOK' /\ ViewsOK' /\ RunsOK'
  <2>1. Goes(job'[s], job[s])
    <3>1. Visits(h)
      BY <1>1, <1>2 DEF SInv, RunsOK
    <3>2. g.all = h.all
      BY <1>3 DEF Like
    <3>3. Visits(g)
      BY <1>3, <3>1, <3>2 DEF Visits
    <3> QED BY <1>1, <1>3, <1>5, <3>3 DEF Goes, Early, Late
  <2>2. \A x \in Members : entered'[x] # NoRun => entered'[x] \in launched
    BY DEF SInv, RunsOK
  <2>3. \A x \in Members : Names(s, x) =>
              \/ Stage(job'[s], x) >= 1 => Stage(job[s], x) >= 1
              \/ view[x] # NoParty => view[x].id >= job[s].state.id
    <3>1. ASSUME NEW x \in Members, Stage(job'[s], x) >= 1 PROVE Stage(job[s], x) >= 1
      <4>1. CASE x = m
        BY <1>8, <4>1
      <4>2. CASE x # m
        <5>1. Stage(g, x) = Stage(job[s], x) /\ job'[s] = g
          BY <1>5, <1>9, <4>2
        <5> QED BY <3>1, <5>1
      <4> QED BY <4>1, <4>2
    <3> QED BY <3>1
  <2> QED BY <1>6, <2>1, <2>2, <2>3, OwnRest
<1>16. KindsOK'
  BY <1>3, <1>5, <1>6, CallKinds
<1> QED BY <1>13, <1>14, <1>15, <1>16 DEF SInv

\* the whole of it
LEMMA EnterSInv ==
    ASSUME SInv, NEW s \in Members, Enter(s)
    PROVE  SInv'
<1> DEFINE h == job[s]
           m == Head(h.todo)
<1>1. DInv' /\ At(s, "enter") /\ DInv
  BY EnterKept DEF SInv, Enter
<1>2. UNCHANGED <<party, view, page, origin, unsettled, runtime, entered, launched, strayed, runs>>
  BY DEF Enter, dungeons, towns
<1>3. h \in Handlers /\ h.phase = "enter" /\ ~ h.waiting
  BY <1>1, AtParts
<1>4. \/ h.todo = <<>> /\ Goto(s, "done")
      \/ Goto(s, "failed")
      \/ h.todo # <<>> /\ SameParty(h.state, view[m]) /\ Call(s, m, "entry")
  BY DEF Enter
<1>5. CASE h.todo = <<>> /\ Goto(s, "done")
  <2> DEFINE g == Phase(h, "done")
  <2>1. "done" \in Phases
    BY DEF Phases
  <2>2. Like(g, h) /\ ~ g.waiting /\ g.phase = "done"
    BY <1>3, <2>1, SamePhase
  <2>3. job' = [job EXCEPT ![s] = g] /\ inbox' = inbox
    BY <1>5 DEF Goto
  <2> HIDE DEF g
  <2>4. \A x \in Members : Names(s, x) => Stage(g, x) \in {0, Stage(job[s], x)}
    BY <1>3, <1>5, <2>2, ContainsNone, StagePhases
  <2>5. Selects(h) => Goes(g, h)
    BY <1>3, <2>2 DEF Goes, Early, Late
  <2> QED BY <1>1, <1>2, <2>2, <2>3, <2>4, <2>5, OwnQuiet
<1>6. CASE Goto(s, "failed")
  BY <1>1, <1>2, <1>6, GiveUp
<1>7. CASE h.todo # <<>> /\ SameParty(h.state, view[m]) /\ Call(s, m, "entry")
  <2>1. m \in Members
    BY <1>3, <1>7, HandlerParts, TailParts
  <2>2. CASE conn[m] = "closed"
    <3>1. job' = [job EXCEPT ![s] = Resumed(job[s], "error")] /\ inbox' = inbox
      BY <1>7, <2>2 DEF Call
    <3> QED BY <1>1, <1>2, <1>7, <3>1, FailedCall
  <2>3. CASE conn[m] # "closed"
    <3>1. /\ inbox' = [inbox EXCEPT ![m] = Append(@, [from |-> s, kind |-> "entry"])]
          /\ job' = [job EXCEPT ![s].waiting = TRUE]
      BY <1>7, <2>3 DEF Call
    <3> QED BY <1>1, <1>2, <1>7, <2>1, <3>1, EntryCall
  <2> QED BY <2>2, <2>3
<1> QED BY <1>4, <1>5, <1>6, <1>7

\* The packet is handled: who has strayed is forgotten once nobody names it.
LEMMA EndSInv ==
    ASSUME SInv, NEW s \in Members, End(s)
    PROVE  SInv'
<1>1. DInv' /\ DInv
  BY EndKept DEF SInv
<1>2. PICK p \in {"done", "blocked", "failed"} : At(s, p)
  BY DEF End
<1>3. /\ job' = [job EXCEPT ![s] = Idle] /\ inbox' = inbox
      /\ strayed' = {m \in strayed : Naming(m) \ {s} # {}}
      /\ UNCHANGED <<party, view, page, origin, unsettled, runtime, entered, launched, runs>>
  BY DEF End, towns
<1>4. job'[s] = Idle /\ \A x \in Members : x # s => job'[x] = job[x]
  BY <1>1, <1>3 DEF DInv, Types
<1>5. Idle \notin Handlers /\ Idle \notin Serves
  BY DungeonAssumption
<1>6. /\ \A x \in Members : job'[x] \in Handlers => x # s /\ Like(job'[x], job[x])
      /\ \A x \in Members : Selects(job'[x]) => x # s /\ Selects(job[x])
      /\ \A x \in Members : IsEntry(job'[x]) => x # s /\ IsEntry(job[x])
      /\ \A x, m \in Members : Names(x, m)' => x # s /\ Names(x, m)
  BY <1>4, <1>5 DEF Like, Selects, IsEntry, Names
<1>7. ASSUME NEW x \in Members, NEW m \in Members, Names(x, m)', m \notin strayed'
      PROVE  m \notin strayed
  <2>1. x \in Naming(m) \ {s}
    BY <1>1, <1>6, <1>7, NamingParts
  <2> QED BY <1>3, <1>7, <2>1
<1>8. LocalOK' /\ OrderOK'
  <2>1. ASSUME NEW x \in Members, NEW m \in Members, Names(x, m)', m \notin strayed'
        PROVE  Keeps(x, m)
    <3>1. x # s /\ Names(x, m) /\ m \notin strayed /\ job'[x] = job[x] /\ Like(job'[x], job[x])
      BY <1>4, <1>6, <1>7, <2>1 DEF Names, Selects
    <3>2. IsEntry(job'[m]) => IsEntry(job[m]) /\ job'[m].run = job[m].run
      BY <1>4, <1>6
    <3> QED BY <1>3, <1>6, <3>1, <3>2 DEF Keeps
  <2> QED BY <2>1, PairsKept
<1>9. KnownOK'
  <2>1. PartyMoves /\ \A m \in Members : view'[m] \in {view[m], party, NoParty}
    BY <1>3 DEF PartyMoves
  <2> QED BY <1>6, <2>1, KnownFrom
<1>10. ViewsOK'
  <2>1. \A x, m \in Members : Names(x, m)' =>
            /\ Names(x, m) /\ Like(job'[x], job[x])
            /\ Stage(job'[x], m) >= 1 => Stage(job[x], m) >= 1
    BY <1>4, <1>6 DEF Names, Selects
  <2> QED BY <1>3, <2>1, ViewsKept
<1>11. RunsOK'
  <2>1. ASSUME NEW x \in Members, Selects(job'[x]) PROVE Goes(job'[x], job[x])
    <3>1. x # s /\ job'[x] = job[x] /\ Selects(job[x])
      BY <1>4, <1>6, <2>1
    <3> QED BY <3>1, GoesSelf
  <2>2. \A m \in Members : /\ entered'[m] # NoRun => entered'[m] \in launched
                           /\ IsEntry(job'[m]) => job'[m].run \in launched
    BY <1>3, <1>4, <1>6 DEF SInv, RunsOK
  <2> QED BY <1>3, <2>1, <2>2, RunsKeep
<1>12. KindsOK'
  BY <1>1, <1>2, <1>3, <1>4, <1>5, OwnKinds
<1> QED BY <1>1, <1>8, <1>9, <1>10, <1>11, <1>12 DEF SInv

-----------------------------------------------------------------------------
(* Packets that begin a handler *)

\* A session takes up a handler of the party it sees.
LEMMA BeginRest ==
    ASSUME SInv, DInv', NEW s \in Members, Free(s), NEW g \in Handlers, ~ g.waiting,
           g.state = view[s], job' = [job EXCEPT ![s] = g], inbox' = inbox,
           UNCHANGED <<party, view, launched>>,
           \A m \in Members : m # s => /\ origin'[m] = origin[m] /\ unsettled'[m] = unsettled[m]
                                       /\ runtime'[m] = runtime[m] /\ entered'[m] = entered[m],
           \A m \in Members : m \in strayed => m \in strayed',
           \/ \A r \in Members : Names(r, s) => s \in strayed'
           \/ /\ origin[s] => origin'[s]
              /\ unsettled'[s] = unsettled[s] /\ runtime'[s] = runtime[s] /\ entered'[s] = entered[s],
           Selects(g) =>
              /\ \A r \in Members : Names(r, s) => s \in strayed'
              /\ g.run = runs + 1
              /\ \A m \in Members : Contains(g.all, m) =>
                    Stage(g, m) = 0 /\ g.state # NoParty /\ Head(g.state.roster) = s /\ m # s
    PROVE  LocalOK' /\ OrderOK' /\ KnownOK' /\ ViewsOK' /\ KindsOK'
<1>1. DInv /\ job'[s] = g /\ \A x \in Members : x # s => job'[x] = job[x]
  BY DEF SInv, DInv, Types
<1>2. job[s] \notin Handlers /\ job[s] \notin Serves /\ g \notin Serves
  BY <1>1, JobParts, HandlerParts
<1>3. ASSUME NEW r \in Members, NEW m \in Members, Names(r, m)'
      PROVE  \/ r = s /\ Selects(g) /\ Contains(g.all, m)
             \/ r # s /\ Names(r, m) /\ Like(job'[r], job[r]) /\ job'[r] = job[r]
  BY <1>1, <1>3 DEF Names, Like, Selects
<1>4. LocalOK' /\ OrderOK'
  <2>1. ASSUME NEW r \in Members, NEW m \in Members, Names(r, m)', m \notin strayed'
        PROVE  Stage(job'[r], m) = 0 \/ Keeps(r, m)
    <3>1. CASE r = s /\ Selects(g) /\ Contains(g.all, m)
      BY <1>1, <3>1
    <3>2. CASE r # s /\ Names(r, m) /\ Like(job'[r], job[r]) /\ job'[r] = job[r]
      <4>1. Selects(job'[m]) => Selects(job[m])
        BY <1>1, <2>1, <3>2
      <4>2. IsEntry(job'[m]) => IsEntry(job[m]) /\ job'[m].run = job[m].run
        BY <1>1, <1>2 DEF IsEntry
      <4>3. /\ origin[m] => origin'[m]
            /\ unsettled'[m] = unsettled[m] /\ runtime'[m] = runtime[m] /\ entered'[m] = entered[m]
        BY <2>1, <3>2
      <4>4. m \notin strayed
        BY <2>1
      <4>5. Stage(job'[r], m) = Stage(job[r], m)
        BY <3>2
      <4> QED BY <3>2, <4>1, <4>2, <4>3, <4>4, <4>5 DEF Keeps
    <3> QED BY <1>3, <2>1, <3>1, <3>2
  <2> QED BY <2>1, PairsKept
<1>5. KnownOK'
  <2>1. PartyMoves /\ \A m \in Members : view'[m] \in {view[m], party, NoParty}
    BY DEF PartyMoves
  <2>2. \A x \in Members : job'[x] \in Handlers => Like(job'[x], job[x]) \/ job'[x].state = view[x]
    BY <1>1 DEF Like
  <2> QED BY <2>1, <2>2, KnownFrom
<1>6. ViewsOK'
  <2>1. ASSUME NEW r \in Members, NEW m \in Members, Names(r, m)'
        PROVE  \/ /\ Names(r, m) /\ Like(job'[r], job[r])
                  /\ Stage(job'[r], m) >= 1 => Stage(job[r], m) >= 1
               \/ /\ Stage(job'[r], m) = 0 /\ job'[r].state # NoParty
                  /\ Head(job'[r].state.roster) = r /\ m # r
    BY <1>1, <1>3, <2>1
  <2> QED BY <2>1, ViewsKept
<1>7. KindsOK'
  <2>1. \A m \in Members : \A i \in 1 .. Len(inbox'[m]) :
           \E k \in 1 .. Len(inbox[m]) : inbox'[m][i] = inbox[m][k]
    OBVIOUS
  <2>2. \A x \in Members : Waits(x)' => job'[x] = job[x]
    BY <1>1 DEF Waits
  <2>3. \A m \in Members : job'[m] \in Serves => job'[m] = job[m]
    BY <1>1, <1>2
  <2>4. \A m \in Members : job[m] \in Serves => job[m].run # runs + 1
    <3>1. \A m \in Members : job[m] \in Serves => job[m].run \in {NoRun} \cup 1 .. runs
      BY <1>1 DEF DInv, HandlersOK
    <3>2. runs \in Nat /\ NoRun \notin Nat
      BY <1>1, DungeonAssumption DEF DInv, Types, WorldTypes
    <3> QED BY <3>1, <3>2
  <2>5. \A x \in Members : Selects(job'[x]) =>
            \/ /\ Selects(job[x]) /\ job'[x].run = job[x].run
               /\ job[x].phase = "failed" => job'[x].phase = "failed"
            \/ \A m \in Members : job[m] \in Serves => job[m].run # job'[x].run
    BY <1>1, <2>4
  <2> QED BY <2>1, <2>2, <2>3, <2>5, KindsKept
<1> QED BY <1>4, <1>5, <1>6, <1>7

\* What a session takes up is a handler.
LEMMA BeginIs ==
    ASSUME DInv, NEW s \in Members, NEW op \in {"open", "select"}, NEW p \in Phases,
           NEW n \in Nat \cup {NoRun}, NEW a, a \in {<<>>, Others(view[s], s)},
           a # <<>> => view[s] # NoParty
    PROVE  Handler(op, p, view[s], a, n) \in Handlers
<1>1. view[s] \in Projections \cup {NoParty}
  BY DEF DInv, Types, WorldTypes
<1>2. a \in Seq(Members)
  <2>1. CASE a = <<>>
    BY <2>1
  <2>2. CASE a # <<>>
    <3>1. view[s].roster \in Seq(Members)
      BY <1>1, <2>2 DEF Projections
    <3> QED BY <2>2, <3>1, MinusType DEF Others
  <2> QED BY <2>1, <2>2
<1> QED BY <1>1, <1>2 DEF Handler, Handlers

\* op15
LEMMA OpenSelectorSInv ==
    ASSUME SInv, NEW s \in Members, OpenSelector(s)
    PROVE  SInv'
<1> DEFINE a == IF view[s] = NoParty THEN <<>> ELSE Others(view[s], s)
           g == Handler("open", "sync", view[s], a, NoRun)
<1>1. DInv' /\ DInv /\ Free(s)
  BY OpenSelectorKept DEF SInv, OpenSelector
<1>2. /\ job' = [job EXCEPT ![s] = g] /\ inbox' = inbox
      /\ UNCHANGED <<party, view, launched, runs>>
      /\ runtime' = [runtime EXCEPT ![s] = NoRun]
      /\ entered' = [entered EXCEPT ![s] = NoRun]
      /\ unsettled' = [unsettled EXCEPT ![s] = FALSE]
      /\ origin' = [origin EXCEPT ![s] = TRUE]
  BY DEF OpenSelector
<1>3. WorldTypes /\ job \in [Members -> Jobs]
  BY <1>1 DEF DInv, Types
<1>4. job'[s] = g /\ \A x \in Members : x # s => job'[x] = job[x]
  BY <1>2, <1>3
<1>5. g.op = "open" /\ ~ g.waiting /\ g.state = view[s]
  BY DEF Handler
<1>6. g \in Handlers
  <2>1. "sync" \in Phases /\ a \in {<<>>, Others(view[s], s)} /\ (a # <<>> => view[s] # NoParty)
    BY DEF Phases
  <2> HIDE DEF a
  <2> QED BY <1>1, <2>1, BeginIs
<1> HIDE DEF g
<1>7. ~ Selects(g)
  BY <1>5 DEF Selects
<1>8. /\ \A m \in Members : m # s => /\ origin'[m] = origin[m] /\ unsettled'[m] = unsettled[m]
                                     /\ runtime'[m] = runtime[m] /\ entered'[m] = entered[m]
      /\ origin'[s] = TRUE /\ unsettled'[s] = FALSE /\ runtime'[s] = NoRun /\ entered'[s] = NoRun
  BY <1>2, <1>3 DEF WorldTypes
<1>9. LocalOK' /\ OrderOK' /\ KnownOK' /\ ViewsOK' /\ KindsOK'
  <2>1. CASE runtime[s] = NoRun /\ ~ unsettled[s]
    <3>1. UNCHANGED strayed /\ entered[s] = NoRun
      BY <2>1 DEF OpenSelector
    <3>2. unsettled[s] = FALSE
      BY <1>3, <2>1 DEF WorldTypes
    <3>3. /\ origin[s] => origin'[s]
          /\ unsettled'[s] = unsettled[s] /\ runtime'[s] = runtime[s] /\ entered'[s] = entered[s]
      BY <1>8, <2>1, <3>1, <3>2
    <3> QED BY <1>1, <1>2, <1>5, <1>6, <1>7, <1>8, <3>1, <3>3, BeginRest
  <2>2. CASE ~ (runtime[s] = NoRun /\ ~ unsettled[s])
    <3>1. Stray(s)
      BY <2>2 DEF OpenSelector
    <3>2. /\ \A x \in Members : x \in strayed => x \in strayed'
          /\ \A r \in Members : Names(r, s) => s \in strayed'
      BY <1>1, <3>1, StrayParts
    <3> QED BY <1>1, <1>2, <1>5, <1>6, <1>7, <1>8, <3>2, BeginRest
  <2> QED BY <2>1, <2>2
<1>10. RunsOK'
  <2>1. \A x \in Members : Selects(job'[x]) => Goes(job'[x], job[x])
    BY <1>4, <1>7, GoesSelf
  <2>2. \A m \in Members : /\ entered'[m] # NoRun => entered'[m] \in launched
                           /\ IsEntry(job'[m]) => job'[m].run \in launched
    <3>1. ~ IsEntry(g)
      BY <1>6, HandlerParts DEF IsEntry
    <3>2. \A m \in Members : entered'[m] \in {entered[m], NoRun}
      BY <1>8
    <3> QED BY <1>4, <3>1, <3>2 DEF SInv, RunsOK
  <2> QED BY <1>2, <2>1, <2>2, RunsKeep
<1> QED BY <1>1, <1>9, <1>10 DEF SInv

\* op16: the run is new, and who leaves for a dungeon of its own has strayed.
LEMMA SelectBegins ==
    ASSUME SInv, NEW s \in Members, SelectDungeon(s), Resume(s, TRUE), runs' = runs + 1,
           job' = [job EXCEPT ![s] =
                     Handler("select", "check", view[s],
                             IF view[s] = NoParty \/ Head(view[s].roster) # s THEN <<>>
                             ELSE Others(view[s], s), runs + 1)]
    PROVE  SInv'
<1> DEFINE a == IF view[s] = NoParty \/ Head(view[s].roster) # s THEN <<>>
                ELSE Others(view[s], s)
           g == Handler("select", "check", view[s], a, runs + 1)
<1>1. DInv' /\ DInv /\ Free(s) /\ runs \in Nat /\ job \in [Members -> Jobs]
  BY SelectDungeonKept DEF SInv, SelectDungeon, DInv, Types, WorldTypes
<1>2. /\ job' = [job EXCEPT ![s] = g] /\ inbox' = inbox
      /\ UNCHANGED <<party, view, page, origin, launched>>
      /\ runs' = runs + 1 /\ Stray(s)
  BY DEF SelectDungeon
<1>3. job'[s] = g /\ \A x \in Members : x # s => job'[x] = job[x]
  BY <1>1, <1>2
<1>4. /\ Distinct(a)
      /\ \A m \in Members : Contains(a, m) =>
            view[s] # NoParty /\ Head(view[s].roster) = s /\ m # s
  <2>1. CASE view[s] = NoParty \/ Head(view[s].roster) # s
    <3>1. a = <<>>
      BY <2>1
    <3> QED BY <3>1, ContainsNone DEF Distinct
  <2>2. CASE ~ (view[s] = NoParty \/ Head(view[s].roster) # s)
    <3>1. view[s] \in Projections /\ view[s] \in Known
      BY <1>1, <2>2 DEF DInv, Types, WorldTypes, Known
    <3>2. view[s].roster \in Seq(Members) /\ Distinct(view[s].roster)
      BY <2>2, <3>1 DEF SInv, KnownOK, Older, Projections
    <3>3. a = Minus(view[s].roster, s)
      BY <2>2 DEF Others
    <3>4. Distinct(a) /\ ~ Contains(a, s)
      BY <3>2, <3>3, MinusFacts
    <3> QED BY <2>2, <3>4
  <2> QED BY <2>1, <2>2
<1> HIDE DEF a
<1>5. /\ g.op = "select" /\ g.phase = "check" /\ ~ g.waiting /\ g.state = view[s]
      /\ g.all = a /\ g.todo = a /\ g.run = runs + 1
  BY DEF Handler
<1>6. /\ entered'[s] \in {entered[s], NoRun}
      /\ \A x \in Members : x # s => /\ runtime'[x] = runtime[x] /\ entered'[x] = entered[x]
                                     /\ unsettled'[x] = unsettled[x]
  BY <1>1, ResumeLeaves
<1>7. g \in Handlers
  <2>1. "check" \in Phases /\ runs + 1 \in Nat
    BY <1>1 DEF Phases
  <2>2. a \in {<<>>, Others(view[s], s)} /\ (a # <<>> => view[s] # NoParty)
    BY DEF a
  <2> QED BY <1>1, <2>1, <2>2, BeginIs
<1> HIDE DEF g
<1>8. /\ \A x \in Members : x \in strayed => x \in strayed'
      /\ \A r \in Members : Names(r, s) => s \in strayed'
  BY <1>1, <1>2, StrayParts
<1>9. \A m \in Members : Contains(g.all, m) =>
         Stage(g, m) = 0 /\ g.state # NoParty /\ Head(g.state.roster) = s /\ m # s
  BY <1>4, <1>5, StagePhases
<1>10. LocalOK' /\ OrderOK' /\ KnownOK' /\ ViewsOK' /\ KindsOK'
  BY <1>1, <1>2, <1>5, <1>6, <1>7, <1>8, <1>9, BeginRest
<1>11. RunsOK'
  <2>1. RunsOK /\ launched \subseteq 1 .. runs
    BY DEF SInv, RunsOK
  <2>2. runs + 1 \notin launched /\ launched \subseteq 1 .. runs'
    BY <1>1, <1>2, <2>1
  <2>3. \A x \in Members : Selects(job[x]) => job[x].run # runs + 1
    <3>1. \A x \in Members : Selects(job[x]) => job[x].run \in 1 .. runs
      BY <1>1 DEF Selects, DInv, HandlersOK, HandlerOK
    <3> QED BY <1>1, <3>1
  <2>4. \A x, r \in Members : Selects(job'[x]) /\ Selects(job'[r]) /\ x # r => job'[x].run # job'[r].run
    BY <1>3, <1>5, <2>1, <2>3 DEF RunsOK
  <2>5. ASSUME NEW x \in Members, Selects(job'[x])
        PROVE  /\ job'[x].phase # "sync" /\ Distinct(job'[x].all)
               /\ job'[x].phase = "enter" => Visits(job'[x])
               /\ job'[x].phase \in {"announce", "enter", "done"} => job'[x].run \in launched
               /\ job'[x].phase \in {"check", "preflight", "commit", "rollback"} => job'[x].run \notin launched
    <3>1. CASE x = s
      BY <1>3, <1>4, <1>5, <2>2, <3>1
    <3>2. CASE x # s
      BY <1>3, <2>1, <2>5, <3>2 DEF RunsOK
    <3> QED BY <3>1, <3>2
  <2>6. \A m \in Members : /\ entered'[m] # NoRun => entered'[m] \in launched
                           /\ IsEntry(job'[m]) => job'[m].run \in launched
    <3>1. ~ IsEntry(g)
      BY <1>7, HandlerParts DEF IsEntry
    <3>2. \A m \in Members : entered'[m] \in {entered[m], NoRun}
      BY <1>6
    <3> QED BY <1>3, <2>1, <3>1, <3>2 DEF RunsOK
  <2>7. \A x \in Members : Visits(job[x])' <=> Visits(job'[x])
    BY DEF Visits
  <2> QED BY <1>2, <2>2, <2>4, <2>5, <2>6, <2>7 DEF RunsOK
<1> QED BY <1>1, <1>10, <1>11 DEF SInv

\* The packet is ignored where the return it confirms fails.
LEMMA SelectDungeonSInv ==
    ASSUME SInv, NEW s \in Members, SelectDungeon(s)
    PROVE  SInv'
<1>1. DInv' /\ DInv
  BY SelectDungeonKept DEF SInv
<1>2. CASE Resume(s, FALSE) /\ UNCHANGED <<job, runs>>
  <2>1. /\ entered'[s] \in {entered[s], NoRun}
        /\ \A x \in Members : x # s => /\ runtime'[x] = runtime[x] /\ entered'[x] = entered[x]
                                       /\ unsettled'[x] = unsettled[x]
    BY <1>1, <1>2, ResumeLeaves
  <2> QED BY <1>1, <1>2, <2>1, ElsewhereSInv DEF SelectDungeon
<1>3. CASE ~ (Resume(s, FALSE) /\ UNCHANGED <<job, runs>>)
  BY <1>3, SelectBegins DEF SelectDungeon
<1> QED BY <1>2, <1>3

-----------------------------------------------------------------------------
(* The commits, their rollback and the writes that follow them *)

\* A selection that has asked a session that selects itself has lost it.
LEMMA BusyIsLow ==
    ASSUME SInv, NEW s \in Members, Selects(job[s]), NEW r \in Members, Names(r, s), s \notin strayed
    PROVE  Stage(job[r], s) \in {0, 1} /\ r # s
<1>1. Local(Stage(job[r], s), job[r].run, origin[s], unsettled[s], runtime[s], entered[s], job[s])
  BY DEF SInv, LocalOK
<1>2. ~ (Stage(job[r], s) >= 2)
  BY <1>1 DEF Local
<1>3. r # s
  BY DEF SInv, ViewsOK
<1> QED BY <1>2, <1>3, StageType

\* A step of a selection that changes what it has entered itself, or its run:
\* nobody relies on that.
LEMMA OwnWorld ==
    ASSUME SInv, NEW s \in Members, OwnTurn(s), Selects(job[s]), UNCHANGED <<origin, strayed>>,
           \A m \in Members : m # s => /\ unsettled'[m] = unsettled[m] /\ runtime'[m] = runtime[m]
                                       /\ entered'[m] = entered[m],
           \A m \in Members : Names(s, m) => Stage(job'[s], m) \in {0, Stage(job[s], m)}
    PROVE  LocalOK' /\ OrderOK'
<1>1. /\ \A r, m \in Members : Names(r, m)' <=> Names(r, m)
      /\ \A r \in Members : /\ job[r] \in Handlers => Like(job'[r], job[r])
                            /\ Selects(job'[r]) <=> Selects(job[r])
                            /\ IsEntry(job'[r]) <=> IsEntry(job[r])
                            /\ IsEntry(job[r]) => job'[r] = job[r]
  BY OwnNames
<1>2. \A r, m \in Members : Names(r, m) => /\ Stage(job'[r], m) \in {0, Stage(job[r], m)}
                                           /\ r # s => job'[r] = job[r]
  BY DEF OwnTurn
<1>3. ASSUME NEW r \in Members, NEW m \in Members, Names(r, m), m \notin strayed
      PROVE  Local(Stage(job'[r], m), job'[r].run, origin'[m], unsettled'[m], runtime'[m], entered'[m], job'[m])
  <2>1. CASE m = s
    <3>1. Stage(job[r], m) \in {0, 1} /\ r # s
      BY <1>3, <2>1, BusyIsLow
    <3>2. Local(Stage(job[r], m), job[r].run, origin[m], unsettled[m], runtime[m], entered[m], job[m])
      BY <1>3 DEF SInv, LocalOK
    <3>3. job'[r] = job[r] /\ origin' = origin
      BY <1>2, <1>3, <3>1
    <3> QED BY <3>1, <3>2, <3>3 DEF Local
  <2>2. CASE Stage(job'[r], m) = 0
    BY <2>2, LocalLow
  <2>3. CASE m # s /\ Stage(job'[r], m) = Stage(job[r], m)
    <3>1. Like(job'[r], job[r])
      BY <1>1, <1>3 DEF Names, Selects
    <3>2. Keeps(r, m)
      BY <1>1, <1>3, <2>3, <3>1 DEF Keeps
    <3> QED BY <3>2, KeepsLocal
  <2> QED BY <1>2, <1>3, <2>1, <2>2, <2>3
<1>4. LocalOK'
  BY <1>1, <1>3 DEF LocalOK
<1>5. OrderOK'
  <2>1. \A m \in Members : Names(s, m) =>
           /\ Stage(job'[s], m) >= 1 => Stage(job[s], m) >= 1
           /\ Stage(job'[s], m) >= 4 => Stage(job[s], m) >= 4
    OBVIOUS
  <2> QED BY <2>1, OwnOrder
<1> QED BY <1>4, <1>5

\* The writes between the commit and the fan-out
LEMMA AnnounceSInv ==
    ASSUME SInv, NEW s \in Members, Announce(s)
    PROVE  SInv'
<1> DEFINE h == job[s]
<1>1. DInv' /\ At(s, "announce") /\ DInv
  BY AnnounceKept DEF SInv, Announce
<1>2. UNCHANGED <<party, view, origin, runtime, launched, strayed, runs>>
  BY DEF Announce
<1>3. h \in Handlers /\ h.phase = "announce" /\ h.op = "select" /\ Selects(h)
  BY <1>1, AtParts, SelectAt DEF Selects
<1>4. PICK p \in {"failed", "enter"} : Goto(s, p)
  BY DEF Announce
<1> DEFINE g == Phase(h, p)
<1>5. p \in Phases
  BY DEF Phases
<1>6. Like(g, h) /\ ~ g.waiting /\ g.phase = p /\ g.todo = h.all
  BY <1>3, <1>5, SamePhase
<1>7. job' = [job EXCEPT ![s] = g] /\ inbox' = inbox
  BY <1>4 DEF Goto
<1> HIDE DEF g
<1>8. job'[s] = g /\ \A x \in Members : x # s => job'[x] = job[x]
  BY <1>1, <1>7 DEF DInv, Types
<1>9. OwnTurn(s)
  BY <1>6, <1>8 DEF OwnTurn
<1>10. \A x \in Members : Names(s, x) => Stage(job'[s], x) \in {0, Stage(job[s], x)}
  <2>1. CASE p = "failed"
    BY <1>6, <1>8, <2>1, StageGivenUp
  <2>2. CASE p = "enter"
    BY <1>3, <1>6, <1>8, <2>2, StagePhases DEF Names
  <2> QED BY <2>1, <2>2
<1>11. /\ entered'[s] = h.run /\ \A m \in Members : m # s => entered'[m] = entered[m]
       /\ \A m \in Members : m # s => unsettled'[m] = unsettled[m]
  BY <1>1 DEF Announce, DInv, Types, WorldTypes
<1>12. LocalOK' /\ OrderOK'
  BY <1>2, <1>3, <1>9, <1>10, <1>11, OwnWorld
<1>13. h.run \in launched /\ Distinct(h.all)
  BY <1>3 DEF SInv, RunsOK
<1>14. \A m \in Members : entered'[m] # NoRun => entered'[m] \in launched
  BY <1>11, <1>13 DEF SInv, RunsOK
<1>15. Goes(job'[s], job[s])
  <2>1. Visits(g)
    BY <1>6, <1>13 DEF Visits, Like
  <2> QED BY <1>3, <1>6, <1>8, <2>1 DEF Goes, Early, Late
<1>16. \A m \in Members : Names(s, m) => (Stage(job'[s], m) >= 1 => Stage(job[s], m) >= 1)
  BY <1>10
<1>17. KnownOK' /\ ViewsOK' /\ RunsOK'
  BY <1>2, <1>9, <1>14, <1>15, <1>16, OwnRest
<1>18. KindsOK'
  <2>1. g \in Handlers /\ job[s].phase # "failed"
    BY <1>3, <1>6 DEF Like
  <2> QED BY <1>1, <1>6, <1>7, <1>8, <2>1, OwnKinds
<1> QED BY <1>1, <1>12, <1>17, <1>18 DEF SInv

\* The run of m changes under the hands of s: it is enough to look at who
\* names m.
LEMMA OneRunLocal ==
    ASSUME SInv, NEW s \in Members, OwnTurn(s), UNCHANGED <<page, origin, unsettled, entered, strayed>>,
           NEW m \in Members, \A x \in Members : x # m => runtime'[x] = runtime[x],
           \A r, x \in Members : Names(r, x) /\ x # m => Stage(job'[r], x) = Stage(job[r], x),
           \A r \in Members : Names(r, m) /\ m \notin strayed =>
              Local(Stage(job'[r], m), job[r].run, origin[m], unsettled[m], runtime'[m], entered[m], job[m])
    PROVE  LocalOK'
<1>1. /\ \A r, x \in Members : Names(r, x)' <=> Names(r, x)
      /\ \A r \in Members : /\ job[r] \in Handlers => Like(job'[r], job[r])
                            /\ Selects(job'[r]) <=> Selects(job[r])
                            /\ IsEntry(job'[r]) <=> IsEntry(job[r])
                            /\ IsEntry(job[r]) => job'[r] = job[r]
  BY OwnNames
<1>2. ASSUME NEW r \in Members, NEW x \in Members, Names(r, x), x \notin strayed
      PROVE  Local(Stage(job'[r], x), job'[r].run, origin'[x], unsettled'[x], runtime'[x], entered'[x], job'[x])
  <2>1. Like(job'[r], job[r])
    BY <1>1, <1>2 DEF Names, Selects
  <2>2. CASE x # m
    <3>1. Keeps(r, x)
      BY <1>1, <1>2, <2>1, <2>2 DEF Keeps
    <3> QED BY <3>1, KeepsLocal
  <2>3. CASE x = m
    <3>1. Local(Stage(job'[r], m), job[r].run, origin[m], unsettled[m], runtime'[m], entered[m], job[m])
      BY <1>2, <2>3
    <3>2. job'[r].run = job[r].run
      BY <2>1 DEF Like
    <3>3. ASSUME NEW st, NEW n, NEW rt, Local(st, n, origin[m], unsettled[m], rt, entered[m], job[m])
          PROVE  Local(st, n, origin[m], unsettled[m], rt, entered[m], job'[m])
      BY <1>1, <3>3 DEF Local
    <3> QED BY <2>3, <3>1, <3>2, <3>3
  <2> QED BY <2>2, <2>3
<1> QED BY <1>1, <1>2 DEF LocalOK

\* rollbackRuntimePartyPreparedFollowers: the run it removes is nobody else's,
\* and nobody is called to enter it.
LEMMA RollbackSInv ==
    ASSUME SInv, NEW s \in Members, Rollback(s)
    PROVE  SInv'
<1> DEFINE h == job[s]
           m == Head(h.todo)
<1>1. DInv' /\ At(s, "rollback") /\ DInv
  BY RollbackKept DEF SInv, Rollback
<1>2. UNCHANGED <<party, view, page, origin, unsettled, entered, launched, strayed, runs>>
  BY DEF Rollback, towns
<1>3. h \in Handlers /\ h.phase = "rollback" /\ h.op = "select" /\ Selects(h)
  BY <1>1, AtParts, SelectAt DEF Selects
<1>4. CASE h.todo = <<>>
  <2>1. Goto(s, "blocked") /\ UNCHANGED runtime
    BY <1>4 DEF Rollback
  <2> QED BY <1>1, <1>2, <2>1, GiveUp
<1>5. CASE h.todo # <<>>
  <2> DEFINE g == Visited(h)
  <2>1. /\ runtime' = [runtime EXCEPT ![m] = IF @ # NoRun /\ @.id = h.run THEN NoRun ELSE @]
        /\ job' = [job EXCEPT ![s] = g] /\ inbox' = inbox
    BY <1>5 DEF Rollback
  <2>2. Like(g, h) /\ ~ g.waiting /\ g.phase = "rollback"
    BY <1>3, <1>5, SameVisited
  <2> HIDE DEF g
  <2>3. job'[s] = g /\ \A x \in Members : x # s => job'[x] = job[x]
    BY <1>1, <2>1 DEF DInv, Types
  <2>4. OwnTurn(s)
    BY <2>2, <2>3 DEF OwnTurn
  <2>5. \A x \in Members : Stage(job'[s], x) = 0 /\ Stage(job[s], x) = 0
    BY <1>3, <2>2, <2>3, StageGivenUp
  <2>6. \A r, x \in Members : Stage(job'[r], x) = Stage(job[r], x)
    BY <2>3, <2>5
  <2>7. m \in Members
    BY <1>3, <1>5, HandlerParts, TailParts
  <2>8. /\ \A x \in Members : x # m => runtime'[x] = runtime[x]
        /\ runtime'[m] = runtime[m] \/ (runtime[m] # NoRun /\ runtime[m].id = h.run)
    BY <1>1, <2>1, <2>7 DEF DInv, Types, WorldTypes
  <2>9. h.run \notin launched
    BY <1>3 DEF SInv, RunsOK
  <2>10. ASSUME NEW r \in Members, Names(r, m), m \notin strayed
         PROVE  Local(Stage(job'[r], m), job[r].run, origin[m], unsettled[m], runtime'[m], entered[m], job[m])
    <3>1. Local(Stage(job[r], m), job[r].run, origin[m], unsettled[m], runtime[m], entered[m], job[m])
      BY <2>7, <2>10 DEF SInv, LocalOK
    <3>2. CASE runtime'[m] = runtime[m]
      BY <2>6, <2>7, <3>1, <3>2
    <3>3. CASE r = s
      BY <2>5, <2>7, <3>3, LocalLow
    <3>4. CASE r # s /\ runtime[m] # NoRun /\ runtime[m].id = h.run
      <4>1. job[r].run # h.run
        BY <1>3, <2>10, <3>4 DEF SInv, RunsOK, Names
      <4>2. runtime[m] # Run(job[r].run)
        BY <3>4, <4>1 DEF Run
      <4>3. IsEntry(job[m]) => runtime[m] # Run(job[m].run)
        <5>1. IsEntry(job[m]) => job[m].run \in launched
          BY <2>7 DEF SInv, RunsOK
        <5> QED BY <2>9, <3>4, <5>1 DEF Run
      <4> HIDE DEF m
      <4>4. Local(Stage(job[r], m), job[r].run, origin[m], unsettled[m], runtime'[m], entered[m], job[m])
        BY <3>1, <4>2, <4>3 DEF Local
      <4> QED BY <2>6, <2>7, <4>4
    <3> QED BY <2>8, <3>2, <3>3, <3>4
  <2> HIDE DEF m
  <2>11. LocalOK'
    BY <1>2, <2>4, <2>6, <2>7, <2>8, <2>10, OneRunLocal
  <2>12. OrderOK'
    BY <1>2, <2>4, <2>6, OwnOrder
  <2>13. Goes(job'[s], job[s])
    BY <1>3, <2>2, <2>3 DEF Goes, Early, Late
  <2>14. \A x \in Members : entered'[x] # NoRun => entered'[x] \in launched
    BY <1>2 DEF SInv, RunsOK
  <2>15. KnownOK' /\ ViewsOK' /\ RunsOK'
    BY <1>2, <2>4, <2>6, <2>13, <2>14, OwnRest
  <2>16. KindsOK'
    <3>1. g \in Handlers /\ job[s].phase # "failed"
      BY <1>3, <2>2 DEF Like
    <3> QED BY <1>1, <2>1, <2>2, <2>3, <3>1, OwnKinds
  <2> QED BY <1>1, <2>11, <2>12, <2>15, <2>16 DEF SInv
<1> QED BY <1>4, <1>5

\* A commit is refused.
LEMMA RefusedSInv ==
    ASSUME SInv, NEW s \in Members, Commit(s), ~ MayCommit(Head(job[s].todo))
    PROVE  SInv'
<1> DEFINE h == job[s]
           f == Phase(h, "rollback")
           k == Len(h.all) + 1 - Len(h.todo)
           t == SubSeq(h.all, 1, k)
           g == [f EXCEPT !.todo = t]
<1>1. DInv' /\ At(s, "commit") /\ DInv
  BY CommitKept DEF SInv, Commit
<1>2. /\ job' = [job EXCEPT ![s] = g] /\ inbox' = inbox
      /\ UNCHANGED <<party, view, page, origin, unsettled, runtime, entered, launched, strayed, runs>>
  BY DEF Commit, towns
<1>3. h \in Handlers /\ h.phase = "commit" /\ h.all \in Seq(Members) /\ HandlerOK(h, s, runs)
  BY <1>1, AtParts, HandlerParts
<1>4. k \in 0 .. Len(h.all)
  <2>1. Len(h.todo) \in 1 .. Len(h.all) + 1 /\ Len(h.all) \in Nat
    BY <1>3, CommitParts
  <2> QED BY <2>1, CountParts
<1>5. t \in Seq(Members)
  <2> DEFINE a == h.all
  <2>1. a \in Seq(Members) /\ k \in 0 .. Len(a) /\ t = SubSeq(a, 1, k)
    BY <1>3, <1>4
  <2> HIDE DEF a, k, t
  <2> QED BY <2>1
<1>6. "rollback" \in Phases
  BY DEF Phases
<1>7. Like(f, h) /\ ~ f.waiting /\ f.phase = "rollback"
  BY <1>3, <1>6, SamePhase
<1> HIDE DEF f, t
<1>8. Like(g, f) /\ g.phase = "rollback" /\ ~ g.waiting
  BY <1>5, <1>7, SameTodo DEF Like, Handlers
<1>9. Like(g, h)
  BY <1>7, <1>8 DEF Like
<1> HIDE DEF g
<1>10. \A m \in Members : Names(s, m) => Stage(g, m) \in {0, Stage(job[s], m)}
  BY <1>8, StageGivenUp
<1>11. Goes(g, h)
  BY <1>3, <1>8, <1>9 DEF Goes, Early, Late
<1> QED BY <1>1, <1>2, <1>8, <1>9, <1>10, <1>11, OwnQuiet

\* A follower is committed: whoever else names it has not committed it, and no
\* entry of another run is under way, for its run would be active.
LEMMA FollowerSInv ==
    ASSUME SInv, NEW s \in Members, Commit(s), MayCommit(Head(job[s].todo)), Head(job[s].todo) # s
    PROVE  SInv'
<1> DEFINE h == job[s]
           m == Head(h.todo)
           g == Visited(h)
<1>1. DInv' /\ At(s, "commit") /\ DInv
  BY CommitKept DEF SInv, Commit
<1>2. /\ job' = [job EXCEPT ![s] = g] /\ inbox' = inbox /\ runtime' = [runtime EXCEPT ![m] = Run(h.run)]
      /\ UNCHANGED <<party, view, page, origin, unsettled, entered, launched, strayed, runs>>
  BY DEF Commit, towns
<1>3. h \in Handlers /\ h.phase = "commit" /\ HandlerOK(h, s, runs) /\ Selects(h) /\ h.run \in 1 .. runs
  BY <1>1, AtParts, SelectAt DEF Selects, HandlerOK
<1>4. h.todo # <<>> /\ m \in Members /\ h.todo \in Seq(Members)
  BY <1>3, CommitParts, HandlerParts
<1>5. Like(g, h) /\ ~ g.waiting /\ g.phase = "commit" /\ g.todo = Tail(h.todo)
  BY <1>3, <1>4, SameVisited
<1> HIDE DEF g
<1>6. job'[s] = g /\ \A x \in Members : x # s => job'[x] = job[x]
  BY <1>1, <1>2 DEF DInv, Types
<1>7. OwnTurn(s)
  BY <1>5, <1>6 DEF OwnTurn
<1>8. /\ \A x \in Members : x # m => Stage(g, x) = Stage(h, x)
      /\ Stage(h, m) = 2 /\ Stage(g, m) \in {2, 3}
  BY <1>3, <1>4, <1>5, ContainsTail, StagePhases
<1>9. /\ \A x \in Members : x # m => runtime'[x] = runtime[x]
      /\ runtime'[m] = Run(h.run)
  BY <1>1, <1>2, <1>4 DEF DInv, Types, WorldTypes
<1>10. ASSUME NEW n \in Nat PROVE runtime[m] # Run(n)
  <2>1. Run(n).over = FALSE /\ Run(n) \in Runtimes
    BY DEF Run, Runtimes
  <2>2. Run(n) # NoRun
    BY <2>1, DungeonAssumption
  <2> QED BY <2>1, <2>2 DEF MayCommit
<1>11. runs \in Nat /\ launched \subseteq 1 .. runs /\ h.run \in Nat /\ NoRun \notin Nat
  BY <1>1, <1>3, DungeonAssumption DEF DInv, Types, WorldTypes, SInv, RunsOK
<1>12. IsEntry(job[m]) => runtime[m] # Run(job[m].run)
  <2>1. IsEntry(job[m]) => job[m].run \in 1 .. runs
    BY <1>4, <1>11 DEF SInv, RunsOK
  <2> QED BY <1>10, <1>11, <2>1
<1>13. ASSUME NEW r \in Members, Names(r, m), m \notin strayed
       PROVE  Local(Stage(job'[r], m), job[r].run, origin[m], unsettled[m], runtime'[m], entered[m], job[m])
  <2>1. Local(Stage(job[r], m), job[r].run, origin[m], unsettled[m], runtime[m], entered[m], job[m])
    BY <1>4, <1>13 DEF SInv, LocalOK
  <2>2. runtime[m] # Run(job[r].run)
    <3>1. job[r].run \in 1 .. runs
      BY <1>1, <1>13 DEF Names, Selects, DInv, HandlersOK, HandlerOK
    <3> QED BY <1>10, <1>11, <3>1
  <2>3. CASE r # s
    <3>1. Local(Stage(job[r], m), job[r].run, origin[m], unsettled[m], runtime'[m], entered[m], job[m])
      BY <1>12, <2>1, <2>2 DEF Local
    <3> QED BY <1>6, <2>3, <3>1
  <2>4. CASE r = s
    <3>2. Local(Stage(h, m), h.run, origin[m], unsettled[m], runtime[m], entered[m], job[m])
      BY <2>1, <2>4
    <3>3. Stage(h, m) = 2 /\ Stage(g, m) \in {2, 3} /\ runtime'[m] = Run(h.run)
      BY <1>8, <1>9
    <3> HIDE DEF h, m
    <3>4. Local(Stage(g, m), h.run, origin[m], unsettled[m], runtime'[m], entered[m], job[m])
      BY <1>12, <3>2, <3>3 DEF Local
    <3> QED BY <1>6, <2>4, <3>4 DEF h
  <2> QED BY <2>3, <2>4
<1>14. \A r, x \in Members : Names(r, x) /\ x # m => Stage(job'[r], x) = Stage(job[r], x)
  BY <1>6, <1>8
<1>15. ASSUME NEW x \in Members
       PROVE  /\ Stage(job'[s], x) >= 1 => Stage(job[s], x) >= 1
              /\ Stage(job'[s], x) >= 4 => Stage(job[s], x) >= 4
  <2>1. CASE x = m
    BY <1>6, <1>8, <2>1
  <2>2. CASE x # m
    BY <1>6, <1>8, <2>2
  <2> QED BY <2>1, <2>2
<1> HIDE DEF m
<1>16. LocalOK'
  BY <1>2, <1>4, <1>7, <1>9, <1>13, <1>14, OneRunLocal
<1>17. OrderOK'
  BY <1>2, <1>7, <1>15, OwnOrder
<1>18. Goes(job'[s], job[s])
  BY <1>3, <1>5, <1>6 DEF Goes, Early, Late
<1>19. \A x \in Members : entered'[x] # NoRun => entered'[x] \in launched
  BY <1>2 DEF SInv, RunsOK
<1>20. KnownOK' /\ ViewsOK' /\ RunsOK'
  BY <1>2, <1>7, <1>15, <1>18, <1>19, OwnRest
<1>21. KindsOK'
  <2>1. g \in Handlers /\ job[s].phase # "failed"
    BY <1>3, <1>5 DEF Like
  <2> QED BY <1>1, <1>2, <1>5, <1>6, <2>1, OwnKinds
<1> QED BY <1>1, <1>16, <1>17, <1>20, <1>21 DEF SInv

\* The commits have come to the leader: everybody else is past.
LEMMA LastCommit ==
    ASSUME NEW s \in Members, NEW n, NEW h \in Handlers, HandlerOK(h, s, n), h.phase = "commit",
           Head(h.todo) = s, ~ Contains(h.all, s), NEW x, x # s
    PROVE  ~ Contains(h.todo, x)
<1> DEFINE a == h.all
           t == h.todo
           k == Len(a) + 2 - Len(t)
<1>1. a \in Seq(Members) /\ t \in Seq(Members)
  BY HandlerParts
<1>2. Len(t) \in 1 .. Len(a) + 1 /\ \A i \in 1 .. Len(t) : t[i] = Append(a, s)[Len(a) + 1 - Len(t) + i]
  BY DEF HandlerOK
<1>3. Head(t) = s /\ ~ Contains(a, s)
  OBVIOUS
<1> HIDE DEF a, t
<1>4. Len(a) \in Nat /\ Len(t) \in Nat
  BY <1>1
<1>5. t # <<>>
  BY <1>2
<1>6. Head(t) = t[1]
  BY <1>1, <1>5, TailParts
<1>7. s = Append(a, s)[k]
  <2>1. 1 \in 1 .. Len(t) /\ Len(a) + 1 - Len(t) + 1 = k
    BY <1>2, <1>4
  <2> QED BY <1>2, <1>3, <1>6, <2>1
<1>8. k \in 1 .. Len(a) + 1
  BY <1>2, <1>4
<1>9. \A i \in 1 .. Len(a) : Append(a, s)[i] = a[i] /\ a[i] # s
  BY <1>1, <1>3 DEF Contains
<1>10. k = Len(a) + 1
  BY <1>4, <1>7, <1>8, <1>9
<1>11. Len(t) = 1
  <2>1. \A i, j \in Nat : i + 2 - j = i + 1 => j = 1
    OBVIOUS
  <2> HIDE DEF k
  <2>2. Len(a) + 2 - Len(t) = Len(a) + 1
    BY <1>10 DEF k
  <2> QED BY ONLY <1>4, <2>1, <2>2
<1>12. \A i \in 1 .. Len(t) : t[i] = s
  BY <1>3, <1>6, <1>11
<1>13. ~ Contains(t, x)
  BY <1>12 DEF Contains
<1> QED BY <1>13 DEF t

\* The leader's own commit: the run is launched.
LEMMA LeaderSInv ==
    ASSUME SInv, NEW s \in Members, Commit(s), MayCommit(Head(job[s].todo)), Head(job[s].todo) = s
    PROVE  SInv'
<1> DEFINE h == job[s]
           g == Phase(h, "announce")
<1>1. DInv' /\ At(s, "commit") /\ DInv
  BY CommitKept DEF SInv, Commit
<1>2. /\ job' = [job EXCEPT ![s] = g] /\ inbox' = inbox /\ runtime' = [runtime EXCEPT ![s] = Run(h.run)]
      /\ UNCHANGED <<party, view, page, origin, unsettled, entered, strayed, runs>>
      /\ launched' = launched \cup {h.run}
  BY DEF Commit, Goto, towns
<1>3. h \in Handlers /\ h.phase = "commit" /\ HandlerOK(h, s, runs) /\ Selects(h) /\ h.run \in 1 .. runs
  BY <1>1, AtParts, SelectAt DEF Selects, HandlerOK
<1>4. "announce" \in Phases
  BY DEF Phases
<1>5. Like(g, h) /\ ~ g.waiting /\ g.phase = "announce"
  BY <1>3, <1>4, SamePhase
<1> HIDE DEF g
<1>6. job'[s] = g /\ \A x \in Members : x # s => job'[x] = job[x]
  BY <1>1, <1>2 DEF DInv, Types
<1>7. OwnTurn(s)
  BY <1>5, <1>6 DEF OwnTurn
<1>8. ~ Contains(h.all, s)
  BY <1>3 DEF SInv, ViewsOK, Names
<1>9. \A x \in Members : Names(s, x) => Stage(job'[s], x) = Stage(job[s], x)
  <2>1. ASSUME NEW x \in Members, Names(s, x) PROVE ~ Contains(h.todo, x)
    <3>1. x # s
      BY <2>1 DEF SInv, ViewsOK
    <3> QED BY <1>3, <1>8, <3>1, LastCommit
  <2> QED BY <1>3, <1>5, <1>6, <2>1, StagePhases
<1>10. \A m \in Members : m # s => /\ unsettled'[m] = unsettled[m] /\ runtime'[m] = runtime[m]
                                    /\ entered'[m] = entered[m]
  BY <1>1, <1>2 DEF DInv, Types, WorldTypes
<1>11. LocalOK' /\ OrderOK'
  BY <1>2, <1>3, <1>7, <1>9, <1>10, OwnWorld
<1>12. KnownOK' /\ ViewsOK'
  BY <1>2, <1>7, <1>9, OwnViews
<1>13. RunsOK'
  <2>1. RunsOK
    BY DEF SInv
  <2>2. launched' \subseteq 1 .. runs'
    BY <1>2, <1>3, <2>1 DEF RunsOK
  <2>3. \A r \in Members : /\ Selects(job'[r]) <=> Selects(job[r])
                           /\ IsEntry(job'[r]) <=> IsEntry(job[r])
                           /\ IsEntry(job[r]) => job'[r] = job[r]
    BY <1>7, OwnNames
  <2>4. job'[s].run = h.run /\ job'[s].all = h.all /\ job'[s].phase = "announce"
    BY <1>5, <1>6 DEF Like
  <2>5. \A x, r \in Members : Selects(job'[x]) /\ Selects(job'[r]) /\ x # r => job'[x].run # job'[r].run
    <3>1. \A x \in Members : Selects(job'[x]) => Selects(job[x]) /\ job'[x].run = job[x].run
      BY <1>6, <2>3, <2>4
    <3> QED BY <2>1, <3>1 DEF RunsOK
  <2>6. ASSUME NEW x \in Members, Selects(job'[x])
        PROVE  /\ job'[x].phase # "sync" /\ Distinct(job'[x].all)
               /\ job'[x].phase = "enter" => Visits(job'[x])
               /\ job'[x].phase \in {"announce", "enter", "done"} => job'[x].run \in launched'
               /\ job'[x].phase \in {"check", "preflight", "commit", "rollback"} => job'[x].run \notin launched'
    <3>1. CASE x = s
      BY <1>2, <1>3, <2>1, <2>4, <3>1 DEF RunsOK
    <3>2. CASE x # s
      <4>1. Selects(job[x]) /\ job'[x] = job[x] /\ job[x].run # h.run
        BY <1>3, <1>6, <2>1, <2>6, <3>2 DEF RunsOK
      <4> QED BY <1>2, <2>1, <4>1 DEF RunsOK
    <3> QED BY <3>1, <3>2
  <2>7. \A m \in Members : /\ entered'[m] # NoRun => entered'[m] \in launched'
                           /\ IsEntry(job'[m]) => job'[m].run \in launched'
    BY <1>2, <2>1, <2>3 DEF RunsOK
  <2>8. \A x \in Members : Visits(job[x])' <=> Visits(job'[x])
    BY DEF Visits
  <2> QED BY <2>2, <2>5, <2>6, <2>7, <2>8 DEF RunsOK
<1>14. KindsOK'
  <2>1. g \in Handlers /\ job[s].phase # "failed"
    BY <1>3, <1>5 DEF Like
  <2> QED BY <1>1, <1>2, <1>5, <1>6, <2>1, OwnKinds
<1> QED BY <1>1, <1>11, <1>12, <1>13, <1>14 DEF SInv

\* commitRuntimePartyPreparedFollowers, then the leader's own commit
LEMMA CommitSInv ==
    ASSUME SInv, NEW s \in Members, Commit(s)
    PROVE  SInv'
BY RefusedSInv, FollowerSInv, LeaderSInv

-----------------------------------------------------------------------------
(* Calls and their answers *)

\* Who has been visited is not visited again.
LEMMA DistinctTail ==
    ASSUME NEW S, NEW q \in Seq(S), q # <<>>, Distinct(q)
    PROVE  Distinct(Tail(q)) /\ ~ Contains(Tail(q), Head(q))
<1>1. /\ Tail(q) \in Seq(S) /\ Len(q) \in Nat /\ Len(q) >= 1 /\ Len(Tail(q)) = Len(q) - 1
      /\ \A i \in 1 .. Len(q) - 1 : Tail(q)[i] = q[i + 1]
      /\ Head(q) = q[1]
  BY TailParts
<1>2. \A i \in 1 .. Len(Tail(q)) : i + 1 \in 1 .. Len(q) /\ Tail(q)[i] = q[i + 1] /\ i + 1 # 1 /\ i \in Nat
  BY <1>1
<1>3. ASSUME NEW i \in 1 .. Len(Tail(q)), NEW j \in 1 .. Len(Tail(q)), Tail(q)[i] = Tail(q)[j]
      PROVE  i = j
  <2>1. i + 1 = j + 1
    BY <1>2, <1>3 DEF Distinct
  <2> QED BY <1>2, <2>1
<1>4. ASSUME NEW i \in 1 .. Len(Tail(q)), Tail(q)[i] = Head(q) PROVE FALSE
  <2>1. 1 \in 1 .. Len(q) /\ i + 1 \in 1 .. Len(q) /\ q[i + 1] = q[1] /\ i + 1 # 1
    BY <1>1, <1>2, <1>4
  <2> QED BY <2>1 DEF Distinct
<1> QED BY <1>3, <1>4 DEF Distinct, Contains

\* A selection that was answered is one stage further with who answered.
LEMMA BackStage ==
    ASSUME SInv, NEW s \in Members, Selects(job[s]), Waits(s), NEW g, Like(g, job[s]),
           g.phase = job[s].phase, g.todo = Tail(job[s].todo), ~ g.waiting
    PROVE  /\ Goes(g, job[s]) /\ job[s].phase \in {"preflight", "enter"} /\ job[s].todo # <<>>
           /\ \A m \in Members :
                /\ m # Head(job[s].todo) => Stage(g, m) = Stage(job[s], m)
                /\ m = Head(job[s].todo) =>
                     /\ job[s].phase = "preflight" => Stage(job[s], m) = 1 /\ Stage(g, m) \in {1, 2}
                     /\ job[s].phase = "enter" => Stage(job[s], m) = 4 /\ Stage(g, m) = 5
<1> DEFINE h == job[s]
<1>1. DInv /\ h \in Handlers /\ h.waiting /\ h.phase \in {"sync", "preflight", "enter"} /\ h.todo # <<>>
  BY DEF SInv, Waits, DInv, CallsOK, AnsweredOK, CalledOK
<1>2. h.phase \in {"preflight", "enter"}
  BY <1>1 DEF SInv, RunsOK
<1>3. h.todo \in Seq(Members)
  BY <1>1, HandlerParts
<1>4. g.all = h.all
  BY DEF Like
<1>5. h.phase = "enter" => Visits(h)
  BY DEF SInv, RunsOK
<1>6. h.phase = "enter" => Visits(g) /\ ~ Contains(g.todo, Head(h.todo))
  <2> SUFFICES ASSUME h.phase = "enter" PROVE Visits(g) /\ ~ Contains(g.todo, Head(h.todo))
    OBVIOUS
  <2>1. Distinct(h.todo)
    BY <1>5 DEF Visits
  <2>2. Distinct(Tail(h.todo)) /\ ~ Contains(Tail(h.todo), Head(h.todo))
    BY <1>1, <1>3, <2>1, DistinctTail
  <2>3. \A m \in Members : Contains(Tail(h.todo), m) => Contains(h.todo, m)
    BY <1>1, <1>3, ContainsTail
  <2> QED BY <1>4, <1>5, <2>2, <2>3 DEF Visits
<1>7. Goes(g, h)
  BY <1>2, <1>6 DEF Goes, Early, Late
<1>8. ASSUME NEW m \in Members, m # Head(h.todo) PROVE Stage(g, m) = Stage(h, m)
  <2>1. Contains(g.todo, m) <=> Contains(h.todo, m)
    BY <1>1, <1>3, <1>8, ContainsTail
  <2> QED BY <1>2, <1>8, <2>1, StagePhases
<1>9. ASSUME NEW m \in Members, m = Head(h.todo)
      PROVE  /\ h.phase = "preflight" => Stage(h, m) = 1 /\ Stage(g, m) \in {1, 2}
             /\ h.phase = "enter" => Stage(h, m) = 4 /\ Stage(g, m) = 5
  <2>1. Contains(h.todo, m)
    BY <1>1, <1>3, <1>9, ContainsTail
  <2> QED BY <1>1, <1>6, <1>9, <2>1, StagePhases
<1> QED BY <1>1, <1>2, <1>7, <1>8, <1>9

\* A handler gets back from its call, with or without success.
Back(x) ==
    /\ Waits(x) /\ Like(job'[x], job[x]) /\ ~ job'[x].waiting
    /\ \/ job'[x].phase \in {"blocked", "failed"}
       \/ job'[x].phase = job[x].phase /\ job'[x].todo = Tail(job[x].todo)

\* The execution of a call, which may have been given up.
Executes(x) ==
    /\ job[x] \in Serves /\ job'[x] \in Serves
    /\ job'[x].from = job[x].from /\ job'[x].kind = job[x].kind /\ job'[x].run = job[x].run
    /\ \/ job'[x].live = job[x].live
       \/ ~ job'[x].live /\ job'[job[x].from].phase = "failed"
       \/ ~ job'[x].live /\ ~ IsEntry(job[x])

\* What happens to a loop when calls end.
Turns(x) ==
    \/ job'[x] = job[x]
    \/ job[x] \in Serves /\ job'[x] = Idle
    \/ Executes(x)
    \/ Back(x)

\* Then the handlers are the same, perhaps further with who was called.
LEMMA TurnsParts ==
    ASSUME SInv, NEW x \in Members, Turns(x)
    PROVE  /\ job'[x] \in Handlers => Like(job'[x], job[x])
           /\ Selects(job'[x]) => Selects(job[x]) /\ Goes(job'[x], job[x])
           /\ IsEntry(job'[x]) => IsEntry(job[x]) /\ job'[x].run = job[x].run
           /\ \A m \in Members : Names(x, m)' =>
                /\ Names(x, m)
                /\ \/ Stage(job'[x], m) \in {0, Stage(job[x], m)}
                   \/ /\ Waits(x) /\ m = Head(job[x].todo)
                      /\ job'[x].phase = job[x].phase /\ job'[x].todo = Tail(job[x].todo)
                      /\ \/ /\ job[x].phase = "preflight" /\ Stage(job[x], m) = 1
                            /\ Stage(job'[x], m) = 2
                         \/ /\ job[x].phase = "enter" /\ Stage(job[x], m) = 4
                            /\ Stage(job'[x], m) = 5
<1>1. CASE job'[x] = job[x]
  <2>1. /\ job'[x] \in Handlers => Like(job'[x], job[x])
        /\ \A m \in Members : Names(x, m)' => Names(x, m)
    BY <1>1 DEF Like, Names
  <2>2. Selects(job'[x]) => Goes(job'[x], job[x])
    BY <1>1, GoesSelf
  <2> QED BY <1>1, <2>1, <2>2
<1>2. CASE job'[x] \notin Handlers
  <2>1. IsEntry(job'[x]) => IsEntry(job[x]) /\ job'[x].run = job[x].run
    <3>1. Idle \notin Serves
      BY DungeonAssumption
    <3>2. CASE Executes(x)
      BY <3>2 DEF Executes, IsEntry
    <3>3. CASE Back(x)
      BY <1>2, <3>3 DEF Back, Like
    <3> QED BY <3>1, <3>2, <3>3 DEF Turns, IsEntry
  <2> QED BY <1>2, <2>1 DEF Names, Selects
<1>3. CASE job'[x] \in Handlers /\ job'[x] # job[x]
  <2>1. Back(x)
    BY <1>3, HandlerParts, DungeonAssumption DEF Turns, Executes
  <2>2. Like(job'[x], job[x]) /\ ~ job'[x].waiting /\ Waits(x) /\ (Selects(job'[x]) => Selects(job[x]))
    BY <2>1 DEF Back, Like, Selects
  <2>3. ~ IsEntry(job'[x])
    BY <1>3, HandlerParts DEF IsEntry
  <2>4. \A m \in Members : Names(x, m)' => Names(x, m)
    BY <2>2 DEF Names, Like
  <2>5. CASE job'[x].phase \in {"blocked", "failed"}
    <3>1. Goes(job'[x], job[x])
      BY <2>2, <2>5 DEF Goes, Early, Late
    <3>2. \A m \in Members : Stage(job'[x], m) = 0
      BY <2>5, StageGivenUp
    <3> QED BY <2>2, <2>3, <2>4, <3>1, <3>2
  <2>6. CASE job'[x].phase = job[x].phase /\ job'[x].todo = Tail(job[x].todo)
    <3>1. CASE ~ Selects(job'[x])
      BY <2>2, <2>3, <3>1 DEF Names
    <3>2. CASE Selects(job'[x])
      <4>1. /\ Goes(job'[x], job[x]) /\ job[x].phase \in {"preflight", "enter"}
            /\ \A m \in Members :
                /\ m # Head(job[x].todo) => Stage(job'[x], m) = Stage(job[x], m)
                /\ m = Head(job[x].todo) =>
                     /\ job[x].phase = "preflight" => Stage(job[x], m) = 1 /\ Stage(job'[x], m) \in {1, 2}
                     /\ job[x].phase = "enter" => Stage(job[x], m) = 4 /\ Stage(job'[x], m) = 5
        BY <2>2, <2>6, <3>2, BackStage
      <4>2. ASSUME NEW m \in Members, Names(x, m)'
            PROVE  \/ Stage(job'[x], m) \in {0, Stage(job[x], m)}
                   \/ /\ Waits(x) /\ m = Head(job[x].todo)
                      /\ job'[x].phase = job[x].phase /\ job'[x].todo = Tail(job[x].todo)
                      /\ \/ /\ job[x].phase = "preflight" /\ Stage(job[x], m) = 1
                            /\ Stage(job'[x], m) = 2
                         \/ /\ job[x].phase = "enter" /\ Stage(job[x], m) = 4
                            /\ Stage(job'[x], m) = 5
        BY <2>2, <2>6, <4>1
      <4> QED BY <2>2, <2>3, <2>4, <4>1, <4>2
    <3> QED BY <3>1, <3>2
  <2> QED BY <2>1, <2>5, <2>6 DEF Back
<1> QED BY <1>1, <1>2, <1>3

\* When calls end everything stays but what is relied on.
LEMMA TurnsRest ==
    ASSUME SInv, DInv', \A x \in Members : Turns(x), PartyMoves,
           UNCHANGED <<view, launched, runs, strayed>>,
           \A m \in Members : entered'[m] # NoRun => entered'[m] \in launched,
           \A m \in Members : \A i \in 1 .. Len(inbox'[m]) :
              \E k \in 1 .. Len(inbox[m]) : inbox'[m][i] = inbox[m][k]
    PROVE  OrderOK' /\ KnownOK' /\ ViewsOK' /\ RunsOK' /\ KindsOK'
<1>1. ASSUME NEW x \in Members
      PROVE  /\ job'[x] \in Handlers => Like(job'[x], job[x])
             /\ Selects(job'[x]) => Selects(job[x]) /\ Goes(job'[x], job[x])
             /\ IsEntry(job'[x]) => IsEntry(job[x]) /\ job'[x].run = job[x].run
  BY TurnsParts
<1>2. ASSUME NEW x \in Members, NEW m \in Members, Names(x, m)'
      PROVE  /\ Names(x, m) /\ Like(job'[x], job[x])
             /\ Stage(job'[x], m) >= 1 => Stage(job[x], m) >= 1
             /\ Stage(job'[x], m) >= 4 => Stage(job[x], m) >= 4
  <2>1. Like(job'[x], job[x])
    BY <1>1, <1>2 DEF Names, Selects
  <2>2. /\ Names(x, m)
        /\ \/ Stage(job'[x], m) \in {0, Stage(job[x], m)}
           \/ Stage(job[x], m) = 1 /\ Stage(job'[x], m) = 2
           \/ Stage(job[x], m) = 4 /\ Stage(job'[x], m) = 5
    BY <1>2, TurnsParts
  <2>3. CASE Stage(job'[x], m) \in {0, Stage(job[x], m)}
    BY <2>1, <2>2, <2>3
  <2>4. CASE Stage(job[x], m) = 1 /\ Stage(job'[x], m) = 2
    BY <2>1, <2>2, <2>4
  <2>5. CASE Stage(job[x], m) = 4 /\ Stage(job'[x], m) = 5
    BY <2>1, <2>2, <2>5
  <2> QED BY <2>2, <2>3, <2>4, <2>5
<1>3. OrderOK'
  BY <1>2, OrderKept
<1>4. KnownOK'
  <2>1. \A m \in Members : view'[m] \in {view[m], party, NoParty}
    OBVIOUS
  <2> QED BY <1>1, <2>1, KnownFrom
<1>5. ViewsOK'
  <2>1. \A m \in Members : view'[m] \in {view[m], party, NoParty}
    OBVIOUS
  <2> QED BY <1>2, <2>1, ViewsKept
<1>6. RunsOK'
  <2>1. \A m \in Members : IsEntry(job'[m]) => job'[m].run \in launched
    BY <1>1 DEF SInv, RunsOK
  <2> QED BY <1>1, <2>1, RunsKeep
<1>7. KindsOK'
  <2>1. \A x \in Members : Waits(x)' => job'[x] = job[x]
    <3> SUFFICES ASSUME NEW x \in Members, job'[x] \in Handlers, job'[x].waiting PROVE job'[x] = job[x]
      BY DEF Waits
    <3>1. Turns(x)
      OBVIOUS
    <3> QED BY <3>1, HandlerParts, DungeonAssumption DEF Turns, Executes, Back
  <2>2. \A m \in Members : job'[m] \in Serves =>
              /\ job[m] \in Serves /\ job'[m].from = job[m].from /\ job'[m].kind = job[m].kind
              /\ job'[m].run = job[m].run
              /\ \/ job'[m].live = job[m].live
                 \/ ~ job'[m].live /\ job'[job[m].from].phase = "failed"
                 \/ ~ job'[m].live /\ ~ IsEntry(job[m])
    <3> SUFFICES ASSUME NEW m \in Members, job'[m] \in Serves PROVE job'[m] = job[m] \/ Executes(m)
      BY DEF Executes
    <3>1. Turns(m)
      OBVIOUS
    <3> QED BY <3>1, ServeParts, DungeonAssumption DEF Turns, Back, Like
  <2>3. \A x \in Members : Selects(job'[x]) =>
           /\ Selects(job[x]) /\ job'[x].run = job[x].run
           /\ job[x].phase = "failed" => job'[x].phase = "failed"
    <3> SUFFICES ASSUME NEW x \in Members, Selects(job'[x])
                 PROVE  /\ Selects(job[x]) /\ job'[x].run = job[x].run
                        /\ job[x].phase = "failed" => job'[x].phase = "failed"
      OBVIOUS
    <3>1. Selects(job[x]) /\ job'[x].run = job[x].run
      BY <1>1 DEF Goes, Like
    <3>2. CASE job'[x] = job[x]
      BY <3>1, <3>2
    <3>3. CASE Waits(x)
      <4>1. job[x].phase # "failed"
        BY <3>3 DEF SInv, DInv, CallsOK, AnsweredOK
      <4> QED BY <3>1, <4>1
    <3>4. job'[x] \in Handlers /\ Turns(x)
      BY DEF Selects
    <3> QED BY <3>2, <3>3, <3>4, HandlerParts, DungeonAssumption DEF Turns, Executes, Back
  <2> QED BY <2>1, <2>2, <2>3, KindsKept
<1> QED BY <1>3, <1>4, <1>5, <1>6, <1>7

\* A loop does not keep a selection from relying on what it relied on.
LEMMA TurnsKeep ==
    ASSUME SInv, \A x \in Members : Turns(x), NEW s \in Members, NEW m \in Members,
           Names(s, m)', m \notin strayed, Stage(job'[s], m) = Stage(job[s], m),
           origin[m] => origin'[m], unsettled'[m] = unsettled[m],
           runtime'[m] = runtime[m], entered'[m] = entered[m]
    PROVE  Keeps(s, m)
<1>1. Names(s, m) /\ Like(job'[s], job[s])
  BY TurnsParts DEF Names, Selects
<1>2. /\ Selects(job'[m]) => Selects(job[m])
      /\ IsEntry(job'[m]) => IsEntry(job[m]) /\ job'[m].run = job[m].run
  BY TurnsParts
<1> QED BY <1>1, <1>2 DEF Keeps

\* Calls that end without an answer bring nobody further.
LEMMA CallsFail ==
    ASSUME SInv, DInv', PartyMoves,
           \A x \in Members : Turns(x) /\ (Back(x) => job'[x].phase \in {"blocked", "failed"}),
           UNCHANGED <<view, page, origin, unsettled, runtime, entered, launched, runs, strayed>>,
           \A m \in Members : \A i \in 1 .. Len(inbox'[m]) :
              \E k \in 1 .. Len(inbox[m]) : inbox'[m][i] = inbox[m][k]
    PROVE  SInv'
<1>1. \A m \in Members : entered'[m] # NoRun => entered'[m] \in launched
  BY DEF SInv, RunsOK
<1>2. OrderOK' /\ KnownOK' /\ ViewsOK' /\ RunsOK' /\ KindsOK'
  BY <1>1, TurnsRest
<1>3. ASSUME NEW s \in Members, NEW m \in Members, Names(s, m)', m \notin strayed'
      PROVE  Stage(job'[s], m) = 0 \/ Keeps(s, m)
  <2>1. CASE job'[s] = job[s]
    BY <1>3, <2>1, TurnsKeep
  <2>2. CASE Back(s)
    <3>1. job'[s].phase \in {"blocked", "failed"}
      BY <2>2
    <3> QED BY <3>1, StageGivenUp
  <2>3. job'[s] \in Handlers /\ Turns(s)
    BY <1>3 DEF Names, Selects
  <2> QED BY <2>1, <2>2, <2>3, HandlerParts, DungeonAssumption DEF Turns, Executes
<1>4. LocalOK'
  BY <1>3, PairsKept
<1> QED BY <1>2, <1>4 DEF SInv

\* What is left of a queue without a call.
LEMMA LessIsPart ==
    ASSUME NEW q \in Seq(Calls), OnePerCaller(q), NEW s, NEW I, Places(I, q, s), NEW p, p = Less(q, I)
    PROVE  \A k \in 1 .. Len(p) : \E i \in 1 .. Len(q) : p[k] = q[i]
<1>1. Len(q) \in Nat
  OBVIOUS
<1>2. I \in SUBSET (1 .. Len(q)) /\ (\A i, j \in I : i = j)
  BY DEF Places, OnePerCaller
<1>3. /\ p \in Seq(Calls) /\ (I = {} => p = q)
      /\ \A i \in I : /\ Len(p) = Len(q) - 1
                      /\ \A k \in 1 .. Len(q) - 1 : p[k] = IF k < i THEN q[k] ELSE q[k + 1]
  BY <1>2, LessFacts
<1>4. CASE I = {}
  BY <1>3, <1>4
<1>5. CASE I # {}
  <2>1. PICK d \in I : TRUE
    BY <1>5
  <2>2. Len(p) = Len(q) - 1 /\ \A k \in 1 .. Len(q) - 1 : p[k] = IF k < d THEN q[k] ELSE q[k + 1]
    BY <1>3, <2>1
  <2>3. \A k \in 1 .. Len(p) : k \in 1 .. Len(q) /\ k + 1 \in 1 .. Len(q) /\ (p[k] = q[k] \/ p[k] = q[k + 1])
    BY <1>1, <2>2
  <2> QED BY <2>3
<1> QED BY <1>4, <1>5

\* What an answer makes of a handler that waits.
LEMMA BackFrom ==
    ASSUME SInv, NEW x \in Members, Waits(x), NEW r, job'[x] = Resumed(job[x], r)
    PROVE  /\ Back(x)
           /\ r = "error" => job'[x].phase \in {"blocked", "failed"}
           /\ r = "error" /\ job[x].phase # "preflight" => job'[x].phase = "failed"
           /\ job[x].phase = "preflight" /\ r # "yes" => job'[x].phase \in {"blocked", "failed"}
<1>1. DInv /\ job[x] \in Handlers /\ job[x].todo # <<>>
  BY DEF SInv, Waits, DInv, CallsOK, AnsweredOK, CalledOK
<1>2. ~ job'[x].waiting
  BY <1>1, WaitsParts
<1>3. /\ Like(job'[x], job[x])
      /\ \/ job'[x].phase \in {"blocked", "failed"}
         \/ /\ r # "error" /\ (job[x].phase = "preflight" => r = "yes")
            /\ job'[x].phase = job[x].phase /\ job'[x].todo = Tail(job[x].todo)
      /\ r = "error" => job'[x].phase \in {"blocked", "failed"}
      /\ r = "error" /\ job[x].phase # "preflight" => job'[x].phase = "failed"
  BY <1>1, SameResumed
<1> QED BY <1>2, <1>3 DEF Back

\* The deadline of a call
LEMMA TimeoutSInv ==
    ASSUME SInv, NEW s \in Members, Timeout(s)
    PROVE  SInv'
<1>1. DInv' /\ DInv /\ Waits(s)
  BY TimeoutKept, JobParts DEF SInv, Timeout, Waits
<1>2. UNCHANGED <<party, view, page, origin, unsettled, runtime, entered, launched, runs, strayed>>
  BY DEF Timeout, dungeons, towns
<1>3. \A m \in Members : inbox'[m] = Less(inbox[m], {i \in DOMAIN inbox[m] : inbox[m][i].from = s})
  BY DEF Timeout
<1>4. ASSUME NEW m \in Members
      PROVE  \A i \in 1 .. Len(inbox'[m]) : \E k \in 1 .. Len(inbox[m]) : inbox'[m][i] = inbox[m][k]
  <2> DEFINE q == inbox[m]
             I == {i \in DOMAIN q : q[i].from = s}
  <2>1. q \in Seq(Calls) /\ OnePerCaller(q)
    BY <1>1 DEF DInv, Types, CallsOK, OncePerLoop, OnePerCaller
  <2>2. inbox'[m] = Less(q, I)
    BY <1>3
  <2>3. Places(I, q, s)
    BY <2>1 DEF Places
  <2> HIDE DEF q, I
  <2>4. \A i \in 1 .. Len(inbox'[m]) : \E k \in 1 .. Len(q) : inbox'[m][i] = q[k]
    BY ONLY <2>1, <2>2, <2>3, LessIsPart
  <2> QED BY <2>4 DEF q
<1>5. job' = [m \in Members |->
                 IF m = s THEN Resumed(job[s], "error")
                 ELSE IF ~Free(m) /\ job[m].op = "serve" /\ job[m].from = s
                 THEN [job[m] EXCEPT !.live = FALSE]
                 ELSE job[m]]
  BY DEF Timeout
<1>6. /\ Back(s) /\ job'[s].phase \in {"blocked", "failed"}
      /\ job[s].phase # "preflight" => job'[s].phase = "failed"
  <2>1. job'[s] = Resumed(job[s], "error")
    BY <1>5
  <2> QED BY <1>1, <2>1, BackFrom
<1>7. ASSUME NEW m \in Members, m # s PROVE job'[m] = job[m] \/ Executes(m)
  <2>1. CASE ~Free(m) /\ job[m].op = "serve" /\ job[m].from = s
    <3>1. job'[m] = [job[m] EXCEPT !.live = FALSE] /\ job[m] \in Serves
      BY <1>1, <1>5, <1>7, <2>1, JobParts
    <3>2. /\ job'[m] \in Serves /\ job'[m].from = job[m].from /\ job'[m].kind = job[m].kind
          /\ job'[m].run = job[m].run /\ job'[m].live = FALSE
      BY <3>1 DEF Serves
    <3>3. CASE ~ job[m].live \/ ~ IsEntry(job[m])
      <4>1. job[m].live \in BOOLEAN
        BY <3>1, ServeParts
      <4> QED BY <3>1, <3>2, <3>3, <4>1 DEF Executes
    <3>4. CASE job[m].live /\ IsEntry(job[m])
      <4>1. Running(s, m)
        BY <2>1, <3>1, <3>4 DEF Running
      <4>2. job[s].phase = "enter"
        BY <3>4, <4>1 DEF SInv, KindsOK, IsEntry
      <4>3. job'[job[m].from].phase = "failed"
        BY <1>6, <2>1, <4>2
      <4> QED BY <3>1, <3>2, <4>3 DEF Executes
    <3> QED BY <3>3, <3>4
  <2>2. CASE ~ (~Free(m) /\ job[m].op = "serve" /\ job[m].from = s)
    BY <1>5, <1>7, <2>2
  <2> QED BY <2>1, <2>2
<1>8. ASSUME NEW x \in Members
      PROVE  Turns(x) /\ (Back(x) => job'[x].phase \in {"blocked", "failed"})
  <2>1. CASE x = s
    BY <1>6, <2>1 DEF Turns
  <2>2. CASE x # s
    <3>1. ~ Back(x)
      <4>1. CASE job'[x] = job[x]
        BY <4>1 DEF Back, Waits
      <4>2. CASE Executes(x)
        BY <4>2, ServeParts DEF Back, Waits, Executes
      <4> QED BY <1>7, <2>2, <4>1, <4>2
    <3> QED BY <1>7, <2>2, <3>1 DEF Turns
  <2> QED BY <2>1, <2>2
<1>9. PartyMoves
  BY <1>2 DEF PartyMoves
<1> QED BY <1>1, <1>2, <1>4, <1>8, <1>9, CallsFail

\* The connection ends and its loop rejects the calls that wait there.
LEMMA CloseSInv ==
    ASSUME SInv, NEW m \in Members, Close(m)
    PROVE  SInv'
<1>1. DInv' /\ DInv
  BY CloseKept DEF SInv
<1>2. UNCHANGED <<view, page, origin, unsettled, runtime, entered, launched, runs, strayed>>
  BY DEF Close, dungeons, towns
<1>3. PartyMoves
  BY DEF Close, PartyMoves
<1>4. inbox \in [Members -> Seq(Calls)]
  BY <1>1 DEF DInv, Types
<1>5. inbox'[m] = <<>> /\ \A x \in Members : x # m => inbox'[x] = inbox[x]
  BY <1>4 DEF Close
<1>6. ASSUME NEW x \in Members, NEW i \in 1 .. Len(inbox'[x])
      PROVE  \E k \in 1 .. Len(inbox[x]) : inbox'[x][i] = inbox[x][k]
  <2>1. CASE x = m
    BY <1>5, <1>6, <2>1
  <2>2. CASE x # m
    BY <1>5, <1>6, <2>2
  <2> QED BY <2>1, <2>2
<1>7. job' = [s \in Members |->
                 IF \E i \in DOMAIN inbox[m] : inbox[m][i].from = s
                 THEN Resumed(job[s], "error") ELSE job[s]]
  BY DEF Close
<1>8. \A s \in Members : Queued(s, m) <=> \E i \in DOMAIN inbox[m] : inbox[m][i].from = s
  BY <1>4 DEF Queued
<1>9. ASSUME NEW x \in Members
      PROVE  Turns(x) /\ (Back(x) => job'[x].phase \in {"blocked", "failed"})
  <2>1. CASE Queued(x, m)
    <3>1. Waits(x) /\ job'[x] = Resumed(job[x], "error")
      BY <1>1, <1>7, <1>8, <2>1 DEF DInv, CallsOK, CalledOK
    <3> QED BY <3>1, BackFrom DEF Turns
  <2>2. CASE ~ Queued(x, m)
    <3>1. job'[x] = job[x]
      BY <1>7, <1>8, <2>2
    <3> QED BY <3>1 DEF Turns, Back, Waits
  <2> QED BY <2>1, <2>2
<1> QED BY <1>1, <1>2, <1>3, <1>6, <1>9, CallsFail

\* An entry that is called is one its caller waits for.
LEMMA CallerStage ==
    ASSUME SInv, NEW f \in Members, NEW m \in Members, Queued(f, m) \/ Running(f, m),
           job[f].phase = "enter"
    PROVE  Names(f, m) /\ Stage(job[f], m) = 4 /\ job[f].run \in launched
<1> DEFINE h == job[f]
<1>1. DInv /\ h \in Handlers /\ h.waiting /\ h.todo # <<>> /\ m = Head(h.todo)
  BY CallerParts DEF SInv, Waits
<1>2. HandlerOK(h, f, runs)
  BY <1>1 DEF DInv, HandlersOK
<1>3. Selects(h)
  BY <1>1, <1>2 DEF HandlerOK, Selects
<1>4. Contains(h.todo, m)
  BY <1>1, HandlerParts, ContainsTail
<1>5. Visits(h) /\ h.run \in launched
  BY <1>3 DEF SInv, RunsOK
<1>6. Names(f, m)
  BY <1>3, <1>4, <1>5 DEF Names, Visits
<1>7. Stage(h, m) = 4
  BY <1>1, <1>4, StagePhases
<1> QED BY <1>5, <1>6, <1>7

\* The loop takes the next call: when that is an entry, no other selection has
\* entered m, or the two would each be later than the other.
LEMMA ServeSInv ==
    ASSUME SInv, NEW m \in Members, Serve(m)
    PROVE  SInv'
<1> DEFINE q == inbox[m]
           c == Head(q)
           f == c.from
           g == [op |-> "serve", from |-> f, kind |-> c.kind,
                 state |-> job[f].state, run |-> job[f].run, live |-> TRUE]
<1>1. DInv' /\ DInv /\ Free(m) /\ q # <<>>
  BY ServeKept DEF SInv, Serve
<1>2. /\ UNCHANGED <<party, view, page, origin, unsettled, runtime, entered, launched, strayed, runs>>
      /\ job' = [job EXCEPT ![m] = g] /\ inbox' = [inbox EXCEPT ![m] = Tail(q)]
  BY DEF Serve, dungeons, towns
<1>3. inbox \in [Members -> Seq(Calls)] /\ job \in [Members -> Jobs] /\ q \in Seq(Calls)
  BY <1>1 DEF DInv, Types
<1>4. /\ Tail(q) \in Seq(Calls) /\ Len(q) \in Nat /\ Len(q) >= 1 /\ Len(Tail(q)) = Len(q) - 1
      /\ \A i \in 1 .. Len(q) - 1 : Tail(q)[i] = q[i + 1]
      /\ c = q[1] /\ c \in Calls
  BY <1>1, <1>3, TailParts
<1>5. f \in Members /\ c.kind \in {"selector", "entry"} /\ 1 \in 1 .. Len(q)
  BY <1>4 DEF Calls
<1>6. Queued(f, m)
  BY <1>4, <1>5 DEF Queued
<1>7. Waits(f) /\ job[f] \in Handlers /\ f # m /\ job[m] \notin Handlers /\ job[m] \notin Serves
  BY <1>1, <1>6, CallerParts, JobParts, <1>5
<1>8. c.kind = "entry" <=> job[f].phase = "enter"
  <2>1. q[1].from = f /\ c = q[1]
    BY <1>4
  <2> QED BY <1>5, <2>1 DEF SInv, KindsOK
<1>9. g.from = f /\ g.kind = c.kind /\ g.run = job[f].run /\ g.live /\ g.op = "serve"
  OBVIOUS
<1>10. job'[m] = g /\ \A x \in Members : x # m => job'[x] = job[x]
  BY <1>2, <1>3
<1>11. inbox'[m] = Tail(q) /\ \A x \in Members : x # m => inbox'[x] = inbox[x]
  BY <1>2, <1>3
<1>12. g \in Serves
  <2>1. job[f].state \in Projections \cup {NoParty} /\ job[f].run \in Nat \cup {NoRun}
    BY <1>7, HandlerParts
  <2> QED BY <1>5, <2>1 DEF Serves
<1> HIDE DEF g
<1>13. g \notin Handlers
  BY <1>12, ServeParts
<1>14. /\ \A x \in Members : job'[x] \in Handlers => x # m /\ job'[x] = job[x] /\ Like(job'[x], job[x])
       /\ \A x \in Members : Selects(job'[x]) => x # m /\ job'[x] = job[x] /\ Selects(job[x])
       /\ \A x, y \in Members : Names(x, y)' => x # m /\ Names(x, y) /\ Like(job'[x], job[x]) /\ job'[x] = job[x]
  BY <1>10, <1>13 DEF Like, Selects, Names
<1>15. IsEntry(g) => /\ Names(f, m) /\ Stage(job[f], m) = 4 /\ job[f].run \in launched
  BY <1>5, <1>6, <1>8, <1>9, CallerStage DEF IsEntry
<1>16. ASSUME NEW r \in Members, Names(r, m), m \notin strayed, IsEntry(g), job[r].run # g.run
       PROVE  /\ runtime[m] = Run(g.run)
              /\ Stage(job[r], m) >= 2 => Stage(job[r], m) < 5
  <2>1. Names(f, m) /\ Stage(job[f], m) = 4 /\ f # r
    BY <1>9, <1>15, <1>16
  <2>2. Local(Stage(job[f], m), job[f].run, origin[m], unsettled[m], runtime[m], entered[m], job[m])
    BY <1>5, <1>16, <2>1 DEF SInv, LocalOK
  <2>3. runtime[m] = Run(g.run)
    BY <1>9, <2>1, <2>2 DEF Local
  <2>4. Stage(job[r], m) # 5
    <3> SUFFICES ASSUME Stage(job[r], m) = 5 PROVE FALSE
      OBVIOUS
    <3>1. Stage(job[r], m) >= 4 /\ Stage(job[r], m) >= 1 /\ Stage(job[f], m) >= 4 /\ Stage(job[f], m) >= 1
      BY <2>1
    <3>2. job[r].state.id < job[f].state.id /\ job[f].state.id < job[r].state.id
      BY <1>5, <1>16, <2>1, <3>1 DEF SInv, OrderOK
    <3>3. job[r] \in Handlers /\ job[r].state # NoParty /\ job[f].state # NoParty
      BY <1>5, <1>16, <2>1 DEF SInv, ViewsOK, Names, Selects
    <3>4. job[r].state.id \in Nat /\ job[f].state.id \in Nat
      BY <1>7, <3>3, HandlerParts DEF Projections
    <3> QED BY <3>2, <3>4
  <2> QED BY <2>3, <2>4, StageType
<1>17. LocalOK'
  <2>1. ASSUME NEW r \in Members, NEW x \in Members, Names(r, x)', x \notin strayed
        PROVE  Local(Stage(job'[r], x), job'[r].run, origin'[x], unsettled'[x], runtime'[x], entered'[x], job'[x])
    <3>1. r # m /\ Names(r, x) /\ Like(job'[r], job[r]) /\ job'[r] = job[r]
      BY <1>14, <2>1
    <3>2. CASE x # m
      <4>1. Keeps(r, x)
        BY <1>2, <1>10, <2>1, <3>1, <3>2 DEF Keeps
      <4> QED BY <4>1, KeepsLocal
    <3>3. CASE x = m
      <4>1. Local(Stage(job[r], m), job[r].run, origin[m], unsettled[m], runtime[m], entered[m], job[m])
        BY <2>1, <3>1, <3>3 DEF SInv, LocalOK
      <4>2. ~ Selects(g)
        BY <1>13 DEF Selects
      <4>3. IsEntry(g) /\ g.run # job[r].run =>
              /\ runtime[m] = Run(g.run)
              /\ Stage(job[r], m) >= 2 => Stage(job[r], m) < 5
        BY <1>16, <2>1, <3>1, <3>3
      <4>4. Local(Stage(job[r], m), job[r].run, origin[m], unsettled[m], runtime[m], entered[m], g)
        BY <4>1, <4>2, <4>3 DEF Local
      <4> QED BY <1>2, <1>10, <3>1, <3>3, <4>4
    <3> QED BY <3>2, <3>3
  <2> QED BY <1>2, <2>1 DEF LocalOK
<1>18. OrderOK'
  BY <1>2, <1>14, OrderKept
<1>19. KnownOK' /\ ViewsOK'
  <2>1. PartyMoves /\ \A x \in Members : view'[x] \in {view[x], party, NoParty}
    BY <1>2 DEF PartyMoves
  <2>2. KnownOK'
    BY <1>14, <2>1, KnownFrom
  <2>3. ViewsOK'
    BY <1>14, <2>1, ViewsKept
  <2> QED BY <2>2, <2>3
<1>20. RunsOK'
  <2>1. \A x \in Members : Selects(job'[x]) => Goes(job'[x], job[x])
    BY <1>14, GoesSelf
  <2>2. ASSUME NEW x \in Members, IsEntry(job'[x]) PROVE job'[x].run \in launched
    <3>1. CASE x = m
      BY <1>9, <1>10, <1>15, <2>2, <3>1
    <3>2. CASE x # m
      BY <1>10, <2>2, <3>2 DEF SInv, RunsOK
    <3> QED BY <3>1, <3>2
  <2>3. \A x \in Members : entered'[x] # NoRun => entered'[x] \in launched
    BY <1>2 DEF SInv, RunsOK
  <2> QED BY <1>2, <2>1, <2>2, <2>3, RunsKeep
<1>21. KindsOK'
  <2>1. KindsOK
    BY DEF SInv
  <2>2. \A x \in Members : ~ Queued(m, x) /\ ~ Running(m, x)
    BY <1>1, <1>7, CalmNotCalled DEF Waits
  <2>3. ASSUME NEW r \in Members, NEW x \in Members, NEW i \in 1 .. Len(inbox'[x]), inbox'[x][i].from = r
        PROVE  inbox'[x][i].kind = "entry" <=> job'[r].phase = "enter"
    <3>1. \E k \in 1 .. Len(inbox[x]) : inbox'[x][i] = inbox[x][k]
      <4>1. CASE x # m
        BY <1>11, <2>3, <4>1
      <4>2. CASE x = m
        <5>1. i \in 1 .. Len(q) - 1 /\ inbox'[x][i] = q[i + 1]
          BY <1>4, <1>11, <2>3, <4>2
        <5>2. i + 1 \in 1 .. Len(q)
          BY <1>4, <5>1
        <5> QED BY <4>2, <5>1, <5>2
      <4> QED BY <4>1, <4>2
    <3>2. PICK k \in 1 .. Len(inbox[x]) : inbox'[x][i] = inbox[x][k]
      BY <3>1
    <3>3. Queued(r, x)
      BY <2>3, <3>2 DEF Queued
    <3>4. job'[r] = job[r]
      BY <1>10, <2>2, <3>3
    <3>5. inbox[x][k].kind = "entry" <=> job[r].phase = "enter"
      BY <2>1, <2>3, <3>2 DEF KindsOK
    <3> QED BY <3>2, <3>4, <3>5
  <2>4. ASSUME NEW r \in Members, NEW x \in Members, Running(r, x)'
        PROVE  (job'[x].kind = "entry" <=> job'[r].phase = "enter") /\ job'[x].run = job'[r].run
    <3>1. CASE x = m
      <4>1. r = f
        BY <1>9, <1>10, <2>4, <3>1 DEF Running
      <4>2. job'[r] = job[f]
        BY <1>5, <1>7, <1>10, <4>1
      <4> QED BY <1>8, <1>9, <1>10, <3>1, <4>2
    <3>2. CASE x # m
      <4>1. Running(r, x) /\ job'[x] = job[x]
        BY <1>10, <2>4, <3>2 DEF Running
      <4>2. job'[r] = job[r]
        BY <1>10, <2>2, <4>1
      <4> QED BY <2>1, <4>1, <4>2 DEF KindsOK
    <3> QED BY <3>1, <3>2
  <2>5. ASSUME NEW r \in Members, NEW x \in Members, IsEntry(job'[x]), Selects(job'[r]),
               job'[x].run = job'[r].run
        PROVE  job'[x].from = r /\ (job'[x].live \/ job'[r].phase = "failed")
    <3>1. Selects(job[r]) /\ job'[r] = job[r]
      BY <1>14, <2>5
    <3>2. CASE x = m
      <4>1. Selects(job[f]) /\ job[f].run = job[r].run
        BY <1>9, <1>10, <1>15, <2>5, <3>1, <3>2 DEF Names
      <4>2. f = r
        BY <1>5, <3>1, <4>1 DEF SInv, RunsOK
      <4> QED BY <1>9, <1>10, <3>2, <4>2
    <3>3. CASE x # m
      <4>1. IsEntry(job[x]) /\ job'[x] = job[x] /\ job[x].run = job[r].run
        BY <1>10, <2>5, <3>1, <3>3
      <4>2. job[x].from = r /\ (job[x].live \/ job[r].phase = "failed")
        BY <2>1, <3>1, <4>1 DEF KindsOK
      <4> QED BY <3>1, <4>1, <4>2
    <3> QED BY <3>2, <3>3
  <2> QED BY <2>3, <2>4, <2>5 DEF KindsOK
<1> QED BY <1>1, <1>17, <1>18, <1>19, <1>20, <1>21 DEF SInv

\* An answer ends one call: its caller goes on, everybody else stays.
LEMMA AnswerTurns ==
    ASSUME SInv, NEW m \in Members, job[m] \in Serves, NEW result, Answer(m, result)
    PROVE  /\ \A x \in Members : Turns(x)
           /\ \A x \in Members : Back(x) => Running(x, m) /\ job'[x] = Resumed(job[x], result)
           /\ \A x \in Members : Running(x, m) => Back(x)
           /\ job'[m] = Idle /\ PartyMoves /\ UNCHANGED <<view, runs>>
           /\ \A x \in Members : \A i \in 1 .. Len(inbox'[x]) :
                \E k \in 1 .. Len(inbox[x]) : inbox'[x][i] = inbox[x][k]
<1>1. UNCHANGED <<party, view, inbox, runs>>
  BY DEF Answer
<1>2. job' = [s \in Members |->
                 IF s = m THEN Idle
                 ELSE IF s = job[m].from /\ job[m].live THEN Resumed(job[s], result)
                 ELSE job[s]]
  BY DEF Answer
<1>3. \A s \in Members : Running(s, m) <=> s = job[m].from /\ job[m].live
  BY DEF Running
<1>4. \A s \in Members : Running(s, m) => Waits(s) /\ s # m
  BY CallerParts, ServeParts DEF SInv, Waits
<1>5. job'[m] = Idle
  BY <1>2
<1>6. ASSUME NEW x \in Members
      PROVE  /\ Turns(x) /\ (Running(x, m) => Back(x))
             /\ Back(x) => Running(x, m) /\ job'[x] = Resumed(job[x], result)
  <2>1. CASE x = m
    <3>1. ~ Back(x)
      BY <2>1, ServeParts DEF Back, Waits
    <3>2. ~ Running(x, m)
      BY <1>4, <2>1
    <3> QED BY <1>5, <2>1, <3>1, <3>2 DEF Turns
  <2>2. CASE x # m /\ Running(x, m)
    <3>1. job'[x] = Resumed(job[x], result) /\ Waits(x)
      BY <1>2, <1>3, <1>4, <2>2
    <3>2. Back(x)
      BY <3>1, BackFrom
    <3> QED BY <2>2, <3>1, <3>2 DEF Turns
  <2>3. CASE x # m /\ ~ Running(x, m)
    <3>1. job'[x] = job[x]
      BY <1>2, <1>3, <2>3
    <3> QED BY <2>3, <3>1 DEF Turns, Back, Waits
  <2> QED BY <2>1, <2>2, <2>3
<1>7. PartyMoves
  BY <1>1 DEF PartyMoves
<1>8. \A x \in Members : \A i \in 1 .. Len(inbox'[x]) :
                \E k \in 1 .. Len(inbox[x]) : inbox'[x][i] = inbox[x][k]
  BY <1>1
<1> QED BY <1>1, <1>5, <1>6, <1>7, <1>8

\* It brings nobody further but the caller with the member that answers.
LEMMA AnswerStages ==
    ASSUME SInv, NEW m \in Members, job[m] \in Serves, NEW result, Answer(m, result),
           NEW s \in Members, NEW x \in Members, Names(s, x)'
    PROVE  \/ Stage(job'[s], x) \in {0, Stage(job[s], x)}
           \/ /\ x = m /\ Running(s, m) /\ result # "error"
              /\ \/ /\ job[s].phase = "preflight" /\ result = "yes"
                    /\ Stage(job[s], x) = 1 /\ Stage(job'[s], x) = 2
                 \/ /\ job[s].phase = "enter" /\ Stage(job[s], x) = 4
                    /\ Stage(job'[s], x) = 5
<1>1. /\ \A y \in Members : Turns(y)
      /\ Back(s) => Running(s, m) /\ job'[s] = Resumed(job[s], result)
  BY AnswerTurns
<1>2. \/ Stage(job'[s], x) \in {0, Stage(job[s], x)}
      \/ /\ Waits(s) /\ x = Head(job[s].todo)
         /\ job'[s].phase = job[s].phase /\ job'[s].todo = Tail(job[s].todo)
         /\ \/ /\ job[s].phase = "preflight" /\ Stage(job[s], x) = 1
               /\ Stage(job'[s], x) = 2
            \/ /\ job[s].phase = "enter" /\ Stage(job[s], x) = 4
               /\ Stage(job'[s], x) = 5
  BY <1>1, TurnsParts
<1>3. CASE Stage(job'[s], x) \in {0, Stage(job[s], x)}
  BY <1>3
<1>4. CASE /\ Waits(s) /\ x = Head(job[s].todo)
           /\ job'[s].phase = job[s].phase /\ job'[s].todo = Tail(job[s].todo)
           /\ \/ /\ job[s].phase = "preflight" /\ Stage(job[s], x) = 1
                 /\ Stage(job'[s], x) = 2
              \/ /\ job[s].phase = "enter" /\ Stage(job[s], x) = 4
                 /\ Stage(job'[s], x) = 5
  <2>1. job'[s] # job[s]
    BY <1>4
  <2>2. job'[s] \in Handlers /\ Turns(s)
    BY <1>1 DEF Names, Selects
  <2>3. Back(s)
    BY <2>1, <2>2, HandlerParts, DungeonAssumption DEF Turns, Executes
  <2>4. Running(s, m) /\ job'[s] = Resumed(job[s], result)
    BY <1>1, <2>3
  <2>5. DInv
    BY DEF SInv
  <2>6. x = m
    BY <1>4, <2>4, <2>5, CallerParts
  <2>7. job'[s].phase \notin {"blocked", "failed"}
    BY <1>4
  <2>8. result # "error" /\ (job[s].phase = "preflight" => result = "yes")
    BY <1>4, <2>4, <2>7, BackFrom
  <2> QED BY <1>4, <2>4, <2>6, <2>8
<1> QED BY <1>2, <1>3, <1>4

\* prepareRuntimePartyFollowerEnterSelect: it takes no origin away.
LEMMA ServeSelectorSInv ==
    ASSUME SInv, NEW m \in Members, ServeSelector(m)
    PROVE  SInv'
<1>1. DInv' /\ DInv /\ job[m] \in Serves /\ job[m].kind = "selector"
  BY ServeSelectorKept, JobParts DEF SInv, ServeSelector
<1>2. PICK result \in {"yes", "no", "error"} : Answer(m, result)
  BY DEF ServeSelector
<1>3. UNCHANGED <<unsettled, runtime, entered, launched, strayed>>
  BY DEF ServeSelector, dungeons
<1>4. origin \in [Members -> BOOLEAN] /\ (origin' = origin \/ origin' = [origin EXCEPT ![m] = TRUE])
  BY <1>1 DEF ServeSelector, DInv, Types, WorldTypes
<1>5. \A x \in Members : origin[x] => origin'[x]
  BY <1>4
<1>7. /\ \A x \in Members : Turns(x)
      /\ job'[m] = Idle /\ PartyMoves /\ UNCHANGED <<view, runs>>
      /\ \A x \in Members : \A i \in 1 .. Len(inbox'[x]) :
           \E k \in 1 .. Len(inbox[x]) : inbox'[x][i] = inbox[x][k]
  BY <1>1, <1>2, AnswerTurns
<1>8. \A x \in Members : entered'[x] # NoRun => entered'[x] \in launched
  BY <1>3 DEF SInv, RunsOK
<1>9. OrderOK' /\ KnownOK' /\ ViewsOK' /\ RunsOK' /\ KindsOK'
  BY <1>1, <1>3, <1>7, <1>8, TurnsRest
<1>10. ASSUME NEW s \in Members, NEW x \in Members, Names(s, x)', x \notin strayed
       PROVE  Local(Stage(job'[s], x), job'[s].run, origin'[x], unsettled'[x], runtime'[x], entered'[x], job'[x])
  <2>1. CASE Stage(job'[s], x) = Stage(job[s], x)
    <3>1. Keeps(s, x)
      BY <1>3, <1>5, <1>7, <1>10, <2>1, TurnsKeep
    <3> QED BY <3>1, KeepsLocal
  <2>2. CASE Stage(job'[s], x) = 0
    BY <2>2, LocalLow
  <2>3. CASE x = m /\ Stage(job[s], x) = 1 /\ Stage(job'[s], x) = 2
    <3>1. Idle \notin Handlers /\ Idle \notin Serves
      BY DungeonAssumption
    <3>2. ~ Selects(job'[x]) /\ ~ IsEntry(job'[x])
      BY <1>7, <2>3, <3>1 DEF Selects, IsEntry
    <3>3. Names(s, x)
      BY <1>7, <1>10, TurnsParts
    <3>4. Local(1, job[s].run, origin[x], unsettled[x], runtime[x], entered[x], job[x])
      BY <1>10, <2>3, <3>3 DEF SInv, LocalOK
    <3>5. origin'[x]
      BY <1>5, <3>4 DEF Local
    <3> QED BY <2>3, <3>2, <3>5 DEF Local
  <2>4. CASE x = m /\ Running(s, m) /\ job[s].phase = "enter"
    <3>1. job[m].kind = "entry"
      BY <2>4 DEF SInv, KindsOK
    <3> QED BY <1>1, <3>1
  <2>5. \/ Stage(job'[s], x) \in {0, Stage(job[s], x)}
        \/ /\ x = m /\ Running(s, m) /\ result # "error"
           /\ \/ /\ job[s].phase = "preflight" /\ result = "yes"
                 /\ Stage(job[s], x) = 1 /\ Stage(job'[s], x) = 2
              \/ /\ job[s].phase = "enter" /\ Stage(job[s], x) = 4
                 /\ Stage(job'[s], x) = 5
    BY <1>1, <1>2, <1>10, AnswerStages
  <2> QED BY <2>1, <2>2, <2>3, <2>4, <2>5
<1>11. LocalOK'
  BY <1>3, <1>10 DEF LocalOK
<1> QED BY <1>1, <1>9, <1>11 DEF SInv

\* handleDungeonSelectUpperPlanned: whoever did not stray still has its origin,
\* and so is sent the run of the caller unless its own return fails; its run is
\* not one it leaves.  Another selection that relies on m has not committed its
\* own.
LEMMA ServeEntrySInv ==
    ASSUME SInv, NEW m \in Members, ServeEntry(m)
    PROVE  SInv'
<1> DEFINE j == job[m]
<1>1. DInv' /\ DInv /\ j \in Serves /\ j.kind = "entry" /\ IsEntry(j) /\ WorldTypes
  BY ServeEntryKept, JobParts DEF SInv, ServeEntry, IsEntry, DInv, Types
<1>2. PICK result \in {"yes", "error"} :
        /\ Answer(m, result)
        /\ origin[m] => unsettled'[m] \/ entered'[m] = j.run
  <2>1. CASE Resume(m, FALSE) /\ Answer(m, "yes")
    <3>1. unsettled'[m]
      BY <1>1, <2>1 DEF Resume, WorldTypes
    <3> QED BY <2>1, <3>1
  <2>2. CASE ~ origin[m] /\ Resume(m, TRUE) /\ Answer(m, "yes")
    BY <2>2
  <2>3. CASE entered' = [entered EXCEPT ![m] = j.run] /\ (Answer(m, "yes") \/ Answer(m, "error"))
    <3>1. entered'[m] = j.run
      BY <1>1, <2>3 DEF WorldTypes
    <3> QED BY <2>3, <3>1
  <2> QED BY <2>1, <2>2, <2>3 DEF ServeEntry
<1>3. UNCHANGED <<origin, launched, strayed>>
  BY DEF ServeEntry
<1>4. j.run \in launched
  BY <1>1 DEF SInv, RunsOK
<1>5. /\ \A x \in Members : x # m => /\ runtime'[x] = runtime[x] /\ entered'[x] = entered[x]
                                     /\ unsettled'[x] = unsettled[x]
      /\ runtime'[m] = Detached(m)
  BY <1>1, EntryParts
<1>6. /\ \A x \in Members : Turns(x)
      /\ job'[m] = Idle /\ PartyMoves /\ UNCHANGED <<view, runs>>
      /\ \A x \in Members : \A i \in 1 .. Len(inbox'[x]) :
           \E k \in 1 .. Len(inbox[x]) : inbox'[x][i] = inbox[x][k]
      /\ \A x \in Members : Running(x, m) => Back(x)
  BY <1>1, <1>2, AnswerTurns
<1>7. \A x \in Members : entered'[x] # NoRun => entered'[x] \in launched
  <2>1. entered'[m] \in {entered[m], NoRun, j.run}
    BY <1>1 DEF ServeEntry, Resume, WorldTypes
  <2> QED BY <1>4, <1>5, <2>1 DEF SInv, RunsOK
<1>8. OrderOK' /\ KnownOK' /\ ViewsOK' /\ RunsOK' /\ KindsOK'
  BY <1>1, <1>3, <1>6, <1>7, TurnsRest
<1>9. ~ Selects(job'[m]) /\ ~ IsEntry(job'[m])
  BY <1>6, DungeonAssumption DEF Selects, IsEntry
<1>10. ASSUME NEW s \in Members, NEW x \in Members, Names(s, x)', x \notin strayed
       PROVE  Local(Stage(job'[s], x), job'[s].run, origin'[x], unsettled'[x], runtime'[x], entered'[x], job'[x])
  <2> DEFINE st == Stage(job[s], x)
             n == job[s].run
  <2>1. CASE Stage(job'[s], x) = 0
    BY <2>1, LocalLow
  <2>2. CASE Stage(job'[s], x) = st /\ x # m
    <3>1. Keeps(s, x)
      BY <1>3, <1>5, <1>6, <1>10, <2>2, TurnsKeep
    <3> QED BY <3>1, KeepsLocal
  <2>3. Names(s, x) /\ Like(job'[s], job[s])
    BY <1>6, <1>10, TurnsParts DEF Names, Selects
  <2>4. Local(st, n, origin[x], unsettled[x], runtime[x], entered[x], job[x]) /\ job'[s].run = n
    BY <1>10, <2>3 DEF SInv, LocalOK, Like
  <2>5. CASE Stage(job'[s], x) = st /\ x = m /\ Stage(job'[s], x) # 0
    <3>2. CASE n # j.run
      <4>1. Run(n) # Run(j.run)
        BY <3>2 DEF Run
      <4>2. st >= 2 => runtime[m] = Run(j.run)
        BY <1>1, <2>4, <2>5, <3>2 DEF Local
      <4>3. st >= 3 => runtime[m] = Run(n)
        BY <2>4, <2>5 DEF Local
      <4>4. st \in 0 .. 5
        BY StageType
      <4>5. st < 3 /\ (st >= 1 => origin[m])
        BY <2>4, <2>5, <4>1, <4>2, <4>3, <4>4 DEF Local
      <4> HIDE DEF st, n
      <4>6. Local(st, n, origin[m], unsettled'[m], runtime'[m], entered'[m], job'[m])
        BY <1>9, <4>4, <4>5 DEF Local
      <4> QED BY <1>3, <2>4, <2>5, <4>6
    <3>3. CASE n = j.run
      <4>1. j.from = s /\ (j.live \/ job[s].phase = "failed")
        BY <1>1, <2>3, <3>3 DEF SInv, KindsOK, Names
      <4>2. CASE job[s].phase = "failed"
        BY <2>5, <4>2, StageGivenUp
      <4>3. CASE Running(s, m)
        <5>1. job[s].phase = "enter"
          BY <1>1, <4>3 DEF SInv, KindsOK
        <5>2. st = 4
          BY <2>5, <4>3, <5>1, CallerStage
        <5>3. Back(s)
          BY <1>6, <4>3
        <5>4. CASE job'[s].phase \in {"blocked", "failed"}
          BY <2>5, <5>4, StageGivenUp
        <5>5. CASE job'[s].phase = job[s].phase /\ job'[s].todo = Tail(job[s].todo)
          <6>1. Selects(job[s]) /\ Waits(s) /\ ~ job'[s].waiting
            BY <2>3, <5>3 DEF Names, Back
          <6>2. x = Head(job[s].todo)
            BY <1>1, <2>5, <4>3, CallerParts
          <6>3. Stage(job'[s], x) = 5
            BY <2>3, <5>1, <5>5, <6>1, <6>2, BackStage
          <6> QED BY <2>5, <5>2, <6>3
        <5> QED BY <5>3, <5>4, <5>5 DEF Back
      <4> QED BY <1>1, <4>1, <4>2, <4>3 DEF Running
    <3> QED BY <3>2, <3>3
  <2>6. CASE /\ x = m /\ Running(s, m) /\ result # "error" /\ job[s].phase = "enter"
             /\ st = 4 /\ Stage(job'[s], x) = 5
    <3>1. j.run = n
      BY <2>6 DEF SInv, KindsOK
    <3>2. origin[m] /\ runtime[m] = Run(n)
      BY <2>4, <2>6 DEF Local
    <3>3. unsettled'[m] \/ entered'[m] = n
      BY <1>2, <3>1, <3>2
    <3>4. runtime'[m] = Run(n)
      BY <1>5, <3>2 DEF Detached, Leaving, Run
    <3>5. Local(5, n, origin[m], unsettled'[m], runtime'[m], entered'[m], job'[m])
      BY <1>9, <3>2, <3>3, <3>4 DEF Local
    <3> QED BY <1>3, <2>4, <2>6, <3>5
  <2>7. CASE x = m /\ Running(s, m) /\ job[s].phase = "preflight"
    <3>1. job[s].phase = "enter"
      BY <1>1, <2>7 DEF SInv, KindsOK
    <3> QED BY <2>7, <3>1
  <2>8. \/ Stage(job'[s], x) \in {0, st}
        \/ /\ x = m /\ Running(s, m) /\ result # "error"
           /\ \/ job[s].phase = "preflight"
              \/ /\ job[s].phase = "enter" /\ st = 4
                 /\ Stage(job'[s], x) = 5
    BY <1>1, <1>2, <1>10, AnswerStages
  <2> QED BY <2>1, <2>2, <2>5, <2>6, <2>7, <2>8
<1>11. LocalOK'
  BY <1>3, <1>10 DEF LocalOK
<1> QED BY <1>1, <1>8, <1>11 DEF SInv

-----------------------------------------------------------------------------
(* The invariant of entering together *)

\* Nobody has begun anything.
LEMMA InitSInv == Init => SInv
<1> SUFFICES ASSUME Init PROVE SInv
  OBVIOUS
<1>1. DInv
  BY InitDInv
<1>2. \A m \in Members : job[m] = Idle /\ inbox[m] = <<>> /\ view[m] = party /\ entered[m] = NoRun
  BY DEF Init
<1>3. party = [id |-> 1, roster |-> Roster] /\ launched = {}
  BY DEF Init
<1>4. Idle \notin Handlers /\ Idle \notin Serves
  BY DungeonAssumption
<1>5. \A m \in Members : job[m] \notin Handlers /\ job[m] \notin Serves
  BY <1>2, <1>4
<1>6. LocalOK /\ OrderOK /\ ViewsOK
  BY <1>5 DEF LocalOK, OrderOK, ViewsOK, Names, Selects
<1>7. RunsOK
  BY <1>2, <1>3, <1>5 DEF RunsOK, Selects, IsEntry
<1>8. KindsOK
  BY <1>2, <1>5 DEF KindsOK, Running, IsEntry
<1>9. party.roster = Roster /\ party.id = 1
  BY <1>3
<1>10. Roster # <<>> /\ Distinct(Roster)
  BY DungeonAssumption DEF Distinct
<1>11. \A p \in Known : p = party
  BY <1>2, <1>5 DEF Known
<1>12. Older(party) /\ Agree(party, party)
  BY <1>9, <1>10 DEF Older, Agree
<1>13. KnownOK
  BY <1>9, <1>10, <1>11, <1>12 DEF KnownOK
<1> QED BY <1>1, <1>6, <1>7, <1>8, <1>13 DEF SInv

\* What a player does keeps the invariant.
LEMMA ArriveSInv ==
    ASSUME SInv, NEW m \in Members, Arrive(m)
    PROVE  SInv'
BY OpenSelectorSInv, SelectDungeonSInv, BackToVillageSInv, LeaveDungeonSInv, StayInDungeonSInv,
   ConfirmReturnSInv, MoveTownSInv, CompleteSInv, FinishDungeonSInv, DepartSInv, DisconnectSInv
   DEF Arrive

\* What a loop does keeps the invariant.
LEMMA ContinueSInv ==
    ASSUME SInv, NEW s \in Members, Continue(s)
    PROVE  SInv'
BY SyncSInv, CheckSInv, PreflightSInv, CommitSInv, RollbackSInv, AnnounceSInv, EnterSInv, EndSInv,
   ServeSInv, ServeSelectorSInv, ServeEntrySInv DEF Continue

\* A step that changes nothing.
LEMMA StutterSInv ==
    ASSUME SInv, UNCHANGED vars
    PROVE  SInv'
<1>1. DInv'
  BY StutterKept DEF SInv
<1>2. UNCHANGED <<party, view, page, origin, unsettled, runtime, entered, launched, strayed, conn, job, inbox, runs>>
  BY DEF vars, dungeons, towns, loops
<1>3. LocalOK' /\ OrderOK' /\ ViewsOK'
  BY <1>2 DEF SInv, LocalOK, OrderOK, ViewsOK, Names
<1>4. KnownOK'
  BY <1>2 DEF SInv, KnownOK, Known, Older
<1>5. RunsOK' /\ KindsOK'
  BY <1>2 DEF SInv, RunsOK, KindsOK, Running
<1> QED BY <1>1, <1>3, <1>4, <1>5 DEF SInv

\* SInv is inductive.
LEMMA NextSInv == SInv /\ [Next]_vars => SInv'
<1> SUFFICES ASSUME SInv, [Next]_vars PROVE SInv'
  OBVIOUS
<1>1. CASE UNCHANGED vars
  BY <1>1, StutterSInv
<1>2. ASSUME NEW m \in Members, Arrive(m) \/ Continue(m) \/ Timeout(m) \/ Publish(m) \/ Close(m)
      PROVE  SInv'
  BY <1>2, ArriveSInv, ContinueSInv, TimeoutSInv, PublishSInv, CloseSInv
<1> QED BY <1>1, <1>2 DEF Next

\* A selection that is over has come to the last stage with everybody.
LEMMA SInvOnlyStrayed == SInv => OnlyStrayedAreLeft
<1> SUFFICES ASSUME SInv, NEW s \in Members, At(s, "done"), job[s].op = "select",
                    NEW m \in ToSet(job[s].all), m \notin strayed
             PROVE  unsettled[m] \/ (entered[m] = job[s].run /\ runtime[m] = Run(job[s].run))
  BY DEF OnlyStrayedAreLeft
<1>1. DInv
  BY DEF SInv
<1>2. job[s] \in Handlers /\ job[s].phase = "done"
  BY <1>1, AtParts DEF At
<1>3. job[s].all \in Seq(Members)
  BY <1>2, HandlerParts
<1>4. PICK i \in DOMAIN job[s].all : job[s].all[i] = m
  BY DEF ToSet
<1>5. i \in 1 .. Len(job[s].all) /\ m \in Members
  BY <1>3, <1>4
<1>6. Names(s, m)
  BY <1>2, <1>4, <1>5 DEF Names, Selects, Contains
<1>7. Stage(job[s], m) = 5
  BY <1>2, StagePhases
<1>8. Local(Stage(job[s], m), job[s].run, origin[m], unsettled[m], runtime[m], entered[m], job[m])
  BY <1>5, <1>6 DEF SInv, LocalOK
<1> QED BY <1>7, <1>8 DEF Local

\* When the leader's op16 ends without an error everybody it prepared is in the
\* dungeon with an active run of it, save those whose own return to town is not
\* finished and those who went on by themselves meanwhile: whatever the number
\* of members and of selections that overlap, and although loops time out,
\* close, leave the party and answer calls of handlers that have given up.
THEOREM NobodyElseIsLeft == Spec => []OnlyStrayedAreLeft
<1>1. Init => SInv
  BY InitSInv
<1>2. SInv /\ [Next]_vars => SInv'
  BY NextSInv
<1>3. SInv => OnlyStrayedAreLeft
  BY SInvOnlyStrayed
<1> QED BY <1>1, <1>2, <1>3, PTL DEF Spec

-----------------------------------------------------------------------------
(* Settlement: the inductive invariant. *)

\* A row is paid only after it was sent, and sent only after it was chosen.
CardsOK(r) ==
    \A s \in Sides : /\ r.done[s] => r.given[s]
                     /\ r.given[s] => r.sent[s]
                     /\ r.sent[s] => r.pick[s] \in Seats

\* Who waits to be sent home is in a run that is active and not on the way.
WaitOK(r) == r.waiting => r.stage = Combat /\ ~r.returning

Shape ==
    /\ online \in BOOLEAN /\ finalizer \in BOOLEAN
    /\ lastRun \in 0 .. RunBound /\ deaths \in 0 .. MaxDeaths
    /\ run # NilRuntime => /\ online /\ run.id <= lastRun
                           /\ run \in Runs /\ CardsOK(run) /\ WaitOK(run)

\* Every row of the present run was paid as often as it says, no row of a
\* run to come.
Granted ==
    /\ granted \in [1 .. RunBound -> [Sides -> {0, 1}]]
    /\ \A n \in 1 .. RunBound : n > lastRun => \A s \in Sides : granted[n][s] = 0
    /\ run # NilRuntime => \A s \in Sides : granted[run.id][s] = 1 <=> run.given[s]

\* The receipt is the one of the last run that was settled.
Receipted ==
    /\ settled \in [1 .. RunBound -> {0, 1}]
    /\ receipt \in [run : 0 .. lastRun, intact : BOOLEAN]
    /\ \A n \in 1 .. RunBound : n > lastRun => settled[n] = 0
    /\ receipt.run # 0 => settled[receipt.run] = 1
    /\ run # NilRuntime => /\ settled[run.id] = 1 => receipt.run = run.id
                           /\ run.plan => settled[run.id] = 1

\* A timer that would send the character home was armed by the death it lies
\* dead of, and there is one as long as it waits.
Armed ==
    /\ timers \subseteq Timers
    /\ \A t \in timers : t.run <= lastRun
    /\ run # NilRuntime /\ run.waiting =>
         /\ \E t \in timers : t.kind = "death" /\ t.run = run.id /\ t.live
         /\ \A t \in timers :
              t.kind = "death" /\ t.run = run.id /\ t.live => t.death = fallen

SettlementInv == Shape /\ Granted /\ Receipted /\ Armed

-----------------------------------------------------------------------------
(* The operators. *)

\* The greater of two stages.
LEMMA MaxOfTwo ==
    ASSUME NEW a \in Int, NEW b \in Int
    PROVE  Max({a, b}) \in {a, b} /\ Max({a, b}) >= a /\ Max({a, b}) >= b
<1>1. \E x \in {a, b} : \A y \in {a, b} : x >= y
  OBVIOUS
<1> QED BY <1>1 DEF Max

\* A phase never goes back, and nothing else changes with it.
LEMMA Advances ==
    ASSUME NEW r \in Runs, NEW stage \in Combat .. Ending
    PROVE  /\ Advance(r, stage) \in Runs
           /\ Advance(r, stage).stage >= r.stage /\ Advance(r, stage).stage >= stage
           /\ Advance(r, stage) = [r EXCEPT !.stage = Advance(r, stage).stage]
<1> DEFINE m == Max({r.stage, stage})
<1>1. r.stage \in Combat .. Ending
  BY DEF Runs
<1>0. r.stage \in Int /\ stage \in Int
  BY <1>1 DEF Combat, Ending
<1>2. m \in Combat .. Ending /\ m >= r.stage /\ m >= stage
  <2>1. m \in {r.stage, stage} /\ m >= r.stage /\ m >= stage
    BY <1>0, MaxOfTwo
  <2> QED BY <1>1, <2>1
<1>3. Advance(r, stage) = [r EXCEPT !.stage = m]
  BY DEF Advance
<1> HIDE DEF m
<1> QED BY <1>2, <1>3 DEF Runs

\* What a handler makes of a run's cards: r becomes q, and the rows of g are
\* paid in the course of it.
Paid(r, q, g) ==
    /\ q \in Runs /\ CardsOK(q)
    /\ g \in SUBSET Sides
    /\ \A s \in Sides : q.given[s] <=> r.given[s] \/ s \in g
    /\ \A s \in g : ~r.given[s]
    /\ q.id = r.id /\ q.plan = r.plan /\ q.stats = r.stats /\ q.acked = r.acked
    /\ q.returning = r.returning /\ q.op24 = r.op24 /\ q.waiting = r.waiting
    /\ q.stage >= r.stage

\* commitCurrentDungeonCardSideRewardLocked pays a row that was not paid.
LEMMA PaymentsPay ==
    ASSUME NEW r \in Runs, CardsOK(r), NEW side \in Sides, NEW p \in Payments(r, side)
    PROVE  Paid(r, p.run, p.grant)
<1> DEFINE given == [r EXCEPT !.given[side] = TRUE]
           done == [given EXCEPT !.done[side] = TRUE]
           paid == IF side = "free" THEN Advance(done, RewardCommitted) ELSE done
<1>1. r.given \in Marks /\ r.sent \in Marks /\ r.done \in Marks
      /\ r.stage \in Int
  BY DEF Runs, Combat, Ending
<1>2. Paid(r, r, {})
  BY <1>1 DEF Paid, CardsOK
<1>3. CASE r.done[side] \/ ~r.sent[side]
  <2>1. p = [run |-> r, grant |-> {}]
    BY <1>3 DEF Payments
  <2> QED BY <2>1, <1>2
<1>4. CASE ~(r.done[side] \/ ~r.sent[side])
  <2>1. given \in Runs
    BY <1>1 DEF Runs, Marks
  <2>2. done \in Runs
    BY <1>1, <2>1 DEF Runs, Marks
  <2>3. ~r.given[side] => Paid(r, given, {side})
    BY <1>1, <1>4, <2>1 DEF Paid, CardsOK, Marks
  <2>4. \A g : (g = IF r.given[side] THEN {} ELSE {side}) => Paid(r, done, g)
    BY <1>1, <1>4, <2>2 DEF Paid, CardsOK, Marks
  <2>5. \A g : Paid(r, done, g) => Paid(r, paid, g)
    <3> HIDE DEF done
    <3>1. CASE side = "free"
      <4>1. /\ paid \in Runs /\ paid.stage >= done.stage
            /\ paid = [done EXCEPT !.stage = paid.stage]
        BY <2>2, <3>1, Advances DEF RewardCommitted, Combat, Ending
      <4>2. done.stage \in Int /\ paid.stage \in Int
        BY <2>2, <4>1 DEF Runs, Combat, Ending
      <4> HIDE DEF paid
      <4> QED BY <1>1, <2>2, <4>1, <4>2 DEF Paid, CardsOK, Runs
    <3>2. CASE side # "free"
      BY <3>2
    <3> QED BY <3>1, <3>2
  <2>6. p \in {[run |-> r, grant |-> {}], [run |-> given, grant |-> {side}],
              [run |-> paid, grant |-> IF r.given[side] THEN {} ELSE {side}]}
        /\ (r.given[side] => p.grant = {} /\ p.run = paid)
    BY <1>4 DEF Payments
  <2> HIDE DEF given, done, paid
  <2> QED BY <1>2, <2>3, <2>4, <2>5, <2>6
<1> QED BY <1>3, <1>4

\* Two steps of payment are one.
LEMMA PaidTwice ==
    ASSUME NEW r \in Runs, NEW q, NEW t, NEW g, NEW h, Paid(r, q, g), Paid(q, t, h)
    PROVE  Paid(r, t, g \cup h)
<1>1. r.stage \in Int /\ q.stage \in Int /\ t.stage \in Int
  BY DEF Paid, Runs, Combat, Ending
<1>2. t.stage >= r.stage
  BY <1>1 DEF Paid
<1> QED BY <1>2 DEF Paid

\* selectCurrentDungeonCardLocked turns a card and pays it.
LEMMA SelectionsPay ==
    ASSUME NEW r \in Runs, CardsOK(r), NEW side \in Sides, NEW seat \in Seats,
           NEW o \in Selections(r, side, seat)
    PROVE  Paid(r, o.run, o.grant)
<1> DEFINE known == [r EXCEPT !.pick[side] = seat]
           sent == [known EXCEPT !.sent[side] = TRUE]
<1>1. /\ r.given \in Marks /\ r.sent \in Marks /\ r.done \in Marks /\ r.stage \in Int
      /\ r.pick \in [Sides -> Seats \cup {Unchosen}]
  BY DEF Runs, Combat, Ending
<1>2. Paid(r, r, {})
  BY <1>1 DEF Paid, CardsOK
<1>3. known \in Runs
  BY <1>1 DEF Runs
<1>4. sent \in Runs
  BY <1>1, <1>3 DEF Runs, Marks
<1>5. Paid(r, known, {})
  BY <1>1, <1>3 DEF Paid, CardsOK, Marks
<1>6. Paid(r, sent, {})
  BY <1>1, <1>4 DEF Paid, CardsOK, Marks
<1>7. \/ o = [run |-> r, grant |-> {}, ok |-> TRUE]
      \/ o = [run |-> known, grant |-> {}, ok |-> FALSE]
      \/ \E p \in Payments(sent, side) : o = [run |-> p.run, grant |-> p.grant, ok |-> TRUE]
  BY DEF Selections
<1> HIDE DEF known, sent
<1>8. ASSUME NEW p \in Payments(sent, side) PROVE Paid(r, p.run, p.grant)
  <2>1. Paid(sent, p.run, p.grant)
    BY <1>4, <1>6, PaymentsPay DEF Paid
  <2>2. Paid(r, p.run, {} \cup p.grant)
    BY <1>6, <2>1, PaidTwice
  <2> QED BY <2>2
<1> QED BY <1>2, <1>5, <1>7, <1>8

\* What the ways out do first turns and pays the free card.
LEMMA BeforeExitPays ==
    ASSUME NEW r \in Runs, CardsOK(r), NEW o \in BeforeExit(r)
    PROVE  Paid(r, o.run, o.grant)
<1> DEFINE turned == IF r.stage >= CardsRevealed /\ ~r.sent["free"]
                     THEN Selections(r, "free", 0)
                     ELSE {[run |-> r, grant |-> {}]}
<1>1. Paid(r, r, {})
  BY DEF Paid, CardsOK, Runs, Combat, Ending
<1>2. "free" \in Sides /\ 0 \in Seats
  BY SettlementAssumption DEF Sides
<1>3. ASSUME NEW t \in turned PROVE Paid(r, t.run, t.grant)
  <2>1. CASE r.stage >= CardsRevealed /\ ~r.sent["free"]
    <3>1. t \in Selections(r, "free", 0)
      BY <1>3, <2>1
    <3> QED BY <1>2, <3>1, SelectionsPay
  <2>2. CASE ~(r.stage >= CardsRevealed /\ ~r.sent["free"])
    <3>1. t = [run |-> r, grant |-> {}]
      BY <1>3, <2>2
    <3> QED BY <1>1, <3>1
  <2> QED BY <2>1, <2>2
<1>4. PICK t \in turned : \E p \in Payments(t.run, "free") :
          o = [run |-> p.run, grant |-> t.grant \cup p.grant]
  BY DEF BeforeExit
<1> HIDE DEF turned
<1>5. PICK p \in Payments(t.run, "free") : o = [run |-> p.run, grant |-> t.grant \cup p.grant]
  BY <1>4
<1>6. Paid(r, t.run, t.grant)
  BY <1>3
<1>7. Paid(t.run, p.run, p.grant)
  BY <1>2, <1>6, PaymentsPay DEF Paid
<1> QED BY <1>5, <1>6, <1>7, PaidTwice

-----------------------------------------------------------------------------
(* Timers. *)

\* t is what became of u.
Same(t, u) == t.kind = u.kind /\ t.run = u.run /\ t.death = u.death /\ (t.live => u.live)

\* S holds what is left of the timers T.
Left(S, T) == \A t \in S : t \in Timers /\ \E u \in T : Same(t, u)

\* Whoever would send somebody home still will.
DeathsLeft(S, T) ==
    \A u \in T : u.kind = "death" /\ u.live =>
        \E t \in S : t.kind = "death" /\ t.run = u.run /\ t.live

\* A timer after its kind was cancelled.
Struck(u, kind) == [u EXCEPT !.live = @ /\ u.kind # kind]

\* It is dead if it is of that kind, and the same otherwise.
LEMMA StruckIs ==
    ASSUME NEW u \in Timers, NEW kind
    PROVE  /\ Struck(u, kind) \in Timers /\ Same(Struck(u, kind), u)
           /\ Struck(u, kind).kind = u.kind /\ Struck(u, kind).run = u.run
           /\ Struck(u, kind).live <=> u.live /\ u.kind # kind
BY DEF Struck, Timers, Same

\* Cancelling leaves the timers of the other kind.
LEMMA CancelLeaves ==
    ASSUME NEW T \in SUBSET Timers, NEW kind
    PROVE  /\ Left(Cancel(kind, T), T)
           /\ Cancel(kind, T) \in SUBSET Timers
           /\ \A t \in Cancel(kind, T) : t.kind = kind => ~t.live
           /\ kind # "death" => DeathsLeft(Cancel(kind, T), T)
<1>1. \A u \in T : /\ Struck(u, kind) \in Timers /\ Same(Struck(u, kind), u)
                   /\ Struck(u, kind).kind = u.kind /\ Struck(u, kind).run = u.run
                   /\ Struck(u, kind).live <=> u.live /\ u.kind # kind
  BY StruckIs
<1>2. \A t \in Cancel(kind, T) : \E u \in T : t = Struck(u, kind)
  BY DEF Cancel, Struck
<1>3. \A u \in T : u.kind # kind => Struck(u, kind) \in Cancel(kind, T)
  BY DEF Cancel, Struck
<1>4. Left(Cancel(kind, T), T) /\ Cancel(kind, T) \in SUBSET Timers
  BY <1>1, <1>2 DEF Left
<1>5. \A t \in Cancel(kind, T) : t.kind = kind => ~t.live
  BY <1>1, <1>2
<1>6. ASSUME kind # "death" PROVE DeathsLeft(Cancel(kind, T), T)
  BY <1>1, <1>3, <1>6 DEF DeathsLeft
<1> QED BY <1>4, <1>5, <1>6

\* What is left of what is left.
LEMMA LeftTwice ==
    ASSUME NEW R, NEW S, NEW T, Left(R, S), Left(S, T)
    PROVE  Left(R, T)
BY DEF Left, Same

\* Both kinds are cancelled when a run is let go.
LEMMA CancelBothLeaves ==
    ASSUME NEW T \in SUBSET Timers
    PROVE  Left(CancelBoth(T), T)
BY CancelLeaves, LeftTwice DEF CancelBoth

\* The timers a handler has to do with when it ends.
LEMMA TurnedLeaves ==
    ASSUME NEW T \in SUBSET Timers, NEW r
    PROVE  /\ Left(Turned(r, T), T) /\ Turned(r, T) \in SUBSET Timers
           /\ DeathsLeft(Turned(r, T), T)
<1>1. Left(T, T) /\ DeathsLeft(T, T)
  BY DEF Left, DeathsLeft, Same
<1> QED BY <1>1, CancelLeaves DEF Turned

-----------------------------------------------------------------------------
(* What the ends of a handler have in common. *)

\* The run goes on as r, and the rows of g are paid in the course of it.
Fits(r, g) ==
    /\ run # NilRuntime
    /\ r \in Runs /\ CardsOK(r) /\ WaitOK(r)
    /\ r.id = run.id /\ (r.plan => run.plan \/ settled'[run.id] = 1)
    /\ \A s \in Sides : r.given[s] <=> run.given[s] \/ s \in g

\* A connected player's completed run may be let go: its free card is paid, it
\* was on the way to town, or the player goes on to another dungeon.
MayGo(g) ==
    run # NilRuntime /\ run.stage # Combat /\ online' =>
        run.given["free"] \/ "free" \in g \/ run.returning \/ NextDungeon

\* The run is let go, goes on, or another one begins.
RunCourse(g) ==
    /\ \/ run' = NilRuntime /\ lastRun' = lastRun /\ MayGo(g)
       \/ Fits(run', g) /\ lastRun' = lastRun /\ online'
       \/ /\ lastRun < RunBound /\ lastRun' = lastRun + 1
          /\ run' = NewRun(lastRun + 1) /\ online' /\ MayGo(g)
    /\ online' \in BOOLEAN /\ finalizer' \in BOOLEAN

\* No death timer comes or changes, and none goes while it is waited for.
TimerCourse ==
    /\ timers' \in SUBSET Timers
    /\ \A t \in timers' : \/ \E u \in timers : Same(t, u)
                          \/ t.kind = "flip" /\ run # NilRuntime /\ t.run = run.id
    /\ run' = NilRuntime \/ ~run'.waiting
       \/ (/\ run # NilRuntime /\ run.waiting /\ run'.id = run.id /\ fallen' = fallen
           /\ DeathsLeft(timers', timers))

\* The payments a handler makes.
Pays(g) ==
    \/ g = {} /\ granted' = granted
    \/ /\ run # NilRuntime /\ g \in SUBSET Sides /\ \A s \in g : ~run.given[s]
       /\ Grant(g)

\* The first state of a run.
LEMMA NewRunIs ==
    ASSUME NEW n \in 1 .. RunBound
    PROVE  /\ NewRun(n) \in Runs /\ CardsOK(NewRun(n)) /\ WaitOK(NewRun(n))
           /\ NewRun(n).id = n /\ ~NewRun(n).plan /\ ~NewRun(n).waiting
           /\ \A s \in Sides : ~NewRun(n).given[s]
BY DEF NewRun, Runs, Marks, CardsOK, WaitOK, Combat, Ending

\* Every end keeps the shape,
LEMMA CourseShape ==
    ASSUME Shape, NEW g, RunCourse(g), deaths' \in 0 .. MaxDeaths
    PROVE  Shape'
<1>1. lastRun' \in 0 .. RunBound /\ lastRun \in 0 .. RunBound
  BY SettlementAssumption DEF Shape, RunCourse
<1>2. ASSUME run' # NilRuntime
      PROVE  /\ online' /\ run'.id <= lastRun'
             /\ run' \in Runs /\ CardsOK(run') /\ WaitOK(run')
  <2>1. CASE Fits(run', g) /\ lastRun' = lastRun /\ online'
    BY <2>1 DEF Fits, Shape
  <2>2. CASE lastRun < RunBound /\ lastRun' = lastRun + 1 /\ run' = NewRun(lastRun + 1) /\ online'
    <3>1. lastRun + 1 \in 1 .. RunBound
      BY <1>1, <2>2, SettlementAssumption
    <3> QED BY <1>1, <2>2, <3>1, NewRunIs
  <2> QED BY <1>2, <2>1, <2>2 DEF RunCourse
<1>3. CardsOK(run)' = CardsOK(run') /\ WaitOK(run)' = WaitOK(run')
  BY DEF CardsOK, WaitOK
<1> QED BY <1>1, <1>2, <1>3 DEF Shape, RunCourse

\* the accounts of the cards,
LEMMA CourseGranted ==
    ASSUME Shape, Granted, NEW g, RunCourse(g), Pays(g)
    PROVE  Granted'
<1>1. lastRun \in 0 .. RunBound /\ lastRun' \in 0 .. RunBound /\ lastRun' >= lastRun
  BY SettlementAssumption DEF Shape, RunCourse
<1>2. /\ granted' \in [1 .. RunBound -> [Sides -> {0, 1}]]
      /\ \A n \in 1 .. RunBound, s \in Sides :
           granted'[n][s] = IF run # NilRuntime /\ n = run.id /\ s \in g THEN 1 ELSE granted[n][s]
  <2>1. CASE g = {} /\ granted' = granted
    BY <2>1 DEF Granted
  <2>2. CASE /\ run # NilRuntime /\ g \in SUBSET Sides /\ \A s \in g : ~run.given[s]
             /\ Grant(g)
    <3> DEFINE row == [s \in Sides |-> granted[run.id][s] + IF s \in g THEN 1 ELSE 0]
    <3>1. run.id \in 1 .. RunBound
      BY <2>2 DEF Shape, Runs
    <3>2. granted' = [granted EXCEPT ![run.id] = row]
      BY <2>2 DEF Grant
    <3>3. \A s \in Sides : /\ granted[run.id][s] \in {0, 1}
                           /\ granted[run.id][s] = 1 <=> run.given[s]
      BY <2>2, <3>1 DEF Granted
    <3>4. \A s \in Sides : row[s] = IF s \in g THEN 1 ELSE granted[run.id][s]
      BY <2>2, <3>3
    <3>5. row \in [Sides -> {0, 1}]
      BY <3>3, <3>4
    <3> HIDE DEF row
    <3> QED BY <2>2, <3>1, <3>2, <3>4, <3>5 DEF Granted
  <2> QED BY <2>1, <2>2 DEF Pays
<1>3. \A n \in 1 .. RunBound : n > lastRun' => \A s \in Sides : granted'[n][s] = 0
  <2>1. run # NilRuntime => run.id <= lastRun /\ run.id \in Int
    BY DEF Shape, Runs
  <2> QED BY <1>1, <1>2, <2>1 DEF Granted
<1>4. ASSUME run' # NilRuntime PROVE \A s \in Sides : granted'[run'.id][s] = 1 <=> run'.given[s]
  <2>1. CASE Fits(run', g)
    <3>1. run.id \in 1 .. RunBound /\ run'.id = run.id
      BY <2>1 DEF Fits, Runs
    <3> QED BY <1>2, <2>1, <3>1 DEF Fits, Granted
  <2>2. CASE lastRun < RunBound /\ lastRun' = lastRun + 1 /\ run' = NewRun(lastRun + 1)
    <3>1. lastRun + 1 \in 1 .. RunBound
      BY <1>1, <2>2, SettlementAssumption
    <3>2. run # NilRuntime => run.id # lastRun + 1
      BY <1>1 DEF Shape, Runs
    <3>3. \A s \in Sides : granted'[lastRun + 1][s] = 0
      BY <1>1, <1>2, <3>1, <3>2 DEF Granted
    <3> QED BY <2>2, <3>1, <3>3, NewRunIs
  <2> QED BY <1>4, <2>1, <2>2 DEF RunCourse
<1> QED BY <1>2, <1>3, <1>4 DEF Granted

\* the receipt,
LEMMA CourseReceipted ==
    ASSUME Shape, Receipted, NEW g, RunCourse(g), UNCHANGED <<receipt, settled>>
    PROVE  Receipted'
<1>1. lastRun \in 0 .. RunBound /\ lastRun' \in 0 .. RunBound /\ lastRun' >= lastRun
  BY SettlementAssumption DEF Shape, RunCourse
<1>2. receipt \in [run : 0 .. lastRun', intact : BOOLEAN]
  BY <1>1 DEF Receipted
<1>3. ASSUME run' # NilRuntime
      PROVE  /\ settled[run'.id] = 1 => receipt.run = run'.id
             /\ run'.plan => settled[run'.id] = 1
  <2>1. CASE Fits(run', g)
    BY <2>1 DEF Fits, Receipted
  <2>2. CASE lastRun < RunBound /\ lastRun' = lastRun + 1 /\ run' = NewRun(lastRun + 1)
    <3>1. lastRun + 1 \in 1 .. RunBound
      BY <1>1, <2>2, SettlementAssumption
    <3>2. settled[lastRun + 1] = 0
      BY <1>1, <3>1 DEF Receipted
    <3> QED BY <2>2, <3>1, <3>2, NewRunIs
  <2> QED BY <1>3, <2>1, <2>2 DEF RunCourse
<1> QED BY <1>1, <1>2, <1>3 DEF Receipted

\* and the timers.
LEMMA CourseArmed ==
    ASSUME Shape, Armed, NEW g, RunCourse(g), TimerCourse
    PROVE  Armed'
<1>1. lastRun \in Int /\ lastRun' \in Int /\ lastRun' >= lastRun
  BY SettlementAssumption DEF Shape, RunCourse
<1>2. \A t \in timers' : t.run <= lastRun'
  <2> TAKE t \in timers'
  <2>1. t.run \in Int /\ t.run <= lastRun
    BY DEF TimerCourse, Timers, Armed, Same, Shape
  <2> QED BY <1>1, <2>1
<1>3. ASSUME run' # NilRuntime, run'.waiting
      PROVE  /\ \E t \in timers' : t.kind = "death" /\ t.run = run'.id /\ t.live
             /\ \A t \in timers' :
                  t.kind = "death" /\ t.run = run'.id /\ t.live => t.death = fallen'
  <2>1. /\ run # NilRuntime /\ run.waiting /\ run'.id = run.id /\ fallen' = fallen
        /\ DeathsLeft(timers', timers)
    BY <1>3 DEF TimerCourse
  <2>2. \E t \in timers' : t.kind = "death" /\ t.run = run'.id /\ t.live
    BY <2>1 DEF Armed, DeathsLeft
  <2>3. ASSUME NEW t \in timers', t.kind = "death", t.run = run'.id, t.live
        PROVE  t.death = fallen'
    <3>1. PICK u \in timers : Same(t, u)
      BY <2>3 DEF TimerCourse
    <3> QED BY <2>1, <2>3, <3>1 DEF Armed, Same
  <2> QED BY <2>2, <2>3
<1> QED BY <1>2, <1>3 DEF Armed, TimerCourse

\* What PaidBeforeExit says of a step.
Exits ==
    /\ run # NilRuntime /\ run.stage # Combat
    /\ online' /\ (run' = NilRuntime \/ run'.id # run.id)
    => granted'[run.id]["free"] = 1 \/ run.returning \/ NextDungeon

\* No end lets a run go before its time.
LEMMA CourseExits ==
    ASSUME Shape, Granted, NEW g, RunCourse(g), Pays(g)
    PROVE  Exits
<1> SUFFICES ASSUME run # NilRuntime, run.stage # Combat, online',
                    run' = NilRuntime \/ run'.id # run.id
             PROVE  granted'[run.id]["free"] = 1 \/ run.returning \/ NextDungeon
  BY DEF Exits
<1>1. run.id \in 1 .. RunBound /\ "free" \in Sides
  BY DEF Shape, Runs, Sides
<1>2. run.given["free"] \/ "free" \in g \/ run.returning \/ NextDungeon
  <2>1. ~Fits(run', g)
    BY SettlementAssumption DEF Fits
  <2> QED BY <2>1 DEF RunCourse, MayGo
<1>3. granted[run.id]["free"] \in {0, 1} /\ (granted[run.id]["free"] = 1 <=> run.given["free"])
  BY <1>1 DEF Granted
<1>4. granted[run.id]["free"] = 1 \/ "free" \in g => granted'[run.id]["free"] = 1
  <2>1. CASE g = {} /\ granted' = granted
    BY <2>1
  <2>2. CASE g \in SUBSET Sides /\ (\A s \in g : ~run.given[s]) /\ Grant(g)
    <3> DEFINE row == [s \in Sides |-> granted[run.id][s] + IF s \in g THEN 1 ELSE 0]
    <3>1. granted' = [granted EXCEPT ![run.id] = row]
      BY <2>2 DEF Grant
    <3>2. granted'[run.id] = row
      BY <1>1, <3>1 DEF Granted
    <3>3. row["free"] = granted[run.id]["free"] + IF "free" \in g THEN 1 ELSE 0
      BY <1>1
    <3> HIDE DEF row
    <3>4. "free" \in g => granted[run.id]["free"] = 0
      BY <1>3, <2>2
    <3> QED BY <1>3, <3>2, <3>3, <3>4
  <2> QED BY <2>1, <2>2 DEF Pays
<1> QED BY <1>2, <1>3, <1>4

\* Together: a handler that neither settles nor kills keeps the invariant.
LEMMA CourseKeeps ==
    ASSUME SettlementInv, NEW g, RunCourse(g), TimerCourse, Pays(g),
           UNCHANGED <<receipt, settled>>, deaths' = deaths
    PROVE  SettlementInv' /\ Exits
<1>1. deaths' \in 0 .. MaxDeaths
  BY DEF SettlementInv, Shape
<1> QED
  BY <1>1, CourseShape, CourseGranted, CourseReceipted, CourseArmed, CourseExits
  DEF SettlementInv

-----------------------------------------------------------------------------
(* The ends. *)

\* The timers T that a handler has at its end are left of those it found.
Kept(T) == T \in SUBSET Timers /\ Left(T, timers)

\* A handler that cancels nothing has those it found.
LEMMA AllKept ==
    ASSUME Armed
    PROVE  Kept(timers) /\ DeathsLeft(timers, timers)
BY DEF Armed, Kept, Left, DeathsLeft, Same

\* One that cancels has fewer.
LEMMA CancelKept ==
    ASSUME NEW T, Kept(T), NEW kind
    PROVE  /\ Kept(Cancel(kind, T)) /\ Kept(CancelBoth(T))
           /\ \A r : Kept(Turned(r, T))
<1>1. Kept(Cancel(kind, T))
  BY CancelLeaves, LeftTwice DEF Kept
<1>2. \A r : Kept(Turned(r, T))
  BY TurnedLeaves, LeftTwice DEF Kept
<1>3. Kept(CancelBoth(T))
  <2>1. Cancel("death", T) \in SUBSET Timers
    BY CancelLeaves DEF Kept
  <2>2. CancelBoth(T) \in SUBSET Timers
    BY <2>1, CancelLeaves DEF CancelBoth
  <2>3. Left(CancelBoth(T), timers)
    BY CancelBothLeaves, LeftTwice DEF Kept
  <2> QED BY <2>2, <2>3 DEF Kept
<1> QED BY <1>1, <1>2, <1>3

\* Timers that are kept are a course of the timers.
LEMMA KeptCourse ==
    ASSUME Kept(timers'),
           run' = NilRuntime \/ ~run'.waiting
             \/ (/\ run # NilRuntime /\ run.waiting /\ run'.id = run.id /\ fallen' = fallen
                 /\ DeathsLeft(timers', timers))
    PROVE  TimerCourse
BY DEF Kept, Left, TimerCourse

\* Drop.
LEMMA DropCourse ==
    ASSUME SettlementInv, Drop, NEW g
    PROVE  RunCourse(g) /\ TimerCourse
<1>1. Kept(timers')
  BY AllKept, CancelKept DEF Drop, SettlementInv
<1>2. run' = NilRuntime /\ lastRun' = lastRun /\ online' = FALSE /\ finalizer' = FALSE
  BY DEF Drop
<1> QED BY <1>1, <1>2, KeptCourse DEF RunCourse, MayGo

\* Detach.
LEMMA DetachCourse ==
    ASSUME SettlementInv, NEW T, Kept(T), Detach(T), finalizer' \in BOOLEAN, NEW g, MayGo(g)
    PROVE  RunCourse(g) /\ TimerCourse
<1>1. Kept(timers')
  BY CancelKept DEF Detach
<1>2. run' = NilRuntime /\ lastRun' = lastRun /\ online' = online
  BY DEF Detach
<1> QED BY <1>1, <1>2, KeptCourse DEF RunCourse, SettlementInv, Shape

\* Begin.
LEMMA BeginCourse ==
    ASSUME SettlementInv, NEW T, Kept(T), Begin(T), online, finalizer' \in BOOLEAN,
           NEW g, MayGo(g)
    PROVE  RunCourse(g) /\ TimerCourse
<1>1. Kept(timers')
  BY CancelKept DEF Begin
<1>2. /\ run' = NewRun(lastRun + 1) /\ lastRun' = lastRun + 1 /\ online' = online
      /\ lastRun < RunBound
  BY DEF Begin
<1>3. lastRun + 1 \in 1 .. RunBound
  BY <1>2, SettlementAssumption DEF SettlementInv, Shape
<1>4. ~run'.waiting
  BY <1>2, <1>3, NewRunIs
<1> QED BY <1>1, <1>2, <1>4, KeptCourse DEF RunCourse, SettlementInv, Shape

\* The run goes on.
LEMMA GoingCourse ==
    ASSUME SettlementInv, NEW r, NEW g, Fits(r, g), run' = r, Kept(timers'),
           online' = online, finalizer' \in BOOLEAN, lastRun' = lastRun,
           ~r.waiting \/ (run.waiting /\ fallen' = fallen /\ DeathsLeft(timers', timers))
    PROVE  RunCourse(g) /\ TimerCourse
<1>1. run # NilRuntime /\ r.id = run.id /\ online
  BY DEF Fits, SettlementInv, Shape
<1>2. TimerCourse
  BY <1>1, KeptCourse
<1> QED BY <1>1, <1>2 DEF RunCourse

\* Keep.
LEMMA KeepCourse ==
    ASSUME SettlementInv, NEW r, NEW T, NEW g, Fits(r, g), Kept(T), Keep(r, T),
           ~r.waiting \/ (run.waiting /\ fallen' = fallen /\ DeathsLeft(T, timers))
    PROVE  RunCourse(g) /\ TimerCourse
<1>1. /\ run' = r /\ timers' = T /\ online' = online /\ finalizer' = finalizer
      /\ lastRun' = lastRun
  BY DEF Keep
<1>2. finalizer' \in BOOLEAN
  BY <1>1 DEF SettlementInv, Shape
<1> QED BY <1>1, <1>2, GoingCourse

\* Nobody waits in a run that is cleared.
LEMMA ClearedIs ==
    ASSUME SettlementInv, NEW stage \in 1 .. Ending, In(stage)
    PROVE  /\ run # NilRuntime /\ online /\ run \in Runs /\ CardsOK(run) /\ WaitOK(run)
           /\ ~run.waiting /\ run.stage >= stage /\ run.stage \in Int
BY DEF SettlementInv, Shape, In, WaitOK, Runs, Combat, Ending

\* What was paid in a cleared run fits.
LEMMA PaidFits ==
    ASSUME SettlementInv, run # NilRuntime, ~run.waiting, NEW q, NEW g, Paid(run, q, g)
    PROVE  Fits(q, g) /\ ~q.waiting /\ q.returning = run.returning
BY DEF Paid, Fits, WaitOK

-----------------------------------------------------------------------------
(* The handlers, one by one. *)

\* op16 keeps the invariant: a new run has nothing paid and no timer of its own.
LEMMA NextDungeonKeeps ==
    ASSUME SettlementInv, NextDungeon
    PROVE  SettlementInv' /\ Exits
<1>1. Kept(timers) /\ finalizer \in BOOLEAN
  BY AllKept DEF SettlementInv, Shape
<1>2. RunCourse({}) /\ TimerCourse
  <2>1. MayGo({}) /\ online
    BY DEF MayGo, NextDungeon
  <2>2. Drop \/ ((Begin(timers) \/ Detach(timers)) /\ UNCHANGED finalizer)
    BY DEF NextDungeon
  <2> QED BY <1>1, <2>1, <2>2, DropCourse, BeginCourse, DetachCourse
<1> QED BY <1>2, CourseKeeps DEF NextDungeon, durable, Pays

\* So does what proves that the client is still in the dungeon,
LEMMA EvidenceKeeps ==
    ASSUME SettlementInv, NEW moved \in BOOLEAN, Evidence(moved)
    PROVE  SettlementInv' /\ Exits
<1> DEFINE r == [run EXCEPT !.returning = FALSE, !.op24 = FALSE, !.waiting = @ /\ ~moved]
           T == IF moved THEN Cancel("death", timers) ELSE timers
<1>1. run # NilRuntime /\ run \in Runs /\ CardsOK(run) /\ WaitOK(run)
  BY DEF Evidence, In, SettlementInv, Shape
<1>2. r \in Runs
  BY <1>1 DEF Runs
<1>3. Fits(r, {})
  BY <1>1, <1>2 DEF Fits, CardsOK, WaitOK, Runs
<1>4. Kept(T)
  BY AllKept, CancelKept DEF SettlementInv
<1>5. ~r.waiting \/ (run.waiting /\ fallen' = fallen /\ DeathsLeft(T, timers))
  BY <1>1, AllKept DEF Evidence, Runs, SettlementInv
<1>6. Keep(r, T)
  BY DEF Evidence
<1> HIDE DEF r, T
<1>7. RunCourse({}) /\ TimerCourse
  BY <1>3, <1>4, <1>5, <1>6, KeepCourse
<1> QED BY <1>7, CourseKeeps DEF Evidence, durable, Pays

\* the boss's death, which ends the wait of the dead,
LEMMA BossDieCheckKeeps ==
    ASSUME SettlementInv, BossDieCheck
    PROVE  SettlementInv' /\ Exits
<1> DEFINE r == [run EXCEPT !.waiting = FALSE]
           q == Advance(r, ClearEnabled)
           T == Cancel("death", timers)
<1>1. run # NilRuntime /\ run \in Runs /\ CardsOK(run) /\ WaitOK(run)
  BY DEF BossDieCheck, Active, In, SettlementInv, Shape
<1>2. r \in Runs
  BY <1>1 DEF Runs
<1>3. q \in Runs /\ q = [r EXCEPT !.stage = q.stage]
  <2>1. ClearEnabled \in Combat .. Ending
    BY DEF ClearEnabled, Combat, Ending
  <2> QED BY <1>2, <2>1, Advances
<1>4. Fits(q, {}) /\ ~q.waiting
  <2> HIDE DEF q
  <2> QED BY <1>1, <1>2, <1>3 DEF Fits, CardsOK, WaitOK, Runs
<1>5. Kept(T)
  BY AllKept, CancelKept DEF SettlementInv
<1>6. Drop \/ Keep(q, T)
  BY DEF BossDieCheck
<1> HIDE DEF q, T
<1>7. RunCourse({}) /\ TimerCourse
  BY <1>4, <1>5, <1>6, KeepCourse, DropCourse
<1> QED BY <1>7, CourseKeeps DEF BossDieCheck, durable, Pays

\* op34, op37, op35.
LEMMA SendResultsCourse ==
    ASSUME SettlementInv, run # NilRuntime, NEW r, Fits(r, {}), ~r.waiting, SendResults(r)
    PROVE  RunCourse({}) /\ TimerCourse /\ lastRun' = lastRun
<1> DEFINE q == Advance(r, ResultShown)
<1>1. r \in Runs /\ ResultShown \in Combat .. Ending
  BY DEF Fits, ResultShown, Combat, Ending
<1>2. q \in Runs /\ q = [r EXCEPT !.stage = q.stage]
  BY <1>1, Advances
<1>3. Drop \/ Keep(r, timers) \/ Keep(q, timers)
  BY DEF SendResults
<1>4. Fits(q, {}) /\ ~q.waiting
  <2> HIDE DEF q
  <2> QED BY <1>1, <1>2 DEF Fits, CardsOK, WaitOK, Runs
<1>5. Kept(timers)
  BY AllKept DEF SettlementInv
<1> HIDE DEF q
<1>6. lastRun' = lastRun
  BY <1>3 DEF Drop, Keep
<1> QED BY <1>3, <1>4, <1>5, <1>6, KeepCourse, DropCourse

\* the result, whose receipt is written with the experience it stands for,
LEMMA PlayResultKeeps ==
    ASSUME SettlementInv, PlayResult
    PROVE  SettlementInv' /\ Exits
<1>1. /\ run # NilRuntime /\ online /\ run \in Runs /\ CardsOK(run) /\ WaitOK(run) /\ ~run.waiting
  BY ClearedIs DEF PlayResult, ClearEnabled, Ending
<1>2. Fits(run, {}) /\ Kept(timers)
  BY <1>1, AllKept DEF Fits, SettlementInv
<1>3. CASE run.plan /\ SendResults(run) /\ UNCHANGED <<settled, receipt>>
  <2>1. RunCourse({}) /\ TimerCourse
    BY <1>1, <1>2, <1>3, SendResultsCourse
  <2> QED BY <1>3, <2>1, CourseKeeps DEF PlayResult, death, Pays
<1>4. CASE ~run.plan /\ ProducePlan
  <2> DEFINE r == [run EXCEPT !.plan = TRUE]
  <2>1. run.id \in 1 .. RunBound /\ run.id <= lastRun /\ lastRun \in 0 .. RunBound
    BY <1>1 DEF Runs, SettlementInv, Shape
  <2>2. /\ settled' \in [1 .. RunBound -> {0, 1}]
        /\ receipt' \in [run : 0 .. lastRun, intact : BOOLEAN]
        /\ settled'[run.id] = 1 /\ receipt'.run = run.id
        /\ \A n \in 1 .. RunBound : n > lastRun => settled'[n] = 0
    <3>1. CommitSettlement
      BY <1>4 DEF ProducePlan
    <3>2. CASE receipt = [run |-> run.id, intact |-> TRUE] /\ UNCHANGED <<settled, receipt>>
      BY <2>1, <3>2 DEF SettlementInv, Receipted
    <3>3. CASE /\ receipt.run # run.id
               /\ settled' = [settled EXCEPT ![run.id] = @ + 1]
               /\ receipt' = [run |-> run.id, intact |-> TRUE]
      <4>1. settled[run.id] = 0
        BY <1>1, <2>1, <3>3 DEF SettlementInv, Receipted
      <4> QED BY <2>1, <3>3, <4>1 DEF SettlementInv, Receipted
    <3> QED BY <3>1, <3>2, <3>3 DEF CommitSettlement
  <2>3. r \in Runs
    BY <1>1 DEF Runs
  <2>4. Fits(r, {}) /\ ~r.waiting
    BY <1>1, <2>2, <2>3 DEF Fits, CardsOK, WaitOK, Runs
  <2>5. Keep(run, timers) \/ SendResults(r)
    BY <1>4 DEF ProducePlan
  <2> HIDE DEF r
  <2>6. RunCourse({}) /\ TimerCourse /\ lastRun' = lastRun
    <3>1. CASE Keep(run, timers)
      BY <1>1, <1>2, <3>1, KeepCourse DEF Keep
    <3>2. CASE SendResults(r)
      BY <1>1, <2>4, <3>2, SendResultsCourse
    <3> QED BY <2>5, <3>1, <3>2
  <2>7. deaths' \in 0 .. MaxDeaths /\ Pays({})
    BY DEF PlayResult, death, SettlementInv, Shape, Pays
  <2>8. Shape' /\ Granted' /\ Armed' /\ Exits
    BY <2>6, <2>7, CourseShape, CourseGranted, CourseArmed, CourseExits DEF SettlementInv
  <2>9. ASSUME run' # NilRuntime PROVE run'.id = run.id
    BY <2>1, <2>6, <2>9 DEF RunCourse, Fits
  <2>10. Receipted'
    BY <2>2, <2>6, <2>9 DEF Receipted
  <2> QED BY <2>8, <2>10 DEF SettlementInv
<1> QED BY <1>3, <1>4 DEF PlayResult

\* progress elsewhere, which spoils the receipt but does not take it back,
LEMMA ProgressKeeps ==
    ASSUME SettlementInv, ProgressElsewhere
    PROVE  SettlementInv' /\ Exits
<1>1. /\ UNCHANGED <<online, run, timers, finalizer, settled, granted, lastRun, deaths, fallen>>
      /\ receipt' = [receipt EXCEPT !.intact = FALSE]
  BY DEF ProgressElsewhere, death
<1>2. receipt \in [run : 0 .. lastRun, intact : BOOLEAN]
  BY DEF SettlementInv, Receipted
<1>3. receipt' \in [run : 0 .. lastRun, intact : BOOLEAN] /\ receipt'.run = receipt.run
  BY <1>1, <1>2
<1>4. Shape' /\ Granted' /\ Armed'
  BY <1>1 DEF SettlementInv, Shape, Granted, Armed, CardsOK, WaitOK
<1>5. Receipted'
  BY <1>1, <1>3 DEF SettlementInv, Receipted
<1>6. Exits
  BY <1>1 DEF Exits
<1> QED BY <1>4, <1>5, <1>6 DEF SettlementInv

\* the statistic,
LEMMA StatisticKeeps ==
    ASSUME SettlementInv, Statistic
    PROVE  SettlementInv' /\ Exits
<1> DEFINE r == [run EXCEPT !.stats = TRUE]
<1>1. /\ run # NilRuntime /\ run \in Runs /\ CardsOK(run) /\ WaitOK(run) /\ ~run.waiting
  BY ClearedIs DEF Statistic, ClearEnabled, Ending
<1>2. r \in Runs
  BY <1>1 DEF Runs
<1>3. Fits(r, {}) /\ ~r.waiting
  BY <1>1, <1>2 DEF Fits, CardsOK, WaitOK, Runs
<1>4. Keep(r, timers) /\ Kept(timers)
  BY AllKept DEF Statistic, SettlementInv
<1> HIDE DEF r
<1>5. RunCourse({}) /\ TimerCourse
  BY <1>3, <1>4, KeepCourse
<1> QED BY <1>5, CourseKeeps DEF Statistic, durable, death, Pays

\* A cleared run that goes on to a later phase.
LEMMA AdvanceFits ==
    ASSUME SettlementInv, run # NilRuntime, ~run.waiting, NEW stage \in Combat .. Ending
    PROVE  Fits(Advance(run, stage), {}) /\ ~Advance(run, stage).waiting
<1> DEFINE q == Advance(run, stage)
<1>1. run \in Runs /\ CardsOK(run)
  BY DEF SettlementInv, Shape
<1>2. q \in Runs /\ q = [run EXCEPT !.stage = q.stage]
  BY <1>1, Advances
<1> HIDE DEF q
<1>3. Fits(q, {}) /\ ~q.waiting
  BY <1>1, <1>2 DEF Fits, CardsOK, WaitOK, Runs
<1> QED BY <1>3 DEF q

\* the score,
LEMMA ScoreScrollKeeps ==
    ASSUME SettlementInv, ScoreScroll
    PROVE  SettlementInv' /\ Exits
<1>1. run # NilRuntime /\ ~run.waiting /\ CardScroll \in Combat .. Ending
  BY ClearedIs DEF ScoreScroll, ResultShown, CardScroll, Combat, Ending
<1>2. Fits(Advance(run, CardScroll), {}) /\ ~Advance(run, CardScroll).waiting
  BY <1>1, AdvanceFits
<1>3. Kept(timers) /\ (Drop \/ Keep(Advance(run, CardScroll), timers))
  BY AllKept DEF ScoreScroll, SettlementInv
<1>4. RunCourse({}) /\ TimerCourse
  BY <1>2, <1>3, KeepCourse, DropCourse
<1> QED BY <1>4, CourseKeeps DEF ScoreScroll, durable, death, Pays

\* the cards' layout, which arms a timer that sends nobody home,
LEMMA CardLayoutKeeps ==
    ASSUME SettlementInv, CardLayout
    PROVE  SettlementInv' /\ Exits
<1> DEFINE q == Advance(run, CardsRevealed)
           t == Timer("flip", 0)
<1>1. /\ run # NilRuntime /\ online /\ run \in Runs /\ ~run.waiting
      /\ CardsRevealed \in Combat .. Ending
  BY ClearedIs DEF CardLayout, CardScroll, CardsRevealed, Combat, Ending
<1>2. Fits(q, {}) /\ ~q.waiting
  BY <1>1, AdvanceFits
<1>3. t \in Timers /\ t.kind = "flip" /\ t.run = run.id
  BY <1>1, SettlementAssumption DEF Timer, Timers, Runs
<1>4. Drop \/ Keep(q, timers) \/ Keep(q, timers \cup {t})
  BY DEF CardLayout
<1>5. Kept(timers)
  BY AllKept DEF SettlementInv
<1> HIDE DEF q, t
<1>6. CASE Drop \/ Keep(q, timers)
  <2>1. RunCourse({}) /\ TimerCourse
    BY <1>2, <1>5, <1>6, KeepCourse, DropCourse
  <2> QED BY <2>1, CourseKeeps DEF CardLayout, durable, death, Pays
<1>7. CASE Keep(q, timers \cup {t})
  <2>1. run' = q /\ timers' = timers \cup {t} /\ UNCHANGED <<online, finalizer, lastRun>>
    BY <1>7 DEF Keep
  <2>2. RunCourse({})
    BY <1>1, <1>2, <2>1 DEF RunCourse, SettlementInv, Shape
  <2>3. TimerCourse
    BY <1>1, <1>2, <1>3, <2>1 DEF TimerCourse, SettlementInv, Armed, Same
  <2> QED BY <2>2, <2>3, CourseKeeps DEF CardLayout, durable, death, Pays
<1> QED BY <1>4, <1>6, <1>7

\* What a handler pays in a cleared run, it pays once.
LEMMA GrantPays ==
    ASSUME run # NilRuntime, NEW q, NEW g, Paid(run, q, g), Grant(g)
    PROVE  Pays(g)
BY DEF Paid, Pays

\* A card that is turned is paid once: op71,
LEMMA SelectCardKeeps ==
    ASSUME SettlementInv, NEW side \in Sides, NEW seat \in Seats, SelectCard(side, seat)
    PROVE  SettlementInv' /\ Exits
<1>1. run # NilRuntime /\ run \in Runs /\ CardsOK(run) /\ ~run.waiting
  BY ClearedIs DEF SelectCard, CardsRevealed, Ending
<1>2. PICK o \in Selections(run, side, seat) :
        /\ IF o.ok THEN Keep(o.run, Turned(o.run, timers)) ELSE Drop
        /\ Grant(o.grant)
  BY DEF SelectCard
<1>3. Paid(run, o.run, o.grant)
  BY <1>1, SelectionsPay
<1>4. Fits(o.run, o.grant) /\ ~o.run.waiting
  BY <1>1, <1>3, PaidFits
<1>5. Kept(Turned(o.run, timers))
  BY AllKept, CancelKept DEF SettlementInv
<1>6. RunCourse(o.grant) /\ TimerCourse
  BY <1>2, <1>4, <1>5, KeepCourse, DropCourse
<1>7. Pays(o.grant)
  BY <1>1, <1>2, <1>3, GrantPays
<1> QED BY <1>6, <1>7, CourseKeeps DEF SelectCard, death

\* One timer less.
LEMMA OneLess ==
    ASSUME Armed, NEW t
    PROVE  /\ Kept(timers \ {t})
           /\ t.kind = "flip" => DeathsLeft(timers \ {t}, timers)
BY DEF Armed, Kept, Left, DeathsLeft, Same

\* A stale event only goes away.
LEMMA StaleKeeps ==
    ASSUME SettlementInv, NEW t \in timers, Keep(run, timers \ {t}),
           UNCHANGED <<durable, deaths, fallen>>,
           run # NilRuntime /\ run.waiting => DeathsLeft(timers \ {t}, timers)
    PROVE  SettlementInv' /\ Exits
<1>1. /\ timers' = timers \ {t} /\ Kept(timers \ {t})
      /\ UNCHANGED <<run, online, finalizer, lastRun, receipt, settled, granted>>
  BY OneLess DEF Keep, durable, SettlementInv
<1>2. RunCourse({})
  BY <1>1 DEF RunCourse, MayGo, Fits, SettlementInv, Shape
<1>3. TimerCourse
  BY <1>1, KeptCourse
<1> QED BY <1>1, <1>2, <1>3, CourseKeeps DEF Pays

\* and the timer.
LEMMA FlipFiresKeeps ==
    ASSUME SettlementInv, FlipFires
    PROVE  SettlementInv' /\ Exits
<1>1. PICK t \in timers :
        /\ t.kind = "flip"
        /\ IF /\ In(CardsRevealed) /\ t.run = run.id /\ t.live
              /\ run.pick["free"] = Unchosen
           THEN \E o \in Selections(run, "free", 0) :
                  Keep(o.run, Turned(o.run, timers \ {t})) /\ Grant(o.grant)
           ELSE Keep(run, timers \ {t}) /\ UNCHANGED granted
        /\ UNCHANGED <<receipt, settled, death>>
  BY DEF FlipFires
<1>2. CASE Keep(run, timers \ {t}) /\ UNCHANGED granted
  BY <1>1, <1>2, OneLess, StaleKeeps DEF SettlementInv, durable, death
<1>3. CASE In(CardsRevealed) /\ \E o \in Selections(run, "free", 0) :
                  Keep(o.run, Turned(o.run, timers \ {t})) /\ Grant(o.grant)
  <2>1. run # NilRuntime /\ run \in Runs /\ CardsOK(run) /\ ~run.waiting
    BY <1>3, ClearedIs DEF CardsRevealed, Ending
  <2>2. PICK o \in Selections(run, "free", 0) :
          Keep(o.run, Turned(o.run, timers \ {t})) /\ Grant(o.grant)
    BY <1>3
  <2>3. Paid(run, o.run, o.grant)
    BY <2>1, SelectionsPay, SettlementAssumption DEF Sides
  <2>4. Fits(o.run, o.grant) /\ ~o.run.waiting
    BY <2>1, <2>3, PaidFits
  <2>5. Kept(Turned(o.run, timers \ {t}))
    BY OneLess, CancelKept DEF SettlementInv
  <2>6. RunCourse(o.grant) /\ TimerCourse
    BY <2>2, <2>4, <2>5, KeepCourse
  <2>7. Pays(o.grant)
    BY <2>1, <2>2, <2>3, GrantPays
  <2> QED BY <1>1, <2>6, <2>7, CourseKeeps DEF death
<1> QED BY <1>1, <1>2, <1>3

-----------------------------------------------------------------------------
(* The ways out. *)

\* Behind the barrier the free card is paid.
LEMMA BarrierPaid ==
    ASSUME NEW r, NEW g, Fits(r, g), Barrier(r)
    PROVE  MayGo(g)
BY DEF Fits, CardsOK, Barrier, MayGo, Sides

\* The route to town of a completed run.
LEMMA CompletedReturnCourse ==
    ASSUME SettlementInv, NEW r, NEW T, NEW g, Fits(r, g), ~r.waiting, Kept(T), MayGo(g),
           CompletedReturn(r, T)
    PROVE  RunCourse(g) /\ TimerCourse
<1>1. CASE Drop
  BY <1>1, DropCourse
<1>2. CASE /\ run' = [r EXCEPT !.returning = TRUE]
           /\ timers' = IF r.returning THEN T ELSE Cancel("death", T)
           /\ finalizer' = (finalizer /\ r.returning)
           /\ UNCHANGED <<online, lastRun>>
  <2> DEFINE q == [r EXCEPT !.returning = TRUE]
  <2>1. r \in Runs
    BY DEF Fits
  <2>2. q \in Runs
    BY <2>1 DEF Runs
  <2>3. Fits(q, g) /\ ~q.waiting
    BY <2>1, <2>2 DEF Fits, CardsOK, WaitOK, Runs
  <2>4. Kept(timers') /\ finalizer' \in BOOLEAN /\ run' = q
    BY <1>2, CancelKept
  <2> HIDE DEF q
  <2> QED BY <1>2, <2>3, <2>4, GoingCourse
<1>3. CASE Detach(T) /\ finalizer' = (finalizer /\ r.returning)
  BY <1>3, DetachCourse
<1> QED BY <1>1, <1>2, <1>3 DEF CompletedReturn

\* The same dungeon once more.
LEMMA RetryCourse ==
    ASSUME SettlementInv, NEW r, NEW T, NEW g, Fits(r, g), ~r.waiting, Kept(T),
           Retry(r, T)
    PROVE  RunCourse(g) /\ TimerCourse
<1>1. online
  BY DEF Fits, SettlementInv, Shape
<1>2. finalizer' = FALSE => finalizer' \in BOOLEAN
  OBVIOUS
<1>3. ExitReady(r) => MayGo(g)
  BY BarrierPaid DEF ExitReady
<1> QED BY <1>1, <1>2, <1>3, KeepCourse, DetachCourse, BeginCourse, DropCourse DEF Retry

\* The selector.
LEMMA EnterSelectCourse ==
    ASSUME SettlementInv, NEW r, NEW T, NEW g, Fits(r, g), Kept(T), EnterSelect(r, T),
           r.returning => run.returning,
           ~r.waiting \/ (run.waiting /\ fallen' = fallen /\ DeathsLeft(T, timers))
    PROVE  RunCourse(g) /\ TimerCourse
<1>1. finalizer' = FALSE => finalizer' \in BOOLEAN
  OBVIOUS
<1>2. CASE finalizer' = FALSE /\ run' = r /\ timers' = T /\ UNCHANGED <<online, lastRun>>
  BY <1>1, <1>2, GoingCourse
<1>3. CASE Detach(T) /\ finalizer' = FALSE /\ (r.returning \/ ExitReady(r))
  <2>1. MayGo(g)
    BY <1>3, BarrierPaid DEF ExitReady, MayGo
  <2> QED BY <1>1, <1>3, <2>1, DetachCourse
<1>4. CASE Keep(r, T) \/ Drop
  BY <1>4, KeepCourse, DropCourse
<1> QED BY <1>2, <1>3, <1>4 DEF EnterSelect

\* op72 pays the free card before it lets anybody go.
LEMMA EplpKeeps ==
    ASSUME SettlementInv, NEW option, Eplp(option)
    PROVE  SettlementInv' /\ Exits
<1>1. run # NilRuntime /\ run \in Runs /\ CardsOK(run) /\ ~run.waiting
  BY ClearedIs DEF Eplp, ResultShown, Ending
<1>2. PICK o \in BeforeExit(run) :
        /\ Grant(o.grant)
        /\ LET r == o.run
               T == Turned(r, timers)
               ack == [r EXCEPT !.acked = TRUE]
               end == Advance(ack, Ending)
           IN  \/ Keep(r, T) \/ Drop \/ Keep(ack, T) \/ Keep(end, T)
               \/ Barrier(r) /\ (CompletedReturn(r, T) \/ CompletedReturn(end, T))
               \/ Retry(end, T) \/ EnterSelect(end, T)
  BY DEF Eplp
<1> DEFINE r == o.run
           g == o.grant
           T == Turned(r, timers)
           ack == [r EXCEPT !.acked = TRUE]
           end == Advance(ack, Ending)
<1>3. Paid(run, r, g)
  BY <1>1, BeforeExitPays
<1>4. Fits(r, g) /\ ~r.waiting /\ r \in Runs
  BY <1>1, <1>3, PaidFits DEF Paid
<1>5. Kept(T)
  BY AllKept, CancelKept DEF SettlementInv
<1>6. ack \in Runs
  BY <1>4 DEF Runs
<1>7. Fits(ack, g) /\ ~ack.waiting
  BY <1>4, <1>6 DEF Fits, CardsOK, WaitOK, Runs
<1>8. end \in Runs /\ end = [ack EXCEPT !.stage = end.stage]
  <2>1. Ending \in Combat .. Ending
    BY DEF Combat, Ending
  <2> HIDE DEF ack
  <2> QED BY <1>6, <2>1, Advances
<1>9. Fits(end, g) /\ ~end.waiting
  <2> HIDE DEF ack, end
  <2> QED BY <1>6, <1>7, <1>8 DEF Fits, CardsOK, WaitOK, Runs
<1>10. \/ Keep(r, T) \/ Drop \/ Keep(ack, T) \/ Keep(end, T)
       \/ Barrier(r) /\ (CompletedReturn(r, T) \/ CompletedReturn(end, T))
       \/ Retry(end, T) \/ EnterSelect(end, T)
  BY <1>2
<1>13. Barrier(r) => MayGo(g)
  BY <1>4, BarrierPaid
<1>14. end.returning => run.returning
  <2>1. r.returning = run.returning
    BY <1>3 DEF Paid
  <2>2. ack.returning = r.returning
    BY <1>4 DEF Runs
  <2> HIDE DEF ack, end
  <2> QED BY <1>6, <1>8, <2>1, <2>2 DEF Runs
<1> HIDE DEF r, g, T, ack, end
<1>11. RunCourse(g) /\ TimerCourse
  BY <1>4, <1>5, <1>7, <1>9, <1>10, <1>13, <1>14, KeepCourse, CompletedReturnCourse, DropCourse,
     RetryCourse, EnterSelectCourse
<1>12. Pays(g)
  BY <1>1, <1>2, <1>3, GrantPays DEF g
<1> QED BY <1>11, <1>12, CourseKeeps DEF Eplp, death

\* op24 is out.
LEMMA SendReturnToTownCourse ==
    ASSUME SettlementInv, run # NilRuntime, NEW T, Kept(T),
           run' = [run EXCEPT !.returning = TRUE, !.op24 = TRUE, !.waiting = FALSE],
           finalizer' = TRUE, timers' = Cancel("death", T), UNCHANGED <<online, lastRun>>
    PROVE  RunCourse({}) /\ TimerCourse
<1> DEFINE q == [run EXCEPT !.returning = TRUE, !.op24 = TRUE, !.waiting = FALSE]
<1>1. run \in Runs /\ CardsOK(run)
  BY DEF SettlementInv, Shape
<1>2. q \in Runs
  BY <1>1 DEF Runs
<1>3. Fits(q, {}) /\ ~q.waiting
  BY <1>1, <1>2 DEF Fits, CardsOK, WaitOK, Runs
<1>4. Kept(timers') /\ finalizer' \in BOOLEAN /\ run' = q
  BY CancelKept
<1> HIDE DEF q
<1> QED BY <1>3, <1>4, GoingCourse

\* op42 does so, too, or gives up a run that is active.
LEMMA GiveupKeeps ==
    ASSUME SettlementInv, Giveup
    PROVE  SettlementInv' /\ Exits
<1>1. CASE Active /\ SendReturnToTown(timers, Drop) /\ UNCHANGED granted
  <2>1. run # NilRuntime /\ Kept(timers)
    BY <1>1, AllKept DEF Active, In, SettlementInv
  <2>2. RunCourse({}) /\ TimerCourse
    BY <1>1, <2>1, DropCourse, SendReturnToTownCourse DEF SendReturnToTown
  <2> QED BY <1>1, <2>2, CourseKeeps DEF Giveup, death, Pays
<1>2. CASE /\ In(ResultShown)
           /\ \E o \in BeforeExit(run) :
                /\ Grant(o.grant)
                /\ LET T == Turned(o.run, timers)
                   IN  \/ Keep(o.run, T)
                       \/ Barrier(o.run) /\ CompletedReturn(Advance(o.run, Ending), T)
  <2>1. run # NilRuntime /\ run \in Runs /\ CardsOK(run) /\ ~run.waiting
    BY <1>2, ClearedIs DEF ResultShown, Ending
  <2>2. PICK o \in BeforeExit(run) :
          /\ Grant(o.grant)
          /\ \/ Keep(o.run, Turned(o.run, timers))
             \/ /\ Barrier(o.run)
                /\ CompletedReturn(Advance(o.run, Ending), Turned(o.run, timers))
    BY <1>2
  <2> DEFINE r == o.run
             end == Advance(r, Ending)
             T == Turned(r, timers)
  <2>3. Paid(run, r, o.grant)
    BY <2>1, BeforeExitPays
  <2>4. Fits(r, o.grant) /\ ~r.waiting /\ r \in Runs
    BY <2>1, <2>3, PaidFits DEF Paid
  <2>5. end \in Runs /\ end = [r EXCEPT !.stage = end.stage]
    <3>1. Ending \in Combat .. Ending
      BY DEF Combat, Ending
    <3> HIDE DEF r
    <3> QED BY <2>4, <3>1, Advances
  <2>6. Fits(end, o.grant) /\ ~end.waiting
    <3> HIDE DEF r, end
    <3> QED BY <2>4, <2>5 DEF Fits, CardsOK, WaitOK, Runs
  <2>7. Kept(T)
    BY AllKept, CancelKept DEF SettlementInv
  <2>8. Keep(r, T) \/ (Barrier(r) /\ CompletedReturn(end, T))
    BY <2>2
  <2>11. Barrier(r) => MayGo(o.grant)
    BY <2>4, BarrierPaid
  <2> HIDE DEF r, end, T
  <2>9. RunCourse(o.grant) /\ TimerCourse
    BY <2>4, <2>6, <2>7, <2>8, <2>11, KeepCourse, CompletedReturnCourse
  <2>10. Pays(o.grant)
    BY <2>1, <2>2, <2>3, GrantPays
  <2> QED BY <2>9, <2>10, CourseKeeps DEF Giveup, death
<1> QED BY <1>1, <1>2 DEF Giveup

\* op132 keeps the run until the client is in town.
LEMMA VillageRequestKeeps ==
    ASSUME SettlementInv, VillageRequest
    PROVE  SettlementInv' /\ Exits
<1>0. Kept(timers)
  BY AllKept DEF SettlementInv
<1>1. CASE In(Combat) /\ SendReturnToTown(timers, Drop)
  <2>1. RunCourse({}) /\ TimerCourse
    BY <1>0, <1>1, DropCourse, SendReturnToTownCourse DEF SendReturnToTown, In
  <2> QED BY <2>1, CourseKeeps DEF VillageRequest, durable, death, Pays
<1>2. CASE Drop
  <2>1. RunCourse({}) /\ TimerCourse
    BY <1>2, DropCourse
  <2> QED BY <2>1, CourseKeeps DEF VillageRequest, durable, death, Pays
<1>3. CASE run = NilRuntime /\ finalizer' = TRUE /\ UNCHANGED <<online, run, timers, lastRun>>
  <2>1. RunCourse({})
    BY <1>3 DEF RunCourse, MayGo, SettlementInv, Shape
  <2>2. TimerCourse
    BY <1>0, <1>3, KeptCourse
  <2> QED BY <2>1, <2>2, CourseKeeps DEF VillageRequest, durable, death, Pays
<1> QED BY <1>1, <1>2, <1>3 DEF VillageRequest

\* op15 lets a run go that may go.
LEMMA SelectorRequestKeeps ==
    ASSUME SettlementInv, SelectorRequest
    PROVE  SettlementInv' /\ Exits
<1>0. Kept(timers) /\ DeathsLeft(timers, timers)
  BY AllKept DEF SettlementInv
<1>1. CASE run = NilRuntime /\ finalizer' = FALSE /\ UNCHANGED <<online, run, timers, lastRun>>
  <2>1. RunCourse({})
    BY <1>1 DEF RunCourse, MayGo, SettlementInv, Shape
  <2>2. TimerCourse
    BY <1>0, <1>1, KeptCourse
  <2> QED BY <2>1, <2>2, CourseKeeps DEF SelectorRequest, durable, death, Pays
<1>2. CASE run # NilRuntime /\ EnterSelect(run, timers)
  <2>1. Fits(run, {}) /\ run.waiting \in BOOLEAN /\ (run.returning => run.returning)
    BY <1>2 DEF Fits, SettlementInv, Shape, Runs
  <2>2. fallen' = fallen
    BY DEF SelectorRequest, death
  <2>3. RunCourse({}) /\ TimerCourse
    BY <1>0, <1>2, <2>1, <2>2, EnterSelectCourse
  <2> QED BY <2>3, CourseKeeps DEF SelectorRequest, durable, death, Pays
<1> QED BY <1>1, <1>2 DEF SelectorRequest

\* The request from town ends a return.
LEMMA TownRequestKeeps ==
    ASSUME SettlementInv, TownRequest
    PROVE  SettlementInv' /\ Exits
<1>1. Kept(timers) /\ finalizer \in BOOLEAN
  BY AllKept DEF SettlementInv, Shape
<1>2. MayGo({})
  BY DEF TownRequest, MayGo
<1>3. RunCourse({}) /\ TimerCourse
  BY <1>1, <1>2, DetachCourse, DropCourse DEF TownRequest
<1> QED BY <1>3, CourseKeeps DEF TownRequest, durable, death, Pays

\* Leaving keeps the death timer, but ends its run.
LEMMA LeaveKeeps ==
    ASSUME SettlementInv, Leave
    PROVE  SettlementInv' /\ Exits
<1>1. Kept(timers') /\ run' = NilRuntime
  BY AllKept, CancelKept DEF Leave, SettlementInv
<1>2. RunCourse({}) /\ TimerCourse
  BY <1>1, KeptCourse DEF RunCourse, MayGo, Leave
<1> QED BY <1>2, CourseKeeps DEF Leave, durable, death, Pays

\* So does the end of the connection.
LEMMA UnbindKeeps ==
    ASSUME SettlementInv, Unbind
    PROVE  SettlementInv' /\ Exits
<1>1. RunCourse({}) /\ TimerCourse
  BY DropCourse DEF Unbind
<1> QED BY <1>1, CourseKeeps DEF Unbind, durable, death, Pays

\* A login finds no run.
LEMMA LoginKeeps ==
    ASSUME SettlementInv, Login
    PROVE  SettlementInv' /\ Exits
<1>1. run = NilRuntime /\ run' = NilRuntime /\ Kept(timers')
  BY AllKept DEF Login, SettlementInv, Shape
<1>2. RunCourse({}) /\ TimerCourse
  BY <1>1, KeptCourse DEF RunCourse, MayGo, Login, SettlementInv, Shape
<1> QED BY <1>2, CourseKeeps DEF Login, durable, death, Pays

-----------------------------------------------------------------------------
(* Death. *)

\* A death cancels the timer of the one before it and arms its own.
LEMMA DieKeeps ==
    ASSUME SettlementInv, Die
    PROVE  SettlementInv' /\ Exits
<1> DEFINE n == deaths + 1
           r == [run EXCEPT !.waiting = TRUE]
           t == Timer("death", n)
           T == Cancel("death", timers)
<1>1. /\ run # NilRuntime /\ online /\ run \in Runs /\ CardsOK(run) /\ run.stage = Combat
      /\ ~run.returning
  BY DEF Die, Active, In, SettlementInv, Shape
<1>2. n \in 0 .. MaxDeaths /\ deaths' = n /\ fallen' = n
  BY SettlementAssumption DEF Die, SettlementInv, Shape
<1>3. r \in Runs
  BY <1>1 DEF Runs
<1>4. Fits(r, {}) /\ r.id = run.id
  BY <1>1, <1>3 DEF Fits, CardsOK, WaitOK, Runs
<1>5. Kept(T) /\ \A u \in T : u.kind = "death" => ~u.live
  BY AllKept, CancelKept, CancelLeaves DEF SettlementInv, Kept
<1>6. t \in Timers /\ t.kind = "death" /\ t.run = run.id /\ t.death = n /\ t.live
  BY <1>1, <1>2 DEF Timer, Timers, Runs
<1>7. Drop \/ Keep(r, T \cup {t})
  BY DEF Die
<1> HIDE DEF n, r, t, T
<1>8. RunCourse({})
  <2>1. CASE Drop
    BY <2>1, DropCourse
  <2>2. CASE Keep(r, T \cup {t})
    BY <1>1, <1>4, <2>2 DEF Keep, RunCourse, SettlementInv, Shape
  <2> QED BY <1>7, <2>1, <2>2
<1>9. Shape' /\ Granted' /\ Receipted' /\ Exits
  <2>1. Pays({}) /\ UNCHANGED <<receipt, settled>>
    BY DEF Die, durable, Pays
  <2> QED
    BY <1>2, <1>8, <2>1, CourseShape, CourseGranted, CourseReceipted, CourseExits
    DEF SettlementInv
<1>10. Armed'
  <2>1. CASE Drop
    BY <2>1, <1>8, DropCourse, CourseArmed DEF SettlementInv
  <2>2. CASE Keep(r, T \cup {t})
    <3>1. run' = r /\ timers' = T \cup {t} /\ lastRun' = lastRun
      BY <2>2 DEF Keep
    <3>2. timers' \in SUBSET Timers
      BY <1>5, <1>6, <3>1 DEF Kept
    <3>3. \A u \in timers' : u.run <= lastRun
      BY <1>1, <1>5, <1>6, <3>1 DEF Kept, Left, Same, SettlementInv, Armed, Shape
    <3>4. \E u \in timers' : u.kind = "death" /\ u.run = run'.id /\ u.live
      BY <1>4, <1>6, <3>1
    <3>5. \A u \in timers' : u.kind = "death" /\ u.live => u.death = fallen'
      BY <1>2, <1>5, <1>6, <3>1
    <3> QED BY <3>1, <3>2, <3>3, <3>4, <3>5 DEF Armed
  <2> QED BY <1>7, <2>1, <2>2
<1> QED BY <1>9, <1>10 DEF SettlementInv

\* A revival ends the wait.
LEMMA UseCoinKeeps ==
    ASSUME SettlementInv, UseCoin
    PROVE  SettlementInv' /\ Exits
<1> DEFINE r == [run EXCEPT !.waiting = FALSE]
           T == Cancel("death", timers)
<1>1. run # NilRuntime /\ run \in Runs /\ CardsOK(run)
  BY DEF UseCoin, Active, In, SettlementInv, Shape
<1>2. r \in Runs
  BY <1>1 DEF Runs
<1>3. Fits(r, {}) /\ ~r.waiting
  BY <1>1, <1>2 DEF Fits, CardsOK, WaitOK, Runs
<1>4. Kept(T) /\ (Drop \/ Keep(r, T))
  BY AllKept, CancelKept DEF UseCoin, SettlementInv
<1> HIDE DEF r, T
<1>5. RunCourse({}) /\ TimerCourse
  BY <1>3, <1>4, KeepCourse, DropCourse
<1> QED BY <1>5, CourseKeeps DEF UseCoin, durable, Pays

\* A timer that is handed to the loop is the same timer.
LEMMA TimerDueKeeps ==
    ASSUME SettlementInv, NEW kind, TimerDue(kind)
    PROVE  SettlementInv' /\ Exits
<1>1. PICK t \in timers :
        /\ timers' = (timers \ {t}) \cup {[t EXCEPT !.posted = TRUE]}
        /\ UNCHANGED <<online, run, finalizer, durable, lastRun, death>>
  BY DEF TimerDue
<1> DEFINE u == [t EXCEPT !.posted = TRUE]
<1>2. t \in Timers
  BY DEF SettlementInv, Armed
<1>3. u \in Timers /\ Same(u, t) /\ u.kind = t.kind /\ u.run = t.run /\ (u.live <=> t.live)
  BY <1>2 DEF Timers, Same
<1>4. timers' = (timers \ {t}) \cup {u}
  BY <1>1
<1> HIDE DEF u
<1>5. Kept(timers')
  BY <1>3, <1>4 DEF Kept, Left, Same, SettlementInv, Armed
<1>6. DeathsLeft(timers', timers)
  <2> SUFFICES ASSUME NEW v \in timers, v.kind = "death" /\ v.live
               PROVE  \E w \in timers' : w.kind = "death" /\ w.run = v.run /\ w.live
    BY DEF DeathsLeft
  <2>1. CASE v = t
    BY <1>3, <1>4, <2>1
  <2>2. CASE v # t
    BY <1>4, <2>2
  <2> QED BY <2>1, <2>2
<1>7. RunCourse({})
  BY <1>1 DEF RunCourse, MayGo, Fits, SettlementInv, Shape
<1>8. TimerCourse
  BY <1>1, <1>5, <1>6, KeptCourse DEF death
<1> QED BY <1>1, <1>7, <1>8, CourseKeeps DEF durable, death, Pays

\* A death timer that is stale is not the one that is waited for.
LEMMA StaleDeath ==
    ASSUME SettlementInv, NEW t \in timers,
           ~(Active /\ t.run = run.id /\ run.waiting /\ t.live /\ ~run.returning),
           run # NilRuntime, run.waiting
    PROVE  \E u \in timers \ {t} : u.kind = "death" /\ u.run = run.id /\ u.live
<1>1. Active /\ ~run.returning
  BY DEF SettlementInv, Shape, WaitOK, Active, In, Combat
<1> QED BY <1>1 DEF SettlementInv, Armed

\* The timer that fires is the one that was waited for, or stale.
LEMMA DeathFiresKeeps ==
    ASSUME SettlementInv, DeathFires
    PROVE  SettlementInv' /\ Exits
<1>1. PICK t \in timers :
        /\ IF Active /\ t.run = run.id /\ run.waiting /\ t.live /\ ~run.returning
           THEN SendReturnToTown(timers \ {t},
                                 Keep([run EXCEPT !.returning = TRUE, !.waiting = FALSE],
                                      Cancel("death", timers \ {t})))
           ELSE Keep(run, timers \ {t})
        /\ UNCHANGED <<durable, deaths, fallen>>
  BY DEF DeathFires
<1>2. Kept(timers \ {t})
  BY OneLess DEF SettlementInv
<1>3. CASE /\ Active
           /\ SendReturnToTown(timers \ {t},
                               Keep([run EXCEPT !.returning = TRUE, !.waiting = FALSE],
                                    Cancel("death", timers \ {t})))
  <2> DEFINE r == [run EXCEPT !.returning = TRUE, !.waiting = FALSE]
             T == Cancel("death", timers \ {t})
  <2>1. run # NilRuntime /\ run \in Runs /\ CardsOK(run)
    BY <1>3 DEF Active, In, SettlementInv, Shape
  <2>2. r \in Runs
    BY <2>1 DEF Runs
  <2>3. Fits(r, {}) /\ ~r.waiting
    BY <2>1, <2>2 DEF Fits, CardsOK, WaitOK, Runs
  <2>4. Kept(T)
    BY <1>2, CancelKept
  <2>5. RunCourse({}) /\ TimerCourse
    <3>1. CASE Keep(r, T)
      <4> HIDE DEF r, T
      <4> QED BY <2>3, <2>4, <3>1, KeepCourse
    <3>2. CASE ~Keep(r, T)
      BY <1>2, <1>3, <2>1, <3>2, SendReturnToTownCourse DEF SendReturnToTown
    <3> QED BY <3>1, <3>2
  <2> QED BY <1>1, <2>5, CourseKeeps DEF durable, Pays
<1>4. CASE /\ ~(Active /\ t.run = run.id /\ run.waiting /\ t.live /\ ~run.returning)
           /\ Keep(run, timers \ {t})
  <2>1. UNCHANGED <<run, online, finalizer, lastRun, receipt, settled, granted, deaths, fallen>>
        /\ timers' = timers \ {t}
    BY <1>1, <1>4 DEF Keep, durable
  <2>2. Shape' /\ Granted' /\ Receipted'
    BY <2>1 DEF SettlementInv, Shape, Granted, Receipted, CardsOK, WaitOK
  <2>3. Armed'
    <3>1. run # NilRuntime /\ run.waiting =>
            \E u \in timers' : u.kind = "death" /\ u.run = run.id /\ u.live
      BY <1>4, <2>1, StaleDeath
    <3> QED BY <2>1, <3>1 DEF SettlementInv, Armed
  <2>4. Exits
    BY <2>1 DEF Exits
  <2> QED BY <2>2, <2>3, <2>4 DEF SettlementInv
<1> QED BY <1>1, <1>3, <1>4

-----------------------------------------------------------------------------
(* The invariant. *)

\* It holds at first,
LEMMA SettlementInvInit ==
    ASSUME SettlementInit
    PROVE  SettlementInv
<1>0. run = NilRuntime /\ lastRun = 0
  BY DEF SettlementInit
<1>1. Shape /\ Armed
  <2>1. 0 \in 0 .. RunBound /\ 0 \in 0 .. MaxDeaths
    BY SettlementAssumption
  <2>2. Shape
    BY <1>0, <2>1 DEF SettlementInit, Shape
  <2>3. Armed
    BY <1>0 DEF SettlementInit, Armed
  <2> QED BY <2>2, <2>3
<1>3. Granted
  BY <1>0 DEF SettlementInit, Granted
<1>2. Receipted
  BY SettlementAssumption DEF SettlementInit, Receipted
<1> QED BY <1>1, <1>2, <1>3 DEF SettlementInv

\* and every step keeps it, and lets no run go before its time.
LEMMA SettlementInvNext ==
    ASSUME SettlementInv, [SettlementNext]_settlementVars
    PROVE  SettlementInv' /\ Exits
<1>1. CASE UNCHANGED settlementVars
  BY <1>1
  DEF settlementVars, Exits, durable, death, SettlementInv, Shape, Granted, Receipted, Armed,
              CardsOK, WaitOK
<1>2. CASE SettlementNext
  BY <1>2, NextDungeonKeeps, BossDieCheckKeeps, PlayResultKeeps, ProgressKeeps, StatisticKeeps,
     EvidenceKeeps, ScoreScrollKeeps, CardLayoutKeeps, SelectCardKeeps, EplpKeeps, GiveupKeeps,
     VillageRequestKeeps, SelectorRequestKeeps, TownRequestKeeps, LeaveKeeps, UnbindKeeps,
     LoginKeeps, DieKeeps, UseCoinKeeps, TimerDueKeeps, FlipFiresKeeps, DeathFiresKeeps
  DEF SettlementNext
<1> QED BY <1>1, <1>2

\* SettlementInv is an invariant of the settlement.
THEOREM SettlementInvHolds ==
    SettlementSpec => []SettlementInv
<1>1. SettlementInit => SettlementInv
  BY SettlementInvInit
<1>2. SettlementInv /\ [SettlementNext]_settlementVars => SettlementInv'
  BY SettlementInvNext
<1> QED BY <1>1, <1>2, PTL DEF SettlementSpec

\* A run is settled at most once, each of its cards is paid at most once, and
\* what it records as settled or paid has been, whatever failed and was
\* repeated (CommitSettlement, commitCurrentDungeonCardSideRewardLocked).
THEOREM RewardedOnce ==
    SettlementSpec => []RewardsOnce
<1>1. SettlementInv => RewardsOnce
  <2> SUFFICES ASSUME SettlementInv PROVE RewardsOnce
    OBVIOUS
  <2>1. SettlementTypeOK
    BY DEF SettlementInv, Shape, Armed, SettlementTypeOK, CardsOK, Runs
  <2>2. \A n \in 1 .. RunBound : settled[n] <= 1 /\ \A s \in Sides : granted[n][s] <= 1
    BY DEF SettlementInv, Granted, Receipted
  <2>3. run # NilRuntime =>
          /\ run.plan => settled[run.id] = 1
          /\ \A s \in Sides : run.done[s] => granted[run.id][s] = 1
    BY DEF SettlementInv, Shape, CardsOK, Granted, Receipted
  <2> QED BY <2>1, <2>2, <2>3 DEF RewardsOnce
<1> QED BY <1>1, SettlementInvHolds, PTL

\* A timer sends a character home only for the death it still lies dead of
\* (fireCurrentDungeonDeathReturn).
THEOREM OnlyTheDeadReturn ==
    SettlementSpec => ReturnFollowsDeath
<1>1. SettlementInv /\ [SettlementNext]_settlementVars =>
        [sentHome' # sentHome => sentHome' = fallen]_settlementVars
  <2> SUFFICES ASSUME SettlementInv, SettlementNext, sentHome' # sentHome
               PROVE  sentHome' = fallen
    BY DEF settlementVars, death
  <2>1. DeathFires
    BY DEF SettlementNext, NextDungeon, BossDieCheck, PlayResult, ProgressElsewhere, Statistic,
           Evidence, ScoreScroll, CardLayout, SelectCard, Eplp, Giveup, VillageRequest,
           SelectorRequest, TownRequest, Leave, Unbind, Login, Die, UseCoin, TimerDue, FlipFires, death
  <2>2. PICK t \in timers : /\ t.kind = "death" /\ Active /\ t.run = run.id /\ run.waiting
                            /\ t.live /\ sentHome' = t.death
    BY <2>1 DEF DeathFires
  <2> QED BY <2>2 DEF SettlementInv, Armed, Active, In
<1> QED BY <1>1, SettlementInvHolds, PTL DEF SettlementSpec, ReturnFollowsDeath

\* A connected player's completed run is let go without its free card only by
\* an op16 or to end a return to town (completedDungeonSettlementExitReady and
\* the barrier of op72 and op42).
THEOREM CardBeforeExit ==
    SettlementSpec => PaidBeforeExit
<1>1. SettlementInv /\ [SettlementNext]_settlementVars =>
        [/\ run # NilRuntime /\ run.stage # Combat
         /\ online' /\ (run' = NilRuntime \/ run'.id # run.id)
         => granted'[run.id]["free"] = 1 \/ run.returning \/ NextDungeon]_settlementVars
  BY SettlementInvNext DEF Exits
<1> QED BY <1>1, SettlementInvHolds, PTL DEF SettlementSpec, PaidBeforeExit
=============================================================================
