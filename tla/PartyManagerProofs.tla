------------------------- MODULE PartyManagerProofs -------------------------
(***************************************************************************)
(* Proofs about PartyManager for every set of characters and generations,  *)
(* every member limit and every size of the id space.                      *)
(***************************************************************************)
EXTENDS PartyManager, Foundations, TLAPS

\* A well-formed party: typed, led from slot zero, one seat per member.
PartyGood(P) == P \in PartyRec /\ Headed(P) /\ Seated(P)

-----------------------------------------------------------------------------
(* One party. *)

\* FirstIn picks the least element of a nonempty set of slots.
LEMMA FirstInMin ==
    ASSUME NEW S \in SUBSET Slots, S # {}
    PROVE  FirstIn(S) \in S /\ \A j \in S : FirstIn(S) <= j
<1>1. S \in SUBSET Nat
  BY SizeAssumption DEF Slots
<1>2. \E k \in S : \A j \in S : k <= j
  BY <1>1, NatMin
<1> QED BY <1>2 DEF FirstIn

\* In a party with one seat per member, SlotOf is the member's seat.
LEMMA SlotOfSeat ==
    ASSUME NEW P \in PartyRec, Seated(P), NEW u, HasMember(P, u)
    PROVE  /\ SlotOf(P, u) \in Slots
           /\ At(P, SlotOf(P, u), u)
           /\ \A k \in Slots : At(P, k, u) => k = SlotOf(P, u)
<1>1. PICK k \in Slots : At(P, k, u)
  BY DEF HasMember
<1>2. \A j \in Slots : At(P, j, u) => j = k
  BY <1>1 DEF Seated, At
<1>3. k \in Int
  BY SizeAssumption DEF Slots
<1>4. At(P, k, u) /\ \A j \in Slots : At(P, j, u) => k <= j
  BY <1>1, <1>2, <1>3
<1>5. SlotOf(P, u) \in Slots /\ At(P, SlotOf(P, u), u)
  BY <1>4 DEF SlotOf
<1> QED BY <1>2, <1>5

\* The member record found for a listed character is well typed.
LEMMA MemberType ==
    ASSUME NEW P \in PartyRec, Seated(P), NEW u, HasMember(P, u)
    PROVE  /\ Member(P, u) \in MemberRec
           /\ Member(P, u).user = u
           /\ u \in Users
BY SlotOfSeat DEF Member, At, PartyRec, MemberRec

\* add: the new member sits in a free seat and nobody else moves.
LEMMA AddGood ==
    ASSUME NEW P \in PartyRec, Seated(P), NEW u \in Users, NEW g \in Gens,
           CanAdd(P, u)
    PROVE  /\ Add(P, u, g) \in PartyRec
           /\ Seated(Add(P, u, g))
           /\ Headed(P) => Headed(Add(P, u, g))
           /\ \A w : HasMember(Add(P, u, g), w) <=> HasMember(P, w) \/ w = u
<1> DEFINE k == FirstIn(FreeSlots(P))
           Q == Add(P, u, g)
<1>1. k \in Slots /\ P.members[k] = NoMember
  <2>1. FreeSlots(P) \in SUBSET Slots /\ FreeSlots(P) # {}
    BY DEF FreeSlots, CanAdd
  <2> QED BY <2>1, FirstInMin DEF FreeSlots
<1>2. Q = [P EXCEPT !.members = [P.members EXCEPT ![k] = Seat(u, g, k)]]
  BY DEF Add
<1>3. Seat(u, g, k) \in MemberRec /\ Seat(u, g, k) # NoMember
  BY <1>1, NilAssumption DEF Seat, MemberRec
<1> HIDE DEF k, Q
<1>4. /\ Q.leader = P.leader /\ Q.limit = P.limit
      /\ Q.members[k] = Seat(u, g, k)
      /\ \A j \in Slots : j # k => Q.members[j] = P.members[j]
      /\ Q \in PartyRec
  BY <1>1, <1>2, <1>3 DEF PartyRec
<1>5. At(Q, k, u) /\ Q.members[k].slot = k
  BY <1>3, <1>4 DEF At, Seat
<1>6. ASSUME NEW j \in Slots, j # k, NEW w PROVE At(Q, j, w) <=> At(P, j, w)
  BY <1>4, <1>6 DEF At
<1>7. \A j \in Slots : ~ At(P, j, u)
  BY DEF CanAdd, HasMember
<1>8. ~ \E w : At(P, k, w)
  BY <1>1 DEF At
<1>9. \A w : At(Q, k, w) => w = u
  BY <1>5 DEF At
<1>10. \A w : HasMember(Q, w) <=> HasMember(P, w) \/ w = u
  BY <1>1, <1>5, <1>6, <1>8, <1>9 DEF HasMember
<1>11. Seated(Q)
  <2> SUFFICES ASSUME NEW j \in Slots, Q.members[j] # NoMember
               PROVE  /\ Q.members[j].slot = j
                      /\ \A i \in Slots : At(Q, i, Q.members[j].user) => i = j
    BY DEF Seated
  <2>1. CASE j = k
    BY <2>1, <1>5, <1>6, <1>7 DEF At
  <2>2. CASE j # k
    <3>1. Q.members[j] = P.members[j]
      BY <2>2, <1>4
    <3>2. At(P, j, P.members[j].user)
      BY <3>1 DEF At
    <3>3. P.members[j].user # u
      BY <3>2, <1>7
    <3>4. ~ At(Q, k, Q.members[j].user)
      BY <3>1, <3>3, <1>9
    <3> QED BY <3>1, <3>4, <1>6 DEF Seated
  <2> QED BY <2>1, <2>2
<1>12. Headed(P) => Headed(Q)
  <2>1. 0 \in Slots
    BY SizeAssumption DEF Slots
  <2>2. Headed(P) => k # 0
    BY <1>1 DEF Headed, At
  <2> QED BY <2>1, <2>2, <1>4, <1>6 DEF Headed
<1> QED BY <1>4, <1>10, <1>11, <1>12 DEF Q

\* A lobby just created lists its creator alone, in slot zero.
LEMMA NewPartyGood ==
    ASSUME NEW u \in Users, NEW g \in Gens, NEW n \in 1 .. MaxMembers
    PROVE  /\ PartyGood(Add(EmptyParty(u, n), u, g))
           /\ \A w : HasMember(Add(EmptyParty(u, n), u, g), w) <=> w = u
<1> DEFINE E == EmptyParty(u, n)
           Q == Add(E, u, g)
<1>1. 0 \in Slots
  BY SizeAssumption DEF Slots
<1>2. E \in PartyRec /\ (\A k \in Slots : E.members[k] = NoMember)
      /\ E.limit = n /\ E.leader = u
  BY DEF EmptyParty, PartyRec
<1> HIDE DEF E
<1>3. Seated(E) /\ \A w : ~ HasMember(E, w)
  BY <1>2 DEF Seated, HasMember, At
<1>4. Count(E) = 0
  <2>1. {k \in Slots : E.members[k] # NoMember} = {}
    BY <1>2
  <2> QED BY <2>1, FS_EmptySet, Zenon DEF Count
<1>5. ~ Full(E)
  BY <1>2, <1>4 DEF Full
<1>6. FreeSlots(E) = Slots
  BY <1>2 DEF FreeSlots
<1>7. CanAdd(E, u)
  BY <1>1, <1>3, <1>5, <1>6 DEF CanAdd
<1>8. /\ Q \in PartyRec /\ Seated(Q)
      /\ \A w : HasMember(Q, w) <=> HasMember(E, w) \/ w = u
  BY <1>2, <1>3, <1>7, AddGood
<1>9. FirstIn(FreeSlots(E)) = 0
  <2>1. FirstIn(Slots) \in Slots /\ \A j \in Slots : FirstIn(Slots) <= j
    BY <1>1, FirstInMin
  <2> QED BY <2>1, <1>1, <1>6, SizeAssumption DEF Slots
<1>10. Q.leader = u /\ Q.members[0] = Seat(u, g, 0)
  BY <1>1, <1>2, <1>7, <1>9 DEF Add, PartyRec
<1>11. Headed(Q)
  BY <1>1, <1>10, NilAssumption DEF Headed, At, Seat, MemberRec
<1> QED BY <1>3, <1>8, <1>11 DEF PartyGood, E

\* remove: exactly the character given disappears; the leader keeps slot zero
\* unless it is the one who goes.
LEMMA RemoveGood ==
    ASSUME NEW P, PartyGood(P), NEW u, HasMember(P, u)
    PROVE  /\ Remove(P, u) \in PartyRec
           /\ Remove(P, u).leader = P.leader
           /\ Seated(Remove(P, u))
           /\ u # P.leader => Headed(Remove(P, u))
           /\ \A w : HasMember(Remove(P, u), w) <=> HasMember(P, w) /\ w # u
<1> DEFINE k == SlotOf(P, u)
           Q == Remove(P, u)
<1>1. P \in PartyRec /\ Headed(P) /\ Seated(P)
  BY DEF PartyGood
<1>2. k \in Slots /\ At(P, k, u) /\ \A j \in Slots : At(P, j, u) => j = k
  BY <1>1, SlotOfSeat
<1>3. Q = [P EXCEPT !.members = [P.members EXCEPT ![k] = NoMember]]
  BY DEF Remove
<1> HIDE DEF k, Q
<1>4. /\ Q.leader = P.leader /\ Q.limit = P.limit
      /\ Q.members[k] = NoMember
      /\ \A j \in Slots : j # k => Q.members[j] = P.members[j]
      /\ Q \in PartyRec
  BY <1>1, <1>2, <1>3 DEF PartyRec
<1>5. ASSUME NEW j \in Slots, j # k, NEW w PROVE At(Q, j, w) <=> At(P, j, w)
  BY <1>4, <1>5 DEF At
<1>6. \A w : ~ At(Q, k, w)
  BY <1>4 DEF At
<1>7. \A w : At(P, k, w) => w = u
  BY <1>2 DEF At
<1>8. \A w : HasMember(Q, w) <=> HasMember(P, w) /\ w # u
  BY <1>2, <1>5, <1>6, <1>7 DEF HasMember
<1>9. Seated(Q)
  <2> SUFFICES ASSUME NEW j \in Slots, Q.members[j] # NoMember
               PROVE  /\ Q.members[j].slot = j
                      /\ \A i \in Slots : At(Q, i, Q.members[j].user) => i = j
    BY DEF Seated
  <2>1. j # k /\ Q.members[j] = P.members[j]
    BY <1>4
  <2> QED BY <2>1, <1>1, <1>5, <1>6 DEF Seated
<1>10. u # P.leader => Headed(Q)
  <2>1. 0 \in Slots
    BY SizeAssumption DEF Slots
  <2>2. u # P.leader => k # 0
    BY <1>1, <1>7 DEF Headed
  <2> QED BY <2>1, <2>2, <1>1, <1>4, <1>5 DEF Headed
<1> QED BY <1>4, <1>8, <1>9, <1>10 DEF Q

\* membersBySlot()[0] is a member of the party.
LEMMA SuccessorListed ==
    ASSUME NEW P \in PartyRec, ~ Vacant(P)
    PROVE  HasMember(P, Successor(P))
<1> DEFINE k == FirstIn(Slots \ FreeSlots(P))
<1>1. Slots \ FreeSlots(P) \in SUBSET Slots /\ Slots \ FreeSlots(P) # {}
  BY DEF FreeSlots, Vacant
<1>2. k \in Slots /\ P.members[k] # NoMember
  BY <1>1, FirstInMin DEF FreeSlots
<1>3. At(P, k, Successor(P))
  BY <1>2 DEF At, Successor
<1> QED BY <1>2, <1>3 DEF HasMember

\* rebuildLocked: the new leader sits in slot zero, everybody listed was
\* listed before, and nobody is listed twice.
LEMMA RebuiltGood ==
    ASSUME NEW P \in PartyRec, Seated(P), NEW u, HasMember(P, u)
    PROVE  /\ PartyGood(Rebuilt(P, u))
           /\ HasMember(Rebuilt(P, u), u)
           /\ \A w : HasMember(Rebuilt(P, u), w) => HasMember(P, w)
<1> DEFINE R == Rebuilt(P, u)
           From(r) == CHOOSE k \in Slots : Follows(P, u, k, r)
<1>1. 0 \in Slots /\ u \in Users /\ Member(P, u) \in MemberRec
  BY MemberType, SizeAssumption DEF Slots
<1>2. R.leader = u /\ R.limit = P.limit /\ R.limit \in 1 .. MaxMembers
  BY DEF Rebuilt, PartyRec
<1>3. R.members[0] = Seat(u, Member(P, u).gen, 0)
  BY <1>1 DEF Rebuilt
<1>4. Seat(u, Member(P, u).gen, 0) \in MemberRec
  BY <1>1 DEF Seat, MemberRec
<1>5. ASSUME NEW r \in Slots, r # 0, R.members[r] # NoMember
      PROVE  /\ From(r) \in Slots
             /\ Follows(P, u, From(r), r)
             /\ R.members[r] = Seat(P.members[From(r)].user, P.members[From(r)].gen, r)
  <2>1. \E k \in Slots : Follows(P, u, k, r)
    BY <1>5 DEF Rebuilt
  <2>2. From(r) \in Slots /\ Follows(P, u, From(r), r)
    BY <2>1
  <2> QED BY <1>5, <2>1, <2>2 DEF Rebuilt
<1>6. R.members = [r \in Slots |-> R.members[r]]
  BY DEF Rebuilt
<1>7. R = [leader |-> R.leader, limit |-> R.limit, members |-> R.members]
  BY DEF Rebuilt
<1> HIDE DEF R, From
<1>8. ASSUME NEW r \in Slots, r # 0, R.members[r] # NoMember
      PROVE  /\ R.members[r] \in MemberRec
             /\ R.members[r].slot = r
             /\ R.members[r].user # u
             /\ At(P, From(r), R.members[r].user)
  <2>1. P.members[From(r)] # NoMember /\ P.members[From(r)].user # u
    BY <1>5, <1>8 DEF Follows
  <2>2. P.members[From(r)] \in MemberRec
    BY <2>1, <1>5, <1>8 DEF PartyRec
  <2>3. R.members[r] = Seat(P.members[From(r)].user, P.members[From(r)].gen, r)
    BY <1>5, <1>8
  <2>4. R.members[r].user = P.members[From(r)].user /\ R.members[r].slot = r
    BY <2>3 DEF Seat
  <2>5. R.members[r] \in MemberRec
    BY <2>2, <2>3 DEF Seat, MemberRec
  <2> QED BY <2>1, <2>4, <2>5 DEF At
<1>9. ASSUME NEW r \in Slots, NEW q \in Slots, r # 0, q # 0,
             R.members[r] # NoMember, R.members[q] # NoMember,
             R.members[r].user = R.members[q].user
      PROVE  r = q
  <2>1. /\ From(r) \in Slots /\ From(q) \in Slots
        /\ At(P, From(r), R.members[r].user)
        /\ At(P, From(q), R.members[r].user)
    BY <1>5, <1>8, <1>9
  <2>2. From(r) = From(q)
    BY <2>1 DEF Seated, At
  <2>3. Follows(P, u, From(r), r) /\ Follows(P, u, From(r), q)
    BY <1>5, <1>9, <2>2
  <2> QED BY <2>3, Zenon DEF Follows
<1>10. R \in PartyRec
  <2>1. R.members \in [Slots -> MemberRec \cup {NoMember}]
    BY <1>3, <1>4, <1>6, <1>8
  <2> QED BY <1>1, <1>2, <1>7, <2>1 DEF PartyRec
<1>11. R.members[0] # NoMember /\ R.members[0].user = u /\ R.members[0].slot = 0
  BY <1>3, <1>4, NilAssumption DEF Seat
<1>12. Headed(R) /\ HasMember(R, u)
  BY <1>1, <1>2, <1>11 DEF Headed, HasMember, At
<1>13. Seated(R)
  <2> SUFFICES ASSUME NEW k \in Slots, R.members[k] # NoMember,
                      NEW j \in Slots, At(R, j, R.members[k].user)
               PROVE  R.members[k].slot = k /\ j = k
    BY <1>11, <1>8 DEF Seated
  <2>1. R.members[k].slot = k
    BY <1>8, <1>11
  <2>2. R.members[j] # NoMember /\ R.members[j].user = R.members[k].user
    BY DEF At
  <2>3. CASE j = 0 \/ k = 0
    BY <2>1, <2>2, <2>3, <1>8, <1>11
  <2>4. CASE j # 0 /\ k # 0
    BY <2>1, <2>2, <2>4, <1>9
  <2> QED BY <2>1, <2>3, <2>4
<1>14. \A w : HasMember(R, w) => HasMember(P, w)
  BY <1>5, <1>8, <1>11 DEF HasMember, At
<1> QED BY <1>10, <1>12, <1>13, <1>14 DEF PartyGood, R

-----------------------------------------------------------------------------
(* Id allocation. *)

\* nextPartyIDLocked finds a free id whenever one exists: the first in scan
\* order.
LEMMA FreshFound ==
    ASSUME NEW s \in ManagerRec, NEW f \in PartyIDs, FreeID(s, f)
    PROVE  /\ FreshID(s) \in PartyIDs
           /\ FreeID(s, FreshID(s))
           /\ \A j \in PartyIDs : FreeID(s, j)
                => Attempts(s, FreshID(s)) <= Attempts(s, j)
<1> DEFINE S == {Attempts(s, i) : i \in {x \in PartyIDs : FreeID(s, x)}}
<1>1. s.nextID \in PartyIDs
  BY DEF ManagerRec
<1>2. \A i \in PartyIDs : Attempts(s, i) \in Nat
  BY <1>1, SizeAssumption DEF Attempts, PartyIDs
<1>3. S \in SUBSET Nat /\ S # {}
  BY <1>2
<1>4. \E n \in S : \A m \in S : n <= m
  BY <1>3, NatMin
<1>5. \E i \in PartyIDs :
         /\ FreeID(s, i)
         /\ \A j \in PartyIDs : FreeID(s, j) => Attempts(s, i) <= Attempts(s, j)
  BY <1>4
<1> QED BY <1>5 DEF FreshID

\* nextPartyIDLocked returns 0 or a free id, and leaves nextID in range.
LEMMA FreshType ==
    ASSUME NEW s \in ManagerRec
    PROVE  /\ FreshID(s) = 0 \/ (FreshID(s) \in PartyIDs /\ FreeID(s, FreshID(s)))
           /\ NextAfter(s) \in PartyIDs
<1>1. CASE \E f \in PartyIDs : FreeID(s, f)
  <2>1. FreshID(s) \in PartyIDs /\ FreeID(s, FreshID(s))
    BY <1>1, FreshFound
  <2>2. NextOf(FreshID(s)) \in PartyIDs
    BY <2>1, SizeAssumption DEF NextOf, PartyIDs
  <2> QED BY <2>1, <2>2 DEF NextAfter, ManagerRec
<1>2. CASE ~ \E f \in PartyIDs : FreeID(s, f)
  BY <1>2 DEF FreshID, NextAfter, ManagerRec
<1> QED BY <1>1, <1>2

\* Right behind an id i the scan reaches i last: it is never taken while
\* another id is free.
LEMMA ReservedLast ==
    ASSUME NEW s \in ManagerRec, NEW i \in PartyIDs, s.nextID = NextOf(i),
           NEW f \in PartyIDs, FreeID(s, f), f # i
    PROVE  FreshID(s) # i
<1>1. Attempts(s, f) < Attempts(s, i)
  BY SizeAssumption DEF Attempts, NextOf, PartyIDs
<1>2. Attempts(s, FreshID(s)) <= Attempts(s, f)
  BY FreshFound
<1>3. Attempts(s, f) \in Int /\ Attempts(s, i) \in Int
  BY SizeAssumption DEF Attempts, NextOf, PartyIDs
<1> QED BY <1>1, <1>2, <1>3

-----------------------------------------------------------------------------
(* Manager values. *)

\* The inductive invariant: TypeOK, LeaderAtSlotZero, IndexSound and
\* SeatsConsistent together; none of them is inductive alone.
Good(s) ==
    /\ s \in ManagerRec
    /\ SlotZeroOK(s)
    /\ IndexOK(s)
    /\ SeatsOK(s)

\* Good, read party by party and character by character.
LEMMA GoodParts ==
    ASSUME NEW s, Good(s)
    PROVE  /\ s \in ManagerRec
           /\ s.parties[0] = NoParty
           /\ \A p \in PartyIDs : s.parties[p] # NoParty => PartyGood(s.parties[p])
           /\ \A u \in Users : s.byUser[u] # 0 =>
                /\ s.byUser[u] \in PartyIDs
                /\ s.parties[s.byUser[u]] # NoParty
                /\ HasMember(s.parties[s.byUser[u]], u)
<1>1. s \in ManagerRec /\ s.parties[0] = NoParty
  BY DEF Good, IndexOK
<1>2. ASSUME NEW p \in PartyIDs, s.parties[p] # NoParty PROVE PartyGood(s.parties[p])
  <2>1. s.parties[p] \in PartyRec
    BY <1>1, <1>2, SizeAssumption DEF ManagerRec, PartyIDs
  <2> QED BY <2>1, <1>2 DEF Good, SlotZeroOK, SeatsOK, PartyGood
<1>3. ASSUME NEW u \in Users, s.byUser[u] # 0
      PROVE  /\ s.byUser[u] \in PartyIDs
             /\ s.parties[s.byUser[u]] # NoParty
             /\ HasMember(s.parties[s.byUser[u]], u)
  <2>1. s.byUser[u] \in PartyIDs
    BY <1>1, <1>3, SizeAssumption DEF ManagerRec, PartyIDs
  <2> QED BY <2>1, <1>3 DEF Good, IndexOK, InParty
<1> QED BY <1>1, <1>2, <1>3

\* The converse: a manager value with these parts is Good.
LEMMA GoodIntro ==
    ASSUME NEW s \in ManagerRec, s.parties[0] = NoParty,
           \A p \in PartyIDs : s.parties[p] # NoParty => PartyGood(s.parties[p]),
           \A u \in Users : s.byUser[u] # 0 =>
                /\ s.parties[s.byUser[u]] # NoParty
                /\ HasMember(s.parties[s.byUser[u]], u)
    PROVE  Good(s)
BY DEF Good, SlotZeroOK, SeatsOK, IndexOK, InParty, PartyGood

\* A character found by partyMemberLocked sits in a well-formed live party.
LEMMA InPartyParts ==
    ASSUME NEW s, Good(s), NEW u \in Users, InParty(s, u)
    PROVE  /\ s.byUser[u] \in PartyIDs
           /\ PartyOf(s, u) = s.parties[s.byUser[u]]
           /\ s.parties[s.byUser[u]] # NoParty
           /\ PartyGood(s.parties[s.byUser[u]])
           /\ HasMember(s.parties[s.byUser[u]], u)
<1>1. s.byUser[u] # 0
  BY GoodParts DEF InParty
<1> QED BY <1>1, GoodParts DEF PartyOf

\* clearInvitesForLocked leaves well-formed entries or none.
LEMMA ClearInvitesType ==
    ASSUME NEW s \in ManagerRec, NEW u, NEW g
    PROVE  ClearInvites(s, u, g) \in [Users -> InviteRec \cup {NoInvite}]
BY DEF ClearInvites, ManagerRec

\* normalizeRuntimePartySettings yields a limit between 1 and the maximum.
LEMMA NormalLimitType ==
    ASSUME NEW n \in Limits
    PROVE  NormalLimit(n) \in 1 .. MaxMembers
BY SizeAssumption DEF NormalLimit

\* What Reform changes: id is the fresh id, never the one just reserved by
\* Create because the retired id p is free and closer in scan order.
LEMMA ReformShape ==
    ASSUME NEW s \in ManagerRec, NEW p \in PartyIDs, NEW P \in PartyRec,
           Seated(P), NEW u, HasMember(P, u)
    PROVE  \E id \in PartyIDs :
             /\ id = p \/ s.parties[id] = NoParty
             /\ \A i \in PartyIDs : i # p /\ s.nextID = NextOf(i) => id # i
             /\ Reform(s, p, P, u) \in ManagerRec
             /\ \A q \in 0 .. MaxPartyID : Reform(s, p, P, u).parties[q] =
                  IF q = id THEN Rebuilt(P, u)
                  ELSE IF q = p THEN NoParty ELSE s.parties[q]
             /\ \A w \in Users : Reform(s, p, P, u).byUser[w] =
                  IF HasMember(Rebuilt(P, u), w) THEN id
                  ELSE IF HasMember(P, w) THEN 0 ELSE s.byUser[w]
<1> DEFINE R == Rebuilt(P, u)
           rp == [s.parties EXCEPT ![p] = NoParty]
           rb == [w \in Users |-> IF HasMember(P, w) THEN 0 ELSE s.byUser[w]]
           t == [s EXCEPT !.parties = rp, !.byUser = rb]
           id == FreshID(t)
           tp == [t.parties EXCEPT ![id] = R]
           tb == [w \in Users |-> IF HasMember(R, w) THEN id ELSE t.byUser[w]]
           n == NextAfter(t)
<1>1. p \in 0 .. MaxPartyID /\ 0 \in 0 .. MaxPartyID
  BY SizeAssumption DEF PartyIDs
<1>2. rp \in [0 .. MaxPartyID -> PartyRec \cup {NoParty}]
      /\ rb \in [Users -> 0 .. MaxPartyID]
  BY <1>1 DEF ManagerRec
<1>3. R \in PartyRec
  BY RebuiltGood DEF PartyGood
<1> HIDE DEF R, rp, rb
<1>4. /\ t \in ManagerRec /\ t.parties = rp /\ t.byUser = rb
      /\ t.nextID = s.nextID /\ t.invites = s.invites
  BY <1>2 DEF ManagerRec
<1>5. Reform(s, p, P, u) = [t EXCEPT !.nextID = n, !.parties = tp, !.byUser = tb]
  BY DEF Reform, R, rp, rb
<1> HIDE DEF t
<1>6. FreeID(t, p)
  BY <1>1, <1>4 DEF FreeID, rp, ManagerRec
<1>7. id \in PartyIDs /\ FreeID(t, id) /\ n \in PartyIDs
  BY <1>4, <1>6, FreshFound, FreshType, SizeAssumption DEF PartyIDs
<1>8. \A i \in PartyIDs : i # p /\ s.nextID = NextOf(i) => id # i
  BY <1>4, <1>6, ReservedLast
<1> HIDE DEF id, n
<1>9. id \in 0 .. MaxPartyID
  BY <1>7, SizeAssumption DEF PartyIDs
<1>10. tp \in [0 .. MaxPartyID -> PartyRec \cup {NoParty}]
       /\ tb \in [Users -> 0 .. MaxPartyID]
  BY <1>3, <1>4, <1>9 DEF ManagerRec
<1>11. \A q \in 0 .. MaxPartyID : tp[q] =
          IF q = id THEN R ELSE IF q = p THEN NoParty ELSE s.parties[q]
  BY <1>1, <1>4, <1>9 DEF rp, ManagerRec
<1>12. \A w \in Users : tb[w] =
          IF HasMember(R, w) THEN id ELSE IF HasMember(P, w) THEN 0 ELSE s.byUser[w]
  BY <1>4 DEF rb
<1> HIDE DEF tp, tb
<1>13. /\ Reform(s, p, P, u) \in ManagerRec
       /\ Reform(s, p, P, u).parties = tp
       /\ Reform(s, p, P, u).byUser = tb
  BY <1>4, <1>5, <1>7, <1>10 DEF ManagerRec
<1>14. id = p \/ s.parties[id] = NoParty
  BY <1>4, <1>7, <1>9 DEF FreeID, rp, ManagerRec
<1> QED BY <1>7, <1>8, <1>11, <1>12, <1>13, <1>14 DEF R

\* Retiring a party and rebuilding it keeps the graph well formed, provided
\* P holds everybody indexed under the retired id.
LEMMA ReformGood ==
    ASSUME NEW s \in ManagerRec, s.parties[0] = NoParty,
           NEW p \in PartyIDs, NEW P \in PartyRec, Seated(P),
           NEW u, HasMember(P, u),
           \A q \in PartyIDs : q # p /\ s.parties[q] # NoParty
                                    => PartyGood(s.parties[q]),
           \A w \in Users : s.byUser[w] # 0 =>
                \/ s.byUser[w] = p /\ HasMember(P, w)
                \/ /\ s.byUser[w] # p
                   /\ s.parties[s.byUser[w]] # NoParty
                   /\ HasMember(s.parties[s.byUser[w]], w)
    PROVE  Good(Reform(s, p, P, u))
<1> DEFINE t == Reform(s, p, P, u)
<1>1. PICK id \in PartyIDs :
         /\ id = p \/ s.parties[id] = NoParty
         /\ t \in ManagerRec
         /\ \A q \in 0 .. MaxPartyID : t.parties[q] =
              IF q = id THEN Rebuilt(P, u)
              ELSE IF q = p THEN NoParty ELSE s.parties[q]
         /\ \A w \in Users : t.byUser[w] =
              IF HasMember(Rebuilt(P, u), w) THEN id
              ELSE IF HasMember(P, w) THEN 0 ELSE s.byUser[w]
  BY ReformShape
<1> HIDE DEF t
<1>2. PartyGood(Rebuilt(P, u))
  BY RebuiltGood
<1>3. PartyIDs \subseteq 0 .. MaxPartyID /\ 0 \in 0 .. MaxPartyID /\ 0 \notin PartyIDs
  BY SizeAssumption DEF PartyIDs
<1>4. t.parties[0] = NoParty
  BY <1>1, <1>3
<1>5. \A q \in PartyIDs : t.parties[q] # NoParty => PartyGood(t.parties[q])
  BY <1>1, <1>2, <1>3
<1>6. Rebuilt(P, u) # NoParty
  BY <1>2, NilAssumption DEF PartyGood
<1>7. ASSUME NEW w \in Users, t.byUser[w] # 0
      PROVE  t.parties[t.byUser[w]] # NoParty /\ HasMember(t.parties[t.byUser[w]], w)
  <2>1. CASE HasMember(Rebuilt(P, u), w)
    BY <2>1, <1>1, <1>3, <1>6
  <2>2. CASE ~ HasMember(Rebuilt(P, u), w)
    <3>1. ~ HasMember(P, w) /\ t.byUser[w] = s.byUser[w] /\ s.byUser[w] # 0
      BY <2>2, <1>1, <1>7
    <3>2. /\ s.byUser[w] # p
          /\ s.parties[s.byUser[w]] # NoParty
          /\ HasMember(s.parties[s.byUser[w]], w)
      BY <3>1
    <3>3. s.byUser[w] \in 0 .. MaxPartyID /\ s.byUser[w] # id
      BY <3>2, <1>1 DEF ManagerRec
    <3> QED BY <3>1, <3>2, <3>3, <1>1
  <2> QED BY <2>1, <2>2
<1>8. t \in ManagerRec
  BY <1>1
<1>9. Good(t)
  BY <1>4, <1>5, <1>7, <1>8, GoodIntro
<1> QED BY <1>9 DEF t

\* ... and lists nobody twice if nobody was.
LEMMA ReformUnique ==
    ASSUME NEW s \in ManagerRec, NEW p \in PartyIDs, NEW P \in PartyRec,
           Seated(P), NEW u, HasMember(P, u),
           \A q \in PartyIDs, w \in Users : q # p /\ Lists(s, q, w) => s.byUser[w] = q,
           \A w \in Users : HasMember(P, w) => s.byUser[w] = p
    PROVE  UniqueOK(Reform(s, p, P, u))
<1> DEFINE t == Reform(s, p, P, u)
<1>1. PICK id \in PartyIDs :
         /\ id = p \/ s.parties[id] = NoParty
         /\ \A q \in 0 .. MaxPartyID : t.parties[q] =
              IF q = id THEN Rebuilt(P, u)
              ELSE IF q = p THEN NoParty ELSE s.parties[q]
         /\ \A w \in Users : t.byUser[w] =
              IF HasMember(Rebuilt(P, u), w) THEN id
              ELSE IF HasMember(P, w) THEN 0 ELSE s.byUser[w]
  BY ReformShape
<1> HIDE DEF t
<1>2. \A w : HasMember(Rebuilt(P, u), w) => HasMember(P, w)
  BY RebuiltGood
<1>3. PartyIDs \subseteq 0 .. MaxPartyID
  BY SizeAssumption DEF PartyIDs
<1>4. ASSUME NEW q \in PartyIDs, NEW w \in Users, Lists(t, q, w)
      PROVE  t.byUser[w] = q
  <2>1. CASE q = id
    BY <2>1, <1>1, <1>3, <1>4 DEF Lists
  <2>2. CASE q # id
    <3>1. q # p /\ Lists(s, q, w)
      BY <2>2, <1>1, <1>3, <1>4 DEF Lists
    <3>2. s.byUser[w] = q /\ ~ HasMember(P, w)
      BY <3>1
    <3> QED BY <3>2, <1>1, <1>2
  <2> QED BY <2>1, <2>2
<1> QED BY <1>4 DEF UniqueOK, t

\* leaveLocked keeps the graph well formed, touches no party the character
\* is not in, and does not take an id that Create has just reserved.
LEMMA LeaveGood ==
    ASSUME NEW s, Good(s), NEW u \in Users, NEW g \in Gens
    PROVE  /\ Good(LeaveLocked(s, u, g))
           /\ Current(s, u, g) => LeaveLocked(s, u, g).byUser[u] = 0
           /\ \A q \in PartyIDs :
                s.parties[q] # NoParty /\ ~ HasMember(s.parties[q], u)
                    => LeaveLocked(s, u, g).parties[q] = s.parties[q]
           /\ \A i \in PartyIDs :
                s.parties[i] = NoParty /\ s.nextID = NextOf(i)
                    => LeaveLocked(s, u, g).parties[i] = NoParty
           /\ UniqueOK(s) => UniqueOK(LeaveLocked(s, u, g))
<1> DEFINE t == LeaveLocked(s, u, g)
           p == s.byUser[u]
           P == s.parties[p]
           Q == Remove(P, u)
           lb == [s.byUser EXCEPT ![u] = 0]
           left == [s EXCEPT !.byUser = lb, !.invites = ClearInvites(s, u, g)]
<1>1. CASE ~ Current(s, u, g)
  <2>1. t = s
    BY <1>1 DEF LeaveLocked
  <2> QED BY <1>1, <2>1
<1>2. CASE Current(s, u, g)
  <2>1. p \in PartyIDs /\ P # NoParty /\ PartyGood(P) /\ HasMember(P, u)
    BY <1>2, InPartyParts DEF Current
  <2>2. /\ Q \in PartyRec /\ Q.leader = P.leader /\ Seated(Q)
        /\ u # P.leader => Headed(Q)
        /\ \A w : HasMember(Q, w) <=> HasMember(P, w) /\ w # u
    BY <2>1, RemoveGood
  <2>3. s \in ManagerRec /\ s.parties[0] = NoParty
    BY GoodParts
  <2>4. \A q \in PartyIDs : s.parties[q] # NoParty => PartyGood(s.parties[q])
    BY GoodParts
  <2>5. \A w \in Users : s.byUser[w] # 0 =>
            /\ s.byUser[w] \in PartyIDs
            /\ s.parties[s.byUser[w]] # NoParty
            /\ HasMember(s.parties[s.byUser[w]], w)
    BY GoodParts
  <2>6. PartyIDs \subseteq 0 .. MaxPartyID /\ 0 \in 0 .. MaxPartyID /\ 0 \notin PartyIDs
    BY SizeAssumption DEF PartyIDs
  <2>7. lb \in [Users -> 0 .. MaxPartyID] /\ lb[u] = 0
        /\ \A w \in Users : w # u => lb[w] = s.byUser[w]
    BY <2>3, <2>6 DEF ManagerRec
  <2>8. ClearInvites(s, u, g) \in [Users -> InviteRec \cup {NoInvite}]
    BY <2>3, ClearInvitesType
  <2>9. t = IF Vacant(Q)
            THEN [left EXCEPT !.parties = [s.parties EXCEPT ![p] = NoParty]]
            ELSE IF Q.leader # u
            THEN [left EXCEPT !.parties = [s.parties EXCEPT ![p] = Q]]
            ELSE Reform(left, p, Q, Successor(Q))
    BY <1>2 DEF LeaveLocked
  <2> HIDE DEF t, lb, P, Q
  <2>10. /\ left \in ManagerRec /\ left.parties = s.parties
         /\ left.byUser = lb /\ left.nextID = s.nextID
    BY <2>3, <2>7, <2>8 DEF ManagerRec
  <2> HIDE DEF left
  <2>11. ASSUME NEW V \in PartyRec \cup {NoParty},
                t = [left EXCEPT !.parties = [s.parties EXCEPT ![p] = V]],
                V # NoParty => PartyGood(V) /\ \A w : HasMember(V, w) <=> HasMember(Q, w),
                V = NoParty => \A w : ~ HasMember(Q, w)
         PROVE  /\ Good(t)
                /\ t.byUser[u] = 0
                /\ \A q \in PartyIDs : q # p => t.parties[q] = s.parties[q]
                /\ UniqueOK(s) => UniqueOK(t)
    <3>1. [s.parties EXCEPT ![p] = V] \in [0 .. MaxPartyID -> PartyRec \cup {NoParty}]
      BY <2>1, <2>3, <2>6 DEF ManagerRec
    <3>2. /\ t \in ManagerRec /\ t.byUser = lb
          /\ t.parties = [s.parties EXCEPT ![p] = V]
      BY <2>10, <2>11, <3>1 DEF ManagerRec
    <3>3. \A q \in 0 .. MaxPartyID :
             t.parties[q] = IF q = p THEN V ELSE s.parties[q]
      BY <2>1, <2>3, <2>6, <3>2 DEF ManagerRec
    <3>4. t.parties[0] = NoParty
      BY <2>1, <2>3, <2>6, <3>3
    <3>5. \A q \in PartyIDs : t.parties[q] # NoParty => PartyGood(t.parties[q])
      BY <2>4, <2>6, <2>11, <3>3
    <3>6. ASSUME NEW w \in Users, t.byUser[w] # 0
          PROVE  t.parties[t.byUser[w]] # NoParty /\ HasMember(t.parties[t.byUser[w]], w)
      <4>1. w # u /\ t.byUser[w] = s.byUser[w]
        BY <2>7, <3>2, <3>6
      <4>2. /\ s.byUser[w] \in PartyIDs
            /\ s.parties[s.byUser[w]] # NoParty
            /\ HasMember(s.parties[s.byUser[w]], w)
        BY <2>5, <3>6, <4>1
      <4>3. CASE s.byUser[w] = p
        <5>1. HasMember(Q, w)
          BY <2>2, <4>1, <4>2, <4>3 DEF P
        <5> QED BY <2>6, <2>11, <3>3, <4>1, <4>2, <4>3, <5>1
      <4>4. CASE s.byUser[w] # p
        BY <2>6, <3>3, <4>1, <4>2, <4>4
      <4> QED BY <4>3, <4>4
    <3>7. Good(t)
      BY <3>2, <3>4, <3>5, <3>6, GoodIntro
    <3>8. ASSUME UniqueOK(s), NEW q \in PartyIDs, NEW w \in Users, Lists(t, q, w)
          PROVE  t.byUser[w] = q
      <4>1. s.parties[q] # NoParty /\ HasMember(s.parties[q], w) /\ (q = p => w # u)
        BY <2>1, <2>2, <2>6, <2>11, <3>3, <3>8 DEF Lists, P
      <4>2. s.byUser[w] = q
        BY <3>8, <4>1 DEF UniqueOK, Lists
      <4> QED BY <2>7, <3>2, <4>1, <4>2
    <3> QED BY <2>6, <2>7, <3>2, <3>3, <3>7, <3>8 DEF UniqueOK
  <2>12. ASSUME Good(t), t.byUser[u] = 0,
                \A q \in PartyIDs : q # p => t.parties[q] = s.parties[q],
                UniqueOK(s) => UniqueOK(t)
         PROVE  /\ Good(t)
                /\ t.byUser[u] = 0
                /\ \A q \in PartyIDs :
                     s.parties[q] # NoParty /\ ~ HasMember(s.parties[q], u)
                         => t.parties[q] = s.parties[q]
                /\ \A i \in PartyIDs :
                     s.parties[i] = NoParty /\ s.nextID = NextOf(i)
                         => t.parties[i] = NoParty
                /\ UniqueOK(s) => UniqueOK(t)
    BY <2>1, <2>12 DEF P
  <2>13. CASE Vacant(Q)
    <3>1. t = [left EXCEPT !.parties = [s.parties EXCEPT ![p] = NoParty]]
      BY <2>9, <2>13
    <3>2. \A w : ~ HasMember(Q, w)
      BY <2>13 DEF Vacant, HasMember, At
    <3> QED BY <2>11, <2>12, <3>1, <3>2 DEF t
  <2>14. CASE ~ Vacant(Q) /\ Q.leader # u
    <3>1. t = [left EXCEPT !.parties = [s.parties EXCEPT ![p] = Q]]
      BY <2>9, <2>14
    <3>2. PartyGood(Q) /\ Q # NoParty
      BY <2>2, <2>14, NilAssumption DEF PartyGood
    <3> QED BY <2>2, <2>11, <2>12, <3>1, <3>2 DEF t
  <2>15. CASE ~ Vacant(Q) /\ Q.leader = u
    <3> DEFINE v == Successor(Q)
    <3>1. t = Reform(left, p, Q, v)
      BY <2>9, <2>15
    <3>2. HasMember(Q, v)
      BY <2>2, <2>15, SuccessorListed
    <3> HIDE DEF v
    <3>3. \A q \in PartyIDs : q # p /\ left.parties[q] # NoParty
                                  => PartyGood(left.parties[q])
      BY <2>4, <2>10
    <3>4. ASSUME NEW w \in Users, left.byUser[w] # 0
          PROVE  \/ left.byUser[w] = p /\ HasMember(Q, w)
                 \/ /\ left.byUser[w] # p
                    /\ left.parties[left.byUser[w]] # NoParty
                    /\ HasMember(left.parties[left.byUser[w]], w)
      <4>1. w # u /\ left.byUser[w] = s.byUser[w]
        BY <2>7, <2>10, <3>4
      <4> QED BY <2>2, <2>5, <2>10, <3>4, <4>1 DEF P
    <3>5. Good(t)
      BY <2>1, <2>2, <2>3, <2>10, <3>1, <3>2, <3>3, <3>4, ReformGood
    <3>6. PICK id \in PartyIDs :
             /\ id = p \/ left.parties[id] = NoParty
             /\ \A i \in PartyIDs : i # p /\ left.nextID = NextOf(i) => id # i
             /\ \A q \in 0 .. MaxPartyID : t.parties[q] =
                  IF q = id THEN Rebuilt(Q, v)
                  ELSE IF q = p THEN NoParty ELSE left.parties[q]
             /\ \A w \in Users : t.byUser[w] =
                  IF HasMember(Rebuilt(Q, v), w) THEN id
                  ELSE IF HasMember(Q, w) THEN 0 ELSE left.byUser[w]
      BY <2>1, <2>2, <2>10, <3>1, <3>2, ReformShape
    <3>7. ~ HasMember(Rebuilt(Q, v), u)
      BY <2>2, <3>2, RebuiltGood
    <3>8. t.byUser[u] = 0
      BY <2>2, <2>7, <2>10, <3>6, <3>7
    <3>9. ASSUME NEW q \in PartyIDs, s.parties[q] # NoParty,
                 ~ HasMember(s.parties[q], u)
          PROVE  t.parties[q] = s.parties[q]
      BY <2>1, <2>6, <2>10, <3>6, <3>9 DEF P
    <3>10. ASSUME NEW i \in PartyIDs, s.parties[i] = NoParty, s.nextID = NextOf(i)
           PROVE  t.parties[i] = NoParty
      BY <2>1, <2>6, <2>10, <3>6, <3>10 DEF P
    <3>11. ASSUME UniqueOK(s) PROVE UniqueOK(t)
      <4>1. ASSUME NEW w \in Users, HasMember(Q, w) PROVE left.byUser[w] = p
        <5>1. HasMember(P, w) /\ w # u
          BY <2>2, <4>1
        <5>2. s.byUser[w] = p
          BY <2>1, <3>11, <5>1 DEF UniqueOK, Lists, P
        <5> QED BY <2>7, <2>10, <5>1, <5>2
      <4>2. ASSUME NEW q \in PartyIDs, NEW w \in Users, q # p, Lists(left, q, w)
            PROVE  left.byUser[w] = q
        <5>1. Lists(s, q, w)
          BY <2>10, <4>2 DEF Lists
        <5>2. s.byUser[w] = q
          BY <3>11, <5>1 DEF UniqueOK
        <5> QED BY <2>7, <2>10, <4>2, <5>2
      <4> QED BY <2>1, <2>2, <2>10, <3>1, <3>2, <4>1, <4>2, ReformUnique
    <3> QED BY <3>5, <3>8, <3>9, <3>10, <3>11 DEF t
  <2> QED BY <2>13, <2>14, <2>15
<1> QED BY <1>1, <1>2

\* Installing a well-formed party under an id and indexing u there.
LEMMA InstallGood ==
    ASSUME NEW s, Good(s), NEW id \in PartyIDs, NEW P, PartyGood(P),
           NEW u \in Users, HasMember(P, u),
           \A w \in Users : s.byUser[w] = id => HasMember(P, w)
    PROVE  Good(Install(s, id, P, u))
<1> DEFINE t == Install(s, id, P, u)
           tp == [s.parties EXCEPT ![id] = P]
           tb == [s.byUser EXCEPT ![u] = id]
<1>1. s \in ManagerRec /\ P \in PartyRec /\ P # NoParty
  BY GoodParts, NilAssumption DEF PartyGood
<1>2. PartyIDs \subseteq 0 .. MaxPartyID /\ 0 \in 0 .. MaxPartyID /\ 0 \notin PartyIDs
  BY SizeAssumption DEF PartyIDs
<1>3. /\ tp \in [0 .. MaxPartyID -> PartyRec \cup {NoParty}]
      /\ \A q \in 0 .. MaxPartyID : tp[q] = IF q = id THEN P ELSE s.parties[q]
      /\ tb \in [Users -> 0 .. MaxPartyID]
      /\ \A w \in Users : tb[w] = IF w = u THEN id ELSE s.byUser[w]
  BY <1>1, <1>2 DEF ManagerRec
<1>4. t = [s EXCEPT !.parties = tp, !.byUser = tb]
  BY DEF Install
<1> HIDE DEF t, tp, tb
<1>5. t \in ManagerRec /\ t.parties = tp /\ t.byUser = tb
  BY <1>1, <1>3, <1>4 DEF ManagerRec
<1>6. t.parties[0] = NoParty
  BY <1>2, <1>3, <1>5, GoodParts
<1>7. \A q \in PartyIDs : t.parties[q] # NoParty => PartyGood(t.parties[q])
  BY <1>2, <1>3, <1>5, GoodParts
<1>8. ASSUME NEW w \in Users, t.byUser[w] # 0
      PROVE  t.parties[t.byUser[w]] # NoParty /\ HasMember(t.parties[t.byUser[w]], w)
  <2>1. CASE w = u
    BY <1>1, <1>2, <1>3, <1>5, <2>1
  <2>2. CASE w # u
    <3>1. t.byUser[w] = s.byUser[w] /\ s.byUser[w] # 0
      BY <1>3, <1>5, <1>8, <2>2
    <3>2. /\ s.byUser[w] \in PartyIDs
          /\ s.parties[s.byUser[w]] # NoParty
          /\ HasMember(s.parties[s.byUser[w]], w)
      BY <3>1, GoodParts
    <3> QED BY <1>1, <1>2, <1>3, <1>5, <3>1, <3>2
  <2> QED BY <2>1, <2>2
<1> QED BY <1>5, <1>6, <1>7, <1>8, GoodIntro DEF t

\* ... and lists nobody twice when u was listed nowhere.
LEMMA InstallUnique ==
    ASSUME NEW s, Good(s), UniqueOK(s), NEW id \in PartyIDs, NEW P, NEW u \in Users,
           \A q \in PartyIDs : ~ Lists(s, q, u),
           \A w \in Users : HasMember(P, w) => w = u \/ s.byUser[w] = id
    PROVE  UniqueOK(Install(s, id, P, u))
<1> DEFINE t == Install(s, id, P, u)
<1>1. s \in ManagerRec
  BY GoodParts
<1>2. PartyIDs \subseteq 0 .. MaxPartyID
  BY SizeAssumption DEF PartyIDs
<1>3. /\ \A q \in PartyIDs : t.parties[q] = IF q = id THEN P ELSE s.parties[q]
      /\ \A w \in Users : t.byUser[w] = IF w = u THEN id ELSE s.byUser[w]
  BY <1>1, <1>2 DEF Install, ManagerRec
<1> HIDE DEF t
<1>4. ASSUME NEW q \in PartyIDs, NEW w \in Users, Lists(t, q, w)
      PROVE  t.byUser[w] = q
  <2>1. CASE q = id
    BY <1>3, <1>4, <2>1 DEF Lists
  <2>2. CASE q # id
    BY <1>3, <1>4, <2>2 DEF Lists, UniqueOK
  <2> QED BY <2>1, <2>2
<1> QED BY <1>4 DEF UniqueOK, t

\* Replacing a live party by a well-formed one with the same members.
LEMMA ReplaceGood ==
    ASSUME NEW s, Good(s), NEW p \in PartyIDs, s.parties[p] # NoParty,
           NEW Q, PartyGood(Q),
           \A w : HasMember(Q, w) <=> HasMember(s.parties[p], w),
           NEW t \in ManagerRec, t.byUser = s.byUser,
           t.parties = [s.parties EXCEPT ![p] = Q]
    PROVE  Good(t) /\ (UniqueOK(s) => UniqueOK(t))
<1>1. s \in ManagerRec /\ Q # NoParty
  BY GoodParts, NilAssumption DEF PartyGood
<1>2. PartyIDs \subseteq 0 .. MaxPartyID /\ 0 \in 0 .. MaxPartyID /\ 0 \notin PartyIDs
  BY SizeAssumption DEF PartyIDs
<1>3. \A q \in 0 .. MaxPartyID : t.parties[q] = IF q = p THEN Q ELSE s.parties[q]
  BY <1>1, <1>2 DEF ManagerRec
<1>4. t.parties[0] = NoParty
  BY <1>2, <1>3, GoodParts
<1>5. \A q \in PartyIDs : t.parties[q] # NoParty => PartyGood(t.parties[q])
  BY <1>2, <1>3, GoodParts
<1>6. \A w \in Users : t.byUser[w] # 0 =>
         t.parties[t.byUser[w]] # NoParty /\ HasMember(t.parties[t.byUser[w]], w)
  BY <1>1, <1>2, <1>3, GoodParts
<1>7. Good(t)
  BY <1>4, <1>5, <1>6, GoodIntro
<1>8. ASSUME UniqueOK(s) PROVE UniqueOK(t)
  BY <1>2, <1>3, <1>8 DEF UniqueOK, Lists
<1> QED BY <1>7, <1>8

\* Only the invitations or the id counter change.
LEMMA FrameGood ==
    ASSUME NEW s, Good(s), NEW t \in ManagerRec,
           t.parties = s.parties, t.byUser = s.byUser
    PROVE  Good(t) /\ (UniqueOK(s) => UniqueOK(t))
BY DEF Good, SlotZeroOK, SeatsOK, IndexOK, InParty, UniqueOK, Lists

-----------------------------------------------------------------------------
(* The exported methods. *)

\* Create: the reserved id is still free after the creator has left.
LEMMA CreateGood ==
    ASSUME NEW s, Good(s), NEW u \in Users, NEW g \in Gens, NEW n \in Limits
    PROVE  /\ Good(CreateOp(s, u, g, n))
           /\ /\ UniqueOK(s)
              /\ \A p \in PartyIDs : Lists(s, p, u) => Member(s.parties[p], u).gen = g
              => UniqueOK(CreateOp(s, u, g, n))
<1> DEFINE id == FreshID(s)
           r == [s EXCEPT !.nextID = NextAfter(s)]
           t == LeaveLocked(r, u, g)
           N == Add(EmptyParty(u, NormalLimit(n)), u, g)
<1>1. CASE id = 0
  <2>1. CreateOp(s, u, g, n) = s
    BY <1>1 DEF CreateOp
  <2> QED BY <2>1
<1>2. CASE id # 0
  <2>1. s \in ManagerRec
    BY GoodParts
  <2>2. id \in PartyIDs /\ s.parties[id] = NoParty /\ NextAfter(s) \in PartyIDs
        /\ NextAfter(s) = NextOf(id)
    BY <1>2, <2>1, FreshType DEF FreeID, NextAfter
  <2>3. /\ r \in ManagerRec /\ r.parties = s.parties /\ r.byUser = s.byUser
        /\ r.nextID = NextOf(id)
    BY <2>1, <2>2 DEF ManagerRec
  <2>4. CreateOp(s, u, g, n) = Install(t, id, N, u)
    BY <1>2 DEF CreateOp
  <2> HIDE DEF r, id
  <2>5. Good(r) /\ (UniqueOK(s) => UniqueOK(r))
    BY <2>3, FrameGood
  <2>6. /\ Good(t)
        /\ Current(r, u, g) => t.byUser[u] = 0
        /\ t.parties[id] = NoParty
        /\ UniqueOK(r) => UniqueOK(t)
    BY <2>2, <2>3, <2>5, LeaveGood
  <2>7. ~ Current(r, u, g) => t = r
    BY DEF LeaveLocked
  <2> HIDE DEF t
  <2>8. PartyGood(N) /\ \A w : HasMember(N, w) <=> w = u
    BY NormalLimitType, NewPartyGood
  <2> HIDE DEF N
  <2>9. \A w \in Users : t.byUser[w] # id
    <3>1. id # 0
      BY <1>2 DEF id
    <3> QED BY <2>6, <3>1, GoodParts
  <2>10. Good(Install(t, id, N, u))
    BY <2>2, <2>6, <2>8, <2>9, InstallGood
  <2>11. ASSUME UniqueOK(s),
                \A p \in PartyIDs : Lists(s, p, u) => Member(s.parties[p], u).gen = g
         PROVE  UniqueOK(Install(t, id, N, u))
    <3>1. UniqueOK(t)
      BY <2>5, <2>6, <2>11
    <3>2. ASSUME NEW q \in PartyIDs, Lists(t, q, u) PROVE FALSE
      <4>1. t.byUser[u] = q /\ q # 0
        BY <3>1, <3>2, SizeAssumption DEF UniqueOK, PartyIDs
      <4>2. ~ Current(r, u, g) /\ t = r
        BY <2>6, <2>7, <4>1
      <4>3. Lists(s, q, u) /\ s.byUser[u] = q
        BY <2>3, <3>2, <4>1, <4>2 DEF Lists
      <4>4. Member(s.parties[q], u).gen = g
        BY <2>11, <4>3
      <4>5. Current(r, u, g)
        BY <2>3, <4>3, <4>4 DEF Current, InParty, PartyOf, Lists
      <4> QED BY <4>2, <4>5
    <3> QED BY <2>2, <2>6, <2>8, <3>1, <3>2, InstallUnique
  <2> QED BY <2>4, <2>10, <2>11
<1> QED BY <1>1, <1>2

\* EnsureLeader creates a lobby only for a character that is in none.
LEMMA EnsureLeaderGood ==
    ASSUME NEW s, Good(s), NEW u \in Users, NEW g \in Gens, NEW n \in Limits
    PROVE  /\ Good(EnsureLeaderOp(s, u, g, n))
           /\ UniqueOK(s) => UniqueOK(EnsureLeaderOp(s, u, g, n))
<1> DEFINE id == FreshID(s)
           r == [s EXCEPT !.nextID = NextAfter(s)]
           N == Add(EmptyParty(u, NormalLimit(n)), u, g)
<1>1. CASE InParty(s, u) \/ id = 0
  <2>1. EnsureLeaderOp(s, u, g, n) = s
    BY <1>1 DEF EnsureLeaderOp
  <2> QED BY <2>1
<1>2. CASE ~ InParty(s, u) /\ id # 0
  <2>1. s \in ManagerRec
    BY GoodParts
  <2>2. id \in PartyIDs /\ s.parties[id] = NoParty /\ NextAfter(s) \in PartyIDs
    BY <1>2, <2>1, FreshType DEF FreeID
  <2>3. r \in ManagerRec /\ r.parties = s.parties /\ r.byUser = s.byUser
    BY <2>1, <2>2 DEF ManagerRec
  <2>4. EnsureLeaderOp(s, u, g, n) = Install(r, id, N, u)
    BY <1>2 DEF EnsureLeaderOp
  <2>5. id # 0
    BY <1>2
  <2> HIDE DEF r, id
  <2>6. Good(r) /\ (UniqueOK(s) => UniqueOK(r))
    BY <2>3, FrameGood
  <2>7. PartyGood(N) /\ \A w : HasMember(N, w) <=> w = u
    BY NormalLimitType, NewPartyGood
  <2> HIDE DEF N
  <2>8. \A w \in Users : r.byUser[w] # id
    BY <2>2, <2>3, <2>5, GoodParts
  <2>9. Good(Install(r, id, N, u))
    BY <2>2, <2>6, <2>7, <2>8, InstallGood
  <2>10. ASSUME UniqueOK(s) PROVE UniqueOK(Install(r, id, N, u))
    <3>1. UniqueOK(r)
      BY <2>6, <2>10
    <3>2. ASSUME NEW q \in PartyIDs, Lists(r, q, u) PROVE FALSE
      BY <1>2, <2>3, <3>1, <3>2 DEF UniqueOK, Lists, InParty
    <3> QED BY <2>2, <2>6, <2>7, <3>1, <3>2, InstallUnique
  <2> QED BY <2>4, <2>9, <2>10
<1> QED BY <1>1, <1>2

\* Join: leaving the old party does not disturb the party joined.
LEMMA JoinGood ==
    ASSUME NEW s, Good(s), NEW p \in PartyIDs, NEW u \in Users, NEW g \in Gens
    PROVE  /\ Good(JoinOp(s, p, u, g))
           /\ /\ UniqueOK(s)
              /\ \A q \in PartyIDs : Lists(s, q, u) => Member(s.parties[q], u).gen = g
              => UniqueOK(JoinOp(s, p, u, g))
<1> DEFINE t == LeaveLocked(s, u, g)
           P == s.parties[p]
           N == Add(P, u, g)
<1>1. CASE ~ JoinOK(s, p, u)
  <2>1. JoinOp(s, p, u, g) = s
    BY <1>1 DEF JoinOp
  <2> QED BY <2>1
<1>2. CASE JoinOK(s, p, u)
  <2>1. P # NoParty /\ CanAdd(P, u) /\ ~ HasMember(P, u)
    BY <1>2 DEF JoinOK, CanAdd
  <2>2. PartyGood(P)
    BY <2>1, GoodParts
  <2>3. /\ PartyGood(N)
        /\ \A w : HasMember(N, w) <=> HasMember(P, w) \/ w = u
    BY <2>1, <2>2, AddGood DEF PartyGood
  <2>4. /\ Good(t)
        /\ Current(s, u, g) => t.byUser[u] = 0
        /\ t.parties[p] = P
        /\ UniqueOK(s) => UniqueOK(t)
    BY <2>1, LeaveGood
  <2>5. ~ Current(s, u, g) => t = s
    BY DEF LeaveLocked
  <2>6. JoinOp(s, p, u, g) = Install(t, p, N, u)
    BY <1>2 DEF JoinOp
  <2> HIDE DEF t, N
  <2>7. \A w \in Users : t.byUser[w] = p => HasMember(N, w)
    <3>1. p # 0
      BY SizeAssumption DEF PartyIDs
    <3> QED BY <2>3, <2>4, <3>1, GoodParts
  <2>8. Good(Install(t, p, N, u))
    BY <2>3, <2>4, <2>7, InstallGood
  <2>9. ASSUME UniqueOK(s),
               \A q \in PartyIDs : Lists(s, q, u) => Member(s.parties[q], u).gen = g
        PROVE  UniqueOK(Install(t, p, N, u))
    <3>1. UniqueOK(t)
      BY <2>4, <2>9
    <3>2. ASSUME NEW q \in PartyIDs, Lists(t, q, u) PROVE FALSE
      <4>1. t.byUser[u] = q /\ q # 0
        BY <3>1, <3>2, SizeAssumption DEF UniqueOK, PartyIDs
      <4>2. ~ Current(s, u, g) /\ t = s
        BY <2>4, <2>5, <4>1
      <4>3. Member(s.parties[q], u).gen = g
        BY <2>9, <3>2, <4>2
      <4>4. Current(s, u, g)
        BY <3>2, <4>1, <4>2, <4>3 DEF Current, InParty, PartyOf, Lists
      <4> QED BY <4>2, <4>4
    <3>3. \A w \in Users : HasMember(N, w) => w = u \/ t.byUser[w] = p
      BY <2>1, <2>3, <2>4, <3>1 DEF UniqueOK, Lists
    <3> QED BY <2>4, <3>1, <3>2, <3>3, InstallUnique
  <2> QED BY <2>6, <2>8, <2>9
<1> QED BY <1>1, <1>2

\* Kick, called by the leader, removes somebody other than the leader.
LEMMA KickGood ==
    ASSUME NEW s, Good(s), NEW u \in Users, NEW g \in Gens,
           NEW v \in Users, NEW h \in Gens
    PROVE  /\ Good(KickOp(s, u, g, v, h))
           /\ UniqueOK(s) => UniqueOK(KickOp(s, u, g, v, h))
<1> DEFINE t == KickOp(s, u, g, v, h)
           p == s.byUser[u]
           P == s.parties[p]
           Q == Remove(P, v)
           tp == [s.parties EXCEPT ![p] = Q]
           tb == [s.byUser EXCEPT ![v] = 0]
<1>1. CASE ~ KickOK(s, u, g, v, h)
  <2>1. t = s
    BY <1>1 DEF KickOp
  <2> QED BY <2>1
<1>2. CASE KickOK(s, u, g, v, h)
  <2>1. InParty(s, u)
    BY <1>2 DEF KickOK, IsLeader, Current
  <2>2. p \in PartyIDs /\ PartyOf(s, u) = P /\ P # NoParty /\ PartyGood(P)
    BY <2>1, InPartyParts
  <2>3. P.leader = u /\ u # v /\ HasMember(P, v)
    BY <1>2, <2>2 DEF KickOK, IsLeader
  <2>4. /\ PartyGood(Q) /\ Q \in PartyRec /\ Q # NoParty
        /\ \A w : HasMember(Q, w) <=> HasMember(P, w) /\ w # v
    BY <2>2, <2>3, RemoveGood, NilAssumption DEF PartyGood
  <2>5. s \in ManagerRec
    BY GoodParts
  <2>6. PartyIDs \subseteq 0 .. MaxPartyID /\ 0 \in 0 .. MaxPartyID /\ 0 \notin PartyIDs
    BY SizeAssumption DEF PartyIDs
  <2>7. t = [s EXCEPT !.parties = tp, !.byUser = tb, !.invites = ClearInvites(s, v, h)]
    BY <1>2, <2>2 DEF KickOp
  <2>8. /\ tp \in [0 .. MaxPartyID -> PartyRec \cup {NoParty}]
        /\ \A q \in 0 .. MaxPartyID : tp[q] = IF q = p THEN Q ELSE s.parties[q]
        /\ tb \in [Users -> 0 .. MaxPartyID]
        /\ \A w \in Users : tb[w] = IF w = v THEN 0 ELSE s.byUser[w]
    BY <2>2, <2>4, <2>5, <2>6 DEF ManagerRec
  <2>9. ClearInvites(s, v, h) \in [Users -> InviteRec \cup {NoInvite}]
    BY <2>5, ClearInvitesType
  <2> HIDE DEF t, tp, tb, Q
  <2>10. t \in ManagerRec /\ t.parties = tp /\ t.byUser = tb
    BY <2>5, <2>7, <2>8, <2>9 DEF ManagerRec
  <2>11. t.parties[0] = NoParty
    BY <2>2, <2>6, <2>8, <2>10, GoodParts
  <2>12. \A q \in PartyIDs : t.parties[q] # NoParty => PartyGood(t.parties[q])
    BY <2>4, <2>6, <2>8, <2>10, GoodParts
  <2>13. ASSUME NEW w \in Users, t.byUser[w] # 0
         PROVE  t.parties[t.byUser[w]] # NoParty /\ HasMember(t.parties[t.byUser[w]], w)
    <3>1. w # v /\ t.byUser[w] = s.byUser[w] /\ s.byUser[w] # 0
      BY <2>8, <2>10, <2>13
    <3>2. /\ s.byUser[w] \in PartyIDs
          /\ s.parties[s.byUser[w]] # NoParty
          /\ HasMember(s.parties[s.byUser[w]], w)
      BY <3>1, GoodParts
    <3> QED BY <2>4, <2>6, <2>8, <2>10, <3>1, <3>2
  <2>14. Good(t)
    BY <2>10, <2>11, <2>12, <2>13, GoodIntro
  <2>15. ASSUME UniqueOK(s), NEW q \in PartyIDs, NEW w \in Users, Lists(t, q, w)
         PROVE  t.byUser[w] = q
    <3>1. Lists(s, q, w) /\ (q = p => w # v)
      BY <2>2, <2>4, <2>6, <2>8, <2>10, <2>15 DEF Lists
    <3>2. s.byUser[w] = q /\ s.byUser[v] = p
      BY <2>2, <2>3, <2>15, <3>1 DEF UniqueOK, Lists
    <3> QED BY <2>8, <2>10, <3>1, <3>2
  <2> QED BY <2>14, <2>15 DEF UniqueOK, t
<1> QED BY <1>1, <1>2

\* TransferLeader rebuilds the whole party behind the new leader.
LEMMA TransferLeaderGood ==
    ASSUME NEW s, Good(s), NEW u \in Users, NEW g \in Gens,
           NEW v \in Users, NEW h \in Gens
    PROVE  /\ Good(TransferLeaderOp(s, u, g, v, h))
           /\ UniqueOK(s) => UniqueOK(TransferLeaderOp(s, u, g, v, h))
<1> DEFINE p == s.byUser[u]
           P == s.parties[p]
<1>1. CASE ~ TransferOK(s, u, g, v, h)
  <2>1. TransferLeaderOp(s, u, g, v, h) = s
    BY <1>1 DEF TransferLeaderOp
  <2> QED BY <2>1
<1>2. CASE TransferOK(s, u, g, v, h)
  <2>1. InParty(s, u)
    BY <1>2 DEF TransferOK, IsLeader, Current
  <2>2. p \in PartyIDs /\ PartyOf(s, u) = P /\ P # NoParty /\ PartyGood(P)
    BY <2>1, InPartyParts
  <2>3. HasMember(P, v) /\ P \in PartyRec /\ Seated(P)
    BY <1>2, <2>2 DEF TransferOK, PartyGood
  <2>4. TransferLeaderOp(s, u, g, v, h) = Reform(s, p, P, v)
    BY <1>2, <2>2 DEF TransferLeaderOp
  <2>5. Good(Reform(s, p, P, v))
    <3>1. \A w \in Users : s.byUser[w] # 0 =>
            \/ s.byUser[w] = p /\ HasMember(P, w)
            \/ /\ s.byUser[w] # p
               /\ s.parties[s.byUser[w]] # NoParty
               /\ HasMember(s.parties[s.byUser[w]], w)
      BY GoodParts
    <3>2. /\ s \in ManagerRec /\ s.parties[0] = NoParty
          /\ \A q \in PartyIDs : q # p /\ s.parties[q] # NoParty
                                     => PartyGood(s.parties[q])
      BY GoodParts
    <3> QED BY <2>2, <2>3, <3>1, <3>2, ReformGood
  <2>6. ASSUME UniqueOK(s) PROVE UniqueOK(Reform(s, p, P, v))
    <3>1. \A q \in PartyIDs, w \in Users : q # p /\ Lists(s, q, w) => s.byUser[w] = q
      BY <2>6 DEF UniqueOK
    <3>2. \A w \in Users : HasMember(P, w) => s.byUser[w] = p
      BY <2>2, <2>6 DEF UniqueOK, Lists
    <3>3. s \in ManagerRec
      BY GoodParts
    <3> QED BY <2>2, <2>3, <3>1, <3>2, <3>3, ReformUnique
  <2> QED BY <2>4, <2>5, <2>6
<1> QED BY <1>1, <1>2

\* UpdateSettings changes a limit, which no part of the invariant mentions.
LEMMA UpdateSettingsGood ==
    ASSUME NEW s, Good(s), NEW u \in Users, NEW g \in Gens, NEW n \in Limits
    PROVE  /\ Good(UpdateSettingsOp(s, u, g, n))
           /\ UniqueOK(s) => UniqueOK(UpdateSettingsOp(s, u, g, n))
<1> DEFINE t == UpdateSettingsOp(s, u, g, n)
           p == s.byUser[u]
           P == s.parties[p]
           Q == [P EXCEPT !.limit = NormalLimit(n)]
<1>1. CASE ~ IsLeader(s, u, g)
  <2>1. t = s
    BY <1>1 DEF UpdateSettingsOp
  <2> QED BY <2>1
<1>2. CASE IsLeader(s, u, g)
  <2>1. p \in PartyIDs /\ PartyOf(s, u) = P /\ P # NoParty /\ PartyGood(P)
    BY <1>2, InPartyParts DEF IsLeader, Current
  <2>2. Q \in PartyRec /\ Q.members = P.members /\ Q.leader = P.leader
    BY <2>1, NormalLimitType DEF PartyRec, PartyGood
  <2>3. s \in ManagerRec
    BY GoodParts
  <2>4. t = [s EXCEPT !.parties = [s.parties EXCEPT ![p] = Q]]
    BY <1>2, <2>1 DEF UpdateSettingsOp
  <2> HIDE DEF t, Q, P
  <2>5. PartyGood(Q) /\ \A w : HasMember(Q, w) <=> HasMember(P, w)
    BY <2>1, <2>2 DEF PartyGood, Headed, Seated, HasMember, At
  <2>6. [s.parties EXCEPT ![p] = Q] \in [0 .. MaxPartyID -> PartyRec \cup {NoParty}]
    BY <2>1, <2>2, <2>3, SizeAssumption DEF ManagerRec, PartyIDs
  <2>7. /\ t \in ManagerRec /\ t.byUser = s.byUser
        /\ t.parties = [s.parties EXCEPT ![p] = Q]
    BY <2>3, <2>4, <2>6 DEF ManagerRec
  <2>8. Good(t) /\ (UniqueOK(s) => UniqueOK(t))
    BY <2>1, <2>5, <2>7, ReplaceGood DEF P
  <2> QED BY <2>8 DEF t
<1> QED BY <1>1, <1>2

\* RebindSession replaces the generation of one seat.
LEMMA RebindSessionGood ==
    ASSUME NEW s, Good(s), NEW u \in Users, NEW old \in Gens, NEW g \in Gens
    PROVE  /\ Good(RebindSessionOp(s, u, old, g))
           /\ UniqueOK(s) => UniqueOK(RebindSessionOp(s, u, old, g))
<1> DEFINE t == RebindSessionOp(s, u, old, g)
           p == s.byUser[u]
           P == s.parties[p]
           k == SlotOf(P, u)
           m == Seat(u, g, P.members[k].slot)
           Q == [P EXCEPT !.members = [P.members EXCEPT ![k] = m]]
           inv == ClearInvites(s, u, old)
<1>1. s \in ManagerRec /\ inv \in [Users -> InviteRec \cup {NoInvite}]
  BY GoodParts, ClearInvitesType
<1>2. CASE ~ InParty(s, u)
  <2>1. t = [s EXCEPT !.invites = inv]
    BY <1>2 DEF RebindSessionOp
  <2> HIDE DEF t, inv
  <2>2. t \in ManagerRec /\ t.parties = s.parties /\ t.byUser = s.byUser
    BY <1>1, <2>1 DEF ManagerRec
  <2> QED BY <2>2, FrameGood DEF t
<1>3. CASE InParty(s, u) /\ Member(PartyOf(s, u), u).gen # old
  <2>1. t = s
    BY <1>3 DEF RebindSessionOp
  <2> QED BY <2>1
<1>4. CASE InParty(s, u) /\ Member(PartyOf(s, u), u).gen = old
  <2>1. /\ p \in PartyIDs /\ PartyOf(s, u) = P /\ P # NoParty /\ PartyGood(P)
        /\ HasMember(P, u)
    BY <1>4, InPartyParts
  <2>2. P \in PartyRec /\ Headed(P) /\ Seated(P)
    BY <2>1 DEF PartyGood
  <2>3. k \in Slots /\ At(P, k, u) /\ \A j \in Slots : At(P, j, u) => j = k
    BY <2>1, <2>2, SlotOfSeat
  <2>4. t = [s EXCEPT !.parties = [s.parties EXCEPT ![p] = Q], !.invites = inv]
    BY <1>4, <2>1 DEF RebindSessionOp
  <2>5. P.members[k].slot = k
    BY <2>2, <2>3 DEF Seated, At
  <2>6. m \in MemberRec /\ m # NoMember /\ m.user = u /\ m.slot = k
    BY <2>3, <2>5, NilAssumption DEF Seat, MemberRec
  <2> HIDE DEF t, inv, k, m
  <2>7. /\ Q \in PartyRec /\ Q.leader = P.leader
        /\ \A j \in Slots : Q.members[j] = IF j = k THEN m ELSE P.members[j]
    BY <2>2, <2>3, <2>6 DEF PartyRec
  <2> HIDE DEF Q
  <2>8. \A j \in Slots : \A w : At(Q, j, w) <=> At(P, j, w)
    BY <2>3, <2>6, <2>7 DEF At
  <2>9. \A w : HasMember(Q, w) <=> HasMember(P, w)
    BY <2>8 DEF HasMember
  <2>10. 0 \in Slots
    BY SizeAssumption DEF Slots
  <2>11. Headed(Q)
    BY <2>2, <2>7, <2>8, <2>10 DEF Headed
  <2>12. Seated(Q)
    <3> SUFFICES ASSUME NEW j \in Slots, Q.members[j] # NoMember
                 PROVE  /\ Q.members[j].slot = j
                        /\ \A i \in Slots : At(Q, i, Q.members[j].user) => i = j
      BY DEF Seated
    <3>1. CASE j = k
      BY <2>3, <2>6, <2>7, <2>8, <3>1
    <3>2. CASE j # k
      BY <2>2, <2>7, <2>8, <3>2 DEF Seated
    <3> QED BY <3>1, <3>2
  <2>13. PartyGood(Q)
    BY <2>7, <2>11, <2>12 DEF PartyGood
  <2>14. [s.parties EXCEPT ![p] = Q] \in [0 .. MaxPartyID -> PartyRec \cup {NoParty}]
    BY <1>1, <2>1, <2>7, SizeAssumption DEF ManagerRec, PartyIDs
  <2>15. /\ t \in ManagerRec /\ t.byUser = s.byUser
         /\ t.parties = [s.parties EXCEPT ![p] = Q]
    BY <1>1, <2>4, <2>14 DEF ManagerRec
  <2>16. Good(t) /\ (UniqueOK(s) => UniqueOK(t))
    BY <2>1, <2>9, <2>13, <2>15, ReplaceGood
  <2> QED BY <2>16 DEF t
<1> QED BY <1>2, <1>3, <1>4

\* Reposition swaps two seats behind the leader.
LEMMA RepositionGood ==
    ASSUME NEW s, Good(s), NEW u \in Users, NEW g \in Gens,
           NEW from \in Slots, NEW to \in Slots
    PROVE  /\ Good(RepositionOp(s, u, g, from, to))
           /\ UniqueOK(s) => UniqueOK(RepositionOp(s, u, g, from, to))
<1> DEFINE t == RepositionOp(s, u, g, from, to)
           p == s.byUser[u]
           P == s.parties[p]
           a == Reseat(P.members[to], from)
           b == Reseat(P.members[from], to)
           Q == [P EXCEPT !.members = [P.members EXCEPT ![from] = a, ![to] = b]]
           Swaps == /\ from # to /\ from # 0 /\ to # 0
                    /\ IsLeader(s, u, g)
                    /\ PartyOf(s, u).members[from] # NoMember
<1>1. CASE ~ Swaps
  <2>1. t = s
    BY <1>1 DEF RepositionOp
  <2> QED BY <2>1
<1>2. CASE Swaps
  <2>1. p \in PartyIDs /\ PartyOf(s, u) = P /\ P # NoParty /\ PartyGood(P)
    BY <1>2, InPartyParts DEF IsLeader, Current
  <2>2. P \in PartyRec /\ Headed(P) /\ Seated(P)
    BY <2>1 DEF PartyGood
  <2>3. s \in ManagerRec
    BY GoodParts
  <2>4. t = [s EXCEPT !.parties = [s.parties EXCEPT ![p] = Q]]
    BY <1>2, <2>1 DEF RepositionOp
  <2>5. P.members[to] = NoMember \/ P.members[to] \in MemberRec
    BY <2>2 DEF PartyRec
  <2>6. P.members[from] \in MemberRec /\ P.members[from] # NoMember
    BY <1>2, <2>1, <2>2 DEF PartyRec
  <2>7. /\ a \in MemberRec \cup {NoMember}
        /\ a = NoMember <=> P.members[to] = NoMember
        /\ a # NoMember => a.user = P.members[to].user /\ a.slot = from
    BY <2>5, NilAssumption DEF Reseat, Seat, MemberRec
  <2>8. /\ b \in MemberRec /\ b # NoMember
        /\ b.user = P.members[from].user /\ b.slot = to
    BY <2>6, NilAssumption DEF Reseat, Seat, MemberRec
  <2> HIDE DEF t, a, b
  <2>9. /\ Q \in PartyRec /\ Q.leader = P.leader
        /\ \A j \in Slots : Q.members[j] =
              IF j = to THEN b ELSE IF j = from THEN a ELSE P.members[j]
    BY <2>2, <2>7, <2>8 DEF PartyRec
  <2> HIDE DEF Q, P
  <2> DEFINE swap(j) == IF j = to THEN from ELSE IF j = from THEN to ELSE j
  <2>10. /\ \A j \in Slots : swap(j) \in Slots
         /\ \A j, i \in Slots : swap(j) = swap(i) => j = i
    OBVIOUS
  <2>11. ASSUME NEW j \in Slots PROVE /\ \A w : At(Q, j, w) <=> At(P, swap(j), w)
                                      /\ Q.members[j] # NoMember =>
                                            /\ P.members[swap(j)] # NoMember
                                            /\ Q.members[j].user = P.members[swap(j)].user
    <3>1. CASE j = to
      BY <1>2, <2>6, <2>8, <2>9, <3>1 DEF At
    <3>2. CASE j = from
      BY <1>2, <2>7, <2>9, <3>2 DEF At
    <3>3. CASE j # to /\ j # from
      BY <2>9, <3>3 DEF At
    <3> QED BY <3>1, <3>2, <3>3
  <2>12. \A j \in Slots : Q.members[j] # NoMember => Q.members[j].slot = j
    BY <2>2, <2>7, <2>8, <2>9 DEF Seated
  <2>13. \A w : HasMember(Q, w) <=> HasMember(P, w)
    <3>1. ASSUME NEW w, HasMember(Q, w) PROVE HasMember(P, w)
      BY <2>10, <2>11, <3>1 DEF HasMember
    <3>2. ASSUME NEW w, HasMember(P, w) PROVE HasMember(Q, w)
      <4>1. PICK i \in Slots : At(P, i, w)
        BY <3>2 DEF HasMember
      <4>2. swap(i) \in Slots /\ swap(swap(i)) = i
        BY <1>2
      <4>3. At(Q, swap(i), w)
        BY <2>11, <4>1, <4>2
      <4> QED BY <4>2, <4>3 DEF HasMember
    <3> QED BY <3>1, <3>2
  <2>14. Headed(Q)
    <3>1. 0 \in Slots /\ swap(0) = 0
      BY <1>2, SizeAssumption DEF Slots
    <3> QED BY <2>2, <2>9, <2>11, <3>1 DEF Headed
  <2>15. Seated(Q)
    <3> SUFFICES ASSUME NEW j \in Slots, Q.members[j] # NoMember,
                        NEW i \in Slots, At(Q, i, Q.members[j].user)
                 PROVE  i = j
      BY <2>12 DEF Seated
    <3>1. swap(i) \in Slots /\ swap(j) \in Slots /\ P.members[swap(j)] # NoMember
      BY <2>10, <2>11
    <3>2. At(P, swap(i), P.members[swap(j)].user)
      BY <2>11
    <3>3. swap(i) = swap(j)
      BY <2>2, <3>1, <3>2 DEF Seated
    <3> QED BY <2>10, <3>3
  <2>16. PartyGood(Q)
    BY <2>9, <2>14, <2>15 DEF PartyGood
  <2>17. [s.parties EXCEPT ![p] = Q] \in [0 .. MaxPartyID -> PartyRec \cup {NoParty}]
    BY <2>1, <2>3, <2>9, SizeAssumption DEF ManagerRec, PartyIDs
  <2>18. /\ t \in ManagerRec /\ t.byUser = s.byUser
         /\ t.parties = [s.parties EXCEPT ![p] = Q]
    BY <2>3, <2>4, <2>17 DEF ManagerRec
  <2>19. Good(t) /\ (UniqueOK(s) => UniqueOK(t))
    BY <2>1, <2>13, <2>16, <2>18, ReplaceGood DEF P
  <2> QED BY <2>19 DEF t
<1> QED BY <1>1, <1>2

\* RecordInvite and ConsumeInvite leave the membership graph alone.
LEMMA InvitesGood ==
    ASSUME NEW s, Good(s), NEW i \in Users, NEW ig \in Gens, NEW u \in Users,
           NEW g \in Gens, NEW m \in Modes
    PROVE  /\ Good(RecordInviteOp(s, i, ig, u, g, m))
           /\ UniqueOK(s) => UniqueOK(RecordInviteOp(s, i, ig, u, g, m))
           /\ Good(ConsumeInviteOp(s, i, ig, u, g, m))
           /\ UniqueOK(s) => UniqueOK(ConsumeInviteOp(s, i, ig, u, g, m))
<1> DEFINE x == [inviteeGen |-> ig, inviter |-> u, inviterGen |-> g, mode |-> m]
           a == [s.invites EXCEPT ![i] = x]
           b == [s.invites EXCEPT ![i] = NoInvite]
           ta == RecordInviteOp(s, i, ig, u, g, m)
           tb == ConsumeInviteOp(s, i, ig, u, g, m)
<1>1. s \in ManagerRec
  BY GoodParts
<1>2. x \in InviteRec
  BY DEF InviteRec
<1>3. /\ a \in [Users -> InviteRec \cup {NoInvite}]
      /\ b \in [Users -> InviteRec \cup {NoInvite}]
  BY <1>1, <1>2 DEF ManagerRec
<1>4. ta = [s EXCEPT !.invites = a] /\ tb \in {s, [s EXCEPT !.invites = b]}
  BY DEF RecordInviteOp, ConsumeInviteOp
<1> HIDE DEF a, b, ta, tb
<1>5. ta \in ManagerRec /\ ta.parties = s.parties /\ ta.byUser = s.byUser
  BY <1>1, <1>3, <1>4 DEF ManagerRec
<1>6. tb \in ManagerRec /\ tb.parties = s.parties /\ tb.byUser = s.byUser
  BY <1>1, <1>3, <1>4 DEF ManagerRec
<1>7. Good(ta) /\ (UniqueOK(s) => UniqueOK(ta))
  BY <1>5, FrameGood
<1>8. Good(tb) /\ (UniqueOK(s) => UniqueOK(tb))
  BY <1>6, FrameGood
<1> QED BY <1>7, <1>8 DEF ta, tb

-----------------------------------------------------------------------------
(* The specifications. *)

\* NewRuntimePartyManager is well formed and lists nobody.
LEMMA InitGood ==
    ASSUME Init
    PROVE  Good(mgr) /\ UniqueOK(mgr)
<1>1. mgr \in ManagerRec
  BY SizeAssumption DEF Init, NewManager, ManagerRec, PartyIDs
<1>2. /\ \A p \in 0 .. MaxPartyID : mgr.parties[p] = NoParty
      /\ \A u \in Users : mgr.byUser[u] = 0
  BY DEF Init, NewManager
<1>3. PartyIDs \subseteq 0 .. MaxPartyID /\ 0 \in 0 .. MaxPartyID
  BY SizeAssumption DEF PartyIDs
<1> QED BY <1>1, <1>2, <1>3, GoodIntro DEF UniqueOK, Lists

\* Every method but Create and Join preserves both, whatever generation the
\* caller presents.
LEMMA StepGood ==
    ASSUME Good(mgr), NEW u \in Users, NEW g \in Gens, Step(u, g)
    PROVE  Good(mgr') /\ (UniqueOK(mgr) => UniqueOK(mgr'))
<1>1. CASE EnsureLeader(u, g)
  BY <1>1, EnsureLeaderGood DEF EnsureLeader
<1>2. CASE Leave(u, g)
  BY <1>2, LeaveGood DEF Leave
<1>3. CASE Kick(u, g)
  BY <1>3, KickGood DEF Kick
<1>4. CASE TransferLeader(u, g)
  BY <1>4, TransferLeaderGood DEF TransferLeader
<1>5. CASE UpdateSettings(u, g)
  BY <1>5, UpdateSettingsGood DEF UpdateSettings
<1>6. CASE RebindSession(u, g)
  BY <1>6, RebindSessionGood DEF RebindSession
<1>7. CASE Reposition(u, g)
  BY <1>7, RepositionGood DEF Reposition
<1>8. CASE RecordInvite(u, g)
  BY <1>8, InvitesGood DEF RecordInvite
<1>9. CASE ConsumeInvite(u, g)
  BY <1>9, InvitesGood DEF ConsumeInvite
<1> QED BY <1>1, <1>2, <1>3, <1>4, <1>5, <1>6, <1>7, <1>8, <1>9 DEF Step

\* Good is an inductive invariant of the manager under arbitrary callers.
THEOREM GoodInvariant == Spec => []Good(mgr)
<1>1. Init => Good(mgr)
  BY InitGood
<1>2. Good(mgr) /\ [Next]_vars => Good(mgr)'
  <2> SUFFICES ASSUME Good(mgr), [Next]_vars PROVE Good(mgr')
    OBVIOUS
  <2>1. ASSUME NEW u \in Users, NEW g \in Gens, Create(u, g) PROVE Good(mgr')
    BY <2>1, CreateGood DEF Create
  <2>2. ASSUME NEW u \in Users, NEW g \in Gens, Join(u, g) PROVE Good(mgr')
    BY <2>2, JoinGood DEF Join
  <2>3. ASSUME NEW u \in Users, NEW g \in Gens, Step(u, g) PROVE Good(mgr')
    BY <2>3, StepGood
  <2>4. CASE UNCHANGED vars
    BY <2>4 DEF vars
  <2> QED BY <2>1, <2>2, <2>3, <2>4 DEF Next
<1> QED BY <1>1, <1>2, PTL DEF Spec

\* Type correctness: the counter, the tables and every seat keep their type
\* for every caller, size of the id space and member limit.
THEOREM TypeCorrect == Spec => []TypeOK
<1>1. Good(mgr) => TypeOK
  BY DEF Good, TypeOK
<1> QED BY <1>1, GoodInvariant, PTL

\* The client's leader rule: slot zero of every live party is its leader.
THEOREM LeadershipFollowsSlotZero == Spec => []LeaderAtSlotZero
<1>1. Good(mgr) => LeaderAtSlotZero
  BY DEF Good, LeaderAtSlotZero
<1> QED BY <1>1, GoodInvariant, PTL

\* byUser and the party table agree: an indexed character sits in the live
\* party it is indexed under, even when ids are reserved, retired and reused.
THEOREM IndexIsSound == Spec => []IndexSound
<1>1. Good(mgr) => IndexSound
  BY DEF Good, IndexSound
<1> QED BY <1>1, GoodInvariant, PTL

\* No party seats a character twice and every Slot field is right.
THEOREM SeatsAreConsistent == Spec => []SeatsConsistent
<1>1. Good(mgr) => SeatsConsistent
  BY DEF Good, SeatsConsistent
<1> QED BY <1>1, GoodInvariant, PTL

\* A step of callers that keep the contract keeps the graph well formed and
\* lists nobody twice.
LEMMA ContractGood ==
    ASSUME Good(mgr), UniqueOK(mgr), [ContractNext]_vars
    PROVE  Good(mgr') /\ UniqueOK(mgr')
<1>1. ASSUME NEW u \in Users, NEW g \in Gens, CurrentIdentity(u, g), Create(u, g)
      PROVE  Good(mgr') /\ UniqueOK(mgr')
  <2>1. \A p \in PartyIDs : Lists(mgr, p, u) => Member(mgr.parties[p], u).gen = g
    BY <1>1 DEF CurrentIdentity, Lists
  <2> QED BY <1>1, <2>1, CreateGood DEF Create
<1>2. ASSUME NEW u \in Users, NEW g \in Gens, CurrentIdentity(u, g), Join(u, g)
      PROVE  Good(mgr') /\ UniqueOK(mgr')
  <2>1. \A p \in PartyIDs : Lists(mgr, p, u) => Member(mgr.parties[p], u).gen = g
    BY <1>2 DEF CurrentIdentity, Lists
  <2> QED BY <1>2, <2>1, JoinGood DEF Join
<1>3. ASSUME NEW u \in Users, NEW g \in Gens, Step(u, g)
      PROVE  Good(mgr') /\ UniqueOK(mgr')
  BY <1>3, StepGood
<1>4. CASE UNCHANGED vars
  BY <1>4 DEF vars
<1> QED BY <1>1, <1>2, <1>3, <1>4 DEF ContractNext

\* The inductive invariant of callers that keep the contract.
THEOREM ContractInvariant == ContractSpec => [](Good(mgr) /\ UniqueOK(mgr))
<1> DEFINE IInv == Good(mgr) /\ UniqueOK(mgr)
<1>1. Init => IInv
  BY InitGood
<1>2. IInv /\ [ContractNext]_vars => IInv'
  BY ContractGood
<1> QED BY <1>1, <1>2, PTL DEF ContractSpec

\* If every identity that creates or joins carries the generation recorded
\* for its character, no character is ever listed by two parties.
THEOREM NobodyInTwoParties == ContractSpec => []OneParty
BY ContractInvariant, PTL DEF OneParty

-----------------------------------------------------------------------------
(* Who keeps a party. *)

Fits(P) == Count(P) <= P.limit

\* A seat that holds w is where Member finds w.
LEMMA MemberAt ==
    ASSUME NEW P \in PartyRec, Seated(P), NEW k \in Slots, NEW w, At(P, k, w)
    PROVE  HasMember(P, w) /\ Member(P, w) = P.members[k]
<1>1. HasMember(P, w)
  BY DEF HasMember
<1>2. k = SlotOf(P, w)
  BY <1>1, SlotOfSeat
<1> QED BY <1>1, <1>2 DEF Member

Others(P, u) == {j \in Slots : P.members[j] # NoMember /\ P.members[j].user # u}
Before(P, u, k) == {j \in Slots : /\ j < k
                                  /\ P.members[j] # NoMember
                                  /\ P.members[j].user # u}

\* The ranks rebuildLocked seats the other members by start at zero, grow
\* strictly with the old seat and leave room for the new leader.
LEMMA RanksGrow ==
    ASSUME NEW P \in PartyRec, Seated(P), NEW u, HasMember(P, u)
    PROVE  /\ \A k \in Others(P, u) : /\ Cardinality(Before(P, u, k)) \in Nat
                                      /\ Cardinality(Before(P, u, k)) + 2 <= Count(P)
           /\ \A j, k \in Others(P, u) : j < k =>
                Cardinality(Before(P, u, j)) < Cardinality(Before(P, u, k))
           /\ Count(P) \in Nat
<1> DEFINE O == {k \in Slots : P.members[k] # NoMember}
           a == SlotOf(P, u)
<1>1. IsFiniteSet(Slots)
  BY FS_Interval, SizeAssumption DEF Slots
<1>2. /\ O \in SUBSET Slots
      /\ \A k \in Slots : Before(P, u, k) \in SUBSET O
  BY DEF Before
<1>3. IsFiniteSet(O) /\ Cardinality(O) \in Nat /\ Count(P) = Cardinality(O)
  BY <1>1, <1>2, FS_Subset, FS_CardinalityType DEF Count
<1>4. \A k \in Slots : /\ IsFiniteSet(Before(P, u, k))
                       /\ Cardinality(Before(P, u, k)) \in Nat
  BY <1>2, <1>3, FS_Subset, FS_CardinalityType
<1>5. a \in O /\ P.members[a].user = u
  BY SlotOfSeat DEF At
<1> HIDE DEF O, a
<1>6. ASSUME NEW k \in Others(P, u) PROVE Cardinality(Before(P, u, k)) + 2 <= Count(P)
  <2>1. k \in Slots /\ k \in Int /\ k \in O /\ k # a
    BY <1>5, SizeAssumption DEF Others, O, Slots
  <2> DEFINE B == Before(P, u, k)
  <2>2. k \notin B /\ a \notin B /\ a \notin B \cup {k}
    BY <1>5, <2>1 DEF Before
  <2>3. (B \cup {k}) \cup {a} \in SUBSET O
    BY <1>2, <1>5, <2>1
  <2>4. IsFiniteSet(B) /\ Cardinality(B) \in Nat
    BY <1>4, <2>1
  <2> HIDE DEF B
  <2>5. IsFiniteSet(B \cup {k}) /\ Cardinality(B \cup {k}) = Cardinality(B) + 1
    BY <2>2, <2>4, FS_AddElement
  <2>6. Cardinality((B \cup {k}) \cup {a}) = Cardinality(B) + 2
    <3>1. Cardinality((B \cup {k}) \cup {a}) = Cardinality(B \cup {k}) + 1
      BY <2>2, <2>5, FS_AddElement
    <3> QED BY <2>4, <2>5, <3>1
  <2>7. Cardinality((B \cup {k}) \cup {a}) <= Cardinality(O)
    BY <1>3, <2>3, FS_Subset
  <2> QED BY <1>3, <2>6, <2>7 DEF B
<1>7. ASSUME NEW j \in Others(P, u), NEW k \in Others(P, u), j < k
      PROVE  Cardinality(Before(P, u, j)) < Cardinality(Before(P, u, k))
  <2> DEFINE B == Before(P, u, j)
             C == Before(P, u, k)
  <2>1. j \in Slots /\ k \in Slots /\ j \in Int /\ k \in Int /\ Slots \subseteq Int
    BY SizeAssumption DEF Others, Slots
  <2>2. j \notin B /\ B \cup {j} \in SUBSET C
    <3>1. j \notin B /\ j \in C
      BY <1>7, <2>1 DEF Before, Others
    <3>2. ASSUME NEW i \in B PROVE i \in C
      <4>1. i \in Int /\ i < j /\ i < k
        BY <1>7, <2>1, <3>2 DEF Before
      <4> QED BY <3>2, <4>1 DEF Before
    <3> QED BY <3>1, <3>2
  <2>3. /\ IsFiniteSet(B) /\ Cardinality(B) \in Nat
        /\ IsFiniteSet(C) /\ Cardinality(C) \in Nat
    BY <1>4, <2>1
  <2> HIDE DEF B, C
  <2>4. Cardinality(B \cup {j}) = Cardinality(B) + 1
    BY <2>2, <2>3, FS_AddElement
  <2>5. Cardinality(B \cup {j}) <= Cardinality(C)
    BY <2>2, <2>3, FS_Subset
  <2>6. Cardinality(B) < Cardinality(C)
    BY <2>3, <2>4, <2>5
  <2> QED BY <2>6 DEF B, C
<1>8. \A k \in Others(P, u) : Cardinality(Before(P, u, k)) \in Nat
  BY <1>4 DEF Others
<1> QED BY <1>3, <1>6, <1>7, <1>8

\* rebuildLocked carries every member of a party within its limit over, each
\* with its generation.
LEMMA RebuiltKeeps ==
    ASSUME NEW P \in PartyRec, Seated(P), NEW u, HasMember(P, u), Fits(P),
           NEW w, HasMember(P, w)
    PROVE  /\ HasMember(Rebuilt(P, u), w)
           /\ Member(Rebuilt(P, u), w).gen = Member(P, w).gen
<1> DEFINE R == Rebuilt(P, u)
<1>1. R \in PartyRec /\ Seated(R)
  BY RebuiltGood DEF PartyGood
<1>2. 0 \in Slots
  BY SizeAssumption DEF Slots
<1>3. CASE w = u
  <2>1. R.members[0] = Seat(u, Member(P, u).gen, 0)
    BY <1>2 DEF Rebuilt
  <2>2. Seat(u, Member(P, u).gen, 0) \in MemberRec
    BY <1>2, MemberType DEF Seat, MemberRec
  <2>3. At(R, 0, u) /\ R.members[0].gen = Member(P, u).gen
    BY <2>1, <2>2, NilAssumption DEF At, Seat
  <2> HIDE DEF R
  <2>4. HasMember(R, u) /\ Member(R, u) = R.members[0]
    BY <1>1, <1>2, <2>3, MemberAt
  <2> QED BY <1>3, <2>3, <2>4 DEF R
<1>4. CASE w # u
  <2> DEFINE k == SlotOf(P, w)
             r == 1 + Cardinality(Before(P, u, k))
  <2>1. k \in Slots /\ At(P, k, w)
    BY SlotOfSeat
  <2>2. Member(P, w) = P.members[k]
    BY DEF Member
  <2>3. Member(P, w) \in MemberRec /\ Member(P, w).user = w
    BY MemberType
  <2> HIDE DEF k
  <2>4. k \in Others(P, u)
    BY <1>4, <2>1, <2>2, <2>3 DEF Others, At
  <2>5. Follows(P, u, k, r)
    BY <2>4 DEF Follows, Before, Others
  <2>6. r \in Nat /\ r # 0 /\ r < P.limit /\ r \in Slots
    <3>1. /\ Cardinality(Before(P, u, k)) \in Nat /\ Count(P) \in Nat
          /\ Cardinality(Before(P, u, k)) + 2 <= Count(P)
      BY <2>4, RanksGrow
    <3>2. P.limit \in 1 .. MaxMembers /\ Count(P) <= P.limit
      BY DEF PartyRec, Fits
    <3> QED BY <3>1, <3>2, SizeAssumption DEF Slots
  <2>7. ASSUME NEW j \in Slots, Follows(P, u, j, r) PROVE j = k
    <3>1. j \in Others(P, u) /\ r = 1 + Cardinality(Before(P, u, j))
      BY <2>7 DEF Follows, Others, Before
    <3>2. Cardinality(Before(P, u, j)) = Cardinality(Before(P, u, k))
      <4>1. Cardinality(Before(P, u, j)) \in Nat /\ Cardinality(Before(P, u, k)) \in Nat
        BY <2>4, <3>1, RanksGrow
      <4> QED BY <3>1, <4>1
    <3>3. ~ (j < k) /\ ~ (k < j)
      BY <2>4, <3>1, <3>2, RanksGrow
    <3> QED BY <2>1, <3>3, SizeAssumption DEF Slots
  <2> HIDE DEF r
  <2>8. (CHOOSE j \in Slots : Follows(P, u, j, r)) = k
    BY <2>1, <2>5, <2>7
  <2>9. R.members[r] = Seat(P.members[k].user, P.members[k].gen, r)
    BY <2>1, <2>5, <2>6, <2>8 DEF Rebuilt
  <2>10. Seat(P.members[k].user, P.members[k].gen, r) \in MemberRec
    BY <2>2, <2>3, <2>6 DEF Seat, MemberRec
  <2>11. At(R, r, w) /\ R.members[r].gen = Member(P, w).gen
    BY <2>2, <2>3, <2>9, <2>10, NilAssumption DEF At, Seat
  <2> HIDE DEF R
  <2>12. HasMember(R, w) /\ Member(R, w) = R.members[r]
    BY <1>1, <2>6, <2>11, MemberAt
  <2> QED BY <2>11, <2>12 DEF R
<1> QED BY <1>3, <1>4

\* remove leaves the other members and the limit as they were.
LEMMA RemoveKeeps ==
    ASSUME NEW P, PartyGood(P), NEW u, HasMember(P, u)
    PROVE  /\ Fits(P) => Fits(Remove(P, u))
           /\ \A w : w # u /\ HasMember(P, w) => Member(Remove(P, u), w) = Member(P, w)
<1> DEFINE Q == Remove(P, u)
           a == SlotOf(P, u)
<1>1. P \in PartyRec /\ Seated(P) /\ a \in Slots /\ At(P, a, u)
  BY SlotOfSeat DEF PartyGood
<1>2. Q \in PartyRec /\ Seated(Q)
  BY RemoveGood
<1>3. Q.limit = P.limit /\ Q.members = [P.members EXCEPT ![a] = NoMember]
  BY <1>1 DEF Remove, PartyRec
<1> HIDE DEF Q, a
<1>4. Fits(P) => Fits(Q)
  <2> DEFINE O == {k \in Slots : P.members[k] # NoMember}
             S == {k \in Slots : Q.members[k] # NoMember}
  <2>1. O \in SUBSET Slots /\ S \in SUBSET O
    BY <1>1, <1>3 DEF PartyRec
  <2>2. IsFiniteSet(Slots)
    BY FS_Interval, SizeAssumption DEF Slots
  <2>3. Count(P) = Cardinality(O) /\ Count(Q) = Cardinality(S)
    BY DEF Count
  <2> HIDE DEF O, S
  <2>4. /\ IsFiniteSet(O) /\ IsFiniteSet(S) /\ Cardinality(S) <= Cardinality(O)
        /\ Cardinality(O) \in Nat /\ Cardinality(S) \in Nat
    BY <2>1, <2>2, FS_Subset, FS_CardinalityType
  <2>5. P.limit \in Nat
    BY <1>1, SizeAssumption DEF PartyRec
  <2> QED BY <1>3, <2>3, <2>4, <2>5 DEF Fits
<1>5. ASSUME NEW w, w # u, HasMember(P, w) PROVE Member(Q, w) = Member(P, w)
  <2> DEFINE k == SlotOf(P, w)
  <2>1. k \in Slots /\ At(P, k, w) /\ Member(P, w) = P.members[k]
    BY <1>1, <1>5, SlotOfSeat DEF Member
  <2> HIDE DEF k
  <2>2. k # a
    BY <1>1, <1>5, <2>1 DEF At
  <2>3. Q.members[k] = P.members[k] /\ At(Q, k, w)
    BY <1>1, <1>3, <2>1, <2>2 DEF At, PartyRec
  <2> QED BY <1>2, <2>1, <2>3, MemberAt
<1> QED BY <1>4, <1>5 DEF Q

\* The common tail of succession and transfer: only members of an overfull
\* party lose it, the others keep their generation, and nobody else is touched.
LEMMA ReformKeeps ==
    ASSUME NEW s \in ManagerRec, NEW p \in PartyIDs, NEW P \in PartyRec,
           Seated(P), NEW u, HasMember(P, u)
    PROVE  /\ Reform(s, p, P, u).invites = s.invites
           /\ \A w \in Users :
                s.byUser[w] # 0 /\ Reform(s, p, P, u).byUser[w] = 0
                    => HasMember(P, w) /\ ~ Fits(P)
           /\ \A w \in Users : HasMember(P, w) /\ Fits(P)
                    => Current(Reform(s, p, P, u), w, Member(P, w).gen)
           /\ \A w \in Users, h \in Gens :
                ~ HasMember(P, w) /\ s.byUser[w] # p /\ s.byUser[w] # 0 /\ Current(s, w, h)
                    => Current(Reform(s, p, P, u), w, h)
<1> DEFINE t == Reform(s, p, P, u)
           R == Rebuilt(P, u)
<1>1. t.invites = s.invites
  BY DEF Reform, ManagerRec
<1>2. PICK id \in PartyIDs :
        /\ id = p \/ s.parties[id] = NoParty
        /\ \A q \in 0 .. MaxPartyID : t.parties[q] =
             IF q = id THEN R ELSE IF q = p THEN NoParty ELSE s.parties[q]
        /\ \A w \in Users : t.byUser[w] =
             IF HasMember(R, w) THEN id
             ELSE IF HasMember(P, w) THEN 0 ELSE s.byUser[w]
  BY ReformShape
<1>3. PartyIDs \subseteq 0 .. MaxPartyID /\ 0 \notin PartyIDs
      /\ \A w \in Users : s.byUser[w] # 0 => s.byUser[w] \in PartyIDs
  BY SizeAssumption DEF PartyIDs, ManagerRec
<1>4. /\ R \in PartyRec /\ R # NoParty
      /\ \A w : HasMember(R, w) => HasMember(P, w)
  BY RebuiltGood, NilAssumption DEF PartyGood
<1>5. \A w : HasMember(P, w) /\ Fits(P) =>
         HasMember(R, w) /\ Member(R, w).gen = Member(P, w).gen
  BY RebuiltKeeps
<1> HIDE DEF t, R
<1>6. \A w \in Users : s.byUser[w] # 0 /\ t.byUser[w] = 0 => HasMember(P, w) /\ ~ Fits(P)
  BY <1>2, <1>3, <1>5
<1>7. ASSUME NEW w \in Users, HasMember(P, w), Fits(P)
      PROVE  Current(t, w, Member(P, w).gen)
  <2>1. t.byUser[w] = id /\ t.parties[id] = R
    BY <1>2, <1>3, <1>5, <1>7
  <2> QED BY <1>4, <1>5, <1>7, <2>1 DEF Current, InParty, PartyOf
<1>8. ASSUME NEW w \in Users, NEW h \in Gens, ~ HasMember(P, w), s.byUser[w] # p,
             s.byUser[w] # 0, Current(s, w, h)
      PROVE  Current(t, w, h)
  <2>1. t.byUser[w] = s.byUser[w]
    BY <1>2, <1>4, <1>8
  <2>2. s.byUser[w] \in PartyIDs /\ s.parties[s.byUser[w]] # NoParty
    BY <1>3, <1>8 DEF Current, InParty
  <2>3. t.parties[s.byUser[w]] = s.parties[s.byUser[w]]
    BY <1>2, <1>3, <1>8, <2>2
  <2> QED BY <1>8, <2>1, <2>3 DEF Current, InParty, PartyOf
<1> QED BY <1>1, <1>6, <1>7, <1>8 DEF t

\* Every party that lists w is within its limit.
AllFit(s, w) == \A p \in PartyIDs : Lists(s, p, w) => Fits(s.parties[p])

\* From s to t at most a loses its party, and whoever sat with a in a party
\* over its limit.
EndsOnly(s, t, a) ==
    \A w \in Users : s.byUser[w] # 0 /\ t.byUser[w] = 0 =>
        \/ w = a
        \/ \E p \in PartyIDs : Lists(s, p, w) /\ Lists(s, p, a) /\ ~ Fits(s.parties[p])

\* From s to t nobody loses its party, save members of a party over its limit.
Spares(s, t) ==
    \A w \in Users : s.byUser[w] # 0 /\ t.byUser[w] = 0 => ~ AllFit(s, w)

\* From s to t an identity keeps its membership or has no invitation left.
Clears(s, t) ==
    \A w \in Users, h \in Gens : Current(s, w, h) /\ AllFit(s, w) =>
        \/ Current(t, w, h)
        \/ \A i \in Users : ~ Names(t.invites[i], i, w, h)

\* clearInvitesForLocked removes every invitation that names the identity.
LEMMA ClearedNames ==
    ASSUME NEW s \in ManagerRec, NEW u, NEW g
    PROVE  \A i \in Users : ~ Names(ClearInvites(s, u, g)[i], i, u, g)
BY DEF ClearInvites, Names

\* Current is about the indexed party of a live index entry.
LEMMA CurrentParts ==
    ASSUME NEW s, Good(s), NEW w \in Users, NEW h, Current(s, w, h)
    PROVE  /\ s.byUser[w] \in PartyIDs /\ s.byUser[w] # 0
           /\ Lists(s, s.byUser[w], w)
           /\ PartyGood(s.parties[s.byUser[w]])
           /\ Member(s.parties[s.byUser[w]], w).gen = h
BY InPartyParts, SizeAssumption DEF Current, PartyOf, Lists, PartyIDs

\* Replacing one party by one that lists w with the same generation.
LEMMA ReplaceKeeps ==
    ASSUME NEW s, Good(s), NEW p \in PartyIDs, NEW Q, Q # NoParty,
           NEW t, t.parties = [s.parties EXCEPT ![p] = Q],
           NEW w \in Users, NEW h, t.byUser[w] = s.byUser[w], Current(s, w, h),
           s.byUser[w] = p => HasMember(Q, w) /\ Member(Q, w).gen = h
    PROVE  Current(t, w, h)
<1>1. s.byUser[w] \in PartyIDs
  BY CurrentParts
<1>2. \A q \in PartyIDs : t.parties[q] = IF q = p THEN Q ELSE s.parties[q]
  BY GoodParts, SizeAssumption DEF ManagerRec, PartyIDs
<1> QED BY <1>1, <1>2 DEF Current, InParty, PartyOf

\* leaveLocked: only the leaver loses its party, unless the party is over its
\* limit; its invitations go; everybody else keeps party and generation.
LEMMA LeaveKeeps ==
    ASSUME NEW s, Good(s), NEW u \in Users, NEW g \in Gens
    PROVE  /\ EndsOnly(s, LeaveLocked(s, u, g), u)
           /\ Current(s, u, g) => LeaveLocked(s, u, g).invites = ClearInvites(s, u, g)
           /\ UniqueOK(s) => \A w \in Users, h \in Gens :
                w # u /\ Current(s, w, h) /\ AllFit(s, w)
                    => Current(LeaveLocked(s, u, g), w, h)
<1> DEFINE t == LeaveLocked(s, u, g)
           p == s.byUser[u]
           P == s.parties[p]
           Q == Remove(P, u)
           lb == [s.byUser EXCEPT ![u] = 0]
           left == [s EXCEPT !.byUser = lb, !.invites = ClearInvites(s, u, g)]
<1>1. CASE ~ Current(s, u, g)
  <2>1. t = s
    BY <1>1 DEF LeaveLocked
  <2> QED BY <1>1, <2>1 DEF EndsOnly
<1>2. CASE Current(s, u, g)
  <2>1. p \in PartyIDs /\ p # 0 /\ P # NoParty /\ PartyGood(P) /\ HasMember(P, u)
    BY <1>2, CurrentParts DEF Lists
  <2>2. /\ Q \in PartyRec /\ Q # NoParty /\ Seated(Q)
        /\ \A w : HasMember(Q, w) <=> HasMember(P, w) /\ w # u
    BY <2>1, RemoveGood, NilAssumption
  <2>3. /\ Fits(P) => Fits(Q)
        /\ \A w : w # u /\ HasMember(P, w) => Member(Q, w) = Member(P, w)
    BY <2>1, RemoveKeeps
  <2>4. s \in ManagerRec
    BY GoodParts
  <2>5. lb \in [Users -> 0 .. MaxPartyID] /\ lb[u] = 0
        /\ \A w \in Users : w # u => lb[w] = s.byUser[w]
    BY <2>4, SizeAssumption DEF ManagerRec
  <2>6. ClearInvites(s, u, g) \in [Users -> InviteRec \cup {NoInvite}]
    BY <2>4, ClearInvitesType
  <2>7. t = IF Vacant(Q)
            THEN [left EXCEPT !.parties = [s.parties EXCEPT ![p] = NoParty]]
            ELSE IF Q.leader # u
            THEN [left EXCEPT !.parties = [s.parties EXCEPT ![p] = Q]]
            ELSE Reform(left, p, Q, Successor(Q))
    BY <1>2 DEF LeaveLocked
  <2> HIDE DEF t, lb, P, Q
  <2>8. /\ left \in ManagerRec /\ left.parties = s.parties /\ left.byUser = lb
        /\ left.invites = ClearInvites(s, u, g)
    BY <2>4, <2>5, <2>6 DEF ManagerRec
  <2> HIDE DEF left
  <2>9. ASSUME NEW w \in Users, NEW h \in Gens, w # u, Current(s, w, h)
        PROVE  /\ Current(left, w, h) /\ left.byUser[w] = s.byUser[w] /\ s.byUser[w] # 0
               /\ s.byUser[w] = p => HasMember(Q, w) /\ Member(Q, w).gen = h
    <3>1. left.byUser[w] = s.byUser[w] /\ left.parties = s.parties /\ s.byUser[w] # 0
      BY <2>5, <2>8, <2>9, CurrentParts
    <3>2. s.byUser[w] = p => HasMember(P, w) /\ Member(P, w).gen = h
      BY <2>9, CurrentParts DEF Lists, P
    <3> QED BY <2>2, <2>3, <2>9, <3>1, <3>2 DEF Current, InParty, PartyOf
  <2>10. ASSUME NEW V, t = [left EXCEPT !.parties = [s.parties EXCEPT ![p] = V]]
         PROVE  /\ t.byUser = lb /\ t.invites = ClearInvites(s, u, g)
                /\ t.parties = [s.parties EXCEPT ![p] = V]
                /\ EndsOnly(s, t, u)
    <3>1. /\ t.byUser = lb /\ t.invites = ClearInvites(s, u, g)
          /\ t.parties = [s.parties EXCEPT ![p] = V]
      BY <2>8, <2>10 DEF ManagerRec
    <3> QED BY <2>5, <3>1 DEF EndsOnly
  <2>11. CASE Vacant(Q)
    <3>1. t = [left EXCEPT !.parties = [s.parties EXCEPT ![p] = NoParty]]
      BY <2>7, <2>11
    <3>2. \A w : ~ HasMember(Q, w)
      BY <2>11 DEF Vacant, HasMember, At
    <3>3. /\ t.byUser = lb /\ t.invites = ClearInvites(s, u, g) /\ EndsOnly(s, t, u)
          /\ t.parties = [s.parties EXCEPT ![p] = NoParty]
      BY <2>10, <3>1
    <3>4. ASSUME NEW w \in Users, NEW h \in Gens, w # u, Current(s, w, h)
          PROVE  Current(t, w, h)
      <4>1. s.byUser[w] \in PartyIDs /\ s.byUser[w] # p
        BY <2>9, <3>2, <3>4, CurrentParts
      <4>2. t.byUser[w] = s.byUser[w] /\ t.parties[s.byUser[w]] = s.parties[s.byUser[w]]
        BY <2>4, <2>5, <3>3, <3>4, <4>1, SizeAssumption DEF ManagerRec, PartyIDs
      <4> QED BY <3>4, <4>2 DEF Current, InParty, PartyOf
    <3> QED BY <3>3, <3>4 DEF t
  <2>12. CASE ~ Vacant(Q) /\ Q.leader # u
    <3>1. t = [left EXCEPT !.parties = [s.parties EXCEPT ![p] = Q]]
      BY <2>7, <2>12
    <3>2. /\ t.byUser = lb /\ t.invites = ClearInvites(s, u, g) /\ EndsOnly(s, t, u)
          /\ t.parties = [s.parties EXCEPT ![p] = Q]
      BY <2>10, <3>1
    <3>3. ASSUME NEW w \in Users, NEW h \in Gens, w # u, Current(s, w, h)
          PROVE  Current(t, w, h)
      <4>1. t.byUser[w] = s.byUser[w]
        BY <2>5, <3>2, <3>3
      <4>2. s.byUser[w] = p => HasMember(Q, w) /\ Member(Q, w).gen = h
        BY <2>9, <3>3
      <4> QED BY <2>1, <2>2, <3>2, <3>3, <4>1, <4>2, ReplaceKeeps
    <3> QED BY <3>2, <3>3 DEF t
  <2>13. CASE ~ Vacant(Q) /\ Q.leader = u
    <3> DEFINE v == Successor(Q)
    <3>1. t = Reform(left, p, Q, v)
      BY <2>7, <2>13
    <3>2. HasMember(Q, v)
      BY <2>2, <2>13, SuccessorListed
    <3> HIDE DEF v
    <3>3. /\ t.invites = left.invites
          /\ \A w \in Users : left.byUser[w] # 0 /\ t.byUser[w] = 0
                => HasMember(Q, w) /\ ~ Fits(Q)
          /\ \A w \in Users : HasMember(Q, w) /\ Fits(Q)
                => Current(t, w, Member(Q, w).gen)
          /\ \A w \in Users, h \in Gens :
                ~ HasMember(Q, w) /\ left.byUser[w] # p /\ left.byUser[w] # 0
                    /\ Current(left, w, h) => Current(t, w, h)
      BY <2>1, <2>2, <2>8, <3>1, <3>2, ReformKeeps
    <3>4. EndsOnly(s, t, u)
      <4> SUFFICES ASSUME NEW w \in Users, s.byUser[w] # 0, t.byUser[w] = 0, w # u
                   PROVE  \E q \in PartyIDs : /\ Lists(s, q, w) /\ Lists(s, q, u)
                                              /\ ~ Fits(s.parties[q])
        BY DEF EndsOnly
      <4>1. HasMember(Q, w) /\ ~ Fits(Q)
        BY <2>5, <2>8, <3>3
      <4>2. Lists(s, p, w) /\ Lists(s, p, u) /\ ~ Fits(s.parties[p])
        BY <2>1, <2>2, <2>3, <4>1 DEF Lists, P
      <4> QED BY <2>1, <4>2
    <3>5. ASSUME UniqueOK(s), NEW w \in Users, NEW h \in Gens, w # u, Current(s, w, h),
                 AllFit(s, w)
          PROVE  Current(t, w, h)
      <4>1. CASE s.byUser[w] = p
        <5>1. Lists(s, p, w)
          BY <3>5, <4>1, CurrentParts
        <5>2. Fits(P)
          BY <2>1, <3>5, <5>1 DEF AllFit, P
        <5>3. HasMember(Q, w) /\ Member(Q, w).gen = h
          BY <2>9, <3>5, <4>1
        <5> QED BY <2>3, <3>3, <5>2, <5>3
      <4>2. CASE s.byUser[w] # p
        <5>1. ~ HasMember(Q, w)
          BY <2>1, <2>2, <3>5, <4>2 DEF UniqueOK, Lists, P
        <5> QED BY <2>9, <3>3, <3>5, <4>2, <5>1
      <4> QED BY <4>1, <4>2
    <3> QED BY <2>8, <3>3, <3>4, <3>5 DEF t
  <2> QED BY <2>11, <2>12, <2>13
<1> QED BY <1>1, <1>2

\* P lists w under generation h.
ListsAs(P, w, h) == HasMember(P, w) /\ Member(P, w).gen = h

\* Installing a party that keeps the generations of the one it replaces.
LEMMA InstallKeeps ==
    ASSUME NEW s, Good(s), NEW id \in PartyIDs, NEW P, P # NoParty, NEW u \in Users,
           NEW w \in Users, NEW h \in Gens, w # u, Current(s, w, h),
           s.byUser[w] = id => ListsAs(P, w, h)
    PROVE  Current(Install(s, id, P, u), w, h)
<1> DEFINE t == Install(s, id, P, u)
<1>1. s \in ManagerRec
  BY GoodParts
<1>2. t.parties = [s.parties EXCEPT ![id] = P] /\ t.byUser[w] = s.byUser[w]
  BY <1>1 DEF Install, ManagerRec
<1> HIDE DEF t
<1>3. Current(t, w, h)
  BY <1>2, ReplaceKeeps DEF ListsAs
<1> QED BY <1>3 DEF t

\* Nothing but invitations or the counter changed.
LEMMA FrameKeeps ==
    ASSUME NEW s, NEW t, t.parties = s.parties, t.byUser = s.byUser
    PROVE  /\ \A a : EndsOnly(s, t, a)
           /\ Spares(s, t)
           /\ \A w \in Users, h \in Gens : Current(s, w, h) => Current(t, w, h)
           /\ Clears(s, t)
           /\ \A w \in Users, h \in Gens : Current(t, w, h) => Current(s, w, h)
           /\ \A w \in Users : AllFit(s, w) => AllFit(t, w)
BY DEF EndsOnly, Spares, Clears, Current, InParty, PartyOf, AllFit, Lists

\* Create leaves nobody without a party; its caller's former membership goes
\* together with its invitations.
LEMMA CreateKeeps ==
    ASSUME NEW s, Good(s), NEW u \in Users, NEW g \in Gens, NEW n \in Limits
    PROVE  /\ Spares(s, CreateOp(s, u, g, n))
           /\ /\ UniqueOK(s)
              /\ \A p \in PartyIDs : Lists(s, p, u) => Member(s.parties[p], u).gen = g
              => Clears(s, CreateOp(s, u, g, n))
<1> DEFINE id == FreshID(s)
           r == [s EXCEPT !.nextID = NextAfter(s)]
           t == LeaveLocked(r, u, g)
           N == Add(EmptyParty(u, NormalLimit(n)), u, g)
           x == CreateOp(s, u, g, n)
<1>1. CASE id = 0
  <2>1. x = s
    BY <1>1 DEF CreateOp
  <2> QED BY <2>1, FrameKeeps
<1>2. CASE id # 0
  <2>1. s \in ManagerRec
    BY GoodParts
  <2>2. id \in PartyIDs /\ s.parties[id] = NoParty /\ NextAfter(s) \in PartyIDs
        /\ NextAfter(s) = NextOf(id)
    BY <1>2, <2>1, FreshType DEF FreeID, NextAfter
  <2>3. /\ r \in ManagerRec /\ r.parties = s.parties /\ r.byUser = s.byUser
        /\ r.nextID = NextOf(id) /\ r.invites = s.invites
    BY <2>1, <2>2 DEF ManagerRec
  <2>4. x = Install(t, id, N, u)
    BY <1>2 DEF CreateOp
  <2> HIDE DEF r, id, x
  <2>5. Good(r) /\ (UniqueOK(s) => UniqueOK(r))
    BY <2>3, FrameGood
  <2>6. Good(t) /\ t.parties[id] = NoParty
    BY <2>2, <2>3, <2>5, LeaveGood
  <2>7. /\ EndsOnly(r, t, u)
        /\ Current(r, u, g) => t.invites = ClearInvites(r, u, g)
        /\ UniqueOK(r) => \A w \in Users, h \in Gens :
             w # u /\ Current(r, w, h) /\ AllFit(r, w) => Current(t, w, h)
    BY <2>5, LeaveKeeps
  <2> HIDE DEF t
  <2>8. PartyGood(N)
    BY NormalLimitType, NewPartyGood
  <2>9. N # NoParty
    BY <2>8, NilAssumption DEF PartyGood
  <2> HIDE DEF N
  <2>10. /\ x.invites = t.invites
         /\ \A w \in Users : x.byUser[w] = IF w = u THEN id ELSE t.byUser[w]
    <3>1. t \in ManagerRec
      BY <2>6, GoodParts
    <3> QED BY <2>2, <2>4, <3>1 DEF Install, ManagerRec
  <2>11. Spares(s, x)
    BY <2>2, <2>3, <2>7, <2>10 DEF EndsOnly, Spares, AllFit, Lists, PartyIDs
  <2>12. ASSUME UniqueOK(s),
                \A p \in PartyIDs : Lists(s, p, u) => Member(s.parties[p], u).gen = g,
                NEW w \in Users, NEW h \in Gens, Current(s, w, h), AllFit(s, w)
         PROVE  Current(x, w, h) \/ \A i \in Users : ~ Names(x.invites[i], i, w, h)
    <3>1. Current(r, w, h) /\ AllFit(r, w)
      BY <2>3, <2>12, FrameKeeps
    <3>2. CASE w = u
      <4>1. h = g
        BY <2>12, <3>2, CurrentParts
      <4>2. x.invites = ClearInvites(r, u, g)
        BY <2>7, <2>10, <3>1, <3>2, <4>1
      <4> QED BY <2>3, <3>2, <4>1, <4>2, ClearedNames
    <3>3. CASE w # u
      <4>1. Current(t, w, h)
        BY <2>5, <2>7, <2>12, <3>1, <3>3
      <4>2. t.byUser[w] # id
        BY <2>6, <4>1 DEF Current, InParty
      <4> QED BY <2>2, <2>4, <2>6, <2>9, <3>3, <4>1, <4>2, InstallKeeps
    <3> QED BY <3>2, <3>3
  <2>13. /\ UniqueOK(s)
         /\ \A p \in PartyIDs : Lists(s, p, u) => Member(s.parties[p], u).gen = g
         => Clears(s, x)
    BY <2>12 DEF Clears
  <2> QED BY <2>11, <2>13 DEF x
<1> QED BY <1>1, <1>2

\* EnsureLeader ends no membership.
LEMMA EnsureLeaderKeeps ==
    ASSUME NEW s, Good(s), NEW u \in Users, NEW g \in Gens, NEW n \in Limits
    PROVE  /\ Spares(s, EnsureLeaderOp(s, u, g, n))
           /\ Clears(s, EnsureLeaderOp(s, u, g, n))
<1> DEFINE id == FreshID(s)
           r == [s EXCEPT !.nextID = NextAfter(s)]
           N == Add(EmptyParty(u, NormalLimit(n)), u, g)
           x == EnsureLeaderOp(s, u, g, n)
<1>1. CASE InParty(s, u) \/ id = 0
  <2>1. x = s
    BY <1>1 DEF EnsureLeaderOp
  <2> QED BY <2>1, FrameKeeps
<1>2. CASE ~ InParty(s, u) /\ id # 0
  <2>1. s \in ManagerRec
    BY GoodParts
  <2>2. id \in PartyIDs /\ s.parties[id] = NoParty /\ NextAfter(s) \in PartyIDs
    BY <1>2, <2>1, FreshType DEF FreeID
  <2>3. r \in ManagerRec /\ r.parties = s.parties /\ r.byUser = s.byUser
    BY <2>1, <2>2 DEF ManagerRec
  <2>4. x = Install(r, id, N, u)
    BY <1>2 DEF EnsureLeaderOp
  <2> HIDE DEF r, id, x
  <2>5. Good(r)
    BY <2>3, FrameGood
  <2>6. PartyGood(N)
    BY NormalLimitType, NewPartyGood
  <2>7. N # NoParty
    BY <2>6, NilAssumption DEF PartyGood
  <2> HIDE DEF N
  <2>8. \A w \in Users : x.byUser[w] = IF w = u THEN id ELSE r.byUser[w]
    BY <2>2, <2>3, <2>4 DEF Install, ManagerRec
  <2>9. Spares(s, x)
    BY <2>2, <2>3, <2>8 DEF Spares, PartyIDs
  <2>10. ASSUME NEW w \in Users, NEW h \in Gens, Current(s, w, h)
         PROVE  Current(x, w, h)
    <3>1. Current(r, w, h) /\ w # u
      BY <1>2, <2>3, <2>10, FrameKeeps DEF Current
    <3>2. r.byUser[w] # id
      BY <2>2, <2>3, <3>1 DEF Current, InParty
    <3> QED BY <2>2, <2>4, <2>5, <2>7, <3>1, <3>2, InstallKeeps
  <2> QED BY <2>9, <2>10 DEF Clears, x
<1> QED BY <1>1, <1>2

\* add moves nobody.
LEMMA AddKeeps ==
    ASSUME NEW P \in PartyRec, Seated(P), NEW u \in Users, NEW g \in Gens, CanAdd(P, u),
           NEW w, HasMember(P, w)
    PROVE  Member(Add(P, u, g), w) = Member(P, w)
<1> DEFINE a == FirstIn(FreeSlots(P))
           k == SlotOf(P, w)
           Q == Add(P, u, g)
<1>1. a \in Slots /\ P.members[a] = NoMember
  <2>1. FreeSlots(P) \in SUBSET Slots /\ FreeSlots(P) # {}
    BY DEF FreeSlots, CanAdd
  <2> QED BY <2>1, FirstInMin DEF FreeSlots
<1>2. k \in Slots /\ At(P, k, w) /\ Member(P, w) = P.members[k]
  BY SlotOfSeat DEF Member
<1>3. Q.members = [P.members EXCEPT ![a] = Seat(u, g, a)]
  BY DEF Add, PartyRec
<1>4. Q \in PartyRec /\ Seated(Q)
  BY AddGood
<1> HIDE DEF a, k, Q
<1>5. Q.members[k] = P.members[k] /\ At(Q, k, w)
  BY <1>1, <1>2, <1>3 DEF At, PartyRec
<1> QED BY <1>2, <1>4, <1>5, MemberAt DEF Q

\* Join leaves nobody without a party; its caller's former membership goes
\* together with its invitations.
LEMMA JoinKeeps ==
    ASSUME NEW s, Good(s), NEW p \in PartyIDs, NEW u \in Users, NEW g \in Gens
    PROVE  /\ Spares(s, JoinOp(s, p, u, g))
           /\ /\ UniqueOK(s)
              /\ \A q \in PartyIDs : Lists(s, q, u) => Member(s.parties[q], u).gen = g
              => Clears(s, JoinOp(s, p, u, g))
<1> DEFINE t == LeaveLocked(s, u, g)
           P == s.parties[p]
           N == Add(P, u, g)
           x == JoinOp(s, p, u, g)
<1>1. CASE ~ JoinOK(s, p, u)
  <2>1. x = s
    BY <1>1 DEF JoinOp
  <2> QED BY <2>1, FrameKeeps
<1>2. CASE JoinOK(s, p, u)
  <2>1. P # NoParty /\ CanAdd(P, u) /\ ~ HasMember(P, u)
    BY <1>2 DEF JoinOK, CanAdd
  <2>2. PartyGood(P) /\ P \in PartyRec /\ Seated(P)
    BY <2>1, GoodParts DEF PartyGood
  <2>3. /\ N # NoParty
        /\ \A w : HasMember(N, w) <=> HasMember(P, w) \/ w = u
        /\ \A w : HasMember(P, w) => Member(N, w) = Member(P, w)
    BY <2>1, <2>2, AddGood, AddKeeps, NilAssumption
  <2>4. Good(t) /\ t.parties[p] = P
    BY <2>1, LeaveGood
  <2>5. /\ EndsOnly(s, t, u)
        /\ Current(s, u, g) => t.invites = ClearInvites(s, u, g)
        /\ UniqueOK(s) => \A w \in Users, h \in Gens :
             w # u /\ Current(s, w, h) /\ AllFit(s, w) => Current(t, w, h)
    BY LeaveKeeps
  <2>6. x = Install(t, p, N, u)
    BY <1>2 DEF JoinOp
  <2> HIDE DEF t, N, x
  <2>7. /\ x.invites = t.invites
        /\ \A w \in Users : x.byUser[w] = IF w = u THEN p ELSE t.byUser[w]
    <3>1. t \in ManagerRec
      BY <2>4, GoodParts
    <3> QED BY <2>6, <3>1 DEF Install, ManagerRec
  <2>8. Spares(s, x)
    BY <2>5, <2>7 DEF EndsOnly, Spares, AllFit, Lists, PartyIDs
  <2>9. ASSUME UniqueOK(s),
               \A q \in PartyIDs : Lists(s, q, u) => Member(s.parties[q], u).gen = g,
               NEW w \in Users, NEW h \in Gens, Current(s, w, h), AllFit(s, w)
        PROVE  Current(x, w, h) \/ \A i \in Users : ~ Names(x.invites[i], i, w, h)
    <3>1. CASE w = u
      <4>1. h = g
        BY <2>9, <3>1, CurrentParts
      <4>2. x.invites = ClearInvites(s, u, g) /\ s \in ManagerRec
        BY <2>5, <2>7, <2>9, <3>1, <4>1, GoodParts
      <4> QED BY <3>1, <4>1, <4>2, ClearedNames
    <3>2. CASE w # u
      <4>1. Current(t, w, h)
        BY <2>5, <2>9, <3>2
      <4>2. t.byUser[w] = p => ListsAs(P, w, h)
        BY <2>4, <4>1 DEF Current, InParty, PartyOf, ListsAs
      <4>3. t.byUser[w] = p => ListsAs(N, w, h)
        BY <2>3, <4>2 DEF ListsAs
      <4> QED BY <2>3, <2>4, <2>6, <3>2, <4>1, <4>3, InstallKeeps
    <3> QED BY <3>1, <3>2
  <2>10. /\ UniqueOK(s)
         /\ \A q \in PartyIDs : Lists(s, q, u) => Member(s.parties[q], u).gen = g
         => Clears(s, x)
    BY <2>9 DEF Clears
  <2> QED BY <2>8, <2>10 DEF x
<1> QED BY <1>1, <1>2

\* Kick ends the membership of its target and no other, with its invitations.
LEMMA KickKeeps ==
    ASSUME NEW s, Good(s), NEW u \in Users, NEW g \in Gens,
           NEW v \in Users, NEW h \in Gens
    PROVE  /\ EndsOnly(s, KickOp(s, u, g, v, h), v)
           /\ UniqueOK(s) => Clears(s, KickOp(s, u, g, v, h))
<1> DEFINE t == KickOp(s, u, g, v, h)
           p == s.byUser[u]
           P == s.parties[p]
           Q == Remove(P, v)
<1>1. CASE ~ KickOK(s, u, g, v, h)
  <2>1. t = s
    BY <1>1 DEF KickOp
  <2> QED BY <2>1, FrameKeeps
<1>2. CASE KickOK(s, u, g, v, h)
  <2>1. p \in PartyIDs /\ PartyOf(s, u) = P /\ P # NoParty /\ PartyGood(P)
    BY <1>2, InPartyParts DEF KickOK, IsLeader, Current
  <2>2. HasMember(P, v) /\ Member(P, v).gen = h
    BY <1>2, <2>1 DEF KickOK
  <2>3. /\ Q # NoParty
        /\ \A w : HasMember(Q, w) <=> HasMember(P, w) /\ w # v
        /\ \A w : w # v /\ HasMember(P, w) => Member(Q, w) = Member(P, w)
    BY <2>1, <2>2, RemoveGood, RemoveKeeps, NilAssumption
  <2>4. s \in ManagerRec
    BY GoodParts
  <2>5. /\ t.parties = [s.parties EXCEPT ![p] = Q]
        /\ t.byUser = [s.byUser EXCEPT ![v] = 0]
        /\ t.invites = ClearInvites(s, v, h)
    BY <1>2, <2>1, <2>4 DEF KickOp, ManagerRec
  <2>6. \A w \in Users : w # v => t.byUser[w] = s.byUser[w]
    BY <2>4, <2>5 DEF ManagerRec
  <2> HIDE DEF t, Q
  <2>7. EndsOnly(s, t, v)
    BY <2>6 DEF EndsOnly
  <2>8. ASSUME UniqueOK(s), NEW w \in Users, NEW f \in Gens, Current(s, w, f)
        PROVE  Current(t, w, f) \/ \A i \in Users : ~ Names(t.invites[i], i, w, f)
    <3>1. CASE w = v
      <4>1. s.byUser[v] = p
        BY <2>1, <2>2, <2>8 DEF UniqueOK, Lists
      <4>2. f = h
        BY <2>2, <2>8, <3>1, <4>1, CurrentParts
      <4> QED BY <2>4, <2>5, <3>1, <4>2, ClearedNames
    <3>2. CASE w # v
      <4>1. s.byUser[w] = p => HasMember(Q, w) /\ Member(Q, w).gen = f
        BY <2>3, <2>8, <3>2, CurrentParts DEF Lists
      <4>2. t.byUser[w] = s.byUser[w]
        BY <2>6, <3>2
      <4>3. t.parties = [s.parties EXCEPT ![p] = Q] /\ Q # NoParty /\ p \in PartyIDs
        BY <2>1, <2>3, <2>5
      <4> QED BY <2>8, <4>1, <4>2, <4>3, ReplaceKeeps
    <3> QED BY <3>1, <3>2
  <2> QED BY <2>7, <2>8 DEF Clears, t
<1> QED BY <1>1, <1>2

\* TransferLeader loses nobody unless the party is over its limit.
LEMMA TransferLeaderKeeps ==
    ASSUME NEW s, Good(s), NEW u \in Users, NEW g \in Gens,
           NEW v \in Users, NEW h \in Gens
    PROVE  /\ Spares(s, TransferLeaderOp(s, u, g, v, h))
           /\ UniqueOK(s) => Clears(s, TransferLeaderOp(s, u, g, v, h))
<1> DEFINE t == TransferLeaderOp(s, u, g, v, h)
           p == s.byUser[u]
           P == s.parties[p]
<1>1. CASE ~ TransferOK(s, u, g, v, h)
  <2>1. t = s
    BY <1>1 DEF TransferLeaderOp
  <2> QED BY <2>1, FrameKeeps
<1>2. CASE TransferOK(s, u, g, v, h)
  <2>1. /\ p \in PartyIDs /\ PartyOf(s, u) = P /\ P # NoParty
        /\ PartyGood(P) /\ HasMember(P, u)
    BY <1>2, InPartyParts DEF TransferOK, IsLeader, Current
  <2>2. HasMember(P, v) /\ P \in PartyRec /\ Seated(P)
    BY <1>2, <2>1 DEF TransferOK, PartyGood
  <2>3. t = Reform(s, p, P, v)
    BY <1>2, <2>1 DEF TransferLeaderOp
  <2>4. s \in ManagerRec
    BY GoodParts
  <2> HIDE DEF t, P
  <2>5. /\ \A w \in Users : s.byUser[w] # 0 /\ t.byUser[w] = 0
              => HasMember(P, w) /\ ~ Fits(P)
        /\ \A w \in Users : HasMember(P, w) /\ Fits(P)
              => Current(t, w, Member(P, w).gen)
        /\ \A w \in Users, f \in Gens :
              ~ HasMember(P, w) /\ s.byUser[w] # p /\ s.byUser[w] # 0
                  /\ Current(s, w, f) => Current(t, w, f)
    BY <2>1, <2>2, <2>3, <2>4, ReformKeeps
  <2>6. Spares(s, t)
    BY <2>1, <2>5 DEF Spares, AllFit, Lists, P
  <2>7. ASSUME UniqueOK(s), NEW w \in Users, NEW f \in Gens, Current(s, w, f), AllFit(s, w)
        PROVE  Current(t, w, f)
    <3>1. CASE s.byUser[w] = p
      <4>1. Lists(s, p, w) /\ Member(P, w).gen = f
        BY <2>7, <3>1, CurrentParts DEF P
      <4>2. Fits(P) /\ HasMember(P, w)
        BY <2>1, <2>7, <4>1 DEF AllFit, Lists, P
      <4> QED BY <2>5, <4>1, <4>2
    <3>2. CASE s.byUser[w] # p
      <4>1. ~ HasMember(P, w) /\ s.byUser[w] # 0
        BY <2>1, <2>7, <3>2, CurrentParts DEF UniqueOK, Lists, P
      <4> QED BY <2>5, <2>7, <3>2, <4>1
    <3> QED BY <3>1, <3>2
  <2> QED BY <2>6, <2>7 DEF Clears, t
<1> QED BY <1>1, <1>2

\* UpdateSettings changes nobody's membership.
LEMMA UpdateSettingsKeeps ==
    ASSUME NEW s, Good(s), NEW u \in Users, NEW g \in Gens, NEW n \in Limits
    PROVE  /\ Spares(s, UpdateSettingsOp(s, u, g, n))
           /\ Clears(s, UpdateSettingsOp(s, u, g, n))
<1> DEFINE t == UpdateSettingsOp(s, u, g, n)
           p == s.byUser[u]
           P == s.parties[p]
           Q == [P EXCEPT !.limit = NormalLimit(n)]
<1>1. CASE ~ IsLeader(s, u, g)
  <2>1. t = s
    BY <1>1 DEF UpdateSettingsOp
  <2> QED BY <2>1, FrameKeeps
<1>2. CASE IsLeader(s, u, g)
  <2>1. p \in PartyIDs /\ PartyOf(s, u) = P /\ P # NoParty /\ PartyGood(P)
    BY <1>2, InPartyParts DEF IsLeader, Current
  <2>2. Q # NoParty /\ Q.members = P.members
    BY <2>1, NormalLimitType, NilAssumption DEF PartyRec, PartyGood
  <2>3. s \in ManagerRec
    BY GoodParts
  <2>4. t.parties = [s.parties EXCEPT ![p] = Q] /\ t.byUser = s.byUser
    BY <1>2, <2>1, <2>3 DEF UpdateSettingsOp, ManagerRec
  <2> HIDE DEF t, Q, P
  <2>5. \A w : /\ HasMember(Q, w) <=> HasMember(P, w)
               /\ Member(Q, w) = Member(P, w)
    BY <2>2 DEF HasMember, Member, SlotOf, At
  <2>6. ASSUME NEW w \in Users, NEW h \in Gens, Current(s, w, h) PROVE Current(t, w, h)
    <3>1. s.byUser[w] = p => HasMember(Q, w) /\ Member(Q, w).gen = h
      BY <2>5, <2>6, CurrentParts DEF Lists, P
    <3> QED BY <2>1, <2>2, <2>4, <2>6, <3>1, ReplaceKeeps
  <2> QED BY <2>4, <2>6 DEF Spares, Clears, t
<1> QED BY <1>1, <1>2

\* Reposition moves two members and keeps their generations.
LEMMA RepositionKeeps ==
    ASSUME NEW s, Good(s), NEW u \in Users, NEW g \in Gens,
           NEW from \in Slots, NEW to \in Slots
    PROVE  /\ Spares(s, RepositionOp(s, u, g, from, to))
           /\ Clears(s, RepositionOp(s, u, g, from, to))
<1> DEFINE t == RepositionOp(s, u, g, from, to)
           p == s.byUser[u]
           P == s.parties[p]
           a == Reseat(P.members[to], from)
           b == Reseat(P.members[from], to)
           Q == [P EXCEPT !.members = [P.members EXCEPT ![from] = a, ![to] = b]]
           Swaps == /\ from # to /\ from # 0 /\ to # 0
                    /\ IsLeader(s, u, g)
                    /\ PartyOf(s, u).members[from] # NoMember
<1>1. CASE ~ Swaps
  <2>1. t = s
    BY <1>1 DEF RepositionOp
  <2> QED BY <2>1, FrameKeeps
<1>2. CASE Swaps
  <2>1. p \in PartyIDs /\ PartyOf(s, u) = P /\ P # NoParty /\ PartyGood(P)
    BY <1>2, InPartyParts DEF IsLeader, Current
  <2>2. P \in PartyRec /\ Seated(P) /\ from # to
    BY <1>2, <2>1 DEF PartyGood
  <2>3. s \in ManagerRec /\ Good(t)
    BY GoodParts, RepositionGood
  <2>4. t.parties = [s.parties EXCEPT ![p] = Q] /\ t.byUser = s.byUser
    BY <1>2, <2>1, <2>3 DEF RepositionOp, ManagerRec
  <2>5. /\ Q \in PartyRec
        /\ \A j \in Slots : Q.members[j] =
             IF j = to THEN b ELSE IF j = from THEN a ELSE P.members[j]
    <3>1. \A k \in Slots : P.members[k] \in MemberRec \cup {NoMember}
      BY <2>2 DEF PartyRec
    <3>2. a \in MemberRec \cup {NoMember} /\ b \in MemberRec \cup {NoMember}
      BY <3>1 DEF Reseat, Seat, MemberRec
    <3> HIDE DEF a, b
    <3> QED BY <2>2, <3>2 DEF PartyRec
  <2> HIDE DEF t, Q
  <2>6. t.parties[p] = Q
    BY <2>1, <2>3, <2>4, SizeAssumption DEF ManagerRec, PartyIDs
  <2>7. ASSUME NEW w \in Users, HasMember(P, w)
        PROVE  \E j \in Slots : At(Q, j, w) /\ Q.members[j].gen = Member(P, w).gen
    <3> DEFINE k == SlotOf(P, w)
    <3>1. k \in Slots /\ At(P, k, w) /\ Member(P, w) = P.members[k]
      BY <2>2, <2>7, SlotOfSeat DEF Member
    <3>2. P.members[k] \in MemberRec /\ P.members[k].user = w /\ P.members[k] # NoMember
      BY <2>2, <2>7, <3>1, MemberType DEF At
    <3> HIDE DEF k
    <3>3. \A j \in Slots : /\ Seat(P.members[k].user, P.members[k].gen, j) # NoMember
                           /\ Seat(P.members[k].user, P.members[k].gen, j).user = w
                           /\ Seat(P.members[k].user, P.members[k].gen, j).gen = P.members[k].gen
      BY <3>2, NilAssumption DEF Seat, MemberRec
    <3>4. CASE k = from
      <4>1. Q.members[to] = Seat(P.members[k].user, P.members[k].gen, to)
        BY <2>5, <3>2, <3>4 DEF Reseat
      <4>2. At(Q, to, w) /\ Q.members[to].gen = Member(P, w).gen
        BY <3>1, <3>3, <4>1 DEF At
      <4> QED BY <4>2
    <3>5. CASE k = to
      <4>1. Q.members[from] = Seat(P.members[k].user, P.members[k].gen, from)
        BY <2>2, <2>5, <3>2, <3>5 DEF Reseat
      <4>2. At(Q, from, w) /\ Q.members[from].gen = Member(P, w).gen
        BY <3>1, <3>3, <4>1 DEF At
      <4> QED BY <4>2
    <3>6. CASE k # from /\ k # to
      <4>1. Q.members[k] = P.members[k]
        BY <2>5, <3>1, <3>6
      <4>2. At(Q, k, w) /\ Q.members[k].gen = Member(P, w).gen
        BY <3>1, <4>1 DEF At
      <4> QED BY <3>1, <4>2
    <3> QED BY <3>4, <3>5, <3>6
  <2>8. Q # NoParty
    BY <2>5, NilAssumption
  <2>9. Q \in PartyRec /\ Seated(Q)
    BY <2>1, <2>3, <2>6, <2>8, GoodParts DEF PartyGood
  <2>10. ASSUME NEW w \in Users, NEW h \in Gens, Current(s, w, h) PROVE Current(t, w, h)
    <3>1. ASSUME s.byUser[w] = p PROVE HasMember(Q, w) /\ Member(Q, w).gen = h
      <4>1. HasMember(P, w) /\ Member(P, w).gen = h
        BY <2>10, <3>1, CurrentParts DEF Lists
      <4>2. PICK j \in Slots : At(Q, j, w) /\ Q.members[j].gen = Member(P, w).gen
        BY <2>7, <4>1
      <4> QED BY <2>9, <4>1, <4>2, MemberAt
    <3> QED BY <2>1, <2>4, <2>8, <2>10, <3>1, ReplaceKeeps
  <2> QED BY <2>4, <2>10 DEF Spares, Clears, t
<1> QED BY <1>1, <1>2

\* RebindSession ends no membership; the replaced generation keeps no
\* invitation.
LEMMA RebindSessionKeeps ==
    ASSUME NEW s, Good(s), NEW u \in Users, NEW old \in Gens, NEW g \in Gens
    PROVE  /\ Spares(s, RebindSessionOp(s, u, old, g))
           /\ Clears(s, RebindSessionOp(s, u, old, g))
<1> DEFINE t == RebindSessionOp(s, u, old, g)
           p == s.byUser[u]
           P == s.parties[p]
           k == SlotOf(P, u)
           m == Seat(u, g, P.members[k].slot)
           Q == [P EXCEPT !.members = [P.members EXCEPT ![k] = m]]
           inv == ClearInvites(s, u, old)
<1>1. s \in ManagerRec
  BY GoodParts
<1>2. CASE ~ InParty(s, u)
  <2>1. t.parties = s.parties /\ t.byUser = s.byUser
    BY <1>1, <1>2 DEF RebindSessionOp, ManagerRec
  <2> QED BY <2>1, FrameKeeps
<1>3. CASE InParty(s, u) /\ Member(PartyOf(s, u), u).gen # old
  <2>1. t = s
    BY <1>3 DEF RebindSessionOp
  <2> QED BY <2>1, FrameKeeps
<1>4. CASE InParty(s, u) /\ Member(PartyOf(s, u), u).gen = old
  <2>1. /\ p \in PartyIDs /\ PartyOf(s, u) = P /\ P # NoParty /\ PartyGood(P)
        /\ HasMember(P, u) /\ Member(P, u).gen = old
    BY <1>4, InPartyParts
  <2>2. P \in PartyRec /\ Seated(P)
    BY <2>1 DEF PartyGood
  <2>3. k \in Slots /\ At(P, k, u) /\ P.members[k].slot = k
    BY <2>1, <2>2, SlotOfSeat DEF Seated, At
  <2>4. /\ t.parties = [s.parties EXCEPT ![p] = Q] /\ t.byUser = s.byUser
        /\ t.invites = inv
    BY <1>1, <1>4, <2>1 DEF RebindSessionOp, ManagerRec
  <2>5. m \in MemberRec
    BY <2>3 DEF Seat, MemberRec
  <2>6. Good(t)
    BY RebindSessionGood
  <2> HIDE DEF t, inv, k, m
  <2>7. /\ Q \in PartyRec
        /\ \A j \in Slots : Q.members[j] = IF j = k THEN m ELSE P.members[j]
    BY <2>2, <2>3, <2>5 DEF PartyRec
  <2> HIDE DEF Q
  <2>8. t.parties[p] = Q /\ Q # NoParty
    BY <1>1, <2>1, <2>4, <2>7, NilAssumption, SizeAssumption DEF ManagerRec, PartyIDs
  <2>9. Seated(Q)
    BY <2>1, <2>6, <2>8, GoodParts DEF PartyGood
  <2>10. ASSUME NEW w \in Users, NEW h \in Gens, Current(s, w, h)
         PROVE  Current(t, w, h) \/ \A i \in Users : ~ Names(t.invites[i], i, w, h)
    <3>1. CASE w = u
      <4>1. h = old
        BY <2>1, <2>10, <3>1, CurrentParts
      <4> QED BY <1>1, <2>4, <3>1, <4>1, ClearedNames DEF inv
    <3>2. CASE w # u
      <4>1. ASSUME s.byUser[w] = p PROVE HasMember(Q, w) /\ Member(Q, w).gen = h
        <5> DEFINE j == SlotOf(P, w)
        <5>1. HasMember(P, w) /\ Member(P, w).gen = h
          BY <2>10, <4>1, CurrentParts DEF Lists
        <5>2. j \in Slots /\ At(P, j, w) /\ Member(P, w) = P.members[j]
          BY <2>2, <5>1, SlotOfSeat DEF Member
        <5> HIDE DEF j
        <5>3. j # k
          BY <2>3, <3>2, <5>2 DEF At
        <5>4. Q.members[j] = P.members[j] /\ At(Q, j, w)
          BY <2>7, <5>2, <5>3 DEF At
        <5> QED BY <2>7, <2>9, <5>1, <5>2, <5>4, MemberAt
      <4>2. t.byUser[w] = s.byUser[w]
        BY <2>4
      <4>3. t.parties = [s.parties EXCEPT ![p] = Q] /\ Q # NoParty /\ p \in PartyIDs
        BY <2>1, <2>4, <2>8
      <4> QED BY <2>10, <4>1, <4>2, <4>3, ReplaceKeeps
    <3> QED BY <3>1, <3>2
  <2> QED BY <2>4, <2>10 DEF Spares, Clears, t
<1> QED BY <1>2, <1>3, <1>4

\* Recording and consuming an invitation change no membership.
LEMMA InvitesKeep ==
    ASSUME NEW s, Good(s), NEW i \in Users, NEW ig \in Gens, NEW u \in Users,
           NEW g \in Gens, NEW m \in Modes
    PROVE  /\ Spares(s, RecordInviteOp(s, i, ig, u, g, m))
           /\ Clears(s, RecordInviteOp(s, i, ig, u, g, m))
           /\ Spares(s, ConsumeInviteOp(s, i, ig, u, g, m))
           /\ Clears(s, ConsumeInviteOp(s, i, ig, u, g, m))
<1> DEFINE a == RecordInviteOp(s, i, ig, u, g, m)
           b == ConsumeInviteOp(s, i, ig, u, g, m)
<1>1. s \in ManagerRec
  BY GoodParts
<1>2. a.parties = s.parties /\ a.byUser = s.byUser
  BY <1>1 DEF RecordInviteOp, ManagerRec
<1>3. b.parties = s.parties /\ b.byUser = s.byUser
  BY <1>1 DEF ConsumeInviteOp, ManagerRec
<1> HIDE DEF a, b
<1>4. Spares(s, a) /\ Clears(s, a) /\ Spares(s, b) /\ Clears(s, b)
  BY <1>2, <1>3, FrameKeeps
<1> QED BY <1>4 DEF a, b

\* What every method but Create and Join does to memberships and invitations.
LEMMA StepKeeps ==
    ASSUME Good(mgr), NEW u \in Users, NEW g \in Gens, Step(u, g)
    PROVE  /\ \/ Spares(mgr, mgr')
              \/ \E a \in Users : EndsOnly(mgr, mgr', a) /\ LeavesOrIsKicked(a)
           /\ UniqueOK(mgr) => Clears(mgr, mgr')
<1>1. CASE EnsureLeader(u, g)
  BY <1>1, EnsureLeaderKeeps DEF EnsureLeader
<1>2. CASE Leave(u, g)
  <2>1. EndsOnly(mgr, mgr', u)
    BY <1>2, LeaveKeeps DEF Leave
  <2>2. ASSUME UniqueOK(mgr), NEW w \in Users, NEW h \in Gens,
               Current(mgr, w, h), AllFit(mgr, w)
        PROVE  Current(mgr', w, h) \/ \A i \in Users : ~ Names(mgr'.invites[i], i, w, h)
    <3>1. CASE w # u
      BY <1>2, <2>2, <3>1, LeaveKeeps DEF Leave
    <3>2. CASE w = u /\ h = g
      <4>1. mgr'.invites = ClearInvites(mgr, u, g) /\ mgr \in ManagerRec
        BY <1>2, <2>2, <3>2, LeaveKeeps, GoodParts DEF Leave
      <4> QED BY <3>2, <4>1, ClearedNames
    <3>3. CASE w = u /\ h # g
      <4>1. ~ Current(mgr, u, g)
        BY <2>2, <3>3 DEF Current
      <4>2. mgr' = mgr
        BY <1>2, <4>1 DEF Leave, LeaveLocked
      <4> QED BY <2>2, <4>2
    <3> QED BY <3>1, <3>2, <3>3
  <2>3. LeavesOrIsKicked(u)
    BY <1>2 DEF LeavesOrIsKicked
  <2> QED BY <2>1, <2>2, <2>3 DEF Clears
<1>3. CASE Kick(u, g)
  <2>1. PICK v \in Users, h \in Gens : mgr' = KickOp(mgr, u, g, v, h)
    BY <1>3 DEF Kick
  <2>2. EndsOnly(mgr, mgr', v) /\ (UniqueOK(mgr) => Clears(mgr, mgr'))
    BY <2>1, KickKeeps
  <2>3. LeavesOrIsKicked(v)
    BY <2>1 DEF LeavesOrIsKicked
  <2> QED BY <2>2, <2>3
<1>4. CASE TransferLeader(u, g)
  BY <1>4, TransferLeaderKeeps DEF TransferLeader
<1>5. CASE UpdateSettings(u, g)
  BY <1>5, UpdateSettingsKeeps DEF UpdateSettings
<1>6. CASE RebindSession(u, g)
  BY <1>6, RebindSessionKeeps DEF RebindSession
<1>7. CASE Reposition(u, g)
  BY <1>7, RepositionKeeps DEF Reposition
<1>8. CASE RecordInvite(u, g)
  BY <1>8, InvitesKeep DEF RecordInvite
<1>9. CASE ConsumeInvite(u, g)
  BY <1>9, InvitesKeep DEF ConsumeInvite
<1> QED BY <1>1, <1>2, <1>3, <1>4, <1>5, <1>6, <1>7, <1>8, <1>9 DEF Step

\* Within its limit a party loses nobody but those who leave or are kicked,
\* whoever calls: successions and transfers carry everybody over.
THEOREM NobodyIsDropped == Spec => SurvivorsKept
<1>1. ASSUME Good(mgr), [Next]_vars
      PROVE  [\A u \in Users : Departs(u) /\ WithinLimit(u) => LeavesOrIsKicked(u)]_vars
  <2>1. CASE UNCHANGED vars
    BY <2>1
  <2>2. ASSUME Next, NEW w \in Users, Departs(w), WithinLimit(w) PROVE LeavesOrIsKicked(w)
    <3>1. ASSUME NEW u \in Users, NEW g \in Gens, Create(u, g) PROVE Spares(mgr, mgr')
      BY <1>1, <3>1, CreateKeeps DEF Create
    <3>2. ASSUME NEW u \in Users, NEW g \in Gens, Join(u, g) PROVE Spares(mgr, mgr')
      BY <1>1, <3>2, JoinKeeps DEF Join
    <3>3. \/ Spares(mgr, mgr')
          \/ \E a \in Users : EndsOnly(mgr, mgr', a) /\ LeavesOrIsKicked(a)
      BY <1>1, <2>2, <3>1, <3>2, StepKeeps DEF Next
    <3>4. AllFit(mgr, w)
      BY <2>2 DEF WithinLimit, Fits, AllFit
    <3>5. ~ Spares(mgr, mgr')
      BY <2>2, <3>4 DEF Spares, Departs
    <3>6. PICK a \in Users : EndsOnly(mgr, mgr', a) /\ LeavesOrIsKicked(a)
      BY <3>3, <3>5
    <3>7. w = a
      BY <2>2, <3>4, <3>6 DEF EndsOnly, AllFit, Departs
    <3> QED BY <3>6, <3>7
  <2> QED BY <1>1, <2>1, <2>2
<1> QED BY <1>1, GoodInvariant, PTL DEF Spec, SurvivorsKept

\* Under the contract an identity whose membership ends or moves to another
\* generation leaves no invitation behind, sent or received.
THEOREM EndedIdentitiesAreForgotten == ContractSpec => EndedIdentityHasNoInvite
<1> DEFINE IInv == Good(mgr) /\ UniqueOK(mgr)
<1>1. ContractSpec => []IInv
  BY ContractInvariant
<1>2. ASSUME IInv, IInv', [ContractNext]_vars
      PROVE  [\A u \in Users, g \in Gens :
                /\ Current(mgr, u, g)
                /\ WithinLimit(u)
                /\ Departs(u) \/ (InParty(mgr', u) /\ ~ Current(mgr', u, g))
                => \A i \in Users : ~ Names(mgr'.invites[i], i, u, g)]_vars
  <2>1. CASE UNCHANGED vars
    BY <2>1
  <2>2. ASSUME Clears(mgr, mgr'), NEW u \in Users, NEW g \in Gens,
               Current(mgr, u, g), WithinLimit(u),
               Departs(u) \/ (InParty(mgr', u) /\ ~ Current(mgr', u, g))
        PROVE  \A i \in Users : ~ Names(mgr'.invites[i], i, u, g)
    <3>1. AllFit(mgr, u)
      BY <2>2 DEF WithinLimit, Fits, AllFit
    <3>2. ~ Current(mgr', u, g)
      <4>1. mgr'.parties[0] = NoParty
        BY <1>2 DEF Good, IndexOK
      <4> QED BY <2>2, <4>1 DEF Departs, Current, InParty
    <3> QED BY <2>2, <3>1, <3>2 DEF Clears
  <2>3. ASSUME ContractNext PROVE Clears(mgr, mgr')
    <3>1. ASSUME NEW u \in Users, NEW g \in Gens, CurrentIdentity(u, g), Create(u, g)
          PROVE  Clears(mgr, mgr')
      <4>1. \A p \in PartyIDs : Lists(mgr, p, u) => Member(mgr.parties[p], u).gen = g
        BY <3>1 DEF CurrentIdentity, Lists
      <4> QED BY <1>2, <3>1, <4>1, CreateKeeps DEF Create
    <3>2. ASSUME NEW u \in Users, NEW g \in Gens, CurrentIdentity(u, g), Join(u, g)
          PROVE  Clears(mgr, mgr')
      <4>1. \A p \in PartyIDs : Lists(mgr, p, u) => Member(mgr.parties[p], u).gen = g
        BY <3>2 DEF CurrentIdentity, Lists
      <4> QED BY <1>2, <3>2, <4>1, JoinKeeps DEF Join
    <3>3. ASSUME NEW u \in Users, NEW g \in Gens, Step(u, g) PROVE Clears(mgr, mgr')
      BY <1>2, <3>3, StepKeeps
    <3> QED BY <2>3, <3>1, <3>2, <3>3 DEF ContractNext
  <2> QED BY <1>2, <2>1, <2>2, <2>3
<1> QED BY <1>1, <1>2, PTL DEF ContractSpec, EndedIdentityHasNoInvite
=============================================================================
