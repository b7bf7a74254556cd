------------------------ MODULE PartySessionsProofs ------------------------
(***************************************************************************)
(* Proofs about PartySessions for every set of connections and characters: *)
(* outside the windows the handlers use the party manager as its contract  *)
(* demands, and no party keeps a ghost member.                             *)
(***************************************************************************)
EXTENDS PartySessions, PartyManagerProofs

-----------------------------------------------------------------------------
(* Whom the manager lists, and what its methods can add to that. *)

\* Some party lists u under generation g.
Known(s, u, g) ==
    \E p \in PartyIDs : Lists(s, p, u) /\ Member(s.parties[p], u).gen = g

\* From s to t nobody is entered and nobody's generation changes.
AddsNobody(s, t) == \A w \in Users : \A h : Known(t, w, h) => Known(s, w, h)

\* From s to t at most (u, g) is entered.
AddsOnly(s, t, u, g) ==
    \A w \in Users : \A h : Known(t, w, h) => Known(s, w, h) \/ (w = u /\ h = g)

\* Everybody P lists, Q lists under the same generation, but for (u, g).
Within(P, Q) == \A w : HasMember(P, w) => ListsAs(Q, w, Member(P, w).gen)

\* Replacing a party by one whose members it had.
LEMMA ShrunkAddsNobody ==
    ASSUME NEW s, Good(s), NEW p \in PartyIDs, NEW t, NEW Q,
           t.parties = [s.parties EXCEPT ![p] = Q],
           Q # NoParty => s.parties[p] # NoParty /\ Within(Q, s.parties[p])
    PROVE  AddsNobody(s, t)
<1>1. s \in ManagerRec
  BY GoodParts
<1>2. \A q \in PartyIDs : t.parties[q] = IF q = p THEN Q ELSE s.parties[q]
  BY <1>1, SizeAssumption DEF ManagerRec, PartyIDs
<1> SUFFICES ASSUME NEW w \in Users, NEW h, NEW q \in PartyIDs, Lists(t, q, w),
                    Member(t.parties[q], w).gen = h
             PROVE  Lists(s, q, w) /\ Member(s.parties[q], w).gen = h
  BY DEF AddsNobody, Known
<1> QED BY <1>2 DEF Lists, Within, ListsAs

\* Nothing but invitations or the counter changed.
LEMMA FrameAddsNobody ==
    ASSUME NEW s, NEW t, t.parties = s.parties
    PROVE  AddsNobody(s, t)
BY DEF AddsNobody, Known, Lists

\* rebuildLocked takes every generation over.
LEMMA RebuiltWithin ==
    ASSUME NEW P \in PartyRec, Seated(P), NEW u, HasMember(P, u)
    PROVE  Within(Rebuilt(P, u), P)
<1> DEFINE R == Rebuilt(P, u)
<1>1. R \in PartyRec /\ Seated(R)
  BY RebuiltGood DEF PartyGood
<1>2. 0 \in Slots
  BY SizeAssumption DEF Slots
<1>3. R.members[0] = Seat(u, Member(P, u).gen, 0)
  BY <1>2 DEF Rebuilt
<1>4. ASSUME NEW r \in Slots, r # 0, R.members[r] # NoMember
      PROVE  \E k \in Slots : /\ P.members[k] # NoMember
                              /\ R.members[r] = Seat(P.members[k].user, P.members[k].gen, r)
  <2>1. \E k \in Slots : Follows(P, u, k, r)
    BY <1>4 DEF Rebuilt
  <2>2. PICK k \in Slots : /\ k = CHOOSE j \in Slots : Follows(P, u, j, r)
                           /\ Follows(P, u, k, r)
    BY <2>1
  <2>3. R.members[r] = Seat(P.members[k].user, P.members[k].gen, r)
    BY <1>4, <2>1, <2>2 DEF Rebuilt
  <2> QED BY <2>2, <2>3 DEF Follows
<1> HIDE DEF R
<1>5. ASSUME NEW w, HasMember(R, w) PROVE ListsAs(P, w, Member(R, w).gen)
  <2>1. PICK r \in Slots : At(R, r, w) /\ Member(R, w) = R.members[r]
    BY <1>1, <1>5, SlotOfSeat DEF Member
  <2>2. CASE r = 0
    BY <1>3, <2>1, <2>2 DEF At, Seat, ListsAs
  <2>3. CASE r # 0
    <3>1. PICK k \in Slots : /\ P.members[k] # NoMember
                             /\ R.members[r] = Seat(P.members[k].user, P.members[k].gen, r)
      BY <1>4, <2>1, <2>3 DEF At
    <3>2. At(P, k, w) /\ P.members[k].gen = Member(R, w).gen
      BY <2>1, <3>1 DEF At, Seat
    <3> QED BY <3>2, MemberAt DEF ListsAs
  <2> QED BY <2>2, <2>3
<1> QED BY <1>5 DEF Within, R

\* remove takes one character out and leaves the generations of the others.
LEMMA RemoveWithin ==
    ASSUME NEW P, PartyGood(P), NEW u, HasMember(P, u)
    PROVE  Within(Remove(P, u), P) /\ ~ HasMember(Remove(P, u), u)
BY RemoveGood, RemoveKeeps DEF Within, ListsAs

\* A party rebuilt under a fresh id.
LEMMA ReformAddsNobody ==
    ASSUME NEW s \in ManagerRec, NEW p \in PartyIDs, NEW P \in PartyRec, Seated(P),
           NEW u, HasMember(P, u), s.parties[p] # NoParty, Within(P, s.parties[p])
    PROVE  /\ AddsNobody(s, Reform(s, p, P, u))
           /\ \A w : ~ HasMember(P, w) /\ (\A q \in PartyIDs \ {p} : ~ Lists(s, q, w))
                => \A h : ~ Known(Reform(s, p, P, u), w, h)
<1> DEFINE t == Reform(s, p, P, u)
           R == Rebuilt(P, u)
<1>1. PICK id \in PartyIDs : \A q \in 0 .. MaxPartyID : t.parties[q] =
             IF q = id THEN R ELSE IF q = p THEN NoParty ELSE s.parties[q]
  BY ReformShape
<1>2. PartyIDs \subseteq 0 .. MaxPartyID
  BY SizeAssumption DEF PartyIDs
<1>3. Within(R, P)
  BY RebuiltWithin
<1> HIDE DEF t, R
<1>4. ASSUME NEW w, NEW h, Known(t, w, h)
      PROVE  /\ Known(s, w, h)
             /\ HasMember(P, w) \/ \E q \in PartyIDs \ {p} : Lists(s, q, w)
  <2>1. PICK q \in PartyIDs : Lists(t, q, w) /\ Member(t.parties[q], w).gen = h
    BY <1>4 DEF Known
  <2>2. CASE q = id
    <3>1. HasMember(R, w) /\ Member(R, w).gen = h
      BY <1>1, <1>2, <2>1, <2>2 DEF Lists
    <3>2. ListsAs(P, w, h)
      BY <1>3, <3>1 DEF Within
    <3>3. HasMember(s.parties[p], w) /\ Member(s.parties[p], w).gen = h
      BY <3>2 DEF Within, ListsAs
    <3> QED BY <3>2, <3>3 DEF Known, Lists, ListsAs
  <2>3. CASE q # id
    <3>1. q # p /\ t.parties[q] = s.parties[q]
      BY <1>1, <1>2, <2>1, <2>3 DEF Lists
    <3> QED BY <2>1, <3>1 DEF Known, Lists
  <2> QED BY <2>2, <2>3
<1> QED BY <1>4 DEF AddsNobody, t

\* leaveLocked enters nobody; the leaver is listed nowhere afterwards.
LEMMA LeaveAdds ==
    ASSUME NEW s, Good(s), UniqueOK(s), NEW u \in Users, NEW g \in Gens
    PROVE  /\ AddsNobody(s, LeaveLocked(s, u, g))
           /\ Current(s, u, g) => \A h : ~ Known(LeaveLocked(s, u, g), u, h)
<1> DEFINE t == LeaveLocked(s, u, g)
           p == s.byUser[u]
           P == s.parties[p]
           Q == Remove(P, u)
           left == [s EXCEPT !.byUser = [s.byUser EXCEPT ![u] = 0],
                             !.invites = ClearInvites(s, u, g)]
<1>1. CASE ~ Current(s, u, g)
  <2>1. t = s
    BY <1>1 DEF LeaveLocked
  <2> QED BY <1>1, <2>1, FrameAddsNobody
<1>2. CASE Current(s, u, g)
  <2>1. p \in PartyIDs /\ P # NoParty /\ PartyGood(P) /\ HasMember(P, u)
    BY <1>2, CurrentParts DEF Lists
  <2>2. Q \in PartyRec /\ Q # NoParty /\ Seated(Q) /\ Within(Q, P) /\ ~ HasMember(Q, u)
    BY <2>1, RemoveGood, RemoveWithin, NilAssumption
  <2>3. s \in ManagerRec
    BY GoodParts
  <2>4. t = IF Vacant(Q)
            THEN [left EXCEPT !.parties = [s.parties EXCEPT ![p] = NoParty]]
            ELSE IF Q.leader # u
            THEN [left EXCEPT !.parties = [s.parties EXCEPT ![p] = Q]]
            ELSE Reform(left, p, Q, Successor(Q))
    BY <1>2 DEF LeaveLocked
  <2>5. \A q \in PartyIDs : q # p => ~ Lists(s, q, u)
    BY DEF UniqueOK
  <2>6. left \in ManagerRec /\ left.parties = s.parties
    <3>1. ClearInvites(s, u, g) \in [Users -> InviteRec \cup {NoInvite}]
      BY <2>3, ClearInvitesType
    <3>2. [s.byUser EXCEPT ![u] = 0] \in [Users -> 0 .. MaxPartyID]
      BY <2>3, SizeAssumption DEF ManagerRec
    <3> QED BY <2>3, <3>1, <3>2 DEF ManagerRec
  <2> HIDE DEF t, Q, left
  <2>7. ASSUME NEW V, t = [left EXCEPT !.parties = [s.parties EXCEPT ![p] = V]],
               V = NoParty \/ V = Q
        PROVE  AddsNobody(s, t) /\ \A h : ~ Known(t, u, h)
    <3>1. t.parties = [s.parties EXCEPT ![p] = V]
      BY <2>6, <2>7 DEF ManagerRec
    <3>2. AddsNobody(s, t)
      <4>1. V # NoParty => s.parties[p] # NoParty /\ Within(V, s.parties[p])
        BY <2>1, <2>2, <2>7
      <4> QED BY <2>1, <3>1, <4>1, ShrunkAddsNobody
    <3>3. \A q \in PartyIDs : t.parties[q] = IF q = p THEN V ELSE s.parties[q]
      BY <2>3, <3>1, SizeAssumption DEF ManagerRec, PartyIDs
    <3>4. \A q \in PartyIDs : ~ Lists(t, q, u)
      BY <2>2, <2>5, <2>7, <3>3 DEF Lists
    <3> QED BY <3>2, <3>4 DEF Known
  <2>8. CASE Vacant(Q)
    <3>1. t = [left EXCEPT !.parties = [s.parties EXCEPT ![p] = NoParty]]
      BY <2>4, <2>8
    <3> QED BY <2>7, <3>1 DEF t
  <2>9. CASE ~ Vacant(Q) /\ Q.leader # u
    <3>1. t = [left EXCEPT !.parties = [s.parties EXCEPT ![p] = Q]]
      BY <2>4, <2>9
    <3> QED BY <2>7, <3>1 DEF t
  <2>10. CASE ~ Vacant(Q) /\ Q.leader = u
    <3> DEFINE v == Successor(Q)
    <3>1. t = Reform(left, p, Q, v)
      BY <2>4, <2>10
    <3>2. HasMember(Q, v)
      BY <2>2, <2>10, SuccessorListed
    <3> HIDE DEF v, P
    <3>3. left.parties[p] # NoParty /\ Within(Q, left.parties[p])
      BY <2>1, <2>2, <2>6 DEF P
    <3>4. \A q \in PartyIDs \ {p} : ~ Lists(left, q, u)
      BY <2>5, <2>6 DEF Lists
    <3>5. AddsNobody(left, t) /\ \A h : ~ Known(t, u, h)
      BY <2>1, <2>2, <2>6, <3>1, <3>2, <3>3, <3>4, ReformAddsNobody
    <3>6. AddsNobody(s, left) /\ AddsNobody(left, s)
      BY <2>6, FrameAddsNobody
    <3> QED BY <3>5, <3>6 DEF AddsNobody, t
  <2> QED BY <2>8, <2>9, <2>10
<1> QED BY <1>1, <1>2

\* Installing a party that lists u under g and otherwise whom the one it
\* replaces listed.
LEMMA InstallAdds ==
    ASSUME NEW s, Good(s), NEW id \in PartyIDs, NEW P, NEW u \in Users, NEW g,
           \A w : HasMember(P, w) =>
              \/ w = u /\ Member(P, w).gen = g
              \/ s.parties[id] # NoParty /\ ListsAs(s.parties[id], w, Member(P, w).gen)
    PROVE  AddsOnly(s, Install(s, id, P, u), u, g)
<1> DEFINE t == Install(s, id, P, u)
<1>1. s \in ManagerRec
  BY GoodParts
<1>2. t.parties = [s.parties EXCEPT ![id] = P]
  BY <1>1 DEF Install, ManagerRec
<1> HIDE DEF t
<1>3. \A q \in PartyIDs : t.parties[q] = IF q = id THEN P ELSE s.parties[q]
  BY <1>1, <1>2, SizeAssumption DEF ManagerRec, PartyIDs
<1>4. ASSUME NEW w \in Users, NEW h, NEW q \in PartyIDs, Lists(t, q, w),
             Member(t.parties[q], w).gen = h
      PROVE  (Lists(s, q, w) /\ Member(s.parties[q], w).gen = h) \/ (w = u /\ h = g)
  BY <1>3, <1>4 DEF Lists, ListsAs
<1> QED BY <1>4 DEF AddsOnly, Known, t

\* The generation a new seat carries.
LEMMA AddedGen ==
    ASSUME NEW P \in PartyRec, Seated(P), NEW u \in Users, NEW g \in Gens, CanAdd(P, u)
    PROVE  Member(Add(P, u, g), u).gen = g
<1> DEFINE k == FirstIn(FreeSlots(P))
           Q == Add(P, u, g)
<1>1. FreeSlots(P) \in SUBSET Slots /\ FreeSlots(P) # {}
  BY DEF CanAdd, FreeSlots
<1>2. k \in Slots
  BY <1>1, FirstInMin
<1> HIDE DEF k
<1>3. Q.members[k] = Seat(u, g, k)
  BY <1>2 DEF Add, PartyRec, k
<1>4. Seat(u, g, k) \in MemberRec
  BY <1>2 DEF Seat, MemberRec
<1>5. At(Q, k, u) /\ Q.members[k].gen = g
  BY <1>3, <1>4, NilAssumption DEF At, Seat
<1>6. Q \in PartyRec /\ Seated(Q)
  BY AddGood
<1> HIDE DEF Q
<1>7. Member(Q, u) = Q.members[k]
  BY <1>2, <1>5, <1>6, MemberAt
<1> QED BY <1>5, <1>7 DEF Q

\* An empty lobby has room.
LEMMA EmptyHasRoom ==
    ASSUME NEW u \in Users, NEW n \in 1 .. MaxMembers
    PROVE  /\ EmptyParty(u, n) \in PartyRec /\ Seated(EmptyParty(u, n))
           /\ CanAdd(EmptyParty(u, n), u)
           /\ \A w : ~ HasMember(EmptyParty(u, n), w)
<1> DEFINE E == EmptyParty(u, n)
<1>1. E.members = [k \in Slots |-> NoMember] /\ E.limit = n
  BY DEF EmptyParty
<1>2. E \in PartyRec
  BY DEF EmptyParty, PartyRec
<1> HIDE DEF E
<1>3. Seated(E) /\ \A w : ~ HasMember(E, w)
  BY <1>1 DEF Seated, HasMember, At
<1>4. {k \in Slots : E.members[k] # NoMember} = {}
  BY <1>1
<1>5. Count(E) = 0
  BY <1>4, FS_EmptySet DEF Count
<1>6. ~ Full(E)
  BY <1>1, <1>5, SizeAssumption DEF Full
<1>7. FreeSlots(E) # {}
  BY <1>1, SizeAssumption DEF FreeSlots, Slots
<1> QED BY <1>2, <1>3, <1>6, <1>7 DEF CanAdd, E

\* EnsureLeader enters at most its caller, under the generation presented.
LEMMA EnsureLeaderAdds ==
    ASSUME NEW s, Good(s), NEW u \in Users, NEW g \in Gens, NEW n \in Limits
    PROVE  AddsOnly(s, EnsureLeaderOp(s, u, g, n), u, g)
<1> DEFINE t == EnsureLeaderOp(s, u, g, n)
           id == FreshID(s)
           r == [s EXCEPT !.nextID = NextAfter(s)]
           E == EmptyParty(u, NormalLimit(n))
<1>1. CASE InParty(s, u) \/ id = 0
  <2>1. t = s
    BY <1>1 DEF EnsureLeaderOp
  <2> QED BY <2>1 DEF AddsOnly
<1>2. CASE ~ (InParty(s, u) \/ id = 0)
  <2>1. t = Install(r, id, Add(E, u, g), u)
    BY <1>2 DEF EnsureLeaderOp
  <2>2. s \in ManagerRec
    BY GoodParts
  <2>3. id \in PartyIDs /\ NextAfter(s) \in PartyIDs
    BY <1>2, <2>2, FreshType
  <2>4. r \in ManagerRec /\ r.parties = s.parties /\ r.byUser = s.byUser
    BY <2>2, <2>3 DEF ManagerRec
  <2> HIDE DEF r
  <2>5. Good(r)
    BY <2>4, FrameGood
  <2>6. E \in PartyRec /\ Seated(E) /\ CanAdd(E, u) /\ \A w : ~ HasMember(E, w)
    BY EmptyHasRoom, NormalLimitType
  <2> HIDE DEF E, id, t
  <2>7. \A w : HasMember(Add(E, u, g), w) => w = u /\ Member(Add(E, u, g), w).gen = g
    BY <2>6, AddGood, AddedGen
  <2>8. AddsOnly(r, t, u, g)
    BY <2>1, <2>3, <2>5, <2>7, InstallAdds
  <2>9. AddsNobody(r, s)
    BY <2>4, FrameAddsNobody
  <2>10. AddsNobody(s, r)
    BY <2>4, FrameAddsNobody
  <2> QED BY <2>8, <2>9, <2>10 DEF AddsOnly, AddsNobody, t
<1> QED BY <1>1, <1>2

\* Join enters at most its caller, under the generation presented.
LEMMA JoinAdds ==
    ASSUME NEW s, Good(s), UniqueOK(s), NEW p \in PartyIDs, NEW u \in Users,
           NEW g \in Gens
    PROVE  AddsOnly(s, JoinOp(s, p, u, g), u, g)
<1> DEFINE t == JoinOp(s, p, u, g)
           l == LeaveLocked(s, u, g)
           P == s.parties[p]
           Q == Add(P, u, g)
<1>1. CASE ~ JoinOK(s, p, u)
  <2>1. t = s
    BY <1>1 DEF JoinOp
  <2> QED BY <2>1 DEF AddsOnly
<1>2. CASE JoinOK(s, p, u)
  <2>1. t = Install(l, p, Q, u)
    BY <1>2 DEF JoinOp
  <2>2. P # NoParty /\ CanAdd(P, u) /\ PartyGood(P) /\ ~ HasMember(P, u)
    BY <1>2, GoodParts DEF JoinOK, CanAdd
  <2>3. Good(l) /\ l.parties[p] = P
    BY <2>2, LeaveGood
  <2>4. P \in PartyRec /\ Seated(P)
    BY <2>2 DEF PartyGood
  <2> HIDE DEF l, P
  <2>5. \A w : HasMember(Q, w) => \/ w = u /\ Member(Q, w).gen = g
                                  \/ ListsAs(P, w, Member(Q, w).gen)
    BY <2>2, <2>4, AddGood, AddKeeps, AddedGen DEF ListsAs
  <2> HIDE DEF Q, t
  <2>6. AddsOnly(l, t, u, g)
    BY <2>1, <2>2, <2>3, <2>5, InstallAdds
  <2>7. AddsNobody(s, l)
    BY LeaveAdds DEF l
  <2> QED BY <2>6, <2>7 DEF AddsOnly, AddsNobody, t
<1> QED BY <1>1, <1>2

\* Kick enters nobody.
LEMMA KickAdds ==
    ASSUME NEW s, Good(s), NEW u \in Users, NEW g, NEW v \in Users, NEW h
    PROVE  AddsNobody(s, KickOp(s, u, g, v, h))
<1> DEFINE t == KickOp(s, u, g, v, h)
           p == s.byUser[u]
           P == s.parties[p]
           Q == Remove(P, v)
<1>1. CASE ~ KickOK(s, u, g, v, h)
  <2>1. t = s
    BY <1>1 DEF KickOp
  <2> QED BY <2>1, FrameAddsNobody
<1>2. CASE KickOK(s, u, g, v, h)
  <2>1. p \in PartyIDs /\ PartyOf(s, u) = P /\ P # NoParty /\ PartyGood(P)
    BY <1>2, InPartyParts DEF KickOK, IsLeader, Current
  <2>2. HasMember(P, v)
    BY <1>2, <2>1 DEF KickOK
  <2>3. Within(Q, P)
    BY <2>1, <2>2, RemoveWithin
  <2>4. s \in ManagerRec
    BY GoodParts
  <2>5. t.parties = [s.parties EXCEPT ![p] = Q]
    BY <1>2, <2>1, <2>4 DEF KickOp, ManagerRec
  <2> HIDE DEF t, Q
  <2> QED BY <2>1, <2>3, <2>5, ShrunkAddsNobody DEF t
<1> QED BY <1>1, <1>2

\* TransferLeader enters nobody.
LEMMA TransferLeaderAdds ==
    ASSUME NEW s, Good(s), NEW u \in Users, NEW g, NEW v \in Users, NEW h
    PROVE  AddsNobody(s, TransferLeaderOp(s, u, g, v, h))
<1> DEFINE t == TransferLeaderOp(s, u, g, v, h)
           p == s.byUser[u]
           P == s.parties[p]
<1>1. CASE ~ TransferOK(s, u, g, v, h)
  <2>1. t = s
    BY <1>1 DEF TransferLeaderOp
  <2> QED BY <2>1, FrameAddsNobody
<1>2. CASE TransferOK(s, u, g, v, h)
  <2>1. p \in PartyIDs /\ PartyOf(s, u) = P /\ P # NoParty /\ PartyGood(P)
    BY <1>2, InPartyParts DEF TransferOK, IsLeader, Current
  <2>2. HasMember(P, v) /\ P \in PartyRec /\ Seated(P) /\ Within(P, P)
    BY <1>2, <2>1 DEF TransferOK, PartyGood, Within, ListsAs
  <2>3. t = Reform(s, p, P, v) /\ s \in ManagerRec
    BY <1>2, <2>1, GoodParts DEF TransferLeaderOp
  <2> HIDE DEF t
  <2> QED BY <2>1, <2>2, <2>3, ReformAddsNobody DEF t
<1> QED BY <1>1, <1>2

\* UpdateSettings enters nobody.
LEMMA UpdateSettingsAdds ==
    ASSUME NEW s, Good(s), NEW u \in Users, NEW g, NEW n
    PROVE  AddsNobody(s, UpdateSettingsOp(s, u, g, n))
<1> DEFINE t == UpdateSettingsOp(s, u, g, n)
           p == s.byUser[u]
           P == s.parties[p]
           Q == [P EXCEPT !.limit = NormalLimit(n)]
<1>1. CASE ~ IsLeader(s, u, g)
  <2>1. t = s
    BY <1>1 DEF UpdateSettingsOp
  <2> QED BY <2>1, FrameAddsNobody
<1>2. CASE IsLeader(s, u, g)
  <2>1. p \in PartyIDs /\ PartyOf(s, u) = P /\ P # NoParty /\ PartyGood(P)
    BY <1>2, InPartyParts DEF IsLeader, Current
  <2>2. Q.members = P.members
    BY <2>1 DEF PartyRec, PartyGood
  <2>3. s \in ManagerRec
    BY GoodParts
  <2>4. t.parties = [s.parties EXCEPT ![p] = Q]
    BY <1>2, <2>1, <2>3 DEF UpdateSettingsOp, ManagerRec
  <2> HIDE DEF t, Q, P
  <2>5. Within(Q, P)
    BY <2>2 DEF HasMember, Member, SlotOf, At, Within, ListsAs
  <2> QED BY <2>1, <2>4, <2>5, ShrunkAddsNobody DEF t, P
<1> QED BY <1>1, <1>2

\* RebindSession enters at most the new generation; a member under the old one
\* is under the new one afterwards.
LEMMA RebindAdds ==
    ASSUME NEW s, Good(s), UniqueOK(s), NEW u \in Users, NEW old, NEW g \in Gens
    PROVE  /\ AddsOnly(s, RebindSessionOp(s, u, old, g), u, g)
           /\ Current(s, u, old) => \A h : Known(RebindSessionOp(s, u, old, g), u, h) => h = g
<1> DEFINE t == RebindSessionOp(s, u, old, g)
           p == s.byUser[u]
           P == s.parties[p]
           k == SlotOf(P, u)
           Q == [P EXCEPT !.members = [P.members EXCEPT ![k] = Seat(u, g, P.members[k].slot)]]
<1>1. s \in ManagerRec
  BY GoodParts
<1>2. CASE ~ Current(s, u, old)
  <2>1. t.parties = s.parties
    BY <1>1, <1>2 DEF RebindSessionOp, ManagerRec, Current
  <2> QED BY <1>2, <2>1, FrameAddsNobody DEF AddsNobody, AddsOnly
<1>3. CASE Current(s, u, old)
  <2>1. /\ p \in PartyIDs /\ PartyOf(s, u) = P /\ P # NoParty
        /\ PartyGood(P) /\ HasMember(P, u)
    BY <1>3, InPartyParts DEF Current
  <2>2. P \in PartyRec /\ Seated(P) /\ k \in Slots /\ At(P, k, u)
    BY <2>1, SlotOfSeat DEF PartyGood
  <2>3. t.parties = [s.parties EXCEPT ![p] = Q]
    BY <1>1, <1>3, <2>1 DEF RebindSessionOp, ManagerRec, Current
  <2>4. \A q \in PartyIDs : t.parties[q] = IF q = p THEN Q ELSE s.parties[q]
    BY <1>1, <2>3, SizeAssumption DEF ManagerRec, PartyIDs
  <2>5. Q.members = [P.members EXCEPT ![k] = Seat(u, g, P.members[k].slot)]
    BY <2>2 DEF PartyRec
  <2>6. P.members[k] # NoMember /\ P.members[k].user = u /\ P.members[k] \in MemberRec
    BY <2>2 DEF At, PartyRec
  <2>7. Seat(u, g, P.members[k].slot) \in MemberRec
    BY <2>6 DEF Seat, MemberRec
  <2>8. /\ Q.members[k] = Seat(u, g, P.members[k].slot)
        /\ \A j \in Slots : j # k => Q.members[j] = P.members[j]
    BY <2>2, <2>5 DEF PartyRec
  <2>9. Seat(u, g, P.members[k].slot) # NoMember
    BY <2>7, NilAssumption
  <2> HIDE DEF t, Q, k
  <2>10. \A w, j : j \in Slots => (At(Q, j, w) <=> At(P, j, w))
    BY <2>2, <2>6, <2>8, <2>9 DEF At, Seat
  <2>11. \A w : (HasMember(Q, w) <=> HasMember(P, w)) /\ SlotOf(Q, w) = SlotOf(P, w)
    BY <2>10 DEF HasMember, SlotOf
  <2>12. Member(Q, u).gen = g
    BY <2>8, <2>11 DEF Member, Seat, k
  <2>13. \A w : w # u /\ HasMember(Q, w) => ListsAs(P, w, Member(Q, w).gen)
    <3> SUFFICES ASSUME NEW w, w # u, HasMember(Q, w) PROVE ListsAs(P, w, Member(Q, w).gen)
      OBVIOUS
    <3>1. SlotOf(P, w) \in Slots /\ At(P, SlotOf(P, w), w) /\ HasMember(P, w)
      BY <2>2, <2>11, SlotOfSeat
    <3>2. SlotOf(P, w) # k
      BY <2>6, <3>1 DEF At
    <3> QED BY <2>8, <2>11, <3>1, <3>2 DEF Member, ListsAs
  <2>14. ASSUME NEW w \in Users, NEW h, Known(t, w, h)
         PROVE  (Known(s, w, h) /\ w # u) \/ (w = u /\ h = g)
    <3>1. PICK q \in PartyIDs : Lists(t, q, w) /\ Member(t.parties[q], w).gen = h
      BY <2>14 DEF Known
    <3>2. CASE q = p
      <4>1. HasMember(Q, w) /\ Member(Q, w).gen = h
        BY <2>4, <3>1, <3>2 DEF Lists
      <4>2. CASE w = u
        BY <2>12, <4>1, <4>2
      <4>3. CASE w # u
        <5>1. HasMember(P, w) /\ Member(P, w).gen = h
          BY <2>13, <4>1, <4>3 DEF ListsAs
        <5> QED BY <2>1, <4>3, <5>1 DEF Known, Lists
      <4> QED BY <4>2, <4>3
    <3>3. CASE q # p
      <4>1. t.parties[q] = s.parties[q]
        BY <2>4, <3>3
      <4>2. w # u
        BY <3>1, <3>3, <4>1 DEF UniqueOK, Lists
      <4> QED BY <3>1, <4>1, <4>2 DEF Known, Lists
    <3> QED BY <3>2, <3>3
  <2> QED BY <2>14 DEF AddsOnly, t
<1> QED BY <1>2, <1>3

\* Recording and consuming an invitation enter nobody.
LEMMA InvitesAdd ==
    ASSUME NEW s, Good(s), NEW i, NEW ig, NEW u, NEW g, NEW m
    PROVE  /\ AddsNobody(s, RecordInviteOp(s, i, ig, u, g, m))
           /\ AddsNobody(s, ConsumeInviteOp(s, i, ig, u, g, m))
<1>1. s \in ManagerRec
  BY GoodParts
<1>2. RecordInviteOp(s, i, ig, u, g, m).parties = s.parties
  BY <1>1 DEF RecordInviteOp, ManagerRec
<1>3. ConsumeInviteOp(s, i, ig, u, g, m).parties = s.parties
  BY <1>1 DEF ConsumeInviteOp, ManagerRec
<1> QED BY <1>2, <1>3, FrameAddsNobody

-----------------------------------------------------------------------------
(* The steps a handler can have left to do. *)

Views == {NoView} \cup [leader : Users, users : SUBSET Users]

Identities == [session : Sessions, user : Users, gen : Gens]

PlainSteps ==
    [op : {"promote", "ensure", "check", "detach", "deselect", "unbind"}]
ImportSteps == [op : {"import"}, of : Sessions]
CacheSteps == [op : {"known", "cached"}, who : Identities]
LeadSteps == [op : {"lead"}, leader : Identities, users : SUBSET Users]
EnlistSteps == [op : {"enlist"}, party : PartyIDs, who : Identities]
AddSteps == [op : {"add"}, party : PartyIDs, users : SUBSET Users]
BindSteps == [op : {"bind"}, user : Users]
PublishSteps ==
    [op : {"publish"}, user : Users, resident : SUBSET Sessions, saved : SUBSET Views]
RebindSteps == [op : {"rebind"}, prev : Sessions, was : Gens]
RenewSteps == [op : {"renew"}, was : Gens]
MeetSteps == [op : {"meet"}, joiner : Sessions, anchor : Sessions]
SeatSteps == [op : {"seat"}, joiner : Identities, anchor : Identities]
JoinSteps == [op : {"join"}, party : PartyIDs, joiner : Identities]
TargetSteps == [op : {"target"}, party : PartyIDs]
LeavingSteps == [op : {"leave"}, who : Identities, must : BOOLEAN]
LeaderSteps == [op : {"kick", "transfer"}, target : Users]

Steps ==
    PlainSteps \cup ImportSteps \cup AddSteps \cup BindSteps \cup PublishSteps
    \cup RebindSteps \cup MeetSteps \cup SeatSteps \cup JoinSteps
    \cup TargetSteps \cup LeavingSteps \cup LeaderSteps
    \cup CacheSteps \cup LeadSteps \cup EnlistSteps \cup RenewSteps

\* What a step carries, by its kind.
LEMMA StepParts ==
    ASSUME NEW x \in Steps
    PROVE  /\ x.op = "import" => x.of \in Sessions
           /\ x.op = "add" => x.party \in PartyIDs /\ x.users \in SUBSET Users
           /\ x.op = "bind" => x.user \in Users
           /\ x.op = "publish" => /\ x.user \in Users /\ x.resident \in SUBSET Sessions
                                  /\ x.saved \in SUBSET Views
           /\ x.op = "rebind" => x.prev \in Sessions /\ x.was \in Gens
           /\ x.op = "meet" => x.joiner \in Sessions /\ x.anchor \in Sessions
           /\ x.op = "seat" => x.joiner \in Identities /\ x.anchor \in Identities
           /\ x.op = "join" => x.party \in PartyIDs /\ x.joiner \in Identities
           /\ x.op = "target" => x.party \in PartyIDs
           /\ x.op = "leave" => x.who \in Identities /\ x.must \in BOOLEAN
           /\ x.op \in {"kick", "transfer"} => x.target \in Users
           /\ x.op \in {"known", "cached"} => x.who \in Identities
           /\ x.op = "lead" => x.leader \in Identities /\ x.users \in SUBSET Users
           /\ x.op = "enlist" => x.party \in PartyIDs /\ x.who \in Identities
           /\ x.op = "renew" => x.was \in Gens
<1>1. CASE x \in PlainSteps
  BY <1>1 DEF PlainSteps
<1>2. CASE x \in ImportSteps
  BY <1>2 DEF ImportSteps
<1>3. CASE x \in AddSteps
  BY <1>3 DEF AddSteps
<1>4. CASE x \in BindSteps
  BY <1>4 DEF BindSteps
<1>5. CASE x \in PublishSteps
  BY <1>5 DEF PublishSteps
<1>6. CASE x \in RebindSteps
  BY <1>6 DEF RebindSteps
<1>7. CASE x \in MeetSteps
  BY <1>7 DEF MeetSteps
<1>8. CASE x \in SeatSteps
  BY <1>8 DEF SeatSteps
<1>9. CASE x \in JoinSteps
  BY <1>9 DEF JoinSteps
<1>10. CASE x \in TargetSteps
  BY <1>10 DEF TargetSteps
<1>11. CASE x \in LeavingSteps
  BY <1>11 DEF LeavingSteps
<1>12. CASE x \in LeaderSteps
  BY <1>12 DEF LeaderSteps
<1>13. CASE x \in CacheSteps
  BY <1>13 DEF CacheSteps
<1>14. CASE x \in LeadSteps
  BY <1>14 DEF LeadSteps
<1>15. CASE x \in EnlistSteps
  BY <1>15 DEF EnlistSteps
<1>16. CASE x \in RenewSteps
  BY <1>16 DEF RenewSteps
<1> QED BY <1>1, <1>2, <1>3, <1>4, <1>5, <1>6, <1>7, <1>8, <1>9, <1>10, <1>11, <1>12,
           <1>13, <1>14, <1>15, <1>16
        DEF Steps

\* The session's own command leaves it with one of three kinds of steps: those
\* that stand alone, those that come last, and the ordinary ones.
Alone(x) == x.op \in {"publish", "rebind", "renew", "promote"}

Ends(x) == x.op \in {"bind", "deselect", "unbind"}

Ordinary(x) == ~ Alone(x) /\ ~ Ends(x)

\* The step gives the character c up.
GivesUp(c, x) ==
    \/ x.op \in {"deselect", "unbind"}
    \/ x.op \in {"bind", "publish"} /\ x.user # c

\* The step sees to it that (c, g) is out of every party when it has run.
Parts(c, g, x) ==
    \/ x.op \in {"detach", "check"}
    \/ x.op = "leave" /\ x.must /\ x.who.user = c /\ x.who.gen = g

\* What is left of the handler of a session that has character c under
\* generation g: a character is only given up after its party has been left.
HandlerOK(q, c, g) ==
    /\ \A k \in 1 .. Len(q) : Alone(q[k]) => Len(q) = 1
    /\ \A k \in 1 .. Len(q) : Ends(q[k]) => k = Len(q)
    /\ \A k \in 1 .. Len(q) : q[k].op = "publish" => (q[k].resident # {} => q[k].saved # {})
    /\ \A k \in 2 .. Len(q) : GivesUp(c, q[k]) => Parts(c, g, q[k - 1])

\* An ordinary step is replaced by ordinary steps.
LEMMA Splice ==
    ASSUME NEW c, NEW g, NEW q \in Seq(Steps), q # <<>>, HandlerOK(q, c, g),
           Ordinary(Head(q)), NEW t \in Seq(Steps),
           \A k \in 1 .. Len(t) : Ordinary(t[k]),
           t # <<>> /\ Parts(c, g, Head(q)) => Parts(c, g, t[Len(t)])
    PROVE  /\ t \o Tail(q) \in Seq(Steps)
           /\ HandlerOK(t \o Tail(q), c, g)
           /\ t \o Tail(q) # <<>> =>
                /\ ~ Alone(Head(t \o Tail(q)))
                /\ GivesUp(c, Head(t \o Tail(q))) => t = <<>> /\ Parts(c, g, Head(q))
<1> DEFINE r == t \o Tail(q)
<1>1. /\ Tail(q) \in Seq(Steps) /\ Len(q) \in Nat /\ Len(t) \in Nat /\ Len(q) > 0
      /\ Len(Tail(q)) = Len(q) - 1
      /\ \A k \in 1 .. Len(q) - 1 : Tail(q)[k] = q[k + 1]
      /\ Head(q) = q[1]
  OBVIOUS
<1>2. /\ r \in Seq(Steps) /\ Len(r) = Len(t) + Len(q) - 1
      /\ \A k \in 1 .. Len(r) : r[k] = IF k <= Len(t) THEN t[k] ELSE q[k - Len(t) + 1]
  BY <1>1
<1> HIDE DEF r
<1>3. \A k \in 1 .. Len(t) : ~ Alone(t[k]) /\ ~ Ends(t[k]) /\ ~ GivesUp(c, t[k])
                             /\ t[k].op # "publish"
  BY DEF Ordinary, Alone, Ends, GivesUp
<1>4. ASSUME NEW k \in 2 .. Len(q) PROVE ~ Alone(q[k]) /\ q[k].op # "publish"
  <2>1. k \in 1 .. Len(q) /\ Len(q) # 1
    BY <1>1
  <2>2. ~ Alone(q[k])
    BY <2>1 DEF HandlerOK
  <2> QED BY <2>2 DEF Alone
<1>5. \A k \in 1 .. Len(r) : ~ Alone(r[k]) /\ r[k].op # "publish"
  <2> TAKE k \in 1 .. Len(r)
  <2>1. CASE k <= Len(t)
    BY <1>1, <1>2, <1>3, <2>1
  <2>2. CASE ~ (k <= Len(t))
    <3>1. k - Len(t) + 1 \in 2 .. Len(q) /\ r[k] = q[k - Len(t) + 1]
      BY <1>1, <1>2, <2>2
    <3> QED BY <1>4, <3>1
  <2> QED BY <2>1, <2>2
<1>6. ASSUME NEW k \in 1 .. Len(r), Ends(r[k]) PROVE k = Len(r)
  <2>1. ~ (k <= Len(t))
    BY <1>1, <1>2, <1>3, <1>6
  <2>2. k - Len(t) + 1 \in 1 .. Len(q) /\ r[k] = q[k - Len(t) + 1]
    BY <1>1, <1>2, <2>1
  <2>3. k - Len(t) + 1 = Len(q)
    BY <1>6, <2>2 DEF HandlerOK
  <2> QED BY <1>1, <1>2, <2>3
<1>7. ASSUME NEW k \in 2 .. Len(r), GivesUp(c, r[k]) PROVE Parts(c, g, r[k - 1])
  <2>1. ~ (k <= Len(t))
    BY <1>1, <1>2, <1>3, <1>7
  <2> DEFINE j == k - Len(t) + 1
  <2>2. j \in 2 .. Len(q) /\ r[k] = q[j]
    BY <1>1, <1>2, <2>1
  <2>3. Parts(c, g, q[j - 1])
    BY <1>7, <2>2 DEF HandlerOK
  <2>4. CASE k - 1 > Len(t)
    <3>1. r[k - 1] = q[k - 1 - Len(t) + 1] /\ k - 1 - Len(t) + 1 = j - 1
      BY <1>1, <1>2, <2>4
    <3> QED BY <2>3, <3>1
  <2>5. CASE ~ (k - 1 > Len(t))
    <3>1. k - 1 = Len(t) /\ j - 1 = 1 /\ t # <<>>
      BY <1>1, <1>2, <2>1, <2>5
    <3>2. r[k - 1] = t[Len(t)]
      BY <1>1, <1>2, <3>1
    <3> QED BY <1>1, <2>3, <3>1, <3>2
  <2> QED BY <2>4, <2>5
<1>8. HandlerOK(r, c, g)
  BY <1>5, <1>6, <1>7 DEF HandlerOK
<1>9. ASSUME r # <<>>, GivesUp(c, Head(r)) PROVE t = <<>> /\ Parts(c, g, Head(q))
  <2>1. Head(r) = r[1] /\ 1 \in 1 .. Len(r)
    BY <1>2, <1>9
  <2>2. ~ (1 <= Len(t))
    BY <1>1, <1>3, <1>9, <1>2, <2>1
  <2>3. t = <<>> /\ Len(t) = 0
    BY <1>1, <2>2
  <2>4. r[1] = q[2] /\ 2 \in 2 .. Len(q)
    BY <1>1, <1>2, <2>1, <2>3
  <2>5. Parts(c, g, q[2 - 1])
    BY <1>9, <2>1, <2>4 DEF HandlerOK
  <2> QED BY <1>1, <2>3, <2>5
<1>10. r # <<>> => ~ Alone(Head(r))
  BY <1>2, <1>5
<1> QED BY <1>2, <1>8, <1>9, <1>10 DEF r

\* A command begins with ordinary steps.
LEMMA OrdinaryHandler ==
    ASSUME NEW c, NEW g, NEW t \in Seq(Steps), \A k \in 1 .. Len(t) : Ordinary(t[k])
    PROVE  /\ HandlerOK(t, c, g)
           /\ t # <<>> => ~ Alone(Head(t)) /\ ~ GivesUp(c, Head(t))
<1>1. \A k \in 1 .. Len(t) : ~ Alone(t[k]) /\ ~ Ends(t[k]) /\ ~ GivesUp(c, t[k])
                             /\ t[k].op # "publish"
  BY DEF Ordinary, Alone, Ends, GivesUp
<1>2. t # <<>> => Head(t) = t[1] /\ 1 \in 1 .. Len(t)
  OBVIOUS
<1>3. \A k \in 2 .. Len(t) : k \in 1 .. Len(t)
  OBVIOUS
<1> QED BY <1>1, <1>2, <1>3 DEF HandlerOK

\* A handler with one step left.
LEMMA SingleHandler ==
    ASSUME NEW c, NEW g, NEW x \in Steps,
           x.op = "publish" => (x.resident # {} => x.saved # {})
    PROVE  /\ <<x>> \in Seq(Steps) /\ HandlerOK(<<x>>, c, g)
           /\ <<x>> # <<>> /\ Head(<<x>>) = x
<1>1. <<x>> \in Seq(Steps) /\ <<x>> # <<>> /\ Len(<<x>>) = 1 /\ <<x>>[1] = x /\ Head(<<x>>) = x
  OBVIOUS
<1> HIDE DEF Steps
<1>2. \A k \in 1 .. 1 : k = 1
  OBVIOUS
<1>3. \A k \in 2 .. 1 : FALSE
  OBVIOUS
<1> QED BY <1>1, <1>2, <1>3 DEF HandlerOK

\* A handler that leaves the party and then gives the character up.
LEMMA PairHandler ==
    ASSUME NEW c, NEW g, NEW y \in Steps, y.op \in {"bind", "deselect", "unbind"}
    PROVE  /\ <<Do("detach"), y>> \in Seq(Steps) /\ HandlerOK(<<Do("detach"), y>>, c, g)
           /\ <<Do("detach"), y>> # <<>> /\ Head(<<Do("detach"), y>>) = Do("detach")
<1> DEFINE x == Do("detach")
           q == <<x, y>>
<1>1. x \in Steps /\ x.op = "detach"
  BY DEF Do, Steps, PlainSteps
<1> HIDE DEF x
<1>2. q \in Seq(Steps) /\ Len(q) = 2 /\ q[1] = x /\ q[2] = y /\ q # <<>> /\ Head(q) = x
  BY <1>1
<1> HIDE DEF q
<1>3. \A k \in 1 .. Len(q) : k = 1 \/ k = 2
  BY <1>2
<1>4. \A k \in 2 .. Len(q) : k = 2 /\ k - 1 = 1
  BY <1>2
<1>5. ~ Alone(x) /\ ~ Alone(y) /\ ~ Ends(x) /\ Parts(c, g, x)
  BY <1>1 DEF Alone, Ends, Parts
<1>6. HandlerOK(q, c, g)
  BY <1>1, <1>2, <1>3, <1>4, <1>5 DEF HandlerOK
<1> QED BY <1>2, <1>6 DEF q, x

\* Imports followed by one step.
LEMMA ImportsThen ==
    ASSUME NEW a \in Seq(Steps), \A k \in 1 .. Len(a) : a[k].op = "import", NEW x \in Steps,
           Ordinary(x)
    PROVE  /\ a \o <<x>> \in Seq(Steps) /\ a \o <<x>> # <<>>
           /\ (a \o <<x>>)[Len(a \o <<x>>)] = x
           /\ \A k \in 1 .. Len(a \o <<x>>) : Ordinary((a \o <<x>>)[k])
<1> DEFINE t == a \o <<x>>
<1>1. <<x>> \in Seq(Steps) /\ Len(<<x>>) = 1 /\ <<x>>[1] = x
  OBVIOUS
<1>2. /\ t \in Seq(Steps) /\ Len(t) = Len(a) + 1 /\ Len(a) \in Nat
      /\ \A k \in 1 .. Len(t) : t[k] = IF k <= Len(a) THEN a[k] ELSE x
  BY <1>1
<1> HIDE DEF t
<1>3. t # <<>> /\ t[Len(t)] = x
  BY <1>2
<1>4. \A k \in 1 .. Len(a) : Ordinary(a[k])
  BY DEF Ordinary, Alone, Ends
<1>5. \A k \in 1 .. Len(t) : Ordinary(t[k])
  BY <1>2, <1>4
<1> QED BY <1>2, <1>3, <1>5 DEF t

-----------------------------------------------------------------------------
(* The invariant *)

\* Generations are a counter that does not run out.
GensOK == Gens = Nat \ {0}

DirectoryTypes ==
    /\ char \in [Sessions -> Users \cup {NoUser}]
    /\ gen \in [Sessions -> Gens]
    /\ lastGen \in Nat
    /\ online \in [Users -> Sessions \cup {NoSession}]

HandlerTypes ==
    /\ town \in [Users -> Sessions \cup {NoSession}]
    /\ view \in [Sessions -> Views]
    /\ job \in [Sessions -> Seq(Steps)]
    /\ got \in [Sessions -> 0 .. MaxPartyID]

HandlersOK == \A s \in Sessions : HandlerOK(job[s], char[s], gen[s])

\* A connection without a character is choosing one.
BlankOK ==
    \A s \in Sessions : char[s] = NoUser /\ job[s] # <<>>
        => Head(job[s]).op \in {"bind", "publish"}

\* The session that speaks for a character has selected it.
SpeakersOK == \A u \in Users : online[u] # NoSession => char[online[u]] = u

\* A session that was replaced under the generation noted then still has the
\* character, unless its generation has moved on.
RebindsOK ==
    \A s \in Sessions : Reached(s, "rebind") =>
        /\ Head(job[s]).was <= gen[Head(job[s]).prev]
        /\ Head(job[s]).was = gen[Head(job[s]).prev] => char[Head(job[s]).prev] = char[s]

\* A session that is about to take the party over still speaks for its character.
RenewsOK == \A s \in Sessions : Reached(s, "renew") => Bound(s)

\* Whoever is listed is online, and listed under the generation of the session
\* that speaks for it or under the one that session is about to take over.
SettledOK ==
    \A u \in Users : \A h : Known(mgr, u, h) =>
        /\ online[u] # NoSession
        /\ \/ h = gen[online[u]]
           \/ Awaits(online[u]) /\ Head(job[online[u]]).was = h

\* A session that is about to give its character up has left every party.
GoneOK ==
    \A s \in Sessions : Bound(s) /\ job[s] # <<>> /\ GivesUp(char[s], Head(job[s]))
        => \A h : ~ Known(mgr, char[s], h)

JobsOK ==
    /\ HandlersOK /\ BlankOK /\ SpeakersOK
    /\ RebindsOK /\ RenewsOK /\ SettledOK /\ GoneOK

IInv ==
    /\ GensOK
    /\ Good(mgr) /\ UniqueOK(mgr)
    /\ DirectoryTypes /\ HandlerTypes
    /\ JobsOK

\* Who is entered by a step of session s is online under the generation given,
\* and outside the windows.
EntersOnline(s) ==
    \A u \in Users : \A h : Known(mgr', u, h) =>
        \/ Known(mgr, u, h)
        \/ /\ online[u] # NoSession /\ h = gen[online[u]]
           /\ ~ Unsettled(u) \/ online[u] = s

\* A step that leaves the directory alone.
LEMMA HandlerStep ==
    ASSUME IInv, NEW s \in Sessions, NEW q \in Seq(Steps), job' = [job EXCEPT ![s] = q],
           char' = char, gen' = gen, online' = online,
           HandlerOK(q, char[s], gen[s]),
           q # <<>> => Head(q).op # "rebind",
           q # <<>> /\ Head(q).op = "renew" => Bound(s),
           char[s] = NoUser /\ q # <<>> => Head(q).op \in {"bind", "publish"},
           EntersOnline(s),
           Awaits(s) /\ Bound(s) => \A h : Known(mgr', char[s], h) =>
               h = gen[s] \/ (q # <<>> /\ Head(q).op = "renew" /\ Head(q).was = h),
           q # <<>> /\ Bound(s) /\ GivesUp(char[s], Head(q))
               => \A h : ~ Known(mgr', char[s], h)
    PROVE  JobsOK'
<1>1. /\ job \in [Sessions -> Seq(Steps)] /\ job'[s] = q
      /\ \A t \in Sessions : t # s => job'[t] = job[t]
      /\ online \in [Users -> Sessions \cup {NoSession}]
      /\ NoSession \notin Sessions /\ char \in [Sessions -> Users \cup {NoUser}]
  BY SessionsAssumption DEF IInv, HandlerTypes, DirectoryTypes
<1>2. HandlersOK'
  BY <1>1 DEF IInv, JobsOK, HandlersOK
<1>3. BlankOK'
  BY <1>1 DEF IInv, JobsOK, BlankOK
<1>4. SpeakersOK'
  BY DEF IInv, JobsOK, SpeakersOK
<1>5. RebindsOK' /\ RenewsOK'
  <2>1. RebindsOK'
    BY <1>1 DEF IInv, JobsOK, RebindsOK, Reached
  <2>2. RenewsOK'
    BY <1>1 DEF IInv, JobsOK, RenewsOK, Reached, Bound
  <2> QED BY <2>1, <2>2
<1>6. SettledOK'
  <2> SUFFICES ASSUME NEW u \in Users, NEW h, Known(mgr', u, h)
               PROVE  /\ online[u] # NoSession
                      /\ \/ h = gen[online[u]]
                         \/ /\ job'[online[u]] # <<>>
                            /\ Head(job'[online[u]]).op \in {"rebind", "renew"}
                            /\ Head(job'[online[u]]).was = h
    BY DEF SettledOK, Awaits, Reached
  <2>1. CASE ~ Known(mgr, u, h)
    BY <2>1 DEF EntersOnline
  <2>2. CASE Known(mgr, u, h)
    <3>1. /\ online[u] \in Sessions /\ char[online[u]] = u
          /\ \/ h = gen[online[u]]
             \/ /\ job[online[u]] # <<>>
                /\ Head(job[online[u]]).op \in {"rebind", "renew"}
                /\ Head(job[online[u]]).was = h
      BY <1>1, <2>2 DEF IInv, JobsOK, SettledOK, SpeakersOK, Awaits, Reached
    <3>2. CASE online[u] # s
      BY <1>1, <3>1, <3>2
    <3>3. CASE online[u] = s /\ h # gen[online[u]]
      <4>1. Awaits(s) /\ char[s] = u /\ Bound(s)
        BY <3>1, <3>3, SessionsAssumption DEF Awaits, Reached, Bound
      <4>2. h = gen[s] \/ (q # <<>> /\ Head(q).op = "renew" /\ Head(q).was = h)
        BY <4>1
      <4> QED BY <1>1, <3>1, <3>3, <4>2
    <3>4. CASE online[u] = s /\ h = gen[online[u]]
      BY <1>1, <3>1, <3>4
    <3> QED BY <3>2, <3>3, <3>4
  <2> QED BY <2>1, <2>2
<1>7. GoneOK'
  <2> SUFFICES ASSUME NEW t \in Sessions, Bound(t), job'[t] # <<>>,
                      GivesUp(char[t], Head(job'[t])), NEW h, Known(mgr', char[t], h)
               PROVE  FALSE
    BY DEF GoneOK, Bound
  <2>1. t # s
    BY <1>1
  <2>2. char[t] \in Users /\ online[char[t]] = t /\ job'[t] = job[t]
    BY <1>1, <2>1 DEF Bound
  <2>3. ~ Known(mgr, char[t], h)
    BY <2>2 DEF IInv, JobsOK, GoneOK
  <2>4. Unsettled(char[t])
    BY <2>2 DEF Unsettled, GivesUp
  <2> QED BY <2>1, <2>2, <2>3, <2>4 DEF EntersOnline
<1> QED BY <1>2, <1>3, <1>4, <1>5, <1>6, <1>7 DEF JobsOK

\* An ordinary step of a handler that leaves the directory alone.
LEMMA OrdinaryStep ==
    ASSUME IInv, NEW s \in Sessions, job[s] # <<>>, Ordinary(Head(job[s])),
           NEW t \in Seq(Steps), Then(s, t), \A k \in 1 .. Len(t) : Ordinary(t[k]),
           char' = char, gen' = gen, online' = online,
           t # <<>> /\ Parts(char[s], gen[s], Head(job[s]))
               => Parts(char[s], gen[s], t[Len(t)]),
           EntersOnline(s),
           t = <<>> /\ Bound(s) /\ Parts(char[s], gen[s], Head(job[s]))
               => \A h : ~ Known(mgr', char[s], h)
    PROVE  JobsOK' /\ job' \in [Sessions -> Seq(Steps)]
<1> DEFINE q == job[s]
           r == t \o Tail(q)
<1>1. q \in Seq(Steps) /\ q # <<>> /\ HandlerOK(q, char[s], gen[s])
      /\ job \in [Sessions -> Seq(Steps)]
  BY DEF IInv, HandlerTypes, JobsOK, HandlersOK
<1>2. job' = [job EXCEPT ![s] = r]
  BY <1>1 DEF Then
<1>3. char[s] # NoUser
  BY DEF IInv, JobsOK, BlankOK, Ordinary, Alone, Ends
<1>4. /\ r \in Seq(Steps) /\ HandlerOK(r, char[s], gen[s])
      /\ r # <<>> => /\ ~ Alone(Head(r))
                     /\ GivesUp(char[s], Head(r)) => t = <<>> /\ Parts(char[s], gen[s], Head(q))
  BY <1>1, Splice
<1>5. ~ Awaits(s)
  BY DEF Awaits, Reached, Ordinary, Alone
<1> HIDE DEF r, q
<1>6. r # <<>> => Head(r).op \notin {"rebind", "renew"}
  BY <1>4 DEF Alone
<1>7. r # <<>> /\ Bound(s) /\ GivesUp(char[s], Head(r)) => \A h : ~ Known(mgr', char[s], h)
  BY <1>4 DEF q
<1>8. JobsOK'
  BY <1>2, <1>3, <1>4, <1>5, <1>6, <1>7, HandlerStep
<1> QED BY <1>1, <1>2, <1>4, <1>8

\* A command begins; what it has to do is ordinary or stands alone.
LEMMA BeginStep ==
    ASSUME IInv, NEW s \in Sessions, Idle(s), NEW t \in Seq(Steps),
           job' = [job EXCEPT ![s] = t], HandlerOK(t, char[s], gen[s]),
           t # <<>> => Head(t).op \notin {"rebind", "renew"},
           t # <<>> /\ char[s] # NoUser => ~ GivesUp(char[s], Head(t)),
           char[s] = NoUser /\ t # <<>> => Head(t).op = "bind",
           char' = char, gen' = gen, online' = online,
           mgr' = mgr \/ AddsNobody(mgr, mgr')
    PROVE  JobsOK' /\ job' \in [Sessions -> Seq(Steps)]
<1>1. job \in [Sessions -> Seq(Steps)] /\ ~ Awaits(s)
  BY DEF IInv, HandlerTypes, Idle, Awaits, Reached
<1>2. EntersOnline(s)
  BY DEF EntersOnline, AddsNobody
<1>3. t # <<>> /\ Bound(s) /\ GivesUp(char[s], Head(t)) => \A h : ~ Known(mgr', char[s], h)
  BY DEF Bound
<1>4. JobsOK'
  BY <1>1, <1>2, <1>3, HandlerStep
<1> QED BY <1>1, <1>4

-----------------------------------------------------------------------------
(* Facts that the steps share. *)

\* What a step establishes: the invariant, as a step of the contract.
Kept == IInv' /\ [ContractNext]_vars

\* The parts of the invariant that a step has to be checked for.
LEMMA Closes ==
    ASSUME IInv, [ContractNext]_vars, DirectoryTypes', HandlerTypes', JobsOK'
    PROVE  Kept
<1>1. Good(mgr') /\ UniqueOK(mgr')
  BY ContractGood DEF IInv
<1> QED BY <1>1 DEF IInv, GensOK, Kept

\* A step that leaves directory and manager alone.
LEMMA ClosesQuietly ==
    ASSUME IInv, UNCHANGED mgr, UNCHANGED directory, HandlerTypes', JobsOK'
    PROVE  Kept
<1>1. [ContractNext]_vars
  BY DEF vars
<1>2. DirectoryTypes'
  BY DEF IInv, DirectoryTypes, directory
<1> QED BY <1>1, <1>2, Closes

\* Every method but Create and Join may be called at any time.
LEMMA StepIsContract ==
    ASSUME NEW u \in Users, NEW g \in Gens, Step(u, g)
    PROVE  ContractNext
BY DEF ContractNext

\* The step a handler is at.
LEMMA HeadStep ==
    ASSUME IInv, NEW s \in Sessions, job[s] # <<>>
    PROVE  /\ Head(job[s]) \in Steps
           /\ Ordinary(Head(job[s])) => char[s] \in Users
           /\ job[s] \in Seq(Steps)
<1>1. job[s] \in Seq(Steps)
  BY DEF IInv, HandlerTypes
<1>2. Ordinary(Head(job[s])) => char[s] \in Users
  BY DEF IInv, JobsOK, BlankOK, DirectoryTypes, Ordinary, Alone, Ends
<1> QED BY <1>1, <1>2

\* Nothing is appended by the empty sequence.
LEMMA ConcatEmpty ==
    ASSUME NEW S, NEW t \in Seq(S)
    PROVE  t \o <<>> = t
OBVIOUS

\* The only sequence of length zero.
LEMMA LenZero ==
    ASSUME NEW S, NEW t \in Seq(S), Len(t) = 0
    PROVE  t = <<>>
OBVIOUS

\* Nothing follows a step that stands alone or comes last.
LEMMA ThenLast ==
    ASSUME IInv, NEW s \in Sessions, job[s] # <<>>, ~ Ordinary(Head(job[s])),
           NEW t \in Seq(Steps), Then(s, t)
    PROVE  job' = [job EXCEPT ![s] = t]
<1> DEFINE q == job[s]
<1>1. q \in Seq(Steps) /\ q # <<>> /\ HandlerOK(q, char[s], gen[s])
      /\ job \in [Sessions -> Seq(Steps)]
  BY DEF IInv, HandlerTypes, JobsOK, HandlersOK
<1>2. Head(q) = q[1] /\ 1 \in 1 .. Len(q) /\ Len(q) \in Nat
  BY <1>1
<1>3. Len(q) = 1
  BY <1>1, <1>2 DEF HandlerOK, Ordinary
<1>4. Tail(q) \in Seq(Steps) /\ Len(Tail(q)) = 0
  BY <1>1, <1>3
<1> HIDE DEF q
<1>5. t \o Tail(q) = t
  <2>1. Tail(q) = <<>>
    BY <1>4, LenZero
  <2> QED BY <2>1, ConcatEmpty
<1> QED BY <1>1, <1>5 DEF Then, q

\* The identity of a session that has a character.
LEMMA IdentityType ==
    ASSUME IInv, NEW s \in Sessions, char[s] # NoUser
    PROVE  /\ char[s] \in Users /\ gen[s] \in Gens
           /\ Identity(s) \in Identities
           /\ Identity(s).user = char[s] /\ Identity(s).gen = gen[s]
           /\ Identity(s).session = s
BY DEF IInv, DirectoryTypes, Identity, Identities

\* The session that speaks for a character.
LEMMA SpeakerType ==
    ASSUME IInv, NEW u \in Users, online[u] # NoSession
    PROVE  /\ online[u] \in Sessions /\ char[online[u]] = u /\ Bound(online[u])
           /\ gen[online[u]] \in Gens
<1>1. online[u] \in Sessions /\ char[online[u]] = u
  BY DEF IInv, DirectoryTypes, JobsOK, SpeakersOK
<1> QED BY <1>1, SessionsAssumption DEF IInv, DirectoryTypes, Bound

\* A bound session has a character and speaks for it.
LEMMA BoundParts ==
    ASSUME IInv, NEW s \in Sessions, Bound(s)
    PROVE  char[s] \in Users /\ gen[s] \in Gens /\ online[char[s]] = s
           /\ online[char[s]] # NoSession /\ Online(char[s])
BY SessionsAssumption DEF IInv, DirectoryTypes, Bound, Online

\* Outside the windows a character is listed under the generation of the
\* session that speaks for it, if at all.
LEMMA SettledIdentity ==
    ASSUME IInv, NEW u \in Users, online[u] # NoSession, ~ Unsettled(u)
    PROVE  /\ CurrentIdentity(u, gen[online[u]])
           /\ \A h : Known(mgr, u, h) => h = gen[online[u]]
<1>1. online[u] \in Sessions /\ char[online[u]] = u /\ Bound(online[u])
  BY SpeakerType
<1>2. ~ Awaits(online[u])
  BY <1>1 DEF Unsettled, Awaits, Reached
<1>3. \A h : Known(mgr, u, h) => h = gen[online[u]]
  BY <1>2 DEF IInv, JobsOK, SettledOK
<1>4. CurrentIdentity(u, gen[online[u]])
  BY <1>3 DEF CurrentIdentity, Known, Lists
<1> QED BY <1>3, <1>4

\* A call of the manager that enters nobody.
LEMMA NobodyEnters ==
    ASSUME NEW s, AddsNobody(mgr, mgr')
    PROVE  EntersOnline(s)
BY DEF EntersOnline, AddsNobody

\* A call that enters the identity of the session that speaks for u.
LEMMA SpeakerEnters ==
    ASSUME IInv, NEW s, NEW u \in Users, online[u] # NoSession,
           ~ Unsettled(u) \/ online[u] = s, AddsOnly(mgr, mgr', u, gen[online[u]])
    PROVE  EntersOnline(s)
BY DEF EntersOnline, AddsOnly

\* The generation of somebody listed.
LEMMA ListedGen ==
    ASSUME NEW s, Good(s), NEW p \in PartyIDs, NEW u, Lists(s, p, u)
    PROVE  Member(s.parties[p], u).gen \in Gens /\ u \in Users
<1>1. PartyGood(s.parties[p]) /\ HasMember(s.parties[p], u)
  BY GoodParts DEF Lists
<1> QED BY <1>1, MemberType DEF PartyGood, MemberRec

\* What the manager knows of whoever is current.
LEMMA CurrentIsKnown ==
    ASSUME NEW s, Good(s), UniqueOK(s), NEW u \in Users, NEW h
    PROVE  Current(s, u, h) <=> Known(s, u, h)
<1>1. Current(s, u, h) => Known(s, u, h)
  BY CurrentParts DEF Known
<1>2. Known(s, u, h) => Current(s, u, h)
  BY DEF Known, UniqueOK, Current, InParty, PartyOf, Lists
<1> QED BY <1>1, <1>2

-----------------------------------------------------------------------------
(* The projections keep their type. *)

\* The projection of a party.
LEMMA ViewOfType ==
    ASSUME NEW P \in PartyRec
    PROVE  ViewOf(P) \in Views
BY DEF ViewOf, Views, PartyRec

\* Publishing a party writes projections.
LEMMA PublishType ==
    ASSUME NEW v \in [Sessions -> Views], NEW m \in ManagerRec, NEW p \in 0 .. MaxPartyID
    PROVE  /\ Publish(v, m, p) \in [Sessions -> Views]
           /\ PublishMembership(v, m, p) \in [Sessions -> Views]
<1>1. m.parties[p] # NoParty => ViewOf(m.parties[p]) \in Views
  BY ViewOfType DEF ManagerRec
<1>2. NoView \in Views
  BY DEF Views
<1>3. \A s \in Sessions : Receives(m, p, s) => m.parties[p] # NoParty
  BY DEF Receives
<1> QED BY <1>1, <1>2, <1>3 DEF Publish, PublishMembership

\* Clearing a projection.
LEMMA ClearViewType ==
    ASSUME NEW v \in [Sessions -> Views], NEW u, NEW g
    PROVE  ClearView(v, u, g) \in [Sessions -> Views]
BY DEF ClearView, Views

\* The party of those who stayed has an id or is none.
LEMMA RestType ==
    ASSUME NEW m, NEW n \in ManagerRec, NEW u
    PROVE  Rest(m, n, u) \in 0 .. MaxPartyID
<1> DEFINE S == {w \in Users \ {u} : InParty(m, w) /\ m.byUser[w] = m.byUser[u]}
<1>1. Rest(m, n, u) = IF S = {} THEN 0 ELSE n.byUser[CHOOSE w \in S : TRUE]
  BY DEF Rest
<1>2. S \subseteq Users
  OBVIOUS
<1> HIDE DEF S
<1>3. S # {} => (CHOOSE w \in S : TRUE) \in Users
  BY <1>2
<1> QED BY <1>1, <1>3, SizeAssumption DEF ManagerRec

-----------------------------------------------------------------------------
(* Commands *)

\* A command that begins with ordinary steps.
LEMMA OrdinaryBegin ==
    ASSUME IInv, NEW s \in Sessions, Idle(s), char[s] # NoUser, NEW t \in Seq(Steps),
           \A k \in 1 .. Len(t) : Ordinary(t[k]), Begins(s, t),
           UNCHANGED mgr, UNCHANGED directory,
           town' \in [Users -> Sessions \cup {NoSession}], view' \in [Sessions -> Views]
    PROVE  Kept
<1>1. /\ HandlerOK(t, char[s], gen[s])
      /\ t # <<>> => ~ Alone(Head(t)) /\ ~ GivesUp(char[s], Head(t))
  BY OrdinaryHandler
<1>2. JobsOK' /\ job' \in [Sessions -> Seq(Steps)]
  <2>1. job' = [job EXCEPT ![s] = t]
    BY DEF Begins
  <2>2. char' = char /\ gen' = gen /\ online' = online
    BY DEF directory
  <2>3. t # <<>> => Head(t).op \notin {"rebind", "renew"}
    BY <1>1 DEF Alone
  <2> QED BY <1>1, <2>1, <2>2, <2>3, BeginStep
<1>3. got' \in [Sessions -> 0 .. MaxPartyID]
  BY SizeAssumption DEF Begins, IInv, HandlerTypes
<1>4. HandlerTypes'
  BY <1>2, <1>3 DEF HandlerTypes
<1> QED BY <1>2, <1>4, ClosesQuietly

\* A command of one ordinary step.
LEMMA SingleBegin ==
    ASSUME IInv, NEW s \in Sessions, Idle(s), char[s] # NoUser, NEW x \in Steps,
           Ordinary(x), Begins(s, <<x>>), UNCHANGED mgr, UNCHANGED directory,
           town' \in [Users -> Sessions \cup {NoSession}], view' \in [Sessions -> Views]
    PROVE  Kept
<1>1. <<x>> \in Seq(Steps) /\ \A k \in 1 .. Len(<<x>>) : <<x>>[k] = x
  OBVIOUS
<1> QED BY <1>1, OrdinaryBegin

\* The import that may come first.
LEMMA ImportFirstType ==
    ASSUME NEW s \in Sessions
    PROVE  /\ ImportFirst(s) \in Seq(Steps)
           /\ \A k \in 1 .. Len(ImportFirst(s)) : ImportFirst(s)[k].op = "import"
<1> DEFINE x == [op |-> "import", of |-> s]
<1>1. x \in Steps /\ x.op = "import"
  BY DEF Steps, ImportSteps
<1> HIDE DEF x
<1>2. <<x>> \in Seq(Steps) /\ \A k \in 1 .. Len(<<x>>) : <<x>>[k] = x
  BY <1>1
<1>3. <<>> \in Seq(Steps) /\ \A k \in 1 .. Len(<<>>) : FALSE
  OBVIOUS
<1>4. ImportFirst(s) = <<>> \/ ImportFirst(s) = <<x>>
  BY DEF ImportFirst, x
<1> QED BY <1>1, <1>2, <1>3, <1>4

\* Two steps in a row.
LEMMA PairConcat ==
    ASSUME NEW a, NEW b
    PROVE  <<a>> \o <<b>> = <<a, b>>
<1>1. <<a>> \in Seq({a, b}) /\ <<b>> \in Seq({a, b}) /\ <<a, b>> \in Seq({a, b})
  OBVIOUS
<1>2. /\ <<a>> \o <<b>> \in Seq({a, b}) /\ Len(<<a>> \o <<b>>) = 2
      /\ (<<a>> \o <<b>>)[1] = a /\ (<<a>> \o <<b>>)[2] = b
  BY <1>1
<1>3. ASSUME NEW q \in Seq({a, b}), Len(q) = 2, q[1] = a, q[2] = b PROVE q = <<a, b>>
  BY <1>3
<1> QED BY <1>2, <1>3

\* bindGameSessionCharacter begins.
LEMMA SelectKept ==
    ASSUME IInv, NEW s \in Sessions, NEW c \in Users, SelectCharacter(s, c)
    PROVE  Kept
<1> DEFINE x == [op |-> "bind", user |-> c]
           t == (IF char[s] \in {NoUser, c} THEN <<>> ELSE <<Do("detach")>>) \o <<x>>
<1>1. x \in Steps /\ x.op = "bind" /\ x.user = c
  BY DEF Steps, BindSteps
<1>2. /\ Idle(s) /\ job' = [job EXCEPT ![s] = t] /\ got' = [got EXCEPT ![s] = 0]
      /\ UNCHANGED mgr /\ UNCHANGED directory /\ UNCHANGED town /\ UNCHANGED view
  BY DEF SelectCharacter, Begins
<1>3. char' = char /\ gen' = gen /\ online' = online
  BY <1>2 DEF directory
<1> HIDE DEF x
<1>4. IF char[s] \in {NoUser, c} THEN t = <<x>> ELSE t = <<Do("detach"), x>>
  <2>1. <<>> \o <<x>> = <<x>>
    OBVIOUS
  <2>2. <<Do("detach")>> \o <<x>> = <<Do("detach"), x>>
    BY PairConcat
  <2> QED BY <2>1, <2>2
<1> HIDE DEF t
<1>5. /\ t \in Seq(Steps) /\ HandlerOK(t, char[s], gen[s])
      /\ t # <<>> => Head(t).op \notin {"rebind", "renew"}
      /\ t # <<>> /\ char[s] # NoUser => ~ GivesUp(char[s], Head(t))
      /\ char[s] = NoUser /\ t # <<>> => Head(t).op = "bind"
  <2>1. CASE char[s] \in {NoUser, c}
    <3>1. t = <<x>>
      BY <1>4, <2>1
    <3>2. /\ <<x>> \in Seq(Steps) /\ HandlerOK(<<x>>, char[s], gen[s])
          /\ Head(<<x>>) = x
      BY <1>1, SingleHandler
    <3> QED BY <1>1, <2>1, <3>1, <3>2 DEF GivesUp
  <2>2. CASE char[s] \notin {NoUser, c}
    <3>1. t = <<Do("detach"), x>>
      BY <1>4, <2>2
    <3>2. /\ t \in Seq(Steps) /\ HandlerOK(t, char[s], gen[s])
          /\ Head(t) = Do("detach")
      BY <1>1, <3>1, PairHandler
    <3>3. Do("detach").op = "detach"
      BY DEF Do
    <3> QED BY <2>2, <3>2, <3>3 DEF GivesUp
  <2> QED BY <2>1, <2>2
<1>6. JobsOK' /\ job' \in [Sessions -> Seq(Steps)]
  BY <1>2, <1>3, <1>5, BeginStep
<1>7. HandlerTypes'
  BY <1>2, <1>6, SizeAssumption DEF IInv, HandlerTypes
<1> QED BY <1>2, <1>6, <1>7, ClosesQuietly

\* Entering a town area.
LEMMA EnterTownKept ==
    ASSUME IInv, NEW s \in Sessions, EnterTown(s)
    PROVE  Kept
<1> DEFINE x == Do("promote")
<1>1. x \in Steps /\ x.op = "promote"
  BY DEF Steps, PlainSteps, Do
<1>2. /\ Idle(s) /\ char[s] # NoUser /\ job' = [job EXCEPT ![s] = <<x>>]
      /\ got' = [got EXCEPT ![s] = 0] /\ town' = [town EXCEPT ![char[s]] = s]
      /\ UNCHANGED mgr /\ UNCHANGED directory /\ UNCHANGED view
  BY DEF EnterTown, Begins
<1>3. char' = char /\ gen' = gen /\ online' = online
  BY <1>2 DEF directory
<1> HIDE DEF x
<1>4. <<x>> \in Seq(Steps) /\ HandlerOK(<<x>>, char[s], gen[s]) /\ Head(<<x>>) = x
  BY <1>1, SingleHandler
<1>5. JobsOK' /\ job' \in [Sessions -> Seq(Steps)]
  BY <1>1, <1>2, <1>3, <1>4, BeginStep DEF GivesUp
<1>6. HandlerTypes'
  <2>1. char[s] \in Users
    BY <1>2 DEF IInv, DirectoryTypes
  <2>2. town' \in [Users -> Sessions \cup {NoSession}]
    BY <1>2, <2>1 DEF IInv, HandlerTypes
  <2> QED BY <1>2, <1>5, <2>2, SizeAssumption DEF IInv, HandlerTypes
<1> QED BY <1>2, <1>5, <1>6, ClosesQuietly

\* op12
LEMMA SetPartyInfoKept ==
    ASSUME IInv, NEW s \in Sessions, SetPartyInfo(s)
    PROVE  Kept
<1> DEFINE x == Do("ensure")
           v == [leader |-> char[s],
                 users |-> {char[s]} \union (IF view[s] = NoView THEN {} ELSE view[s].users)]
<1>1. x \in Steps /\ Ordinary(x)
  BY DEF Steps, PlainSteps, Do, Ordinary, Alone, Ends
<1>2. /\ Idle(s) /\ char[s] # NoUser /\ Begins(s, <<x>>) /\ UNCHANGED mgr
      /\ UNCHANGED directory /\ UNCHANGED town /\ view' = [view EXCEPT ![s] = v]
  BY DEF SetPartyInfo
<1>3. char[s] \in Users /\ view \in [Sessions -> Views]
      /\ town \in [Users -> Sessions \cup {NoSession}]
  BY <1>2 DEF IInv, DirectoryTypes, HandlerTypes
<1>4. view[s] # NoView => view[s].users \in SUBSET Users
  BY <1>3 DEF Views
<1>5. v \in Views
  BY <1>3, <1>4 DEF Views
<1> HIDE DEF v, x
<1> QED BY <1>1, <1>2, <1>3, <1>5, SingleBegin

\* handleOnlineRequestPeer
LEMMA RequestPeerKept ==
    ASSUME IInv, NEW s \in Sessions, NEW v \in Users, RequestPeer(s, v)
    PROVE  Kept
<1>1. /\ Bound(s) /\ v # char[s] /\ Online(v) /\ UNCHANGED job /\ UNCHANGED directory
      /\ UNCHANGED town /\ UNCHANGED view /\ UNCHANGED got
  BY DEF RequestPeer
<1>2. char[s] \in Users /\ gen[s] \in Gens /\ gen[online[v]] \in Gens
  BY <1>1, BoundParts, SpeakerType DEF Online
<1>3. PICK m \in Modes : mgr' = RecordInviteOp(mgr, v, gen[online[v]], char[s], gen[s], m)
  BY DEF RequestPeer
<1>4. RecordInvite(char[s], gen[s])
  BY <1>1, <1>2, <1>3 DEF RecordInvite
<1>5. [ContractNext]_vars
  BY <1>2, <1>4, StepIsContract DEF Step
<1>6. AddsNobody(mgr, mgr')
  BY <1>3, InvitesAdd DEF IInv
<1>7. JobsOK'
  BY <1>1, <1>6 DEF IInv, JobsOK, HandlersOK, BlankOK, SpeakersOK, RebindsOK, RenewsOK,
                    SettledOK, GoneOK, Awaits, Reached, Bound, AddsNobody, directory,
                    DirectoryTypes
<1>8. DirectoryTypes' /\ HandlerTypes'
  BY <1>1 DEF IInv, DirectoryTypes, HandlerTypes, directory
<1> QED BY <1>5, <1>7, <1>8, Closes

\* A finite set can be put into a sequence.
LEMMA SetToSeqType ==
    ASSUME NEW S, IsFiniteSet(S)
    PROVE  SeqExt!SetToSeq(S) \in Seq(S)
<1>1. PICK n \in Nat : ExistsBijection(1 .. n, S)
  BY FS_NatBijection
<1>2. Cardinality(S) = n
  BY <1>1, FS_CountingElements
<1>3. PICK f \in [1 .. n -> S] : IsInjective(f)
  BY <1>1 DEF ExistsBijection, Bijection, Injection
<1>4. SeqExt!Cardinality(S) = n
  BY <1>2, Zenon DEF SeqExt!Cardinality, Cardinality
<1>5. SeqExt!SetToSeq(S) \in [1 .. n -> S]
  BY <1>3, <1>4 DEF SeqExt!SetToSeq, SeqExt!IsInjective, IsInjective
<1> QED BY <1>5

\* The imports that come before a look at the directory.
LEMMA ImportAllType ==
    ASSUME IInv
    PROVE  /\ ImportAll \in Seq(Steps)
           /\ \A k \in 1 .. Len(ImportAll) : ImportAll[k].op = "import"
<1> DEFINE D == {w \in Users : Online(w)}
           f == [u \in D |-> online[u]]
           S == {online[u] : u \in D}
           q == SeqExt!SetToSeq(S)
           x(k) == [op |-> "import", of |-> q[k]]
<1>1. IsFiniteSet(S)
  <2>1. IsFiniteSet(D)
    BY SessionsAssumption, FS_Subset
  <2>2. f = [u \in D |-> f[u]]
    OBVIOUS
  <2>3. S = {f[u] : u \in D}
    OBVIOUS
  <2> HIDE DEF D, f
  <2>4. IsFiniteSet({f[u] : u \in D})
    BY <2>1, <2>2, FiniteImage
  <2> QED BY <2>3, <2>4
<1>2. S \subseteq Sessions
  BY SpeakerType DEF Online
<1>3. ImportAll = [k \in DOMAIN q |-> x(k)]
  BY DEF ImportAll
<1> HIDE DEF S
<1>4. q \in Seq(S)
  BY <1>1, SetToSeqType
<1> HIDE DEF q
<1>5. DOMAIN q = 1 .. Len(q) /\ Len(q) \in Nat /\ \A k \in DOMAIN q : q[k] \in Sessions
  BY <1>2, <1>4
<1>6. \A k \in 1 .. Len(q) : x(k) \in Steps /\ x(k).op = "import"
  BY <1>5 DEF Steps, ImportSteps
<1> HIDE DEF x
<1>7. ImportAll \in Seq(Steps) /\ Len(ImportAll) = Len(q)
      /\ \A k \in 1 .. Len(q) : ImportAll[k] = x(k)
  BY <1>3, <1>5, <1>6
<1> QED BY <1>6, <1>7

\* handleOnlineResponsePeer
LEMMA ResponsePeerKept ==
    ASSUME IInv, NEW s \in Sessions, NEW v \in Users, ResponsePeer(s, v)
    PROVE  Kept
<1> DEFINE x == [op |-> "meet", joiner |-> s, anchor |-> online[v]]
<1>1. /\ Idle(s) /\ Bound(s) /\ Online(v) /\ UNCHANGED directory
      /\ UNCHANGED town /\ UNCHANGED view
      /\ Begins(s, <<x>>) \/ (UNCHANGED job /\ UNCHANGED got)
  BY DEF ResponsePeer
<1>2. /\ char[s] \in Users /\ gen[s] \in Gens /\ gen[online[v]] \in Gens
      /\ online[v] \in Sessions
  BY <1>1, BoundParts, SpeakerType DEF Online
<1>3. PICK m \in Modes : mgr' = ConsumeInviteOp(mgr, char[s], gen[s], v, gen[online[v]], m)
  BY DEF ResponsePeer
<1>4. ConsumeInvite(v, gen[online[v]])
  BY <1>2, <1>3 DEF ConsumeInvite
<1>5. [ContractNext]_vars
  BY <1>2, <1>4, StepIsContract DEF Step
<1>6. AddsNobody(mgr, mgr')
  BY <1>3, InvitesAdd DEF IInv
<1>7. x \in Steps /\ x.op = "meet"
  BY <1>2 DEF Steps, MeetSteps
<1> HIDE DEF x
<1>8. char' = char /\ gen' = gen /\ online' = online /\ DirectoryTypes'
  BY <1>1 DEF directory, IInv, DirectoryTypes
<1>9. CASE Begins(s, <<x>>)
  <2>1. <<x>> \in Seq(Steps) /\ HandlerOK(<<x>>, char[s], gen[s]) /\ Head(<<x>>) = x
    BY <1>7, SingleHandler
  <2>2. job' = [job EXCEPT ![s] = <<x>>] /\ got' = [got EXCEPT ![s] = 0]
    BY <1>9 DEF Begins
  <2>3. char[s] # NoUser /\ ~ GivesUp(char[s], x)
    BY <1>1, <1>7 DEF Bound, GivesUp
  <2>4. JobsOK' /\ job' \in [Sessions -> Seq(Steps)]
    BY <1>1, <1>6, <1>7, <1>8, <2>1, <2>2, <2>3, BeginStep
  <2>5. HandlerTypes'
    BY <1>1, <2>2, <2>4, SizeAssumption DEF IInv, HandlerTypes
  <2> QED BY <1>5, <1>8, <2>4, <2>5, Closes
<1>10. CASE UNCHANGED job /\ UNCHANGED got
  <2>1. JobsOK'
    BY <1>6, <1>8, <1>10 DEF IInv, JobsOK, HandlersOK, BlankOK, SpeakersOK, RebindsOK,
              RenewsOK, SettledOK, GoneOK, Awaits, Reached, Bound, AddsNobody, DirectoryTypes
  <2>2. HandlerTypes'
    BY <1>1, <1>10 DEF IInv, HandlerTypes
  <2> QED BY <1>5, <1>8, <2>1, <2>2, Closes
<1> QED BY <1>1, <1>9, <1>10

\* handleOnlineEntryIntoParty
LEMMA EntryIntoPartyKept ==
    ASSUME IInv, NEW s \in Sessions, NEW v \in Users, EntryIntoParty(s, v)
    PROVE  Kept
<1> DEFINE x == [op |-> "meet", joiner |-> online[v], anchor |-> s]
<1>1. /\ Idle(s) /\ Bound(s) /\ online[v] # NoSession /\ UNCHANGED directory
      /\ UNCHANGED mgr /\ UNCHANGED town /\ UNCHANGED view /\ Begins(s, <<x>>)
  BY DEF EntryIntoParty
<1>2. online[v] \in Sessions /\ char[s] # NoUser
  BY <1>1, SpeakerType DEF Bound
<1>3. x \in Steps /\ Ordinary(x)
  BY <1>2 DEF Steps, MeetSteps, Ordinary, Alone, Ends
<1>4. town' \in [Users -> Sessions \cup {NoSession}] /\ view' \in [Sessions -> Views]
  BY <1>1 DEF IInv, HandlerTypes
<1> HIDE DEF x
<1> QED BY <1>1, <1>2, <1>3, <1>4, SingleBegin

\* Imports, then one ordinary step.
LEMMA ImportsBegin ==
    ASSUME IInv, NEW s \in Sessions, Idle(s), char[s] # NoUser, NEW a \in Seq(Steps),
           \A k \in 1 .. Len(a) : a[k].op = "import", NEW x \in Steps, Ordinary(x),
           Begins(s, a \o <<x>>), UNCHANGED mgr, UNCHANGED directory,
           UNCHANGED town, UNCHANGED view
    PROVE  Kept
<1>1. /\ a \o <<x>> \in Seq(Steps)
      /\ \A k \in 1 .. Len(a \o <<x>>) : Ordinary((a \o <<x>>)[k])
  BY ImportsThen
<1>2. town' \in [Users -> Sessions \cup {NoSession}] /\ view' \in [Sessions -> Views]
  BY DEF IInv, HandlerTypes
<1> QED BY <1>1, <1>2, OrdinaryBegin

\* handleRuntimePartyDirectoryJoin and handleRuntimePartyDirectoryRefresh
LEMMA EnterWarroomKept ==
    ASSUME IInv, NEW s \in Sessions, NEW p \in PartyIDs, EnterWarroom(s, p)
    PROVE  Kept
<1> DEFINE x == [op |-> "target", party |-> p]
<1>1. /\ Idle(s) /\ char[s] # NoUser /\ UNCHANGED mgr /\ UNCHANGED directory
      /\ UNCHANGED town /\ UNCHANGED view /\ Begins(s, ImportAll \o <<x>>)
  BY DEF EnterWarroom, Bound
<1>2. x \in Steps /\ Ordinary(x)
  BY DEF Steps, TargetSteps, Ordinary, Alone, Ends
<1> HIDE DEF x
<1> QED BY <1>1, <1>2, ImportAllType, ImportsBegin

\* handleOnlineLeaveParty
LEMMA LeavePartyKept ==
    ASSUME IInv, NEW s \in Sessions, LeaveParty(s)
    PROVE  Kept
<1> DEFINE x == [op |-> "leave", who |-> Identity(s), must |-> FALSE]
<1>1. /\ Idle(s) /\ char[s] # NoUser /\ UNCHANGED mgr /\ UNCHANGED directory
      /\ UNCHANGED town /\ UNCHANGED view /\ Begins(s, ImportFirst(s) \o <<x>>)
  BY DEF LeaveParty, Bound, LeaveSteps
<1>2. Identity(s) \in Identities
  BY <1>1, IdentityType
<1>3. x \in Steps /\ Ordinary(x)
  BY <1>2 DEF Steps, LeavingSteps, Ordinary, Alone, Ends
<1> HIDE DEF x
<1> QED BY <1>1, <1>3, ImportFirstType, ImportsBegin

\* handleOnlineWalkoutPartyMember and handleOnlineChangePartyHost
LEMMA LeaderCommandKept ==
    ASSUME IInv, NEW s \in Sessions, NEW v \in Users, NEW op \in {"kick", "transfer"},
           LeaderCommand(s, op, v)
    PROVE  Kept
<1> DEFINE x == [op |-> op, target |-> v]
<1>1. /\ Idle(s) /\ char[s] # NoUser /\ UNCHANGED mgr /\ UNCHANGED directory
      /\ UNCHANGED town /\ UNCHANGED view /\ Begins(s, ImportFirst(s) \o <<x>>)
  BY DEF LeaderCommand, Bound
<1>2. x \in Steps /\ Ordinary(x)
  BY DEF Steps, LeaderSteps, Ordinary, Alone, Ends
<1> HIDE DEF x
<1> QED BY <1>1, <1>2, ImportFirstType, ImportsBegin

\* A command that leaves the party and then gives the character up.
LEMMA PairBegin ==
    ASSUME IInv, NEW s \in Sessions, Idle(s), char[s] # NoUser,
           NEW y \in Steps, y.op \in {"deselect", "unbind"},
           Begins(s, <<Do("detach"), y>>), UNCHANGED mgr, UNCHANGED directory,
           town' \in [Users -> Sessions \cup {NoSession}], UNCHANGED view
    PROVE  Kept
<1> DEFINE t == <<Do("detach"), y>>
<1>1. /\ t \in Seq(Steps) /\ HandlerOK(t, char[s], gen[s])
      /\ Head(t) = Do("detach")
  BY PairHandler
<1>2. Do("detach").op = "detach"
  BY DEF Do
<1>3. job' = [job EXCEPT ![s] = t] /\ got' = [got EXCEPT ![s] = 0]
  BY DEF Begins
<1>4. char' = char /\ gen' = gen /\ online' = online
  BY DEF directory
<1> HIDE DEF t
<1>5. Head(t).op \notin {"rebind", "renew"} /\ ~ GivesUp(char[s], Head(t))
  BY <1>1, <1>2 DEF GivesUp
<1>6. JobsOK' /\ job' \in [Sessions -> Seq(Steps)]
  BY <1>1, <1>3, <1>4, <1>5, BeginStep
<1>7. HandlerTypes'
  BY <1>3, <1>6, SizeAssumption DEF IInv, HandlerTypes
<1> QED BY <1>6, <1>7, ClosesQuietly

\* resetGameSessionForCharacterSelect begins.
LEMMA ReturnSelectCharacterKept ==
    ASSUME IInv, NEW s \in Sessions, ReturnSelectCharacter(s)
    PROVE  Kept
<1>1. /\ Idle(s) /\ char[s] # NoUser /\ UNCHANGED mgr /\ UNCHANGED directory
      /\ UNCHANGED town /\ UNCHANGED view /\ Begins(s, <<Do("detach"), Do("deselect")>>)
  BY DEF ReturnSelectCharacter
<1>2. Do("deselect") \in Steps /\ Do("deselect").op = "deselect"
  BY DEF Do, Steps, PlainSteps
<1>3. town' \in [Users -> Sessions \cup {NoSession}]
  BY <1>1 DEF IInv, HandlerTypes
<1> QED BY <1>1, <1>2, <1>3, PairBegin

\* The connection ends.
LEMMA DisconnectKept ==
    ASSUME IInv, NEW s \in Sessions, Disconnect(s)
    PROVE  Kept
<1> DEFINE t == IF char[s] = NoUser THEN <<>> ELSE <<Do("detach"), Do("unbind")>>
<1>1. /\ Idle(s) /\ UNCHANGED mgr /\ UNCHANGED directory /\ UNCHANGED view /\ Begins(s, t)
      /\ town' = [u \in Users |-> IF u = char[s] /\ town[u] = s THEN NoSession ELSE town[u]]
  BY DEF Disconnect
<1>2. town' \in [Users -> Sessions \cup {NoSession}]
  BY <1>1 DEF IInv, HandlerTypes
<1>3. CASE char[s] # NoUser
  <2>1. Do("unbind") \in Steps /\ Do("unbind").op = "unbind"
    BY DEF Do, Steps, PlainSteps
  <2>2. Begins(s, <<Do("detach"), Do("unbind")>>)
    BY <1>1, <1>3
  <2> QED BY <1>1, <1>2, <1>3, <2>1, <2>2, PairBegin
<1>4. CASE char[s] = NoUser
  <2>1. job' = [job EXCEPT ![s] = <<>>] /\ got' = [got EXCEPT ![s] = 0]
    BY <1>1, <1>4 DEF Begins
  <2>2. <<>> \in Seq(Steps) /\ HandlerOK(<<>>, char[s], gen[s])
    <3>1. <<>> \in Seq(Steps) /\ \A k \in 1 .. Len(<<>>) : Ordinary(<<>>[k])
      OBVIOUS
    <3> QED BY <3>1, OrdinaryHandler
  <2>3. char' = char /\ gen' = gen /\ online' = online
    BY <1>1 DEF directory
  <2>4. JobsOK' /\ job' \in [Sessions -> Seq(Steps)]
    BY <1>1, <2>1, <2>2, <2>3, BeginStep
  <2>5. HandlerTypes'
    BY <1>1, <1>2, <2>1, <2>4, SizeAssumption DEF IInv, HandlerTypes
  <2> QED BY <1>1, <2>4, <2>5, ClosesQuietly
<1> QED BY <1>3, <1>4

\* Every command keeps the invariant.
LEMMA CommandKept ==
    ASSUME IInv, NEW s \in Sessions, Command(s)
    PROVE  Kept
BY SelectKept, RequestPeerKept, ResponsePeerKept, EntryIntoPartyKept, LeaderCommandKept,
   EnterWarroomKept, EnterTownKept, SetPartyInfoKept, LeavePartyKept,
   ReturnSelectCharacterKept, DisconnectKept DEF Command

-----------------------------------------------------------------------------
(* Ordinary steps of a handler *)

\* An ordinary step, what is left after it, and whom it may enter.
LEMMA OrdinaryKept ==
    ASSUME IInv, NEW s \in Sessions, job[s] # <<>>, Ordinary(Head(job[s])),
           NEW t \in Seq(Steps), Then(s, t), \A k \in 1 .. Len(t) : Ordinary(t[k]),
           UNCHANGED directory, UNCHANGED town, view' \in [Sessions -> Views],
           got' \in [Sessions -> 0 .. MaxPartyID], [ContractNext]_vars,
           t # <<>> /\ Parts(char[s], gen[s], Head(job[s]))
               => Parts(char[s], gen[s], t[Len(t)]),
           EntersOnline(s),
           t = <<>> /\ Bound(s) /\ Parts(char[s], gen[s], Head(job[s]))
               => \A h : ~ Known(mgr', char[s], h)
    PROVE  Kept
<1>1. char' = char /\ gen' = gen /\ online' = online
  BY DEF directory
<1>2. JobsOK' /\ job' \in [Sessions -> Seq(Steps)]
  BY <1>1, OrdinaryStep
<1>3. DirectoryTypes'
  BY DEF IInv, DirectoryTypes, directory
<1>4. HandlerTypes'
  BY <1>2 DEF IInv, HandlerTypes
<1> QED BY <1>2, <1>3, <1>4, Closes

\* The same when nothing is left to do, and the step does not part.
LEMMA EndsKept ==
    ASSUME IInv, NEW s \in Sessions, job[s] # <<>>, Ordinary(Head(job[s])), Then(s, <<>>),
           UNCHANGED directory, UNCHANGED town, view' \in [Sessions -> Views],
           got' \in [Sessions -> 0 .. MaxPartyID], [ContractNext]_vars, EntersOnline(s),
           Bound(s) /\ Parts(char[s], gen[s], Head(job[s]))
               => \A h : ~ Known(mgr', char[s], h)
    PROVE  Kept
<1>1. <<>> \in Seq(Steps) /\ \A k \in 1 .. Len(<<>>) : Ordinary(<<>>[k])
  OBVIOUS
<1> QED BY <1>1, OrdinaryKept

\* The same when imports and one step are left, and the step does not part or
\* the last one left does.
LEMMA TurnsKept ==
    ASSUME IInv, NEW s \in Sessions, job[s] # <<>>, Ordinary(Head(job[s])),
           NEW a \in Seq(Steps), \A k \in 1 .. Len(a) : a[k].op = "import",
           NEW x \in Steps, Ordinary(x), Then(s, a \o <<x>>),
           UNCHANGED directory, UNCHANGED town, view' \in [Sessions -> Views],
           got' \in [Sessions -> 0 .. MaxPartyID], [ContractNext]_vars, EntersOnline(s),
           Parts(char[s], gen[s], Head(job[s])) => Parts(char[s], gen[s], x)
    PROVE  Kept
<1> DEFINE t == a \o <<x>>
<1>1. /\ t \in Seq(Steps) /\ t # <<>> /\ t[Len(t)] = x
      /\ \A k \in 1 .. Len(t) : Ordinary(t[k])
  BY ImportsThen
<1>2. Then(s, t)
  OBVIOUS
<1> HIDE DEF t
<1> QED BY <1>1, <1>2, OrdinaryKept

\* The same when one step is left.
LEMMA TurnKept ==
    ASSUME IInv, NEW s \in Sessions, job[s] # <<>>, Ordinary(Head(job[s])),
           NEW x \in Steps, Ordinary(x), Then(s, <<x>>),
           UNCHANGED directory, UNCHANGED town, view' \in [Sessions -> Views],
           got' \in [Sessions -> 0 .. MaxPartyID], [ContractNext]_vars, EntersOnline(s),
           Parts(char[s], gen[s], Head(job[s])) => Parts(char[s], gen[s], x)
    PROVE  Kept
<1>1. <<>> \in Seq(Steps) /\ \A k \in 1 .. Len(<<>>) : <<>>[k].op = "import"
  OBVIOUS
<1>2. <<>> \o <<x>> = <<x>>
  OBVIOUS
<1> QED BY <1>1, <1>2, TurnsKept

\* What stays as it is when the manager is not called.
LEMMA QuietFacts ==
    ASSUME NEW s, UNCHANGED mgr
    PROVE  [ContractNext]_vars /\ EntersOnline(s)
BY DEF vars, EntersOnline

\* The types a step of a handler starts from.
LEMMA StepFacts ==
    ASSUME IInv
    PROVE  /\ view \in [Sessions -> Views] /\ got \in [Sessions -> 0 .. MaxPartyID]
           /\ mgr \in ManagerRec /\ Good(mgr) /\ UniqueOK(mgr)
           /\ \A u \in Users : mgr.byUser[u] \in 0 .. MaxPartyID
BY GoodParts DEF IInv, HandlerTypes, ManagerRec

\* The manager after a step of the contract.
LEMMA AfterContract ==
    ASSUME IInv, [ContractNext]_vars
    PROVE  /\ Good(mgr') /\ UniqueOK(mgr') /\ mgr' \in ManagerRec
           /\ \A u \in Users : mgr'.byUser[u] \in 0 .. MaxPartyID
           /\ \A u \in Users : \A g : IsLeader(mgr', u, g) => mgr'.byUser[u] \in PartyIDs
<1>1. Good(mgr') /\ UniqueOK(mgr')
  BY ContractGood DEF IInv
<1>2. mgr' \in ManagerRec
  BY <1>1, GoodParts
<1>3. ASSUME NEW u \in Users, NEW g, IsLeader(mgr', u, g) PROVE mgr'.byUser[u] \in PartyIDs
  BY <1>1, <1>3, InPartyParts DEF IsLeader, Current
<1> QED BY <1>1, <1>2, <1>3 DEF ManagerRec

\* bootstrapManagedRuntimePartyForSession begins.
LEMMA ImportKept ==
    ASSUME IInv, NEW s \in Sessions, Import(s)
    PROVE  Kept
<1> DEFINE x == Head(job[s])
           t == x.of
           y == [op |-> "known", who |-> Identity(t)]
<1>1. /\ job[s] # <<>> /\ x.op = "import" /\ UNCHANGED directory /\ UNCHANGED town
      /\ UNCHANGED view /\ UNCHANGED mgr /\ Returns(s, 0)
      /\ Then(s, IF Bound(t) THEN <<y>> ELSE <<>>)
  BY DEF Import, Reached
<1>2. /\ x \in Steps /\ Ordinary(x) /\ t \in Sessions /\ ~ Parts(char[s], gen[s], x)
  BY <1>1, HeadStep, StepParts DEF Ordinary, Alone, Ends, Parts
<1>3. /\ view' \in [Sessions -> Views] /\ got' \in [Sessions -> 0 .. MaxPartyID]
      /\ [ContractNext]_vars /\ EntersOnline(s)
  BY <1>1, StepFacts, QuietFacts, SizeAssumption DEF Returns
<1>4. CASE Bound(t)
  <2>1. Identity(t) \in Identities
    BY <1>2, <1>4, IdentityType DEF Bound
  <2>2. y \in Steps /\ Ordinary(y)
    BY <2>1 DEF Steps, CacheSteps, Ordinary, Alone, Ends
  <2>3. Then(s, <<y>>)
    BY <1>1, <1>4
  <2> HIDE DEF y
  <2> QED BY <1>1, <1>2, <1>3, <2>2, <2>3, TurnKept
<1>5. CASE ~ Bound(t)
  <2>1. Then(s, <<>>)
    BY <1>1, <1>5
  <2> QED BY <1>1, <1>2, <1>3, <2>1, EndsKept
<1> QED BY <1>4, <1>5

\* The manager is asked for the session's party.
LEMMA ImportKnownKept ==
    ASSUME IInv, NEW s \in Sessions, ImportKnown(s)
    PROVE  Kept
<1> DEFINE x == Head(job[s])
           i == x.who
           y == [op |-> "cached", who |-> i]
<1>1. /\ job[s] # <<>> /\ x.op = "known" /\ UNCHANGED directory /\ UNCHANGED town
      /\ UNCHANGED view /\ UNCHANGED mgr
  BY DEF ImportKnown, Reached
<1>2. /\ x \in Steps /\ Ordinary(x) /\ i \in Identities /\ ~ Parts(char[s], gen[s], x)
  BY <1>1, HeadStep, StepParts DEF Ordinary, Alone, Ends, Parts
<1>3. /\ view' \in [Sessions -> Views] /\ got \in [Sessions -> 0 .. MaxPartyID]
      /\ [ContractNext]_vars /\ EntersOnline(s)
  BY <1>1, StepFacts, QuietFacts
<1>4. CASE Current(mgr, i.user, i.gen)
  <2>1. Then(s, <<>>) /\ Returns(s, mgr.byUser[i.user])
    BY <1>4 DEF ImportKnown
  <2>2. mgr.byUser[i.user] \in 0 .. MaxPartyID
    BY <1>2, StepFacts DEF Identities
  <2>3. got' \in [Sessions -> 0 .. MaxPartyID]
    BY <1>3, <2>1, <2>2 DEF Returns
  <2> QED BY <1>1, <1>2, <1>3, <2>1, <2>3, EndsKept
<1>5. CASE ~ Current(mgr, i.user, i.gen)
  <2>1. Then(s, <<y>>) /\ UNCHANGED got
    BY <1>5 DEF ImportKnown
  <2>2. y \in Steps /\ Ordinary(y)
    BY <1>2 DEF Steps, CacheSteps, Ordinary, Alone, Ends
  <2>3. got' \in [Sessions -> 0 .. MaxPartyID]
    BY <1>3, <2>1
  <2> HIDE DEF y
  <2> QED BY <1>1, <1>2, <1>3, <2>1, <2>2, <2>3, TurnKept
<1> QED BY <1>4, <1>5

\* The projection is read and the leader's identity captured.
LEMMA ImportCachedKept ==
    ASSUME IInv, NEW s \in Sessions, ImportCached(s)
    PROVE  Kept
<1> DEFINE x == Head(job[s])
           i == x.who
           v == view[i.session]
           l == Heir(i)
           y == [op |-> "lead", leader |-> l, users |-> v.users \ {l.user}]
<1>1. /\ job[s] # <<>> /\ x.op = "cached" /\ UNCHANGED directory /\ UNCHANGED town
      /\ UNCHANGED view /\ UNCHANGED mgr /\ UNCHANGED got
  BY DEF ImportCached, Reached
<1>2. /\ x \in Steps /\ Ordinary(x) /\ i \in Identities /\ ~ Parts(char[s], gen[s], x)
  BY <1>1, HeadStep, StepParts DEF Ordinary, Alone, Ends, Parts
<1>3. /\ view' \in [Sessions -> Views] /\ got' \in [Sessions -> 0 .. MaxPartyID]
      /\ [ContractNext]_vars /\ EntersOnline(s)
  BY <1>1, StepFacts, QuietFacts
<1>4. CASE v # NoView /\ Then(s, <<y>>)
  <2>1. i.session \in Sessions /\ v \in Views
    BY <1>2, StepFacts DEF Identities
  <2>2. v.leader \in Users /\ v.users \in SUBSET Users
    BY <1>4, <2>1 DEF Views
  <2>3. l \in Identities
    <3>1. CASE Online(v.leader)
      <4>1. online[v.leader] \in Sessions /\ char[online[v.leader]] = v.leader
        BY <2>2, <3>1, SpeakerType DEF Online
      <4>2. Identity(online[v.leader]) \in Identities
        BY <2>2, <4>1, IdentityType, SessionsAssumption
      <4> QED BY <3>1, <4>2 DEF Heir
    <3>2. CASE ~ Online(v.leader)
      BY <1>2, <3>2 DEF Heir
    <3> QED BY <3>1, <3>2
  <2> HIDE DEF l
  <2>4. y \in Steps /\ Ordinary(y)
    BY <2>2, <2>3 DEF Steps, LeadSteps, Ordinary, Alone, Ends
  <2> HIDE DEF y
  <2> QED BY <1>1, <1>2, <1>3, <1>4, <2>4, TurnKept
<1>5. CASE Then(s, <<>>)
  BY <1>1, <1>2, <1>3, <1>5, EndsKept
<1> QED BY <1>4, <1>5 DEF ImportCached

\* The import makes the leader a party; it still speaks for its character.
LEMMA ImportLeadsKept ==
    ASSUME IInv, NEW s \in Sessions, ImportLeads(s), ~ InWindow(s)
    PROVE  Kept
<1> DEFINE x == Head(job[s])
           i == x.leader
           y == [op |-> "add", party |-> mgr'.byUser[i.user], users |-> x.users]
<1>1. job[s] # <<>> /\ x.op = "lead" /\ UNCHANGED directory /\ UNCHANGED town
      /\ UNCHANGED view /\ UNCHANGED got
  BY DEF ImportLeads, Reached
<1>2. /\ x \in Steps /\ Ordinary(x) /\ i \in Identities /\ x.users \in SUBSET Users
      /\ ~ Parts(char[s], gen[s], x)
  BY <1>1, HeadStep, StepParts DEF Ordinary, Alone, Ends, Parts
<1>3. view' \in [Sessions -> Views] /\ got' \in [Sessions -> 0 .. MaxPartyID]
  BY <1>1, StepFacts
<1>4. i.user \in Users /\ i.gen \in Gens /\ i.session \in Sessions
  BY <1>2 DEF Identities
<1>5. Live(i) /\ ~ Unsettled(i.user)
  BY <1>1 DEF InWindow, Doubtful, Reached
<1>6. online[i.user] # NoSession /\ gen[online[i.user]] = i.gen
  BY <1>4, <1>5, SessionsAssumption DEF Live
<1>7. PICK n \in Limits : mgr' = EnsureLeaderOp(mgr, i.user, i.gen, n)
  BY DEF ImportLeads
<1>8. Then(s, IF IsLeader(mgr', i.user, i.gen) THEN <<y>> ELSE <<>>)
  BY DEF ImportLeads
<1>9. [ContractNext]_vars
  <2>1. EnsureLeader(i.user, i.gen)
    BY <1>7 DEF EnsureLeader
  <2> QED BY <1>4, <2>1, StepIsContract DEF Step
<1>10. EntersOnline(s)
  <2>1. AddsOnly(mgr, mgr', i.user, gen[online[i.user]])
    BY <1>4, <1>6, <1>7, StepFacts, EnsureLeaderAdds
  <2> QED BY <1>4, <1>5, <1>6, <2>1, SpeakerEnters
<1>11. CASE IsLeader(mgr', i.user, i.gen)
  <2>1. mgr'.byUser[i.user] \in PartyIDs
    BY <1>4, <1>9, <1>11, AfterContract
  <2>2. y \in Steps /\ Ordinary(y)
    BY <1>2, <2>1 DEF Steps, AddSteps, Ordinary, Alone, Ends
  <2>3. Then(s, <<y>>)
    BY <1>8, <1>11
  <2> HIDE DEF y
  <2> QED BY <1>1, <1>2, <1>3, <1>9, <1>10, <2>2, <2>3, TurnKept
<1>12. CASE ~ IsLeader(mgr', i.user, i.gen)
  <2>1. Then(s, <<>>)
    BY <1>8, <1>12
  <2> QED BY <1>1, <1>2, <1>3, <1>9, <1>10, <2>1, EndsKept
<1> QED BY <1>11, <1>12

\* The cached members are looked up one after the other.
LEMMA AddCachedKept ==
    ASSUME IInv, NEW s \in Sessions, AddCached(s)
    PROVE  Kept
<1> DEFINE x == Head(job[s])
           p == x.party
           S == x.users
           y(u) == [op |-> "add", party |-> p, users |-> S \ {u}]
           z(u) == [op |-> "enlist", party |-> p, who |-> Identity(online[u])]
<1>1. job[s] # <<>> /\ x.op = "add" /\ UNCHANGED directory /\ UNCHANGED town
      /\ UNCHANGED mgr
  BY DEF AddCached, Reached
<1>2. /\ x \in Steps /\ Ordinary(x) /\ p \in PartyIDs /\ S \in SUBSET Users
      /\ ~ Parts(char[s], gen[s], x)
  BY <1>1, HeadStep, StepParts DEF Ordinary, Alone, Ends, Parts
<1>3. p \in 0 .. MaxPartyID /\ [ContractNext]_vars /\ EntersOnline(s)
  BY <1>1, <1>2, SizeAssumption, QuietFacts DEF PartyIDs
<1>4. CASE view' = Publish(view, mgr, p) /\ Returns(s, p) /\ Then(s, <<>>)
  <2>1. got' \in [Sessions -> 0 .. MaxPartyID]
    BY <1>3, <1>4, StepFacts DEF Returns
  <2>2. view' \in [Sessions -> Views]
    BY <1>3, <1>4, StepFacts, PublishType
  <2> QED BY <1>1, <1>2, <1>3, <1>4, <2>1, <2>2, EndsKept
<1>5. ASSUME NEW u \in S, UNCHANGED view, UNCHANGED got,
             \/ Then(s, <<y(u)>>)
             \/ Online(u) /\ Then(s, <<z(u)>> \o <<y(u)>>)
      PROVE  Kept
  <2>1. y(u) \in Steps /\ Ordinary(y(u))
    BY <1>2 DEF Steps, AddSteps, Ordinary, Alone, Ends
  <2>2. view' \in [Sessions -> Views] /\ got' \in [Sessions -> 0 .. MaxPartyID]
    BY <1>5, StepFacts
  <2>3. CASE Then(s, <<y(u)>>)
    <3> HIDE DEF y
    <3> QED BY <1>1, <1>2, <1>3, <2>1, <2>2, <2>3, TurnKept
  <2>4. CASE Online(u) /\ Then(s, <<z(u)>> \o <<y(u)>>)
    <3>1. u \in Users /\ online[u] \in Sessions /\ char[online[u]] = u
      BY <1>2, <2>4, SpeakerType DEF Online
    <3>2. Identity(online[u]) \in Identities
      BY <3>1, IdentityType, SessionsAssumption
    <3>3. z(u) \in Steps /\ Ordinary(z(u))
      BY <1>2, <3>2 DEF Steps, EnlistSteps, Ordinary, Alone, Ends
    <3> DEFINE t == <<z(u)>> \o <<y(u)>>
    <3> HIDE DEF y, z
    <3>4. t \in Seq(Steps) /\ Len(t) = 2 /\ t[1] = z(u) /\ t[2] = y(u)
      BY <2>1, <3>3
    <3>5. Then(s, t)
      BY <2>4
    <3> HIDE DEF t
    <3>6. t # <<>> /\ \A k \in 1 .. Len(t) : k = 1 \/ k = 2
      <4>1. t # <<>>
        <5>1. Len(<<>>) = 0
          OBVIOUS
        <5>2. Len(t) # Len(<<>>)
          <6>1. Len(t) = 2
            BY ONLY <3>4
          <6> QED BY ONLY <5>1, <6>1
        <5> QED BY ONLY <5>2, Zenon
      <4>2. \A k \in 1 .. 2 : k = 1 \/ k = 2
        OBVIOUS
      <4> QED BY <3>4, <4>1, <4>2
    <3>7. \A k \in 1 .. Len(t) : Ordinary(t[k])
      BY <2>1, <3>3, <3>4, <3>6
    <3> QED BY <1>1, <1>2, <1>3, <2>2, <3>4, <3>5, <3>6, <3>7, OrdinaryKept
  <2> QED BY <1>5, <2>3, <2>4
<1> QED BY <1>4, <1>5 DEF AddCached

\* A cached member joins; it still speaks for its character.
LEMMA EnlistKept ==
    ASSUME IInv, NEW s \in Sessions, Enlist(s), ~ InWindow(s)
    PROVE  Kept
<1> DEFINE x == Head(job[s])
           p == x.party
           i == x.who
<1>1. /\ job[s] # <<>> /\ x.op = "enlist" /\ UNCHANGED directory /\ UNCHANGED town
      /\ UNCHANGED got /\ UNCHANGED view /\ Then(s, <<>>)
      /\ mgr' = JoinOp(mgr, p, i.user, i.gen)
  BY DEF Enlist, Reached
<1>2. /\ x \in Steps /\ Ordinary(x) /\ p \in PartyIDs /\ i \in Identities
      /\ ~ Parts(char[s], gen[s], x)
  BY <1>1, HeadStep, StepParts DEF Ordinary, Alone, Ends, Parts
<1>3. i.user \in Users /\ i.gen \in Gens /\ i.session \in Sessions
  BY <1>2 DEF Identities
<1>4. Live(i) /\ ~ Unsettled(i.user)
  BY <1>1 DEF InWindow, Doubtful, Reached
<1>5. online[i.user] # NoSession /\ gen[online[i.user]] = i.gen
  BY <1>3, <1>4, SessionsAssumption DEF Live
<1>6. CurrentIdentity(i.user, i.gen) /\ Join(i.user, i.gen)
  BY <1>1, <1>2, <1>3, <1>4, <1>5, SettledIdentity DEF Join
<1>7. [ContractNext]_vars
  BY <1>3, <1>6 DEF ContractNext
<1>8. EntersOnline(s)
  <2>1. AddsOnly(mgr, mgr', i.user, gen[online[i.user]])
    BY <1>1, <1>2, <1>3, <1>5, StepFacts, JoinAdds
  <2> QED BY <1>3, <1>4, <1>5, <2>1, SpeakerEnters
<1>9. view' \in [Sessions -> Views] /\ got' \in [Sessions -> 0 .. MaxPartyID]
  BY <1>1, StepFacts
<1> QED BY <1>1, <1>2, <1>7, <1>8, <1>9, EndsKept

\* ensureManagedRuntimePartyForSession
LEMMA EnsureManagedKept ==
    ASSUME IInv, NEW s \in Sessions, EnsureManaged(s)
    PROVE  Kept
<1> DEFINE x == Head(job[s])
           p == mgr.byUser[char[s]]
<1>1. job[s] # <<>> /\ x.op = "ensure" /\ UNCHANGED directory /\ UNCHANGED town
      /\ UNCHANGED got
  BY DEF EnsureManaged, Reached
<1>2. x \in Steps /\ Ordinary(x) /\ char[s] \in Users /\ ~ Parts(char[s], gen[s], x)
  BY <1>1, HeadStep DEF Ordinary, Alone, Ends, Parts
<1>3. got' \in [Sessions -> 0 .. MaxPartyID] /\ gen[s] \in Gens /\ p \in 0 .. MaxPartyID
  BY <1>1, <1>2, StepFacts DEF IInv, DirectoryTypes
<1>4. ASSUME NEW n \in Limits, mgr' = UpdateSettingsOp(mgr, char[s], gen[s], n),
             view' = Publish(view, mgr', p), Then(s, <<>>)
      PROVE  Kept
  <2>1. [ContractNext]_vars
    <3>1. UpdateSettings(char[s], gen[s])
      BY <1>4 DEF UpdateSettings
    <3> QED BY <1>2, <1>3, <3>1, StepIsContract DEF Step
  <2>2. EntersOnline(s)
    BY <1>2, <1>4, StepFacts, UpdateSettingsAdds, NobodyEnters
  <2>3. view' \in [Sessions -> Views]
    BY <1>3, <1>4, <2>1, StepFacts, AfterContract, PublishType
  <2> QED BY <1>1, <1>2, <1>3, <1>4, <2>1, <2>2, <2>3, EndsKept
<1>5. CASE Then(s, ImportFirst(s)) /\ UNCHANGED <<mgr, view>>
  <2> DEFINE t == ImportFirst(s)
  <2>1. t \in Seq(Steps) /\ \A k \in 1 .. Len(t) : t[k].op = "import"
    BY ImportFirstType
  <2>2. \A k \in 1 .. Len(t) : Ordinary(t[k])
    BY <2>1 DEF Ordinary, Alone, Ends
  <2>3. view' \in [Sessions -> Views] /\ [ContractNext]_vars /\ EntersOnline(s)
    BY <1>5, StepFacts, QuietFacts
  <2>4. Then(s, t)
    BY <1>5
  <2> HIDE DEF t
  <2> QED BY <1>1, <1>2, <1>3, <2>1, <2>2, <2>3, <2>4, OrdinaryKept
<1> QED BY <1>4, <1>5 DEF EnsureManaged

\* runtimePartyDirectoryTarget
LEMMA DirectoryTargetKept ==
    ASSUME IInv, NEW s \in Sessions, DirectoryTarget(s)
    PROVE  Kept
<1> DEFINE x == Head(job[s])
           P == mgr.parties[x.party]
           y == [op |-> "meet", joiner |-> s, anchor |-> online[P.leader]]
<1>1. job[s] # <<>> /\ x.op = "target" /\ UNCHANGED directory /\ UNCHANGED town
      /\ UNCHANGED view /\ UNCHANGED got /\ UNCHANGED mgr
  BY DEF DirectoryTarget, Reached
<1>2. /\ x \in Steps /\ Ordinary(x) /\ x.party \in PartyIDs
      /\ ~ Parts(char[s], gen[s], x)
  BY <1>1, HeadStep, StepParts DEF Ordinary, Alone, Ends, Parts
<1>3. /\ view' \in [Sessions -> Views] /\ got' \in [Sessions -> 0 .. MaxPartyID]
      /\ [ContractNext]_vars /\ EntersOnline(s)
  BY <1>1, StepFacts, QuietFacts
<1>4. Then(s, <<>>) \/ (P # NoParty /\ online[P.leader] # NoSession /\ Then(s, <<y>>))
  BY DEF DirectoryTarget
<1>5. CASE P # NoParty /\ online[P.leader] # NoSession /\ Then(s, <<y>>)
  <2>1. P.leader \in Users
    BY <1>2, <1>5, StepFacts, GoodParts DEF PartyGood, PartyRec
  <2>2. online[P.leader] \in Sessions
    BY <1>5, <2>1, SpeakerType
  <2>3. y \in Steps /\ Ordinary(y)
    BY <2>2 DEF Steps, MeetSteps, Ordinary, Alone, Ends
  <2> HIDE DEF y
  <2> QED BY <1>1, <1>2, <1>3, <1>5, <2>3, TurnKept
<1>6. CASE Then(s, <<>>)
  BY <1>1, <1>2, <1>3, <1>6, EndsKept
<1> QED BY <1>4, <1>5, <1>6

\* createOrJoinManagedRuntimeParty begins.
LEMMA MeetKept ==
    ASSUME IInv, NEW s \in Sessions, Meet(s)
    PROVE  Kept
<1> DEFINE x == Head(job[s])
           j == x.joiner
           a == x.anchor
           y == [op |-> "import", of |-> a]
           z == [op |-> "seat", joiner |-> Identity(j), anchor |-> Identity(a)]
<1>1. job[s] # <<>> /\ x.op = "meet" /\ UNCHANGED directory /\ UNCHANGED town
      /\ UNCHANGED view /\ UNCHANGED got /\ UNCHANGED mgr
  BY DEF Meet, Reached
<1>2. /\ x \in Steps /\ Ordinary(x) /\ j \in Sessions /\ a \in Sessions
      /\ ~ Parts(char[s], gen[s], x)
  BY <1>1, HeadStep, StepParts DEF Ordinary, Alone, Ends, Parts
<1>3. /\ view' \in [Sessions -> Views] /\ got' \in [Sessions -> 0 .. MaxPartyID]
      /\ [ContractNext]_vars /\ EntersOnline(s)
  BY <1>1, StepFacts, QuietFacts
<1>4. Then(s, <<>>) \/ (Bound(j) /\ Bound(a) /\ Then(s, <<y, z>>))
  BY DEF Meet
<1>5. CASE Bound(j) /\ Bound(a) /\ Then(s, <<y, z>>)
  <2>1. Identity(j) \in Identities /\ Identity(a) \in Identities
    BY <1>2, <1>5, IdentityType DEF Bound
  <2>2. y \in Steps /\ y.op = "import"
    BY <1>2 DEF Steps, ImportSteps
  <2>3. z \in Steps /\ Ordinary(z)
    BY <2>1 DEF Steps, SeatSteps, Ordinary, Alone, Ends
  <2> HIDE DEF y, z
  <2>4. <<y>> \in Seq(Steps) /\ \A k \in 1 .. Len(<<y>>) : <<y>>[k].op = "import"
    BY <2>2
  <2>5. Then(s, <<y>> \o <<z>>)
    BY <1>5, PairConcat
  <2> QED BY <1>1, <1>2, <1>3, <2>3, <2>4, <2>5, TurnsKept
<1>6. CASE Then(s, <<>>)
  BY <1>1, <1>2, <1>3, <1>6, EndsKept
<1> QED BY <1>4, <1>5, <1>6

\* The anchor is seated; it speaks for its character and is settled.
LEMMA SeatAnchorKept ==
    ASSUME IInv, NEW s \in Sessions, SeatAnchor(s), ~ InWindow(s)
    PROVE  Kept
<1> DEFINE x == Head(job[s])
           i == x.joiner
           a == x.anchor
<1>1. job[s] # <<>> /\ x.op = "seat" /\ UNCHANGED directory /\ UNCHANGED town
      /\ UNCHANGED view /\ Returns(s, 0)
  BY DEF SeatAnchor, Reached
<1>2. /\ x \in Steps /\ Ordinary(x) /\ i \in Identities /\ a \in Identities
      /\ ~ Parts(char[s], gen[s], x)
  BY <1>1, HeadStep, StepParts DEF Ordinary, Alone, Ends, Parts
<1>3. /\ view' \in [Sessions -> Views] /\ got \in [Sessions -> 0 .. MaxPartyID]
      /\ got' \in [Sessions -> 0 .. MaxPartyID]
  BY <1>1, StepFacts, SizeAssumption DEF Returns
<1>4. a.user \in Users /\ a.gen \in Gens /\ i.session \in Sessions
  BY <1>2 DEF Identities
<1>5. Live(a) /\ ~ Unsettled(a.user)
  BY <1>1 DEF InWindow, Doubtful, Reached
<1>6. online[a.user] # NoSession /\ gen[online[a.user]] = a.gen
  BY <1>2, <1>5, SessionsAssumption DEF Live, Identities
<1>7. ASSUME NEW n \in Limits, mgr' = EnsureLeaderOp(mgr, a.user, a.gen, n),
             Then(s, IF IsLeader(mgr', a.user, a.gen)
                     THEN <<JoinStep(mgr'.byUser[a.user], i)>> ELSE <<>>)
      PROVE  Kept
  <2> DEFINE y == JoinStep(mgr'.byUser[a.user], i)
  <2>1. [ContractNext]_vars
    <3>1. EnsureLeader(a.user, a.gen)
      BY <1>7 DEF EnsureLeader
    <3> QED BY <1>4, <3>1, StepIsContract DEF Step
  <2>2. EntersOnline(s)
    <3>1. AddsOnly(mgr, mgr', a.user, gen[online[a.user]])
      BY <1>4, <1>6, <1>7, StepFacts, EnsureLeaderAdds
    <3> QED BY <1>4, <1>5, <1>6, <3>1, SpeakerEnters
  <2>3. CASE IsLeader(mgr', a.user, a.gen)
    <3>1. mgr'.byUser[a.user] \in PartyIDs
      BY <1>4, <2>1, <2>3, AfterContract
    <3>2. y \in Steps /\ Ordinary(y)
      BY <1>2, <3>1 DEF JoinStep, Steps, JoinSteps, Ordinary, Alone, Ends
    <3>3. Then(s, <<y>>)
      BY <1>7, <2>3
    <3> HIDE DEF y
    <3> QED BY <1>1, <1>2, <1>3, <2>1, <2>2, <3>2, <3>3, TurnKept
  <2>4. CASE ~ IsLeader(mgr', a.user, a.gen)
    <3>1. Then(s, <<>>)
      BY <1>7, <2>4
    <3> QED BY <1>1, <1>2, <1>3, <2>1, <2>2, <3>1, EndsKept
  <2> QED BY <2>3, <2>4
<1>8. CASE /\ got[s] # 0 /\ UNCHANGED mgr
           /\ Then(s, (IF ~ Current(mgr, i.user, i.gen) /\ view[i.session] # NoView
                       THEN <<[op |-> "import", of |-> i.session]>> ELSE <<>>)
                      \o <<JoinStep(got[s], i)>>)
  <2> DEFINE y == JoinStep(got[s], i)
             z == [op |-> "import", of |-> i.session]
             t == IF ~ Current(mgr, i.user, i.gen) /\ view[i.session] # NoView
                  THEN <<z>> ELSE <<>>
  <2>1. got[s] \in PartyIDs
    BY <1>3, <1>8, SizeAssumption DEF PartyIDs
  <2>2. y \in Steps /\ Ordinary(y)
    BY <1>2, <2>1 DEF JoinStep, Steps, JoinSteps, Ordinary, Alone, Ends
  <2>3. z \in Steps /\ z.op = "import"
    BY <1>4 DEF Steps, ImportSteps
  <2>4. Then(s, t \o <<y>>)
    BY <1>8
  <2> HIDE DEF y, z
  <2>5. <<z>> \in Seq(Steps) /\ \A k \in 1 .. Len(<<z>>) : <<z>>[k].op = "import"
    BY <2>3
  <2>6. <<>> \in Seq(Steps) /\ \A k \in 1 .. Len(<<>>) : <<>>[k].op = "import"
    OBVIOUS
  <2>7. t \in Seq(Steps) /\ \A k \in 1 .. Len(t) : t[k].op = "import"
    BY <2>5, <2>6
  <2>8. [ContractNext]_vars /\ EntersOnline(s)
    BY <1>8, QuietFacts
  <2> HIDE DEF t
  <2> QED BY <1>1, <1>2, <1>3, <2>2, <2>4, <2>7, <2>8, TurnsKept
<1> QED BY <1>7, <1>8 DEF SeatAnchor

\* The joiner joins; it speaks for its character and is settled.
LEMMA JoinAnchorKept ==
    ASSUME IInv, NEW s \in Sessions, JoinAnchor(s), ~ InWindow(s)
    PROVE  Kept
<1> DEFINE x == Head(job[s])
           p == x.party
           i == x.joiner
           left == IF Current(mgr, i.user, i.gen) THEN Rest(mgr, mgr', i.user) ELSE 0
<1>1. /\ job[s] # <<>> /\ x.op = "join" /\ UNCHANGED directory /\ UNCHANGED town
      /\ UNCHANGED got /\ Then(s, <<>>)
      /\ mgr' = IF got[s] = p THEN mgr ELSE JoinOp(mgr, p, i.user, i.gen)
      /\ view' = IF mgr' = mgr
                 THEN (IF got[s] = p THEN Publish(view, mgr, p) ELSE view)
                 ELSE Publish(PublishMembership(view, mgr', left), mgr', p)
  BY DEF JoinAnchor, Reached
<1>2. /\ x \in Steps /\ Ordinary(x) /\ p \in PartyIDs /\ i \in Identities
      /\ ~ Parts(char[s], gen[s], x)
  BY <1>1, HeadStep, StepParts DEF Ordinary, Alone, Ends, Parts
<1>3. i.user \in Users /\ i.gen \in Gens /\ i.session \in Sessions
      /\ p \in 0 .. MaxPartyID /\ 0 \in 0 .. MaxPartyID
  BY <1>2, SizeAssumption DEF Identities, PartyIDs
<1>4. Live(i) /\ ~ Unsettled(i.user)
  BY <1>1 DEF InWindow, Doubtful, Reached
<1>5. online[i.user] # NoSession /\ gen[online[i.user]] = i.gen
  BY <1>3, <1>4, SessionsAssumption DEF Live
<1>6. [ContractNext]_vars /\ EntersOnline(s)
  <2>1. CASE got[s] = p
    BY <1>1, <2>1, QuietFacts
  <2>2. CASE got[s] # p
    <3>1. mgr' = JoinOp(mgr, p, i.user, i.gen)
      BY <1>1, <2>2
    <3>2. CurrentIdentity(i.user, i.gen) /\ Join(i.user, i.gen)
      BY <1>2, <1>3, <1>4, <1>5, <3>1, SettledIdentity DEF Join
    <3>3. [ContractNext]_vars
      BY <1>3, <3>2 DEF ContractNext
    <3>4. AddsOnly(mgr, mgr', i.user, gen[online[i.user]])
      BY <1>2, <1>3, <1>5, <3>1, StepFacts, JoinAdds
    <3> QED BY <1>3, <1>4, <1>5, <3>3, <3>4, SpeakerEnters
  <2> QED BY <2>1, <2>2
<1>7. view' \in [Sessions -> Views]
  <2>1. mgr' \in ManagerRec /\ mgr \in ManagerRec /\ view \in [Sessions -> Views]
    BY <1>6, StepFacts, AfterContract
  <2>2. left \in 0 .. MaxPartyID
    BY <1>3, <2>1, RestType
  <2> HIDE DEF left, p, i, x
  <2>3. PublishMembership(view, mgr', left) \in [Sessions -> Views]
    BY <2>1, <2>2, PublishType
  <2>4. Publish(PublishMembership(view, mgr', left), mgr', p) \in [Sessions -> Views]
    BY <1>3, <2>1, <2>3, PublishType
  <2>5. Publish(view, mgr, p) \in [Sessions -> Views]
    BY <1>3, <2>1, PublishType
  <2> QED BY <1>1, <2>1, <2>4, <2>5
<1>8. got' \in [Sessions -> 0 .. MaxPartyID]
  BY <1>1, StepFacts
<1> QED BY <1>1, <1>2, <1>6, <1>7, <1>8, EndsKept

\* A session that speaks for a character and awaits no party has it in the
\* manager under its own generation or not at all.
LEMMA BoundKnown ==
    ASSUME IInv, NEW s \in Sessions, Bound(s), ~ Awaits(s), NEW h,
           Known(mgr, char[s], h)
    PROVE  h = gen[s] /\ Current(mgr, char[s], gen[s])
<1>1. char[s] \in Users /\ online[char[s]] = s
  BY BoundParts
<1>2. h = gen[s]
  BY <1>1 DEF IInv, JobsOK, SettledOK
<1> QED BY <1>1, <1>2, CurrentIsKnown DEF IInv

\* leaveManagedRuntimeParty checks the identity.
LEMMA LeaveChecksKept ==
    ASSUME IInv, NEW s \in Sessions, LeaveChecks(s)
    PROVE  Kept
<1> DEFINE x == Head(job[s])
           y == [op |-> "leave", who |-> Identity(s), must |-> TRUE]
<1>1. /\ job[s] # <<>> /\ x.op = "check" /\ UNCHANGED directory /\ UNCHANGED town
      /\ UNCHANGED got /\ UNCHANGED mgr
      /\ view' = IF Bound(s) THEN view ELSE [view EXCEPT ![s] = NoView]
      /\ Then(s, IF Bound(s) THEN LeaveSteps(s, TRUE) ELSE <<>>)
  BY DEF LeaveChecks, Reached
<1>2. x \in Steps /\ Ordinary(x) /\ char[s] \in Users
  BY <1>1, HeadStep DEF Ordinary, Alone, Ends
<1>3. /\ view' \in [Sessions -> Views] /\ got' \in [Sessions -> 0 .. MaxPartyID]
      /\ [ContractNext]_vars /\ EntersOnline(s)
  BY <1>1, StepFacts, QuietFacts DEF Views
<1>4. CASE Bound(s)
  <2>1. Identity(s) \in Identities /\ Identity(s).user = char[s] /\ Identity(s).gen = gen[s]
    BY <1>2, IdentityType, SessionsAssumption
  <2>2. y \in Steps /\ Ordinary(y) /\ Parts(char[s], gen[s], y)
    BY <2>1 DEF Steps, LeavingSteps, Ordinary, Alone, Ends, Parts
  <2>3. Then(s, ImportFirst(s) \o <<y>>)
    BY <1>1, <1>4 DEF LeaveSteps
  <2> HIDE DEF y
  <2> QED BY <1>1, <1>2, <1>3, <2>2, <2>3, ImportFirstType, TurnsKept
<1>5. CASE ~ Bound(s)
  <2>1. Then(s, <<>>)
    BY <1>1, <1>5
  <2> QED BY <1>1, <1>2, <1>3, <1>5, <2>1, EndsKept
<1> QED BY <1>4, <1>5

\* leaveManagedRuntimeParty calls the manager; afterwards nobody lists the
\* character of a session that goes on to give it up.
LEMMA LeaveRunsKept ==
    ASSUME IInv, NEW s \in Sessions, LeaveRuns(s)
    PROVE  Kept
<1> DEFINE x == Head(job[s])
           i == x.who
           c == char[s]
<1>1. /\ job[s] # <<>> /\ x.op = "leave" /\ UNCHANGED directory /\ UNCHANGED town
      /\ UNCHANGED got /\ Then(s, <<>>)
  BY DEF LeaveRuns, Reached
<1>2. x \in Steps /\ Ordinary(x) /\ c \in Users /\ i \in Identities
  BY <1>1, HeadStep, StepParts DEF Ordinary, Alone, Ends
<1>3. i.user \in Users /\ i.gen \in Gens
  BY <1>2 DEF Identities
<1>4. got' \in [Sessions -> 0 .. MaxPartyID] /\ view \in [Sessions -> Views]
  BY <1>1, StepFacts
<1>5. Parts(c, gen[s], x) => i.user = c /\ i.gen = gen[s]
  BY <1>1 DEF Parts
<1>6. ~ Awaits(s)
  BY <1>1 DEF Awaits, Reached
<1>7. CASE Current(mgr, i.user, i.gen)
  <2>1. /\ mgr' = LeaveLocked(mgr, i.user, i.gen)
        /\ view' = PublishMembership(ClearView(view, i.user, i.gen), mgr',
                                     Rest(mgr, mgr', i.user))
    BY <1>7 DEF LeaveRuns
  <2>2. [ContractNext]_vars
    <3>1. Leave(i.user, i.gen)
      BY <2>1 DEF Leave
    <3> QED BY <1>3, <3>1, StepIsContract DEF Step
  <2>3. AddsNobody(mgr, mgr') /\ \A h : ~ Known(mgr', i.user, h)
    BY <1>3, <1>7, <2>1, StepFacts, LeaveAdds
  <2>4. view' \in [Sessions -> Views]
    BY <1>4, <2>1, <2>2, AfterContract, ClearViewType, RestType, PublishType
  <2>5. EntersOnline(s)
    BY <2>3, NobodyEnters
  <2> QED BY <1>1, <1>2, <1>4, <1>5, <2>2, <2>3, <2>4, <2>5, EndsKept
<1>8. CASE ~ Current(mgr, i.user, i.gen)
  <2>1. /\ UNCHANGED mgr
        /\ view' = IF x.must THEN [view EXCEPT ![s] = NoView]
                   ELSE ClearView(view, i.user, i.gen)
    BY <1>8 DEF LeaveRuns
  <2>2. view' \in [Sessions -> Views]
    BY <1>4, <2>1, ClearViewType DEF Views
  <2>3. Bound(s) /\ Parts(c, gen[s], x) => \A h : ~ Known(mgr', c, h)
    BY <1>5, <1>6, <1>8, <2>1, BoundKnown
  <2> QED BY <1>1, <1>2, <1>4, <2>1, <2>2, <2>3, QuietFacts, EndsKept
<1> QED BY <1>7, <1>8

\* detachRuntimePartySession
LEMMA DetachKept ==
    ASSUME IInv, NEW s \in Sessions, Detach(s)
    PROVE  Kept
<1> DEFINE x == Head(job[s])
           y == Do("check")
<1>1. /\ job[s] # <<>> /\ x.op = "detach" /\ UNCHANGED directory /\ UNCHANGED town
      /\ UNCHANGED got /\ UNCHANGED mgr /\ UNCHANGED view
      /\ Then(s, IF Bound(s) /\ (Managed(s) \/ view[s] # NoView)
                 THEN ImportFirst(s) \o <<y>> ELSE <<>>)
  BY DEF Detach, Reached
<1>2. x \in Steps /\ Ordinary(x) /\ char[s] \in Users
  BY <1>1, HeadStep DEF Ordinary, Alone, Ends
<1>3. /\ view' \in [Sessions -> Views] /\ got' \in [Sessions -> 0 .. MaxPartyID]
      /\ [ContractNext]_vars /\ EntersOnline(s)
  BY <1>1, StepFacts, QuietFacts
<1>4. CASE Bound(s) /\ (Managed(s) \/ view[s] # NoView)
  <2>1. y \in Steps /\ Ordinary(y) /\ Parts(char[s], gen[s], y)
    BY DEF Do, Steps, PlainSteps, Ordinary, Alone, Ends, Parts
  <2>2. Then(s, ImportFirst(s) \o <<y>>)
    BY <1>1, <1>4
  <2> HIDE DEF y
  <2> QED BY <1>1, <1>2, <1>3, <2>1, <2>2, ImportFirstType, TurnsKept
<1>5. CASE ~ (Bound(s) /\ (Managed(s) \/ view[s] # NoView))
  <2>1. Then(s, <<>>)
    BY <1>1, <1>5
  <2>2. ~ Awaits(s) /\ char[s] # NoUser
    BY <1>1, <1>2, SessionsAssumption DEF Awaits, Reached
  <2>3. Bound(s) => \A h : ~ Known(mgr', char[s], h)
    BY <1>1, <1>5, <2>2, BoundKnown DEF Managed
  <2> QED BY <1>1, <1>2, <1>3, <2>1, <2>3, EndsKept
<1> QED BY <1>4, <1>5

\* Kick and TransferLeader are addressed by the generation the party lists.
LEMMA LedParty ==
    ASSUME IInv, NEW u \in Users, NEW g, IsLeader(mgr, u, g), NEW v,
           Lists(mgr, mgr.byUser[u], v)
    PROVE  /\ mgr.byUser[u] \in PartyIDs /\ v \in Users
           /\ Member(mgr.parties[mgr.byUser[u]], v).gen \in Gens
<1>1. mgr.byUser[u] \in PartyIDs
  BY StepFacts, InPartyParts DEF IsLeader, Current
<1> QED BY <1>1, StepFacts, ListedGen

\* handleOnlineWalkoutPartyMember
LEMMA KickRunsKept ==
    ASSUME IInv, NEW s \in Sessions, KickRuns(s)
    PROVE  Kept
<1> DEFINE x == Head(job[s])
           v == x.target
           p == mgr.byUser[char[s]]
           h == Member(mgr.parties[p], v).gen
<1>1. job[s] # <<>> /\ x.op = "kick" /\ UNCHANGED directory /\ UNCHANGED town
      /\ UNCHANGED got /\ Then(s, <<>>)
  BY DEF KickRuns, Reached
<1>2. x \in Steps /\ Ordinary(x) /\ char[s] \in Users /\ ~ Parts(char[s], gen[s], x)
  BY <1>1, HeadStep DEF Ordinary, Alone, Ends, Parts
<1>3. got' \in [Sessions -> 0 .. MaxPartyID] /\ gen[s] \in Gens /\ p \in 0 .. MaxPartyID
      /\ view \in [Sessions -> Views]
  BY <1>1, <1>2, StepFacts DEF IInv, DirectoryTypes
<1>4. CASE IsLeader(mgr, char[s], gen[s]) /\ Lists(mgr, p, v)
  <2>1. /\ mgr' = KickOp(mgr, char[s], gen[s], v, h)
        /\ view' = ClearView(PublishMembership(view, mgr', p), v, h)
    BY <1>4 DEF KickRuns
  <2>2. v \in Users /\ h \in Gens
    BY <1>2, <1>4, LedParty
  <2> HIDE DEF v, h, p, x
  <2>3. [ContractNext]_vars
    <3>1. Kick(char[s], gen[s])
      BY <2>1, <2>2 DEF Kick
    <3> QED BY <1>2, <1>3, <3>1, StepIsContract DEF Step
  <2>4. EntersOnline(s)
    BY <1>2, <2>1, <2>2, StepFacts, KickAdds, NobodyEnters
  <2>5. view' \in [Sessions -> Views]
    BY <1>3, <2>1, <2>3, AfterContract, PublishType, ClearViewType
  <2> QED BY <1>1, <1>2, <1>3, <2>3, <2>4, <2>5, EndsKept DEF x
<1>5. CASE ~ (IsLeader(mgr, char[s], gen[s]) /\ Lists(mgr, p, v))
  <2>1. UNCHANGED <<mgr, view>>
    BY <1>5 DEF KickRuns
  <2> QED BY <1>1, <1>2, <1>3, <2>1, QuietFacts, EndsKept
<1> QED BY <1>4, <1>5

\* handleOnlineChangePartyHost
LEMMA TransferRunsKept ==
    ASSUME IInv, NEW s \in Sessions, TransferRuns(s)
    PROVE  Kept
<1> DEFINE x == Head(job[s])
           v == x.target
           p == mgr.byUser[char[s]]
           h == Member(mgr.parties[p], v).gen
<1>1. job[s] # <<>> /\ x.op = "transfer" /\ UNCHANGED directory /\ UNCHANGED town
      /\ UNCHANGED got /\ Then(s, <<>>)
  BY DEF TransferRuns, Reached
<1>2. x \in Steps /\ Ordinary(x) /\ char[s] \in Users /\ ~ Parts(char[s], gen[s], x)
  BY <1>1, HeadStep DEF Ordinary, Alone, Ends, Parts
<1>3. got' \in [Sessions -> 0 .. MaxPartyID] /\ gen[s] \in Gens
      /\ view \in [Sessions -> Views]
  BY <1>1, <1>2, StepFacts DEF IInv, DirectoryTypes
<1>4. CASE IsLeader(mgr, char[s], gen[s]) /\ Lists(mgr, p, v)
  <2>1. /\ mgr' = TransferLeaderOp(mgr, char[s], gen[s], v, h)
        /\ view' = Publish(view, mgr', mgr'.byUser[v])
    BY <1>4 DEF TransferRuns
  <2>2. v \in Users /\ h \in Gens
    BY <1>2, <1>4, LedParty
  <2> HIDE DEF v, h, p, x
  <2>3. [ContractNext]_vars
    <3>1. TransferLeader(char[s], gen[s])
      BY <2>1, <2>2 DEF TransferLeader
    <3> QED BY <1>2, <1>3, <3>1, StepIsContract DEF Step
  <2>4. EntersOnline(s)
    BY <1>2, <2>1, <2>2, StepFacts, TransferLeaderAdds, NobodyEnters
  <2>5. view' \in [Sessions -> Views]
    BY <1>3, <2>1, <2>2, <2>3, AfterContract, PublishType
  <2> QED BY <1>1, <1>2, <1>3, <2>3, <2>4, <2>5, EndsKept DEF x
<1>5. CASE ~ (IsLeader(mgr, char[s], gen[s]) /\ Lists(mgr, p, v))
  <2>1. UNCHANGED <<mgr, view>>
    BY <1>5 DEF TransferRuns
  <2> QED BY <1>1, <1>2, <1>3, <2>1, QuietFacts, EndsKept
<1> QED BY <1>4, <1>5

-----------------------------------------------------------------------------
(* Steps that stand alone or come last *)

\* A handler that has nothing left.
LEMMA EmptyHandler ==
    ASSUME NEW c, NEW g
    PROVE  <<>> \in Seq(Steps) /\ HandlerOK(<<>>, c, g)
<1>1. <<>> \in Seq(Steps) /\ \A k \in 1 .. Len(<<>>) : Ordinary(<<>>[k])
  OBVIOUS
<1> QED BY <1>1, OrdinaryHandler

\* The session in town is read.
LEMMA BindReadsKept ==
    ASSUME IInv, NEW s \in Sessions, BindReads(s)
    PROVE  Kept
<1> DEFINE x == Head(job[s])
           c == x.user
           other == {town[c]} \ {NoSession, s}
           y == [op |-> "publish", user |-> c, resident |-> other,
                 saved |-> {view[t] : t \in other}]
<1>1. /\ job[s] # <<>> /\ x.op = "bind" /\ Then(s, <<y>>) /\ UNCHANGED directory
      /\ UNCHANGED town /\ UNCHANGED got /\ UNCHANGED mgr /\ UNCHANGED view
  BY DEF BindReads, Reached
<1>2. x \in Steps /\ c \in Users /\ ~ Ordinary(x)
  BY <1>1, HeadStep, StepParts DEF Ordinary, Ends
<1>3. other \in SUBSET Sessions
  BY <1>2 DEF IInv, HandlerTypes
<1>4. {view[t] : t \in other} \in SUBSET Views
  BY <1>3, StepFacts
<1>5. y \in Steps
  BY <1>2, <1>3, <1>4 DEF Steps, PublishSteps
<1>6. /\ y.op = "publish" /\ y.user = c
      /\ y.resident # {} => y.saved # {}
  OBVIOUS
<1> HIDE DEF y
<1>7. /\ <<y>> \in Seq(Steps) /\ HandlerOK(<<y>>, char[s], gen[s])
      /\ <<y>> # <<>> /\ Head(<<y>>) = y
  BY <1>5, <1>6, SingleHandler
<1>8. job' = [job EXCEPT ![s] = <<y>>]
  BY <1>1, <1>2, <1>7, ThenLast
<1>9. ~ Awaits(s) /\ EntersOnline(s)
  BY <1>1, QuietFacts DEF Awaits, Reached
<1>10. Bound(s) /\ GivesUp(char[s], y) => \A h : ~ Known(mgr', char[s], h)
  <2>1. GivesUp(char[s], y) => GivesUp(char[s], x)
    BY <1>1, <1>6 DEF GivesUp
  <2> QED BY <1>1, <2>1 DEF IInv, JobsOK, GoneOK
<1>11. char' = char /\ gen' = gen /\ online' = online
  BY <1>1 DEF directory
<1>12. JobsOK'
  BY <1>6, <1>7, <1>8, <1>9, <1>10, <1>11, HandlerStep
<1>13. HandlerTypes'
  BY <1>1, <1>7, <1>8 DEF IInv, HandlerTypes
<1> QED BY <1>1, <1>12, <1>13, ClosesQuietly

\* rebindManagedRuntimePartySession: the replacement reads whom it replaced.
LEMMA RebindKept ==
    ASSUME IInv, NEW s \in Sessions, Rebind(s), ~ InWindow(s)
    PROVE  Kept
<1> DEFINE x == Head(job[s])
           t == x.prev
           c == char[s]
           y == [op |-> "renew", was |-> gen[t]]
<1>1. /\ job[s] # <<>> /\ x.op = "rebind" /\ UNCHANGED directory /\ UNCHANGED town
      /\ UNCHANGED got /\ UNCHANGED mgr /\ UNCHANGED view /\ Reached(s, "rebind")
      /\ Then(s, IF Rebound(s, t) THEN <<y>> ELSE <<>>)
  BY DEF Rebind, Reached
<1>2. x \in Steps /\ t \in Sessions /\ x.was \in Gens /\ ~ Ordinary(x)
  BY <1>1, HeadStep, StepParts DEF Ordinary, Alone
<1>3. c \in Users /\ gen[s] \in Gens /\ gen[t] \in Gens
  BY <1>1, <1>2 DEF IInv, DirectoryTypes, JobsOK, BlankOK
<1>4. gen[t] = x.was
  BY <1>1 DEF InWindow
<1>5. char[t] = c
  BY <1>1, <1>4 DEF IInv, JobsOK, RebindsOK
<1>6. char' = char /\ gen' = gen /\ online' = online /\ EntersOnline(s)
  BY <1>1, QuietFacts DEF directory
<1>7. y \in Steps /\ y.op = "renew" /\ y.was = x.was
  BY <1>3, <1>4 DEF Steps, RenewSteps
<1> HIDE DEF y
<1>8. CASE ~ Bound(s)
  <2>1. Then(s, <<>>)
    BY <1>1, <1>8 DEF Rebound
  <2>2. job' = [job EXCEPT ![s] = <<>>]
    BY <1>1, <1>2, <2>1, EmptyHandler, ThenLast
  <2>3. JobsOK'
    BY <1>6, <1>8, <2>2, EmptyHandler, HandlerStep
  <2>4. HandlerTypes'
    BY <1>1, <2>2, EmptyHandler DEF IInv, HandlerTypes
  <2> QED BY <1>1, <2>3, <2>4, ClosesQuietly
<1>9. CASE Bound(s)
  <2> DEFINE q == <<y>>
  <2>1. Then(s, q)
    BY <1>1, <1>5, <1>9 DEF Rebound
  <2>2. q \in Seq(Steps) /\ HandlerOK(q, c, gen[s]) /\ q # <<>> /\ Head(q) = y
    BY <1>7, SingleHandler
  <2> HIDE DEF q
  <2>3. job' = [job EXCEPT ![s] = q]
    BY <1>1, <1>2, <2>1, <2>2, ThenLast
  <2>4. online[c] = s /\ online[c] # NoSession /\ c # NoUser
    BY <1>3, <1>9, BoundParts, SessionsAssumption
  <2>5. ASSUME NEW h, Known(mgr', c, h) PROVE h = gen[s] \/ Head(q).was = h
    BY <1>1, <1>3, <1>7, <2>2, <2>4, <2>5 DEF IInv, JobsOK, SettledOK
  <2>6. ~ GivesUp(c, Head(q)) /\ Head(q).op = "renew"
    BY <1>7, <2>2 DEF GivesUp
  <2>7. JobsOK'
    BY <1>6, <1>9, <2>2, <2>3, <2>4, <2>5, <2>6, HandlerStep
  <2>8. HandlerTypes'
    BY <1>1, <2>2, <2>3 DEF IInv, HandlerTypes
  <2> QED BY <1>1, <2>7, <2>8, ClosesQuietly
<1> QED BY <1>8, <1>9

\* The replacement takes the party over.
LEMMA RenewKept ==
    ASSUME IInv, NEW s \in Sessions, Renew(s)
    PROVE  Kept
<1> DEFINE x == Head(job[s])
           old == x.was
           c == char[s]
           y == [op |-> "import", of |-> s]
<1>1. job[s] # <<>> /\ x.op = "renew" /\ UNCHANGED directory /\ UNCHANGED town
      /\ UNCHANGED got /\ Reached(s, "renew")
  BY DEF Renew, Reached
<1>2. x \in Steps /\ old \in Gens /\ ~ Ordinary(x)
  BY <1>1, HeadStep, StepParts DEF Ordinary, Alone
<1>3. c \in Users /\ gen[s] \in Gens /\ Bound(s)
  BY <1>1 DEF IInv, DirectoryTypes, JobsOK, BlankOK, RenewsOK
<1>4. char' = char /\ gen' = gen /\ online' = online /\ DirectoryTypes'
  BY <1>1 DEF directory, IInv, DirectoryTypes
<1>5. y \in Steps /\ y.op = "import"
  BY DEF Steps, ImportSteps
<1> HIDE DEF y
<1>6. /\ <<y>> \in Seq(Steps) /\ HandlerOK(<<y>>, c, gen[s]) /\ Head(<<y>>) = y
      /\ <<>> \in Seq(Steps) /\ HandlerOK(<<>>, c, gen[s])
  BY <1>5, SingleHandler, EmptyHandler
<1>7. mgr' = RebindSessionOp(mgr, c, old, gen[s])
  BY DEF Renew, Renewed
<1>8. \/ Current(mgr, c, old) /\ view' = Publish(view, mgr', mgr.byUser[c]) /\ Then(s, <<>>)
      \/ Then(s, <<y>>) /\ UNCHANGED view
  BY DEF Renew, y
<1>9. PICK q \in {<<>>, <<y>>} : Then(s, q)
  BY <1>8
<1>10. job' = [job EXCEPT ![s] = q] /\ q \in Seq(Steps) /\ HandlerOK(q, c, gen[s])
       /\ (q # <<>> => Head(q) = y)
  BY <1>1, <1>2, <1>6, <1>9, ThenLast
<1>11. [ContractNext]_vars
  <2>1. RebindSession(c, gen[s])
    BY <1>2, <1>3, <1>7 DEF RebindSession
  <2> QED BY <1>3, <2>1, StepIsContract DEF Step
<1>12. /\ AddsOnly(mgr, mgr', c, gen[s])
       /\ Current(mgr, c, old) => \A h : Known(mgr', c, h) => h = gen[s]
  BY <1>3, <1>7, StepFacts, RebindAdds
<1>13. online[c] = s /\ online[c] # NoSession
  BY <1>3, BoundParts
<1>14. EntersOnline(s)
  BY <1>3, <1>12, <1>13, SpeakerEnters
<1>15. ASSUME NEW h, Known(mgr', c, h) PROVE h = gen[s]
  <2>1. CASE Current(mgr, c, old)
    BY <1>12, <1>15, <2>1
  <2>2. CASE ~ Current(mgr, c, old)
    <3>1. ~ Known(mgr, c, old)
      BY <1>3, <2>2, StepFacts, CurrentIsKnown
    <3>2. Known(mgr, c, h) => h = gen[s]
      BY <1>1, <1>3, <1>13, <3>1 DEF IInv, JobsOK, SettledOK
    <3> QED BY <1>3, <1>12, <1>15, <3>2 DEF AddsOnly
  <2> QED BY <2>1, <2>2
<1>16. c # NoUser /\ (q # <<>> => ~ GivesUp(c, Head(q)) /\ Head(q).op \notin {"rebind", "renew"})
  BY <1>3, <1>5, <1>10, SessionsAssumption DEF GivesUp
<1>17. JobsOK'
  BY <1>4, <1>10, <1>14, <1>15, <1>16, HandlerStep
<1>18. view' \in [Sessions -> Views]
  BY <1>3, <1>8, <1>11, StepFacts, AfterContract, PublishType
<1>19. HandlerTypes'
  BY <1>1, <1>10, <1>18 DEF IInv, HandlerTypes
<1> QED BY <1>4, <1>11, <1>17, <1>19, Closes

-----------------------------------------------------------------------------
(* Steps that change the directory *)

\* A step of s that changes the directory and no party.  Nobody else's
\* character or generation changes, nobody else comes to speak for a
\* character, and every generation listed is that of the session that speaks
\* or the one it is to take over.
LEMMA DirectoryStep ==
    ASSUME IInv, NEW s \in Sessions, NEW q \in Seq(Steps), job' = [job EXCEPT ![s] = q],
           mgr' = mgr, DirectoryTypes',
           \A t \in Sessions \ {s} : char'[t] = char[t] /\ gen'[t] = gen[t],
           gen[s] <= gen'[s], gen'[s] = gen[s] => char'[s] = char[s],
           HandlerOK(q, char'[s], gen'[s]),
           char'[s] = NoUser => q = <<>>,
           q # <<>> => ~ GivesUp(char'[s], Head(q)),
           q # <<>> /\ Head(q).op = "rebind" =>
               Head(q).was = gen'[Head(q).prev] /\ char'[Head(q).prev] = char'[s],
           \A u \in Users : online'[u] \in {s, NoSession} \/ online'[u] = online[u],
           \A u \in Users : online'[u] = s => char'[s] = u,
           q # <<>> => Head(q).op # "renew",
           \A t \in Sessions \ {s} : Bound(t) /\ Reached(t, "renew")
               => online'[char[t]] = t,
           \A u \in Users : \A h : Known(mgr, u, h) =>
               /\ online'[u] # NoSession
               /\ online'[u] = s => \/ h = gen'[s]
                                    \/ q # <<>> /\ Head(q).op = "rebind" /\ Head(q).was = h
    PROVE  JobsOK'
<1>1. /\ job \in [Sessions -> Seq(Steps)] /\ job'[s] = q
      /\ \A t \in Sessions : t # s => job'[t] = job[t]
      /\ online \in [Users -> Sessions \cup {NoSession}]
      /\ NoSession \notin Sessions /\ char \in [Sessions -> Users \cup {NoUser}]
      /\ gen \in [Sessions -> Gens] /\ gen' \in [Sessions -> Gens]
  BY SessionsAssumption DEF IInv, HandlerTypes, DirectoryTypes
<1>2. HandlersOK'
  BY <1>1 DEF IInv, JobsOK, HandlersOK
<1>3. BlankOK'
  BY <1>1 DEF IInv, JobsOK, BlankOK
<1>4. SpeakersOK'
  <2> SUFFICES ASSUME NEW u \in Users, online'[u] # NoSession PROVE char'[online'[u]] = u
    BY DEF SpeakersOK
  <2>1. CASE online'[u] = s
    BY <2>1
  <2>2. CASE online'[u] # s
    <3>1. online'[u] = online[u] /\ online[u] \in Sessions \ {s}
      BY <1>1, <2>2
    <3>2. char[online[u]] = u
      BY <3>1, <1>1 DEF IInv, JobsOK, SpeakersOK
    <3> QED BY <3>1, <3>2
  <2> QED BY <2>1, <2>2
<1>5. RebindsOK'
  <2> SUFFICES ASSUME NEW t \in Sessions, job'[t] # <<>>, Head(job'[t]).op = "rebind"
               PROVE  /\ Head(job'[t]).was <= gen'[Head(job'[t]).prev]
                      /\ Head(job'[t]).was = gen'[Head(job'[t]).prev]
                            => char'[Head(job'[t]).prev] = char'[t]
    BY DEF RebindsOK, Reached
  <2>1. \A g \in Gens : g \in Nat
    BY SessionsAssumption
  <2>2. CASE t = s
    <3>1. Head(q) \in Steps /\ Head(q).prev \in Sessions /\ Head(q).was \in Gens
          /\ Head(q).was = gen'[Head(q).prev] /\ char'[Head(q).prev] = char'[s]
      BY <1>1, <2>2, StepParts
    <3> QED BY <1>1, <2>1, <2>2, <3>1
  <2>3. CASE t # s
    <3> DEFINE x == Head(job[t])
    <3>1. job'[t] = job[t] /\ job[t] # <<>> /\ x.op = "rebind" /\ Reached(t, "rebind")
      BY <1>1, <2>3 DEF Reached
    <3>2. x \in Steps /\ x.prev \in Sessions /\ x.was \in Gens
      BY <3>1, HeadStep, StepParts
    <3>3. /\ x.was <= gen[x.prev]
          /\ x.was = gen[x.prev] => char[x.prev] = char[t]
      BY <3>1 DEF IInv, JobsOK, RebindsOK
    <3>4. char'[t] = char[t]
      BY <2>3
    <3> HIDE DEF x
    <3>5. CASE x.prev # s
      <4>1. gen'[x.prev] = gen[x.prev] /\ char'[x.prev] = char[x.prev]
        BY <3>2, <3>5
      <4> QED BY <3>1, <3>3, <3>4, <4>1 DEF x
    <3>6. CASE x.prev = s
      <4>1. x.was \in Nat /\ gen[s] \in Nat /\ gen'[s] \in Nat
        BY <1>1, <2>1, <3>2
      <4>2. x.was <= gen'[s] /\ (x.was = gen'[s] => gen'[s] = gen[s] /\ x.was = gen[s])
        BY <3>3, <3>6, <4>1
      <4> QED BY <3>1, <3>3, <3>4, <3>6, <4>2 DEF x
    <3> QED BY <3>5, <3>6
  <2> QED BY <2>2, <2>3
<1>6. RenewsOK'
  <2> SUFFICES ASSUME NEW t \in Sessions, job'[t] # <<>>, Head(job'[t]).op = "renew"
               PROVE  Bound(t)'
    BY DEF RenewsOK, Reached
  <2>1. t # s /\ job'[t] = job[t] /\ char'[t] = char[t]
    BY <1>1
  <2>2. Bound(t) /\ Reached(t, "renew")
    BY <2>1 DEF IInv, JobsOK, RenewsOK, Reached
  <2>3. online'[char[t]] = t
    BY <2>1, <2>2
  <2> QED BY <2>1, <2>2, <2>3 DEF Bound
<1>7. SettledOK'
  <2> SUFFICES ASSUME NEW u \in Users, NEW h, Known(mgr, u, h)
               PROVE  /\ online'[u] # NoSession
                      /\ \/ h = gen'[online'[u]]
                         \/ /\ job'[online'[u]] # <<>>
                            /\ Head(job'[online'[u]]).op \in {"rebind", "renew"}
                            /\ Head(job'[online'[u]]).was = h
    BY DEF SettledOK, Awaits, Reached
  <2>1. online'[u] # NoSession
    OBVIOUS
  <2>2. CASE online'[u] = s
    BY <1>1, <2>1, <2>2
  <2>3. CASE online'[u] # s
    <3>1. online'[u] = online[u] /\ online[u] \in Sessions \ {s}
      BY <1>1, <2>1, <2>3
    <3>2. \/ h = gen[online[u]]
          \/ /\ job[online[u]] # <<>>
             /\ Head(job[online[u]]).op \in {"rebind", "renew"}
             /\ Head(job[online[u]]).was = h
      BY DEF IInv, JobsOK, SettledOK, Awaits, Reached
    <3>3. gen'[online[u]] = gen[online[u]] /\ job'[online[u]] = job[online[u]]
      BY <1>1, <3>1
    <3> QED BY <2>1, <3>1, <3>2, <3>3
  <2> QED BY <2>2, <2>3
<1>8. GoneOK'
  <2> SUFFICES ASSUME NEW t \in Sessions, Bound(t)', job'[t] # <<>>,
                      GivesUp(char'[t], Head(job'[t])), NEW h, Known(mgr, char'[t], h)
               PROVE  FALSE
    BY DEF GoneOK
  <2>1. t # s
    BY <1>1
  <2>2. job'[t] = job[t] /\ char'[t] = char[t] /\ char[t] # NoUser /\ online'[char[t]] = t
    BY <1>1, <2>1 DEF Bound
  <2>3. char[t] \in Users /\ online[char[t]] = t
    BY <1>1, <2>1, <2>2
  <2>4. Bound(t)
    BY <2>2, <2>3 DEF Bound
  <2> QED BY <2>2, <2>4 DEF IInv, JobsOK, GoneOK
<1> QED BY <1>2, <1>3, <1>4, <1>5, <1>6, <1>7, <1>8 DEF JobsOK

\* A step of the directory closes the invariant.
LEMMA DirectoryKept ==
    ASSUME IInv, NEW s \in Sessions, NEW q \in Seq(Steps), job' = [job EXCEPT ![s] = q],
           UNCHANGED mgr, UNCHANGED town, UNCHANGED got, view' \in [Sessions -> Views],
           DirectoryTypes', JobsOK'
    PROVE  Kept
<1>1. HandlerTypes'
  BY DEF IInv, HandlerTypes
<1>2. [ContractNext]_vars
  BY DEF vars
<1> QED BY <1>1, <1>2, Closes

\* The session's own entry goes away; nobody lists its character any more.
LEMMA DroppedFacts ==
    ASSUME IInv, NEW s \in Sessions
    PROVE  /\ Dropped(s) \in [Users -> Sessions \cup {NoSession}]
           /\ \A u \in Users : Dropped(s)[u] = IF online[u] = s THEN NoSession ELSE online[u]
           /\ \A u \in Users : Dropped(s)[u] # s
<1>1. online \in [Users -> Sessions \cup {NoSession}] /\ NoSession # s
  BY SessionsAssumption DEF IInv, DirectoryTypes
<1>2. \A u \in Users : online[u] = s => char[s] = u
  BY <1>1 DEF IInv, JobsOK, SpeakersOK
<1> QED BY <1>1, <1>2 DEF Dropped

\* Whoever is listed still has a session that speaks for it when s, which is
\* about to give its character up, goes away.
LEMMA DroppedListed ==
    ASSUME IInv, NEW s \in Sessions, job[s] # <<>>,
           char[s] # NoUser => GivesUp(char[s], Head(job[s])),
           NEW u \in Users, NEW h, Known(mgr, u, h)
    PROVE  online[u] # s /\ Dropped(s)[u] = online[u] /\ online[u] # NoSession
<1>1. online[u] # NoSession
  BY DEF IInv, JobsOK, SettledOK
<1>2. online[u] # s
  <2> SUFFICES ASSUME online[u] = s PROVE FALSE
    OBVIOUS
  <2>1. char[s] = u /\ Bound(s)
    BY <1>1, SpeakerType
  <2>2. char[s] # NoUser
    BY <2>1 DEF Bound
  <2> QED BY <2>1, <2>2 DEF IInv, JobsOK, GoneOK
<1> QED BY <1>1, <1>2, DroppedFacts

\* A session that gives its character up gets a new generation.
LEMMA GiveUpKept ==
    ASSUME IInv, NEW s \in Sessions, job[s] # <<>>,
           Head(job[s]).op \in {"deselect", "unbind"},
           online' = Dropped(s), gen' = [gen EXCEPT ![s] = @ + 1],
           char' = char \/ char' = [char EXCEPT ![s] = NoUser],
           Then(s, <<>>), UNCHANGED mgr, UNCHANGED lastGen, UNCHANGED town,
           UNCHANGED view, UNCHANGED got
    PROVE  Kept
<1>1. job' = [job EXCEPT ![s] = <<>>]
  BY EmptyHandler, ThenLast DEF Ordinary, Ends
<1>2. /\ gen \in [Sessions -> Gens] /\ gen[s] \in Nat \ {0} /\ gen[s] + 1 \in Gens
      /\ char \in [Sessions -> Users \cup {NoUser}]
  BY DEF IInv, DirectoryTypes, GensOK
<1>3. gen'[s] = gen[s] + 1 /\ \A t \in Sessions \ {s} : gen'[t] = gen[t] /\ char'[t] = char[t]
  BY <1>2
<1>4. DirectoryTypes'
  BY <1>2, DroppedFacts DEF IInv, DirectoryTypes
<1>5. gen[s] <= gen'[s] /\ gen'[s] # gen[s]
  BY <1>2, <1>3
<1>6. \A u \in Users : online'[u] \in {s, NoSession} \/ online'[u] = online[u]
  BY DroppedFacts
<1>7. \A u \in Users : online'[u] # s
  BY DroppedFacts
<1>8. ASSUME NEW u \in Users, NEW h, Known(mgr, u, h) PROVE online'[u] # NoSession
  BY <1>8, DroppedListed DEF GivesUp
<1>9. \A t \in Sessions \ {s} : Bound(t) /\ Reached(t, "renew") => online'[char[t]] = t
  BY DroppedFacts, BoundParts
<1>10. JobsOK'
  BY <1>1, <1>3, <1>4, <1>5, <1>6, <1>7, <1>8, <1>9, EmptyHandler, DirectoryStep
<1> QED BY <1>1, <1>4, <1>10, StepFacts, EmptyHandler, DirectoryKept

\* resetGameSessionForCharacterSelect ends.
LEMMA DeselectKept ==
    ASSUME IInv, NEW s \in Sessions, Deselect(s)
    PROVE  Kept
BY GiveUpKept DEF Deselect, Reached

\* unbindGameSession
LEMMA UnbindKept ==
    ASSUME IInv, NEW s \in Sessions, Unbind(s)
    PROVE  Kept
BY GiveUpKept DEF Unbind, Reached

\* The maximum of a few numbers.
LEMMA MaxOfThree ==
    ASSUME NEW S, NEW a \in Nat, NEW b \in Nat, NEW d \in Nat, S = {a, b} \/ S = {a, b, d}
    PROVE  Max(S) \in Nat /\ a <= Max(S) /\ b <= Max(S)
<1>1. \E x \in S : \A y \in S : x >= y
  <2>1. CASE S = {a, b}
    <3>1. CASE a >= b
      BY <2>1, <3>1
    <3>2. CASE ~ (a >= b)
      BY <2>1, <3>2
    <3> QED BY <3>1, <3>2
  <2>2. CASE S = {a, b, d}
    <3>1. CASE a >= b /\ a >= d
      BY <2>2, <3>1
    <3>2. CASE b >= a /\ b >= d
      BY <2>2, <3>2
    <3>3. CASE d >= a /\ d >= b
      BY <2>2, <3>3
    <3> QED BY <3>1, <3>2, <3>3
  <2> QED BY <2>1, <2>2
<1>2. Max(S) \in S /\ \A y \in S : Max(S) >= y
  BY <1>1 DEF Max
<1> QED BY <1>2

\* allocateGameSessionCharacterGenerationLocked returns a larger generation.
LEMMA NextGenFacts ==
    ASSUME IInv, NEW s \in Sessions, NEW t, NEW prev,
           prev = {} \/ (t \in Sessions /\ prev = {t})
    PROVE  NextGen(s, prev) \in Gens /\ NextGen(s, prev) \in Nat
           /\ gen[s] <= NextGen(s, prev) /\ NextGen(s, prev) # gen[s]
           /\ Max({lastGen, gen[s]}) \in Nat
<1> DEFINE S == {lastGen, gen[s]} \union {gen[r] : r \in prev}
<1>1. Gens = Nat \ {0} /\ lastGen \in Nat /\ gen[s] \in Nat
      /\ (t \in Sessions => gen[t] \in Nat)
  BY DEF IInv, GensOK, DirectoryTypes
<1>2. PICK d \in Nat : S = {lastGen, gen[s]} \/ S = {lastGen, gen[s], d}
  <2>1. CASE prev = {}
    <3>1. S = {lastGen, gen[s]}
      BY <2>1
    <3> QED BY <1>1, <3>1
  <2>2. CASE t \in Sessions /\ prev = {t}
    <3>1. S = {lastGen, gen[s], gen[t]}
      BY <2>2
    <3> QED BY <1>1, <2>2, <3>1
  <2> QED BY <2>1, <2>2
<1>3. NextGen(s, prev) = 1 + Max(S)
  BY DEF NextGen
<1> HIDE DEF S
<1>4. Max(S) \in Nat /\ gen[s] <= Max(S)
  BY <1>1, <1>2, MaxOfThree
<1>5. Max({lastGen, gen[s]}) \in Nat
  BY <1>1, MaxOfThree
<1> QED BY <1>1, <1>3, <1>4, <1>5

\* Whoever spoke for the character before.
LEMMA HandoverFacts ==
    ASSUME IInv, NEW s \in Sessions, NEW c \in Users, NEW prev,
           prev = {online[c]} \ {NoSession, s}, NEW k, NEW g
    PROVE  /\ Handover(prev) \in Seq(Steps) /\ HandlerOK(Handover(prev), k, g)
           /\ \/ /\ prev = {} /\ Handover(prev) = <<>> /\ online[c] \in {NoSession, s}
              \/ /\ prev = {online[c]} /\ online[c] \in Sessions \ {s}
                 /\ Handover(prev) # <<>>
                 /\ Head(Handover(prev)).op = "rebind"
                 /\ Head(Handover(prev)).prev = online[c]
                 /\ Head(Handover(prev)).was = gen[online[c]]
<1>1. CASE prev = {}
  <2>1. Handover(prev) = <<>> /\ online[c] \in {NoSession, s}
    BY <1>1 DEF Handover
  <2> QED BY <1>1, <2>1, EmptyHandler
<1>2. CASE prev # {}
  <2> DEFINE t == online[c]
             x == [op |-> "rebind", prev |-> t, was |-> gen[t]]
  <2>1. prev = {t} /\ t # NoSession /\ t # s
    BY <1>2
  <2>2. t \in Sessions /\ gen[t] \in Gens
    BY <2>1, SpeakerType
  <2>3. (CHOOSE r \in prev : TRUE) = t
    BY <2>1
  <2>4. Handover(prev) = <<x>>
    BY <1>2, <2>3 DEF Handover
  <2>5. x \in Steps /\ x.op = "rebind" /\ x.prev = t /\ x.was = gen[t]
    BY <2>2 DEF Steps, RebindSteps
  <2> HIDE DEF x
  <2>6. /\ <<x>> \in Seq(Steps) /\ HandlerOK(<<x>>, k, g)
        /\ <<x>> # <<>> /\ Head(<<x>>) = x
    BY <2>5, SingleHandler
  <2> QED BY <2>1, <2>2, <2>4, <2>5, <2>6
<1> QED BY <1>1, <1>2

\* The entry of the character selected is not the one that is dropped.
LEMMA ShownFacts ==
    ASSUME IInv, NEW s \in Sessions, NEW c \in Users, NEW shown,
           shown = IF char[s] = c THEN online ELSE Dropped(s)
    PROVE  /\ shown \in [Users -> Sessions \cup {NoSession}]
           /\ shown[c] = online[c]
           /\ \A u \in Users : shown[u] = NoSession \/ shown[u] = online[u]
           /\ \A u \in Users : shown[u] = s => u = c /\ char[s] = c
<1>1. online \in [Users -> Sessions \cup {NoSession}] /\ NoSession # s
  BY SessionsAssumption DEF IInv, DirectoryTypes
<1>2. \A u \in Users : online[u] = s => char[s] = u
  BY <1>1 DEF IInv, JobsOK, SpeakersOK
<1>3. CASE char[s] = c
  BY <1>1, <1>2, <1>3
<1>4. CASE char[s] # c
  BY <1>1, <1>2, <1>4, DroppedFacts
<1> QED BY <1>3, <1>4

\* Whoever is listed keeps the session that spoke for it, in what is shown
\* before s takes c.
LEMMA ShownListed ==
    ASSUME IInv, NEW s \in Sessions, NEW c \in Users, job[s] # <<>>,
           char[s] # c /\ char[s] # NoUser => GivesUp(char[s], Head(job[s])),
           NEW shown, shown = IF char[s] = c THEN online ELSE Dropped(s),
           NEW u \in Users, NEW h, Known(mgr, u, h)
    PROVE  shown[u] = online[u] /\ online[u] # NoSession /\ (u # c => online[u] # s)
<1>1. online[u] # NoSession
  BY DEF IInv, JobsOK, SettledOK
<1>2. CASE char[s] = c
  <2>1. u # c => online[u] # s
    BY <1>1, <1>2, SpeakerType
  <2> QED BY <1>1, <1>2, <2>1
<1>3. CASE char[s] # c
  BY <1>1, <1>3, DroppedListed
<1> QED BY <1>2, <1>3

\* Session s comes to speak for c, and takes the party over from whoever did.
LEMMA SpeakKept ==
    ASSUME IInv, NEW s \in Sessions, NEW c \in Users, job[s] # <<>>,
           ~ Ordinary(Head(job[s])), ~ Awaits(s),
           char[s] # c /\ char[s] # NoUser => GivesUp(char[s], Head(job[s])),
           NEW shown, shown = IF char[s] = c THEN online ELSE Dropped(s),
           NEW prev, prev = {online[c]} \ {NoSession, s}, ~ HandoverPending(s, c),
           online' = [shown EXCEPT ![c] = s], char' = [char EXCEPT ![s] = c],
           NEW n \in Gens, gen' = [gen EXCEPT ![s] = n], gen[s] <= n,
           n = gen[s] => char[s] = c, online[c] = s => n = gen[s], lastGen' \in Nat,
           Then(s, Handover(prev)), UNCHANGED mgr, UNCHANGED town, UNCHANGED got,
           UNCHANGED view
    PROVE  Kept
<1> DEFINE q == Handover(prev)
<1>1. /\ q \in Seq(Steps) /\ HandlerOK(q, c, n)
      /\ \/ q = <<>> /\ online[c] \in {NoSession, s}
         \/ /\ online[c] \in Sessions \ {s} /\ q # <<>> /\ Head(q).op = "rebind"
            /\ Head(q).prev = online[c] /\ Head(q).was = gen[online[c]]
  BY HandoverFacts
<1>2. job' = [job EXCEPT ![s] = q]
  BY <1>1, ThenLast
<1> HIDE DEF q
<1>3. /\ char \in [Sessions -> Users \cup {NoUser}] /\ gen \in [Sessions -> Gens]
      /\ shown \in [Users -> Sessions \cup {NoSession}] /\ shown[c] = online[c]
      /\ \A u \in Users : shown[u] = NoSession \/ shown[u] = online[u]
      /\ \A u \in Users : shown[u] = s => u = c
  BY ShownFacts DEF IInv, DirectoryTypes
<1>4. /\ char'[s] = c /\ gen'[s] = n /\ online'[c] = s
      /\ \A t \in Sessions \ {s} : char'[t] = char[t] /\ gen'[t] = gen[t]
      /\ \A u \in Users \ {c} : online'[u] = shown[u]
  BY <1>3
<1>5. DirectoryTypes'
  BY <1>3 DEF DirectoryTypes
<1>6. \A u \in Users : online'[u] \in {s, NoSession} \/ online'[u] = online[u]
  BY <1>3, <1>4
<1>7. \A u \in Users : online'[u] = s => char'[s] = u
  BY <1>3, <1>4
<1>8. c # NoUser
  BY SessionsAssumption
<1>9. q # <<>> => /\ ~ GivesUp(char'[s], Head(q))
                  /\ Head(q).was = gen'[Head(q).prev] /\ char'[Head(q).prev] = char'[s]
  <2>1. ASSUME online[c] \in Sessions \ {s} PROVE char[online[c]] = c
    BY <2>1, SessionsAssumption DEF IInv, JobsOK, SpeakersOK
  <2> QED BY <1>1, <1>4, <2>1 DEF GivesUp
<1>10. ASSUME NEW u \in Users, NEW h, Known(mgr, u, h)
       PROVE  /\ online'[u] # NoSession
              /\ online'[u] = s => \/ h = gen'[s]
                                   \/ q # <<>> /\ Head(q).op = "rebind" /\ Head(q).was = h
  <2>1. shown[u] = online[u] /\ online[u] # NoSession /\ (u # c => online[u] # s)
    BY <1>10, ShownListed
  <2>2. CASE u # c
    BY <1>4, <2>1, <2>2
  <2>3. CASE u = c
    <3>1. online[c] \in Sessions
      BY <2>1, <2>3, SpeakerType
    <3>2. ~ Awaits(online[c])
      BY <3>1 DEF HandoverPending
    <3>3. h = gen[online[c]]
      BY <1>10, <2>3, <3>2 DEF IInv, JobsOK, SettledOK
    <3>4. CASE online[c] = s
      BY <1>4, <2>3, <3>3, <3>4, SessionsAssumption
    <3>5. CASE online[c] # s
      BY <1>1, <1>4, <2>1, <2>3, <3>3, <3>5, SessionsAssumption
    <3> QED BY <3>4, <3>5
  <2> QED BY <2>2, <2>3
<1>11. JobsOK'
  <2>1. gen[s] <= gen'[s] /\ (gen'[s] = gen[s] => char'[s] = char[s])
    BY <1>4
  <2>2. HandlerOK(q, char'[s], gen'[s]) /\ (char'[s] = NoUser => q = <<>>)
    BY <1>1, <1>4, <1>8
  <2>3. mgr' = mgr
    OBVIOUS
  <2>4. q # <<>> /\ Head(q).op = "rebind" =>
           Head(q).was = gen'[Head(q).prev] /\ char'[Head(q).prev] = char'[s]
    BY <1>9
  <2>5. q # <<>> => ~ GivesUp(char'[s], Head(q))
    BY <1>9
  <2>6. \A t \in Sessions \ {s} : char'[t] = char[t] /\ gen'[t] = gen[t]
    BY <1>4
  <2>7. ASSUME NEW t \in Sessions \ {s}, Bound(t), Reached(t, "renew")
        PROVE  online'[char[t]] = t
    <3>1. char[t] \in Users /\ online[char[t]] = t
      BY <2>7, BoundParts
    <3>2. char[t] # c
      BY <2>7, <3>1 DEF HandoverPending, Awaits
    <3>3. shown[char[t]] = t
      BY <3>1, DroppedFacts
    <3> QED BY <1>4, <3>1, <3>2, <3>3
  <2>8. q # <<>> => Head(q).op # "renew"
    BY <1>1
  <2> QED BY ONLY IInv, s \in Sessions, <1>1, <1>2, <1>5, <1>6, <1>7, <1>10,
                 <2>1, <2>2, <2>3, <2>4, <2>5, <2>6, <2>7, <2>8, DirectoryStep
<1> QED BY <1>1, <1>2, <1>5, <1>11, StepFacts, DirectoryKept

\* promoteResidentGameSession
LEMMA PromoteKept ==
    ASSUME IInv, NEW s \in Sessions, Promote(s), ~ InWindow(s)
    PROVE  Kept
<1> DEFINE c == char[s]
           prev == {online[c]} \ {NoSession, s}
<1>1. /\ job[s] # <<>> /\ Head(job[s]).op = "promote" /\ Reached(s, "promote")
      /\ online' = [online EXCEPT ![c] = s] /\ Then(s, Handover(prev))
      /\ UNCHANGED mgr /\ UNCHANGED char /\ UNCHANGED gen /\ UNCHANGED lastGen
      /\ UNCHANGED town /\ UNCHANGED view /\ UNCHANGED got
  BY DEF Promote, Reached
<1>2. ~ Ordinary(Head(job[s])) /\ ~ Awaits(s)
  BY <1>1 DEF Ordinary, Alone, Awaits, Reached
<1>3. c \in Users /\ char \in [Sessions -> Users \cup {NoUser}] /\ gen \in [Sessions -> Gens]
      /\ lastGen \in Nat
  BY <1>1 DEF IInv, DirectoryTypes, JobsOK, BlankOK
<1>4. ~ HandoverPending(s, c)
  BY <1>1 DEF InWindow
<1>5. /\ char' = [char EXCEPT ![s] = c] /\ gen' = [gen EXCEPT ![s] = gen[s]]
      /\ gen[s] \in Gens /\ gen[s] <= gen[s] /\ lastGen' \in Nat
  BY <1>1, <1>3 DEF IInv, GensOK
<1>6. online = IF char[s] = c THEN online ELSE Dropped(s)
  OBVIOUS
<1> HIDE DEF prev
<1> QED BY <1>1, <1>2, <1>3, <1>4, <1>5, <1>6, SpeakKept DEF prev

\* Session s has chosen c while another session in town keeps speaking for it.
LEMMA ParkKept ==
    ASSUME IInv, NEW s \in Sessions, NEW c \in Users, job[s] # <<>>,
           ~ Ordinary(Head(job[s])),
           char[s] # c /\ char[s] # NoUser => GivesUp(char[s], Head(job[s])),
           NEW shown, shown = IF char[s] = c THEN online ELSE Dropped(s),
           online[c] \notin {s, NoSession},
           online' = shown, char' = [char EXCEPT ![s] = c],
           NEW n \in Gens, gen' = [gen EXCEPT ![s] = n], gen[s] <= n,
           n = gen[s] => char[s] = c, lastGen' \in Nat,
           Then(s, <<>>), UNCHANGED mgr, UNCHANGED town, UNCHANGED got,
           view' \in [Sessions -> Views]
    PROVE  Kept
<1>1. job' = [job EXCEPT ![s] = <<>>] /\ <<>> \in Seq(Steps)
  BY EmptyHandler, ThenLast
<1>2. /\ char \in [Sessions -> Users \cup {NoUser}] /\ gen \in [Sessions -> Gens]
      /\ shown \in [Users -> Sessions \cup {NoSession}] /\ shown[c] = online[c]
      /\ \A u \in Users : shown[u] = NoSession \/ shown[u] = online[u]
      /\ \A u \in Users : shown[u] = s => u = c
  BY ShownFacts DEF IInv, DirectoryTypes
<1>3. /\ char'[s] = c /\ gen'[s] = n
      /\ \A t \in Sessions \ {s} : char'[t] = char[t] /\ gen'[t] = gen[t]
  BY <1>2
<1>4. DirectoryTypes'
  BY <1>2 DEF DirectoryTypes
<1>5. \A u \in Users : online'[u] # s
  BY <1>2
<1>6. \A u \in Users : online'[u] \in {s, NoSession} \/ online'[u] = online[u]
  BY <1>2
<1>7. \A u \in Users : \A h : Known(mgr, u, h) => online'[u] # NoSession
  BY ShownListed
<1>8. gen[s] <= gen'[s] /\ (gen'[s] = gen[s] => char'[s] = char[s])
  BY <1>3
<1>9. HandlerOK(<<>>, char'[s], gen'[s])
  BY EmptyHandler
<1>10. \A t \in Sessions \ {s} : Bound(t) /\ Reached(t, "renew") => online'[char[t]] = t
  BY DroppedFacts, BoundParts
<1>11. JobsOK'
  BY ONLY IInv, s \in Sessions, mgr' = mgr, <1>1, <1>3, <1>4, <1>5, <1>6, <1>7, <1>8, <1>9,
          <1>10, DirectoryStep
<1> QED BY <1>1, <1>4, <1>11, DirectoryKept

\* bindGameSessionCharacter under Service.mu
LEMMA BindPublishesKept ==
    ASSUME IInv, NEW s \in Sessions, BindPublishes(s), ~ InWindow(s)
    PROVE  Kept
<1> DEFINE x == Head(job[s])
           c == x.user
           shown == IF char[s] = c THEN online ELSE Dropped(s)
           prev == {shown[c]} \ {NoSession, s}
           fresh == char[s] # c \/ \E t \in prev : gen[t] = gen[s]
           next == NextGen(s, prev)
           n == IF fresh THEN next ELSE gen[s]
<1>1. /\ job[s] # <<>> /\ x.op = "publish" /\ Reached(s, "publish")
      /\ UNCHANGED mgr /\ UNCHANGED town /\ UNCHANGED got
  BY DEF BindPublishes, Reached
<1>2. /\ x \in Steps /\ c \in Users /\ x.resident \in SUBSET Sessions
      /\ x.saved \in SUBSET Views /\ ~ Ordinary(x) /\ ~ Awaits(s)
  BY <1>1, HeadStep, StepParts DEF Ordinary, Alone, Awaits, Reached
<1>3. shown[c] = online[c] /\ prev = {online[c]} \ {NoSession, s}
  BY <1>2, ShownFacts
<1>4. char[s] # c /\ char[s] # NoUser => GivesUp(char[s], x)
  BY <1>1 DEF GivesUp
<1>5. x.resident # {} => x.saved # {}
  <2>1. job[s] \in Seq(Steps) /\ HandlerOK(job[s], char[s], gen[s])
    BY DEF IInv, HandlerTypes, JobsOK, HandlersOK
  <2>2. Head(job[s]) = job[s][1] /\ 1 \in 1 .. Len(job[s])
    BY <1>1, <2>1
  <2> QED BY <1>1, <2>1, <2>2 DEF HandlerOK
<1>6. /\ char' = [char EXCEPT ![s] = c]
      /\ gen' = IF fresh THEN [gen EXCEPT ![s] = next] ELSE gen
      /\ lastGen' = IF fresh THEN next ELSE Max({lastGen, gen[s]})
  BY DEF BindPublishes
<1>7. \/ /\ x.resident # {} /\ x.resident = prev /\ online' = shown /\ Then(s, <<>>)
         /\ view' = [view EXCEPT ![s] = CHOOSE v \in x.saved : TRUE]
      \/ /\ ~ (x.resident # {} /\ x.resident = prev) /\ online' = [shown EXCEPT ![c] = s]
         /\ UNCHANGED view /\ Then(s, Handover(prev))
  BY DEF BindPublishes
<1>8. prev = {} \/ (online[c] \in Sessions /\ prev = {online[c]})
  BY <1>2, <1>3 DEF IInv, DirectoryTypes
<1>9. /\ next \in Gens /\ next \in Nat /\ gen[s] <= next /\ next # gen[s]
      /\ Max({lastGen, gen[s]}) \in Nat
  BY <1>8, NextGenFacts
<1>10. gen \in [Sessions -> Gens] /\ gen[s] \in Nat
  BY DEF IInv, DirectoryTypes, GensOK
<1> HIDE DEF x, shown, prev, next
<1>11. /\ n \in Gens /\ gen' = [gen EXCEPT ![s] = n] /\ gen[s] <= n /\ lastGen' \in Nat
       /\ n = gen[s] => char[s] = c
  <2>1. CASE fresh
    <3>1. n = next /\ gen' = [gen EXCEPT ![s] = next] /\ lastGen' = next
      BY <1>6, <2>1
    <3> QED BY <1>9, <3>1
  <2>2. CASE ~ fresh
    <3>1. n = gen[s] /\ gen' = gen /\ lastGen' \in Nat /\ char[s] = c
      BY <1>6, <1>9, <2>2
    <3> QED BY <1>10, <3>1
  <2> QED BY <2>1, <2>2
<1>12. online[c] = s => n = gen[s]
  <2> SUFFICES ASSUME online[c] = s PROVE ~ fresh
    OBVIOUS
  <2>1. prev = {}
    BY <1>3
  <2>2. char[s] = c
    BY <1>2, SpeakerType, SessionsAssumption
  <2> QED BY <2>1, <2>2
<1> HIDE DEF n
<1>13. CASE /\ x.resident # {} /\ x.resident = prev /\ online' = shown /\ Then(s, <<>>)
            /\ view' = [view EXCEPT ![s] = CHOOSE v \in x.saved : TRUE]
  <2>1. (CHOOSE v \in x.saved : TRUE) \in Views
    BY <1>2, <1>5, <1>13
  <2>2. view' \in [Sessions -> Views]
    BY <1>13, <2>1, StepFacts
  <2>3. online[c] \notin {s, NoSession}
    BY <1>3, <1>13
  <2> QED BY <1>1, <1>2, <1>4, <1>6, <1>11, <1>13, <2>2, <2>3, ParkKept DEF x, shown
<1>14. CASE /\ ~ (x.resident # {} /\ x.resident = prev) /\ online' = [shown EXCEPT ![c] = s]
            /\ UNCHANGED view /\ Then(s, Handover(prev))
  <2>1. ~ HandoverPending(s, c)
    <3> SUFFICES ASSUME HandoverPending(s, c) PROVE FALSE
      OBVIOUS
    <3>1. x.resident = {online[c]}
      BY <1>1 DEF InWindow, x
    <3>2. prev = {online[c]}
      BY <1>3, SessionsAssumption DEF HandoverPending
    <3> QED BY <1>14, <3>1, <3>2
  <2>2. shown = IF char[s] = c THEN online ELSE Dropped(s)
    BY DEF shown
  <2>3. ~ Ordinary(Head(job[s])) /\ (char[s] # c /\ char[s] # NoUser => GivesUp(char[s], Head(job[s])))
    BY <1>2, <1>4 DEF x
  <2> QED BY ONLY IInv, s \in Sessions, <1>1, <1>2, <1>3, <1>6, <1>11, <1>12, <1>14,
                 <2>1, <2>2, <2>3, SpeakKept
<1> QED BY <1>7, <1>13, <1>14

\* Every step of a handler outside the windows keeps the invariant.
LEMMA ContinuesKept ==
    ASSUME IInv, NEW s \in Sessions, Continues(s), ~ InWindow(s)
    PROVE  Kept
BY BindReadsKept, BindPublishesKept, PromoteKept, RebindKept, RenewKept, ImportKept,
   ImportKnownKept, ImportCachedKept, ImportLeadsKept, AddCachedKept, EnlistKept,
   EnsureManagedKept, DirectoryTargetKept, MeetKept, SeatAnchorKept, JoinAnchorKept,
   LeaveChecksKept, LeaveRunsKept, KickRunsKept, TransferRunsKept, DetachKept,
   DeselectKept, UnbindKept DEF Continues

-----------------------------------------------------------------------------
(* The results *)

\* The initial states satisfy the invariant.
LEMMA InitIInv ==
    ASSUME GensOK, SessionsInit
    PROVE  IInv
<1>1. Good(mgr) /\ UniqueOK(mgr)
  BY InitGood DEF SessionsInit
<1>2. DirectoryTypes
  BY DEF SessionsInit, DirectoryTypes, GensOK
<1>3. HandlerTypes
  <2>1. <<>> \in Seq(Steps) /\ NoView \in Views /\ 0 \in 0 .. MaxPartyID
    BY SizeAssumption DEF Views
  <2> QED BY <2>1 DEF SessionsInit, HandlerTypes
<1>4. JobsOK
  <2>1. \A s \in Sessions : job[s] = <<>>
    BY DEF SessionsInit
  <2>2. HandlersOK
    BY <2>1, EmptyHandler DEF HandlersOK
  <2>3. BlankOK /\ RebindsOK /\ RenewsOK /\ GoneOK
    BY <2>1 DEF BlankOK, RebindsOK, RenewsOK, GoneOK, Reached
  <2>4. SpeakersOK
    BY DEF SessionsInit, SpeakersOK
  <2>5. SettledOK
    <3>1. \A p \in PartyIDs : mgr.parties[p] = NoParty
      BY DEF SessionsInit, Init, NewManager, PartyIDs
    <3> QED BY <3>1 DEF SettledOK, Known, Lists
  <2> QED BY <2>2, <2>3, <2>4, <2>5 DEF JobsOK
<1> QED BY <1>1, <1>2, <1>3, <1>4 DEF IInv

\* Every step outside the windows keeps the invariant and is a step of the
\* contract, or leaves the manager alone.
LEMMA CalmStep ==
    ASSUME IInv, [CalmNext]_sessionVars
    PROVE  Kept
<1>1. CASE CalmNext
  BY <1>1, CommandKept, ContinuesKept DEF CalmNext
<1>2. CASE UNCHANGED sessionVars
  <2>1. /\ UNCHANGED mgr /\ UNCHANGED directory /\ UNCHANGED town /\ UNCHANGED view
        /\ UNCHANGED job /\ UNCHANGED got
    BY <1>2 DEF sessionVars
  <2>2. char' = char /\ gen' = gen /\ online' = online
    BY <2>1 DEF directory
  <2>3. HandlerTypes'
    BY <2>1 DEF IInv, HandlerTypes
  <2>4. HandlersOK' /\ BlankOK' /\ SpeakersOK'
    BY <2>1, <2>2 DEF IInv, JobsOK, HandlersOK, BlankOK, SpeakersOK
  <2>5. RebindsOK' /\ RenewsOK' /\ SettledOK' /\ GoneOK'
    BY <2>1, <2>2 DEF IInv, JobsOK, RebindsOK, RenewsOK, SettledOK, GoneOK, Awaits, Reached,
       Bound
  <2>6. JobsOK'
    BY <2>4, <2>5 DEF JobsOK
  <2> QED BY <2>1, <2>3, <2>6, ClosesQuietly
<1> QED BY <1>1, <1>2

\* The inductive invariant of the sessions outside the windows.
THEOREM SessionsInvariant ==
    ASSUME GensOK
    PROVE  CalmSpec => []IInv
<1>1. SessionsInit => IInv
  BY InitIInv
<1>2. IInv /\ [CalmNext]_sessionVars => IInv'
  BY CalmStep DEF Kept
<1> QED BY <1>1, <1>2, PTL DEF CalmSpec

\* Outside the windows the handlers of any number of connections, interleaved
\* between the locks they take, use the party manager as its contract demands:
\* whoever joins a party carries the generation it is listed under.
THEOREM SessionsImplementContract ==
    ASSUME GensOK
    PROVE  CalmSpec => ContractSpec
<1>1. SessionsInit => Init
  BY DEF SessionsInit
<1>2. IInv /\ [CalmNext]_sessionVars => [ContractNext]_vars
  BY CalmStep DEF Kept
<1> QED BY <1>1, <1>2, SessionsInvariant, PTL DEF CalmSpec, ContractSpec

\* So no character is listed by two parties whatever the connections do
\* outside the windows.
THEOREM SessionsKeepOneParty ==
    ASSUME GensOK
    PROVE  CalmSpec => []OneParty
BY SessionsImplementContract, NobodyInTwoParties, PTL

\* And an identity whose membership ends or is handed over to a replacement
\* session leaves no invitation behind.
THEOREM SessionsForgetEndedIdentities ==
    ASSUME GensOK
    PROVE  CalmSpec => EndedIdentityHasNoInvite
BY SessionsImplementContract, EndedIdentitiesAreForgotten, PTL

\* When no handler is running, everybody a party lists is online under the
\* generation of the session that speaks for it: replaced, returned and closed
\* connections leave no member behind.
THEOREM NoGhosts ==
    ASSUME GensOK
    PROVE  CalmSpec => []NoGhostMember
<1>1. IInv => NoGhostMember
  <2> SUFFICES ASSUME IInv, Quiet, NEW p \in PartyIDs, NEW u \in Users, Lists(mgr, p, u)
               PROVE  Online(u) /\ Member(mgr.parties[p], u).gen = gen[online[u]]
    BY DEF NoGhostMember
  <2> DEFINE h == Member(mgr.parties[p], u).gen
  <2>1. Known(mgr, u, h)
    BY DEF Known
  <2>2. online[u] # NoSession /\ (h = gen[online[u]] \/ Awaits(online[u]))
    BY <2>1 DEF IInv, JobsOK, SettledOK
  <2>3. online[u] \in Sessions /\ char[online[u]] = u
    BY <2>2, SpeakerType
  <2>4. ~ Awaits(online[u])
    BY <2>3 DEF Quiet, Awaits, Reached
  <2> QED BY <2>2, <2>3, <2>4 DEF Online
<1> QED BY <1>1, SessionsInvariant, PTL
=============================================================================
