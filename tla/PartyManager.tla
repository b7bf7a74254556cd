---------------------------- MODULE PartyManager ----------------------------
(***************************************************************************)
(* RuntimePartyManager (go-server/internal/modules/dnf/party/              *)
(* runtime_manager.go): the process-local, mutex-protected owner of every  *)
(* online party.  Each exported method takes m.mu for its whole body, so   *)
(* one method call is one step.                                            *)
(*                                                                         *)
(* The manager struct is the record `mgr'.  Every method is an operator    *)
(* from a manager value to the manager value it leaves behind; a call that *)
(* returns a failure leaves the value it found.  Callers are arbitrary     *)
(* here: any character may be presented with any session generation.       *)
(* Client-visible member data (HP, names, lobby text) is abstracted away.  *)
(***************************************************************************)
EXTENDS Integers, FiniteSets

CONSTANTS
    Users,        \* character ids accepted by validRuntimePartyMember
    Gens,         \* nonzero session generations
    MaxMembers,   \* currentRuntimePartyMaxMembers
    MaxPartyID,   \* 65534: ids run over 1 .. 65534 and wrap
    Limits,       \* MaxMembers settings a lobby window can ask for
    Modes,        \* peer-request modes an invitation can carry
    NoParty, NoMember, NoInvite   \* nil map entries

Slots == 0 .. MaxMembers - 1
PartyIDs == 1 .. MaxPartyID

\* RuntimePartyMember: identity, immutable generation and persistent slot.
MemberRec == [user : Users, gen : Gens, slot : Slots]
\* runtimeParty; limit is settings.MaxMembers after normalisation.
PartyRec == [leader : Users, limit : 1 .. MaxMembers,
             members : [Slots -> MemberRec \cup {NoMember}]]
\* runtimePartyInvite, keyed by invitee.  The recorded party id is dropped:
\* the only consumer discards it.
InviteRec == [inviteeGen : Gens, inviter : Users, inviterGen : Gens,
              mode : Modes]

ASSUME SizeAssumption ==
    /\ MaxMembers \in Nat \ {0}
    /\ MaxPartyID \in Nat \ {0}
    /\ Limits \subseteq Nat
ASSUME NilAssumption ==
    /\ NoParty \notin PartyRec
    /\ NoMember \notin MemberRec
    /\ NoInvite \notin InviteRec

\* Index 0 of byUser and parties is Go's zero value: "no such key".
ManagerRec == [nextID : PartyIDs,
               parties : [0 .. MaxPartyID -> PartyRec \cup {NoParty}],
               byUser : [Users -> 0 .. MaxPartyID],
               invites : [Users -> InviteRec \cup {NoInvite}]]

VARIABLE mgr
vars == <<mgr>>

-----------------------------------------------------------------------------
(* One party. *)

At(P, k, u) == P.members[k] # NoMember /\ P.members[k].user = u

HasMember(P, u) == \E k \in Slots : At(P, k, u)

\* runtimeParty.member: the first slot holding the character.
SlotOf(P, u) ==
    CHOOSE k \in Slots : At(P, k, u) /\ \A j \in Slots : At(P, j, u) => k <= j

Member(P, u) == P.members[SlotOf(P, u)]

Count(P) == Cardinality({k \in Slots : P.members[k] # NoMember})

Full(P) == Count(P) >= P.limit

FreeSlots(P) == {k \in Slots : P.members[k] = NoMember}

FirstIn(S) == CHOOSE k \in S : \A j \in S : k <= j

CanAdd(P, u) == ~ Full(P) /\ ~ HasMember(P, u) /\ FreeSlots(P) # {}

Seat(u, g, k) == [user |-> u, gen |-> g, slot |-> k]

\* runtimeParty.add: the lowest free slot; a full or duplicate add is refused.
Add(P, u, g) ==
    IF CanAdd(P, u)
    THEN LET k == FirstIn(FreeSlots(P))
         IN [P EXCEPT !.members = [P.members EXCEPT ![k] = Seat(u, g, k)]]
    ELSE P

Remove(P, u) ==
    [P EXCEPT !.members = [P.members EXCEPT ![SlotOf(P, u)] = NoMember]]

EmptyParty(u, limit) ==
    [leader |-> u, limit |-> limit, members |-> [k \in Slots |-> NoMember]]

\* normalizeRuntimePartySettings
NormalLimit(n) == IF n = 0 \/ n > MaxMembers THEN MaxMembers ELSE n

Vacant(P) == \A k \in Slots : P.members[k] = NoMember

\* membersBySlot()[0].UserID: the member in the lowest occupied slot.
Successor(P) == P.members[FirstIn(Slots \ FreeSlots(P))].user

\* Mutant: the new leader's old seat is counted too and leaves a hole.
Follows_Shifted(P, u, k, r) ==
    /\ P.members[k] # NoMember
    /\ P.members[k].user # u
    /\ r = 1 + Cardinality({j \in Slots : /\ j < k
                                          /\ P.members[j] # NoMember})

\* Members other than the new leader are re-added in slot order behind it;
\* the one with r - 1 such members before it is offered slot r.
Follows(P, u, k, r) ==
    /\ P.members[k] # NoMember
    /\ P.members[k].user # u
    /\ r = 1 + Cardinality({j \in Slots : /\ j < k
                                          /\ P.members[j] # NoMember
                                          /\ P.members[j].user # u})

\* rebuildLocked: add() stops accepting members once the limit is reached.
Rebuilt(P, u) ==
    [leader |-> u, limit |-> P.limit,
     members |-> [r \in Slots |->
        IF r = 0 THEN Seat(u, Member(P, u).gen, 0)
        ELSE IF r < P.limit /\ \E k \in Slots : Follows(P, u, k, r)
        THEN LET m == P.members[CHOOSE k \in Slots : Follows(P, u, k, r)]
             IN Seat(m.user, m.gen, r)
        ELSE NoMember]]

-----------------------------------------------------------------------------
(* The manager's locked helpers. *)

FreeID(s, i) == s.parties[i] = NoParty

\* Mutant: the uint16 counter is not wrapped.
NextOf_NoWrap(i) == i + 1

NextOf(i) == IF i = MaxPartyID THEN 1 ELSE i + 1

\* How many ids nextPartyIDLocked tries before it reaches i.
Attempts(s, i) ==
    IF i >= s.nextID THEN i - s.nextID ELSE i - s.nextID + MaxPartyID

\* nextPartyIDLocked: the first free id from nextID on, wrapping; 0 if none.
FreshID(s) ==
    IF \E i \in PartyIDs : FreeID(s, i)
    THEN CHOOSE i \in PartyIDs :
            /\ FreeID(s, i)
            /\ \A j \in PartyIDs : FreeID(s, j) => Attempts(s, i) <= Attempts(s, j)
    ELSE 0

\* nextID after the scan: behind the id found, or back where it began.
NextAfter(s) == IF FreshID(s) = 0 THEN s.nextID ELSE NextOf(FreshID(s))

\* partyMemberLocked found a party and a member in it.
InParty(s, u) ==
    /\ s.parties[s.byUser[u]] # NoParty
    /\ HasMember(s.parties[s.byUser[u]], u)

PartyOf(s, u) == s.parties[s.byUser[u]]

\* ... and that member carries this session generation.
Current(s, u, g) == InParty(s, u) /\ Member(PartyOf(s, u), u).gen = g

IsLeader(s, u, g) == Current(s, u, g) /\ PartyOf(s, u).leader = u

\* Mutant: only invitations the character received are cleared.
ClearInvites_InviteeOnly(s, u, g) ==
    [i \in Users |->
        IF i = u /\ s.invites[i] # NoInvite /\ s.invites[i].inviteeGen = g
        THEN NoInvite ELSE s.invites[i]]

\* clearInvitesForLocked
ClearInvites(s, u, g) ==
    [i \in Users |->
        IF /\ s.invites[i] # NoInvite
           /\ \/ i = u /\ s.invites[i].inviteeGen = g
              \/ s.invites[i].inviter = u /\ s.invites[i].inviterGen = g
        THEN NoInvite ELSE s.invites[i]]

\* Retire party p and install its remaining members P under a fresh id with
\* u leading (the common tail of leaveLocked and TransferLeader).
Reform(s, p, P, u) ==
    LET retired == [s EXCEPT
            !.parties = [s.parties EXCEPT ![p] = NoParty],
            !.byUser = [w \in Users |-> IF HasMember(P, w) THEN 0 ELSE s.byUser[w]]]
        id == FreshID(retired)
        R == Rebuilt(P, u)
    IN [retired EXCEPT
            !.nextID = NextAfter(retired),
            !.parties = [retired.parties EXCEPT ![id] = R],
            !.byUser = [w \in Users |-> IF HasMember(R, w) THEN id
                                        ELSE retired.byUser[w]]]

\* leaveLocked; a stale generation or an absent member changes nothing.
LeaveLocked(s, u, g) ==
    LET p == s.byUser[u]
        Q == Remove(s.parties[p], u)
        left == [s EXCEPT !.byUser = [s.byUser EXCEPT ![u] = 0],
                          !.invites = ClearInvites(s, u, g)]
    IN IF ~ Current(s, u, g) THEN s
       ELSE IF Vacant(Q)
       THEN [left EXCEPT !.parties = [s.parties EXCEPT ![p] = NoParty]]
       ELSE IF Q.leader # u
       THEN [left EXCEPT !.parties = [s.parties EXCEPT ![p] = Q]]
       ELSE Reform(left, p, Q, Successor(Q))

\* parties[id] = P; byUser[u] = id
Install(s, id, P, u) ==
    [s EXCEPT !.parties = [s.parties EXCEPT ![id] = P],
              !.byUser = [s.byUser EXCEPT ![u] = id]]

-----------------------------------------------------------------------------
(* The exported methods. *)

\* Mutant: the id is looked up but not reserved before the creator leaves.
CreateOp_Unreserved(s, u, g, n) ==
    LET id == FreshID(s)
    IN IF id = 0 THEN s
       ELSE Install(LeaveLocked(s, u, g), id,
                    Add(EmptyParty(u, NormalLimit(n)), u, g), u)

CreateOp(s, u, g, n) ==
    LET id == FreshID(s)
        t == LeaveLocked([s EXCEPT !.nextID = NextAfter(s)], u, g)
    IN IF id = 0 THEN s
       ELSE Install(t, id, Add(EmptyParty(u, NormalLimit(n)), u, g), u)

EnsureLeaderOp(s, u, g, n) ==
    LET id == FreshID(s)
    IN IF InParty(s, u) \/ id = 0 THEN s
       ELSE Install([s EXCEPT !.nextID = NextAfter(s)], id,
                    Add(EmptyParty(u, NormalLimit(n)), u, g), u)

JoinOK(s, p, u) ==
    /\ s.parties[p] # NoParty
    /\ CanAdd(s.parties[p], u)

\* Mutant: the previous membership is not resolved.
JoinOp_NoLeave(s, p, u, g) ==
    IF JoinOK(s, p, u) THEN Install(s, p, Add(s.parties[p], u, g), u) ELSE s

JoinOp(s, p, u, g) ==
    IF JoinOK(s, p, u)
    THEN Install(LeaveLocked(s, u, g), p, Add(s.parties[p], u, g), u)
    ELSE s

KickOK(s, u, g, v, h) ==
    /\ u # v
    /\ IsLeader(s, u, g)
    /\ HasMember(PartyOf(s, u), v)
    /\ Member(PartyOf(s, u), v).gen = h

KickOp(s, u, g, v, h) ==
    IF KickOK(s, u, g, v, h)
    THEN [s EXCEPT
            !.parties = [s.parties EXCEPT ![s.byUser[u]] = Remove(PartyOf(s, u), v)],
            !.byUser = [s.byUser EXCEPT ![v] = 0],
            !.invites = ClearInvites(s, v, h)]
    ELSE s

TransferOK(s, u, g, v, h) ==
    /\ IsLeader(s, u, g)
    /\ HasMember(PartyOf(s, u), v)
    /\ Member(PartyOf(s, u), v).gen = h

TransferLeaderOp(s, u, g, v, h) ==
    IF TransferOK(s, u, g, v, h)
    THEN Reform(s, s.byUser[u], PartyOf(s, u), v)
    ELSE s

UpdateSettingsOp(s, u, g, n) ==
    IF IsLeader(s, u, g)
    THEN [s EXCEPT !.parties = [s.parties EXCEPT ![s.byUser[u]] =
                        [PartyOf(s, u) EXCEPT !.limit = NormalLimit(n)]]]
    ELSE s

\* RebindSession: generation old of character u is replaced by g in place.
RebindSessionOp(s, u, old, g) ==
    LET P == PartyOf(s, u)
        k == SlotOf(P, u)
    IN IF ~ InParty(s, u) THEN [s EXCEPT !.invites = ClearInvites(s, u, old)]
       ELSE IF Member(P, u).gen # old THEN s
       ELSE [s EXCEPT
               !.parties = [s.parties EXCEPT ![s.byUser[u]] =
                  [P EXCEPT !.members =
                     [P.members EXCEPT ![k] = Seat(u, g, P.members[k].slot)]]],
               !.invites = ClearInvites(s, u, old)]

\* Mutant: the pointers are swapped, the Slot fields are not.
Reseat_KeepSlot(m, k) == m

Reseat(m, k) == IF m = NoMember THEN NoMember ELSE Seat(m.user, m.gen, k)

\* Mutant: the leader's own slot may be swapped away.
RepositionOp_SlotZero(s, u, g, from, to) ==
    LET P == PartyOf(s, u)
    IN IF from # to /\ IsLeader(s, u, g) /\ P.members[from] # NoMember
       THEN [s EXCEPT !.parties = [s.parties EXCEPT ![s.byUser[u]] =
               [P EXCEPT !.members =
                  [P.members EXCEPT ![from] = Reseat(P.members[to], from),
                                    ![to] = Reseat(P.members[from], to)]]]]
       ELSE s

RepositionOp(s, u, g, from, to) ==
    LET P == PartyOf(s, u)
    IN IF /\ from # to /\ from # 0 /\ to # 0
          /\ IsLeader(s, u, g)
          /\ P.members[from] # NoMember
       THEN [s EXCEPT !.parties = [s.parties EXCEPT ![s.byUser[u]] =
               [P EXCEPT !.members =
                  [P.members EXCEPT ![from] = Reseat(P.members[to], from),
                                    ![to] = Reseat(P.members[from], to)]]]]
       ELSE s

RecordInviteOp(s, i, ig, u, g, m) ==
    [s EXCEPT !.invites = [s.invites EXCEPT ![i] =
        [inviteeGen |-> ig, inviter |-> u, inviterGen |-> g, mode |-> m]]]

ConsumeOK(s, i, ig, u, g, m) ==
    s.invites[i] = [inviteeGen |-> ig, inviter |-> u, inviterGen |-> g, mode |-> m]

ConsumeInviteOp(s, i, ig, u, g, m) ==
    IF ConsumeOK(s, i, ig, u, g, m)
    THEN [s EXCEPT !.invites = [s.invites EXCEPT ![i] = NoInvite]]
    ELSE s

-----------------------------------------------------------------------------
(* Actions: one per exported method that changes state. *)

\* NewRuntimePartyManager
NewManager ==
    [nextID |-> 1,
     parties |-> [p \in 0 .. MaxPartyID |-> NoParty],
     byUser |-> [u \in Users |-> 0],
     invites |-> [u \in Users |-> NoInvite]]

Init == mgr = NewManager

Create(u, g) == \E n \in Limits : mgr' = CreateOp(mgr, u, g, n)

EnsureLeader(u, g) == \E n \in Limits : mgr' = EnsureLeaderOp(mgr, u, g, n)

Join(u, g) == \E p \in PartyIDs : mgr' = JoinOp(mgr, p, u, g)

\* Leave and OnDisconnected
Leave(u, g) == mgr' = LeaveLocked(mgr, u, g)

Kick(u, g) == \E v \in Users, h \in Gens : mgr' = KickOp(mgr, u, g, v, h)

TransferLeader(u, g) ==
    \E v \in Users, h \in Gens : mgr' = TransferLeaderOp(mgr, u, g, v, h)

UpdateSettings(u, g) == \E n \in Limits : mgr' = UpdateSettingsOp(mgr, u, g, n)

RebindSession(u, g) == \E old \in Gens : mgr' = RebindSessionOp(mgr, u, old, g)

Reposition(u, g) ==
    \E from, to \in Slots : mgr' = RepositionOp(mgr, u, g, from, to)

RecordInvite(u, g) ==
    \E i \in Users \ {u}, ig \in Gens, m \in Modes :
        mgr' = RecordInviteOp(mgr, i, ig, u, g, m)

ConsumeInvite(u, g) ==
    \E i \in Users, ig \in Gens, m \in Modes :
        mgr' = ConsumeInviteOp(mgr, i, ig, u, g, m)

\* What (u, g) may call whatever its generation is.
Step(u, g) ==
    \/ EnsureLeader(u, g)
    \/ Leave(u, g)
    \/ Kick(u, g)
    \/ TransferLeader(u, g)
    \/ UpdateSettings(u, g)
    \/ RebindSession(u, g)
    \/ Reposition(u, g)
    \/ RecordInvite(u, g)
    \/ ConsumeInvite(u, g)

Next ==
    \E u \in Users, g \in Gens :
        \/ Create(u, g)
        \/ Join(u, g)
        \/ Step(u, g)

Spec == Init /\ [][Next]_vars

(***************************************************************************)
(* The contract dnfbridge is meant to keep: an identity that creates or    *)
(* joins a party is the one recorded in any party that already lists the   *)
(* character, i.e. RebindSession has run before a replacement session is   *)
(* used.  Nothing in the manager enforces it.                              *)
(***************************************************************************)
CurrentIdentity(u, g) ==
    \A p \in PartyIDs :
        mgr.parties[p] # NoParty /\ HasMember(mgr.parties[p], u)
            => Member(mgr.parties[p], u).gen = g

ContractNext ==
    \E u \in Users, g \in Gens :
        \/ CurrentIdentity(u, g) /\ Create(u, g)
        \/ CurrentIdentity(u, g) /\ Join(u, g)
        \/ Step(u, g)

ContractSpec == Init /\ [][ContractNext]_vars

-----------------------------------------------------------------------------
(* Properties. *)

\* The manager keeps its shape: ids stay within 1 .. MaxPartyID although the
\* uint16 counter wraps, seats hold well-formed members.
TypeOK == mgr \in ManagerRec

Headed(P) == At(P, 0, P.leader)

SlotZeroOK(s) ==
    \A p \in PartyIDs : s.parties[p] # NoParty => Headed(s.parties[p])

\* Slot zero of every live party holds its leader, through joins, kicks,
\* swaps, successions and rebinds: the client derives leadership from the
\* first roster entry.
LeaderAtSlotZero == SlotZeroOK(mgr)

IndexOK(s) ==
    /\ s.parties[0] = NoParty
    /\ \A u \in Users : s.byUser[u] # 0 => InParty(s, u)

\* byUser never points at a retired, recycled or foreign party: whoever is
\* indexed really sits in the party indexed.  Creating a party reserves its
\* id before the creator leaves the old one, whose survivors need an id too.
IndexSound == IndexOK(mgr)

Seated(P) ==
    \A k \in Slots : P.members[k] # NoMember =>
        /\ P.members[k].slot = k
        /\ \A j \in Slots : At(P, j, P.members[k].user) => j = k

SeatsOK(s) ==
    \A p \in PartyIDs : s.parties[p] # NoParty => Seated(s.parties[p])

\* Nobody holds two seats of one party and each member's Slot field, which
\* Kick and TransferLeader are addressed by, is the seat it really has.
SeatsConsistent == SeatsOK(mgr)

Lists(s, p, u) == s.parties[p] # NoParty /\ HasMember(s.parties[p], u)

UniqueOK(s) ==
    \A p \in PartyIDs, u \in Users : Lists(s, p, u) => s.byUser[u] = p

\* Under the contract no character is listed by two parties, and whoever is
\* listed is indexed ("no character can exist in two parties").
OneParty == UniqueOK(mgr)

\* Somebody whom the step leaves without a party.
Departs(u) == mgr.byUser[u] # 0 /\ mgr'.byUser[u] = 0

\* Callers that break the contract may be listed by more than one party.
WithinLimit(u) ==
    \A p \in PartyIDs :
        Lists(mgr, p, u) => Count(mgr.parties[p]) <= mgr.parties[p].limit

\* u leaves (or its session ends), or a leader kicks it.
LeavesOrIsKicked(u) ==
    \E g \in Gens :
        \/ Leave(u, g)
        \/ \E v \in Users, h \in Gens : mgr' = KickOp(mgr, v, h, u, g)

\* Nobody is left without a party except by its own leave or by a kick, unless
\* a leader had lowered the limit below the party's size: a succession or a
\* leadership transfer carries every survivor into the rebuilt party, and who
\* creates or joins a party ends up in it.
SurvivorsKept ==
    [][\A u \in Users : Departs(u) /\ WithinLimit(u) => LeavesOrIsKicked(u)]_vars

Names(inv, i, u, g) ==
    /\ inv # NoInvite
    /\ \/ i = u /\ inv.inviteeGen = g
       \/ inv.inviter = u /\ inv.inviterGen = g

\* A membership that ends (leave, kick, disconnect) or moves to another
\* generation (rebind) takes every pending invitation of that identity with
\* it, in both directions: a later session cannot answer or honour it.
EndedIdentityHasNoInvite ==
    [][\A u \in Users, g \in Gens :
          /\ Current(mgr, u, g)
          /\ WithinLimit(u)
          /\ Departs(u) \/ (InParty(mgr', u) /\ ~ Current(mgr', u, g))
          => \A i \in Users : ~ Names(mgr'.invites[i], i, u, g)]_vars
=============================================================================
