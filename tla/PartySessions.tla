--------------------------- MODULE PartySessions ---------------------------
(***************************************************************************)
(* The callers of the party manager: the directory of game sessions        *)
(* (dnfbridge/game_sessions.go) that says which session speaks for a       *)
(* character, and the party commands that run on each session's own event  *)
(* loop (party_online.go, party_manager_runtime.go, party_directory.go).   *)
(*                                                                         *)
(* A session executes one handler at a time.  What is left of it is job,   *)
(* a sequence of steps.  Where a handler enters a character into a party,  *)
(* each look at the directory under Service.mu and each call of the        *)
(* manager is a step of its own, and the step that calls the manager uses  *)
(* the identity that an earlier step captured: the session may have been   *)
(* replaced in between.  Where it does not (an invitation, a leave, a kick, *)
(* a transfer, the settings), the reads before the call of the manager     *)
(* belong to the step of the call, which checks the generation itself.     *)
(* Publishing a snapshot belongs to the step of the call that returned it. *)
(***************************************************************************)
EXTENDS PartyManager, Sequences, FiniteSetsExt

CONSTANTS
    Sessions,     \* game connections
    NoSession,    \* no entry of a map of sessions
    NoUser,       \* selectedCharacterID 0
    NoView,       \* a party projection with PartyID 0
    MaySelect,    \* the characters of each connection's account
    MaxBinds      \* bound on the characters selected altogether

ASSUME SessionsAssumption ==
    /\ MaySelect \in [Sessions -> SUBSET Users]
    /\ MaxBinds \in Nat
    /\ Gens \subseteq Nat \ {0}
    /\ IsFiniteSet(Users)
    /\ NoSession \notin Sessions /\ NoUser \notin Users

VARIABLES
    char,      \* session.selectedCharacterID
    gen,       \* session.characterGeneration
    lastGen,   \* nextGameSessionGeneration
    online,    \* gameSessions: the session that speaks for a character
    town,      \* onlinePlayers: the session a character is in town with
    view,      \* the party projection each session keeps
    job,       \* what each session's handler has left to do
    got,       \* the party id the last import of the handler returned
    closed,    \* connections that have begun to close
    binds      \* characters selected so far

directory == <<char, gen, lastGen, online>>
sessionVars == <<mgr, directory, town, view, job, got, closed, binds>>

SessionsInit ==
    /\ Init
    /\ char = [s \in Sessions |-> NoUser]
    /\ gen = [s \in Sessions |-> 1]
    /\ lastGen = 0
    /\ online = [u \in Users |-> NoSession]
    /\ town = [u \in Users |-> NoSession]
    /\ view = [s \in Sessions |-> NoView]
    /\ job = [s \in Sessions |-> <<>>]
    /\ got = [s \in Sessions |-> 0]
    /\ closed = {}
    /\ binds = 0

-----------------------------------------------------------------------------
(* Identities and projections *)

\* boundGameSessionCharacterSnapshot succeeds.
Bound(s) == char[s] # NoUser /\ online[char[s]] = s

\* onlineGameSessionCharacterSnapshot succeeds.
Online(u) == online[u] # NoSession /\ char[online[u]] = u

Identity(s) == [session |-> s, user |-> char[s], gen |-> gen[s]]

\* boundGameSessionCharacterCurrent
Live(i) ==
    /\ online[i.user] = i.session
    /\ char[i.session] = i.user /\ gen[i.session] = i.gen

Managed(s) == char[s] # NoUser /\ Current(mgr, char[s], gen[s])

ViewOf(P) == [leader |-> P.leader, users |-> {u \in Users : HasMember(P, u)}]

\* Session s speaks for a member of party p under the generation listed.
Receives(m, p, s) ==
    /\ m.parties[p] # NoParty /\ Bound(s)
    /\ HasMember(m.parties[p], char[s])
    /\ Member(m.parties[p], char[s]).gen = gen[s]

\* publishRuntimePartySnapshot
Publish(v, m, p) ==
    [s \in Sessions |-> IF Receives(m, p, s) THEN ViewOf(m.parties[p]) ELSE v[s]]

\* publishRuntimePartyMembershipSnapshot: a lobby of one is not shown.
PublishMembership(v, m, p) ==
    [s \in Sessions |->
        IF ~ Receives(m, p, s) THEN v[s]
        ELSE IF Count(m.parties[p]) > 1 THEN ViewOf(m.parties[p]) ELSE NoView]

\* The party of those who stayed when u left: it has a new id if u was leader.
Rest(m, next, u) ==
    LET stay == {w \in Users \ {u} : InParty(m, w) /\ m.byUser[w] = m.byUser[u]}
    IN IF stay = {} THEN 0 ELSE next.byUser[CHOOSE w \in stay : TRUE]

\* clearRuntimePartyProjection
ClearView(v, u, g) ==
    [s \in Sessions |-> IF Bound(s) /\ char[s] = u /\ gen[s] = g THEN NoView ELSE v[s]]

-----------------------------------------------------------------------------
(* The handler of a session *)

Idle(s) == job[s] = <<>> /\ s \notin closed

Reached(s, op) == job[s] # <<>> /\ Head(job[s]).op = op

Do(op) == [op |-> op]

Then(s, steps) == job' = [job EXCEPT ![s] = steps \o Tail(@)]

Begins(s, steps) == job' = [job EXCEPT ![s] = steps] /\ got' = [got EXCEPT ![s] = 0]

Returns(s, p) == got' = [got EXCEPT ![s] = p]

\* Import the session's projection unless the manager knows the session.
ImportFirst(s) == IF Managed(s) THEN <<>> ELSE <<[op |-> "import", of |-> s]>>

-----------------------------------------------------------------------------
(* Selecting a character: bindGameSessionCharacter *)

SelectCharacter(s, c) ==
    /\ Idle(s) /\ c \in MaySelect[s] /\ binds < MaxBinds
    /\ binds' = binds + 1
    /\ Begins(s, (IF char[s] \in {NoUser, c} THEN <<>> ELSE <<Do("detach")>>)
                 \o <<[op |-> "bind", user |-> c]>>)
    /\ UNCHANGED <<mgr, directory, town, view, closed>>

\* The session in town and its projection are read before Service.mu is taken.
BindReads(s) ==
    /\ Reached(s, "bind")
    /\ LET c == Head(job[s]).user
           other == {town[c]} \ {NoSession, s}
       IN Then(s, <<[op |-> "publish", user |-> c, resident |-> other,
                     saved |-> {view[t] : t \in other}]>>)
    /\ UNCHANGED <<mgr, directory, town, view, got, closed, binds>>

\* allocateGameSessionCharacterGenerationLocked
NextGen(s, prev) == 1 + Max({lastGen, gen[s]} \union {gen[t] : t \in prev})

\* online without the entry of the character the session had
Dropped(s) ==
    [u \in Users |-> IF u = char[s] /\ online[u] = s THEN NoSession ELSE online[u]]

\* The handover of the party to s, when another session spoke for the character.
Handover(prev) ==
    IF prev = {} THEN <<>>
    ELSE LET t == CHOOSE t \in prev : TRUE
         IN <<[op |-> "rebind", prev |-> t, was |-> gen[t]]>>

BindPublishes(s) ==
    /\ Reached(s, "publish")
    /\ LET c == Head(job[s]).user
           resident == Head(job[s]).resident
           shown == IF char[s] = c THEN online ELSE Dropped(s)
           prev == {shown[c]} \ {NoSession, s}
           fresh == char[s] # c \/ \E t \in prev : gen[t] = gen[s]
           next == NextGen(s, prev)
       IN /\ char' = [char EXCEPT ![s] = c]
          /\ gen' = IF fresh THEN [gen EXCEPT ![s] = next] ELSE gen
          /\ lastGen' = IF fresh THEN next ELSE Max({lastGen, gen[s]})
          /\ IF resident # {} /\ resident = prev
             THEN /\ online' = shown
                  /\ view' = [view EXCEPT ![s] = CHOOSE v \in Head(job[s]).saved : TRUE]
                  /\ Then(s, <<>>)
             ELSE /\ online' = [shown EXCEPT ![c] = s]
                  /\ UNCHANGED view
                  /\ Then(s, Handover(prev))
    /\ UNCHANGED <<mgr, town, got, closed, binds>>

(* Entering a town area makes the session the resident one, then the one   *)
(* that speaks for the character: promoteResidentGameSession.              *)
EnterTown(s) ==
    /\ Idle(s) /\ char[s] # NoUser
    /\ town' = [town EXCEPT ![char[s]] = s]
    /\ Begins(s, <<Do("promote")>>)
    /\ UNCHANGED <<mgr, directory, view, closed, binds>>

Promote(s) ==
    /\ Reached(s, "promote")
    /\ online' = [online EXCEPT ![char[s]] = s]
    /\ Then(s, Handover({online[char[s]]} \ {NoSession, s}))
    /\ UNCHANGED <<mgr, char, gen, lastGen, town, view, got, closed, binds>>

\* Mutant: the replacement is not handed the party.
Rebound_Never(s, t) == FALSE

\* rebindManagedRuntimePartySession goes on to the manager.
Rebound(s, t) == char[t] = char[s] /\ Bound(s)

\* Mutant: the reconnect is a leave followed by a join.
Renewed_LeaveJoin(m, c, old, g) ==
    LET left == LeaveLocked(m, c, old) IN JoinOp(left, Rest(m, left, c), c, g)

\* "without treating it as a leave/join"
Renewed(m, c, old, g) == RebindSessionOp(m, c, old, g)

(* rebindManagedRuntimePartySession reads the generation of the session    *)
(* that was replaced without a lock, and the calling session's own         *)
(* identity under Service.mu; then it calls the manager.                   *)
Rebind(s) ==
    /\ Reached(s, "rebind")
    /\ LET t == Head(job[s]).prev
       IN Then(s, IF Rebound(s, t) THEN <<[op |-> "renew", was |-> gen[t]]>> ELSE <<>>)
    /\ UNCHANGED <<mgr, directory, town, view, got, closed, binds>>

Renew(s) ==
    /\ Reached(s, "renew")
    /\ LET c == char[s]
           old == Head(job[s]).was
       IN /\ mgr' = Renewed(mgr, c, old, gen[s])
          /\ IF Current(mgr, c, old)
             THEN /\ view' = Publish(view, mgr', mgr.byUser[c])
                  /\ Then(s, <<>>)
             ELSE Then(s, <<[op |-> "import", of |-> s]>>) /\ UNCHANGED view
    /\ UNCHANGED <<directory, town, got, closed, binds>>

-----------------------------------------------------------------------------
(* bootstrapManagedRuntimePartyForSession: a projection the manager does   *)
(* not know becomes a party of its members that are online.                *)

Import(s) ==
    /\ Reached(s, "import")
    /\ LET t == Head(job[s]).of
       IN Then(s, IF Bound(t) THEN <<[op |-> "known", who |-> Identity(t)]>> ELSE <<>>)
    /\ Returns(s, 0)
    /\ UNCHANGED <<mgr, directory, town, view, closed, binds>>

ImportKnown(s) ==
    /\ Reached(s, "known")
    /\ LET i == Head(job[s]).who
       IN IF Current(mgr, i.user, i.gen)
          THEN Returns(s, mgr.byUser[i.user]) /\ Then(s, <<>>)
          ELSE Then(s, <<[op |-> "cached", who |-> i]>>) /\ UNCHANGED got
    /\ UNCHANGED <<mgr, directory, town, view, closed, binds>>

\* Who leads the party that i's projection becomes.
Heir(i) ==
    LET l == view[i.session].leader IN IF Online(l) THEN Identity(online[l]) ELSE i

\* The leader's identity is captured, and looked at again for its member record
\* (runtimePartyMemberForIdentity): the import ends if it was replaced meanwhile.
ImportCached(s) ==
    /\ Reached(s, "cached")
    /\ LET i == Head(job[s]).who
           v == view[i.session]
       IN \/ /\ v # NoView /\ Live(Heir(i))
             /\ Then(s, <<[op |-> "lead", leader |-> Heir(i),
                           users |-> v.users \ {Heir(i).user}]>>)
          \/ Then(s, <<>>)
    /\ UNCHANGED <<mgr, directory, town, view, got, closed, binds>>

ImportLeads(s) ==
    /\ Reached(s, "lead")
    /\ LET i == Head(job[s]).leader
       IN /\ \E n \in Limits : mgr' = EnsureLeaderOp(mgr, i.user, i.gen, n)
          /\ Then(s, IF IsLeader(mgr', i.user, i.gen)
                     THEN <<[op |-> "add", party |-> mgr'.byUser[i.user],
                             users |-> Head(job[s]).users]>>
                     ELSE <<>>)
    /\ UNCHANGED <<directory, town, view, got, closed, binds>>

\* The next cached member, whose identity is captured and looked at in the same
\* way, or is passed over; at last the party is published.
AddCached(s) ==
    /\ Reached(s, "add")
    /\ LET p == Head(job[s]).party
           S == Head(job[s]).users
           rest(u) == <<[op |-> "add", party |-> p, users |-> S \ {u}]>>
       IN \/ /\ S = {}
             /\ view' = Publish(view, mgr, p)
             /\ Returns(s, p) /\ Then(s, <<>>)
          \/ \E u \in S :
                /\ \/ /\ Online(u)
                      /\ Then(s, <<[op |-> "enlist", party |-> p,
                                    who |-> Identity(online[u])]>> \o rest(u))
                   \/ Then(s, rest(u))
                /\ UNCHANGED <<view, got>>
    /\ UNCHANGED <<mgr, directory, town, closed, binds>>

Enlist(s) ==
    /\ Reached(s, "enlist")
    /\ mgr' = JoinOp(mgr, Head(job[s]).party, Head(job[s]).who.user, Head(job[s]).who.gen)
    /\ Then(s, <<>>)
    /\ UNCHANGED <<directory, town, view, got, closed, binds>>

-----------------------------------------------------------------------------
(* Party commands *)

(* op12: handleSetPartyInfo changes the projection, then                   *)
(* ensureManagedRuntimePartyForSession.                                    *)
SetPartyInfo(s) ==
    /\ Idle(s) /\ char[s] # NoUser
    /\ view' = [view EXCEPT ![s] =
          [leader |-> char[s],
           users |-> {char[s]} \union (IF view[s] = NoView THEN {} ELSE view[s].users)]]
    /\ Begins(s, <<Do("ensure")>>)
    /\ UNCHANGED <<mgr, directory, town, closed, binds>>

EnsureManaged(s) ==
    /\ Reached(s, "ensure")
    /\ IF Bound(s) /\ Managed(s) /\ view[s] # NoView
       THEN /\ \E n \in Limits : mgr' = UpdateSettingsOp(mgr, char[s], gen[s], n)
            /\ view' = Publish(view, mgr', mgr.byUser[char[s]])
            /\ Then(s, <<>>)
       ELSE Then(s, ImportFirst(s)) /\ UNCHANGED <<mgr, view>>
    /\ UNCHANGED <<directory, town, got, closed, binds>>

\* handleOnlineRequestPeer; both characters are in town.
RequestPeer(s, v) ==
    /\ Idle(s) /\ Bound(s) /\ v # char[s]
    /\ town[char[s]] # NoSession /\ town[v] # NoSession
    /\ Online(v)
    /\ \E m \in Modes :
          mgr' = RecordInviteOp(mgr, v, gen[online[v]], char[s], gen[s], m)
    /\ UNCHANGED <<directory, town, view, job, got, closed, binds>>

\* handleOnlineResponsePeer; the answer may be no, or about something else.
ResponsePeer(s, v) ==
    /\ Idle(s) /\ Bound(s) /\ Online(v)
    /\ \E m \in Modes :
          /\ ConsumeOK(mgr, char[s], gen[s], v, gen[online[v]], m)
          /\ mgr' = ConsumeInviteOp(mgr, char[s], gen[s], v, gen[online[v]], m)
    /\ \/ Begins(s, <<[op |-> "meet", joiner |-> s, anchor |-> online[v]]>>)
       \/ UNCHANGED <<job, got>>
    /\ UNCHANGED <<directory, town, view, closed, binds>>

\* handleOnlineEntryIntoParty: the target joins the sender.
EntryIntoParty(s, v) ==
    /\ Idle(s) /\ Bound(s) /\ v # char[s] /\ online[v] # NoSession
    /\ Begins(s, <<[op |-> "meet", joiner |-> online[v], anchor |-> s]>>)
    /\ UNCHANGED <<mgr, directory, town, view, closed, binds>>

SeqExt == INSTANCE SequencesExt

\* The import of every session of the directory, one after the other.
ImportAll ==
    LET sessions == SeqExt!SetToSeq({online[u] : u \in {w \in Users : Online(w)}})
    IN [k \in DOMAIN sessions |-> [op |-> "import", of |-> sessions[k]]]

\* handleRuntimePartyDirectoryJoin, and handleRuntimePartyDirectoryRefresh,
\* which shows the parties after the imports: the same as joining none of them.
EnterWarroom(s, p) ==
    /\ Idle(s) /\ Bound(s)
    /\ Begins(s, ImportAll \o <<[op |-> "target", party |-> p]>>)
    /\ UNCHANGED <<mgr, directory, town, view, closed, binds>>

\* runtimePartyDirectoryTarget: the leader's session, unless s is a member.
DirectoryTarget(s) ==
    /\ Reached(s, "target")
    /\ LET P == mgr.parties[Head(job[s]).party]
       IN Then(s, IF P # NoParty /\ online[P.leader] # NoSession
                     /\ online[P.leader] # s /\ ~ HasMember(P, char[s])
                  THEN <<[op |-> "meet", joiner |-> s, anchor |-> online[P.leader]]>>
                  ELSE <<>>)
    /\ UNCHANGED <<mgr, directory, town, view, got, closed, binds>>

\* createOrJoinManagedRuntimeParty begins: both identities are captured.
Meet(s) ==
    /\ Reached(s, "meet")
    /\ LET j == Head(job[s]).joiner
           a == Head(job[s]).anchor
       IN Then(s, IF Bound(j) /\ Bound(a) /\ char[j] # char[a]
                  THEN <<[op |-> "import", of |-> a],
                         [op |-> "seat", joiner |-> Identity(j), anchor |-> Identity(a)]>>
                  ELSE <<>>)
    /\ UNCHANGED <<mgr, directory, town, view, got, closed, binds>>

JoinStep(p, i) == [op |-> "join", party |-> p, joiner |-> i]

SeatAnchor(s) ==
    /\ Reached(s, "seat")
    /\ LET i == Head(job[s]).joiner
           a == Head(job[s]).anchor
       IN \/ /\ got[s] = 0
             /\ \E n \in Limits : mgr' = EnsureLeaderOp(mgr, a.user, a.gen, n)
             /\ Then(s, IF IsLeader(mgr', a.user, a.gen)
                        THEN <<JoinStep(mgr'.byUser[a.user], i)>> ELSE <<>>)
          \/ /\ got[s] # 0
             /\ Then(s, (IF ~ Current(mgr, i.user, i.gen) /\ view[i.session] # NoView
                         THEN <<[op |-> "import", of |-> i.session]>> ELSE <<>>)
                        \o <<JoinStep(got[s], i)>>)
             /\ UNCHANGED mgr
    /\ Returns(s, 0)
    /\ UNCHANGED <<directory, town, view, closed, binds>>

\* The joiner's import may have put it into the party already.
JoinAnchor(s) ==
    /\ Reached(s, "join")
    /\ LET p == Head(job[s]).party
           i == Head(job[s]).joiner
           left == IF Current(mgr, i.user, i.gen) THEN Rest(mgr, mgr', i.user) ELSE 0
       IN /\ mgr' = IF got[s] = p THEN mgr ELSE JoinOp(mgr, p, i.user, i.gen)
          /\ view' = IF mgr' = mgr
                     THEN (IF got[s] = p THEN Publish(view, mgr, p) ELSE view)
                     ELSE Publish(PublishMembership(view, mgr', left), mgr', p)
    /\ Then(s, <<>>)
    /\ UNCHANGED <<directory, town, got, closed, binds>>

\* leaveManagedRuntimeParty after its check of the identity; a caller that must
\* be rid of the party clears the projection whatever the answer.
LeaveSteps(s, must) ==
    ImportFirst(s) \o <<[op |-> "leave", who |-> Identity(s), must |-> must]>>

\* handleOnlineLeaveParty
LeaveParty(s) ==
    /\ Idle(s) /\ Bound(s)
    /\ Begins(s, LeaveSteps(s, FALSE))
    /\ UNCHANGED <<mgr, directory, town, view, closed, binds>>

\* The identity is checked before the import, not again before the call.
LeaveChecks(s) ==
    /\ Reached(s, "check")
    /\ Then(s, IF Bound(s) THEN LeaveSteps(s, TRUE) ELSE <<>>)
    /\ view' = IF Bound(s) THEN view ELSE [view EXCEPT ![s] = NoView]
    /\ UNCHANGED <<mgr, directory, town, got, closed, binds>>

LeaveRuns(s) ==
    /\ Reached(s, "leave")
    /\ LET i == Head(job[s]).who
       IN IF Current(mgr, i.user, i.gen)
          THEN /\ mgr' = LeaveLocked(mgr, i.user, i.gen)
               /\ view' = PublishMembership(ClearView(view, i.user, i.gen), mgr',
                                            Rest(mgr, mgr', i.user))
          ELSE /\ UNCHANGED mgr
               /\ view' = IF Head(job[s]).must THEN [view EXCEPT ![s] = NoView]
                          ELSE ClearView(view, i.user, i.gen)
    /\ Then(s, <<>>)
    /\ UNCHANGED <<directory, town, got, closed, binds>>

\* handleOnlineWalkoutPartyMember and handleOnlineChangePartyHost
LeaderCommand(s, op, v) ==
    /\ Idle(s) /\ Bound(s) /\ v # char[s]
    /\ Begins(s, ImportFirst(s) \o <<[op |-> op, target |-> v]>>)
    /\ UNCHANGED <<mgr, directory, town, view, closed, binds>>

KickRuns(s) ==
    /\ Reached(s, "kick")
    /\ LET v == Head(job[s]).target
           p == mgr.byUser[char[s]]
           h == Member(mgr.parties[p], v).gen
       IN IF IsLeader(mgr, char[s], gen[s]) /\ Lists(mgr, p, v)
          THEN /\ mgr' = KickOp(mgr, char[s], gen[s], v, h)
               /\ view' = ClearView(PublishMembership(view, mgr', p), v, h)
          ELSE UNCHANGED <<mgr, view>>
    /\ Then(s, <<>>)
    /\ UNCHANGED <<directory, town, got, closed, binds>>

TransferRuns(s) ==
    /\ Reached(s, "transfer")
    /\ LET v == Head(job[s]).target
           p == mgr.byUser[char[s]]
           h == Member(mgr.parties[p], v).gen
       IN IF IsLeader(mgr, char[s], gen[s]) /\ Lists(mgr, p, v)
          THEN /\ mgr' = TransferLeaderOp(mgr, char[s], gen[s], v, h)
               /\ view' = Publish(view, mgr', mgr'.byUser[v])
          ELSE UNCHANGED <<mgr, view>>
    /\ Then(s, <<>>)
    /\ UNCHANGED <<directory, town, got, closed, binds>>

-----------------------------------------------------------------------------
(* Leaving the character *)

\* detachRuntimePartySession
Detach(s) ==
    /\ Reached(s, "detach")
    /\ Then(s, IF Bound(s) /\ (Managed(s) \/ view[s] # NoView)
               THEN ImportFirst(s) \o <<Do("check")>> ELSE <<>>)
    /\ UNCHANGED <<mgr, directory, town, view, got, closed, binds>>

\* resetGameSessionForCharacterSelect
ReturnSelectCharacter(s) ==
    /\ Idle(s) /\ char[s] # NoUser
    /\ Begins(s, <<Do("detach"), Do("deselect")>>)
    /\ UNCHANGED <<mgr, directory, town, view, closed, binds>>

Deselect(s) ==
    /\ Reached(s, "deselect")
    /\ online' = Dropped(s)
    /\ gen' = [gen EXCEPT ![s] = @ + 1]
    /\ char' = [char EXCEPT ![s] = NoUser]
    /\ Then(s, <<>>)
    /\ UNCHANGED <<mgr, lastGen, town, view, got, closed, binds>>

\* The connection ends: cleanupOnlinePlayer, then unbindGameSession.
Disconnect(s) ==
    /\ Idle(s)
    /\ closed' = closed \union {s}
    /\ town' = [u \in Users |-> IF u = char[s] /\ town[u] = s THEN NoSession ELSE town[u]]
    /\ Begins(s, IF char[s] = NoUser THEN <<>> ELSE <<Do("detach"), Do("unbind")>>)
    /\ UNCHANGED <<mgr, directory, view, binds>>

Unbind(s) ==
    /\ Reached(s, "unbind")
    /\ online' = Dropped(s)
    /\ gen' = [gen EXCEPT ![s] = @ + 1]
    /\ Then(s, <<>>)
    /\ UNCHANGED <<mgr, char, lastGen, town, view, got, closed, binds>>

-----------------------------------------------------------------------------
Continues(s) ==
    \/ BindReads(s) \/ BindPublishes(s) \/ Promote(s) \/ Rebind(s) \/ Renew(s)
    \/ Import(s) \/ ImportKnown(s) \/ ImportCached(s) \/ ImportLeads(s)
    \/ AddCached(s) \/ Enlist(s) \/ EnsureManaged(s)
    \/ DirectoryTarget(s) \/ Meet(s) \/ SeatAnchor(s) \/ JoinAnchor(s)
    \/ LeaveChecks(s) \/ LeaveRuns(s) \/ KickRuns(s) \/ TransferRuns(s)
    \/ Detach(s) \/ Deselect(s) \/ Unbind(s)

Command(s) ==
    \/ \E c \in Users :
          \/ SelectCharacter(s, c)
          \/ RequestPeer(s, c) \/ ResponsePeer(s, c) \/ EntryIntoParty(s, c)
          \/ \E op \in {"kick", "transfer"} : LeaderCommand(s, op, c)
    \/ \E p \in PartyIDs : EnterWarroom(s, p)
    \/ EnterTown(s) \/ SetPartyInfo(s) \/ LeaveParty(s)
    \/ ReturnSelectCharacter(s) \/ Disconnect(s)

SessionsNext == \E s \in Sessions : Command(s) \/ Continues(s)

SessionsSpec == SessionsInit /\ [][SessionsNext]_sessionVars

(***************************************************************************)
(* The windows in which the directory and the manager disagree.            *)
(***************************************************************************)
\* The session that speaks for u has been published and not yet been handed
\* the party, or has left the party and not yet given the character up.
Unsettled(u) ==
    \E s \in Sessions :
        /\ Bound(s) /\ char[s] = u /\ job[s] # <<>>
        /\ \/ Head(job[s]).op \in {"rebind", "renew", "unbind", "deselect"}
           \/ Head(job[s]).op \in {"bind", "publish"} /\ Head(job[s]).user # u

\* The session is still to be handed the party of its character.
Awaits(s) == Reached(s, "rebind") \/ Reached(s, "renew")

\* Another session speaks for c and has not been handed c's party yet.
HandoverPending(s, c) == online[c] \in Sessions \ {s} /\ Awaits(online[c])

\* The identity was replaced since it was captured, or is unsettled.
Doubtful(i) == ~ Live(i) \/ Unsettled(i.user)

\* The step enters a character into a party inside such a window, or with an
\* identity captured before the session changed; or it hands a party over from
\* a session that has moved on since it was replaced; or it replaces a session
\* that is itself waiting for the party.
InWindow(s) ==
    \/ Reached(s, "join") /\ Doubtful(Head(job[s]).joiner)
    \/ Reached(s, "seat") /\ Doubtful(Head(job[s]).anchor)
    \/ Reached(s, "lead") /\ Doubtful(Head(job[s]).leader)
    \/ Reached(s, "enlist") /\ Doubtful(Head(job[s]).who)
    \/ Reached(s, "rebind") /\ gen[Head(job[s]).prev] # Head(job[s]).was
    \/ /\ Reached(s, "publish") /\ HandoverPending(s, Head(job[s]).user)
       /\ Head(job[s]).resident # {online[Head(job[s]).user]}
    \/ Reached(s, "promote") /\ HandoverPending(s, char[s])

CalmNext ==
    \E s \in Sessions : Command(s) \/ (~ InWindow(s) /\ Continues(s))

CalmSpec == SessionsInit /\ [][CalmNext]_sessionVars

-----------------------------------------------------------------------------
(* Properties *)

Quiet == \A s \in Sessions : job[s] = <<>>

\* When no handler is running, everybody a party lists is online, with the
\* session that speaks for the character and under that session's generation:
\* a replaced, returned or closed connection leaves no member behind.
NoGhostMember ==
    Quiet => \A p \in PartyIDs, u \in Users :
        Lists(mgr, p, u) =>
            /\ Online(u)
            /\ Member(mgr.parties[p], u).gen = gen[online[u]]
=============================================================================
