----------------------------- MODULE PartyRelay -----------------------------
(***************************************************************************)
(* currentPartyUDPRelay (services/dnfbridge/party_udp_relay.go): one UDP   *)
(* socket per ordered pair of party members, and the handlers that keep    *)
(* the sockets in step with the parties (party_online.go).  A datagram     *)
(* that a member sends to its socket towards a peer leaves through the     *)
(* peer's socket towards that member.                                      *)
(*                                                                         *)
(* r.mu protects the table and the used ports; sockets are closed and      *)
(* read loops started after it is released.  One action is what a          *)
(* goroutine does between two locks or socket calls.  The party manager    *)
(* and the session directory are the variables party and gen.  A handler   *)
(* changes them and sends packets before it calls the relay: it may return *)
(* on a send error, and others may change the same party meanwhile.        *)
(***************************************************************************)
EXTENDS Integers, Sequences, FiniteSets, FiniteSetsExt

CONSTANTS
    Characters, Parties,
    Handlers,       \* goroutines that change parties and call the relay
    Hosts,          \* IPv4 addresses
    HostOf,         \* [bindings -> Hosts]: the address its TCP connection has
    Nats,           \* UDP source ports a client may send from
    Ports,          \* the configured port range
    NoEndpoint,     \* learnedEndpoint == nil
    MaxGen,         \* bound: generations of one session
    MaxMade,        \* bound: sockets opened in all
    MaxInFlight     \* bound: datagrams between a receive and its forward

ASSUME RelayAssumption ==
    /\ HostOf \in [[character : Characters, gen : 1 .. MaxGen] -> Hosts]
    /\ Ports \subseteq Nat /\ IsFiniteSet(Ports)
    /\ IsFiniteSet(Characters) /\ IsFiniteSet(Parties)
    /\ MaxGen \in Nat \ {0} /\ {MaxMade, MaxInFlight} \subseteq Nat

VARIABLES
    party,     \* [Parties -> members], as the manager has them; {} if none
    gen,       \* [Characters -> generation of the session that owns it]
    made,      \* sequence of every leg ever created
    table,     \* r.legs: [Keys -> index into made, 0 for none]
    used,      \* r.usedPorts
    closed,    \* r.closed
    owed,      \* [Handlers -> the relay calls it makes unless a send fails]
    hand,      \* [Handlers -> what it is about to do]
    closer,    \* the goroutine of Close
    loop,      \* the read loop of each leg
    adrift     \* history: parties whose sockets the last call did not put right

relayVars == <<made, table, used, closed, loop>>
vars == <<party, gen, relayVars, owed, hand, closer, adrift>>

Keys == {k \in Parties \X Characters \X Characters : k[2] # k[3]}

Opposite(key) == <<key[1], key[3], key[2]>>

Bindings == [character : Characters, gen : 1 .. MaxGen]

Endpoints == [host : Hosts, nat : Nats]

\* currentPartyUDPRelayLeg; the socket of a closed leg stays closed.
Legs == [key : Keys, binding : Bindings, port : Ports, open : BOOLEAN,
         learned : Endpoints \cup {NoEndpoint}]

Ids == 1 .. Len(made)

-----------------------------------------------------------------------------
(* What a handler does next.  members is its SnapshotByID, toClose and     *)
(* toStart are the legs Sync or CloseParty took with it when it unlocked.  *)
Idle == [at |-> "idle"]
Reading(p) == [at |-> "read", party |-> p]
Holding(p, members) == [at |-> "hold", party |-> p, members |-> members]
Bound(p, bindings) == [at |-> "bound", party |-> p, bindings |-> bindings]
Retiring(p) == [at |-> "retire", party |-> p]
Finishing(toClose, toStart) ==
    IF toClose = {} /\ toStart = {} THEN Idle
    ELSE [at |-> "finish", toClose |-> toClose, toStart |-> toStart]

(* The states of a read loop: not started, in ReadFromUDP, holding a       *)
(* datagram, holding it with the opposite leg, with the destination, ended.*)
Unborn == [at |-> "unborn"]
Receiving == [at |-> "receive"]
Ended == [at |-> "ended"]
InFlight == {i \in Ids : loop[i].at \in {"got", "found", "ready"}}

Init ==
    /\ party = [p \in Parties |-> {}]
    /\ gen = [c \in Characters |-> 1]
    /\ made = << >>
    /\ table = [k \in Keys |-> 0]
    /\ used = {}
    /\ closed = FALSE
    /\ owed = [h \in Handlers |-> {}]
    /\ hand = [h \in Handlers |-> Idle]
    /\ closer = Idle
    /\ loop = << >>
    /\ adrift = {}

-----------------------------------------------------------------------------
(* A manager call of a handler gives some parties other members: an entry  *)
(* (with the prior leave), a leave, a kick or a detach, a new id for a     *)
(* party whose leader left or handed over.  The handler then means to      *)
(* close the sockets of a party that has one member or none, which the     *)
(* projection no longer names, and to synchronise the others.              *)
Lone(members) == \A c, d \in members : c = d

CallFor(p, members) == [op |-> IF Lone(members) THEN "close" ELSE "sync", party |-> p]

Calls == [op : {"close", "sync"}, party : Parties]

Free(h) == hand[h] = Idle /\ owed[h] = {}

Change(h, new) ==
    /\ Free(h)
    /\ new # party
    /\ party' = new
    /\ owed' = [owed EXCEPT ![h] = {CallFor(p, new[p]) : p \in {q \in Parties : new[q] # party[q]}}]
    /\ UNCHANGED <<gen, relayVars, hand, closer, adrift>>

(* A member's character moves to a replacement session: its projection is  *)
(* published, the relay is not told.                                       *)
Reconnect(c) ==
    /\ gen[c] < MaxGen
    /\ gen' = [gen EXCEPT ![c] = @ + 1]
    /\ adrift' = adrift \cup {p \in Parties : c \in party[p]}
    /\ UNCHANGED <<party, relayVars, owed, hand, closer>>

(* A snapshot that is only sent again; the peer endpoints in it are built  *)
(* after a synchronisation.                                                *)
Publish(h, p) ==
    /\ Free(h)
    /\ party[p] # {}
    /\ hand' = [hand EXCEPT ![h] = Reading(p)]
    /\ UNCHANGED <<party, gen, relayVars, owed, closer, adrift>>

(* The handler reaches one of its calls. *)
Deliver(h) ==
    /\ hand[h] = Idle
    /\ \E call \in owed[h] :
         /\ hand' = [hand EXCEPT ![h] = IF call.op = "close" THEN Retiring(call.party)
                                        ELSE Reading(call.party)]
         /\ owed' = [owed EXCEPT ![h] = @ \ {call}]
    /\ UNCHANGED <<party, gen, relayVars, closer, adrift>>

(* A send fails first: the handler returns and its calls are never made.   *)
GiveUp(h) ==
    /\ hand[h] = Idle
    /\ owed[h] # {}
    /\ adrift' = adrift \cup {call.party : call \in owed[h]}
    /\ owed' = [owed EXCEPT ![h] = {}]
    /\ UNCHANGED <<party, gen, relayVars, hand, closer>>

(* Leave and detach close the party that the leaver's projection named,    *)
(* which a late publication may have made another one.                     *)
Misdirect(h, q) ==
    /\ hand[h] = Idle
    /\ \E call \in owed[h] :
         /\ call.op = "close" /\ call.party # q
         /\ adrift' = adrift \cup {call.party}
         /\ owed' = [owed EXCEPT ![h] = @ \ {call}]
    /\ hand' = [hand EXCEPT ![h] = Retiring(q)]
    /\ UNCHANGED <<party, gen, relayVars, closer>>

(* syncRuntimePartyUDPRelay: SnapshotByID. *)
Snapshot(h) ==
    /\ hand[h].at = "read"
    /\ LET p == hand[h].party
       IN  hand' = [hand EXCEPT ![h] = IF Lone(party[p]) THEN Idle
                                       ELSE Holding(p, party[p])]
    /\ UNCHANGED <<party, gen, relayVars, owed, closer, adrift>>

(* ... and the sessions of its members, by the directory of this moment. *)
BindingsOf(members) == {[character |-> c, gen |-> gen[c]] : c \in members}

ReadBindings(h) ==
    /\ hand[h].at = "hold"
    /\ hand' = [hand EXCEPT ![h] = Bound(hand[h].party, BindingsOf(hand[h].members))]
    /\ UNCHANGED <<party, gen, relayVars, owed, closer, adrift>>

(* ... one of which is gone, or has no IPv4 address: no Sync. *)
Refuse(h) ==
    /\ hand[h].at = "hold"
    /\ hand' = [hand EXCEPT ![h] = Idle]
    /\ adrift' = adrift \cup {hand[h].party}
    /\ UNCHANGED <<party, gen, relayVars, owed, closer>>

-----------------------------------------------------------------------------
WantedOf(p, bindings, key) ==
    CHOOSE b \in bindings : b.character = key[2]

Wanted(p, bindings) ==
    {k \in Keys : /\ k[1] = p
                  /\ \E b \in bindings : b.character = k[2]
                  /\ \E b \in bindings : b.character = k[3]}

\* Mutant: the session generation of the owner is not compared.
Kept_ByCharacter(p, bindings) == {k \in Wanted(p, bindings) : table[k] # 0}

Kept(p, bindings) ==
    {k \in Wanted(p, bindings) :
        table[k] # 0 /\ made[table[k]].binding = WantedOf(p, bindings, k)}

(* newLegLocked: ListenUDP fails for a port whose old socket is not closed *)
(* yet, although usedPorts has given it up.                                *)
Bindable == {n \in Ports \ used : \A i \in Ids : made[i].port = n => ~made[i].open}

RankIn(S, x, order) == Cardinality({y \in S : order[y] < order[x]}) + 1

\* A fixed order of a party's keys, for Go's arbitrary order of a map.
KeysOf(p) == {k \in Keys : k[1] = p}

KeyOrder ==
    [p \in Parties |->
        CHOOSE f \in [KeysOf(p) -> 1 .. Cardinality(KeysOf(p))] :
            \A j, k \in KeysOf(p) : j # k => f[j] # f[k]]

Lowest(S, n) == {x \in S : Cardinality({y \in S : y < x}) < n}

\* The legs of keys, in that order, on the lowest ports that can be bound.
NewLegs(p, bindings, keys) ==
    LET ports == Lowest(Bindable, Cardinality(keys))
        KeyAt(n) == CHOOSE k \in keys : RankIn(keys, k, KeyOrder[p]) = n
        PortAt(n) == CHOOSE x \in ports : Cardinality({y \in ports : y <= x}) = n
    IN  [n \in 1 .. Cardinality(keys) |->
            [key |-> KeyAt(n), binding |-> WantedOf(p, bindings, KeyAt(n)),
             port |-> PortAt(n), open |-> TRUE, learned |-> NoEndpoint]]

\* Mutant: a leg is compared by its pair and stays open after a reconnect.
Replaced_ByPair(p, bindings) ==
    {table[k] : k \in {k \in Keys : k[1] = p /\ table[k] # 0 /\ k \notin Wanted(p, bindings)}}

(* What Sync takes out of the table and closes when it has unlocked. *)
Replaced(p, bindings) ==
    {table[k] : k \in {k \in Keys : k[1] = p /\ table[k] # 0 /\ k \notin Kept(p, bindings)}}

(* The locked part of Sync, when every missing leg gets a port. *)
SyncLocked(p, bindings) ==
    LET fresh == Wanted(p, bindings) \ Kept(p, bindings)
        legs == NewLegs(p, bindings, fresh)
    IN  /\ made' = made \o legs
        /\ loop' = loop \o [n \in DOMAIN legs |-> Unborn]
        /\ table' = [k \in Keys |->
             IF k \in fresh
             THEN Len(made) + CHOOSE n \in DOMAIN legs : legs[n].key = k
             ELSE IF k[1] = p /\ k \notin Kept(p, bindings) THEN 0 ELSE table[k]]
        /\ used' = (used \ {made[i].port : i \in Replaced(p, bindings)})
                     \cup {legs[n].port : n \in DOMAIN legs}

\* Mutant: Sync does not look whether the relay has been closed.
MaySync_Closed == TRUE

MaySync == ~closed

Sync(h) ==
    /\ hand[h].at = "bound"
    /\ MaySync
    /\ LET p == hand[h].party
           bindings == hand[h].bindings
           fresh == Wanted(p, bindings) \ Kept(p, bindings)
           n == Cardinality(fresh)
       IN  /\ Len(made) + n <= MaxMade
           /\ n <= Cardinality(Bindable)
           /\ SyncLocked(p, bindings)
           /\ hand' = [hand EXCEPT ![h] = Finishing(Replaced(p, bindings),
                                                    Len(made) + 1 .. Len(made) + n)]
           /\ adrift' = IF bindings = BindingsOf(party[p]) THEN adrift \ {p} ELSE adrift \cup {p}
    /\ UNCHANGED <<party, gen, closed, owed, closer>>

(* Sync without enough ports releases what it had opened, and a closed     *)
(* relay takes nothing: the topology stays what it was.                    *)
SyncFails(h) ==
    /\ hand[h].at = "bound"
    /\ LET p == hand[h].party
           bindings == hand[h].bindings
       IN  /\ \/ closed
              \/ Cardinality(Wanted(p, bindings) \ Kept(p, bindings)) > Cardinality(Bindable)
           /\ adrift' = adrift \cup {p}
    /\ hand' = [hand EXCEPT ![h] = Idle]
    /\ UNCHANGED <<party, gen, relayVars, owed, closer>>

(* CloseParty, locked part: removePartyLocked.  The party may have got new *)
(* members since the handler decided to close its sockets.                 *)
CloseParty(h) ==
    /\ hand[h].at = "retire"
    /\ LET p == hand[h].party
           legs == {table[k] : k \in {k \in Keys : k[1] = p}} \ {0}
       IN  /\ table' = [k \in Keys |-> IF k[1] = p THEN 0 ELSE table[k]]
           /\ used' = used \ {made[i].port : i \in legs}
           /\ hand' = [hand EXCEPT ![h] = Finishing(legs, {})]
           /\ adrift' = IF Lone(party[p]) THEN adrift \ {p} ELSE adrift \cup {p}
    /\ UNCHANGED <<party, gen, made, closed, owed, closer, loop>>

(* After the unlock, one socket after the other: Close, then go readLoop.  *)
CloseSocket(h) ==
    /\ hand[h].at = "finish"
    /\ hand[h].toClose # {}
    /\ LET i == Min(hand[h].toClose)
       IN  /\ made' = [made EXCEPT ![i].open = FALSE]
           /\ hand' = [hand EXCEPT ![h] = Finishing(@.toClose \ {i}, @.toStart)]
    /\ UNCHANGED <<party, gen, table, used, closed, owed, closer, loop, adrift>>

StartLoop(h) ==
    /\ hand[h].at = "finish"
    /\ hand[h].toClose = {}
    /\ LET i == Min(hand[h].toStart)
       IN  /\ loop' = [loop EXCEPT ![i] = Receiving]
           /\ hand' = [hand EXCEPT ![h] = Finishing({}, @.toStart \ {i})]
    /\ UNCHANGED <<party, gen, made, table, used, closed, owed, closer, adrift>>

-----------------------------------------------------------------------------
(* Close: the locked part, the sockets, and wg.Wait for the read loops     *)
(* that have been started.                                                 *)
CloseRelay ==
    /\ ~closed
    /\ closed' = TRUE
    /\ closer' = [at |-> "closing", toClose |-> {table[k] : k \in Keys} \ {0}]
    /\ table' = [k \in Keys |-> 0]
    /\ used' = {}
    /\ UNCHANGED <<party, gen, made, owed, hand, loop, adrift>>

CloserCloses ==
    /\ closer.at = "closing"
    /\ closer.toClose # {}
    /\ LET i == Min(closer.toClose)
       IN  /\ made' = [made EXCEPT ![i].open = FALSE]
           /\ closer' = [closer EXCEPT !.toClose = @ \ {i}]
    /\ UNCHANGED <<party, gen, table, used, closed, owed, hand, loop, adrift>>

CloserWaits ==
    /\ closer.at = "closing"
    /\ closer.toClose = {}
    /\ \A i \in Ids : loop[i] \in {Unborn, Ended}
    /\ closer' = [at |-> "done"]
    /\ UNCHANGED <<party, gen, relayVars, owed, hand, adrift>>

-----------------------------------------------------------------------------
(* readLoop.  A datagram from another address than the owner's is dropped. *)
\* Mutant: the source address is not compared with that of the TCP session.
Admits_Anyone(i, from) == TRUE

Admits(i, from) == from.host = HostOf[made[i].binding]

Receive(i, from) ==
    /\ loop[i] = Receiving
    /\ made[i].open
    /\ Cardinality(InFlight) < MaxInFlight
    /\ Admits(i, from)
    /\ made' = [made EXCEPT ![i].learned = from]
    /\ loop' = [loop EXCEPT ![i] = [at |-> "got"]]
    /\ UNCHANGED <<party, gen, table, used, closed, owed, hand, closer, adrift>>

FindOpposite(i) ==
    /\ loop[i].at = "got"
    /\ LET j == table[Opposite(made[i].key)]
       IN  loop' = [loop EXCEPT ![i] = IF j = 0 THEN Receiving
                                       ELSE [at |-> "found", leg |-> j]]
    /\ UNCHANGED <<party, gen, made, table, used, closed, owed, hand, closer, adrift>>

ReadDestination(i) ==
    /\ loop[i].at = "found"
    /\ LET j == loop[i].leg
       IN  loop' = [loop EXCEPT ![i] =
                      IF made[j].learned = NoEndpoint THEN Receiving
                      ELSE [at |-> "ready", leg |-> j, to |-> made[j].learned]]
    /\ UNCHANGED <<party, gen, made, table, used, closed, owed, hand, closer, adrift>>

Forward(i) ==
    /\ loop[i].at = "ready"
    /\ made[loop[i].leg].open
    /\ loop' = [loop EXCEPT ![i] = Receiving]
    /\ UNCHANGED <<party, gen, made, table, used, closed, owed, hand, closer, adrift>>

(* WriteToUDP on a closed socket: logged, the datagram is lost. *)
ForwardFails(i) ==
    /\ loop[i].at = "ready"
    /\ ~made[loop[i].leg].open
    /\ loop' = [loop EXCEPT ![i] = Receiving]
    /\ UNCHANGED <<party, gen, made, table, used, closed, owed, hand, closer, adrift>>

EndLoop(i) ==
    /\ loop[i] = Receiving
    /\ ~made[i].open
    /\ loop' = [loop EXCEPT ![i] = Ended]
    /\ UNCHANGED <<party, gen, made, table, used, closed, owed, hand, closer, adrift>>

-----------------------------------------------------------------------------
HandlerStep(h) ==
    \/ Deliver(h) \/ GiveUp(h) \/ \E q \in Parties : Misdirect(h, q)
    \/ Snapshot(h) \/ ReadBindings(h) \/ Refuse(h) \/ Sync(h) \/ SyncFails(h)
    \/ CloseParty(h) \/ CloseSocket(h) \/ StartLoop(h)

\* The way of a received datagram through a read loop.
Datagram(i) == FindOpposite(i) \/ ReadDestination(i) \/ Forward(i) \/ ForwardFails(i)

LoopStep(i) == Datagram(i) \/ EndLoop(i)

Next ==
    \/ \E c \in Characters : Reconnect(c)
    \/ \E h \in Handlers :
         \/ \E new \in [Parties -> SUBSET Characters] : Change(h, new)
         \/ \E p \in Parties : Publish(h, p)
         \/ HandlerStep(h)
    \/ CloseRelay \/ CloserCloses \/ CloserWaits
    \/ \E i \in Ids : LoopStep(i) \/ \E from \in Endpoints : Receive(i, from)

Spec == Init /\ [][Next]_vars

(* Go runs goroutines that can run; a handler that has begun goes on.      *)
(* Nobody need change a party, send a datagram or close the relay.  What   *)
(* must happen must happen after Close, and nothing is assumed before.     *)
Fairness ==
    /\ \A h \in Handlers : WF_vars(closed /\ HandlerStep(h))
    /\ WF_vars(CloserCloses \/ CloserWaits)
    /\ WF_vars(closed /\ \E i \in Ids : LoopStep(i))

FairSpec == Spec /\ Fairness

-----------------------------------------------------------------------------
\* The records keep their shape and the ports their range.
TypeOK ==
    /\ party \in [Parties -> SUBSET Characters]
    /\ gen \in [Characters -> 1 .. MaxGen]
    /\ made \in Seq(Legs) /\ Len(made) <= MaxMade
    /\ table \in [Keys -> 0 .. Len(made)]
    /\ used \subseteq Ports
    /\ closed \in BOOLEAN
    /\ owed \in [Handlers -> SUBSET Calls]
    /\ DOMAIN hand = Handlers /\ DOMAIN loop = Ids
    /\ adrift \subseteq Parties

InTable == {table[k] : k \in Keys} \ {0}

\* Sockets that a handler or Close has taken out and will close.
Doomed ==
    (UNION {hand[h].toClose : h \in {g \in Handlers : hand[g].at = "finish"}})
      \cup (IF closer.at = "closing" THEN closer.toClose ELSE {})

(* usedPorts and the table name the same ports, no two open sockets share  *)
(* a port, and no failure or race leaves an open socket that nobody will   *)
(* close: replaced, rolled back and raced legs included.                   *)
SocketsAccounted ==
    /\ TypeOK
    /\ used = {made[i].port : i \in InTable}
    /\ \A i, j \in Ids : made[i].open /\ made[j].open /\ made[i].port = made[j].port => i = j
    /\ \A i \in Ids : made[i].open <=> i \in InTable \cup Doomed

\* What "exactly matches the current live party" means for the table.
Matches(p) ==
    LET bindings == BindingsOf(party[p])
    IN  \A k \in Keys : k[1] = p =>
          IF k \in Wanted(p, bindings)
          THEN table[k] # 0 /\ made[table[k]].binding = WantedOf(p, bindings, k)
          ELSE table[k] = 0

\* A handler has a call for p to make, or is in the middle of it.
Concerns(h, p) ==
    \/ \E call \in owed[h] : call.party = p
    \/ hand[h].at \in {"read", "hold", "bound", "retire"} /\ hand[h].party = p

(* When no handler has a call for a party before it, the directed sockets  *)
(* of the party are those of its present members in their present          *)
(* sessions.  Adrift it is only if the last that happened to it was one of *)
(* these: a send error or a refused reading kept a handler from its call;  *)
(* a stale projection made it close another party; a session was replaced; *)
(* Sync used a reading that was old by then; CloseParty came after the     *)
(* party was filled again; the ports ran out.  The next Sync on a present  *)
(* reading ends it.                                                        *)
RelayFollowsParty ==
    ~closed => \A p \in Parties \ adrift :
                 (\A h \in Handlers : ~Concerns(h, p)) => Matches(p)

(* A datagram leaves through the socket of the other direction and goes to *)
(* the address of the session this socket was opened for, however often    *)
(* the pair was torn down and opened again while a read loop held it.      *)
DatagramsFindThePeer ==
    \A i \in Ids : loop[i].at = "ready" =>
        LET peer == made[loop[i].leg]
        IN  /\ peer.key = Opposite(made[i].key)
            /\ peer.binding.character = made[i].key[3]
            /\ loop[i].to.host = HostOf[peer.binding]

(* Close ends, whatever handlers and read loops were doing. *)
CloseEnds == (closer.at = "closing") ~> (closer.at = "done")

=============================================================================
