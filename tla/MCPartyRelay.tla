---------------------------- MODULE MCPartyRelay ----------------------------
(* Two party ids for three characters behind two addresses, two handlers.  *)
(* A party is formed first; what follows overlaps.                         *)
EXTENDS PartyRelay

CONSTANTS a, b, c, near, far,
    MaxChanges   \* bound: changes, publications, reconnections and Close

VARIABLE changes

\* b comes back from another address.
HostOfVal ==
    [x \in [character : Characters, gen : 1 .. MaxGen] |->
        IF x.character = a \/ (x.character = b /\ x.gen = 2) THEN near ELSE far]

MCInit == Init /\ changes = 0

\* Of the handlers that can begin something, any is as good as the first.
FirstFree(h) == Free(h) /\ \A g \in Handlers : g < h => ~Free(g)

Formed == /\ changes = 0
          /\ \E h \in Handlers : FirstFree(h) /\ Change(h, [party EXCEPT ![1] = {a, b}])

Members == UNION {party[p] : p \in Parties}

\* A character enters, one other than the leader leaves or moves to another
\* party, or the leader hands over or leaves and the id is replaced.
Ordinary(new) ==
    \/ \E p \in Parties, x \in Characters \ Members :
         party[p] # {} /\ new = [party EXCEPT ![p] = @ \cup {x}]
    \/ \E p \in Parties : \E x \in party[p] \ {a} : new = [party EXCEPT ![p] = @ \ {x}]
    \/ \E p, q \in Parties : \E x \in party[p] \ {a} :
         p # q /\ party[q] # {} /\ new = [party EXCEPT ![p] = @ \ {x}, ![q] = @ \cup {x}]
    \/ \E p, q \in Parties : \E members \in {party[p], party[p] \ {a}} :
         /\ p # q /\ party[q] = {} /\ members # {}
         /\ new = [party EXCEPT ![p] = {}, ![q] = members]

Follows ==
    \/ \E h \in {g \in Handlers : FirstFree(g)} :
         \/ \E new \in [Parties -> SUBSET Characters] : Ordinary(new) /\ Change(h, new)
         \/ \E p \in Parties : Publish(h, p)
    \/ \E x \in Members : Reconnect(x)
    \/ CloseRelay

Starts ==
    /\ changes < MaxChanges
    /\ changes' = changes + 1
    /\ \/ Formed
       \/ changes = 1 /\ (\A h \in Handlers : Free(h)) /\ Follows
       \/ changes > 1 /\ Follows

\* Two of the characters send datagrams to each other before the last change;
\* it may find some on their way.
Talks(i) == changes < MaxChanges /\ made[i].key[2] # c /\ made[i].key[3] # c

\* The loop of a closed socket can only end, which nobody but Close notices:
\* the first of them ends before anything else happens.
CanEnd(i) == loop[i] = Receiving /\ ~made[i].open
FirstToEnd(i) == \A j \in 1 .. i - 1 : ~CanEnd(j)

Other ==
    \/ Starts
    \/ /\ UNCHANGED changes
       /\ \/ \E h \in Handlers : HandlerStep(h)
          \/ CloserCloses \/ CloserWaits
          \/ \E i \in Ids : \/ Datagram(i)
                            \/ Talks(i) /\ \E from \in Endpoints : Receive(i, from)

MCNext ==
    \/ UNCHANGED changes /\ \E i \in Ids : FirstToEnd(i) /\ EndLoop(i)
    \/ (\A i \in Ids : ~CanEnd(i)) /\ Other

MCSpec == MCInit /\ [][MCNext]_<<vars, changes>> /\ Fairness
=============================================================================
