----------------------------- MODULE ItemTrade -----------------------------
(***************************************************************************)
(* The town item trade of services/dnfbridge/item_trade_online.go.  Two    *)
(* characters put items and gold into a shared trade object, confirm twice *)
(* and the second final consent commits the durable exchange.              *)
(*                                                                         *)
(* Every game session runs its handlers one at a time on its own event     *)
(* loop; sessions run concurrently.  The registry itemTrades and the trade *)
(* objects are guarded by tradeMu, the session directory by Service.mu,    *)
(* the repositories by their transactions.  One action is what a handler   *)
(* does between two such boundaries, pc holds the locals that survive one. *)
(***************************************************************************)
EXTENDS ItemExchange, Functions, Sequences

CONSTANTS
    Chars,       \* character ids
    Sessions,    \* game sessions
    CharOf,      \* [Sessions -> Chars]: the character a session selects
    Offline,     \* a character without a session in gameSessions
    InitBag,     \* [Chars -> Bag]: the stored inventories at start
    InitGold,    \* [Chars -> Nat]: the stored wallets at start
    Amounts,     \* counts and gold amounts a move request can carry
    SellGold,    \* what the NPC shop pays for one item
    MaxShopGold, \* math.MaxInt32, the wallet limit of the NPC shop
    MaxTrades    \* bound: trades begun in a behaviour

VARIABLES
    trades,      \* the onlineItemTrade objects, in the order they were made
    itemTrades,  \* [Chars -> 0 .. MaxTrades]: the registry, 0 is nil
    bag,         \* stored inventories
    wallet,      \* stored Stats["gold"]
    online,      \* gameSessions
    selected,    \* sessions with a selected character
    pc,          \* [Sessions -> locals of the running handler]
    told,        \* the outcome packets written so far (op16 and op18)
    consent,     \* [trade, char] -> the offers and gold at final consent
    sold         \* [Items -> Nat]: sold to the NPC shop

vars == <<trades, itemTrades, bag, wallet, online, selected, pc, told,
          consent, sold>>

repository == <<bag, wallet, sold>>
directory == <<online, selected>>

AddingDone == 1
Ready == 3
AddRequest == 5

\* The states a client can ask for.  The fifth, currentItemTradeOfferAck, is
\* acknowledged and changes nothing.
Requests == {0, AddingDone, Ready, AddRequest}

idle == [at |-> "idle"]

ASSUME TradeAssumption ==
    /\ CharOf \in [Sessions -> Chars] /\ IsFiniteSet(Sessions)
    /\ Offline \notin Sessions
    /\ InitBag \in [Chars -> Bag]
    /\ InitGold \in [Chars -> 0 .. MaxGold]
    /\ Amounts \subseteq Nat \ {0}
    /\ SellGold \in Nat /\ MaxShopGold \in 0 .. MaxGold /\ MaxTrades \in Nat

Init ==
    /\ trades = <<>>
    /\ itemTrades = [c \in Chars |-> 0]
    /\ bag = InitBag
    /\ wallet = InitGold
    /\ online = [c \in Chars |-> Offline]
    /\ selected = {}
    /\ pc = [s \in Sessions |-> idle]
    /\ told = {}
    /\ consent = {}
    /\ sold = [i \in Items |-> 0]

-----------------------------------------------------------------------------
(* Helpers of the trade object. *)

Participants(t) == {trades[t].participants[1], trades[t].participants[2]}

(* onlineItemTrade.other *)
Other(t, c) == CHOOSE p \in Participants(t) : p # c

(* The session is free to run the next handler. *)
Free(s) == s \in selected /\ pc[s] = idle

\* Mutant: a confirmed side can still be edited.
Editable_AfterReady(c) ==
    /\ itemTrades[c] # 0
    /\ ~ trades[itemTrades[c]].committing

(* The caller's trade when its own side may still be edited. *)
Editable(c) ==
    /\ itemTrades[c] # 0
    /\ ~ trades[itemTrades[c]].committing
    /\ trades[itemTrades[c]].states[c] # Ready

Goto(s, next) == pc' = [pc EXCEPT ![s] = next]

(* clearOnlineItemTrade: only entries that still hold this trade go. *)
Cleared(t) == [c \in Chars |-> IF itemTrades[c] = t THEN 0 ELSE itemTrades[c]]

-----------------------------------------------------------------------------
(* beginOnlineItemTrade, from the acceptance of a trade request (op11).    *)
(* The area check comes before the lock.                                   *)
BeginCheck(s, peer) ==
    /\ Free(s)
    /\ online[CharOf[s]] = s
    /\ peer # CharOf[s] /\ online[peer] # Offline
    /\ Len(trades) + Cardinality({x \in Sessions : pc[x].at = "begin"}) < MaxTrades
    /\ Goto(s, [at |-> "begin", peer |-> peer])
    /\ UNCHANGED <<trades, itemTrades, repository, directory, told, consent>>

\* Mutant: only the entries of the two new participants are replaced.
Displaced_Own(c, peer) == {c, peer}

(* What begin removes: both entries of a trade either side is still in. *)
Displaced(c, peer) ==
    UNION {Participants(itemTrades[d]) : d \in {e \in {c, peer} : itemTrades[e] # 0}}

Begin(s) ==
    /\ pc[s].at = "begin"
    /\ LET c == CharOf[s]
           p == pc[s].peer
           both == {c, p}
       IN  /\ trades' = Append(trades,
                [participants |-> <<c, p>>,
                 offers |-> [d \in both |-> NoOffers],
                 gold |-> [d \in both |-> 0],
                 states |-> [d \in both |-> 0],
                 committing |-> FALSE])
           /\ itemTrades' = [d \in Chars |->
                IF d \in both THEN Len(trades) + 1
                ELSE IF d \in Displaced(c, p) THEN 0 ELSE itemTrades[d]]
    /\ Goto(s, idle)
    /\ UNCHANGED <<repository, directory, told, consent>>

-----------------------------------------------------------------------------
(* addOnlineItemTradeGold: wallet check, locked write, peer check. *)
GoldLoad(s, n) ==
    /\ Free(s)
    /\ itemTrades[CharOf[s]] # 0
    /\ n <= wallet[CharOf[s]]
    /\ Goto(s, [at |-> "gold", n |-> n])
    /\ UNCHANGED <<trades, itemTrades, repository, directory, told, consent>>

GoldLock(s) ==
    /\ pc[s].at = "gold"
    /\ LET c == CharOf[s]
           t == itemTrades[c]
       IN  \/ /\ ~ Editable(c)
              /\ Goto(s, idle)
              /\ UNCHANGED trades
           \/ /\ Editable(c)
              /\ trades' = [trades EXCEPT ![t].gold[c] = pc[s].n]
              /\ Goto(s, [at |-> "goldSet", trade |-> t,
                          prev |-> trades[t].gold[c]])
    /\ UNCHANGED <<itemTrades, repository, directory, told, consent>>

(* The peer is online and near: the deposit is acknowledged.  A failed     *)
(* write ends the connection.                                              *)
MoveAcked(s, t) ==
    /\ online[Other(t, CharOf[s])] # Offline
    /\ \E next \in {idle, [at |-> "detach"]} : Goto(s, next)
    /\ UNCHANGED <<trades, itemTrades, repository, directory, told, consent>>

GoldAck(s) ==
    /\ pc[s].at = "goldSet"
    /\ MoveAcked(s, pc[s].trade)

(* The peer left or moved away: the previous amount is put back. *)
GoldUndo(s) ==
    /\ pc[s].at = "goldSet"
    /\ LET c == CharOf[s]
           t == pc[s].trade
       IN  trades' = IF itemTrades[c] = t /\ ~ trades[t].committing
                     THEN [trades EXCEPT ![t].gold[c] = pc[s].prev]
                     ELSE trades
    /\ Goto(s, idle)
    /\ UNCHANGED <<itemTrades, repository, directory, told, consent>>

(* removeOnlineItemTradeGold *)
RemoveGold(s) ==
    /\ Free(s)
    /\ LET c == CharOf[s]
       IN  /\ Editable(c)
           /\ trades[itemTrades[c]].gold[c] > 0
           /\ trades' = [trades EXCEPT ![itemTrades[c]].gold[c] = 0]
    /\ \E next \in {idle, [at |-> "detach"]} : Goto(s, next)
    /\ UNCHANGED <<itemTrades, repository, directory, told, consent>>
-----------------------------------------------------------------------------
(* addOnlineItemTradeOffer: inventory check, locked write, peer check. *)
OfferLoad(s, slot, n) ==
    /\ Free(s)
    /\ itemTrades[CharOf[s]] # 0
    /\ LET stack == bag[CharOf[s]][slot]
       IN  /\ stack # Empty /\ stack.item \notin Untradeable
           /\ n <= stack.count
           /\ Goto(s, [at |-> "offer",
                       offer |-> [slot |-> slot, item |-> stack.item, count |-> n]])
    /\ UNCHANGED <<trades, itemTrades, repository, directory, told, consent>>

(* A free row is left and the source slot is not offered already. *)
OfferFits(rows, offer) ==
    /\ DOMAIN rows # Rows
    /\ \A r \in DOMAIN rows : rows[r].slot # offer.slot

OfferLock(s) ==
    /\ pc[s].at = "offer"
    /\ LET c == CharOf[s]
           t == itemTrades[c]
           rows == trades[t].offers[c]
           row == Min(Rows \ DOMAIN rows)
       IN  \/ /\ ~ (Editable(c) /\ OfferFits(rows, pc[s].offer))
              /\ Goto(s, idle)
              /\ UNCHANGED trades
           \/ /\ Editable(c) /\ OfferFits(rows, pc[s].offer)
              /\ trades' = [trades EXCEPT ![t].offers[c] =
                              [r \in DOMAIN rows \cup {row} |->
                                 IF r = row THEN pc[s].offer ELSE rows[r]]]
              /\ Goto(s, [at |-> "offerSet", trade |-> t, row |-> row])
    /\ UNCHANGED <<itemTrades, repository, directory, told, consent>>

OfferAcked(s) ==
    /\ pc[s].at = "offerSet"
    /\ MoveAcked(s, pc[s].trade)

(* removeOnlineItemTradeOfferState: the row goes from the trade the        *)
(* character is in now.                                                    *)
OfferUndo(s) ==
    /\ pc[s].at = "offerSet"
    /\ LET c == CharOf[s]
           t == itemTrades[c]
       IN  trades' = IF t # 0 /\ ~ trades[t].committing
                     THEN [trades EXCEPT ![t].offers[c] =
                             Restrict(@, DOMAIN @ \ {pc[s].row})]
                     ELSE trades
    /\ Goto(s, idle)
    /\ UNCHANGED <<itemTrades, repository, directory, told, consent>>

(* removeOnlineItemTradeOffer: the row goes even when the destination list *)
(* of the request is wrong and the client is answered with a failure.      *)
RemoveOffer(s, row) ==
    /\ Free(s)
    /\ LET c == CharOf[s]
           t == itemTrades[c]
       IN  /\ Editable(c)
           /\ row \in DOMAIN trades[t].offers[c]
           /\ trades' = [trades EXCEPT ![t].offers[c] =
                           Restrict(@, DOMAIN @ \ {row})]
    /\ \E next \in {idle, [at |-> "detach"]} : Goto(s, next)
    /\ UNCHANGED <<itemTrades, repository, directory, told, consent>>

-----------------------------------------------------------------------------
(* handleOnlineItemTradeState: which request moves the sender to which     *)
(* state.  AddRequest is both "adding complete" and, later, final consent. *)
Projected(v, mine) ==
    IF v = AddRequest THEN IF mine = 0 THEN AddingDone ELSE Ready ELSE v

Moves(v, mine, peer) ==
    \/ v \in {AddRequest, AddingDone} /\ mine = 0
    \/ /\ v \in {AddRequest, Ready}
       /\ mine = AddingDone /\ peer \in {AddingDone, Ready}
    \/ v = 0 /\ mine # Ready

\* Mutant: a final consent that is sent again is answered like the first.
Accepts_Resend(t, c, v) ==
    \/ Moves(v, trades[t].states[c], trades[t].states[Other(t, c)])
    \/ v = Ready /\ trades[t].states[c] = Ready

Accepts(t, c, v) ==
    /\ ~ trades[t].committing
    /\ Moves(v, trades[t].states[c], trades[t].states[Other(t, c)])

(* The second final consent makes its sender the one that commits.  When   *)
(* the acknowledgement cannot be written the handler returns before it     *)
(* does, and the connection ends.                                          *)
State(s, v) ==
    /\ Free(s)
    /\ LET c == CharOf[s]
           t == itemTrades[c]
           now == Projected(v, trades[t].states[c])
           both == now = Ready /\ trades[t].states[Other(t, c)] = Ready
       IN  /\ t # 0 /\ Accepts(t, c, v)
           /\ trades' = [trades EXCEPT ![t].states[c] = now,
                                       ![t].committing = both]
           /\ consent' = IF now = Ready
                         THEN consent \cup
                                {[trade |-> t, char |-> c,
                                  offers |-> trades[t].offers[c],
                                  gold |-> trades[t].gold[c]]}
                         ELSE consent
           /\ \E next \in {[at |-> "detach"],
                           IF both THEN [at |-> "commit", trade |-> t] ELSE idle} :
                Goto(s, next)
    /\ UNCHANGED <<itemTrades, repository, directory, told>>

-----------------------------------------------------------------------------
(* commitOnlineItemTrade.  The offers are read without the lock, which the *)
(* committing flag makes safe.  The transaction may also fail for reasons  *)
(* of its own: a repository error, a timeout, an item that has expired.    *)
Exchange(s) ==
    /\ pc[s].at = "commit"
    /\ LET t == pc[s].trade
           p == trades[t].participants[1]
           q == trades[t].participants[2]
           give == trades[t].offers
           pay == trades[t].gold
       IN  /\ ExchangeOK(bag[p], wallet[p], give[p], pay[p],
                         bag[q], wallet[q], give[q], pay[q])
           /\ bag' = [bag EXCEPT ![p] = Swapped(@, give[p], give[q]),
                                 ![q] = Swapped(@, give[q], give[p])]
           /\ wallet' = [wallet EXCEPT ![p] = @ - pay[p] + pay[q],
                                       ![q] = @ - pay[q] + pay[p]]
           /\ Goto(s, [at |-> "finish", trade |-> t])
    /\ UNCHANGED <<trades, itemTrades, directory, told, consent, sold>>

\* Mutant: a failed exchange returns without cancelling the trade.
ExchangeFails_NoCancel(s) ==
    /\ pc[s].at = "commit"
    /\ Goto(s, idle)
    /\ UNCHANGED <<trades, itemTrades, repository, directory, told, consent>>

ExchangeFails(s) ==
    /\ pc[s].at = "commit"
    /\ Goto(s, [at |-> "cancel", trade |-> pc[s].trade, then |-> idle])
    /\ UNCHANGED <<trades, itemTrades, repository, directory, told, consent>>

(* clearOnlineItemTrade, then op18 to the participants that are online, in *)
(* order; the first write that fails ends the handler and the connection.  *)
Finish(s) ==
    /\ pc[s].at = "finish"
    /\ LET t == pc[s].trade
           reachable == {c \in Participants(t) : online[c] # Offline}
           first == reachable \cap {trades[t].participants[1]}
       IN  /\ itemTrades' = Cleared(t)
           /\ \E reached \in {{}, first, reachable} :
                /\ told' = told \cup [trade : {t}, kind : {"finish"}, char : reached]
                /\ Goto(s, IF reached = reachable THEN idle ELSE [at |-> "detach"])
    /\ UNCHANGED <<trades, repository, directory, consent>>

(* cancelOnlineItemTrade clears the registry, then sends op16 to both      *)
(* sides; failed writes are ignored.  The rows op16 returns, which it has  *)
(* read without the lock, are left out.                                    *)
Cancel(s) ==
    /\ pc[s].at = "cancel"
    /\ itemTrades' = Cleared(pc[s].trade)
    /\ told' = told \cup
         [trade : {pc[s].trade}, kind : {"cancel"},
          char : {c \in Participants(pc[s].trade) : online[c] # Offline}]
    /\ Goto(s, pc[s].then)
    /\ UNCHANGED <<trades, repository, directory, consent>>

-----------------------------------------------------------------------------
(* The session side: bindGameSessionCharacter lets a second connection of  *)
(* a character run beside the resident one or replace it, promotion makes  *)
(* it resident, unbindGameSession detaches the trade of a resident.        *)
Connect(s) ==
    /\ s \notin selected
    /\ selected' = selected \cup {s}
    /\ \/ online' = [online EXCEPT ![CharOf[s]] = s]
       \/ online[CharOf[s]] # Offline /\ UNCHANGED online
    /\ UNCHANGED <<trades, itemTrades, repository, pc, told, consent>>

Promote(s) ==
    /\ Free(s)
    /\ online[CharOf[s]] # s
    /\ online' = [online EXCEPT ![CharOf[s]] = s]
    /\ UNCHANGED <<trades, itemTrades, repository, selected, pc, told, consent>>

Disconnect(s) ==
    /\ Free(s)
    /\ Goto(s, [at |-> "detach"])
    /\ UNCHANGED <<trades, itemTrades, repository, directory, told, consent>>

Detach(s) ==
    /\ pc[s].at = "detach"
    /\ Goto(s, [at |-> IF online[CharOf[s]] = s THEN "detachTrade" ELSE "unbind"])
    /\ UNCHANGED <<trades, itemTrades, repository, directory, told, consent>>

(* detachOnlineItemTrade *)
DetachTrade(s) ==
    /\ pc[s].at = "detachTrade"
    /\ LET t == itemTrades[CharOf[s]]
       IN  Goto(s, IF t = 0 THEN [at |-> "unbind"]
                   ELSE [at |-> "cancel", trade |-> t, then |-> [at |-> "unbind"]])
    /\ UNCHANGED <<trades, itemTrades, repository, directory, told, consent>>

Unbind(s) ==
    /\ pc[s].at = "unbind"
    /\ online' = [online EXCEPT ![CharOf[s]] = IF @ = s THEN Offline ELSE @]
    /\ selected' = selected \ {s}
    /\ Goto(s, idle)
    /\ UNCHANGED <<trades, itemTrades, repository, told, consent>>

(* resetGameSessionForCharacterSelect: the session leaves the directory    *)
(* and gives up its character; an open trade stays registered.             *)
ReturnToSelect(s) ==
    /\ Free(s)
    /\ online' = [online EXCEPT ![CharOf[s]] = IF @ = s THEN Offline ELSE @]
    /\ selected' = selected \ {s}
    /\ UNCHANGED <<trades, itemTrades, repository, pc, told, consent>>

(* commitCurrentNPCShopSell, a repository transaction of the owner's own   *)
(* session: offered items and gold stay usable while a trade is open.      *)
Sell(s, slot, n) ==
    /\ Free(s)
    /\ LET c == CharOf[s]
           stack == bag[c][slot]
           applied == Min({n, stack.count})
           gain == SellGold * applied
       IN  /\ stack # Empty
           /\ wallet[c] + gain <= MaxShopGold
           /\ bag' = [bag EXCEPT ![c][slot] =
                        IF applied = stack.count THEN Empty
                        ELSE [stack EXCEPT !.count = @ - applied]]
           /\ wallet' = [wallet EXCEPT ![c] = @ + gain]
           /\ sold' = [sold EXCEPT ![stack.item] = @ + applied]
    /\ UNCHANGED <<trades, itemTrades, directory, pc, told, consent>>

-----------------------------------------------------------------------------
(* What a handler that has started still has to do. *)
Continue(s) ==
    \/ Begin(s)
    \/ GoldLock(s) \/ GoldAck(s) \/ GoldUndo(s)
    \/ OfferLock(s) \/ OfferAcked(s) \/ OfferUndo(s)
    \/ Exchange(s) \/ ExchangeFails(s) \/ Finish(s)
    \/ Cancel(s)
    \/ Detach(s) \/ DetachTrade(s) \/ Unbind(s)

(* A packet, a connection or its end. *)
Arrive(s) ==
    \/ \E peer \in Chars : BeginCheck(s, peer)
    \/ \E n \in Amounts : GoldLoad(s, n)
    \/ RemoveGold(s)
    \/ \E slot \in Slots, n \in Amounts : OfferLoad(s, slot, n)
    \/ \E row \in Rows : RemoveOffer(s, row)
    \/ \E v \in Requests : State(s, v)
    \/ \E slot \in Slots, n \in Amounts : Sell(s, slot, n)
    \/ Connect(s) \/ Promote(s) \/ Disconnect(s) \/ ReturnToSelect(s)

Next == \E s \in Sessions : Arrive(s) \/ Continue(s)

Spec == Init /\ [][Next]_vars

(* Handlers run to their end: every repository call and every write has a  *)
(* deadline, so an event loop that has started one finishes it.            *)
FairSpec == Spec /\ \A s \in Sessions : WF_vars(Continue(s))
-----------------------------------------------------------------------------
(* Properties *)

TradeTypeOK(t) ==
    LET trade == trades[t]
    IN  /\ DOMAIN trade = {"participants", "offers", "gold", "states", "committing"}
        /\ trade.participants \in Chars \X Chars
        /\ DOMAIN trade.offers = Participants(t)
        /\ \A c \in Participants(t) : IsOffers(trade.offers[c])
        /\ trade.gold \in [Participants(t) -> Nat]
        /\ trade.states \in [Participants(t) -> {0, AddingDone, Ready}]
        /\ trade.committing \in BOOLEAN

(* The variables have their types: stored stacks are never empty or        *)
(* negative and wallets stay within the 64-bit range.                      *)
TypeOK ==
    /\ DOMAIN trades = 1 .. Len(trades) /\ Len(trades) <= MaxTrades
    /\ \A t \in DOMAIN trades : TradeTypeOK(t)
    /\ itemTrades \in [Chars -> 0 .. Len(trades)]
    /\ bag \in [Chars -> Bag]
    /\ wallet \in [Chars -> 0 .. MaxGold]
    /\ online \in [Chars -> Sessions \cup {Offline}]
    /\ selected \subseteq Sessions
    /\ sold \in [Items -> Nat]

(* The state keeps its shape, and a registered trade is registered for     *)
(* both of its participants and for nobody else (beginOnlineItemTrade,     *)
(* clearOnlineItemTrade), so a handler that finds a trade through one side *)
(* finds the peer in the same trade.                                       *)
RegistrySymmetric ==
    /\ TypeOK
    /\ \A c \in Chars :
         itemTrades[c] # 0 =>
             /\ c \in Participants(itemTrades[c])
             /\ \A d \in Participants(itemTrades[c]) : itemTrades[d] = itemTrades[c]

(* A commit takes from each participant exactly what that participant had  *)
(* offered when it gave final consent, whatever was added, withdrawn or    *)
(* rolled back around it (the committing and Ready guards of every edit).  *)
ConsentHolds ==
    \A s \in Sessions : pc[s].at = "commit" =>
        LET t == pc[s].trade
        IN  \A c \in Participants(t) :
              [trade |-> t, char |-> c, offers |-> trades[t].offers[c],
               gold |-> trades[t].gold[c]] \in consent

(* No trade is exchanged twice: one session at most is between the second  *)
(* consent and the answer, and none starts after the exchange was answered *)
(* (the committing flag of handleOnlineItemTradeState).                    *)
ExchangedOnce ==
    \A s \in Sessions : pc[s].at = "commit" =>
        /\ \A r \in Sessions \ {s} :
             pc[r].at \in {"commit", "finish"} => pc[r].trade # pc[s].trade
        /\ \A m \in told : m.kind = "finish" => m.trade # pc[s].trade

(* The trade keeps the promise of the ledger: stored assets move only by a *)
(* conserving swap of two characters or by a sale of their owner, for      *)
(* every interleaving of edits, sales, disconnects and commits.            *)
Ledger ==
    INSTANCE TradeLedger WITH
        Chars <- Chars, Items <- Items, Holding <- Holding,
        InitBag <- InitBag, InitGold <- InitGold, bag <- bag, wallet <- wallet
LedgerSpec == Ledger!Spec

(* A trade both sides have agreed to leaves the registry: it is exchanged, *)
(* cancelled or dropped with its session, and never blocks its             *)
(* participants for good (commitOnlineItemTrade, detachOnlineItemTrade).   *)
CommitResolves ==
    \A t \in 1 .. MaxTrades :
        (t <= Len(trades) /\ trades[t].committing)
          ~> \A c \in Chars : itemTrades[c] # t

(* item_trade_online.go, handleOnlineItemTradeState: the second consent "is *)
(* followed directly by the atomic op18 completion (or the existing op16   *)
(* rollback on failure)": a participant is told one of the two.            *)
OneOutcome ==
    \A m, n \in told :
        m.trade = n.trade /\ m.char = n.char => m.kind = n.kind
=============================================================================
