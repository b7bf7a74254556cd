---------------------------- MODULE ItemExchange ----------------------------
(***************************************************************************)
(* The durable two-character exchange of internal/modules/dnf/itemtrade:   *)
(* Owner.Exchange validates the offers of both participants against the    *)
(* stored inventories and wallets, takes every offered quantity out, finds *)
(* a slot for every incoming stack and saves both sides in one transaction.*)
(*                                                                         *)
(* A bag maps a slot (list and index) to a stack or Empty.  Offers map the *)
(* rows of the trade container to what the row offers.  An operator that   *)
(* fails in the code has a companion ...OK here.                           *)
(***************************************************************************)
EXTENDS Integers, FiniteSetsExt

CONSTANTS
    Slots,        \* slot indices of the bag, a set of naturals
    PageOf,       \* [Slots -> pages]: the bag page of a slot
    NoPage,       \* the slots no page holds (destinationSlotRange refuses them)
    Items,        \* PVF item ids
    Untradeable,  \* the items that are bound, expired or account shared
    FirstRow,     \* currentItemTradeOfferFirst
    LastRow,      \* currentItemTradeOfferLast
    MaxGold,      \* math.MaxInt64
    Empty,        \* a slot without a stack
    Full          \* the result of an allocation that finds no slot

Rows == FirstRow .. LastRow

Stack == [item : Items, count : Nat \ {0}]

Bag == [Slots -> Stack \cup {Empty}]

Offer == [slot : Slots, item : Items, count : Nat \ {0}]

IsOffers(f) ==
    /\ DOMAIN f \subseteq Rows
    /\ f \in [DOMAIN f -> Offer]

NoOffers == [r \in {} |-> Empty]

ASSUME ExchangeAssumption ==
    /\ Slots \subseteq Nat /\ IsFiniteSet(Slots)
    /\ PageOf \in [Slots -> {NoPage} \cup {PageOf[s] : s \in Slots}]
    /\ FirstRow \in Nat /\ LastRow \in Nat /\ FirstRow <= LastRow
    /\ MaxGold \in Nat
    /\ Untradeable \subseteq Items
    /\ Empty \notin Stack /\ Full \notin Bag

-----------------------------------------------------------------------------
\* Mutant: only one of the rows of a slot is counted.
Asked_OneRow(offers, slot) ==
    LET rows == {r \in DOMAIN offers : offers[r].slot = slot}
    IN  IF rows = {} THEN 0 ELSE offers[Max(rows)].count

(* What the offers ask of one source slot (sourceCounts). *)
Asked(offers, slot) ==
    MapThenSumSet(LAMBDA r : offers[r].count,
                  {r \in DOMAIN offers : offers[r].slot = slot})

(* validateOffers: the offered item is still in its slot, may be traded,   *)
(* and the rows together do not ask for more than the stack holds.         *)
OffersOK(bag, offers) ==
    \A r \in DOMAIN offers :
        LET slot == offers[r].slot
        IN  /\ bag[slot] # Empty
            /\ bag[slot].item = offers[r].item
            /\ bag[slot].item \notin Untradeable
            /\ Asked(offers, slot) <= bag[slot].count

\* Mutant: a split stack leaves its slot as a whole.
Withdraw_WholeStack(bag, offers) ==
    [s \in Slots |-> IF Asked(offers, s) = 0 THEN bag[s] ELSE Empty]

(* Every outgoing quantity is removed before incoming slots are assigned. *)
Withdraw(bag, offers) ==
    [s \in Slots |->
        LET n == Asked(offers, s)
        IN  CASE n = 0 -> bag[s]
              [] n # 0 /\ n = bag[s].count -> Empty
              [] OTHER -> [bag[s] EXCEPT !.count = @ - n]]

(* destinationSlotRange: the free slots of the page the item came from. *)
FreeSlots(bag, source) ==
    {s \in Slots : /\ PageOf[source] # NoPage
                   /\ PageOf[s] = PageOf[source]
                   /\ bag[s] = Empty}

(* allocateDestinationSlot for every incoming row in row order. *)
Deposit(bag, offers) ==
    LET put[r \in (FirstRow - 1) .. LastRow] ==
          IF r < FirstRow THEN bag
          ELSE LET sofar == put[r - 1]
               IN  IF r \notin DOMAIN offers \/ sofar = Full THEN sofar
                   ELSE LET free == FreeSlots(sofar, offers[r].slot)
                        IN  IF free = {} THEN Full
                            ELSE [sofar EXCEPT ![Min(free)] =
                                    [item |-> offers[r].item,
                                     count |-> offers[r].count]]
    IN  put[LastRow]

(* The inventory of a participant after both directions of the exchange. *)
Swapped(bag, given, received) == Deposit(Withdraw(bag, given), received)

(* The wallet check: enough gold, and room for the gold that comes in. *)
GoldOK(gold, given, received) ==
    /\ given <= gold
    /\ received <= MaxGold - (gold - given)

(* Exchange commits when both sides pass; otherwise nothing is saved. *)
ExchangeOK(bagP, goldP, offersP, payP, bagQ, goldQ, offersQ, payQ) ==
    /\ payP > 0 \/ payQ > 0 => /\ GoldOK(goldP, payP, payQ)
                               /\ GoldOK(goldQ, payQ, payP)
    /\ OffersOK(bagP, offersP)
    /\ OffersOK(bagQ, offersQ)
    /\ Swapped(bagP, offersP, offersQ) # Full
    /\ Swapped(bagQ, offersQ, offersP) # Full

(* How many of an item a bag holds. *)
Holding(bag, item) ==
    MapThenSumSet(LAMBDA s : bag[s].count,
                  {s \in Slots : bag[s] # Empty /\ bag[s].item = item})
=============================================================================
