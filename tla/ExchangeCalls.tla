--------------------------- MODULE ExchangeCalls ----------------------------
(***************************************************************************)
(* Every call of Exchange over small bags and offers, next to what its     *)
(* comments promise.  A call picks the stored bags and the offers of two   *)
(* participants p and q; the answer is the pair of bags that is saved, or  *)
(* the old pair when the exchange is refused.                              *)
(***************************************************************************)
EXTENDS ItemExchange

CONSTANTS
    ItemP, ItemQ,   \* what the participants own
    Counts

VARIABLES call, answer

callVars == <<call, answer>>

\* p owns stacks of ItemP and q owns single ItemQ, so stacks tell where they
\* come from.
Bags(item, counts) == [Slots -> [item : {item}, count : counts] \cup {Empty}]

OfferSets(rows, items) ==
    UNION {[d -> [slot : Slots, item : items, count : Counts]] : d \in SUBSET rows}

Unanswered == "unanswered"

CallsInit ==
    /\ \E bagP \in Bags(ItemP, Counts), bagQ \in Bags(ItemQ, {1}),
          offersP \in OfferSets(FirstRow .. LastRow, {ItemP}),
          offersQ \in OfferSets({FirstRow}, {ItemP, ItemQ}) :
         call = [bagP |-> bagP, bagQ |-> bagQ, offersP |-> offersP, offersQ |-> offersQ]
    /\ answer = Unanswered

Agreed ==
    ExchangeOK(call.bagP, 0, call.offersP, 0, call.bagQ, 0, call.offersQ, 0)

Answer ==
    /\ answer = Unanswered
    /\ answer' = IF Agreed
                 THEN <<Swapped(call.bagP, call.offersP, call.offersQ),
                        Swapped(call.bagQ, call.offersQ, call.offersP)>>
                 ELSE <<call.bagP, call.bagQ>>
    /\ UNCHANGED call

-----------------------------------------------------------------------------
\* What comes to stand on a page where it did not stand before.
Arrived(before, after, item, page) ==
    MapThenSumSet(LAMBDA s : after[s].count,
        {s \in Slots : /\ PageOf[s] = page /\ after[s] # Empty /\ after[s].item = item
                       /\ before[s] = Empty \/ before[s].item # item})

PageKept(page) ==
    Arrived(call.bagQ, answer[2], ItemP, page)
      = MapThenSumSet(LAMBDA r : call.offersP[r].count,
          {r \in DOMAIN call.offersP : PageOf[call.offersP[r].slot] = page})

\* "This lets a full inventory complete a one-for-one exchange without a
\* transient capacity failure" (Exchange): whole stacks of the same page trade
\* places however full the bags are.
OneForOne ==
    LET r == FirstRow
    IN  /\ DOMAIN call.offersP = {r} /\ DOMAIN call.offersQ = {r}
        /\ PageOf[call.offersP[r].slot] = PageOf[call.offersQ[r].slot]
        /\ PageOf[call.offersP[r].slot] # NoPage
        /\ call.bagP[call.offersP[r].slot] = [item |-> ItemP, count |-> call.offersP[r].count]
        /\ call.bagQ[call.offersQ[r].slot] = [item |-> ItemQ, count |-> call.offersQ[r].count]
        /\ call.offersQ[r].item = ItemQ

(* Owner.Exchange makes and destroys nothing, for any offers: rows that    *)
(* share a source slot, split stacks, stale items, bags without room.      *)
(* What arrives, page by page, is what was offered from that page          *)
(* (destinationSlotRange: "keeps an incoming item in the same              *)
(* current-client bag page as its source"), no stack that stayed was       *)
(* overwritten to make room for it, and a one-for-one exchange is never    *)
(* refused.                                                                *)
Conserves ==
    answer # Unanswered =>
        /\ \A i \in {ItemP, ItemQ} :
             Holding(answer[1], i) + Holding(answer[2], i)
               = Holding(call.bagP, i) + Holding(call.bagQ, i)
        /\ Agreed => /\ \A s \in Slots : PageKept(PageOf[s])
                     /\ \A s \in Slots : Asked(call.offersQ, s) = 0 /\ call.bagQ[s] # Empty
                                          => answer[2][s] = call.bagQ[s]
        /\ OneForOne => Agreed
=============================================================================
