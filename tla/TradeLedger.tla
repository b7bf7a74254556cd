---------------------------- MODULE TradeLedger ----------------------------
(***************************************************************************)
(* What the item trade promises about durable assets, without sessions,    *)
(* trade objects or packets: stored gold and items change only when one    *)
(* owner sells to the shop or when exactly two characters swap, and a swap *)
(* neither makes nor destroys anything.                                    *)
(***************************************************************************)
EXTENDS Integers

CONSTANTS
    Chars, Items,
    Holding(_, _),   \* how many of an item a bag holds
    InitBag, InitGold

VARIABLES bag, wallet

Init == bag = InitBag /\ wallet = InitGold

Untouched(others) ==
    \A c \in others : bag'[c] = bag[c] /\ wallet'[c] = wallet[c]

(* Both participants together own what they owned before. *)
Swap(p, q) ==
    /\ p # q
    /\ wallet'[p] + wallet'[q] = wallet[p] + wallet[q]
    /\ wallet'[p] >= 0 /\ wallet'[q] >= 0
    /\ \A i \in Items :
         Holding(bag'[p], i) + Holding(bag'[q], i)
           = Holding(bag[p], i) + Holding(bag[q], i)
    /\ Untouched(Chars \ {p, q})

(* One owner gives items away and is not charged for it. *)
Sell(c) ==
    /\ wallet'[c] >= wallet[c]
    /\ \A i \in Items : Holding(bag'[c], i) <= Holding(bag[c], i)
    /\ Untouched(Chars \ {c})

Next ==
    \/ \E p, q \in Chars : Swap(p, q)
    \/ \E c \in Chars : Sell(c)

Spec == Init /\ [][Next]_<<bag, wallet>>
=============================================================================
