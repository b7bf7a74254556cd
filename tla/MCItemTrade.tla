---------------------------- MODULE MCItemTrade ----------------------------
(* Small instances of ItemTrade for TLC. *)
EXTENDS ItemTrade, TLC

CONSTANTS ca, cb, cc, x, y, sa, sa2, sb, sc

\* sa2 is a second connection of ca.
MCCharOf == (sa :> ca) @@ (sa2 :> ca) @@ (sb :> cb) @@ (sc :> cc)
CharOfSessions == [s \in Sessions |-> MCCharOf[s]]

\* Every slot is of the same page.
OnePage == [s \in Slots |-> 1]

\* ca has two of one item, cb one of another, and there is room for one stack.
StackX == (1 :> [item |-> x, count |-> 2]) @@ (2 :> Empty)
StackY == (1 :> [item |-> y, count |-> 1]) @@ (2 :> Empty)
BagsXY == (ca :> StackX) @@ (cb :> StackY)

\* Nobody has any item.
BagsEmpty == [d \in Chars |-> [s \in Slots |-> Empty]]

\* One coin for ca, nothing for the others; MaxGold leaves no room for more.
OneCoin == [d \in Chars |-> IF d = ca THEN 1 ELSE 0]
NoCoin == [d \in Chars |-> 0]
=============================================================================
