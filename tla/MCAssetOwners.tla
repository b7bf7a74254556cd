--------------------------- MODULE MCAssetOwners ---------------------------
(* Two scenes.  A small instance of AssetOwners: two characters of one     *)
(* account, a quick slot, a page of two slots and an account-shared slot   *)
(* in the main list.  And every call of Exchange by itself, over bags of   *)
(* two slots of one page and one of another.                               *)
EXTENDS AssetOwners

CONSTANTS
    ann, bob,              \* characters
    potion, sword, stone,  \* items: stackable to 2, single, the material
    goods,                 \* the page of the two slots
    MaxCommands            \* bound: the commands of one behaviour

VARIABLES commands, call, answer

Calls == INSTANCE ExchangeCalls
         WITH Slots <- {1, 2, 3}, PageOf <- [s \in {1, 2, 3} |-> IF s = 3 THEN 2 ELSE 1],
              LastRow <- 2, ItemP <- potion, ItemQ <- sword

Quick == 3
Near == 9
Far == 10
Common == 354

SlotsVal == {Quick, Near, Far, Common}
PageOfVal == [s \in SlotsVal |-> IF s \in {Near, Far} THEN goods ELSE NoPage]
HomePageVal == [i \in Items |-> goods]
LimitVal == (potion :> 2) @@ (sword :> 1) @@ (stone :> 0)
SortRankVal == (sword :> 1) @@ (potion :> 2) @@ (stone :> 3)
PriceVal == (sword :> 2) @@ (potion :> 1) @@ (stone :> 0)
TiersVal == <<1, 2, 3, 4>>
UpgradeCostVal == <<[kind |-> "gold", amount |-> 1], [kind |-> "cera", amount |-> 1],
                    [kind |-> "stone", amount |-> 2]>>

Of(i, n) == [item |-> i, count |-> n]

Filled(f) == [cell \in Cells |-> IF cell \in DOMAIN f THEN f[cell] ELSE Empty]

\* No row yet, or a letter an older version claimed without clearing it next
\* to one that waits to be claimed.
Legacy == [gold |-> 0, items |-> <<Of(potion, 1)>>, system |-> FALSE, claimed |-> TRUE,
           saved |-> FALSE, deleted |-> FALSE, born |-> 0, expire |-> 0 + Lifetime]

Waiting == [gold |-> 1, items |-> <<Of(potion, 1), Of(sword, 1)>>, system |-> FALSE,
            claimed |-> FALSE, saved |-> FALSE, deleted |-> FALSE, born |-> 0,
            expire |-> 0 + Lifetime]

NoMail == [c \in Characters |-> Missing]

Vaulted(tier, pay) == [gold |-> pay, cera |-> 1, tier |-> tier, stars |-> 0]

\* Stacks to merge, and letters of an earlier version; stones to pay with
\* and a shared row; a stale copy of a shared row and a bag to overflow.
StartsVal ==
    {[store |-> Filled((<<ann, Main, Near>> :> Of(potion, 2)) @@ (<<ann, Main, Quick>> :> Of(potion, 1))
                       @@ (<<ann, Cargo, 0>> :> Of(potion, 1)) @@ (<<bob, Main, Far>> :> Of(sword, 1))),
      gold |-> (ann :> 4) @@ (bob :> 0),
      account |-> Vaulted(1, 0),
      mailbox |-> [NoMail EXCEPT ![ann] = <<Legacy, Waiting>>]],
     [store |-> Filled((<<ann, Main, Near>> :> Of(stone, 1)) @@ (<<ann, Main, Far>> :> Of(stone, 2))
                       @@ (<<Account, Main, Common>> :> Of(potion, 1))
                       @@ (<<Account, Vault, 0>> :> Of(potion, 1))),
      gold |-> (ann :> 0) @@ (bob :> 4),
      account |-> Vaulted(3, 4),
      mailbox |-> NoMail],
     [store |-> Filled((<<ann, Main, Far>> :> Of(sword, 1)) @@ (<<ann, Main, Near>> :> Of(sword, 1))
                       @@ (<<ann, Main, Common>> :> Of(potion, 1))
                       @@ (<<Account, Main, Common>> :> Of(potion, 2))),
      gold |-> (ann :> 4) @@ (bob :> 4),
      account |-> Vaulted(0, 0),
      mailbox |-> NoMail]}

\* A scene of calls spends no command and leaves the records alone.
MCInit ==
    /\ Init
    /\ \/ commands = 0 /\ call = Empty /\ answer = Calls!Unanswered
       \/ commands = MaxCommands /\ mailbox = NoMail /\ account.tier = 0 /\ Calls!CallsInit

MCNext ==
    \/ /\ commands < MaxCommands /\ commands' = commands + 1
       /\ Next /\ UNCHANGED <<call, answer>>
    \/ call # Empty /\ Calls!Answer /\ UNCHANGED <<vars, commands>>

MCSpec == MCInit /\ [][MCNext]_<<vars, commands, call, answer>>

(* What one call of Exchange promises, over every call. *)
Conserves == Calls!Conserves
=============================================================================
