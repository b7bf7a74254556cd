--------------------------- MODULE InventoryOwner ---------------------------
(***************************************************************************)
(* The durable containers of a character and its account, and the commands *)
(* of internal/modules/dnf/inventory that rearrange them: Move (with its   *)
(* account-cargo and account-shared forms), Sort, Delete, Sell and the     *)
(* migration of account-shared slots; and the dungeon pickup that puts an  *)
(* item on the floor into the bag (internal/modules/dnf/dungeon).  Each    *)
(* command is one transaction of the repositories, so one action.          *)
(*                                                                         *)
(* A cell is <<owner, list, slot>>: the key of a stack in the record of    *)
(* its owner.  An item stands for all that canStack compares: the PVF id,  *)
(* the bind and lock flags and the expiry.                                 *)
(***************************************************************************)
EXTENDS ItemExchange, SequencesExt

CONSTANTS
    Characters,   \* character ids
    Account,      \* the account that owns them all
    Main,         \* list 0, whose slots are Slots
    Cargo,        \* the personal cargo, list 2
    Vault,        \* the account cargo, list 12
    CargoSlots, VaultSlots,
    QuickSlots,   \* slots 3..8 of the main list
    SharedSlots,  \* slots 354..365 of the main list: the account owns them
    HomePage,     \* [Items -> pages]: the PVF slot range of an item
    Stackable,    \* items of kind "stackable"
    PrefersQuick, \* stackables that a pickup puts into the quick slots
    Locked,       \* items with an equipment lock
    Worthless,    \* items whose sell price is known to be zero
    Limit,        \* [Items -> Nat]: the PVF stack limit, 0 for none
    MaxCount,     \* math.MaxInt32
    SortRank,     \* [Items -> Nat]: the order of sortItemKind and item id
    Gold          \* the currency, next to Items in the ledger

VARIABLES
    store,        \* [Cells -> Stack or Empty]
    gold,         \* [Characters -> Nat]: Stats["gold"]
    owed          \* ghost: what the players should own of Items and Gold

inventoryVars == <<store, gold, owed>>

Lists == (Main :> Slots) @@ (Cargo :> CargoSlots) @@ (Vault :> VaultSlots)

\* The account has a row for every vault slot and every shared slot; a
\* character may hold stale rows at shared addresses (MigrateAccountShared).
Cells ==
    {<<c, Main, s>> : c \in Characters, s \in Slots}
      \cup {<<c, Cargo, s>> : c \in Characters, s \in CargoSlots}
      \cup {<<Account, Main, s>> : s \in SharedSlots}
      \cup {<<Account, Vault, s>> : s \in VaultSlots}

ASSUME InventoryAssumption ==
    /\ QuickSlots \subseteq Slots /\ SharedSlots \subseteq Slots
    /\ CargoSlots \subseteq Nat /\ VaultSlots \subseteq Nat
    /\ PrefersQuick \subseteq Stackable /\ Stackable \subseteq Items
    /\ Limit \in [Items -> Nat]
    /\ SortRank \in [Items -> Nat]
    /\ \A s \in QuickSlots \cup SharedSlots : PageOf[s] = NoPage
    /\ Account \notin Characters /\ Gold \notin Items

InventoryTypeOK ==
    /\ store \in [Cells -> Stack \cup {Empty}]
    /\ gold \in [Characters -> Nat]
    /\ owed \in [Items \cup {Gold} -> Int]

-----------------------------------------------------------------------------
(* IsAccountSharedInventorySlot and the record a wire address belongs to. *)
Shared(list, slot) == list = Main /\ slot \in SharedSlots

CellOf(c, list, slot) ==
    <<IF list = Vault \/ Shared(list, slot) THEN Account ELSE c, list, slot>>

Page(p) == {s \in Slots : PageOf[s] = p}

Cap(item) == IF Limit[item] = 0 THEN MaxCount ELSE Limit[item]

(* pvfStackContract: a stackable whose count is within its limit. *)
Contract(stack) == stack.item \in Stackable /\ stack.count <= Cap(stack.item)

(* canStack, for a count that normalizeMoveCount made 1..source.count. *)
CanStack(source, destination, n) ==
    /\ source.item = destination.item
    /\ Contract(source) /\ Contract(destination)
    /\ destination.count <= Cap(source.item) - n

(* normalizeMoveCount and normalizeDeleteCount: 0 asks for the whole. *)
MoveCount(stack, n) ==
    IF Contract(stack) /\ n \in 1 .. stack.count THEN n ELSE stack.count

Less(stack, n) ==
    IF stack.count <= n THEN Empty ELSE [stack EXCEPT !.count = @ - n]

\* Mutant: a merge leaves the source stack where it was.
Merge_KeepSource(st, from, to, n) ==
    [st EXCEPT ![to].count = @ + n]

Merge(st, from, to, n) ==
    [st EXCEPT ![to].count = @ + n, ![from] = Less(@, n)]

(* The literal move onto a cell: split or move into an empty one, stack    *)
(* onto a compatible one, swap with any other.                             *)
Onto(st, from, to, n) ==
    LET source == st[from]
        k == MoveCount(source, n)
    IN  IF st[to] = Empty
        THEN [st EXCEPT ![from] = Less(source, k),
                        ![to] = [source EXCEPT !.count = k]]
        ELSE IF CanStack(source, st[to], k)
        THEN Merge(st, from, to, k)
        ELSE [st EXCEPT ![from] = st[to], ![to] = source]

(* moveAccountCargoMaps and moveAccountShared: with an empty source the    *)
(* destination moves back (reverse_split, reverse_move).                   *)
MoveLiteral(st, from, to, n) ==
    IF st[from] = Empty THEN Onto(st, to, from, n) ELSE Onto(st, from, to, n)

(* findCompatibleStackSlot: where in the list a moved quantity would fit.  *)
Compatible(st, owner, list, moving, n, skip) ==
    {s \in Lists[list] :
        /\ ~Shared(list, s)
        /\ <<owner, list, s>> \notin skip
        /\ st[<<owner, list, s>>] # Empty
        /\ CanStack(moving, st[<<owner, list, s>>], n)}

(* Move within the main list and the personal cargo: a move towards an     *)
(* empty cell that is no quick slot joins the first compatible stack.      *)
MovePersonal(st, from, to, n) ==
    LET full == IF st[from] = Empty THEN to ELSE from
        hole == IF st[from] = Empty THEN from ELSE to
        k == MoveCount(st[full], n)
        fits == Compatible(st, hole[1], hole[2], st[full], k, {from, to})
    IN  IF /\ st[hole] = Empty /\ fits # {}
           /\ ~(hole[2] = Main /\ hole[3] \in QuickSlots)
        THEN Merge(st, full, <<hole[1], hole[2], Min(fits)>>, k)
        ELSE MoveLiteral(st, from, to, n)

(* Sort: the stacks of a range, by kind, item and slot, from its start on. *)
SortRange(st, owner, list, range) ==
    LET held == {s \in range : st[<<owner, list, s>>] # Empty}
        rank(s) == SortRank[st[<<owner, list, s>>].item]
        before(s) == {t \in held : \/ rank(t) < rank(s)
                                   \/ rank(t) = rank(s) /\ t < s}
        placed == [s \in held |-> Min(range) + Cardinality(before(s))]
    IN  [cell \in Cells |->
            IF cell[1] # owner \/ cell[2] # list \/ cell[3] \notin range
            THEN st[cell]
            ELSE IF \E s \in held : placed[s] = cell[3]
            THEN st[<<owner, list, CHOOSE s \in held : placed[s] = cell[3]>>]
            ELSE Empty]

(* MigrateAccountSharedSlots: every stale row of the character moves to    *)
(* the account; one that differs from the account's row blocks them all.   *)
CanMigrate(c) ==
    \A s \in SharedSlots :
        \/ store[<<c, Main, s>>] = Empty
        \/ store[<<Account, Main, s>>] = Empty
        \/ store[<<c, Main, s>>] = store[<<Account, Main, s>>]

Migrated(st, c) ==
    [cell \in Cells |->
        IF ~Shared(cell[2], cell[3]) \/ cell[1] \notin {c, Account} THEN st[cell]
        ELSE IF cell[1] = c THEN Empty
        ELSE IF st[cell] = Empty THEN st[<<c, Main, cell[3]>>] ELSE st[cell]]

-----------------------------------------------------------------------------
\* What a reward may fill: the PVF limit, or any int64 count without one.
Room(item) == IF Limit[item] = 0 THEN MaxGold ELSE Limit[item]

Free(st, c, slots) == {s \in slots : st[<<c, Main, s>>] = Empty}

Holds(st, c, slots, item, room) ==
    {s \in slots : /\ st[<<c, Main, s>>] # Empty
                   /\ st[<<c, Main, s>>].item = item
                   /\ st[<<c, Main, s>>].count <= room}

Put(st, c, s, item, n) ==
    [st EXCEPT ![<<c, Main, s>>] =
        IF @ = Empty THEN [item |-> item, count |-> n]
        ELSE [@ EXCEPT !.count = @ + n]]


(* PlacePickupItem: the first stack of the quick slots and then of the     *)
(* page with room for all of it, else the first free cell in that order.   *)
PlacePickup(st, c, item, n) ==
    LET page == Page(HomePage[item])
        reach == IF item \in PrefersQuick THEN QuickSlots \cup page ELSE page
        stacks == IF item \in Stackable
                  THEN Holds(st, c, reach, item, Room(item) - n) ELSE {}
        free == Free(st, c, reach)
    IN  IF stacks # {} THEN Put(st, c, Min(stacks), item, n)
        ELSE IF free # {} THEN Put(st, c, Min(free), item, n)
        ELSE Full

-----------------------------------------------------------------------------
(* Move between addresses of the main list and the personal cargo; a       *)
(* shared address makes it a literal move between the two records.         *)
MoveItem(c, from, to, n) ==
    LET a == CellOf(c, from[1], from[2])
        b == CellOf(c, to[1], to[2])
    IN  /\ Vault \notin {from[1], to[1]}
        /\ a # b
        /\ store[a] # Empty \/ store[b] # Empty
        /\ store' = IF Shared(from[1], from[2]) \/ Shared(to[1], to[2])
                    THEN MoveLiteral(store, a, b, n)
                    ELSE MovePersonal(store, a, b, n)
        /\ UNCHANGED <<gold, owed>>

(* moveAccountCargo: the other side is always the character's own record,  *)
(* even at a shared address.                                               *)
MoveVault(c, from, to, n, capacity) ==
    LET CargoCell(at) == <<IF at[1] = Vault THEN Account ELSE c, at[1], at[2]>>
        a == CargoCell(from)
        b == CargoCell(to)
    IN  /\ Vault \in {from[1], to[1]}
        /\ \A at \in {from, to} : at[1] = Vault => at[2] < capacity
        /\ a # b
        /\ store[a] # Empty \/ store[b] # Empty
        /\ store' = MoveLiteral(store, a, b, n)
        /\ UNCHANGED <<gold, owed>>

Sort(c, list, page) ==
    /\ store' = SortRange(store, c, list,
                          IF list = Main THEN Page(page) ELSE CargoSlots)
    /\ UNCHANGED <<gold, owed>>

(* Delete: from the record that owns the address, unless locked. *)
Delete(c, list, slot, n) ==
    LET cell == CellOf(c, list, slot)
        stack == store[cell]
        k == IF n \in 1 .. stack.count THEN n ELSE stack.count
    IN  /\ list \in {Main, Cargo} /\ stack # Empty
        /\ stack.item \notin Locked
        /\ store' = [store EXCEPT ![cell] = Less(@, k)]
        /\ owed' = [owed EXCEPT ![stack.item] = @ - k]
        /\ UNCHANGED gold

(* Sell in this owner commits only what sells for nothing; its row is the  *)
(* character's own, shared address or not.                                 *)
Sell(c, list, slot, n) ==
    LET cell == <<c, list, slot>>
        stack == store[cell]
        k == IF n \in 1 .. stack.count THEN n ELSE stack.count
    IN  /\ list \in {Main, Cargo} /\ stack # Empty
        /\ stack.item \in Worthless \ Locked
        /\ store' = [store EXCEPT ![cell] = Less(@, k)]
        /\ owed' = [owed EXCEPT ![stack.item] = @ - k]
        /\ UNCHANGED gold

MigrateAccountShared(c) ==
    /\ CanMigrate(c)
    /\ store' = Migrated(store, c)
    /\ UNCHANGED <<gold, owed>>

(* GrantPickupItem: at most a full stack, all of it in one cell. *)
PickupItem(c, item, n) ==
    /\ n <= Room(item) /\ (item \notin Stackable => n = 1)
    /\ PlacePickup(store, c, item, n) # Full
    /\ store' = PlacePickup(store, c, item, n)
    /\ owed' = [owed EXCEPT ![item] = @ + n]
    /\ UNCHANGED gold

(* GrantPickupGold: refused when the wallet would overflow. *)
PickupGold(c, n) ==
    /\ gold[c] <= MaxGold - n
    /\ gold' = [gold EXCEPT ![c] = @ + n]
    /\ owed' = [owed EXCEPT ![Gold] = @ + n]
    /\ UNCHANGED store

(* itemtrade.Owner.Exchange between two characters of the store. *)
BagOf(c) == [s \in Slots |-> store[<<c, Main, s>>]]

Exchange(p, q, offersP, payP, offersQ, payQ) ==
    LET give == [c \in {p, q} |-> IF c = p THEN offersP ELSE offersQ]
        take == [c \in {p, q} |-> IF c = p THEN offersQ ELSE offersP]
        pay == [c \in {p, q} |-> IF c = p THEN payP ELSE payQ]
    IN  /\ p # q
        /\ \A offers \in {offersP, offersQ} : \A r \in DOMAIN offers :
             offers[r].slot \notin SharedSlots
        /\ ExchangeOK(BagOf(p), gold[p], offersP, payP,
                      BagOf(q), gold[q], offersQ, payQ)
        /\ store' = [cell \in Cells |->
                        IF cell[1] \in {p, q} /\ cell[2] = Main
                        THEN Swapped(BagOf(cell[1]), give[cell[1]], take[cell[1]])[cell[3]]
                        ELSE store[cell]]
        /\ gold' = [gold EXCEPT ![p] = @ - payP + payQ, ![q] = @ - payQ + payP]
        /\ UNCHANGED owed

=============================================================================
