---------------------------- MODULE AccountVault ----------------------------
(***************************************************************************)
(* The account record that every character of an account shares: the      *)
(* account cargo of internal/modules/dnf/cargo (created for gold, upgraded *)
(* tier by tier for gold, cera or material, used to hand gold from one     *)
(* character to another) and the lucky stars of dungeon.Owner.  The cargo  *)
(* commands are one transaction each.  AwardLuckyStar loads the account    *)
(* and saves the whole record in a second step, without one.               *)
(***************************************************************************)
EXTENDS InventoryOwner

CONSTANTS
    Tiers,          \* accountCargoTiers: the capacities, in order
    CreateCost,     \* accountCargoCreateGoldCost
    UpgradeCost,    \* [1 .. Len(Tiers) - 1 -> [kind, amount]]
    Stone,          \* accountCargoVoidMagicStoneItemID
    MaxStars,       \* LuckyStarMaximum
    NotAwarding     \* no AwardLuckyStar under way

VARIABLES
    account,        \* the account record
    awarding        \* [Characters -> the record AwardLuckyStar is about to save]

vaultVars == <<account, awarding>>

\* tier is 0 until the cargo is created, then an index into Tiers.
AccountRecord == [gold : Nat, cera : Nat, tier : 0 .. Len(Tiers), stars : 0 .. MaxStars]

ASSUME VaultAssumption ==
    /\ \A t \in DOMAIN Tiers : Tiers[t] \in Nat \ {0}
    /\ UpgradeCost \in [1 .. Len(Tiers) - 1 ->
                          [kind : {"gold", "cera", "stone"}, amount : Nat]]
    /\ CreateCost \in Nat /\ MaxStars \in Nat /\ Stone \in Items

VaultTypeOK ==
    /\ account \in AccountRecord
    /\ awarding \in [Characters -> AccountRecord \cup {NotAwarding}]

-----------------------------------------------------------------------------
(* accountCargoCapacity. *)
Capacity == IF account.tier = 0 THEN 0 ELSE Tiers[account.tier]

(* ApplyAccount, create_account_cargo. *)
CreateVault(c) ==
    /\ account.tier = 0
    /\ gold[c] >= CreateCost
    /\ gold' = [gold EXCEPT ![c] = @ - CreateCost]
    /\ account' = [account EXCEPT !.tier = 1]
    /\ owed' = [owed EXCEPT ![Gold] = @ - CreateCost]
    /\ UNCHANGED <<store, awarding>>

Stones(c) == {s \in Slots : store[<<c, Main, s>>] # Empty /\ store[<<c, Main, s>>].item = Stone}

StoneCount(c) == MapThenSumSet(LAMBDA s : store[<<c, Main, s>>].count, Stones(c))

(* applyCargoUpgradeCost, the material: stacks give in turn.  The code     *)
(* orders them by their key; here the lowest slot gives first.             *)
TakeStones(c, n) ==
    LET earlier(s) == MapThenSumSet(LAMBDA t : store[<<c, Main, t>>].count,
                                    {t \in Stones(c) : t < s})
    IN  [cell \in Cells |->
            IF cell[1] = c /\ cell[2] = Main /\ cell[3] \in Stones(c)
                 /\ earlier(cell[3]) < n
            THEN Less(store[cell], n - earlier(cell[3]))
            ELSE store[cell]]

(* ApplyAccount, upgrade_account_cargo. *)
UpgradeVault(c) ==
    /\ account.tier \in 1 .. Len(Tiers) - 1
    /\ LET cost == UpgradeCost[account.tier]
           Paid(kind) == IF cost.kind = kind THEN cost.amount ELSE 0
       IN  /\ gold[c] >= Paid("gold")
           /\ account.cera >= Paid("cera")
           /\ StoneCount(c) >= Paid("stone")
           /\ gold' = [gold EXCEPT ![c] = @ - Paid("gold")]
           /\ store' = TakeStones(c, Paid("stone"))
           /\ account' = [account EXCEPT !.tier = @ + 1, !.cera = @ - Paid("cera")]
           /\ owed' = [owed EXCEPT ![Gold] = @ - Paid("gold"), ![Stone] = @ - Paid("stone")]
    /\ UNCHANGED awarding

(* ApplyMoney: deposit or withdraw. *)
MoveMoney(c, n) ==
    /\ account.tier > 0
    /\ \/ /\ gold[c] >= n
          /\ gold' = [gold EXCEPT ![c] = @ - n]
          /\ account' = [account EXCEPT !.gold = @ + n]
       \/ /\ account.gold >= n
          /\ gold' = [gold EXCEPT ![c] = @ + n]
          /\ account' = [account EXCEPT !.gold = @ - n]
    /\ UNCHANGED <<store, owed, awarding>>

(* AwardLuckyStar, Load. *)
AwardLoad(c) ==
    /\ awarding[c] = NotAwarding
    /\ account.stars < MaxStars
    /\ awarding' = [awarding EXCEPT ![c] = [account EXCEPT !.stars = @ + 1]]
    /\ UNCHANGED <<inventoryVars, account>>

(* AwardLuckyStar, Save: the columns and all the metadata of the record. *)
AwardSave(c) ==
    /\ awarding[c] # NotAwarding
    /\ account' = awarding[c]
    /\ awarding' = [awarding EXCEPT ![c] = NotAwarding]
    /\ UNCHANGED inventoryVars

=============================================================================
