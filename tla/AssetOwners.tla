----------------------------- MODULE AssetOwners -----------------------------
(***************************************************************************)
(* The owners that move gold and items, on the records they share: bags,  *)
(* cargo, wallets, mailboxes and the account.  Commands of different       *)
(* sessions interleave transaction by transaction; Open and AwardLuckyStar *)
(* interleave with the others between their Load and their Save.           *)
(***************************************************************************)
EXTENDS MailOwner, AccountVault

CONSTANTS
    Counts,         \* the counts of grants, letters and offers
    Parts,          \* the counts of moves and deletions, 0 for the whole
    Purses,         \* amounts of gold in Init, letters and payments
    Starts          \* records of store, gold, account and mailbox for Init

vars == <<inventoryVars, mailVars, vaultVars>>

Addresses == UNION {{l} \X Lists[l] : l \in {Main, Cargo, Vault}}

\* What the players can get at: cells, wallets, the account and the letters
\* that are not deleted (an expired letter is still a letter).
HeldIn(st, x) ==
    MapThenSumSet(LAMBDA cell : st[cell].count,
                  {cell \in Cells : st[cell] # Empty /\ st[cell].item = x})

InLetter(letter, x) ==
    IF letter.deleted THEN 0
    ELSE IF x = Gold THEN letter.gold
    ELSE FoldLeft(LAMBDA sum, i : sum + IF i.item = x THEN i.count ELSE 0, 0, letter.items)

InMail(x) ==
    MapThenSumSet(
        LAMBDA c : FoldLeft(LAMBDA sum, letter :
                       IF letter.claimed THEN sum ELSE sum + InLetter(letter, x), 0, Letters(c)),
        Characters)

Owned(x) ==
    InMail(x) + IF x = Gold
                THEN account.gold + MapThenSumSet(LAMBDA c : gold[c], Characters)
                ELSE HeldIn(store, x)

Init ==
    /\ \E s \in Starts : /\ store = s.store
                         /\ gold = s.gold
                         /\ account = s.account
                         /\ mailbox = s.mailbox
    /\ owed = [x \in Items \cup {Gold} |-> Owned(x)]
    /\ opening = [c \in Characters |-> Idle]
    /\ now = 0
    /\ awarding = [c \in Characters |-> NotAwarding]

-----------------------------------------------------------------------------
InventoryNext ==
    /\ \E c \in Characters :
         \/ \E from, to \in Addresses, n \in Parts :
              \/ MoveItem(c, from, to, n)
              \/ MoveVault(c, from, to, n, Capacity)
         \/ \E page \in {PageOf[s] : s \in Slots} \ {NoPage} : Sort(c, Main, page)
         \/ Sort(c, Cargo, NoPage)
         \/ \E at \in Addresses, n \in Parts :
              \/ Delete(c, at[1], at[2], n)
              \/ at[1] # Vault /\ Sell(c, at[1], at[2], n)
         \/ MigrateAccountShared(c)
         \/ \E item \in Items, n \in Counts : PickupItem(c, item, n)
         \/ \E n \in Purses \ {0} : PickupGold(c, n)
    /\ UNCHANGED <<mailVars, vaultVars>>

\* One row of goods that stand where the offer says (ExchangeCalls covers
\* stale offers), against one row or a payment.
OffersOf(c) ==
    {NoOffers} \cup
      {FirstRow :> [slot |-> s, item |-> store[<<c, Main, s>>].item, count |-> n] :
         s \in {t \in Slots : store[<<c, Main, t>>] # Empty}, n \in Counts}

TradeNext ==
    /\ \E p, q \in Characters, payP \in Purses, payQ \in {0} :
       \E offersP \in OffersOf(p), offersQ \in OffersOf(q) :
          Exchange(p, q, offersP, payP, offersQ, payQ)
    /\ UNCHANGED <<mailVars, vaultVars>>

Enclosures == {<< >>} \cup {<<[slot |-> s, count |-> n]>> : s \in Slots, n \in Counts}

MailNext ==
    /\ \E c \in Characters :
         \/ \E to \in Characters, pay \in Purses, cells \in Enclosures :
              Send(c, to, pay, cells)
         \/ \E ids \in {<<1>>, <<2>>, <<1, 2>>} : Claim(c, ids)
         \/ \E id \in 1 .. MaxLetters : DeleteLetter(c, id) \/ SaveLetter(c, id)
         \/ OpenLoad(c)
         \/ OpenSave(c)
         \/ \E pay \in Purses, i \in Items, n \in Counts :
              CardReward(c, pay, <<[item |-> i, count |-> n]>>)
       \/ Tick
    /\ UNCHANGED vaultVars

VaultNext ==
    /\ \E c \in Characters :
         \/ CreateVault(c)
         \/ UpgradeVault(c)
         \/ \E n \in Purses \ {0} : MoveMoney(c, n)
         \/ AwardLoad(c)
         \/ AwardSave(c)
    /\ UNCHANGED mailVars

Next == InventoryNext \/ TradeNext \/ MailNext \/ VaultNext

Spec == Init /\ [][Next]_vars

-----------------------------------------------------------------------------
(* The records keep their shape: no empty stack, no negative wallet, and   *)
(* no more saved letters than the client's page shows                      *)
(* (mailboxSavedPageSize), so that no saved letter becomes unreachable.    *)
TypeOK ==
    /\ InventoryTypeOK /\ MailTypeOK /\ VaultTypeOK
    /\ \A c \in Characters : Cardinality(SavedLetters(c)) <= SavedPageSize

\* The three commits that write back or merge a record they did not lock.
OverwritesMail(c) == opening[c] # Idle /\ OpenSave(c) /\ opening[c] # Cleared(Letters(c))

OverwritesAccount(c) == AwardSave(c) /\ awarding[c].gold # account.gold

SwallowsTwin(c) ==
    /\ MigrateAccountShared(c)
    /\ \E s \in SharedSlots : /\ store[<<c, Main, s>>] # Empty
                              /\ store[<<c, Main, s>>] = store[<<Account, Main, s>>]

(* Every other step of every owner conserves goods and gold, whatever      *)
(* stands in the bags and whichever cells stack, split, swap or overflow.  *)
OnlyStaleSavesLose ==
    [][(\E x \in Items \cup {Gold} : Owned(x)' - owed'[x] # Owned(x) - owed[x])
         => \E c \in Characters : OverwritesMail(c) \/ OverwritesAccount(c) \/ SwallowsTwin(c)]_vars

\* A card reward and nothing else: a pickup of the same item and count may
\* change the records in the same way.
OnlyCards ==
    \E c \in Characters, pay \in Purses, i \in Items, n \in Counts :
        CardReward(c, pay, <<[item |-> i, count |-> n]>>) /\ ~PickupItem(c, i, n)

\* A pickup of an item the PVF gives no limit.
PicksUnlimited(item) ==
    Limit[item] = 0 /\ \E c \in Characters, n \in Counts : PickupItem(c, item, n)

=============================================================================
