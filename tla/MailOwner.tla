------------------------------ MODULE MailOwner ------------------------------
(***************************************************************************)
(* The mailboxes of internal/modules/dnf/mail and the system mail of       *)
(* internal/modules/dnf/repository: Send, Claim and ChangeState are one    *)
(* transaction over the assets of a character and one mailbox; Open reads  *)
(* the mailbox and, when the row is missing or holds a claimed letter that *)
(* kept its assets, writes the record it read back in a second step, with  *)
(* no transaction around the two.  GrantCardReward mails what the bag of   *)
(* the rewarded character cannot take.                                     *)
(*                                                                         *)
(* A mailbox is Missing or its letters in the order of their ids: nextMail-*)
(* ID is one more than the largest id and no letter is ever removed.  Text,*)
(* names and the read mark, which no command tests, are left out.          *)
(***************************************************************************)
EXTENDS InventoryOwner

CONSTANTS
    Price,          \* [Items -> Nat]: the PVF price
    PostageBase,    \* 100
    PostagePerItem, \* 1000
    Surcharge,      \* 20: a twentieth of the gold and of the value
    Lifetime,       \* mailboxNormalLifetime, in clock ticks
    SavedPageSize,  \* mailboxSavedPageSize
    Missing,        \* no row in the mailboxes table
    Idle,           \* no Open under way
    NoExpiry,       \* the zero time
    MaxTime,        \* bound: the last clock tick
    MaxLetters      \* bound: the letters of one mailbox

VARIABLES
    mailbox,        \* [Characters -> Seq(Letter) or Missing]
    opening,        \* [Characters -> the record Open is about to save, or Idle]
    now             \* the clock

mailVars == <<mailbox, opening, now>>

Letter == [gold : Nat, items : Seq(Stack), system : BOOLEAN, claimed : BOOLEAN,
           saved : BOOLEAN, deleted : BOOLEAN,
           born : Nat, expire : Nat \cup {NoExpiry}]

ASSUME MailAssumption ==
    /\ Price \in [Items -> Nat] /\ Surcharge \in Nat \ {0}
    /\ {PostageBase, PostagePerItem, Lifetime, SavedPageSize,
        MaxTime, MaxLetters} \subseteq Nat

MailTypeOK ==
    /\ mailbox \in [Characters -> Seq(Letter) \cup {Missing}]
    /\ opening \in [Characters -> Seq(Letter) \cup {Idle}]
    /\ now \in 0 .. MaxTime

-----------------------------------------------------------------------------
Letters(c) == IF mailbox[c] = Missing THEN << >> ELSE mailbox[c]

NewLetter(pay, items, system) ==
    [gold |-> pay, items |-> items, system |-> system, claimed |-> FALSE,
     saved |-> FALSE, deleted |-> FALSE, born |-> now,
     expire |-> IF system THEN NoExpiry ELSE now + Lifetime]

(* mailExpired: a letter without an expiry ages from its creation. *)
Expired(letter) ==
    /\ ~letter.saved
    /\ now > IF letter.expire = NoExpiry THEN letter.born + Lifetime
             ELSE letter.expire

HasAssets(letter) == letter.gold > 0 \/ letter.items # << >>

(* currentMailboxPostage. *)
Postage(pay, items) ==
    PostageBase + PostagePerItem * Len(items) + pay \div Surcharge
      + FoldLeft(LAMBDA sum, i : sum + Price[i.item] * i.count, 0, items) \div Surcharge

(* addAttachmentToInventory: top up the stacks of the quick slots and of   *)
(* the page, then open new ones, in slot order; Full when some is left.    *)
FillBag(st, c, stack) ==
    LET item == stack.item
        page == Page(HomePage[item])
        slots == SetToSortSeq(IF Limit[item] = 1 THEN page ELSE QuickSlots \cup page, <)
        Least(a, b) == IF a < b THEN a ELSE b
        TopUp(acc, s) ==
            IF s \notin Holds(acc.st, c, {s}, item, Room(item) - 1) THEN acc
            ELSE LET n == Least(acc.rest, Room(item) - acc.st[<<c, Main, s>>].count)
                 IN  [st |-> IF n = 0 THEN acc.st ELSE Put(acc.st, c, s, item, n),
                      rest |-> acc.rest - n]
        Open(acc, s) ==
            IF acc.rest = 0 \/ acc.st[<<c, Main, s>>] # Empty THEN acc
            ELSE LET n == Least(acc.rest, Room(item))
                 IN  [st |-> Put(acc.st, c, s, item, n), rest |-> acc.rest - n]
        filled == FoldLeft(Open,
                    FoldLeft(TopUp, [st |-> st, rest |-> stack.count], slots), slots)
    IN  IF filled.rest > 0 THEN Full ELSE filled.st

(* Every attachment of a letter, or Full. *)
FillAll(st, c, items) ==
    FoldLeft(LAMBDA acc, i : IF acc = Full THEN Full ELSE FillBag(acc, c, i), st, items)

-----------------------------------------------------------------------------
(* Send: the attachments leave the sender's cells, gold and postage its    *)
(* wallet, and the letter joins the recipient's mailbox.  cells names      *)
(* each source cell once.                                                  *)
Send(c, to, pay, cells) ==
    LET At(i) == <<c, Main, cells[i].slot>>
        items == [i \in DOMAIN cells |-> [item |-> store[At(i)].item,
                                          count |-> cells[i].count]]
        cost == pay + Postage(pay, items)
    IN  /\ to # c
        /\ \A i \in DOMAIN cells : /\ store[At(i)] # Empty
                                   /\ store[At(i)].count >= cells[i].count
        /\ gold[c] >= cost
        /\ Len(Letters(to)) < MaxLetters
        /\ store' = [cell \in Cells |->
                        IF \E i \in DOMAIN cells : At(i) = cell
                        THEN Less(store[cell],
                                  cells[CHOOSE i \in DOMAIN cells : At(i) = cell].count)
                        ELSE store[cell]]
        /\ gold' = [gold EXCEPT ![c] = @ - cost]
        /\ mailbox' = [mailbox EXCEPT ![to] =
                         Append(Letters(to), NewLetter(pay, items, FALSE))]
        /\ owed' = [owed EXCEPT ![Gold] = @ - Postage(pay, items)]
        /\ UNCHANGED <<opening, now>>

(* What a claimed letter becomes. *)
Receipt(letter) ==
    [letter EXCEPT !.gold = 0, !.items = << >>, !.claimed = TRUE]

(* Claim of the letters ids, in that order: all must exist, be undeleted   *)
(* and unexpired; claimed ones are skipped, and so is each that does not   *)
(* fit into what the ones before it left.                                  *)
Claim(c, ids) ==
    LET letters == Letters(c)
        open == SelectSeq(ids, LAMBDA id : ~letters[id].claimed)
        Take(acc, id) ==
            LET st == FillAll(acc.st, c, letters[id].items)
            IN  IF st = Full THEN acc
                ELSE [st |-> st, pay |-> acc.pay + letters[id].gold,
                      done |-> acc.done \cup {id}]
        got == FoldLeft(Take, [st |-> store, pay |-> 0, done |-> {}], open)
    IN  /\ ids # << >>
        /\ \A i \in DOMAIN ids :
             /\ ids[i] \in DOMAIN letters
             /\ ~letters[ids[i]].deleted
             /\ letters[ids[i]].claimed \/ ~Expired(letters[ids[i]])
        /\ got.done # {}
        /\ gold[c] <= MaxGold - got.pay
        /\ store' = got.st
        /\ gold' = [gold EXCEPT ![c] = @ + got.pay]
        /\ mailbox' = [mailbox EXCEPT ![c] =
                         [id \in DOMAIN letters |->
                            IF id \in got.done THEN Receipt(letters[id])
                            ELSE letters[id]]]
        /\ UNCHANGED <<owed, opening, now>>

Reachable(c, id) ==
    /\ id \in DOMAIN Letters(c)
    /\ ~Letters(c)[id].deleted
    /\ ~Expired(Letters(c)[id])

(* ChangeState 0: refused while there is something to claim. *)
DeleteLetter(c, id) ==
    /\ Reachable(c, id)
    /\ Letters(c)[id].claimed \/ ~HasAssets(Letters(c)[id])
    /\ mailbox' = [mailbox EXCEPT ![c][id].deleted = TRUE]
    /\ UNCHANGED <<inventoryVars, opening, now>>

SavedLetters(c) == {id \in DOMAIN Letters(c) : Letters(c)[id].saved /\ Reachable(c, id)}

\* Mutant: the saved page is counted with what was deleted from it.
SaveLetter_Unbounded(c, id) ==
    /\ Reachable(c, id)
    /\ Cardinality(SavedLetters(c)) <= SavedPageSize
    /\ mailbox' = [mailbox EXCEPT ![c][id].saved = TRUE]
    /\ UNCHANGED <<inventoryVars, opening, now>>

(* ChangeState 3: a saved letter never expires; the page is bounded. *)
SaveLetter(c, id) ==
    /\ Reachable(c, id)
    /\ Letters(c)[id].saved \/ Cardinality(SavedLetters(c)) < SavedPageSize
    /\ mailbox' = [mailbox EXCEPT ![c][id].saved = TRUE]
    /\ UNCHANGED <<inventoryVars, opening, now>>

(* clearClaimedMailboxAssets: letters claimed by older versions. *)
Cleared(letters) ==
    [id \in DOMAIN letters |->
        IF letters[id].claimed THEN Receipt(letters[id]) ELSE letters[id]]

(* Open, first step: Load.  A record to be saved is kept for the second. *)
OpenLoad(c) ==
    /\ opening[c] = Idle
    /\ mailbox[c] = Missing \/ Cleared(Letters(c)) # Letters(c)
    /\ opening' = [opening EXCEPT ![c] = Cleared(Letters(c))]
    /\ UNCHANGED <<inventoryVars, mailbox, now>>

(* Open, second step: Save replaces every row by the record that was read. *)
OpenSave(c) ==
    /\ opening[c] # Idle
    /\ mailbox' = [mailbox EXCEPT ![c] = opening[c]]
    /\ opening' = [opening EXCEPT ![c] = Idle]
    /\ UNCHANGED <<inventoryVars, now>>

(* addCardItem: the first stack of the page, whatever its count, or the    *)
(* first free cell of the page.  A sum beyond int64 fails the reward.      *)
PlaceCard(st, c, stack) ==
    LET page == Page(HomePage[stack.item])
        stacks == IF stack.item \in Stackable
                  THEN Holds(st, c, page, stack.item, MaxGold) ELSE {}
        free == Free(st, c, page)
    IN  IF stacks # {} THEN Put(st, c, Min(stacks), stack.item, stack.count)
        ELSE IF free # {} THEN Put(st, c, Min(free), stack.item, stack.count)
        ELSE Full

(* GrantCardReward: gold and items in one transaction; the items without a *)
(* cell go into one system mail (AppendSystemMail).                        *)
CardReward(c, pay, items) ==
    LET Grant(acc, i) ==
            LET st == PlaceCard(acc.st, c, i)
            IN  IF st = Full THEN [acc EXCEPT !.left = Append(@, i)]
                ELSE [acc EXCEPT !.st = st]
        got == FoldLeft(Grant, [st |-> store, left |-> << >>], items)
    IN  /\ gold[c] <= MaxGold - pay
        /\ \A cell \in Cells : got.st[cell] # Empty => got.st[cell].count <= MaxGold
        /\ got.left # << >> => Len(Letters(c)) < MaxLetters
        /\ store' = got.st
        /\ gold' = [gold EXCEPT ![c] = @ + pay]
        /\ mailbox' = IF got.left = << >> THEN mailbox
                      ELSE [mailbox EXCEPT ![c] =
                              Append(Letters(c), NewLetter(0, got.left, TRUE))]
        /\ owed' = [x \in DOMAIN owed |->
                      owed[x] + (IF x = Gold THEN pay
                                 ELSE FoldLeft(LAMBDA sum, i :
                                        sum + IF i.item = x THEN i.count ELSE 0, 0, items))]
        /\ UNCHANGED <<opening, now>>

Tick ==
    /\ now < MaxTime
    /\ now' = now + 1
    /\ UNCHANGED <<inventoryVars, mailbox, opening>>

=============================================================================
