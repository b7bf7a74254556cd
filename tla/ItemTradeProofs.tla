-------------------------- MODULE ItemTradeProofs --------------------------
(***************************************************************************)
(* Proofs about ItemTrade for every set of characters and sessions, every  *)
(* bag layout and any number of trades.  First what the operators of       *)
(* ItemExchange compute, for every bag and every set of offers: an exchange *)
(* that is allowed leaves well-formed bags, and nothing is made or lost.   *)
(***************************************************************************)
EXTENDS ItemTrade, Foundations, TLAPS

-----------------------------------------------------------------------------
(* Sums of the model as sums of Foundations. *)

\* How much the rows count, of any item and of one.
RowCount(o) == [r \in DOMAIN o |-> o[r].count]

RowCountOf(o, i) == [r \in DOMAIN o |-> IF o[r].item = i THEN o[r].count ELSE 0]

RowsAt(o, slot) == {r \in DOMAIN o : o[r].slot = slot}

\* Everything of one item that the offers give.
Offered(o, i) == SumOver(RowCountOf(o, i), DOMAIN o)

\* The units of an item in a slot.
Units(stack, i) == IF stack # Empty /\ stack.item = i THEN stack.count ELSE 0

SlotCount(b, i) == [s \in Slots |-> Units(b[s], i)]

\* Offers are finite and well typed.
LEMMA OffersFinite ==
    ASSUME NEW o, IsOffers(o)
    PROVE  /\ IsFiniteSet(DOMAIN o)
           /\ \A slot : IsFiniteSet(RowsAt(o, slot))
           /\ \A r \in DOMAIN o : /\ o[r].slot \in Slots /\ o[r].item \in Items
                                  /\ o[r].count \in Nat \ {0}
<1>1. IsFiniteSet(Rows)
  BY FS_Interval, ExchangeAssumption DEF Rows
<1>2. IsFiniteSet(DOMAIN o)
  BY <1>1, FS_Subset DEF IsOffers
<1>3. ASSUME NEW slot PROVE IsFiniteSet(RowsAt(o, slot))
  <2>1. RowsAt(o, slot) \in SUBSET DOMAIN o
    BY DEF RowsAt
  <2> QED BY <1>2, <2>1, FS_Subset
<1> QED BY <1>2, <1>3 DEF IsOffers, Offer

\* sourceCounts: what is asked of a slot is the sum over its rows.
LEMMA AskedIsSum ==
    ASSUME NEW o, IsOffers(o), NEW slot
    PROVE  /\ Asked(o, slot) = SumOver(RowCount(o), RowsAt(o, slot))
           /\ Asked(o, slot) \in Nat
           /\ RowsAt(o, slot) = {} => Asked(o, slot) = 0
<1> DEFINE R == RowsAt(o, slot)
           f == RowCount(o)
           Eq(g) == g = [T \in SUBSET R |->
                           IF T = {} THEN 0
                           ELSE o[CHOOSE x \in T : TRUE].count
                                  + g[T \ {CHOOSE x \in T : TRUE}]]
<1>1. IsFiniteSet(R) /\ \A r \in R : f[r] \in Nat
  BY OffersFinite DEF RowsAt, RowCount
<1>2. \A g : Eq(g) <=> SumsOver(g, f, R)
  <2>1. \A T \in SUBSET R : T # {} => f[Pick(T)] = o[CHOOSE x \in T : TRUE].count
    BY DEF Pick, RowsAt, RowCount
  <2> HIDE DEF f, R
  <2> QED BY <2>1 DEF SumsOver, Pick
<1>3. Asked(o, slot) = (CHOOSE g : Eq(g))[R]
  BY DEF Asked, MapThenSumSet, MapThenFoldSet, RowsAt
<1> HIDE DEF Eq, f, R
<1>4. Eq(CHOOSE g : Eq(g))
  <2>1. \E g : Eq(g)
    BY <1>1, <1>2, SumsExist
  <2> QED BY <2>1
<1>5. Asked(o, slot) = SumOver(f, R)
  BY <1>1, <1>2, <1>3, <1>4, SumIs
<1>6. SumOver(f, R) \in Nat /\ (R = {} => SumOver(f, R) = 0)
  BY <1>1, SumStep
<1> QED BY <1>5, <1>6 DEF f, R

\* What a bag holds of an item is the sum over its slots.
LEMMA HoldingIsSum ==
    ASSUME NEW b \in Bag, NEW i
    PROVE  /\ Holding(b, i) = SumOver(SlotCount(b, i), Slots)
           /\ Holding(b, i) \in Nat
<1> DEFINE R == {s \in Slots : b[s] # Empty /\ b[s].item = i}
           f == SlotCount(b, i)
           Eq(g) == g = [T \in SUBSET R |->
                           IF T = {} THEN 0
                           ELSE b[CHOOSE x \in T : TRUE].count
                                  + g[T \ {CHOOSE x \in T : TRUE}]]
<1>0. IsFiniteSet(Slots) /\ \A s \in Slots : f[s] \in Nat
  BY ExchangeAssumption DEF Bag, Stack, SlotCount, Units
<1>1. IsFiniteSet(R) /\ R \in SUBSET Slots /\ \A s \in R : f[s] \in Nat
  <2>1. R \in SUBSET Slots
    OBVIOUS
  <2> QED BY <2>1, <1>0, FS_Subset
<1>2. \A g : Eq(g) <=> SumsOver(g, f, R)
  <2>1. \A T \in SUBSET R : T # {} => f[Pick(T)] = b[CHOOSE x \in T : TRUE].count
    BY DEF Pick, SlotCount, Units
  <2> HIDE DEF f, R
  <2> QED BY <2>1 DEF SumsOver, Pick
<1>3. Holding(b, i) = (CHOOSE g : Eq(g))[R]
  BY DEF Holding, MapThenSumSet, MapThenFoldSet
<1>4. \A s \in Slots \ R : f[s] = 0
  BY DEF SlotCount, Units
<1> HIDE DEF Eq, f, R
<1>5. Eq(CHOOSE g : Eq(g))
  <2>1. \E g : Eq(g)
    BY <1>1, <1>2, SumsExist
  <2> QED BY <2>1
<1>6. Holding(b, i) = SumOver(f, R)
  BY <1>1, <1>2, <1>3, <1>5, SumIs
<1>7. SumOver(f, Slots) = SumOver(f, R) /\ SumOver(f, Slots) \in Nat
  BY <1>0, <1>1, <1>4, SumSupport, SumStep
<1> QED BY <1>6, <1>7 DEF f

\* A slot that is filled or emptied changes the holding by its stacks.
LEMMA HoldingChange ==
    ASSUME NEW b \in Bag, NEW s \in Slots, NEW v \in Stack \cup {Empty}, NEW i
    PROVE  /\ [b EXCEPT ![s] = v] \in Bag
           /\ Holding([b EXCEPT ![s] = v], i) + Units(b[s], i)
                = Holding(b, i) + Units(v, i)
<1> DEFINE c == [b EXCEPT ![s] = v]
<1>1. c \in Bag /\ c[s] = v /\ \A z \in Slots \ {s} : c[z] = b[z]
  BY DEF Bag
<1>2. /\ IsFiniteSet(Slots)
      /\ \A z \in Slots : SlotCount(b, i)[z] \in Nat
      /\ SlotCount(c, i)[s] = Units(v, i) /\ SlotCount(b, i)[s] = Units(b[s], i)
      /\ SlotCount(c, i)[s] \in Nat
      /\ \A z \in Slots \ {s} : SlotCount(c, i)[z] = SlotCount(b, i)[z]
  BY <1>1, ExchangeAssumption DEF Bag, Stack, SlotCount, Units
<1> HIDE DEF c
<1>3. SumOver(SlotCount(c, i), Slots) + SlotCount(b, i)[s]
        = SumOver(SlotCount(b, i), Slots) + SlotCount(c, i)[s]
  BY <1>2, SumChange
<1> QED BY <1>1, <1>2, <1>3, HoldingIsSum DEF c

-----------------------------------------------------------------------------
(* Taking the offered stacks out. *)

\* The sum over rows that count nothing.
LEMMA SumZero ==
    ASSUME NEW S, IsFiniteSet(S), NEW f, \A x \in S : f[x] = 0
    PROVE  SumOver(f, S) = 0
<1>1. \A x \in S : f[x] \in Nat
  OBVIOUS
<1>2. {} \in SUBSET S /\ \A x \in S \ {} : f[x] = 0
  OBVIOUS
<1>3. SumOver(f, S) = SumOver(f, {})
  BY <1>1, <1>2, SumSupport
<1>4. SumOver(f, {}) = 0
  <2>1. \A x \in {} : f[x] \in Nat
    OBVIOUS
  <2> QED BY <2>1, SumStep, FS_EmptySet
<1> QED BY <1>3, <1>4

\* One slot: what is left in it and what its rows take make up what was there.
LEMMA WithdrawSlot ==
    ASSUME NEW b \in Bag, NEW o, IsOffers(o), OffersOK(b, o), NEW s \in Slots, NEW i
    PROVE  /\ Withdraw(b, o)[s] \in Stack \cup {Empty}
           /\ SumOver(RowCountOf(o, i), RowsAt(o, s)) \in Nat
           /\ Units(b[s], i)
                = Units(Withdraw(b, o)[s], i) + SumOver(RowCountOf(o, i), RowsAt(o, s))
<1> DEFINE R == RowsAt(o, s)
           n == Asked(o, s)
           fi == RowCountOf(o, i)
           w == Withdraw(b, o)[s]
<1>1. n = SumOver(RowCount(o), R) /\ n \in Nat /\ (R = {} => n = 0)
  BY AskedIsSum
<1>2. w = CASE n = 0 -> b[s]
            [] n # 0 /\ n = b[s].count -> Empty
            [] OTHER -> [b[s] EXCEPT !.count = @ - n]
  BY DEF Withdraw
<1>3. /\ IsFiniteSet(R)
      /\ \A r \in R : fi[r] \in Nat /\ RowCount(o)[r] \in Nat
      /\ \A r \in R : fi[r] = IF o[r].item = i THEN RowCount(o)[r] ELSE 0
  BY OffersFinite DEF RowsAt, RowCountOf, RowCount
<1>4. b[s] \in Stack \cup {Empty} /\ Empty \notin Stack
  BY ExchangeAssumption DEF Bag
<1>5. SumOver(fi, R) \in Nat
  <2> HIDE DEF R, fi
  <2> QED BY <1>3, SumStep
<1>6. CASE R = {}
  <2>1. SumOver(fi, R) = 0
    <3> HIDE DEF fi, R
    <3> QED BY <1>6, <1>3, SumStep
  <2>2. w = b[s]
    BY <1>1, <1>2, <1>6
  <2>3. Units(b[s], i) \in Nat
    BY <1>4 DEF Stack, Units
  <2> HIDE DEF w, fi, R
  <2> QED BY <1>4, <1>5, <2>1, <2>2, <2>3 DEF w, fi, R
<1>7. CASE R # {}
  <2>1. PICK r \in R : TRUE
    BY <1>7
  <2>2. /\ b[s] # Empty /\ n <= b[s].count
        /\ \A q \in R : o[q].item = b[s].item
    BY <2>1 DEF OffersOK, RowsAt
  <2>3. b[s] \in Stack /\ b[s].count \in Nat \ {0} /\ b[s].item \in Items
    BY <1>4, <2>2 DEF Stack
  <2>4. b[s] = [item |-> b[s].item, count |-> b[s].count]
    BY <2>3 DEF Stack
  <2>5. SumOver(fi, R) = IF b[s].item = i THEN n ELSE 0
    <3>1. CASE b[s].item = i
      <4>1. \A q \in R : fi[q] = RowCount(o)[q]
        BY <1>3, <2>2, <3>1
      <4>2. \A q \in R : RowCount(o)[q] \in Nat
        BY <1>3
      <4>3. IsFiniteSet(R)
        BY <1>3
      <4> HIDE DEF fi, R, n
      <4> QED BY <1>1, <3>1, <4>1, <4>2, <4>3, SumSame
    <3>2. CASE b[s].item # i
      <4>1. \A q \in R : fi[q] = 0
        BY <1>3, <2>2, <3>2
      <4> HIDE DEF fi, R
      <4> QED BY <1>3, <3>2, <4>1, SumZero
    <3> QED BY <3>1, <3>2
  <2> HIDE DEF n, R, fi
  <2>6. CASE n = 0
    <3>1. w = b[s]
      BY <1>2, <2>6
    <3>2. Units(b[s], i) \in Nat
      BY <2>3 DEF Units
    <3> HIDE DEF w
    <3> QED BY <1>5, <2>3, <2>5, <2>6, <3>1, <3>2 DEF w, R, fi
  <2>7. CASE n # 0 /\ n = b[s].count
    <3>1. w = Empty
      BY <1>2, <2>7
    <3>2. Units(w, i) = 0
      BY <3>1 DEF Units
    <3> HIDE DEF w
    <3> QED BY <1>5, <2>2, <2>3, <2>5, <2>7, <3>1, <3>2 DEF w, R, fi, Units
  <2>8. CASE n # 0 /\ n # b[s].count
    <3>1. w = [b[s] EXCEPT !.count = @ - n]
      BY <1>2, <2>8
    <3>2. w = [item |-> b[s].item, count |-> b[s].count - n]
      BY <3>1, <2>4
    <3>3. b[s].count - n \in Nat \ {0}
      BY <1>1, <2>2, <2>3, <2>8
    <3>4. w \in Stack /\ w.item = b[s].item /\ w.count = b[s].count - n
      BY <2>3, <3>2, <3>3 DEF Stack
    <3>5. w # Empty
      BY <3>4, <1>4
    <3>6. Units(b[s], i) = Units(w, i) + SumOver(fi, R)
      <4> HIDE DEF w
      <4> QED BY <1>1, <2>2, <2>3, <2>5, <3>4, <3>5 DEF Units
    <3> HIDE DEF w
    <3> QED BY <1>5, <3>4, <3>6 DEF w, R, fi
  <2> QED BY <2>6, <2>7, <2>8
<1> QED BY <1>6, <1>7

\* Everything offered leaves the bag, and nothing else does.
LEMMA WithdrawKeeps ==
    ASSUME NEW b \in Bag, NEW o, IsOffers(o), OffersOK(b, o)
    PROVE  /\ Withdraw(b, o) \in Bag
           /\ \A i : /\ Offered(o, i) \in Nat
                     /\ Holding(b, i) = Holding(Withdraw(b, o), i) + Offered(o, i)
<1> DEFINE w == Withdraw(b, o)
<1>1. w \in Bag
  <2>1. \A s \in Slots : w[s] \in Stack \cup {Empty}
    BY WithdrawSlot
  <2>2. w = [s \in Slots |-> w[s]]
    BY DEF Withdraw
  <2> HIDE DEF w
  <2> QED BY <2>1, <2>2 DEF Bag
<1>2. ASSUME NEW i
      PROVE  Offered(o, i) \in Nat /\ Holding(b, i) = Holding(w, i) + Offered(o, i)
  <2> DEFINE R == DOMAIN o
             k == [r \in R |-> o[r].slot]
             fi == RowCountOf(o, i)
             e == [s \in Slots |-> SumOver(fi, {r \in R : k[r] = s})]
  <2>1. /\ IsFiniteSet(Slots) /\ IsFiniteSet(R)
        /\ \A r \in R : k[r] \in Slots
        /\ \A r \in R : fi[r] \in Nat
    BY OffersFinite, ExchangeAssumption DEF RowCountOf
  <2>2. \A s \in Slots : e[s] = SumOver(fi, RowsAt(o, s))
    <3> SUFFICES ASSUME NEW s \in Slots PROVE e[s] = SumOver(fi, RowsAt(o, s))
      OBVIOUS
    <3>1. {r \in R : k[r] = s} = RowsAt(o, s)
      BY DEF RowsAt
    <3> HIDE DEF fi
    <3> QED BY <3>1
  <2>3. SumOver(e, Slots) = Offered(o, i)
    <3> HIDE DEF k, fi, R
    <3>1. SumOver(e, Slots) = SumOver(fi, R)
      BY <2>1, SumGroups
    <3> QED BY <3>1 DEF Offered, fi, R
  <2>4. \A s \in Slots : /\ SlotCount(w, i)[s] \in Nat /\ e[s] \in Nat
                         /\ SlotCount(b, i)[s] = SlotCount(w, i)[s] + e[s]
    <3> SUFFICES ASSUME NEW s \in Slots
                 PROVE  /\ Units(w[s], i) \in Nat /\ e[s] \in Nat
                        /\ Units(b[s], i) = Units(w[s], i) + e[s]
      BY Zenon DEF SlotCount
    <3>1. w[s] \in Stack \cup {Empty}
      BY WithdrawSlot
    <3>2. Units(w[s], i) \in Nat
      <4> HIDE DEF w
      <4> QED BY <3>1 DEF Units, Stack
    <3> HIDE DEF e
    <3> QED BY <2>2, <3>2, WithdrawSlot
  <2> HIDE DEF e, w
  <2>5. SumOver(SlotCount(b, i), Slots) = SumOver(SlotCount(w, i), Slots) + SumOver(e, Slots)
    BY <2>1, <2>4, SumPlus
  <2>6. SumOver(e, Slots) \in Nat
    <3>1. \A s \in Slots : e[s] \in Nat
      BY <2>4
    <3> QED BY <2>1, <3>1, SumStep
  <2> QED BY <1>1, <2>3, <2>5, <2>6, HoldingIsSum
<1> QED BY <1>1, <1>2

-----------------------------------------------------------------------------
(* Finding a slot for everything that comes in. *)

\* One row of the container, on the bag the rows before it have left.
PutRow(o, r, sofar) ==
    IF r \notin DOMAIN o \/ sofar = Full THEN sofar
    ELSE IF FreeSlots(sofar, o[r].slot) = {} THEN Full
         ELSE [sofar EXCEPT ![Min(FreeSlots(sofar, o[r].slot))] =
                 [item |-> o[r].item, count |-> o[r].count]]

\* g is the bag after each row up to the last one.
Puts(g, b, o, last) ==
    g = [r \in (FirstRow - 1) .. last |->
           IF r < FirstRow THEN b ELSE PutRow(o, r, g[r - 1])]

\* There is such a function.
LEMMA PutsExist ==
    ASSUME NEW b, NEW o
    PROVE  \E g : Puts(g, b, o, LastRow)
<1> DEFINE Upto(n) == FirstRow - 1 + n
           G == {n \in Nat : \E g : Puts(g, b, o, Upto(n))}
<1>0. FirstRow \in Nat /\ LastRow \in Nat /\ FirstRow <= LastRow
  BY ExchangeAssumption
<1>1. 0 \in G
  <2> DEFINE g == [r \in (FirstRow - 1) .. (FirstRow - 1) |-> b]
  <2>1. Upto(0) = FirstRow - 1
    BY <1>0
  <2>2. g = [r \in (FirstRow - 1) .. (FirstRow - 1) |->
               IF r < FirstRow THEN b ELSE PutRow(o, r, g[r - 1])]
    BY <1>0
  <2>3. Puts(g, b, o, Upto(0))
    BY <2>1, <2>2 DEF Puts
  <2> QED BY <2>3
<1>2. ASSUME NEW n \in Nat, n \in G PROVE n + 1 \in G
  <2>1. PICK g : Puts(g, b, o, Upto(n))
    BY <1>2
  <2> DEFINE D == (FirstRow - 1) .. Upto(n)
             E == (FirstRow - 1) .. Upto(n + 1)
             h == [r \in E |-> IF r < FirstRow THEN b ELSE PutRow(o, r, g[r - 1])]
  <2>2. \A r \in D : r \in E
    BY <1>0
  <2>3. \A r \in D : g[r] = IF r < FirstRow THEN b ELSE PutRow(o, r, g[r - 1])
    BY <2>1 DEF Puts
  <2>4. \A r \in E : ~ (r < FirstRow) => r - 1 \in D
    BY <1>0
  <2> HIDE DEF D, E
  <2>5. \A r \in D : h[r] = g[r]
    BY <2>2, <2>3
  <2>6. h = [r \in E |-> IF r < FirstRow THEN b ELSE PutRow(o, r, h[r - 1])]
    BY <2>4, <2>5
  <2>7. Puts(h, b, o, Upto(n + 1))
    <3> HIDE DEF h
    <3> QED BY <2>6 DEF Puts, E
  <2> QED BY <2>7
<1>3. \A n \in Nat : n \in G
  <2> HIDE DEF G
  <2> QED BY <1>1, <1>2, NatSetInduction
<1>4. LastRow - FirstRow + 1 \in Nat /\ Upto(LastRow - FirstRow + 1) = LastRow
  BY <1>0
<1> QED BY <1>3, <1>4

\* allocateDestinationSlot puts one incoming stack into an empty slot.
LEMMA PutRowKeeps ==
    ASSUME NEW b \in Bag, NEW o, IsOffers(o), NEW r \in DOMAIN o, PutRow(o, r, b) # Full
    PROVE  /\ PutRow(o, r, b) \in Bag
           /\ \A i : Holding(PutRow(o, r, b), i) = Holding(b, i) + RowCountOf(o, i)[r]
<1> DEFINE free == FreeSlots(b, o[r].slot)
           s == Min(free)
           v == [item |-> o[r].item, count |-> o[r].count]
<1>1. b # Full
  BY ExchangeAssumption
<1>2. free # {} /\ PutRow(o, r, b) = [b EXCEPT ![s] = v]
  BY <1>1 DEF PutRow
<1>3. s \in Slots /\ b[s] = Empty
  <2>1. free \in SUBSET Nat
    BY ExchangeAssumption DEF FreeSlots
  <2>2. \E n \in free : \A m \in free : n <= m
    <3> HIDE DEF free
    <3> QED BY <1>2, <2>1, NatMin
  <2>3. Min(free) \in free
    <3> HIDE DEF free
    <3> QED BY <2>2 DEF Min
  <2> QED BY <2>3 DEF FreeSlots
<1>4. v \in Stack /\ v # Empty
  BY OffersFinite, ExchangeAssumption DEF Stack
<1> HIDE DEF s
<1>5. ASSUME NEW i PROVE Holding([b EXCEPT ![s] = v], i) = Holding(b, i) + RowCountOf(o, i)[r]
  <2>1. /\ Holding([b EXCEPT ![s] = v], i) + Units(b[s], i)
             = Holding(b, i) + Units(v, i)
        /\ [b EXCEPT ![s] = v] \in Bag
    <3> HIDE DEF v
    <3> QED BY <1>3, <1>4, HoldingChange
  <2>2. Units(b[s], i) = 0
    BY <1>3 DEF Units
  <2>3. Units(v, i) = RowCountOf(o, i)[r]
    BY <1>4 DEF Units, RowCountOf
  <2>4. Holding([b EXCEPT ![s] = v], i) \in Nat /\ Holding(b, i) \in Nat
    BY <2>1, HoldingIsSum
  <2> HIDE DEF v
  <2> QED BY <2>1, <2>2, <2>3, <2>4
<1>6. [b EXCEPT ![s] = v] \in Bag
  <2> HIDE DEF v
  <2> QED BY <1>3, <1>4, HoldingChange
<1> QED BY <1>2, <1>5, <1>6

\* A deposit that finds a slot for every row adds what is offered, and nothing
\* else.
LEMMA DepositKeeps ==
    ASSUME NEW b \in Bag, NEW o, IsOffers(o), Deposit(b, o) # Full
    PROVE  /\ Deposit(b, o) \in Bag
           /\ \A i : Holding(Deposit(b, o), i) = Holding(b, i) + Offered(o, i)
<1>0. FirstRow \in Nat /\ LastRow \in Nat /\ FirstRow <= LastRow /\ Full \notin Bag
  BY ExchangeAssumption
<1> DEFINE put == CHOOSE g : Puts(g, b, o, LastRow)
<1>1. Deposit(b, o) = put[LastRow]
  BY DEF Deposit, Puts, PutRow
<1>2. Puts(put, b, o, LastRow)
  BY PutsExist
<1> HIDE DEF put
<1>3. \A r \in (FirstRow - 1) .. LastRow :
        put[r] = IF r < FirstRow THEN b ELSE PutRow(o, r, put[r - 1])
  BY <1>2 DEF Puts
<1> DEFINE Upto(n) == FirstRow - 1 + n
           Seen(n) == {r \in DOMAIN o : r <= Upto(n)}
           Fine(n) ==
             n <= LastRow - FirstRow + 1 /\ put[Upto(n)] # Full =>
               /\ put[Upto(n)] \in Bag
               /\ \A i : Holding(put[Upto(n)], i)
                           = Holding(b, i) + SumOver(RowCountOf(o, i), Seen(n))
           G == {n \in Nat : Fine(n)}
<1>4. \A r \in DOMAIN o : r \in FirstRow .. LastRow
  BY DEF IsOffers, Rows
<1>5. \A i : \A r \in DOMAIN o : RowCountOf(o, i)[r] \in Nat
  BY OffersFinite DEF RowCountOf
<1>6. \A n \in Nat : IsFiniteSet(Seen(n))
  BY OffersFinite, FS_Subset
<1>7. 0 \in G
  <2>1. Upto(0) = FirstRow - 1 /\ put[Upto(0)] = b /\ Seen(0) = {}
    BY <1>0, <1>3, <1>4
  <2>2. ASSUME NEW i PROVE Holding(b, i) = Holding(b, i) + SumOver(RowCountOf(o, i), {})
    <3>1. SumOver(RowCountOf(o, i), {}) = 0
      <4>1. \A x \in {} : RowCountOf(o, i)[x] = 0
        OBVIOUS
      <4> QED BY <4>1, FS_EmptySet, SumZero
    <3>2. Holding(b, i) \in Nat
      BY HoldingIsSum
    <3> QED BY <3>1, <3>2
  <2> HIDE DEF Upto, Seen
  <2> QED BY <2>1, <2>2
<1>8. ASSUME NEW n \in Nat, n \in G PROVE n + 1 \in G
  <2>0. n + 1 \in Nat
    OBVIOUS
  <2> SUFFICES ASSUME n + 1 <= LastRow - FirstRow + 1, put[Upto(n + 1)] # Full
               PROVE  /\ put[Upto(n + 1)] \in Bag
                      /\ \A i : Holding(put[Upto(n + 1)], i)
                                  = Holding(b, i) + SumOver(RowCountOf(o, i), Seen(n + 1))
    BY <2>0, Zenon
  <2> DEFINE r == Upto(n + 1)
             was == put[Upto(n)]
  <2>1. r \in FirstRow .. LastRow /\ r - 1 = Upto(n) /\ put[r] = PutRow(o, r, was)
    <3>1. r \in FirstRow .. LastRow /\ r - 1 = Upto(n)
      BY <1>0
    <3> HIDE DEF r, Upto
    <3> QED BY <3>1, <1>0, <1>3
  <2>2. was # Full
    <3> HIDE DEF r, was
    <3> QED BY <2>1 DEF PutRow, r
  <2>3. /\ was \in Bag
        /\ \A i : Holding(was, i) = Holding(b, i) + SumOver(RowCountOf(o, i), Seen(n))
    BY <1>8, <2>2, <1>0
  <2>4. CASE r \notin DOMAIN o
    <3>1. Seen(n + 1) = Seen(n)
      BY <1>0, <1>4, <2>4
    <3>2. put[r] = was
      <4> HIDE DEF r, was
      <4> QED BY <2>1, <2>4 DEF PutRow
    <3> HIDE DEF Seen, was
    <3> QED BY <2>3, <3>1, <3>2
  <2>5. CASE r \in DOMAIN o
    <3>1. Seen(n + 1) \ {r} = Seen(n) /\ r \in Seen(n + 1)
      BY <1>0, <1>4, <2>5
    <3>2. PutRow(o, r, was) # Full
      BY <2>1
    <3>3. /\ put[r] \in Bag
          /\ \A i : Holding(put[r], i) = Holding(was, i) + RowCountOf(o, i)[r]
      <4> HIDE DEF r, was
      <4> QED BY <2>1, <2>3, <2>5, <3>2, PutRowKeeps
    <3>4. ASSUME NEW i
          PROVE  Holding(put[r], i) = Holding(b, i) + SumOver(RowCountOf(o, i), Seen(n + 1))
      <4>1. IsFiniteSet(Seen(n + 1)) /\ IsFiniteSet(Seen(n)) /\ n + 1 \in Nat
        BY <1>6
      <4>2. /\ \A q \in Seen(n + 1) : RowCountOf(o, i)[q] \in Nat
            /\ \A q \in Seen(n) : RowCountOf(o, i)[q] \in Nat
        BY <1>5
      <4> HIDE DEF Seen, r, was
      <4>3. SumOver(RowCountOf(o, i), Seen(n + 1))
              = RowCountOf(o, i)[r] + SumOver(RowCountOf(o, i), Seen(n))
        BY <3>1, <4>1, <4>2, SumStep
      <4>4. SumOver(RowCountOf(o, i), Seen(n)) \in Nat
        BY <4>1, <4>2, SumStep
      <4>5. RowCountOf(o, i)[r] \in Nat /\ Holding(b, i) \in Nat
        BY <1>5, <2>5, HoldingIsSum
      <4> QED BY <2>3, <3>3, <4>3, <4>4, <4>5
    <3> QED BY <3>3, <3>4
  <2> QED BY <2>4, <2>5
<1>9. \A n \in Nat : n \in G
  <2> HIDE DEF G
  <2> QED BY <1>7, <1>8, NatSetInduction
<1> DEFINE m == LastRow - FirstRow + 1
<1>10. m \in Nat /\ Upto(m) = LastRow /\ Seen(m) = DOMAIN o
  BY <1>0, <1>4
<1>11. Fine(m)
  <2> HIDE DEF m, Fine
  <2> QED BY <1>9, <1>10
<1>12. m <= LastRow - FirstRow + 1
  BY <1>0
<1> HIDE DEF Seen, Upto, m
<1> QED BY <1>1, <1>10, <1>11, <1>12 DEF Offered

-----------------------------------------------------------------------------
(* The exchange. *)

(* Owner.Exchange conserves: when it accepts the offers of two participants *)
(* both bags stay well formed, wallets stay within their range, and of every *)
(* item, and of gold, the two together own what they owned before, however *)
(* stacks are split, rows share a source slot, and freed slots are reused. *)
THEOREM ExchangeConserves ==
    ASSUME NEW b \in Bag, NEW gold \in 0 .. MaxGold, NEW o, IsOffers(o), NEW pay \in Nat,
           NEW bq \in Bag, NEW goldq \in 0 .. MaxGold, NEW oq, IsOffers(oq), NEW payq \in Nat,
           ExchangeOK(b, gold, o, pay, bq, goldq, oq, payq)
    PROVE  /\ Swapped(b, o, oq) \in Bag /\ Swapped(bq, oq, o) \in Bag
           /\ gold - pay + payq \in 0 .. MaxGold
           /\ goldq - payq + pay \in 0 .. MaxGold
           /\ \A i : Holding(Swapped(b, o, oq), i) + Holding(Swapped(bq, oq, o), i)
                       = Holding(b, i) + Holding(bq, i)
<1> DEFINE w == Withdraw(b, o)
           wq == Withdraw(bq, oq)
<1>1. /\ OffersOK(b, o) /\ OffersOK(bq, oq)
      /\ Deposit(w, oq) # Full /\ Deposit(wq, o) # Full
  BY DEF ExchangeOK, Swapped
<1>2. /\ w \in Bag
      /\ \A i : Offered(o, i) \in Nat /\ Holding(b, i) = Holding(w, i) + Offered(o, i)
  BY <1>1, WithdrawKeeps
<1>3. /\ wq \in Bag
      /\ \A i : Offered(oq, i) \in Nat /\ Holding(bq, i) = Holding(wq, i) + Offered(oq, i)
  BY <1>1, WithdrawKeeps
<1> HIDE DEF w, wq
<1>4. /\ Deposit(w, oq) \in Bag
      /\ \A i : Holding(Deposit(w, oq), i) = Holding(w, i) + Offered(oq, i)
  BY <1>1, <1>2, DepositKeeps
<1>5. /\ Deposit(wq, o) \in Bag
      /\ \A i : Holding(Deposit(wq, o), i) = Holding(wq, i) + Offered(o, i)
  BY <1>1, <1>3, DepositKeeps
<1>6. \A i : Holding(w, i) \in Nat /\ Holding(wq, i) \in Nat
  BY <1>2, <1>3, HoldingIsSum
<1>7. Swapped(b, o, oq) = Deposit(w, oq) /\ Swapped(bq, oq, o) = Deposit(wq, o)
  BY DEF Swapped, w, wq
<1>8. ASSUME NEW i
      PROVE  Holding(Deposit(w, oq), i) + Holding(Deposit(wq, o), i)
               = Holding(b, i) + Holding(bq, i)
  BY <1>2, <1>3, <1>4, <1>5, <1>6
<1>9. /\ gold - pay + payq \in 0 .. MaxGold
      /\ goldq - payq + pay \in 0 .. MaxGold
  BY ExchangeAssumption DEF ExchangeOK, GoldOK
<1> QED BY <1>4, <1>5, <1>7, <1>8, <1>9

-----------------------------------------------------------------------------
(* The protocol: types and the inductive invariant. *)

OfferRows == UNION {[R -> Offer] : R \in SUBSET Rows}

\* The trade objects of two characters.
TradeOf(c, d) ==
    [participants : {<<c, d>>}, offers : [{c, d} -> OfferRows],
     gold : [{c, d} -> Nat], states : [{c, d} -> {0, AddingDone, Ready}],
     committing : BOOLEAN]

Trade == UNION {TradeOf(x[1], x[2]) : x \in {y \in Chars \X Chars : y[1] # y[2]}}

Both(trade) == {trade.participants[1], trade.participants[2]}

\* The locals a handler keeps across its steps.
Locals ==
    [at : {"idle", "detach", "detachTrade", "unbind"}]
      \cup [at : {"begin"}, peer : Chars]
      \cup [at : {"gold"}, n : Nat]
      \cup [at : {"goldSet"}, trade : Nat, prev : Nat]
      \cup [at : {"offer"}, offer : Offer]
      \cup [at : {"offerSet"}, trade : Nat, row : Rows]
      \cup [at : {"commit", "finish"}, trade : Nat]
      \cup [at : {"cancel"}, trade : Nat, then : [at : {"idle", "unbind"}]]

-----------------------------------------------------------------------------
(* The inductive invariant. *)

ShapeOK ==
    /\ trades \in Seq(Trade)
    /\ itemTrades \in [Chars -> 0 .. Len(trades)]
    /\ pc \in [Sessions -> Locals]

\* The registry part of RegistrySymmetric.
Registered ==
    \A c \in Chars : itemTrades[c] # 0 =>
        /\ c \in Participants(itemTrades[c])
        /\ \A d \in Participants(itemTrades[c]) : itemTrades[d] = itemTrades[c]

Beginning == {s \in Sessions : pc[s].at = "begin"}

\* Every handler that is about to begin has its trade counted.
BeginsCounted == Len(trades) + Cardinality(Beginning) <= MaxTrades

\* What the locals of a session refer to exists; a session that commits does so
\* for a trade that is marked committing and was not answered yet.
SessionOK(s) ==
    /\ pc[s].at = "begin" => pc[s].peer # CharOf[s]
    /\ pc[s].at \in {"goldSet", "offerSet", "commit", "finish", "cancel"} =>
         pc[s].trade \in 1 .. Len(trades)
    /\ pc[s].at \in {"commit", "finish"} =>
         /\ trades[pc[s].trade].committing
         /\ \A m \in told : m.kind = "finish" => m.trade # pc[s].trade

\* One session at most commits a trade.
CommitsAlone ==
    \A r, s \in Sessions :
        r # s /\ pc[r].at \in {"commit", "finish"} /\ pc[s].at \in {"commit", "finish"}
          => pc[r].trade # pc[s].trade

\* An answered trade stays marked.
AnsweredOK ==
    \A m \in told : m.kind = "finish" =>
        m.trade \in 1 .. Len(trades) /\ trades[m.trade].committing

Core ==
    /\ ShapeOK /\ Registered /\ BeginsCounted
    /\ \A s \in Sessions : SessionOK(s)
    /\ CommitsAlone /\ AnsweredOK

-----------------------------------------------------------------------------
(* Shapes. *)

\* The members of OfferRows are the offers.
LEMMA OfferRowsAre == \A f : f \in OfferRows <=> IsOffers(f)
BY DEF OfferRows, IsOffers

\* A trade object belongs to two different characters and has all its parts.
LEMMA TradeParts ==
    ASSUME NEW r \in Trade
    PROVE  /\ r.participants \in Chars \X Chars
           /\ r.participants[1] \in Chars /\ r.participants[2] \in Chars
           /\ r.participants[1] # r.participants[2]
           /\ r.participants = <<r.participants[1], r.participants[2]>>
           /\ r \in TradeOf(r.participants[1], r.participants[2])
           /\ r.offers \in [Both(r) -> OfferRows] /\ r.gold \in [Both(r) -> Nat]
           /\ r.states \in [Both(r) -> {0, AddingDone, Ready}]
           /\ r.committing \in BOOLEAN
           /\ DOMAIN r = {"participants", "offers", "gold", "states", "committing"}
<1>1. PICK x \in Chars \X Chars : x[1] # x[2] /\ r \in TradeOf(x[1], x[2])
  BY DEF Trade
<1>2. r.participants = <<x[1], x[2]>>
  BY <1>1 DEF TradeOf
<1>3. r.participants[1] = x[1] /\ r.participants[2] = x[2]
  BY <1>2
<1>4. x[1] \in Chars /\ x[2] \in Chars
  BY <1>1
<1>5. Both(r) = {x[1], x[2]}
  BY <1>3 DEF Both
<1>6. DOMAIN r = {"participants", "offers", "gold", "states", "committing"}
  BY <1>1 DEF TradeOf
<1> QED BY <1>1, <1>2, <1>3, <1>4, <1>5, <1>6 DEF TradeOf

\* A changed part of the right type leaves a trade object.
LEMMA TradeEdits ==
    ASSUME NEW r \in Trade
    PROVE  /\ \A v \in [Both(r) -> Nat] : [r EXCEPT !.gold = v] \in Trade
           /\ \A v \in [Both(r) -> OfferRows] : [r EXCEPT !.offers = v] \in Trade
           /\ \A v \in [Both(r) -> {0, AddingDone, Ready}], b \in BOOLEAN :
                [r EXCEPT !.states = v, !.committing = b] \in Trade
<1> DEFINE c == r.participants[1]
           d == r.participants[2]
<1>1. /\ r \in TradeOf(c, d) /\ Both(r) = {c, d} /\ <<c, d>> \in Chars \X Chars /\ c # d
  BY TradeParts DEF Both
<1>2. TradeOf(c, d) \subseteq Trade
  BY <1>1 DEF Trade
<1> HIDE DEF c, d
<1>3. /\ \A v \in [{c, d} -> Nat] : [r EXCEPT !.gold = v] \in TradeOf(c, d)
      /\ \A v \in [{c, d} -> OfferRows] : [r EXCEPT !.offers = v] \in TradeOf(c, d)
      /\ \A v \in [{c, d} -> {0, AddingDone, Ready}], b \in BOOLEAN :
           [r EXCEPT !.states = v, !.committing = b] \in TradeOf(c, d)
  BY <1>1 DEF TradeOf
<1> QED BY <1>1, <1>2, <1>3

\* Replacing one trade object.
LEMMA TradesEdits ==
    ASSUME trades \in Seq(Trade), NEW t \in 1 .. Len(trades), NEW r \in Trade
    PROVE  LET after == [trades EXCEPT ![t] = r]
           IN  /\ after \in Seq(Trade) /\ Len(after) = Len(trades)
               /\ after[t] = r
               /\ \A u \in 1 .. Len(trades) : u # t => after[u] = trades[u]
BY DEF Seq

\* The locals by the place they are for.
LEMMA LocalsParts ==
    ASSUME NEW l \in Locals
    PROVE  /\ l.at \in {"idle", "detach", "detachTrade", "unbind", "begin", "gold", "goldSet",
                        "offer", "offerSet", "commit", "finish", "cancel"}
           /\ l.at = "begin" => l.peer \in Chars
           /\ l.at = "gold" => l.n \in Nat
           /\ l.at = "goldSet" => l.prev \in Nat
           /\ l.at = "offer" => l.offer \in Offer
           /\ l.at = "offerSet" => l.row \in Rows
           /\ l.at = "cancel" => /\ l.then \in Locals
                                 /\ l.then.at \in {"idle", "unbind"}
           /\ l.at \in {"goldSet", "offerSet", "commit", "finish", "cancel"} => l.trade \in Nat
BY DEF Locals

\* The locals the steps write.
LEMMA LocalsMade ==
    /\ idle \in Locals /\ [at |-> "detach"] \in Locals
    /\ [at |-> "detachTrade"] \in Locals /\ [at |-> "unbind"] \in Locals
    /\ \A p \in Chars : [at |-> "begin", peer |-> p] \in Locals
    /\ \A n \in Nat : [at |-> "gold", n |-> n] \in Locals
    /\ \A t, n \in Nat : [at |-> "goldSet", trade |-> t, prev |-> n] \in Locals
    /\ \A o \in Offer : [at |-> "offer", offer |-> o] \in Locals
    /\ \A t \in Nat, r \in Rows : [at |-> "offerSet", trade |-> t, row |-> r] \in Locals
    /\ \A t \in Nat : /\ [at |-> "commit", trade |-> t] \in Locals
                      /\ [at |-> "finish", trade |-> t] \in Locals
    /\ \A t \in Nat : /\ [at |-> "cancel", trade |-> t, then |-> idle] \in Locals
                      /\ [at |-> "cancel", trade |-> t, then |-> [at |-> "unbind"]] \in Locals
BY DEF Locals, idle

\* Participants are two characters.
LEMMA ParticipantsAre ==
    ASSUME trades \in Seq(Trade), NEW t \in 1 .. Len(trades)
    PROVE  /\ trades[t] \in Trade /\ Participants(t) = Both(trades[t])
           /\ Participants(t) \subseteq Chars
           /\ trades[t].participants[1] # trades[t].participants[2]
<1>1. trades[t] \in Trade
  OBVIOUS
<1> QED BY <1>1, TradeParts DEF Participants, Both

\* The trade of a registered character is there, and the character is in it.
LEMMA RegisteredTrade ==
    ASSUME ShapeOK, Registered, NEW c \in Chars, itemTrades[c] # 0
    PROVE  /\ itemTrades[c] \in 1 .. Len(trades)
           /\ trades[itemTrades[c]] \in Trade
           /\ c \in Both(trades[itemTrades[c]])
<1>1. Len(trades) \in Nat
  BY DEF ShapeOK
<1>2. itemTrades[c] \in 1 .. Len(trades)
  BY <1>1 DEF ShapeOK
<1> QED BY <1>2, ParticipantsAre DEF ShapeOK, Registered

\* Sessions are finite, so those that begin can be counted.
LEMMA BeginningCounts ==
    ASSUME pc \in [Sessions -> Locals], NEW s \in Sessions, NEW next,
           pc' = [pc EXCEPT ![s] = next]
    PROVE  /\ Cardinality(Beginning) \in Nat /\ Cardinality(Beginning') \in Nat
           /\ next.at # "begin" => Cardinality(Beginning') <= Cardinality(Beginning)
           /\ next.at = "begin" => Cardinality(Beginning') <= Cardinality(Beginning) + 1
           /\ next.at # "begin" /\ pc[s].at = "begin"
                => Cardinality(Beginning') = Cardinality(Beginning) - 1
<1>1. IsFiniteSet(Sessions)
  BY TradeAssumption
<1>2. Beginning \in SUBSET Sessions /\ Beginning' \in SUBSET Sessions
  BY DEF Beginning
<1>3. /\ IsFiniteSet(Beginning) /\ IsFiniteSet(Beginning')
      /\ Cardinality(Beginning) \in Nat /\ Cardinality(Beginning') \in Nat
  BY <1>1, <1>2, FS_Subset, FS_CardinalityType
<1>4. \A x \in Sessions : pc'[x] = IF x = s THEN next ELSE pc[x]
  OBVIOUS
<1>5. next.at # "begin" => Beginning' = Beginning \ {s}
  BY <1>4 DEF Beginning
<1>6. next.at = "begin" => Beginning' = Beginning \cup {s}
  BY <1>4 DEF Beginning
<1>7. pc[s].at = "begin" <=> s \in Beginning
  BY DEF Beginning
<1>8. /\ Cardinality(Beginning \ {s})
           = IF s \in Beginning THEN Cardinality(Beginning) - 1 ELSE Cardinality(Beginning)
      /\ Cardinality(Beginning \cup {s})
           = IF s \in Beginning THEN Cardinality(Beginning) ELSE Cardinality(Beginning) + 1
  BY <1>3, FS_AddElement, FS_RemoveElement
<1>9. CASE next.at = "begin"
  <2>1. Cardinality(Beginning') = Cardinality(Beginning \cup {s})
    BY <1>6, <1>9
  <2>2. Cardinality(Beginning') <= Cardinality(Beginning) + 1
    BY <1>3, <1>8, <2>1
  <2> QED BY <1>3, <1>9, <2>2
<1>10. CASE next.at # "begin"
  BY <1>3, <1>5, <1>7, <1>8, <1>10
<1> QED BY <1>9, <1>10

-----------------------------------------------------------------------------
(* Steps that leave the registry alone. *)

\* What such a step may do to the trade objects.
Evolves ==
    /\ trades' \in Seq(Trade) /\ Len(trades') = Len(trades)
    /\ \A t \in 1 .. Len(trades) :
         /\ trades'[t].participants = trades[t].participants
         /\ trades[t].committing => trades'[t].committing

\* What it may do to the locals of its session.
Proceeds(s, next) ==
    /\ next \in Locals
    /\ pc' = [pc EXCEPT ![s] = next]
    /\ next.at = "begin" =>
         /\ next.peer # CharOf[s]
         /\ Len(trades) + Cardinality(Beginning) < MaxTrades
    /\ next.at \in {"goldSet", "offerSet", "cancel"} => next.trade \in 1 .. Len(trades)
    /\ next.at \in {"commit", "finish"} =>
         /\ next.trade \in 1 .. Len(trades)
         /\ trades'[next.trade].committing
         /\ \A m \in told : m.kind = "finish" => m.trade # next.trade
         /\ \A r \in Sessions \ {s} :
              pc[r].at \in {"commit", "finish"} => pc[r].trade # next.trade

\* Such a step keeps the invariant.
LEMMA EvolveKeeps ==
    ASSUME Core, NEW s \in Sessions, NEW next, Proceeds(s, next), Evolves,
           UNCHANGED <<itemTrades, told>>
    PROVE  Core'
<1>1. ShapeOK'
  BY DEF Core, ShapeOK, Evolves, Proceeds
<1>2. \A t \in 1 .. Len(trades) : Participants(t)' = Participants(t)
  BY DEF Evolves, Participants
<1>3. Registered'
  <2>1. \A c \in Chars : itemTrades[c] # 0 => itemTrades[c] \in 1 .. Len(trades)
    BY DEF Core, ShapeOK
  <2> QED BY <1>2, <2>1 DEF Core, Registered
<1>4. BeginsCounted'
  <2>1. pc \in [Sessions -> Locals] /\ Len(trades) \in Nat
    BY DEF Core, ShapeOK
  <2>2. /\ Cardinality(Beginning) \in Nat /\ Cardinality(Beginning') \in Nat
        /\ next.at # "begin" => Cardinality(Beginning') <= Cardinality(Beginning)
        /\ next.at = "begin" => Cardinality(Beginning') <= Cardinality(Beginning) + 1
    BY <2>1, BeginningCounts DEF Proceeds
  <2>3. Len(trades) + Cardinality(Beginning) <= MaxTrades /\ MaxTrades \in Nat
    BY TradeAssumption DEF Core, BeginsCounted
  <2> QED BY <2>1, <2>2, <2>3 DEF Proceeds, Evolves, BeginsCounted
<1>5. \A x \in Sessions : pc'[x] = IF x = s THEN next ELSE pc[x]
  BY DEF Core, ShapeOK, Proceeds
<1>6. ASSUME NEW x \in Sessions PROVE SessionOK(x)'
  <2>1. CASE x = s
    BY <2>1, <1>5 DEF SessionOK, Proceeds, Evolves
  <2>2. CASE x # s
    <3>1. pc'[x] = pc[x] /\ SessionOK(x)
      BY <2>2, <1>5 DEF Core
    <3> QED BY <3>1 DEF SessionOK, Evolves
  <2> QED BY <2>1, <2>2
<1>7. CommitsAlone'
  <2> SUFFICES ASSUME NEW x \in Sessions, NEW y \in Sessions, x # y,
                      pc'[x].at \in {"commit", "finish"}, pc'[y].at \in {"commit", "finish"}
               PROVE  pc'[x].trade # pc'[y].trade
    BY DEF CommitsAlone
  <2> QED BY <1>5 DEF Core, CommitsAlone, Proceeds
<1>8. AnsweredOK'
  BY DEF Core, AnsweredOK, Evolves
<1> QED BY <1>1, <1>3, <1>4, <1>6, <1>7, <1>8 DEF Core

-----------------------------------------------------------------------------
(* The steps of ItemTrade that leave the registry alone. *)

\* Places from which a session refers to nothing.
Plain == {"idle", "detach", "detachTrade", "unbind", "gold", "offer"}

\* A step that edits no trade and leaves its session at a plain place.
LEMMA PlainKeeps ==
    ASSUME Core, NEW s \in Sessions, NEW next \in Locals, next.at \in Plain,
           pc' = [pc EXCEPT ![s] = next], Evolves, UNCHANGED <<itemTrades, told>>
    PROVE  Core'
<1>1. Proceeds(s, next)
  BY DEF Proceeds, Plain
<1> QED BY <1>1, EvolveKeeps

\* Leaving the trades alone is one way to evolve them.
LEMMA SameEvolves ==
    ASSUME Core, UNCHANGED trades
    PROVE  Evolves
BY DEF Core, ShapeOK, Evolves

\* So is replacing one trade object by a later stage of it.
LEMMA EditEvolves ==
    ASSUME trades \in Seq(Trade), NEW t \in 1 .. Len(trades), NEW r \in Trade,
           r.participants = trades[t].participants, trades[t].committing => r.committing,
           trades' = [trades EXCEPT ![t] = r]
    PROVE  Evolves
BY TradesEdits DEF Evolves

\* Setting the gold of one side.
LEMMA GoldEvolves ==
    ASSUME Core, NEW t \in 1 .. Len(trades), NEW c \in Both(trades[t]), NEW v \in Nat,
           trades' = [trades EXCEPT ![t].gold[c] = v]
    PROVE  Evolves
<1>1. trades \in Seq(Trade) /\ trades[t] \in Trade
  BY DEF Core, ShapeOK
<1> DEFINE g == [trades[t].gold EXCEPT ![c] = v]
           r == [trades[t] EXCEPT !.gold = g]
<1>2. g \in [Both(trades[t]) -> Nat]
  BY <1>1, TradeParts
<1>3. trades' = [trades EXCEPT ![t] = r]
  OBVIOUS
<1>4. r.participants = trades[t].participants /\ r.committing = trades[t].committing
  BY <1>1, TradeParts
<1> HIDE DEF g
<1>5. r \in Trade
  BY <1>1, <1>2, TradeEdits
<1> HIDE DEF r
<1> QED BY <1>1, <1>3, <1>4, <1>5, EditEvolves

\* Setting the offers of one side.
LEMMA OffersEvolve ==
    ASSUME Core, NEW t \in 1 .. Len(trades), NEW c \in Both(trades[t]), NEW v \in OfferRows,
           trades' = [trades EXCEPT ![t].offers[c] = v]
    PROVE  Evolves
<1>1. trades \in Seq(Trade) /\ trades[t] \in Trade
  BY DEF Core, ShapeOK
<1> DEFINE g == [trades[t].offers EXCEPT ![c] = v]
           r == [trades[t] EXCEPT !.offers = g]
<1>2. g \in [Both(trades[t]) -> OfferRows]
  BY <1>1, TradeParts
<1>3. trades' = [trades EXCEPT ![t] = r]
  OBVIOUS
<1>4. r.participants = trades[t].participants /\ r.committing = trades[t].committing
  BY <1>1, TradeParts
<1> HIDE DEF g
<1>5. r \in Trade
  BY <1>1, <1>2, TradeEdits
<1> HIDE DEF r
<1> QED BY <1>1, <1>3, <1>4, <1>5, EditEvolves

\* The stored assets.
RepositoryOK ==
    /\ bag \in [Chars -> Bag]
    /\ wallet \in [Chars -> 0 .. MaxGold]
    /\ sold \in [Items -> Nat]

\* What OfferLock writes.
Placed(rows, row, offer) ==
    [r \in DOMAIN rows \cup {row} |-> IF r = row THEN offer ELSE rows[r]]

\* The offers of a side after its first free row was filled, or after a row
\* was taken out.
LEMMA OfferRowsEdits ==
    ASSUME NEW f \in OfferRows
    PROVE  /\ \A row \in Rows, o \in Offer : Placed(f, row, o) \in OfferRows
           /\ \A row : Restrict(f, DOMAIN f \ {row}) \in OfferRows
           /\ DOMAIN f # Rows => Min(Rows \ DOMAIN f) \in Rows
<1>1. PICK R \in SUBSET Rows : f \in [R -> Offer]
  BY DEF OfferRows
<1>2. ASSUME NEW row \in Rows, NEW o \in Offer
      PROVE  Placed(f, row, o) \in OfferRows
  <2>1. Placed(f, row, o) \in [R \cup {row} -> Offer]
    BY <1>1 DEF Placed
  <2> QED BY <2>1 DEF OfferRows
<1>3. ASSUME NEW row
      PROVE  Restrict(f, DOMAIN f \ {row}) \in OfferRows
  <2>1. Restrict(f, DOMAIN f \ {row}) \in [R \ {row} -> Offer]
    BY <1>1 DEF Restrict
  <2> QED BY <2>1 DEF OfferRows
<1>4. ASSUME DOMAIN f # Rows PROVE Min(Rows \ DOMAIN f) \in Rows
  <2>0. DOMAIN f = R /\ Rows \ R # {}
    BY <1>1, <1>4
  <2>1. Rows \ DOMAIN f \in SUBSET Nat /\ Rows \ DOMAIN f # {}
    BY <2>0, ExchangeAssumption DEF Rows
  <2>2. Min(Rows \ DOMAIN f) \in Rows \ DOMAIN f
    BY <2>1, NatMin DEF Min
  <2> QED BY <2>2
<1> QED BY <1>2, <1>3, <1>4

\* Each handler step that only reads the trades.
LEMMA ReadersKeep ==
    ASSUME Core, RepositoryOK, NEW s \in Sessions,
           \/ \E n \in Amounts : GoldLoad(s, n)
           \/ \E slot \in Slots, n \in Amounts : OfferLoad(s, slot, n)
           \/ GoldAck(s) \/ OfferAcked(s)
           \/ Disconnect(s) \/ Detach(s) \/ Unbind(s)
    PROVE  Core'
<1>1. Evolves /\ UNCHANGED <<itemTrades, told>>
  BY SameEvolves DEF GoldLoad, OfferLoad, GoldAck, OfferAcked, MoveAcked, Disconnect, Detach,
                     Unbind
<1>2. CharOf[s] \in Chars
  BY TradeAssumption
<1>3. ASSUME NEW n \in Amounts, GoldLoad(s, n) PROVE Core'
  <2>1. n \in Nat
    BY TradeAssumption
  <2>2. [at |-> "gold", n |-> n] \in Locals
    BY <2>1, LocalsMade
  <2>3. pc' = [pc EXCEPT ![s] = [at |-> "gold", n |-> n]]
    BY <1>3 DEF GoldLoad, Goto
  <2> QED BY <1>1, <2>2, <2>3, PlainKeeps DEF Plain
<1>4. ASSUME NEW slot \in Slots, NEW n \in Amounts, OfferLoad(s, slot, n) PROVE Core'
  <2> DEFINE stack == bag[CharOf[s]][slot]
             o == [slot |-> slot, item |-> stack.item, count |-> n]
  <2>1. stack \in Stack /\ n \in Nat \ {0}
    BY <1>2, <1>4, TradeAssumption DEF OfferLoad, RepositoryOK, Bag
  <2>2. o \in Offer
    BY <2>1 DEF Stack, Offer
  <2>3. pc' = [pc EXCEPT ![s] = [at |-> "offer", offer |-> o]]
    BY <1>4 DEF OfferLoad, Goto
  <2> HIDE DEF o
  <2>4. [at |-> "offer", offer |-> o] \in Locals
    BY <2>2, LocalsMade
  <2> QED BY <1>1, <2>3, <2>4, PlainKeeps DEF Plain
<1>5. ASSUME GoldAck(s) \/ OfferAcked(s) PROVE Core'
  <2>1. PICK next \in {idle, [at |-> "detach"]} : pc' = [pc EXCEPT ![s] = next]
    BY <1>5 DEF GoldAck, OfferAcked, MoveAcked, Goto
  <2>2. next \in Locals /\ next.at \in Plain
    BY LocalsMade DEF Plain, idle
  <2> QED BY <1>1, <2>1, <2>2, PlainKeeps
<1>6. ASSUME Disconnect(s) \/ Detach(s) \/ Unbind(s) PROVE Core'
  <2>1. PICK next \in {idle, [at |-> "detach"], [at |-> "detachTrade"], [at |-> "unbind"]} :
             pc' = [pc EXCEPT ![s] = next]
    BY <1>6 DEF Disconnect, Detach, Unbind, Goto
  <2>2. next \in Locals /\ next.at \in Plain
    BY LocalsMade DEF Plain, idle
  <2> QED BY <1>1, <2>1, <2>2, PlainKeeps
<1> QED BY <1>3, <1>4, <1>5, <1>6

\* A session that starts to begin a trade reserves a number for it.
LEMMA BeginCheckKeeps ==
    ASSUME Core, NEW s \in Sessions, NEW peer \in Chars, BeginCheck(s, peer)
    PROVE  Core'
<1> DEFINE next == [at |-> "begin", peer |-> peer]
<1>1. Evolves /\ UNCHANGED <<itemTrades, told>>
  BY SameEvolves DEF BeginCheck
<1>2. next \in Locals /\ next.at = "begin" /\ next.peer = peer
  BY LocalsMade
<1>3. Proceeds(s, next)
  BY <1>2 DEF Proceeds, BeginCheck, Goto, Beginning
<1> HIDE DEF next
<1> QED BY <1>1, <1>3, EvolveKeeps

\* A committing session moves on to the answer, with the same trade.
LEMMA ExchangeKeeps ==
    ASSUME Core, NEW s \in Sessions, Exchange(s) \/ ExchangeFails(s)
    PROVE  Core'
<1>1. Evolves /\ UNCHANGED <<itemTrades, told>> /\ trades' = trades
  BY SameEvolves DEF Exchange, ExchangeFails
<1>2. pc[s].at = "commit" /\ SessionOK(s)
  BY DEF Exchange, ExchangeFails, Core
<1> DEFINE t == pc[s].trade
<1>3. /\ t \in 1 .. Len(trades) /\ trades[t].committing
      /\ \A m \in told : m.kind = "finish" => m.trade # t
      /\ \A r \in Sessions \ {s} : pc[r].at \in {"commit", "finish"} => pc[r].trade # t
  BY <1>2 DEF SessionOK, Core, CommitsAlone
<1>4. Len(trades) \in Nat
  BY DEF Core, ShapeOK
<1>5. t \in Nat
  BY <1>3, <1>4
<1>6. PICK next : /\ next \in {[at |-> "finish", trade |-> t],
                               [at |-> "cancel", trade |-> t, then |-> idle]}
                  /\ pc' = [pc EXCEPT ![s] = next]
  BY DEF Exchange, ExchangeFails, Goto
<1> HIDE DEF t
<1>7. next \in Locals /\ next.at \in {"finish", "cancel"} /\ next.trade = t
  <2>1. /\ [at |-> "finish", trade |-> t] \in Locals
        /\ [at |-> "cancel", trade |-> t, then |-> idle] \in Locals
    BY <1>5, LocalsMade
  <2>2. CASE next = [at |-> "finish", trade |-> t]
    BY <2>1, <2>2
  <2>3. CASE next = [at |-> "cancel", trade |-> t, then |-> idle]
    BY <2>1, <2>3
  <2> QED BY <1>6, <2>2, <2>3
<1>8. Proceeds(s, next)
  BY <1>1, <1>3, <1>6, <1>7 DEF Proceeds
<1> QED BY <1>1, <1>8, EvolveKeeps

\* Detaching finds the trade of the character, if there is one.
LEMMA DetachTradeKeeps ==
    ASSUME Core, NEW s \in Sessions, DetachTrade(s)
    PROVE  Core'
<1> DEFINE t == itemTrades[CharOf[s]]
<1>1. Evolves /\ UNCHANGED <<itemTrades, told>>
  BY SameEvolves DEF DetachTrade
<1>2. t # 0 => t \in 1 .. Len(trades) /\ t \in Nat
  BY RegisteredTrade, TradeAssumption DEF Core, ShapeOK
<1>3. PICK next : /\ next = IF t = 0 THEN [at |-> "unbind"]
                            ELSE [at |-> "cancel", trade |-> t, then |-> [at |-> "unbind"]]
                  /\ pc' = [pc EXCEPT ![s] = next]
  BY DEF DetachTrade, Goto
<1> HIDE DEF t
<1>4. /\ next \in Locals
      /\ next.at = "unbind" \/ (next.at = "cancel" /\ next.trade \in 1 .. Len(trades))
  BY <1>2, <1>3, LocalsMade
<1>5. Proceeds(s, next)
  BY <1>3, <1>4 DEF Proceeds
<1> QED BY <1>1, <1>5, EvolveKeeps

\* A step of the session directory or of the shop.
LEMMA OutsideKeeps ==
    ASSUME Core, UNCHANGED <<trades, itemTrades, pc, told>>
    PROVE  Core'
BY DEF Core, ShapeOK, Registered, Participants, BeginsCounted, Beginning, SessionOK,
       CommitsAlone, AnsweredOK

\* What an edit of the caller's trade finds.
LEMMA CallerTrade ==
    ASSUME Core, NEW s \in Sessions, itemTrades[CharOf[s]] # 0
    PROVE  LET t == itemTrades[CharOf[s]]
           IN  /\ CharOf[s] \in Chars
               /\ t \in 1 .. Len(trades) /\ t \in Nat /\ trades[t] \in Trade
               /\ CharOf[s] \in Both(trades[t])
               /\ trades[t].gold[CharOf[s]] \in Nat
               /\ trades[t].offers[CharOf[s]] \in OfferRows
               /\ trades[t].states[CharOf[s]] \in {0, AddingDone, Ready}
<1>1. CharOf[s] \in Chars
  BY TradeAssumption
<1> DEFINE t == itemTrades[CharOf[s]]
<1>2. t \in 1 .. Len(trades) /\ trades[t] \in Trade /\ CharOf[s] \in Both(trades[t])
  BY <1>1, RegisteredTrade DEF Core
<1>3. t \in Nat
  BY <1>2
<1> HIDE DEF t
<1>4. /\ trades[t].gold \in [Both(trades[t]) -> Nat]
      /\ trades[t].offers \in [Both(trades[t]) -> OfferRows]
      /\ trades[t].states \in [Both(trades[t]) -> {0, AddingDone, Ready}]
  BY <1>2, TradeParts
<1> QED BY <1>1, <1>2, <1>3, <1>4 DEF t

\* The edits of gold.
LEMMA GoldKeeps ==
    ASSUME Core, NEW s \in Sessions, GoldLock(s) \/ GoldUndo(s) \/ RemoveGold(s)
    PROVE  Core'
<1> DEFINE c == CharOf[s]
<1>1. UNCHANGED <<itemTrades, told>> /\ pc[s] \in Locals
  BY DEF GoldLock, GoldUndo, RemoveGold, Core, ShapeOK
<1>2. ASSUME GoldLock(s) PROVE Core'
  <2>1. CASE ~ Editable(c)
    <3>1. trades' = trades /\ pc' = [pc EXCEPT ![s] = idle]
      BY <1>2, <2>1 DEF GoldLock, Goto
    <3>2. Evolves
      BY <3>1, SameEvolves
    <3> QED BY <1>1, <3>1, <3>2, LocalsMade, PlainKeeps DEF Plain, idle
  <2>2. CASE Editable(c)
    <3> DEFINE t == itemTrades[c]
               next == [at |-> "goldSet", trade |-> t, prev |-> trades[t].gold[c]]
    <3>1. t # 0
      BY <2>2 DEF Editable
    <3>2. /\ t \in 1 .. Len(trades) /\ t \in Nat /\ c \in Both(trades[t])
          /\ trades[t].gold[c] \in Nat
      BY <3>1, CallerTrade
    <3>3. trades' = [trades EXCEPT ![t].gold[c] = pc[s].n] /\ pc[s].n \in Nat
      BY <1>1, <1>2, <2>2, LocalsParts DEF GoldLock
    <3>4. pc' = [pc EXCEPT ![s] = next]
      BY <1>2, <2>2 DEF GoldLock, Goto
    <3>5. Evolves
      BY <3>2, <3>3, GoldEvolves
    <3>6. next \in Locals
      BY <3>2, LocalsMade
    <3>7. next.at = "goldSet" /\ next.trade \in 1 .. Len(trades)
      BY <3>2
    <3> HIDE DEF next
    <3>8. Proceeds(s, next)
      BY <3>4, <3>6, <3>7 DEF Proceeds
    <3> QED BY <1>1, <3>5, <3>8, EvolveKeeps
  <2> QED BY <2>1, <2>2
<1>3. ASSUME GoldUndo(s) PROVE Core'
  <2> DEFINE t == pc[s].trade
  <2>1. pc[s].at = "goldSet" /\ pc' = [pc EXCEPT ![s] = idle] /\ pc[s].prev \in Nat
    BY <1>1, <1>3, LocalsParts DEF GoldUndo, Goto
  <2>2. t \in 1 .. Len(trades)
    BY <2>1 DEF Core, SessionOK
  <2>3. CASE itemTrades[c] = t /\ ~ trades[t].committing
    <3>1. trades' = [trades EXCEPT ![t].gold[c] = pc[s].prev]
      BY <1>3, <2>3 DEF GoldUndo
    <3>2. itemTrades[c] # 0
      BY <2>2, <2>3
    <3>3. c \in Both(trades[t])
      BY <2>3, <3>2, CallerTrade
    <3>4. Evolves
      BY <2>1, <2>2, <3>1, <3>3, GoldEvolves
    <3> QED BY <1>1, <2>1, <3>4, LocalsMade, PlainKeeps DEF Plain, idle
  <2>4. CASE ~ (itemTrades[c] = t /\ ~ trades[t].committing)
    <3>1. trades' = trades
      BY <1>3, <2>4 DEF GoldUndo
    <3>2. Evolves
      BY <3>1, SameEvolves
    <3> QED BY <1>1, <2>1, <3>2, LocalsMade, PlainKeeps DEF Plain, idle
  <2> QED BY <2>3, <2>4
<1>4. ASSUME RemoveGold(s) PROVE Core'
  <2> DEFINE t == itemTrades[c]
  <2>1. t # 0 /\ trades' = [trades EXCEPT ![t].gold[c] = 0]
    BY <1>4 DEF RemoveGold, Editable
  <2>2. t \in 1 .. Len(trades) /\ c \in Both(trades[t]) /\ 0 \in Nat
    BY <2>1, CallerTrade
  <2>3. Evolves
    BY <2>1, <2>2, GoldEvolves
  <2>4. PICK next \in {idle, [at |-> "detach"]} : pc' = [pc EXCEPT ![s] = next]
    BY <1>4 DEF RemoveGold, Goto
  <2>5. next \in Locals /\ next.at \in Plain
    BY LocalsMade DEF Plain, idle
  <2> QED BY <1>1, <2>3, <2>4, <2>5, PlainKeeps
<1> QED BY <1>2, <1>3, <1>4

\* The edits of offers.
LEMMA OffersKeep ==
    ASSUME Core, NEW s \in Sessions,
           OfferLock(s) \/ OfferUndo(s) \/ \E row \in Rows : RemoveOffer(s, row)
    PROVE  Core'
<1> DEFINE c == CharOf[s]
           t == itemTrades[c]
           rows == trades[t].offers[c]
<1>1. UNCHANGED <<itemTrades, told>> /\ pc[s] \in Locals
  BY DEF OfferLock, OfferUndo, RemoveOffer, Core, ShapeOK
<1>2. ASSUME OfferLock(s) PROVE Core'
  <2>1. CASE ~ (Editable(c) /\ OfferFits(rows, pc[s].offer))
    <3>1. trades' = trades /\ pc' = [pc EXCEPT ![s] = idle]
      BY <1>2, <2>1 DEF OfferLock, Goto
    <3>2. Evolves
      BY <3>1, SameEvolves
    <3> QED BY <1>1, <3>1, <3>2, LocalsMade, PlainKeeps DEF Plain, idle
  <2>2. CASE Editable(c) /\ OfferFits(rows, pc[s].offer)
    <3> DEFINE row == Min(Rows \ DOMAIN rows)
               next == [at |-> "offerSet", trade |-> t, row |-> row]
               placed == Placed(rows, row, pc[s].offer)
    <3>1. t # 0 /\ DOMAIN rows # Rows
      BY <2>2 DEF Editable, OfferFits
    <3>2. /\ t \in 1 .. Len(trades) /\ t \in Nat /\ c \in Both(trades[t])
          /\ rows \in OfferRows
      BY <3>1, CallerTrade
    <3>3. trades' = [trades EXCEPT ![t].offers[c] = placed] /\ pc[s].offer \in Offer
      BY <1>1, <1>2, <2>2, LocalsParts DEF OfferLock, Placed
    <3>4. pc' = [pc EXCEPT ![s] = next]
      BY <1>2, <2>2 DEF OfferLock, Goto
    <3> HIDE DEF rows
    <3>5. row \in Rows /\ placed \in OfferRows
      BY <3>1, <3>2, <3>3, OfferRowsEdits
    <3> HIDE DEF row, placed
    <3>6. Evolves
      BY <3>2, <3>3, <3>5, OffersEvolve
    <3>7. next \in Locals /\ next.at = "offerSet" /\ next.trade \in 1 .. Len(trades)
      BY <3>2, <3>5, LocalsMade
    <3> HIDE DEF next
    <3>8. Proceeds(s, next)
      BY <3>4, <3>7 DEF Proceeds
    <3> QED BY <1>1, <3>6, <3>8, EvolveKeeps
  <2> QED BY <2>1, <2>2
<1>3. ASSUME NEW row, t # 0,
             trades' = [trades EXCEPT ![t].offers[c] = Restrict(@, DOMAIN @ \ {row})]
      PROVE  Evolves
  <2>1. /\ t \in 1 .. Len(trades) /\ c \in Both(trades[t]) /\ rows \in OfferRows
    BY <1>3, CallerTrade
  <2> DEFINE left == Restrict(rows, DOMAIN rows \ {row})
  <2>2. trades' = [trades EXCEPT ![t].offers[c] = left]
    BY <1>3
  <2>3. left \in OfferRows
    BY <2>1, OfferRowsEdits
  <2> HIDE DEF left
  <2> QED BY <2>1, <2>2, <2>3, OffersEvolve
<1>4. ASSUME OfferUndo(s) PROVE Core'
  <2>1. pc' = [pc EXCEPT ![s] = idle]
    BY <1>4 DEF OfferUndo, Goto
  <2>2. Evolves
    <3>1. CASE t # 0 /\ ~ trades[t].committing
      BY <1>3, <1>4, <3>1 DEF OfferUndo
    <3>2. CASE ~ (t # 0 /\ ~ trades[t].committing)
      <4>1. trades' = trades
        BY <1>4, <3>2 DEF OfferUndo
      <4> QED BY <4>1, SameEvolves
    <3> QED BY <3>1, <3>2
  <2> QED BY <1>1, <2>1, <2>2, LocalsMade, PlainKeeps DEF Plain, idle
<1>5. ASSUME NEW row \in Rows, RemoveOffer(s, row) PROVE Core'
  <2>1. Evolves
    BY <1>3, <1>5 DEF RemoveOffer, Editable
  <2>2. PICK next \in {idle, [at |-> "detach"]} : pc' = [pc EXCEPT ![s] = next]
    BY <1>5 DEF RemoveOffer, Goto
  <2>3. next \in Locals /\ next.at \in Plain
    BY LocalsMade DEF Plain, idle
  <2> QED BY <1>1, <2>1, <2>2, <2>3, PlainKeeps
<1> QED BY <1>2, <1>4, <1>5

\* The other participant of a trade.
LEMMA OtherSide ==
    ASSUME trades \in Seq(Trade), NEW t \in 1 .. Len(trades), NEW c \in Participants(t)
    PROVE  /\ Other(t, c) \in Participants(t) /\ Other(t, c) # c
           /\ Participants(t) = {c, Other(t, c)}
<1> DEFINE p == trades[t].participants[1]
           q == trades[t].participants[2]
<1>1. Participants(t) = {p, q} /\ p # q
  BY ParticipantsAre DEF Participants
<1> HIDE DEF p, q
<1>2. \E x \in Participants(t) : x # c
  BY <1>1
<1>3. Other(t, c) \in Participants(t) /\ Other(t, c) # c
  BY <1>2 DEF Other
<1> QED BY <1>1, <1>3

\* What a state request finds and writes.
LEMMA StateStep ==
    ASSUME Core, NEW s \in Sessions, NEW v \in Requests, State(s, v)
    PROVE  LET c == CharOf[s]
               t == itemTrades[c]
               now == Projected(v, trades[t].states[c])
               both == now = Ready /\ trades[t].states[Other(t, c)] = Ready
           IN  /\ t \in 1 .. Len(trades) /\ t \in Nat /\ c \in Both(trades[t])
               /\ ~ trades[t].committing
               /\ trades[t].states[c] \in {0, AddingDone}
               /\ now \in {0, AddingDone, Ready}
               /\ trades' = [trades EXCEPT ![t] =
                               [trades[t] EXCEPT !.states = [trades[t].states EXCEPT ![c] = now],
                                                 !.committing = both]]
               /\ \/ pc' = [pc EXCEPT ![s] = [at |-> "detach"]]
                  \/ both /\ pc' = [pc EXCEPT ![s] = [at |-> "commit", trade |-> t]]
                  \/ ~ both /\ pc' = [pc EXCEPT ![s] = idle]
<1> DEFINE c == CharOf[s]
           t == itemTrades[c]
           mine == trades[t].states[c]
           peer == trades[t].states[Other(t, c)]
           now == Projected(v, mine)
           both == now = Ready /\ peer = Ready
<1>1. t # 0 /\ ~ trades[t].committing /\ Moves(v, mine, peer)
  BY DEF State, Accepts
<1>2. /\ t \in 1 .. Len(trades) /\ t \in Nat /\ c \in Both(trades[t])
      /\ mine \in {0, AddingDone, Ready}
  BY <1>1, CallerTrade
<1>3. trades' = [trades EXCEPT ![t] =
                   [trades[t] EXCEPT !.states = [trades[t].states EXCEPT ![c] = now],
                                     !.committing = both]]
  <2>1. trades' = [trades EXCEPT ![t].states[c] = now, ![t].committing = both]
    BY DEF State
  <2>2. trades \in Seq(Trade)
    BY DEF Core, ShapeOK
  <2> HIDE DEF now, both
  <2> QED BY <1>2, <2>1, <2>2
<1>4. \/ pc' = [pc EXCEPT ![s] = [at |-> "detach"]]
      \/ both /\ pc' = [pc EXCEPT ![s] = [at |-> "commit", trade |-> t]]
      \/ ~ both /\ pc' = [pc EXCEPT ![s] = idle]
  BY DEF State, Goto
<1>5. mine \in {0, AddingDone} /\ now \in {0, AddingDone, Ready}
  <2> HIDE DEF mine, peer
  <2> QED BY <1>1, <1>2 DEF Moves, Projected, Requests, AddingDone, Ready, AddRequest
<1> HIDE DEF now, mine, peer
<1> QED BY <1>1, <1>2, <1>3, <1>4, <1>5 DEF now, mine, peer

\* The state machine of a side.
LEMMA StateKeeps ==
    ASSUME Core, NEW s \in Sessions, NEW v \in Requests, State(s, v)
    PROVE  Core'
<1> DEFINE c == CharOf[s]
           t == itemTrades[c]
           now == Projected(v, trades[t].states[c])
           both == now = Ready /\ trades[t].states[Other(t, c)] = Ready
           after == [trades[t].states EXCEPT ![c] = now]
           r == [trades[t] EXCEPT !.states = after, !.committing = both]
<1>1. /\ t \in 1 .. Len(trades) /\ t \in Nat /\ c \in Both(trades[t])
      /\ ~ trades[t].committing /\ now \in {0, AddingDone, Ready}
      /\ trades' = [trades EXCEPT ![t] = r]
      /\ \/ pc' = [pc EXCEPT ![s] = [at |-> "detach"]]
         \/ both /\ pc' = [pc EXCEPT ![s] = [at |-> "commit", trade |-> t]]
         \/ ~ both /\ pc' = [pc EXCEPT ![s] = idle]
  BY StateStep
<1>2. UNCHANGED <<itemTrades, told>> /\ trades \in Seq(Trade) /\ both \in BOOLEAN
  BY DEF State, Core, ShapeOK
<1>3. trades[t] \in Trade
  BY <1>1, <1>2
<1> HIDE DEF now, both, t, c
<1>4. after \in [Both(trades[t]) -> {0, AddingDone, Ready}]
  BY <1>1, <1>3, TradeParts
<1> HIDE DEF after
<1>5. r \in Trade /\ r.participants = trades[t].participants /\ r.committing = both
  BY <1>2, <1>3, <1>4, TradeEdits, TradeParts
<1> HIDE DEF r
<1>6. Evolves
  BY <1>1, <1>2, <1>5, EditEvolves
<1>7. CASE pc' = [pc EXCEPT ![s] = [at |-> "detach"]]
  BY <1>2, <1>6, <1>7, LocalsMade, PlainKeeps DEF Plain
<1>8. CASE pc' = [pc EXCEPT ![s] = idle]
  BY <1>2, <1>6, <1>8, LocalsMade, PlainKeeps DEF Plain, idle
<1>9. CASE both /\ pc' = [pc EXCEPT ![s] = [at |-> "commit", trade |-> t]]
  <2>1. trades'[t].committing
    BY <1>1, <1>2, <1>5, <1>9, TradesEdits
  <2>2. \A m \in told : m.kind = "finish" => m.trade # t
    BY <1>1 DEF Core, AnsweredOK
  <2>3. \A x \in Sessions \ {s} : pc[x].at \in {"commit", "finish"} => pc[x].trade # t
    BY <1>1 DEF Core, SessionOK
  <2> DEFINE next == [at |-> "commit", trade |-> t]
  <2>4. next \in Locals /\ next.at = "commit" /\ next.trade = t
    BY <1>1, LocalsMade
  <2>5. Proceeds(s, next)
    <3> HIDE DEF next
    <3> QED BY <1>1, <1>9, <2>1, <2>2, <2>3, <2>4 DEF Proceeds, next
  <2> HIDE DEF next
  <2> QED BY <1>2, <1>6, <2>5, EvolveKeeps
<1> QED BY <1>1, <1>7, <1>8, <1>9

-----------------------------------------------------------------------------
(* The steps that change the registry. *)

\* Clearing a trade, and telling its participants.
LEMMA ClearKeeps ==
    ASSUME Core, NEW s \in Sessions, NEW next \in Locals, next.at \in Plain,
           pc' = [pc EXCEPT ![s] = next], UNCHANGED trades,
           NEW t, itemTrades' = Cleared(t), told \subseteq told',
           \A m \in told' \ told : m.kind = "finish" =>
               /\ m.trade \in 1 .. Len(trades) /\ trades[m.trade].committing
               /\ \A x \in Sessions \ {s} :
                    pc[x].at \in {"commit", "finish"} => pc[x].trade # m.trade
    PROVE  Core'
<1>1. Len(trades) \in Nat /\ itemTrades \in [Chars -> 0 .. Len(trades)]
  BY DEF Core, ShapeOK
<1>2. ShapeOK'
  <2>1. itemTrades' \in [Chars -> 0 .. Len(trades)]
    BY <1>1 DEF Cleared
  <2> QED BY <2>1 DEF Core, ShapeOK
<1>3. Registered'
  <2>1. \A d : d \in Chars => itemTrades'[d] = IF itemTrades[d] = t THEN 0 ELSE itemTrades[d]
    BY DEF Cleared
  <2>2. \A u \in 1 .. Len(trades) : Participants(u)' = Participants(u) /\ Participants(u) \subseteq Chars
    BY ParticipantsAre DEF Participants, Core, ShapeOK
  <2> SUFFICES ASSUME NEW d \in Chars, itemTrades'[d] # 0
               PROVE  /\ d \in Participants(itemTrades[d])'
                      /\ itemTrades'[d] = itemTrades[d]
                      /\ \A e \in Participants(itemTrades[d])' : itemTrades'[e] = itemTrades[d]
    BY DEF Registered, Participants
  <2>3. /\ itemTrades[d] # 0 /\ itemTrades[d] # t /\ itemTrades'[d] = itemTrades[d]
        /\ itemTrades[d] \in 1 .. Len(trades)
    BY <1>1, <2>1
  <2>4. Participants(itemTrades[d])' = Participants(itemTrades[d])
    BY <2>2, <2>3 DEF Participants
  <2>5. /\ d \in Participants(itemTrades[d])
        /\ \A e \in Participants(itemTrades[d]) : itemTrades[e] = itemTrades[d] /\ e \in Chars
    BY <2>2, <2>3 DEF Core, Registered
  <2> QED BY <2>1, <2>3, <2>4, <2>5
<1>4. BeginsCounted'
  <2>1. /\ Cardinality(Beginning) \in Nat /\ Cardinality(Beginning') \in Nat
        /\ Cardinality(Beginning') <= Cardinality(Beginning)
    BY BeginningCounts DEF Core, ShapeOK, Plain
  <2>2. Len(trades) + Cardinality(Beginning) <= MaxTrades /\ MaxTrades \in Nat
    BY TradeAssumption DEF Core, BeginsCounted
  <2> QED BY <1>1, <2>1, <2>2 DEF BeginsCounted
<1>5. \A x \in Sessions : pc'[x] = IF x = s THEN next ELSE pc[x]
  BY DEF Core, ShapeOK
<1>6. ASSUME NEW x \in Sessions PROVE SessionOK(x)'
  <2>1. CASE x = s
    BY <2>1, <1>5 DEF SessionOK, Plain
  <2>2. CASE x # s
    <3>1. pc'[x] = pc[x] /\ SessionOK(x)
      BY <2>2, <1>5 DEF Core
    <3> QED BY <2>2, <3>1 DEF SessionOK
  <2> QED BY <2>1, <2>2
<1>7. CommitsAlone'
  <2> SUFFICES ASSUME NEW x \in Sessions, NEW y \in Sessions, x # y,
                      pc'[x].at \in {"commit", "finish"}, pc'[y].at \in {"commit", "finish"}
               PROVE  pc'[x].trade # pc'[y].trade
    BY DEF CommitsAlone
  <2> QED BY <1>5 DEF Core, CommitsAlone, Plain
<1>8. AnsweredOK'
  BY DEF Core, AnsweredOK
<1> QED BY <1>2, <1>3, <1>4, <1>6, <1>7, <1>8 DEF Core

\* Finishing answers a trade that no other session commits.
LEMMA FinishKeeps ==
    ASSUME Core, NEW s \in Sessions, Finish(s)
    PROVE  Core'
<1> DEFINE t == pc[s].trade
<1>1. pc[s].at = "finish" /\ SessionOK(s)
  BY DEF Finish, Core
<1>2. /\ t \in 1 .. Len(trades) /\ trades[t].committing
      /\ \A x \in Sessions \ {s} : pc[x].at \in {"commit", "finish"} => pc[x].trade # t
  BY <1>1 DEF SessionOK, Core, CommitsAlone
<1>3. itemTrades' = Cleared(t) /\ UNCHANGED trades
  BY DEF Finish
<1>4. PICK next, reached :
           /\ next \in {idle, [at |-> "detach"]}
           /\ pc' = [pc EXCEPT ![s] = next]
           /\ told' = told \cup [trade : {t}, kind : {"finish"}, char : reached]
  <2>1. PICK reached :
             /\ told' = told \cup [trade : {t}, kind : {"finish"}, char : reached]
             /\ pc' = [pc EXCEPT ![s] = idle] \/ pc' = [pc EXCEPT ![s] = [at |-> "detach"]]
    BY DEF Finish, Goto
  <2> QED BY <2>1
<1>5. next \in Locals /\ next.at \in Plain
  BY <1>4, LocalsMade DEF Plain, idle
<1>6. told \subseteq told' /\ \A m \in told' \ told : m.trade = t
  BY <1>4
<1>7. \A m \in told' \ told : m.kind = "finish" =>
          /\ m.trade \in 1 .. Len(trades) /\ trades[m.trade].committing
          /\ \A x \in Sessions \ {s} :
               pc[x].at \in {"commit", "finish"} => pc[x].trade # m.trade
  BY <1>2, <1>6
<1> HIDE DEF t
<1> QED BY <1>3, <1>4, <1>5, <1>6, <1>7, ClearKeeps

\* Cancelling answers with another kind.
LEMMA CancelKeeps ==
    ASSUME Core, NEW s \in Sessions, Cancel(s)
    PROVE  Core'
<1>1. pc[s].at = "cancel" /\ pc[s] \in Locals
  BY DEF Cancel, Core, ShapeOK
<1>2. pc[s].then \in Locals /\ pc[s].then.at \in Plain /\ pc' = [pc EXCEPT ![s] = pc[s].then]
  BY <1>1, LocalsParts DEF Plain, Cancel, Goto
<1>3. itemTrades' = Cleared(pc[s].trade) /\ UNCHANGED trades
  BY DEF Cancel
<1>4. told \subseteq told' /\ \A m \in told' \ told : m.kind = "cancel"
  BY DEF Cancel
<1> QED BY <1>2, <1>3, <1>4, ClearKeeps

\* A new trade takes the next number, and both entries of whatever trade its
\* participants were in go.
LEMMA BeginKeeps ==
    ASSUME Core, NEW s \in Sessions, Begin(s)
    PROVE  Core'
<1> DEFINE c == CharOf[s]
           p == pc[s].peer
           new == [participants |-> <<c, p>>, offers |-> [d \in {c, p} |-> NoOffers],
                   gold |-> [d \in {c, p} |-> 0], states |-> [d \in {c, p} |-> 0],
                   committing |-> FALSE]
<1>0. PICK n : n = Len(trades) + 1
  OBVIOUS
<1>1. /\ pc[s].at = "begin" /\ pc[s] \in Locals /\ SessionOK(s)
      /\ trades' = Append(trades, new)
      /\ itemTrades' = [d \in Chars |->
             IF d \in {c, p} THEN n ELSE IF d \in Displaced(c, p) THEN 0 ELSE itemTrades[d]]
      /\ pc' = [pc EXCEPT ![s] = idle] /\ told' = told
  BY <1>0 DEF Begin, Core, ShapeOK, Goto
<1>2. c \in Chars /\ p \in Chars /\ c # p
  BY <1>1, LocalsParts, TradeAssumption DEF SessionOK
<1>3. new \in Trade
  <2>1. NoOffers \in OfferRows
    BY DEF NoOffers, OfferRows
  <2>2. new \in TradeOf(c, p)
    BY <2>1 DEF TradeOf
  <2>3. <<c, p>> \in {y \in Chars \X Chars : y[1] # y[2]}
    BY <1>2
  <2> HIDE DEF new
  <2> QED BY <2>2, <2>3 DEF Trade
<1>4. new.participants = <<c, p>>
  OBVIOUS
<1> HIDE DEF new, c, p
<1>5. /\ trades \in Seq(Trade) /\ Len(trades) \in Nat /\ n \in Nat
      /\ itemTrades \in [Chars -> 0 .. Len(trades)]
  BY <1>0 DEF Core, ShapeOK
<1>6. /\ trades' \in Seq(Trade) /\ Len(trades') = n /\ trades'[n] = new
      /\ \A u \in 1 .. Len(trades) : trades'[u] = trades[u]
  BY <1>0, <1>1, <1>3, <1>5
<1>7. /\ \A u \in 1 .. Len(trades) : Participants(u)' = Participants(u) /\ Participants(u) \subseteq Chars
      /\ Participants(n)' = {c, p}
  <2>1. ASSUME NEW u \in 1 .. Len(trades)
        PROVE  Participants(u)' = Participants(u) /\ Participants(u) \subseteq Chars
    BY <1>5, <1>6, ParticipantsAre DEF Participants
  <2>2. Participants(n)' = {c, p}
    BY <1>4, <1>6 DEF Participants
  <2> QED BY <2>1, <2>2
<1>8. ShapeOK'
  <2>1. \A d \in Chars : itemTrades'[d] \in 0 .. n
    BY <1>0, <1>1, <1>5
  <2>2. itemTrades' \in [Chars -> 0 .. n]
    BY <1>1, <2>1
  <2>3. pc' \in [Sessions -> Locals]
    BY <1>1, LocalsMade DEF Core, ShapeOK
  <2> QED BY <1>6, <2>2, <2>3 DEF ShapeOK
<1>9. Registered'
  <2> SUFFICES ASSUME NEW d \in Chars, itemTrades'[d] # 0, NEW u, u = itemTrades'[d]
               PROVE  /\ d \in Participants(u)'
                      /\ \A e \in Participants(u)' : itemTrades'[e] = u
    BY DEF Registered, Participants
  <2>1. CASE d \in {c, p}
    <3>1. u = n
      BY <1>1, <2>1
    <3> QED BY <1>1, <1>2, <1>7, <2>1, <3>1
  <2>2. CASE d \notin {c, p}
    <3>1. d \notin Displaced(c, p) /\ u = itemTrades[d] /\ u # 0 /\ u \in 1 .. Len(trades)
      BY <1>1, <1>5, <2>2
    <3>2. d \in Participants(u) /\ \A e \in Participants(u) : itemTrades[e] = u /\ e \in Chars
      BY <1>7, <3>1 DEF Core, Registered
    <3>3. \A x \in {c, p} : itemTrades[x] # 0 => Participants(itemTrades[x]) \subseteq Displaced(c, p)
      BY DEF Displaced
    <3>4. ASSUME NEW e \in Participants(u) PROVE itemTrades'[e] = u
      <4>1. e \notin {c, p}
        BY <3>1, <3>2, <3>3
      <4>2. e \notin Displaced(c, p)
        <5> SUFFICES ASSUME e \in Displaced(c, p) PROVE FALSE
          OBVIOUS
        <5>1. PICK x \in {c, p} : itemTrades[x] # 0 /\ e \in Participants(itemTrades[x])
          BY DEF Displaced
        <5>2. itemTrades[e] = itemTrades[x]
          BY <1>2, <5>1 DEF Core, Registered
        <5>3. Participants(u) \subseteq Displaced(c, p)
          BY <3>2, <3>3, <5>1, <5>2
        <5> QED BY <3>1, <3>2, <5>3
      <4> QED BY <1>1, <3>2, <4>1, <4>2
    <3> QED BY <1>7, <3>1, <3>2, <3>4
  <2> QED BY <2>1, <2>2
<1>10. BeginsCounted'
  <2>1. /\ Cardinality(Beginning) \in Nat /\ Cardinality(Beginning') \in Nat
        /\ Cardinality(Beginning') = Cardinality(Beginning) - 1
    <3>1. idle.at # "begin"
      BY DEF idle
    <3> QED BY <1>1, <3>1, BeginningCounts DEF Core, ShapeOK
  <2>2. Len(trades) + Cardinality(Beginning) <= MaxTrades /\ MaxTrades \in Nat
    BY TradeAssumption DEF Core, BeginsCounted
  <2> QED BY <1>0, <1>5, <1>6, <2>1, <2>2 DEF BeginsCounted
<1>11. \A x \in Sessions : pc'[x] = IF x = s THEN idle ELSE pc[x]
  BY <1>1 DEF Core, ShapeOK
<1>12. \A u \in 1 .. Len(trades) : u \in 1 .. Len(trades') /\ trades'[u] = trades[u]
  BY <1>0, <1>5, <1>6
<1>13. ASSUME NEW x \in Sessions PROVE SessionOK(x)'
  <2>1. CASE x = s
    BY <2>1, <1>11 DEF SessionOK, idle
  <2>2. CASE x # s
    <3>1. pc'[x] = pc[x] /\ SessionOK(x)
      BY <2>2, <1>11 DEF Core
    <3> QED BY <1>1, <1>12, <3>1 DEF SessionOK
  <2> QED BY <2>1, <2>2
<1>14. CommitsAlone'
  <2> SUFFICES ASSUME NEW x \in Sessions, NEW y \in Sessions, x # y,
                      pc'[x].at \in {"commit", "finish"}, pc'[y].at \in {"commit", "finish"}
               PROVE  pc'[x].trade # pc'[y].trade
    BY DEF CommitsAlone
  <2> QED BY <1>11 DEF Core, CommitsAlone, idle
<1>15. AnsweredOK'
  BY <1>1, <1>12 DEF Core, AnsweredOK
<1> QED BY <1>8, <1>9, <1>10, <1>13, <1>14, <1>15 DEF Core

-----------------------------------------------------------------------------
(* The stored assets. *)

\* A sale takes units of one stack and pays for them.
LEMMA SellKeeps ==
    ASSUME RepositoryOK, NEW s \in Sessions, NEW slot \in Slots, NEW n \in Amounts,
           Sell(s, slot, n)
    PROVE  /\ RepositoryOK'
           /\ wallet'[CharOf[s]] >= wallet[CharOf[s]]
           /\ \A i \in Items : Holding(bag'[CharOf[s]], i) <= Holding(bag[CharOf[s]], i)
           /\ \A d \in Chars \ {CharOf[s]} : bag'[d] = bag[d] /\ wallet'[d] = wallet[d]
<1> DEFINE c == CharOf[s]
           stack == bag[c][slot]
           applied == Min({n, stack.count})
           gain == SellGold * applied
           left == IF applied = stack.count THEN Empty ELSE [stack EXCEPT !.count = @ - applied]
<1>1. /\ c \in Chars /\ n \in Nat \ {0} /\ SellGold \in Nat /\ MaxShopGold \in 0 .. MaxGold
      /\ MaxGold \in Nat /\ Empty \notin Stack
  BY TradeAssumption, ExchangeAssumption
<1>2. /\ stack # Empty /\ wallet[c] + gain <= MaxShopGold
      /\ bag' = [bag EXCEPT ![c][slot] = left]
      /\ wallet' = [wallet EXCEPT ![c] = @ + gain]
      /\ sold' = [sold EXCEPT ![stack.item] = @ + applied]
  BY DEF Sell
<1>3. bag[c] \in Bag /\ stack \in Stack /\ wallet[c] \in 0 .. MaxGold
  BY <1>1, <1>2 DEF RepositoryOK, Bag
<1>4. stack.count \in Nat \ {0} /\ stack.item \in Items
  BY <1>3 DEF Stack
<1>5. applied \in Nat \ {0} /\ applied <= stack.count
  <2> DEFINE k == stack.count
  <2> HIDE DEF k
  <2>1. k \in Nat \ {0}
    BY <1>4 DEF k
  <2>2. {n, k} \in SUBSET Nat /\ {n, k} # {}
    BY <1>1, <2>1
  <2>3. Min({n, k}) \in {n, k} /\ \A y \in {n, k} : Min({n, k}) <= y
    BY <2>2, NatMin DEF Min
  <2>4. Min({n, k}) \in Nat \ {0} /\ Min({n, k}) <= k
    BY <1>1, <2>1, <2>3
  <2> QED BY <2>4 DEF k
<1> HIDE DEF applied
<1>6. gain \in Nat
  BY <1>1, <1>5
<1>7. left \in Stack \cup {Empty}
  BY <1>3, <1>4, <1>5 DEF Stack
<1>8. \A i : Units(left, i) \in Nat /\ Units(stack, i) \in Nat /\ Units(left, i) <= Units(stack, i)
  BY <1>1, <1>3, <1>4, <1>5 DEF Units, Stack
<1> HIDE DEF left, gain
<1>9. bag' = [bag EXCEPT ![c] = [bag[c] EXCEPT ![slot] = left]]
  BY <1>2
<1> DEFINE b == [bag[c] EXCEPT ![slot] = left]
<1>10. ASSUME NEW i PROVE b \in Bag /\ Holding(b, i) <= Holding(bag[c], i)
  <2>1. b \in Bag /\ Holding(b, i) + Units(stack, i) = Holding(bag[c], i) + Units(left, i)
    BY <1>3, <1>7, HoldingChange
  <2>2. Holding(b, i) \in Nat /\ Holding(bag[c], i) \in Nat
    BY <1>3, <2>1, HoldingIsSum
  <2> HIDE DEF b, stack
  <2> QED BY <1>8, <2>1, <2>2
<1> HIDE DEF b
<1>11. bag' \in [Chars -> Bag] /\ bag'[c] = b /\ \A d \in Chars \ {c} : bag'[d] = bag[d]
  BY <1>1, <1>9, <1>10 DEF RepositoryOK, b
<1>12. /\ wallet' \in [Chars -> 0 .. MaxGold] /\ wallet'[c] >= wallet[c]
       /\ \A d \in Chars \ {c} : wallet'[d] = wallet[d]
  BY <1>1, <1>2, <1>3, <1>6 DEF RepositoryOK
<1>13. sold' \in [Items -> Nat]
  BY <1>2, <1>4, <1>5 DEF RepositoryOK
<1> QED BY <1>10, <1>11, <1>12, <1>13 DEF RepositoryOK

\* The exchange of a committing session is the conserving exchange.
LEMMA ExchangeSwaps ==
    ASSUME Core, RepositoryOK, NEW s \in Sessions, Exchange(s)
    PROVE  /\ RepositoryOK'
           /\ \E p, q \in Chars :
                /\ p # q
                /\ wallet'[p] + wallet'[q] = wallet[p] + wallet[q]
                /\ wallet'[p] >= 0 /\ wallet'[q] >= 0
                /\ \A i \in Items : Holding(bag'[p], i) + Holding(bag'[q], i)
                                      = Holding(bag[p], i) + Holding(bag[q], i)
                /\ \A d \in Chars \ {p, q} : bag'[d] = bag[d] /\ wallet'[d] = wallet[d]
<1> DEFINE t == pc[s].trade
           r == trades[t]
           p == r.participants[1]
           q == r.participants[2]
           op == r.offers[p]
           oq == r.offers[q]
           gp == r.gold[p]
           gq == r.gold[q]
<1>1. t \in 1 .. Len(trades) /\ trades \in Seq(Trade)
  BY DEF Exchange, Core, SessionOK, ShapeOK
<1>2. r \in Trade
  BY <1>1
<1> HIDE DEF r
<1>3. /\ p \in Chars /\ q \in Chars /\ p # q
      /\ op \in OfferRows /\ oq \in OfferRows /\ gp \in Nat /\ gq \in Nat
  BY <1>2, TradeParts DEF Both
<1>4. IsOffers(op) /\ IsOffers(oq)
  BY <1>3, OfferRowsAre
<1>5. /\ bag[p] \in Bag /\ bag[q] \in Bag /\ wallet[p] \in 0 .. MaxGold /\ wallet[q] \in 0 .. MaxGold
      /\ MaxGold \in Nat
  BY <1>3, ExchangeAssumption DEF RepositoryOK
<1>6. /\ ExchangeOK(bag[p], wallet[p], op, gp, bag[q], wallet[q], oq, gq)
      /\ bag' = [bag EXCEPT ![p] = Swapped(bag[p], op, oq), ![q] = Swapped(@, oq, op)]
      /\ wallet' = [wallet EXCEPT ![p] = wallet[p] - gp + gq, ![q] = @ - gq + gp]
      /\ sold' = sold
  BY DEF Exchange, r
<1> HIDE DEF p, q, op, oq, gp, gq
<1> DEFINE bp == Swapped(bag[p], op, oq)
           bq == Swapped(bag[q], oq, op)
<1>7. /\ bp \in Bag /\ bq \in Bag
      /\ wallet[p] - gp + gq \in 0 .. MaxGold /\ wallet[q] - gq + gp \in 0 .. MaxGold
      /\ \A i : Holding(bp, i) + Holding(bq, i) = Holding(bag[p], i) + Holding(bag[q], i)
  <2> DEFINE ap == bag[p]
             aq == bag[q]
             wp == wallet[p]
             wq == wallet[q]
  <2>1. /\ ap \in Bag /\ aq \in Bag /\ wp \in 0 .. MaxGold /\ wq \in 0 .. MaxGold
        /\ ExchangeOK(ap, wp, op, gp, aq, wq, oq, gq)
    BY <1>5, <1>6
  <2> HIDE DEF ap, aq, wp, wq
  <2>2. /\ Swapped(ap, op, oq) \in Bag /\ Swapped(aq, oq, op) \in Bag
        /\ wp - gp + gq \in 0 .. MaxGold /\ wq - gq + gp \in 0 .. MaxGold
        /\ \A i : Holding(Swapped(ap, op, oq), i) + Holding(Swapped(aq, oq, op), i)
                    = Holding(ap, i) + Holding(aq, i)
    BY <1>3, <1>4, <2>1, ExchangeConserves
  <2> QED BY <2>2 DEF ap, aq, wp, wq
<1>8. bag' = [bag EXCEPT ![p] = bp, ![q] = bq]
  BY <1>3, <1>6 DEF RepositoryOK
<1> HIDE DEF bp, bq
<1>9. /\ bag' \in [Chars -> Bag] /\ bag'[p] = bp /\ bag'[q] = bq
      /\ \A d \in Chars \ {p, q} : bag'[d] = bag[d]
  BY <1>3, <1>7, <1>8 DEF RepositoryOK
<1>10. /\ wallet' \in [Chars -> 0 .. MaxGold]
       /\ wallet'[p] = wallet[p] - gp + gq /\ wallet'[q] = wallet[q] - gq + gp
       /\ \A d \in Chars \ {p, q} : wallet'[d] = wallet[d]
  BY <1>3, <1>5, <1>6, <1>7 DEF RepositoryOK
<1>11. wallet'[p] + wallet'[q] = wallet[p] + wallet[q] /\ wallet'[p] >= 0 /\ wallet'[q] >= 0
  BY <1>3, <1>5, <1>7, <1>10
<1> QED BY <1>3, <1>6, <1>7, <1>9, <1>10, <1>11 DEF RepositoryOK

-----------------------------------------------------------------------------
(* The invariant of the protocol. *)

\* The session directory.
DirectoryOK ==
    /\ online \in [Chars -> Sessions \cup {Offline}]
    /\ selected \subseteq Sessions

TradeInv == Core /\ RepositoryOK /\ DirectoryOK

\* It holds at start, when no trade exists and every session is idle.
LEMMA TradeInit == Init => TradeInv
<1> SUFFICES ASSUME Init PROVE TradeInv
  OBVIOUS
<1> USE DEF Init
<1>1. ShapeOK /\ Len(trades) = 0
  BY LocalsMade DEF ShapeOK
<1>2. \A s \in Sessions : pc[s] = idle /\ pc[s].at = "idle"
  BY DEF idle
<1>3. BeginsCounted
  <2>1. Beginning = {}
    BY <1>2 DEF Beginning
  <2>2. Cardinality(Beginning) = 0
    BY <2>1, FS_EmptySet
  <2> QED BY <1>1, <2>2, TradeAssumption DEF BeginsCounted
<1>4. Registered /\ CommitsAlone /\ AnsweredOK /\ \A s \in Sessions : SessionOK(s)
  BY <1>2 DEF Registered, CommitsAlone, AnsweredOK, SessionOK
<1>5. RepositoryOK
  BY TradeAssumption DEF RepositoryOK
<1>6. DirectoryOK
  BY DEF DirectoryOK
<1> QED BY <1>1, <1>3, <1>4, <1>5, <1>6 DEF TradeInv, Core

\* Only the exchange and the sale touch the stored assets.
LEMMA AssetsStay ==
    ASSUME NEW s \in Sessions, Arrive(s) \/ Continue(s), ~ Exchange(s),
           ~ \E slot \in Slots, n \in Amounts : Sell(s, slot, n)
    PROVE  UNCHANGED repository
BY DEF Arrive, Continue, BeginCheck, GoldLoad, RemoveGold, OfferLoad, RemoveOffer, State,
       Connect, Promote, Disconnect, ReturnToSelect, Begin, GoldLock, GoldAck, GoldUndo,
       OfferLock, OfferAcked, OfferUndo, MoveAcked, ExchangeFails, Finish, Cancel, Detach,
       DetachTrade, Unbind, repository

\* Only the session steps touch the directory.
LEMMA DirectoryKeeps ==
    ASSUME DirectoryOK, NEW s \in Sessions, Arrive(s) \/ Continue(s)
    PROVE  DirectoryOK'
<1>1. CharOf[s] \in Chars
  BY TradeAssumption
<1>2. CASE UNCHANGED directory
  BY <1>2 DEF DirectoryOK, directory
<1>3. CASE Connect(s) \/ Promote(s) \/ Unbind(s) \/ ReturnToSelect(s)
  BY <1>1, <1>3 DEF DirectoryOK, Connect, Promote, Unbind, ReturnToSelect
<1> QED BY <1>2, <1>3 DEF Arrive, Continue, BeginCheck, GoldLoad, RemoveGold, OfferLoad,
     RemoveOffer, State, Sell, Disconnect, Begin, GoldLock, GoldAck, GoldUndo, OfferLock,
     OfferAcked, OfferUndo, MoveAcked, Exchange, ExchangeFails, Finish, Cancel, Detach,
     DetachTrade

\* Every step keeps it.
LEMMA TradeStep ==
    ASSUME TradeInv, [Next]_vars
    PROVE  TradeInv'
<1>1. CASE UNCHANGED vars
  <2>1. Core'
    BY <1>1, OutsideKeeps DEF vars, TradeInv
  <2>2. RepositoryOK' /\ DirectoryOK'
    BY <1>1 DEF vars, TradeInv, RepositoryOK, DirectoryOK
  <2> QED BY <2>1, <2>2 DEF TradeInv
<1>2. ASSUME NEW s \in Sessions, Arrive(s) \/ Continue(s) PROVE TradeInv'
  <2>0. Core /\ RepositoryOK /\ DirectoryOK
    BY DEF TradeInv
  <2>1. Core'
    <3>1. CASE Arrive(s)
      <4>1. ASSUME NEW peer \in Chars, BeginCheck(s, peer) PROVE Core'
        BY <2>0, <4>1, BeginCheckKeeps
      <4>2. ASSUME NEW v \in Requests, State(s, v) PROVE Core'
        BY <2>0, <4>2, StateKeeps
      <4>3. CASE Connect(s) \/ Promote(s) \/ ReturnToSelect(s)
                   \/ \E slot \in Slots, n \in Amounts : Sell(s, slot, n)
        <5>1. UNCHANGED <<trades, itemTrades, pc, told>>
          BY <4>3 DEF Connect, Promote, ReturnToSelect, Sell
        <5> QED BY <2>0, <5>1, OutsideKeeps
      <4>4. CASE \/ \E n \in Amounts : GoldLoad(s, n)
                 \/ \E slot \in Slots, n \in Amounts : OfferLoad(s, slot, n)
                 \/ Disconnect(s)
        BY <2>0, <4>4, ReadersKeep
      <4>5. CASE RemoveGold(s)
        BY <2>0, <4>5, GoldKeeps
      <4>6. CASE \E row \in Rows : RemoveOffer(s, row)
        BY <2>0, <4>6, OffersKeep
      <4> QED BY <3>1, <4>1, <4>2, <4>3, <4>4, <4>5, <4>6 DEF Arrive
    <3>2. CASE Continue(s)
      BY <2>0, <3>2, BeginKeeps, GoldKeeps, OffersKeep, ReadersKeep, ExchangeKeeps, FinishKeeps,
         CancelKeeps, DetachTradeKeeps DEF Continue
    <3> QED BY <1>2, <3>1, <3>2
  <2>2. RepositoryOK'
    <3>1. CASE Exchange(s)
      BY <2>0, <3>1, ExchangeSwaps
    <3>2. ASSUME NEW slot \in Slots, NEW n \in Amounts, Sell(s, slot, n) PROVE RepositoryOK'
      BY <2>0, <3>2, SellKeeps
    <3>3. CASE UNCHANGED repository
      BY <2>0, <3>3 DEF RepositoryOK, repository
    <3> QED BY <1>2, <3>1, <3>2, <3>3, AssetsStay
  <2>3. DirectoryOK'
    BY <1>2, <2>0, DirectoryKeeps
  <2> QED BY <2>1, <2>2, <2>3 DEF TradeInv
<1> QED BY <1>1, <1>2 DEF Next

\* So it always holds.
LEMMA TradeAlways == Spec => []TradeInv
BY TradeInit, TradeStep, PTL DEF Spec

\* It contains the types of the state.
LEMMA TradeTypes == TradeInv => TypeOK
<1> SUFFICES ASSUME TradeInv PROVE TypeOK
  OBVIOUS
<1>1. /\ trades \in Seq(Trade) /\ Len(trades) \in Nat
      /\ itemTrades \in [Chars -> 0 .. Len(trades)]
  BY DEF TradeInv, Core, ShapeOK
<1>2. DOMAIN trades = 1 .. Len(trades)
  BY <1>1
<1>3. Len(trades) <= MaxTrades
  <2>1. pc \in [Sessions -> Locals]
    BY DEF TradeInv, Core, ShapeOK
  <2>2. Cardinality(Beginning) \in Nat
    BY FS_Subset, FS_CardinalityType, TradeAssumption DEF Beginning
  <2> QED BY <1>1, <2>2, TradeAssumption DEF TradeInv, Core, BeginsCounted
<1>4. ASSUME NEW t \in 1 .. Len(trades) PROVE TradeTypeOK(t)
  <2>1. trades[t] \in Trade /\ Participants(t) = Both(trades[t])
    BY <1>1, ParticipantsAre
  <2>2. /\ trades[t].participants \in Chars \X Chars
        /\ trades[t].offers \in [Both(trades[t]) -> OfferRows]
        /\ trades[t].gold \in [Both(trades[t]) -> Nat]
        /\ trades[t].states \in [Both(trades[t]) -> {0, AddingDone, Ready}]
        /\ trades[t].committing \in BOOLEAN
        /\ DOMAIN trades[t] = {"participants", "offers", "gold", "states", "committing"}
    BY <2>1, TradeParts
  <2>3. \A c \in Participants(t) : IsOffers(trades[t].offers[c])
    BY <2>1, <2>2, OfferRowsAre
  <2>4. DOMAIN trades[t].offers = Participants(t)
    BY <2>1, <2>2
  <2> QED BY <2>1, <2>2, <2>3, <2>4 DEF TradeTypeOK
<1> QED BY <1>1, <1>2, <1>3, <1>4 DEF TypeOK, TradeInv, RepositoryOK, DirectoryOK

-----------------------------------------------------------------------------
(* What the protocol promises. *)

\* The types of the state and the symmetry of the registry: whatever sequence
\* of requests, disconnects and commits, a registered trade is registered for
\* both of its participants and for nobody else (beginOnlineItemTrade,
\* clearOnlineItemTrade).
THEOREM RegistryIsSymmetric == Spec => []RegistrySymmetric
<1>1. TradeInv => RegistrySymmetric
  BY TradeTypes DEF TradeInv, Core, Registered, RegistrySymmetric
<1> QED BY <1>1, TradeAlways, PTL

\* No trade is exchanged twice: the committing flag of
\* handleOnlineItemTradeState admits one session at a time and never one after
\* the answer.
THEOREM TradesOnce == Spec => []ExchangedOnce
<1>1. TradeInv => ExchangedOnce
  BY DEF TradeInv, Core, SessionOK, CommitsAlone, ExchangedOnce
<1> QED BY <1>1, TradeAlways, PTL

\* The protocol implements the ledger: every change of the stored bags and
\* wallets is a conserving swap of two characters (commitOnlineItemTrade) or a
\* sale of their owner (commitCurrentNPCShopSell).
THEOREM ImplementsLedger == Spec => LedgerSpec
<1>1. Init => Ledger!Init
  BY DEF Init, Ledger!Init
<1>2. ASSUME TradeInv, [Next]_vars PROVE [Ledger!Next]_<<bag, wallet>>
  <2>1. CASE UNCHANGED vars
    BY <2>1 DEF vars
  <2>2. ASSUME NEW s \in Sessions, Arrive(s) \/ Continue(s)
        PROVE  [Ledger!Next]_<<bag, wallet>>
    <3>0. Core /\ RepositoryOK /\ CharOf[s] \in Chars
      BY <1>2, TradeAssumption DEF TradeInv
    <3>1. CASE Exchange(s)
      <4>1. \E p, q \in Chars : Ledger!Swap(p, q)
        BY <3>0, <3>1, ExchangeSwaps DEF Ledger!Swap, Ledger!Untouched
      <4> QED BY <4>1 DEF Ledger!Next
    <3>2. ASSUME NEW slot \in Slots, NEW n \in Amounts, Sell(s, slot, n)
          PROVE  [Ledger!Next]_<<bag, wallet>>
      <4>1. Ledger!Sell(CharOf[s])
        BY <3>0, <3>2, SellKeeps DEF Ledger!Sell, Ledger!Untouched
      <4> QED BY <3>0, <4>1 DEF Ledger!Next
    <3>3. CASE UNCHANGED repository
      BY <3>3 DEF repository
    <3> QED BY <2>2, <3>1, <3>2, <3>3, AssetsStay
  <2> QED BY <1>2, <2>1, <2>2 DEF Next
<1> QED BY <1>1, <1>2, TradeAlways, PTL DEF Spec, LedgerSpec, Ledger!Spec

-----------------------------------------------------------------------------
(* Final consent.  With two connections of one character a rollback of the *)
(* first can follow the final consent of the second (GoldUndo checks the   *)
(* committing flag only), so what is proved is for characters with one     *)
(* connection each.                                                        *)

OneConnection == \A r, s \in Sessions : CharOf[r] = CharOf[s] => r = s

Agreed(t, c) ==
    [trade |-> t, char |-> c, offers |-> trades[t].offers[c], gold |-> trades[t].gold[c]]

\* A side that is Ready still offers what it agreed to.
Consented ==
    \A t \in 1 .. Len(trades) : \A c \in Participants(t) :
        trades[t].states[c] = Ready => Agreed(t, c) \in consent

\* A side whose last edit may still be rolled back is not Ready.
Undecided ==
    \A s \in Sessions :
        pc[s].at \in {"goldSet", "offerSet"} /\ itemTrades[CharOf[s]] # 0 =>
            trades[itemTrades[CharOf[s]]].states[CharOf[s]] # Ready

\* A trade that is being committed has both consents.
AllReady ==
    \A s \in Sessions : pc[s].at = "commit" =>
        \A c \in Participants(pc[s].trade) : trades[pc[s].trade].states[c] = Ready

ConsentInv == Consented /\ Undecided /\ AllReady

\* Steps that edit no trade and leave their session neither at a rollback nor at
\* a commit, whether or not they clear entries of the registry.
LEMMA ConsentStays ==
    ASSUME Core, ConsentInv, UNCHANGED <<trades, consent>>, NEW s \in Sessions, NEW next,
           pc' = [pc EXCEPT ![s] = next], next.at \notin {"goldSet", "offerSet", "commit"},
           \A c \in Chars : itemTrades'[c] \in {0, itemTrades[c]}
    PROVE  ConsentInv'
<1>1. \A x \in Sessions : pc'[x] = IF x = s THEN next ELSE pc[x]
  BY DEF Core, ShapeOK
<1>2. Consented'
  <2>1. Consented /\ trades' = trades /\ consent' = consent
    BY DEF ConsentInv
  <2>2. \A t : Participants(t)' = Participants(t)
    BY <2>1 DEF Participants
  <2>3. \A t, c : Agreed(t, c)' = Agreed(t, c)
    BY <2>1 DEF Agreed
  <2> QED BY <2>1, <2>2, <2>3 DEF Consented
<1>3. Undecided'
  <2> SUFFICES ASSUME NEW x \in Sessions, pc'[x].at \in {"goldSet", "offerSet"},
                      itemTrades'[CharOf[x]] # 0
               PROVE  trades[itemTrades'[CharOf[x]]].states[CharOf[x]] # Ready
    BY DEF Undecided
  <2>1. CharOf[x] \in Chars /\ x # s /\ pc'[x] = pc[x]
    BY <1>1, TradeAssumption
  <2> QED BY <2>1 DEF ConsentInv, Undecided
<1>4. AllReady'
  BY <1>1 DEF ConsentInv, AllReady, Participants
<1> QED BY <1>2, <1>3, <1>4 DEF ConsentInv

\* Steps of the session directory and of the shop.
LEMMA ConsentOutside ==
    ASSUME ConsentInv, UNCHANGED <<trades, itemTrades, consent, pc>>
    PROVE  ConsentInv'
BY DEF ConsentInv, Consented, Undecided, AllReady, Participants, Agreed

\* A step that replaces the trade of its caller by r, which differs from it in
\* the caller's offers and gold.
EditsOwn(c, r) ==
    LET t == itemTrades[c]
    IN  /\ t \in 1 .. Len(trades) /\ r \in Trade
        /\ trades' = [trades EXCEPT ![t] = r]
        /\ r.participants = trades[t].participants /\ r.states = trades[t].states
        /\ \A d \in Both(trades[t]) : d # c =>
             r.offers[d] = trades[t].offers[d] /\ r.gold[d] = trades[t].gold[d]

\* An edit of a side that is not Ready.
LEMMA EditConsent ==
    ASSUME Core, ConsentInv, NEW s \in Sessions, NEW next,
           pc' = [pc EXCEPT ![s] = next], next.at # "commit", UNCHANGED <<itemTrades, consent>>,
           trades[itemTrades[CharOf[s]]].states[CharOf[s]] # Ready,
           NEW r, EditsOwn(CharOf[s], r)
    PROVE  ConsentInv'
<1> DEFINE c == CharOf[s]
<1>0. PICK t : t = itemTrades[c]
  OBVIOUS
<1> USE <1>0 DEF EditsOwn
<1>1. \A x \in Sessions : pc'[x] = IF x = s THEN next ELSE pc[x]
  BY DEF Core, ShapeOK
<1>2. /\ Len(trades') = Len(trades) /\ trades'[t] = r
      /\ \A u \in 1 .. Len(trades) : u # t => trades'[u] = trades[u]
  BY TradesEdits DEF Core, ShapeOK
<1>3. \A u \in 1 .. Len(trades) :
          /\ Participants(u)' = Participants(u) /\ trades'[u].states = trades[u].states
  BY <1>2 DEF Participants
<1>4. Participants(t) = Both(trades[t])
  BY DEF Participants, Both
<1>5. Consented'
  <2> SUFFICES ASSUME NEW u \in 1 .. Len(trades), NEW d \in Participants(u),
                      trades[u].states[d] = Ready
               PROVE  Agreed(u, d)' \in consent
    BY <1>2, <1>3 DEF Consented
  <2>1. Agreed(u, d) \in consent
    BY DEF ConsentInv, Consented
  <2>2. trades'[u].offers[d] = trades[u].offers[d] /\ trades'[u].gold[d] = trades[u].gold[d]
    BY <1>2, <1>4
  <2> QED BY <2>1, <2>2 DEF Agreed
<1>6. Undecided'
  <2> SUFFICES ASSUME NEW x \in Sessions, pc'[x].at \in {"goldSet", "offerSet"},
                      itemTrades[CharOf[x]] # 0
               PROVE  trades'[itemTrades[CharOf[x]]].states[CharOf[x]] # Ready
    BY DEF Undecided
  <2>1. itemTrades[CharOf[x]] \in 1 .. Len(trades)
    BY CallerTrade
  <2>2. trades[itemTrades[CharOf[x]]].states[CharOf[x]] # Ready
    BY <1>1 DEF ConsentInv, Undecided
  <2> QED BY <1>3, <2>1, <2>2
<1>7. AllReady'
  <2> SUFFICES ASSUME NEW x \in Sessions, pc'[x].at = "commit", NEW u, u = pc'[x].trade
               PROVE  \A d \in Participants(u)' : trades'[u].states[d] = Ready
    BY DEF AllReady, Participants
  <2>1. x # s /\ pc'[x] = pc[x]
    BY <1>1
  <2>2. u \in 1 .. Len(trades) /\ u = pc[x].trade
    BY <2>1 DEF Core, SessionOK
  <2> QED BY <1>3, <2>1, <2>2 DEF ConsentInv, AllReady
<1> QED BY <1>5, <1>6, <1>7 DEF ConsentInv

\* Setting the gold or the offers of a side that is not Ready.
LEMMA SideConsent ==
    ASSUME Core, ConsentInv, NEW s \in Sessions, NEW next,
           pc' = [pc EXCEPT ![s] = next], next.at # "commit", UNCHANGED <<itemTrades, consent>>,
           NEW t, t = itemTrades[CharOf[s]], t # 0, trades[t].states[CharOf[s]] # Ready,
           \/ \E v \in Nat : trades' = [trades EXCEPT ![t].gold[CharOf[s]] = v]
           \/ \E v \in OfferRows : trades' = [trades EXCEPT ![t].offers[CharOf[s]] = v]
    PROVE  ConsentInv'
<1>1. /\ t \in 1 .. Len(trades) /\ trades[t] \in Trade /\ CharOf[s] \in Both(trades[t])
  BY CallerTrade
<1>2. /\ trades[t].gold \in [Both(trades[t]) -> Nat]
      /\ trades[t].offers \in [Both(trades[t]) -> OfferRows]
      /\ DOMAIN trades[t] = {"participants", "offers", "gold", "states", "committing"}
  BY <1>1, TradeParts
<1>3. ASSUME NEW v \in Nat, trades' = [trades EXCEPT ![t].gold[CharOf[s]] = v] PROVE ConsentInv'
  <2> DEFINE g == [trades[t].gold EXCEPT ![CharOf[s]] = v]
             r == [trades[t] EXCEPT !.gold = g]
  <2>1. g \in [Both(trades[t]) -> Nat] /\ trades' = [trades EXCEPT ![t] = r]
    BY <1>2, <1>3
  <2>2. \A d \in Both(trades[t]) : d # CharOf[s] => g[d] = trades[t].gold[d]
    BY <1>2
  <2> HIDE DEF g
  <2>3. /\ r \in Trade /\ r.participants = trades[t].participants /\ r.states = trades[t].states
        /\ r.offers = trades[t].offers /\ r.gold = g
    BY <1>1, <1>2, <2>1, TradeEdits
  <2> HIDE DEF r
  <2>4. \A d \in Both(trades[t]) : d # CharOf[s] =>
             r.offers[d] = trades[t].offers[d] /\ r.gold[d] = trades[t].gold[d]
    BY <2>2, <2>3
  <2>5. EditsOwn(CharOf[s], r)
    BY <1>1, <2>1, <2>3, <2>4 DEF EditsOwn
  <2> QED BY <2>5, EditConsent
<1>4. ASSUME NEW v \in OfferRows, trades' = [trades EXCEPT ![t].offers[CharOf[s]] = v]
      PROVE  ConsentInv'
  <2> DEFINE g == [trades[t].offers EXCEPT ![CharOf[s]] = v]
             r == [trades[t] EXCEPT !.offers = g]
  <2>1. g \in [Both(trades[t]) -> OfferRows] /\ trades' = [trades EXCEPT ![t] = r]
    BY <1>2, <1>4
  <2>2. \A d \in Both(trades[t]) : d # CharOf[s] => g[d] = trades[t].offers[d]
    BY <1>2
  <2> HIDE DEF g
  <2>3. /\ r \in Trade /\ r.participants = trades[t].participants /\ r.states = trades[t].states
        /\ r.offers = g /\ r.gold = trades[t].gold
    BY <1>1, <1>2, <2>1, TradeEdits
  <2> HIDE DEF r
  <2>4. \A d \in Both(trades[t]) : d # CharOf[s] =>
             r.offers[d] = trades[t].offers[d] /\ r.gold[d] = trades[t].gold[d]
    BY <2>2, <2>3
  <2>5. EditsOwn(CharOf[s], r)
    BY <1>1, <2>1, <2>3, <2>4 DEF EditsOwn
  <2> QED BY <2>5, EditConsent
<1> QED BY <1>3, <1>4

\* The edits of the caller's own side.  A rollback finds the side undecided.
LEMMA EditsConsent ==
    ASSUME Core, ConsentInv, NEW s \in Sessions,
           \/ GoldLock(s) \/ GoldUndo(s) \/ RemoveGold(s)
           \/ OfferLock(s) \/ OfferUndo(s) \/ \E row \in Rows : RemoveOffer(s, row)
    PROVE  ConsentInv'
<1> DEFINE c == CharOf[s]
           t == itemTrades[c]
           rows == trades[t].offers[c]
<1>0. /\ UNCHANGED <<itemTrades, consent>> /\ pc[s] \in Locals
      /\ \A d \in Chars : itemTrades'[d] \in {0, itemTrades[d]}
  BY DEF GoldLock, GoldUndo, RemoveGold, OfferLock, OfferUndo, RemoveOffer, Core, ShapeOK
<1>1. ASSUME trades' = trades, pc' = [pc EXCEPT ![s] = idle] PROVE ConsentInv'
  <2>1. idle.at \notin {"goldSet", "offerSet", "commit"}
    BY DEF idle
  <2> QED BY <1>0, <1>1, <2>1, ConsentStays
<1>2. ASSUME NEW v \in Nat, NEW next, t # 0, trades[t].states[c] # Ready, next.at # "commit",
             trades' = [trades EXCEPT ![t].gold[c] = v], pc' = [pc EXCEPT ![s] = next]
      PROVE  ConsentInv'
  BY <1>0, <1>2, SideConsent
<1>3. ASSUME NEW v \in OfferRows, NEW next, t # 0, trades[t].states[c] # Ready,
             next.at # "commit",
             trades' = [trades EXCEPT ![t].offers[c] = v], pc' = [pc EXCEPT ![s] = next]
      PROVE  ConsentInv'
  BY <1>0, <1>3, SideConsent
<1>4. ASSUME NEW row, NEW next, t # 0, trades[t].states[c] # Ready, next.at # "commit",
             trades' = [trades EXCEPT ![t].offers[c] = Restrict(@, DOMAIN @ \ {row})],
             pc' = [pc EXCEPT ![s] = next]
      PROVE  ConsentInv'
  <2> DEFINE left == Restrict(rows, DOMAIN rows \ {row})
  <2>1. rows \in OfferRows
    BY <1>4, CallerTrade
  <2>2. left \in OfferRows /\ trades' = [trades EXCEPT ![t].offers[c] = left]
    BY <1>4, <2>1, OfferRowsEdits
  <2> HIDE DEF left
  <2> QED BY <1>3, <1>4, <2>2
<1>5. Editable(c) => t # 0 /\ trades[t].states[c] # Ready
  BY DEF Editable
<1>6. pc[s].at \in {"goldSet", "offerSet"} /\ t # 0 => trades[t].states[c] # Ready
  BY DEF ConsentInv, Undecided
<1>7. idle.at # "commit"
  BY DEF idle
<1>8. CASE GoldLock(s)
  <2>1. CASE ~ Editable(c)
    BY <1>1, <1>8, <2>1 DEF GoldLock, Goto
  <2>2. CASE Editable(c)
    <3> DEFINE next == [at |-> "goldSet", trade |-> t, prev |-> trades[t].gold[c]]
    <3>1. /\ trades' = [trades EXCEPT ![t].gold[c] = pc[s].n] /\ pc[s].n \in Nat
          /\ pc' = [pc EXCEPT ![s] = next] /\ next.at # "commit"
      BY <1>0, <1>8, <2>2, LocalsParts DEF GoldLock, Goto
    <3> HIDE DEF next
    <3> QED BY <1>2, <1>5, <2>2, <3>1
  <2> QED BY <2>1, <2>2
<1>9. CASE GoldUndo(s)
  <2>1. pc[s].at = "goldSet" /\ pc' = [pc EXCEPT ![s] = idle] /\ pc[s].prev \in Nat
    BY <1>0, <1>9, LocalsParts DEF GoldUndo, Goto
  <2>2. pc[s].trade # 0
    BY <2>1 DEF Core, SessionOK
  <2>3. CASE t = pc[s].trade /\ ~ trades[pc[s].trade].committing
    <3>1. trades' = [trades EXCEPT ![t].gold[c] = pc[s].prev]
      BY <1>9, <2>3 DEF GoldUndo
    <3> QED BY <1>2, <1>6, <1>7, <2>1, <2>2, <2>3, <3>1
  <2>4. CASE ~ (t = pc[s].trade /\ ~ trades[pc[s].trade].committing)
    <3>1. trades' = trades
      BY <1>9, <2>4 DEF GoldUndo
    <3> QED BY <1>1, <2>1, <3>1
  <2> QED BY <2>3, <2>4
<1>10. CASE RemoveGold(s)
  <2>1. Editable(c) /\ trades' = [trades EXCEPT ![t].gold[c] = 0] /\ 0 \in Nat
    BY <1>10 DEF RemoveGold
  <2>2. PICK next \in {idle, [at |-> "detach"]} : pc' = [pc EXCEPT ![s] = next]
    BY <1>10 DEF RemoveGold, Goto
  <2>3. next.at # "commit"
    BY DEF idle
  <2> QED BY <1>2, <1>5, <2>1, <2>2, <2>3
<1>11. CASE OfferLock(s)
  <2>1. CASE ~ (Editable(c) /\ OfferFits(rows, pc[s].offer))
    BY <1>1, <1>11, <2>1 DEF OfferLock, Goto
  <2>2. CASE Editable(c) /\ OfferFits(rows, pc[s].offer)
    <3> DEFINE row == Min(Rows \ DOMAIN rows)
               next == [at |-> "offerSet", trade |-> t, row |-> row]
               placed == Placed(rows, row, pc[s].offer)
    <3>1. t # 0 /\ DOMAIN rows # Rows
      BY <2>2 DEF Editable, OfferFits
    <3>2. rows \in OfferRows
      BY <3>1, CallerTrade
    <3>3. /\ trades' = [trades EXCEPT ![t].offers[c] = placed] /\ pc[s].offer \in Offer
          /\ pc' = [pc EXCEPT ![s] = next] /\ next.at # "commit"
      BY <1>0, <1>11, <2>2, LocalsParts DEF OfferLock, Placed, Goto
    <3>4. placed \in OfferRows
      <4> HIDE DEF rows
      <4>1. row \in Rows
        BY <3>1, <3>2, OfferRowsEdits
      <4> HIDE DEF row
      <4> QED BY <3>2, <3>3, <4>1, OfferRowsEdits
    <3> HIDE DEF next, placed
    <3> QED BY <1>3, <1>5, <2>2, <3>3, <3>4
  <2> QED BY <2>1, <2>2
<1>12. CASE OfferUndo(s)
  <2>1. pc[s].at = "offerSet" /\ pc' = [pc EXCEPT ![s] = idle]
    BY <1>12 DEF OfferUndo, Goto
  <2>2. CASE t # 0 /\ ~ trades[t].committing
    <3>1. trades' = [trades EXCEPT ![t].offers[c] = Restrict(@, DOMAIN @ \ {pc[s].row})]
      BY <1>12, <2>2 DEF OfferUndo
    <3> QED BY <1>4, <1>6, <1>7, <2>1, <2>2, <3>1
  <2>3. CASE ~ (t # 0 /\ ~ trades[t].committing)
    <3>1. trades' = trades
      BY <1>12, <2>3 DEF OfferUndo
    <3> QED BY <1>1, <2>1, <3>1
  <2> QED BY <2>2, <2>3
<1>13. ASSUME NEW row \in Rows, RemoveOffer(s, row) PROVE ConsentInv'
  <2>1. /\ Editable(c)
        /\ trades' = [trades EXCEPT ![t].offers[c] = Restrict(@, DOMAIN @ \ {row})]
    BY <1>13 DEF RemoveOffer
  <2>2. PICK next \in {idle, [at |-> "detach"]} : pc' = [pc EXCEPT ![s] = next]
    BY <1>13 DEF RemoveOffer, Goto
  <2>3. next.at # "commit"
    BY DEF idle
  <2> QED BY <1>4, <1>5, <2>1, <2>2, <2>3
<1> QED BY <1>8, <1>9, <1>10, <1>11, <1>12, <1>13

\* The final consent of a side records what it offers; the second one starts
\* the commit.
LEMMA StateConsent ==
    ASSUME OneConnection, Core, ConsentInv, NEW s \in Sessions, NEW v \in Requests, State(s, v)
    PROVE  ConsentInv'
<1> DEFINE c == CharOf[s]
<1>0. PICK t : t = itemTrades[c]
  OBVIOUS
<1> DEFINE now == Projected(v, trades[t].states[c])
           both == now = Ready /\ trades[t].states[Other(t, c)] = Ready
           r == [trades[t] EXCEPT !.states = [trades[t].states EXCEPT ![c] = now],
                                  !.committing = both]
<1>1. /\ t \in 1 .. Len(trades) /\ t \in Nat /\ c \in Both(trades[t])
      /\ ~ trades[t].committing /\ now \in {0, AddingDone, Ready}
      /\ trades' = [trades EXCEPT ![t] = r]
      /\ \/ pc' = [pc EXCEPT ![s] = [at |-> "detach"]]
         \/ both /\ pc' = [pc EXCEPT ![s] = [at |-> "commit", trade |-> t]]
         \/ ~ both /\ pc' = [pc EXCEPT ![s] = idle]
  BY <1>0, StateStep
<1>2. /\ itemTrades' = itemTrades /\ trades \in Seq(Trade) /\ both \in BOOLEAN
      /\ consent' = IF now = Ready THEN consent \cup {Agreed(t, c)} ELSE consent
  BY <1>0 DEF State, Core, ShapeOK, Agreed
<1>3. trades[t] \in Trade
  BY <1>1, <1>2
<1> HIDE DEF now, both
<1>4. /\ trades[t].states \in [Both(trades[t]) -> {0, AddingDone, Ready}]
      /\ DOMAIN trades[t] = {"participants", "offers", "gold", "states", "committing"}
  BY <1>3, TradeParts
<1>5. /\ r.participants = trades[t].participants /\ r.offers = trades[t].offers
      /\ r.gold = trades[t].gold
      /\ r.states[c] = now
      /\ \A d \in Both(trades[t]) : d # c => r.states[d] = trades[t].states[d]
  BY <1>1, <1>4
<1> HIDE DEF r
<1>6. /\ Len(trades') = Len(trades) /\ trades'[t] = r
      /\ \A u \in 1 .. Len(trades) : u # t => trades'[u] = trades[u]
  <2>1. trades \in [1 .. Len(trades) -> Trade]
    BY <1>2
  <2> QED BY <1>1, <1>2, <2>1
<1>7. \A u \in 1 .. Len(trades) : Participants(u)' = Participants(u)
  BY <1>5, <1>6 DEF Participants
<1>8. Participants(t) = Both(trades[t])
  BY DEF Participants, Both
<1>9. Consented'
  <2> SUFFICES ASSUME NEW u \in 1 .. Len(trades), NEW d \in Participants(u),
                      trades'[u].states[d] = Ready
               PROVE  Agreed(u, d)' \in consent'
    BY <1>6, <1>7 DEF Consented
  <2>1. Agreed(u, d)' = Agreed(u, d)
    BY <1>5, <1>6 DEF Agreed
  <2>2. CASE u = t /\ d = c
    <3>1. now = Ready
      BY <1>5, <1>6, <2>2
    <3> QED BY <1>2, <2>1, <2>2, <3>1
  <2>3. CASE u # t \/ d # c
    <3>1. trades[u].states[d] = Ready
      BY <1>5, <1>6, <1>8, <2>3
    <3>2. Agreed(u, d) \in consent
      BY <3>1 DEF ConsentInv, Consented
    <3> QED BY <1>2, <2>1, <3>2
  <2> QED BY <2>2, <2>3
<1>10. PICK next : /\ pc' = [pc EXCEPT ![s] = next]
                   /\ next.at \in {"detach", "idle", "commit"}
                   /\ next.at = "commit" => both /\ next.trade = t
  <2>1. idle.at = "idle"
    BY DEF idle
  <2> QED BY <1>1, <2>1
<1>11. \A x \in Sessions : pc'[x] = IF x = s THEN next ELSE pc[x]
  BY <1>10 DEF Core, ShapeOK
<1>12. Undecided'
  <2> SUFFICES ASSUME NEW x \in Sessions, pc'[x].at \in {"goldSet", "offerSet"},
                      NEW u, u = itemTrades[CharOf[x]], u # 0
               PROVE  trades'[u].states[CharOf[x]] # Ready
    BY <1>2 DEF Undecided
  <2>1. x # s /\ pc'[x] = pc[x]
    BY <1>10, <1>11
  <2>2. CharOf[x] # c
    BY <2>1 DEF OneConnection
  <2>3. u \in 1 .. Len(trades) /\ CharOf[x] \in Both(trades[u])
    BY CallerTrade
  <2>4. trades[u].states[CharOf[x]] # Ready
    BY <2>1 DEF ConsentInv, Undecided
  <2> QED BY <1>5, <1>6, <2>2, <2>3, <2>4
<1>13. AllReady'
  <2> SUFFICES ASSUME NEW x \in Sessions, pc'[x].at = "commit", NEW u, u = pc'[x].trade
               PROVE  \A d \in Participants(u)' : trades'[u].states[d] = Ready
    BY DEF AllReady, Participants
  <2>1. CASE x = s
    <3>1. both /\ u = t
      BY <1>10, <1>11, <2>1
    <3>2. now = Ready /\ trades[t].states[Other(t, c)] = Ready
      BY <3>1 DEF both
    <3>3. Participants(t) = {c, Other(t, c)} /\ Other(t, c) # c
      BY <1>1, <1>2, <1>8, OtherSide
    <3> QED BY <1>1, <1>5, <1>6, <1>7, <1>8, <3>1, <3>2, <3>3
  <2>2. CASE x # s
    <3>1. pc'[x] = pc[x]
      BY <1>11, <2>2
    <3>2. u \in 1 .. Len(trades) /\ trades[u].committing /\ u = pc[x].trade
      BY <3>1 DEF Core, SessionOK
    <3>3. u # t
      BY <1>1, <3>2
    <3> QED BY <1>6, <1>7, <3>1, <3>2, <3>3 DEF ConsentInv, AllReady
  <2> QED BY <2>1, <2>2
<1> QED BY <1>9, <1>12, <1>13 DEF ConsentInv

\* A new trade has no consent yet.
LEMMA BeginConsent ==
    ASSUME Core, ConsentInv, NEW s \in Sessions, Begin(s)
    PROVE  ConsentInv'
<1> DEFINE c == CharOf[s]
           p == pc[s].peer
<1>0. PICK n : n = Len(trades) + 1
  OBVIOUS
<1>1. /\ trades \in Seq(Trade) /\ Len(trades) \in Nat
      /\ pc' = [pc EXCEPT ![s] = idle] /\ consent' = consent
      /\ itemTrades \in [Chars -> 0 .. Len(trades)]
  BY DEF Begin, Core, ShapeOK, Goto
<1>2. /\ Len(trades') = n /\ trades'[n].states = [d \in {c, p} |-> 0]
      /\ trades'[n].participants = <<c, p>>
      /\ \A u \in 1 .. Len(trades) : trades'[u] = trades[u]
  BY <1>0, <1>1 DEF Begin
<1>3. \A d \in Chars : (itemTrades'[d] = n /\ d \in {c, p}) \/ itemTrades'[d] \in {0, itemTrades[d]}
  BY <1>0 DEF Begin
<1>4. \A u \in 1 .. Len(trades) : Participants(u)' = Participants(u)
  BY <1>2 DEF Participants
<1>5. Participants(n)' = {c, p}
  BY <1>2 DEF Participants
<1>6. \A x \in Sessions : pc'[x] = IF x = s THEN idle ELSE pc[x]
  BY <1>1 DEF Core, ShapeOK
<1>7. Consented'
  <2> SUFFICES ASSUME NEW u \in 1 .. n, NEW d \in Participants(u)', trades'[u].states[d] = Ready
               PROVE  Agreed(u, d)' \in consent
    BY <1>1, <1>2 DEF Consented
  <2>1. u # n
    BY <1>2, <1>5 DEF Ready
  <2>2. u \in 1 .. Len(trades)
    BY <1>0, <1>1, <2>1
  <2> QED BY <1>2, <1>4, <2>2 DEF ConsentInv, Consented, Agreed
<1>8. Undecided'
  <2> SUFFICES ASSUME NEW x \in Sessions, pc'[x].at \in {"goldSet", "offerSet"},
                      NEW u, u = itemTrades'[CharOf[x]], u # 0
               PROVE  trades'[u].states[CharOf[x]] # Ready
    BY DEF Undecided
  <2>1. x # s /\ pc'[x] = pc[x] /\ CharOf[x] \in Chars
    BY <1>6, TradeAssumption DEF idle
  <2>2. CASE u = n /\ CharOf[x] \in {c, p}
    BY <1>2, <2>2 DEF Ready
  <2>3. CASE u = itemTrades[CharOf[x]]
    <3>1. u \in 1 .. Len(trades)
      BY <1>1, <2>1, <2>3
    <3> QED BY <1>2, <2>1, <2>3, <3>1 DEF ConsentInv, Undecided
  <2> QED BY <1>3, <2>1, <2>2, <2>3
<1>9. AllReady'
  <2> SUFFICES ASSUME NEW x \in Sessions, pc'[x].at = "commit", NEW u, u = pc'[x].trade
               PROVE  \A d \in Participants(u)' : trades'[u].states[d] = Ready
    BY DEF AllReady, Participants
  <2>1. x # s /\ pc'[x] = pc[x]
    BY <1>6 DEF idle
  <2>2. u \in 1 .. Len(trades) /\ u = pc[x].trade
    BY <2>1 DEF Core, SessionOK
  <2> QED BY <1>2, <1>4, <2>1, <2>2 DEF ConsentInv, AllReady
<1> QED BY <1>7, <1>8, <1>9 DEF ConsentInv

\* Every step keeps the consent invariant.
LEMMA ConsentStep ==
    ASSUME OneConnection, TradeInv, ConsentInv, [Next]_vars
    PROVE  ConsentInv'
<1>1. CASE UNCHANGED vars
  BY <1>1, ConsentOutside DEF vars
<1>2. ASSUME NEW s \in Sessions, Arrive(s) \/ Continue(s) PROVE ConsentInv'
  <2>0. Core /\ itemTrades \in [Chars -> 0 .. Len(trades)] /\ pc[s] \in Locals
    BY DEF TradeInv, Core, ShapeOK
  <2>1. ASSUME NEW v \in Requests, State(s, v) PROVE ConsentInv'
    BY <2>0, <2>1, StateConsent
  <2>2. CASE Begin(s)
    BY <2>0, <2>2, BeginConsent
  <2>3. CASE \/ GoldLock(s) \/ GoldUndo(s) \/ RemoveGold(s)
             \/ OfferLock(s) \/ OfferUndo(s) \/ \E row \in Rows : RemoveOffer(s, row)
    BY <2>0, <2>3, EditsConsent
  <2>4. CASE \/ Connect(s) \/ Promote(s) \/ ReturnToSelect(s)
             \/ \E slot \in Slots, n \in Amounts : Sell(s, slot, n)
    <3>1. UNCHANGED <<trades, itemTrades, consent, pc>>
      BY <2>4 DEF Connect, Promote, ReturnToSelect, Sell
    <3> QED BY <3>1, ConsentOutside
  <2>5. ASSUME NEW next, pc' = [pc EXCEPT ![s] = next],
               next.at \notin {"goldSet", "offerSet", "commit"},
               UNCHANGED <<trades, consent>>,
               UNCHANGED itemTrades \/ \E t : itemTrades' = Cleared(t)
        PROVE  ConsentInv'
    <3>1. \A c \in Chars : itemTrades'[c] \in {0, itemTrades[c]}
      BY <2>0, <2>5 DEF Cleared
    <3> QED BY <2>0, <2>5, <3>1, ConsentStays
  <2>6. CASE \/ \E peer \in Chars : BeginCheck(s, peer)
             \/ \E n \in Amounts : GoldLoad(s, n)
             \/ \E slot \in Slots, n \in Amounts : OfferLoad(s, slot, n)
             \/ Disconnect(s) \/ GoldAck(s) \/ OfferAcked(s) \/ Detach(s) \/ DetachTrade(s)
             \/ Unbind(s) \/ Exchange(s) \/ ExchangeFails(s)
    <3>1. UNCHANGED <<trades, consent, itemTrades>>
      BY <2>6 DEF BeginCheck, GoldLoad, OfferLoad, Disconnect, GoldAck, OfferAcked, MoveAcked,
                  Detach, DetachTrade, Unbind, Exchange, ExchangeFails
    <3>2. PICK next : pc' = [pc EXCEPT ![s] = next] /\ next.at \notin {"goldSet", "offerSet", "commit"}
      <4> DEFINE To(next) == pc' = [pc EXCEPT ![s] = next]
      <4>1. ASSUME NEW peer \in Chars, BeginCheck(s, peer)
            PROVE  To([at |-> "begin", peer |-> peer])
        BY <4>1 DEF BeginCheck, Goto
      <4>2. ASSUME NEW n \in Amounts, GoldLoad(s, n) PROVE To([at |-> "gold", n |-> n])
        BY <4>2 DEF GoldLoad, Goto
      <4>3. ASSUME NEW slot \in Slots, NEW n \in Amounts, OfferLoad(s, slot, n)
            PROVE  \E o : To([at |-> "offer", offer |-> o])
        BY <4>3 DEF OfferLoad, Goto
      <4>4. ASSUME Disconnect(s) \/ GoldAck(s) \/ OfferAcked(s) \/ Unbind(s)
            PROVE  To([at |-> "idle"]) \/ To([at |-> "detach"])
        BY <4>4 DEF Disconnect, GoldAck, OfferAcked, MoveAcked, Unbind, Goto, idle
      <4>5. ASSUME Detach(s) PROVE To([at |-> "detachTrade"]) \/ To([at |-> "unbind"])
        BY <4>5 DEF Detach, Goto
      <4>6. ASSUME DetachTrade(s) \/ Exchange(s) \/ ExchangeFails(s)
            PROVE  \/ To([at |-> "unbind"])
                   \/ \E t, l : To([at |-> "cancel", trade |-> t, then |-> l])
                   \/ \E t : To([at |-> "finish", trade |-> t])
        <5>1. CASE DetachTrade(s)
          BY <5>1 DEF DetachTrade, Goto
        <5>2. CASE Exchange(s)
          BY <5>2 DEF Exchange, Goto
        <5>3. CASE ExchangeFails(s)
          BY <5>3 DEF ExchangeFails, Goto
        <5> QED BY <4>6, <5>1, <5>2, <5>3
      <4> HIDE DEF To
      <4> DEFINE Away == \E next : To(next) /\ next.at \notin {"goldSet", "offerSet", "commit"}
      <4>7. ASSUME NEW l, To(l), l.at \notin {"goldSet", "offerSet", "commit"} PROVE Away
        BY <4>7
      <4> HIDE DEF Away
      <4>8. /\ To([at |-> "idle"]) => Away
            /\ To([at |-> "detach"]) => Away
            /\ To([at |-> "detachTrade"]) => Away
            /\ To([at |-> "unbind"]) => Away
            /\ \A x : To([at |-> "begin", peer |-> x]) => Away
            /\ \A x : To([at |-> "gold", n |-> x]) => Away
            /\ \A x : To([at |-> "offer", offer |-> x]) => Away
            /\ \A x : To([at |-> "finish", trade |-> x]) => Away
            /\ \A x, y : To([at |-> "cancel", trade |-> x, then |-> y]) => Away
        BY <4>7
      <4>9. Away
        BY <2>6, <4>1, <4>2, <4>3, <4>4, <4>5, <4>6, <4>8
      <4> QED BY <4>9 DEF To, Away
    <3> QED BY <2>5, <3>1, <3>2
  <2>7. CASE Finish(s) \/ Cancel(s)
    <3>1. UNCHANGED <<trades, consent>> /\ \E t : itemTrades' = Cleared(t)
      BY <2>7 DEF Finish, Cancel
    <3>2. PICK next : pc' = [pc EXCEPT ![s] = next] /\ next.at \in {"idle", "detach", "unbind"}
      <4>1. CASE Finish(s)
        <5>1. PICK l \in {[at |-> "idle"], [at |-> "detach"]} : pc' = [pc EXCEPT ![s] = l]
          BY <4>1 DEF Finish, Goto, idle
        <5>2. l.at \in {"idle", "detach", "unbind"}
          OBVIOUS
        <5> QED BY <5>1, <5>2
      <4>2. CASE Cancel(s)
        BY <2>0, <4>2, LocalsParts DEF Cancel, Goto
      <4> QED BY <2>7, <4>1, <4>2
    <3> QED BY <2>5, <3>1, <3>2
  <2> QED BY <1>2, <2>1, <2>2, <2>3, <2>4, <2>6, <2>7 DEF Arrive, Continue
<1> QED BY <1>1, <1>2 DEF Next

\* When no character has two connections, a commit takes from each participant
\* exactly what it had offered at its final consent: no edit and no rollback
\* of addOnlineItemTradeGold or addOnlineItemTradeOffer comes in between.
THEOREM ConsentIsKept ==
    ASSUME OneConnection
    PROVE  Spec => []ConsentHolds
<1>1. Init => ConsentInv
  <2> SUFFICES ASSUME Init PROVE ConsentInv
    OBVIOUS
  <2>1. Len(trades) = 0 /\ \A s \in Sessions : pc[s].at = "idle"
    BY DEF Init, idle
  <2> QED BY <2>1 DEF ConsentInv, Consented, Undecided, AllReady
<1>2. TradeInv /\ ConsentInv /\ [Next]_vars => ConsentInv'
  BY ConsentStep
<1>3. ASSUME TradeInv, ConsentInv PROVE ConsentHolds
  <2> SUFFICES ASSUME NEW s \in Sessions, pc[s].at = "commit",
                      NEW c \in Participants(pc[s].trade)
               PROVE  Agreed(pc[s].trade, c) \in consent
    BY DEF ConsentHolds, Agreed
  <2>1. pc[s].trade \in 1 .. Len(trades)
    BY <1>3 DEF TradeInv, Core, SessionOK
  <2> QED BY <1>3, <2>1 DEF ConsentInv, AllReady, Consented
<1> QED BY <1>1, <1>2, <1>3, TradeAlways, PTL DEF Spec
=============================================================================
