-------------------------- MODULE PartyRelayProofs --------------------------
(***************************************************************************)
(* Proofs about PartyRelay for every number of characters, parties,        *)
(* handlers, ports and sockets.                                            *)
(***************************************************************************)
EXTENDS PartyRelay, Foundations, FunctionTheorems, TLAPS

-----------------------------------------------------------------------------
(* The inductive invariant. *)

HandStates ==
    {Idle}
      \cup [at : {"read", "retire"}, party : Parties]
      \cup [at : {"hold"}, party : Parties, members : SUBSET Characters]
      \cup [at : {"bound"}, party : Parties, bindings : SUBSET Bindings]
      \cup [at : {"finish"}, toClose : SUBSET Nat, toStart : SUBSET Nat]

CloserStates == {Idle, [at |-> "done"]} \cup [at : {"closing"}, toClose : SUBSET Nat]

LoopStates ==
    {Unborn, Receiving, Ended, [at |-> "got"]}
      \cup [at : {"found"}, leg : Nat]
      \cup [at : {"ready"}, leg : Nat, to : Endpoints \cup {NoEndpoint}]

\* Socket i is in the table, in the hands of a handler, in those of Close.
Tabled(i) == \E k \in Keys : table[k] = i
Takes(h, i) == hand[h].at = "finish" /\ i \in hand[h].toClose
CloserTakes(i) == closer.at = "closing" /\ i \in closer.toClose

HandsOK ==
    /\ hand \in [Handlers -> HandStates]
    /\ \A h \in Handlers : hand[h].at = "finish" =>
         /\ hand[h].toClose \subseteq Ids /\ hand[h].toStart \subseteq Ids
         /\ hand[h].toClose # {} \/ hand[h].toStart # {}

CloserOK ==
    /\ closer \in CloserStates
    /\ closer.at = "closing" => closer.toClose \subseteq Ids

LoopsOK ==
    /\ loop \in Seq(LoopStates) /\ Len(loop) = Len(made)
    /\ \A i \in Ids : loop[i].at \in {"found", "ready"} => loop[i].leg \in Ids

RecordsOK == TypeOK /\ HandsOK /\ CloserOK /\ LoopsOK

\* A leg stands in the table under its own pair.
TableOK == \A k \in Keys : table[k] # 0 => made[table[k]].key = k

\* Nobody closes a socket that is in the table or that another will close.
Exclusive ==
    /\ \A h \in Handlers, i \in Ids : Takes(h, i) =>
         /\ ~ Tabled(i) /\ ~ CloserTakes(i)
         /\ \A g \in Handlers : Takes(g, i) => g = h
    /\ \A i \in Ids : CloserTakes(i) => ~ Tabled(i)

\* A socket is open as long as somebody answers for it.
OpenOwned ==
    \A i \in Ids : made[i].open <=>
        Tabled(i) \/ CloserTakes(i) \/ \E h \in Handlers : Takes(h, i)

PortsDistinct ==
    \A i, j \in Ids :
        made[i].open /\ made[j].open /\ made[i].port = made[j].port => i = j

PortsUsed ==
    \A n \in Ports : n \in used <=>
        \E k \in Keys : table[k] # 0 /\ made[table[k]].port = n

\* Before Close there is no closer, after it the table is empty.
ClosedOK ==
    /\ closed => \A k \in Keys : table[k] = 0
    /\ ~ closed => closer = Idle

SocketInv ==
    /\ RecordsOK /\ TableOK /\ Exclusive /\ OpenOwned /\ PortsDistinct
    /\ PortsUsed /\ ClosedOK

\* What Matches says, with the bindings written out.
Followed(p) ==
    \A k \in Keys : k[1] = p =>
        IF k[2] \in party[p] /\ k[3] \in party[p]
        THEN /\ table[k] # 0
             /\ made[table[k]].binding = [character |-> k[2], gen |-> gen[k[2]]]
        ELSE table[k] = 0

\* Handler h is going to close the sockets of p, or to synchronise them.
HasClose(h, p) ==
    \/ hand[h].at = "retire" /\ hand[h].party = p
    \/ \E call \in owed[h] : call.op = "close" /\ call.party = p
HasSync(h, p) ==
    \/ hand[h].at \in {"read", "hold", "bound"} /\ hand[h].party = p
    \/ \E call \in owed[h] : call.op = "sync" /\ call.party = p

\* The sockets of p are in order, or somebody is on the way to them with the
\* call that its members ask for.
Attended(p) ==
    \/ Followed(p)
    \/ Lone(party[p]) /\ \E h \in Handlers : HasClose(h, p)
    \/ ~ Lone(party[p]) /\ \E h \in Handlers : HasSync(h, p)

FollowInv == ~ closed => \A p \in Parties \ adrift : Attended(p)

\* A socket belongs to the session of its pair's first character and has
\* learned an address of that session only.
BoundRight ==
    \A i \in Ids :
        /\ made[i].binding.character = made[i].key[2]
        /\ made[i].learned # NoEndpoint => made[i].learned.host = HostOf[made[i].binding]

\* A read loop that holds a datagram holds it for the pair's other socket.
Carried ==
    \A i \in Ids :
        /\ loop[i].at \in {"found", "ready"} => made[loop[i].leg].key = Opposite(made[i].key)
        /\ loop[i].at = "ready" => loop[i].to.host = HostOf[made[loop[i].leg].binding]

PairInv == BoundRight /\ Carried

RelayInv == SocketInv /\ FollowInv /\ PairInv

-----------------------------------------------------------------------------
(* The legs that Sync opens. *)

\* There are finitely many pairs of members.
LEMMA KeysFinite == IsFiniteSet(Keys)
<1> DEFINE T == (Parties \X Characters) \X Characters
           f == [k \in Keys |-> <<<<k[1], k[2]>>, k[3]>>]
<1>1. IsFiniteSet(Parties \X Characters)
  BY RelayAssumption, FS_Product DEF RelayAssumption
<1>2. IsFiniteSet(T)
  BY <1>1, RelayAssumption, FS_Product DEF RelayAssumption
<1>3. f \in Injection(Keys, T)
  <2>1. \A k \in Keys : /\ k = <<k[1], k[2], k[3]>> /\ k[1] \in Parties
                        /\ k[2] \in Characters /\ k[3] \in Characters
    BY DEF Keys
  <2>2. f \in [Keys -> T]
    BY <2>1
  <2>3. ASSUME NEW j \in Keys, NEW k \in Keys, f[j] = f[k] PROVE j = k
    <3>1. j[1] = k[1] /\ j[2] = k[2] /\ j[3] = k[3]
      BY <2>3
    <3> QED BY <2>1, <3>1, Zenon
  <2> HIDE DEF f
  <2> QED BY <2>2, <2>3 DEF Injection, IsInjective
<1> QED BY <1>2, <1>3, FS_Injection

\* The order of a party's keys is one.
LEMMA KeyOrderIs ==
    ASSUME NEW p \in Parties
    PROVE  /\ KeyOrder[p] \in [KeysOf(p) -> 1 .. Cardinality(KeysOf(p))]
           /\ \A j, k \in KeysOf(p) : j # k => KeyOrder[p][j] # KeyOrder[p][k]
           /\ Cardinality(KeysOf(p)) \in Nat
<1> DEFINE K == KeysOf(p)
           N == Cardinality(K)
<1>1. IsFiniteSet(K)
  <2>1. K \in SUBSET Keys
    BY DEF KeysOf
  <2> HIDE DEF K
  <2> QED BY <2>1, KeysFinite, FS_Subset
<1>2. KeyOrder[p] = CHOOSE f \in [K -> 1 .. N] : \A j, k \in K : j # k => f[j] # f[k]
  BY DEF KeyOrder
<1> HIDE DEF K
<1>3. N \in Nat /\ ExistsBijection(1 .. N, K)
  BY <1>1, FS_CardinalityType
<1> HIDE DEF N
<1>4. ExistsBijection(K, 1 .. N)
  BY <1>3, Fun_ExistsBijSymmetric
<1>5. PICK f \in [K -> 1 .. N] : \A j, k \in K : j # k => f[j] # f[k]
  BY <1>4, Zenon DEF ExistsBijection, Bijection, Injection, IsInjective
<1>6. /\ KeyOrder[p] \in [K -> 1 .. N]
      /\ \A j, k \in K : j # k => KeyOrder[p][j] # KeyOrder[p][k]
  BY <1>2, <1>5
<1> QED BY <1>3, <1>6 DEF K, N

\* KeyAt and PortAt of NewLegs, as functions.
KeysAt(p, keys) ==
    [n \in 1 .. Cardinality(keys) |-> CHOOSE k \in keys : RankIn(keys, k, KeyOrder[p]) = n]

PortsAt(B, n) ==
    [m \in 1 .. n |->
       CHOOSE x \in Lowest(B, n) : Cardinality({y \in Lowest(B, n) : y <= x}) = m]

\* Each place is taken by one key and each key has a place.
LEMMA KeyPlaces ==
    ASSUME NEW p \in Parties, NEW keys \in SUBSET KeysOf(p), NEW at, at = KeysAt(p, keys)
    PROVE  /\ IsFiniteSet(keys) /\ Cardinality(keys) \in Nat
           /\ \A n \in 1 .. Cardinality(keys) : at[n] \in keys
           /\ \A m, n \in 1 .. Cardinality(keys) : at[m] = at[n] => m = n
           /\ \A k \in keys : \E n \in 1 .. Cardinality(keys) : at[n] = k
<1> DEFINE order == KeyOrder[p]
<1> DEFINE below == [x \in keys |-> Cardinality({y \in keys : order[y] < order[x]})]
           N == Cardinality(keys)
<1>1. IsFiniteSet(keys) /\ N \in Nat
  <2>1. keys \in SUBSET Keys
    BY DEF KeysOf
  <2> QED BY <2>1, KeysFinite, FS_Subset, FS_CardinalityType
<1>2. /\ \A x \in keys : order[x] \in Int
      /\ \A x, y \in keys : order[x] = order[y] => x = y
  BY KeyOrderIs
<1> HIDE DEF order
<1>3. /\ \A x \in keys : below[x] \in Nat /\ below[x] < N
      /\ \A x, y \in keys : below[x] = below[y] => x = y
      /\ \A n \in Nat : n < N => \E x \in keys : below[x] = n
  <2> DEFINE lower == [x \in keys |-> {y \in keys : order[y] < order[x]}]
  <2>1. below = [x \in keys |-> Cardinality(lower[x])]
    OBVIOUS
  <2>2. \A x \in keys : lower[x] \in SUBSET keys /\ x \notin lower[x]
    BY <1>2
  <2>3. \A x, y \in keys : x = y \/ lower[x] \cup {x} \in SUBSET lower[y]
                                 \/ lower[y] \cup {y} \in SUBSET lower[x]
    <3> SUFFICES ASSUME NEW x \in keys, NEW y \in keys, order[x] < order[y]
                 PROVE  lower[x] \cup {x} \in SUBSET lower[y]
      BY <1>2
    <3> QED BY <1>2
  <2> HIDE DEF lower, below
  <2> QED BY <1>1, <2>1, <2>2, <2>3, ChainRanks
<1>4. \A x \in keys : RankIn(keys, x, order) = below[x] + 1
  BY DEF RankIn
<1> HIDE DEF below
<1>5. ASSUME NEW n \in 1 .. N PROVE at[n] \in keys /\ below[at[n]] + 1 = n
  <2>1. n - 1 \in Nat /\ n - 1 < N
    BY <1>1
  <2>2. PICK x \in keys : below[x] = n - 1
    BY <1>3, <2>1
  <2>3. RankIn(keys, x, order) = n
    BY <1>3, <1>4, <2>2
  <2>4. at[n] = CHOOSE k \in keys : RankIn(keys, k, order) = n
    BY <1>5 DEF KeysAt, order
  <2>5. at[n] \in keys /\ RankIn(keys, at[n], order) = n
    BY <2>3, <2>4
  <2> QED BY <1>4, <2>5
<1>6. ASSUME NEW k \in keys PROVE \E n \in 1 .. N : at[n] = k
  <2>1. below[k] \in Nat /\ below[k] + 1 \in 1 .. N
    BY <1>1, <1>3
  <2>2. at[below[k] + 1] \in keys /\ below[at[below[k] + 1]] = below[k]
    <3>1. at[below[k] + 1] \in keys /\ below[at[below[k] + 1]] + 1 = below[k] + 1
      BY <1>5, <2>1
    <3> QED BY <1>3, <3>1
  <2> QED BY <1>3, <2>1, <2>2
<1> QED BY <1>1, <1>5, <1>6

\* Counting the smaller ones numbers a finite set of naturals from zero.
LEMMA NatRanks ==
    ASSUME NEW S, \A x \in S : x \in Nat, IsFiniteSet(S), NEW lower,
           \A x \in S : lower[x] = {y \in S : y < x},
           NEW rank, rank = [x \in S |-> Cardinality(lower[x])]
    PROVE  /\ Cardinality(S) \in Nat
           /\ \A x \in S : rank[x] \in Nat /\ rank[x] < Cardinality(S)
           /\ \A x, y \in S : rank[x] = rank[y] => x = y
           /\ \A n \in Nat : n < Cardinality(S) => \E x \in S : rank[x] = n
<1>1. \A x \in S : lower[x] \in SUBSET S /\ x \notin lower[x]
  OBVIOUS
<1>2. \A x, y \in S : x = y \/ lower[x] \cup {x} \in SUBSET lower[y]
                            \/ lower[y] \cup {y} \in SUBSET lower[x]
  <2>1. ASSUME NEW x \in S, NEW y \in S, x < y
        PROVE  lower[x] \cup {x} \in SUBSET lower[y]
    BY <2>1
  <2> QED BY <2>1
<1> QED BY <1>1, <1>2, ChainRanks

\* The lowest n numbers of a set are n numbers of the set.
LEMMA LowestCount ==
    ASSUME NEW B, \A x \in B : x \in Nat, IsFiniteSet(B), NEW n \in Nat, n <= Cardinality(B)
    PROVE  /\ Lowest(B, n) \in SUBSET B
           /\ IsFiniteSet(Lowest(B, n)) /\ Cardinality(Lowest(B, n)) = n
<1> DEFINE below == [x \in B |-> Cardinality({y \in B : y < x})]
           S == Lowest(B, n)
           f == [x \in S |-> below[x]]
<1>1. /\ Cardinality(B) \in Nat
      /\ \A x \in B : below[x] \in Nat /\ below[x] < Cardinality(B)
      /\ \A x, y \in B : below[x] = below[y] => x = y
      /\ \A m \in Nat : m < Cardinality(B) => \E x \in B : below[x] = m
  <2> DEFINE lower == [x \in B |-> {y \in B : y < x}]
  <2>1. below = [x \in B |-> Cardinality(lower[x])]
    OBVIOUS
  <2>2. \A x \in B : lower[x] = {y \in B : y < x}
    OBVIOUS
  <2>3. \A x \in B : x \in Nat
    OBVIOUS
  <2> HIDE DEF below, lower, S, f
  <2> QED BY <2>1, <2>2, <2>3, NatRanks
<1>2. \A x \in B : below[x] = Cardinality({y \in B : y < x})
  OBVIOUS
<1> HIDE DEF below
<1>3. S = {x \in B : below[x] < n}
  BY <1>2 DEF Lowest
<1>4. S \in SUBSET B /\ IsFiniteSet(S)
  <2>1. S \in SUBSET B
    BY <1>3
  <2> HIDE DEF S
  <2> QED BY <2>1, FS_Subset
<1> HIDE DEF S
<1>5. \A x \in S : f[x] \in 0 .. n - 1
  BY <1>1, <1>3
<1>6. \A x, y \in S : f[x] = f[y] => x = y
  BY <1>1, <1>3
<1>7. \A m \in 0 .. n - 1 : \E x \in S : f[x] = m
  <2> SUFFICES ASSUME NEW m \in 0 .. n - 1 PROVE \E x \in S : f[x] = m
    OBVIOUS
  <2>1. m \in Nat /\ m < Cardinality(B) /\ m < n
    BY <1>1
  <2>2. PICK x \in B : below[x] = m
    BY <1>1, <2>1
  <2>3. x \in S /\ f[x] = m
    BY <1>3, <2>1, <2>2
  <2> QED BY <2>3
<1>8. f \in Bijection(S, 0 .. n - 1)
  <2>0. f = [x \in S |-> f[x]]
    OBVIOUS
  <2> HIDE DEF f
  <2> QED BY <1>5, <1>6, <1>7, <2>0 DEF Bijection, Injection, Surjection, IsInjective
<1>9. Cardinality(S) = Cardinality(0 .. n - 1)
  <2>1. ExistsBijection(S, 0 .. n - 1)
    BY <1>8 DEF ExistsBijection
  <2> QED BY <1>4, <2>1, FS_Bijection
<1>10. Cardinality(0 .. n - 1) = n
  BY FS_Interval
<1> QED BY <1>4, <1>9, <1>10 DEF S

\* Each place gets a number of the set, and no number goes to two places.
LEMMA PortPlaces ==
    ASSUME NEW B, \A x \in B : x \in Nat, IsFiniteSet(B), NEW n \in Nat, n <= Cardinality(B),
           NEW at, at = PortsAt(B, n)
    PROVE  /\ \A m \in 1 .. n : at[m] \in B
           /\ \A l, m \in 1 .. n : at[l] = at[m] => l = m
<1> DEFINE S == Lowest(B, n)
           below == [x \in S |-> Cardinality({y \in S : y < x})]
           UpTo(x) == Cardinality({y \in S : y <= x})
<1>1. S \in SUBSET B /\ IsFiniteSet(S) /\ Cardinality(S) = n
  BY LowestCount
<1>2. at = [m \in 1 .. n |-> CHOOSE x \in S : UpTo(x) = m]
  BY DEF PortsAt
<1> HIDE DEF S
<1>3. /\ \A x \in S : below[x] \in Nat /\ below[x] < Cardinality(S)
      /\ \A x, y \in S : below[x] = below[y] => x = y
      /\ \A m \in Nat : m < Cardinality(S) => \E x \in S : below[x] = m
  <2> DEFINE lower == [x \in S |-> {y \in S : y < x}]
  <2>1. below = [x \in S |-> Cardinality(lower[x])]
    OBVIOUS
  <2>2. \A x \in S : lower[x] = {y \in S : y < x}
    OBVIOUS
  <2>3. \A x \in S : x \in Nat
    BY <1>1
  <2> HIDE DEF below, lower, UpTo
  <2> QED BY <1>1, <2>1, <2>2, <2>3, NatRanks
<1>4. ASSUME NEW x \in S PROVE UpTo(x) = below[x] + 1
  <2> DEFINE L == {y \in S : y < x}
  <2>1. below[x] = Cardinality(L)
    OBVIOUS
  <2>2. \A y \in S : y <= x <=> y < x \/ y = x
    BY <1>1
  <2>3. {y \in S : y <= x} = L \cup {x} /\ x \notin L /\ L \in SUBSET S
    <3>1. ~ (x < x)
      BY <1>1
    <3> QED BY <2>2, <3>1, Zenon
  <2> HIDE DEF L
  <2>4. IsFiniteSet(L)
    BY <1>1, <2>3, FS_Subset
  <2>5. Cardinality(L \cup {x}) = Cardinality(L) + 1
    BY <2>3, <2>4, FS_AddElement
  <2> QED BY <2>1, <2>3, <2>5
<1> HIDE DEF below, UpTo
<1>5. ASSUME NEW m \in 1 .. n PROVE at[m] \in S /\ UpTo(at[m]) = m
  <2>1. m - 1 \in Nat /\ m - 1 < Cardinality(S)
    BY <1>1
  <2>2. PICK x \in S : below[x] = m - 1
    BY <1>3, <2>1
  <2>3. UpTo(x) = m
    BY <1>4, <2>2
  <2>4. at[m] = CHOOSE y \in S : UpTo(y) = m
    BY <1>2
  <2> QED BY <2>3, <2>4
<1> QED BY <1>1, <1>5

\* Legs for all of keys, in one to one correspondence, on different free ports.
LegsFit(p, bindings, keys, legs, N) ==
    /\ legs \in [1 .. N -> Legs]
    /\ \A n \in 1 .. N :
         /\ legs[n].key \in keys /\ legs[n].port \in Bindable /\ legs[n].open
         /\ legs[n].binding = WantedOf(p, bindings, legs[n].key)
         /\ legs[n].learned = NoEndpoint
    /\ \A m, n \in 1 .. N :
         legs[m].port = legs[n].port \/ legs[m].key = legs[n].key => m = n
    /\ \A k \in keys : \E n \in 1 .. N : legs[n].key = k

\* The new legs are as many as the missing pairs, one for each, with sockets
\* on different ports that were free.
LEMMA LegsOpened ==
    ASSUME used \subseteq Ports, NEW p \in Parties, NEW bindings \in SUBSET Bindings,
           NEW keys \in SUBSET Wanted(p, bindings),
           Cardinality(keys) <= Cardinality(Bindable),
           NEW legs, legs = NewLegs(p, bindings, keys)
    PROVE  /\ Cardinality(keys) \in Nat
           /\ LegsFit(p, bindings, keys, legs, Cardinality(keys))
<1> DEFINE N == Cardinality(keys)
           keyAt == KeysAt(p, keys)
           portAt == PortsAt(Bindable, N)
<1>1. legs = [n \in 1 .. N |->
                [key |-> keyAt[n], binding |-> WantedOf(p, bindings, keyAt[n]),
                 port |-> portAt[n], open |-> TRUE, learned |-> NoEndpoint]]
  BY DEF NewLegs, KeysAt, PortsAt
<1>2. keys \in SUBSET Keys /\ keys \in SUBSET KeysOf(p)
  BY DEF Wanted, KeysOf
<1>3. /\ N \in Nat
      /\ \A n \in 1 .. N : keyAt[n] \in keys
      /\ \A m, n \in 1 .. N : keyAt[m] = keyAt[n] => m = n
      /\ \A k \in keys : \E n \in 1 .. N : keyAt[n] = k
  <2>1. keyAt = KeysAt(p, keys)
    OBVIOUS
  <2> HIDE DEF keyAt, portAt
  <2> QED BY <1>2, <2>1, KeyPlaces
<1>4. /\ \A n \in 1 .. N : portAt[n] \in Bindable
      /\ \A m, n \in 1 .. N : portAt[m] = portAt[n] => m = n
  <2> DEFINE B == Bindable
  <2>1. IsFiniteSet(Ports) /\ B \in SUBSET Ports /\ \A x \in B : x \in Nat
    BY RelayAssumption DEF RelayAssumption, Bindable
  <2>2. N <= Cardinality(B)
    OBVIOUS
  <2>3. portAt = PortsAt(B, N)
    OBVIOUS
  <2> HIDE DEF B, N, portAt
  <2>4. IsFiniteSet(B)
    BY <2>1, FS_Subset
  <2>5. /\ \A n \in 1 .. N : portAt[n] \in B
        /\ \A m, n \in 1 .. N : portAt[m] = portAt[n] => m = n
    BY <1>3, <2>1, <2>2, <2>3, <2>4, PortPlaces
  <2> QED BY <2>5 DEF B
<1> HIDE DEF keyAt, portAt, N
<1>5. ASSUME NEW n \in 1 .. N
      PROVE  /\ legs[n].key = keyAt[n] /\ legs[n].port = portAt[n] /\ legs[n].open
             /\ legs[n].binding = WantedOf(p, bindings, keyAt[n])
             /\ legs[n].learned = NoEndpoint
  BY <1>1
<1>6. ASSUME NEW n \in 1 .. N PROVE legs[n] \in Legs
  <2>1. keyAt[n] \in Keys /\ portAt[n] \in Ports
    BY <1>2, <1>3, <1>4 DEF Bindable
  <2>2. \E b \in bindings : b.character = keyAt[n][2]
    BY <1>3 DEF Wanted
  <2>3. WantedOf(p, bindings, keyAt[n]) \in Bindings
    BY <2>2 DEF WantedOf
  <2> QED BY <1>1, <2>1, <2>3 DEF Legs
<1>7. legs \in [1 .. N -> Legs]
  BY <1>1, <1>6
<1>8. \A n \in 1 .. N :
        /\ legs[n].key \in keys /\ legs[n].port \in Bindable /\ legs[n].open
        /\ legs[n].binding = WantedOf(p, bindings, legs[n].key)
        /\ legs[n].learned = NoEndpoint
  BY <1>3, <1>4, <1>5
<1>9. \A m, n \in 1 .. N :
        legs[m].port = legs[n].port \/ legs[m].key = legs[n].key => m = n
  BY <1>3, <1>4, <1>5
<1>10. \A k \in keys : \E n \in 1 .. N : legs[n].key = k
  BY <1>3, <1>5
<1>11. LegsFit(p, bindings, keys, legs, N)
  BY <1>7, <1>8, <1>9, <1>10 DEF LegsFit
<1> QED BY <1>3, <1>11 DEF N

-----------------------------------------------------------------------------
(* The records a goroutine keeps. *)

\* The fields of each state of a handler.
LEMMA HandForms ==
    ASSUME NEW s \in HandStates
    PROVE  /\ s.at \in {"idle", "read", "retire", "hold", "bound", "finish"}
           /\ s.at = "idle" => s = Idle
           /\ s.at \in {"read", "retire", "hold", "bound"} => s.party \in Parties
           /\ s.at = "hold" => s.members \in SUBSET Characters
           /\ s.at = "bound" => s.bindings \in SUBSET Bindings
           /\ s.at = "finish" => s.toClose \in SUBSET Nat /\ s.toStart \in SUBSET Nat
<1>1. CASE s = Idle
  BY <1>1 DEF Idle
<1>2. CASE s \in [at : {"read", "retire"}, party : Parties]
  BY <1>2
<1>3. CASE s \in [at : {"hold"}, party : Parties, members : SUBSET Characters]
  BY <1>3
<1>4. CASE s \in [at : {"bound"}, party : Parties, bindings : SUBSET Bindings]
  BY <1>4
<1>5. CASE s \in [at : {"finish"}, toClose : SUBSET Nat, toStart : SUBSET Nat]
  BY <1>5
<1> QED BY <1>1, <1>2, <1>3, <1>4, <1>5 DEF HandStates

\* The constructors make such states.
LEMMA HandsMade ==
    /\ Idle \in HandStates
    /\ \A p \in Parties : Reading(p) \in HandStates /\ Retiring(p) \in HandStates
    /\ \A p \in Parties, m \in SUBSET Characters : Holding(p, m) \in HandStates
    /\ \A p \in Parties, b \in SUBSET Bindings : Bound(p, b) \in HandStates
    /\ \A c, s \in SUBSET Nat : Finishing(c, s) \in HandStates
BY DEF HandStates, Idle, Reading, Retiring, Holding, Bound, Finishing

\* What a handler has still to do after Finishing.
LEMMA FinishingIs ==
    ASSUME NEW c, NEW s
    PROVE  /\ Finishing(c, s).at = "finish" <=> c # {} \/ s # {}
           /\ Finishing(c, s).at = "finish" =>
                Finishing(c, s).toClose = c /\ Finishing(c, s).toStart = s
           /\ Finishing(c, s).at \in {"idle", "finish"}
BY DEF Finishing, Idle

\* The fields of each state of a read loop.
LEMMA LoopForms ==
    ASSUME NEW s \in LoopStates
    PROVE  /\ s.at \in {"found", "ready"} => s.leg \in Nat
           /\ s.at \in {"unborn", "receive", "ended", "got", "found", "ready"}
<1>1. CASE s \in {Unborn, Receiving, Ended, [at |-> "got"]}
  BY <1>1 DEF Unborn, Receiving, Ended
<1>2. CASE s \in [at : {"found"}, leg : Nat]
  BY <1>2
<1>3. CASE s \in [at : {"ready"}, leg : Nat, to : Endpoints \cup {NoEndpoint}]
  BY <1>3
<1> QED BY <1>1, <1>2, <1>3 DEF LoopStates

\* The states of the goroutine of Close.
LEMMA CloserForms ==
    ASSUME NEW s \in CloserStates
    PROVE  s.at = "closing" => s.toClose \in SUBSET Nat /\ s = [at |-> "closing", toClose |-> s.toClose]
BY DEF CloserStates, Idle

\* The least of some naturals is one of them.
LEMMA MinIn ==
    ASSUME NEW S \in SUBSET Nat, S # {}
    PROVE  Min(S) \in S
<1>1. PICK n \in S : \A m \in S : n <= m
  BY NatMin
<1> QED BY <1>1 DEF Min

\* Sequences of some elements, one after the other.
LEMMA Joined ==
    ASSUME NEW S, NEW s \in Seq(S), NEW t \in Seq(S)
    PROVE  s \o t \in Seq(S) /\ Len(s \o t) = Len(s) + Len(t)
OBVIOUS

-----------------------------------------------------------------------------
(* What the locked part of Sync does to the table. *)

\* The pairs Sync opens a socket for.
Fresh(p, bindings) == Wanted(p, bindings) \ Kept(p, bindings)

\* The old sockets stay as they are.
SyncKeepsOld(N) ==
    /\ made' \in Seq(Legs) /\ loop' \in Seq(LoopStates)
    /\ Len(made') = Len(made) + N /\ Len(loop') = Len(made) + N
    /\ \A i \in 1 .. Len(made) : made'[i] = made[i] /\ loop'[i] = loop[i]

\* The new ones are open, one for each missing pair, on free ports.
SyncOpensNew(p, bindings, F, N) ==
    /\ \A i \in Len(made) + 1 .. Len(made) + N :
         /\ made'[i].key \in F /\ made'[i].open /\ loop'[i] = Unborn
         /\ table'[made'[i].key] = i
         /\ made'[i].binding = WantedOf(p, bindings, made'[i].key)
         /\ made'[i].learned = NoEndpoint
         /\ made'[i].port \in Ports \ used
         /\ \A j \in Ids : made[j].port = made'[i].port => ~ made[j].open
    /\ \A i, j \in Len(made) + 1 .. Len(made) + N : made'[i].port = made'[j].port => i = j
    /\ \A k \in F : /\ table'[k] \in Len(made) + 1 .. Len(made) + N
                    /\ made'[table'[k]].key = k

\* The table and the ports in use, pair by pair and port by port.
SyncEntries(p, bindings, F, N) ==
    /\ table' \in [Keys -> 0 .. Len(made) + N]
    /\ \A k \in Keys \ F :
         table'[k] = IF k[1] = p /\ k \notin Kept(p, bindings) THEN 0 ELSE table[k]
    /\ used' \subseteq Ports
    /\ \A n \in Ports : n \in used' <=>
         \/ n \in used /\ ~ \E i \in Replaced(p, bindings) : made[i].port = n
         \/ \E i \in Len(made) + 1 .. Len(made) + N : made'[i].port = n

\* What SyncLocked amounts to when the ports suffice.
LEMMA SyncEffect ==
    ASSUME TypeOK, LoopsOK, NEW p \in Parties, NEW bindings \in SUBSET Bindings,
           SyncLocked(p, bindings), NEW F, F = Fresh(p, bindings),
           Cardinality(F) <= Cardinality(Bindable), NEW N, N = Cardinality(F)
    PROVE  /\ N \in Nat /\ F \in SUBSET Keys /\ \A k \in F : k[1] = p
           /\ SyncKeepsOld(N)
           /\ SyncOpensNew(p, bindings, F, N)
           /\ SyncEntries(p, bindings, F, N)
<1>1. PICK legs : legs = NewLegs(p, bindings, F)
  OBVIOUS
<1>2. F \in SUBSET Wanted(p, bindings) /\ F \in SUBSET Keys /\ \A k \in F : k[1] = p
  BY DEF Fresh, Wanted
<1>3. used \subseteq Ports /\ made \in Seq(Legs) /\ Len(made) \in Nat
  BY DEF TypeOK
<1>4. /\ N \in Nat
      /\ legs \in [1 .. N -> Legs]
      /\ \A n \in 1 .. N :
           /\ legs[n].key \in F /\ legs[n].port \in Bindable /\ legs[n].open
           /\ legs[n].binding = WantedOf(p, bindings, legs[n].key)
           /\ legs[n].learned = NoEndpoint
      /\ \A m, n \in 1 .. N :
           legs[m].port = legs[n].port \/ legs[m].key = legs[n].key => m = n
      /\ \A k \in F : \E n \in 1 .. N : legs[n].key = k
  <2>1. Cardinality(F) \in Nat /\ LegsFit(p, bindings, F, legs, Cardinality(F))
    BY <1>1, <1>2, <1>3, LegsOpened
  <2> QED BY <2>1 DEF LegsFit
<1>5. /\ made' = made \o legs
      /\ loop' = loop \o [n \in DOMAIN legs |-> Unborn]
      /\ table' = [k \in Keys |->
             IF k \in F
             THEN Len(made) + CHOOSE n \in DOMAIN legs : legs[n].key = k
             ELSE IF k[1] = p /\ k \notin Kept(p, bindings) THEN 0 ELSE table[k]]
      /\ used' = (used \ {made[i].port : i \in Replaced(p, bindings)})
                     \cup {legs[n].port : n \in DOMAIN legs}
  BY <1>1 DEF SyncLocked, Fresh
<1>6. /\ legs \in Seq(Legs) /\ Len(legs) = N /\ DOMAIN legs = 1 .. N
  BY <1>4
<1>7. SyncKeepsOld(N)
  <2>1. made' \in Seq(Legs) /\ Len(made') = Len(made) + N
    BY <1>3, <1>5, <1>6
  <2>2. \A i \in 1 .. Len(made) : made'[i] = made[i]
    BY <1>3, <1>5, <1>6
  <2> DEFINE us == [n \in 1 .. N |-> Unborn]
  <2>3. us \in Seq(LoopStates) /\ Len(us) = N
    <3>1. Unborn \in LoopStates
      BY DEF LoopStates
    <3> QED BY <1>4, <3>1
  <2>4. loop \in Seq(LoopStates) /\ Len(loop) = Len(made) /\ loop' = loop \o us
    BY <1>5, <1>6 DEF LoopsOK
  <2> HIDE DEF us
  <2>5. loop' \in Seq(LoopStates) /\ Len(loop') = Len(made) + N
    <3>1. loop \o us \in Seq(LoopStates)
      BY <2>3, <2>4, Joined
    <3>2. Len(loop \o us) = Len(loop) + Len(us)
      BY <2>3, <2>4, Joined
    <3> QED BY <2>3, <2>4, <3>1, <3>2
  <2>6. \A i \in 1 .. Len(made) : loop'[i] = loop[i]
    BY <1>3, <2>3, <2>4
  <2> QED BY <2>1, <2>2, <2>5, <2>6 DEF SyncKeepsOld
<1>8. ASSUME NEW i \in Len(made) + 1 .. Len(made) + N
      PROVE  /\ i - Len(made) \in 1 .. N /\ made'[i] = legs[i - Len(made)]
             /\ loop'[i] = Unborn
  <2>1. i - Len(made) \in 1 .. N
    BY <1>3, <1>4
  <2>2. made'[i] = legs[i - Len(made)]
    BY <1>3, <1>5, <1>6, <2>1
  <2> DEFINE us == [n \in 1 .. N |-> Unborn]
  <2>3. us \in Seq({Unborn}) /\ Len(us) = N /\ us[i - Len(made)] = Unborn
    BY <1>4, <2>1
  <2>4. loop \in Seq(LoopStates) /\ Len(loop) = Len(made) /\ loop' = loop \o us
    BY <1>5, <1>6 DEF LoopsOK
  <2> HIDE DEF us
  <2>5. loop'[i] = us[i - Len(loop)]
    BY <1>3, <1>4, <2>1, <2>3, <2>4
  <2> QED BY <2>1, <2>2, <2>3, <2>4, <2>5
<1>9. ASSUME NEW k \in F
      PROVE  \E n \in 1 .. N : table'[k] = Len(made) + n /\ legs[n].key = k
  <2>1. \E n \in DOMAIN legs : legs[n].key = k
    BY <1>4, <1>6
  <2>2. table'[k] = Len(made) + CHOOSE n \in DOMAIN legs : legs[n].key = k
    BY <1>2, <1>5
  <2> QED BY <1>6, <2>1, <2>2
<1>10. ASSUME NEW i \in Len(made) + 1 .. Len(made) + N PROVE table'[made'[i].key] = i
  <2>1. i - Len(made) \in 1 .. N /\ made'[i] = legs[i - Len(made)]
    BY <1>8
  <2>2. PICK m \in 1 .. N : m = i - Len(made) /\ made'[i] = legs[m]
    BY <2>1
  <2>3. legs[m].key \in F
    BY <1>4
  <2>4. PICK n \in 1 .. N : table'[legs[m].key] = Len(made) + n /\ legs[n].key = legs[m].key
    BY <1>9, <2>3
  <2>5. n = m
    BY <1>4, <2>4
  <2> QED BY <1>3, <2>2, <2>4, <2>5
<1>11. SyncOpensNew(p, bindings, F, N)
  <2>1. ASSUME NEW i \in Len(made) + 1 .. Len(made) + N
        PROVE  /\ made'[i].key \in F /\ made'[i].open /\ loop'[i] = Unborn
               /\ table'[made'[i].key] = i
               /\ made'[i].binding = WantedOf(p, bindings, made'[i].key)
               /\ made'[i].learned = NoEndpoint
               /\ made'[i].port \in Ports \ used
               /\ \A j \in Ids : made[j].port = made'[i].port => ~ made[j].open
    <3>1. i - Len(made) \in 1 .. N /\ made'[i] = legs[i - Len(made)] /\ loop'[i] = Unborn
      BY <1>8
    <3>2. made'[i].port \in Bindable
      BY <1>4, <3>1
    <3> QED BY <1>4, <1>10, <3>1, <3>2 DEF Bindable
  <2>2. ASSUME NEW i \in Len(made) + 1 .. Len(made) + N,
               NEW j \in Len(made) + 1 .. Len(made) + N,
               made'[i].port = made'[j].port
        PROVE  i = j
    <3>1. i - Len(made) = j - Len(made)
      BY <1>4, <1>8, <2>2
    <3> QED BY <1>3, <1>4, <3>1
  <2>3. ASSUME NEW k \in F
        PROVE  /\ table'[k] \in Len(made) + 1 .. Len(made) + N
               /\ made'[table'[k]].key = k
    <3>1. PICK n \in 1 .. N : table'[k] = Len(made) + n /\ legs[n].key = k
      BY <1>9
    <3>2. table'[k] \in Len(made) + 1 .. Len(made) + N /\ table'[k] - Len(made) = n
      BY <1>3, <1>4, <3>1
    <3> QED BY <1>8, <3>1, <3>2
  <2> QED BY <2>1, <2>2, <2>3 DEF SyncOpensNew
<1>12. SyncEntries(p, bindings, F, N)
  <2>1. ASSUME NEW k \in Keys, k \notin F
        PROVE  table'[k] = IF k[1] = p /\ k \notin Kept(p, bindings) THEN 0 ELSE table[k]
    BY <1>5, <2>1
  <2>2. table' = [k \in Keys |-> table'[k]]
    BY <1>5
  <2>3. ASSUME NEW k \in Keys PROVE table'[k] \in 0 .. Len(made) + N
    <3>1. CASE k \in F
      <4>1. table'[k] \in Len(made) + 1 .. Len(made) + N
        BY <1>11, <3>1 DEF SyncOpensNew
      <4> QED BY <1>3, <1>4, <4>1
    <3>2. CASE k \notin F
      <4>1. table[k] \in 0 .. Len(made)
        BY DEF TypeOK
      <4> QED BY <1>3, <1>4, <2>1, <3>2, <4>1
    <3> QED BY <3>1, <3>2
  <2>4. \A n \in 1 .. N : legs[n].port \in Ports
    BY <1>4 DEF Bindable
  <2>5. used' \subseteq Ports
    BY <1>3, <1>5, <1>6, <2>4
  <2>6. ASSUME NEW n \in Ports
        PROVE  n \in used' <=>
                 \/ n \in used /\ ~ \E i \in Replaced(p, bindings) : made[i].port = n
                 \/ \E i \in Len(made) + 1 .. Len(made) + N : made'[i].port = n
    <3>1. (\E m \in 1 .. N : legs[m].port = n)
            <=> \E i \in Len(made) + 1 .. Len(made) + N : made'[i].port = n
      <4>1. ASSUME NEW m \in 1 .. N, legs[m].port = n
            PROVE  \E i \in Len(made) + 1 .. Len(made) + N : made'[i].port = n
        <5>1. Len(made) + m \in Len(made) + 1 .. Len(made) + N /\ (Len(made) + m) - Len(made) = m
          BY <1>3, <1>4
        <5> QED BY <1>8, <4>1, <5>1
      <4>2. ASSUME NEW i \in Len(made) + 1 .. Len(made) + N, made'[i].port = n
            PROVE  \E m \in 1 .. N : legs[m].port = n
        BY <1>8, <4>2
      <4> QED BY <4>1, <4>2
    <3>2. n \in used' <=> \/ n \in used /\ ~ \E i \in Replaced(p, bindings) : made[i].port = n
                          \/ \E m \in 1 .. N : legs[m].port = n
      <4>1. n \in used' <=> \/ n \in used /\ n \notin {made[i].port : i \in Replaced(p, bindings)}
                            \/ n \in {legs[m].port : m \in 1 .. N}
        BY <1>5, <1>6
      <4> HIDE <1>5
      <4> QED BY <4>1, Zenon
    <3> QED BY <3>1, <3>2, Zenon
  <2> QED BY <2>1, <2>2, <2>3, <2>5, <2>6 DEF SyncEntries
<1> QED BY <1>2, <1>4, <1>7, <1>11, <1>12

-----------------------------------------------------------------------------
(* Steps that leave every socket with the one who answers for it. *)

\* Only the record of handler h changes.
LEMMA HandMoves ==
    ASSUME HandsOK, Len(made) \in Nat, Len(made') \in Nat, Len(made) <= Len(made'),
           NEW h \in Handlers, NEW s \in HandStates, hand' = [hand EXCEPT ![h] = s],
           s.at = "finish" => /\ s.toClose \subseteq 1 .. Len(made')
                              /\ s.toStart \subseteq 1 .. Len(made')
                              /\ s.toClose # {} \/ s.toStart # {}
    PROVE  HandsOK' /\ DOMAIN hand' = Handlers
<1>1. hand \in [Handlers -> HandStates]
  BY DEF HandsOK
<1>2. hand' \in [Handlers -> HandStates] /\ DOMAIN hand' = Handlers
  BY <1>1
<1>3. hand'[h] = s /\ \A g \in Handlers \ {h} : hand'[g] = hand[g]
  BY <1>1
<1>4. ASSUME NEW g \in Handlers, hand'[g].at = "finish"
      PROVE  /\ hand'[g].toClose \subseteq Ids' /\ hand'[g].toStart \subseteq Ids'
             /\ hand'[g].toClose # {} \/ hand'[g].toStart # {}
  <2>1. CASE g = h
    BY <1>3, <1>4, <2>1 DEF Ids
  <2>2. CASE g # h
    <3>1. hand'[g] = hand[g]
      BY <1>3, <2>2
    <3>2. /\ hand[g].toClose \subseteq Ids /\ hand[g].toStart \subseteq Ids
          /\ hand[g].toClose # {} \/ hand[g].toStart # {}
      BY <1>4, <3>1 DEF HandsOK
    <3>3. Ids \subseteq Ids'
      BY DEF Ids
    <3> QED BY <3>1, <3>2, <3>3
  <2> QED BY <2>1, <2>2
<1> QED BY <1>2, <1>4 DEF HandsOK

\* Only the read loop of socket i changes.
LEMMA LoopMoves ==
    ASSUME LoopsOK, Len(made) \in Nat, Len(made') = Len(made), NEW i \in Ids,
           NEW s \in LoopStates, s.at \in {"found", "ready"} => s.leg \in Ids,
           loop' = [loop EXCEPT ![i] = s]
    PROVE  LoopsOK' /\ DOMAIN loop' = Ids'
<1>1. loop \in Seq(LoopStates) /\ Len(loop) = Len(made) /\ i \in 1 .. Len(loop) /\ Ids' = Ids
  BY DEF LoopsOK, Ids
<1>2. loop' \in Seq(LoopStates) /\ Len(loop') = Len(loop) /\ DOMAIN loop' = 1 .. Len(loop)
  BY <1>1
<1>3. loop'[i] = s /\ \A j \in Ids \ {i} : loop'[j] = loop[j]
  BY <1>1 DEF Ids
<1>4. ASSUME NEW j \in Ids, loop'[j].at \in {"found", "ready"} PROVE loop'[j].leg \in Ids
  BY <1>3, <1>4 DEF LoopsOK
<1> QED BY <1>1, <1>2, <1>4 DEF LoopsOK, Ids

\* Nothing changes for the loops.
LEMMA LoopsStay ==
    ASSUME LoopsOK, loop' = loop, Len(made') = Len(made)
    PROVE  LoopsOK'
BY DEF LoopsOK, Ids

\* Nothing changes for the handlers.
LEMMA HandsStay ==
    ASSUME HandsOK, hand' = hand, Len(made') = Len(made)
    PROVE  HandsOK'
BY DEF HandsOK, Ids

\* Nothing changes for Close.
LEMMA CloserStays ==
    ASSUME CloserOK, closer' = closer, Len(made) \in Nat, Len(made') \in Nat,
           Len(made) <= Len(made')
    PROVE  CloserOK'
<1>1. Ids \subseteq Ids'
  BY DEF Ids
<1> QED BY <1>1 DEF CloserOK

\* The sockets and who answers for them stay the same.
Steady ==
    /\ table' = table /\ used' = used /\ Len(made') = Len(made)
    /\ \A i \in Ids : /\ made'[i].key = made[i].key /\ made'[i].port = made[i].port
                      /\ made'[i].open = made[i].open
    /\ \A i \in Ids : CloserTakes(i)' <=> CloserTakes(i)
    /\ \A h \in Handlers, i \in Ids : Takes(h, i)' <=> Takes(h, i)

\* Then the invariant stays true.
LEMMA SteadyKeeps ==
    ASSUME SocketInv, Steady, RecordsOK', ClosedOK'
    PROVE  SocketInv'
<1>1. Ids' = Ids /\ table' = table /\ used' = used
  BY DEF Steady, Ids
<1>2. \A k \in Keys : table[k] # 0 => table[k] \in Ids
  BY DEF SocketInv, RecordsOK, TypeOK, Ids
<1>3. \A i \in Ids : /\ made'[i].key = made[i].key /\ made'[i].port = made[i].port
                     /\ made'[i].open = made[i].open
  BY DEF Steady
<1>4. /\ \A i \in Ids : CloserTakes(i)' <=> CloserTakes(i)
      /\ \A h \in Handlers, i \in Ids : Takes(h, i)' <=> Takes(h, i)
      /\ \A i \in Ids : Tabled(i)' <=> Tabled(i)
  BY <1>1 DEF Steady, Tabled
<1>5. TableOK'
  BY <1>1, <1>2, <1>3 DEF SocketInv, TableOK
<1>6. Exclusive'
  BY <1>1, <1>4 DEF SocketInv, Exclusive
<1>7. OpenOwned'
  BY <1>1, <1>3, <1>4 DEF SocketInv, OpenOwned
<1>8. PortsDistinct'
  BY <1>1, <1>3 DEF SocketInv, PortsDistinct
<1>9. PortsUsed'
  BY <1>1, <1>2, <1>3 DEF SocketInv, PortsUsed
<1> QED BY <1>5, <1>6, <1>7, <1>8, <1>9 DEF SocketInv

\* No handler begins or ends to hold sockets.
LEMMA HandQuiet ==
    ASSUME SocketInv, hand' \in [Handlers -> HandStates],
           \A g \in Handlers : \/ hand'[g] = hand[g]
                               \/ hand[g].at # "finish" /\ hand'[g].at # "finish",
           party' \in [Parties -> SUBSET Characters],
           gen' \in [Characters -> 1 .. MaxGen], adrift' \subseteq Parties,
           owed' \in [Handlers -> SUBSET Calls],
           UNCHANGED <<relayVars, closer>>
    PROVE  SocketInv'
<1>1. /\ TypeOK /\ HandsOK /\ CloserOK /\ LoopsOK /\ ClosedOK
      /\ made' = made /\ table' = table /\ used' = used /\ closed' = closed
      /\ loop' = loop /\ closer' = closer /\ Len(made) \in Nat
  BY DEF SocketInv, RecordsOK, relayVars, TypeOK
<1>2. HandsOK' /\ DOMAIN hand' = Handlers
  BY <1>1 DEF HandsOK, Ids
<1>3. LoopsOK' /\ CloserOK'
  BY <1>1, LoopsStay, CloserStays
<1>4. TypeOK'
  BY <1>1, <1>2 DEF TypeOK, Ids
<1>5. RecordsOK'
  BY <1>2, <1>3, <1>4 DEF RecordsOK
<1>6. ClosedOK'
  BY <1>1 DEF ClosedOK
<1>7. \A g \in Handlers, i \in Ids : Takes(g, i)' <=> Takes(g, i)
  BY DEF Takes
<1>8. \A i \in Ids : CloserTakes(i)' <=> CloserTakes(i)
  BY <1>1 DEF CloserTakes
<1>9. Steady
  BY <1>1, <1>7, <1>8 DEF Steady
<1> QED BY <1>5, <1>6, <1>9, SteadyKeeps

\* The steps before the relay is called, and a failing Sync.
Unheld(h) ==
    \/ \E new \in [Parties -> SUBSET Characters] : Change(h, new)
    \/ \E p \in Parties : Publish(h, p) \/ Misdirect(h, p)
    \/ Deliver(h) \/ GiveUp(h) \/ Snapshot(h) \/ ReadBindings(h) \/ Refuse(h) \/ SyncFails(h)

\* What such a step does besides its purpose.
Unholding(h) ==
    /\ hand' \in [Handlers -> HandStates] /\ owed' \in [Handlers -> SUBSET Calls]
    /\ \A g \in Handlers \ {h} : hand'[g] = hand[g] /\ owed'[g] = owed[g]
    /\ hand[h].at # "finish" /\ hand'[h].at # "finish"
    /\ party' \in [Parties -> SUBSET Characters] /\ gen' = gen
    /\ adrift' \subseteq Parties /\ UNCHANGED <<relayVars, closer>>

\* No such step touches the relay, or the record of another handler.
LEMMA UnheldSteps ==
    ASSUME SocketInv, NEW h \in Handlers, Unheld(h)
    PROVE  Unholding(h)
<1>1. /\ party \in [Parties -> SUBSET Characters] /\ gen \in [Characters -> 1 .. MaxGen]
      /\ adrift \subseteq Parties /\ hand \in [Handlers -> HandStates]
      /\ owed \in [Handlers -> SUBSET Calls] /\ hand[h] \in HandStates
      /\ Idle.at = "idle" /\ MaxGen \in Nat /\ Idle \in HandStates
  BY RelayAssumption, HandsMade
     DEF SocketInv, RecordsOK, TypeOK, HandsOK, Idle, RelayAssumption
<1>2. ASSUME NEW s, NEW o, s \in HandStates, s.at # "finish", o \in SUBSET Calls,
             hand' = [hand EXCEPT ![h] = s], owed' = [owed EXCEPT ![h] = o],
             hand[h].at # "finish", party' \in [Parties -> SUBSET Characters], gen' = gen,
             adrift' \subseteq Parties, UNCHANGED <<relayVars, closer>>
      PROVE  Unholding(h)
  <2>1. /\ hand' \in [Handlers -> HandStates] /\ owed' \in [Handlers -> SUBSET Calls]
        /\ \A g \in Handlers \ {h} : hand'[g] = hand[g] /\ owed'[g] = owed[g]
        /\ hand'[h] = s
    BY <1>1, <1>2
  <2> QED BY <1>2, <2>1 DEF Unholding
<1>3. hand = [hand EXCEPT ![h] = hand[h]] /\ owed = [owed EXCEPT ![h] = owed[h]]
      /\ owed[h] \in SUBSET Calls
  BY <1>1
<1>4. \A call \in Calls : call.party \in Parties
  BY DEF Calls
<1>5. ASSUME NEW new \in [Parties -> SUBSET Characters], Change(h, new)
      PROVE  Unholding(h)
  <2> DEFINE o == {CallFor(p, new[p]) : p \in {q \in Parties : new[q] # party[q]}}
  <2>1. /\ owed' = [owed EXCEPT ![h] = o] /\ hand' = hand /\ hand[h] = Idle
        /\ party' = new /\ UNCHANGED <<gen, relayVars, closer, adrift>>
    BY <1>5 DEF Change, Free
  <2>2. o \in SUBSET Calls
    BY DEF Calls, CallFor
  <2> HIDE DEF o
  <2> QED BY <1>1, <1>2, <1>3, <2>1, <2>2
<1>6. ASSUME NEW p \in Parties, Publish(h, p) PROVE Unholding(h)
  <2> DEFINE s == Reading(p)
  <2>1. s \in HandStates /\ s.at # "finish"
    BY HandsMade DEF Reading
  <2>2. /\ hand' = [hand EXCEPT ![h] = s] /\ hand[h] = Idle
        /\ UNCHANGED <<party, gen, relayVars, owed, closer, adrift>>
    BY <1>6 DEF Publish, Free
  <2> HIDE DEF s
  <2> QED BY <1>1, <1>2, <1>3, <2>1, <2>2
<1>7. ASSUME NEW q \in Parties, Misdirect(h, q) PROVE Unholding(h)
  <2> DEFINE s == Retiring(q)
  <2>1. s \in HandStates /\ s.at # "finish"
    BY HandsMade DEF Retiring
  <2>2. PICK call \in owed[h] : /\ adrift' = adrift \cup {call.party}
                                /\ owed' = [owed EXCEPT ![h] = owed[h] \ {call}]
    BY <1>1, <1>7 DEF Misdirect
  <2>3. /\ hand' = [hand EXCEPT ![h] = s] /\ hand[h] = Idle
        /\ UNCHANGED <<party, gen, relayVars, closer>>
    BY <1>7 DEF Misdirect
  <2> DEFINE o == owed[h] \ {call}
  <2>4. o \in SUBSET Calls /\ adrift' \subseteq Parties
    BY <1>1, <1>3, <1>4, <2>2
  <2>5. owed' = [owed EXCEPT ![h] = o]
    BY <2>2
  <2> HIDE DEF s, o
  <2> QED BY <1>1, <1>2, <2>1, <2>3, <2>4, <2>5
<1>8. ASSUME Deliver(h) PROVE Unholding(h)
  <2>1. PICK call \in owed[h] :
          /\ hand' = [hand EXCEPT ![h] = IF call.op = "close" THEN Retiring(call.party)
                                         ELSE Reading(call.party)]
          /\ owed' = [owed EXCEPT ![h] = owed[h] \ {call}]
    BY <1>1, <1>8 DEF Deliver
  <2>2. hand[h] = Idle /\ UNCHANGED <<party, gen, relayVars, closer, adrift>>
    BY <1>8 DEF Deliver
  <2> DEFINE o == owed[h] \ {call}
             s == IF call.op = "close" THEN Retiring(call.party) ELSE Reading(call.party)
  <2>3. o \in SUBSET Calls /\ call.party \in Parties
    BY <1>3, <1>4
  <2>4. s \in HandStates /\ s.at # "finish"
    BY <2>3, HandsMade DEF Retiring, Reading
  <2>5. hand' = [hand EXCEPT ![h] = s] /\ owed' = [owed EXCEPT ![h] = o]
    BY <2>1
  <2> HIDE DEF s, o
  <2> QED BY <1>1, <1>2, <2>2, <2>3, <2>4, <2>5
<1>9. ASSUME GiveUp(h) PROVE Unholding(h)
  <2>1. /\ hand[h] = Idle /\ hand' = hand /\ owed' = [owed EXCEPT ![h] = {}]
        /\ adrift' = adrift \cup {call.party : call \in owed[h]}
        /\ UNCHANGED <<party, gen, relayVars, closer>>
    BY <1>9 DEF GiveUp
  <2>2. adrift' \subseteq Parties /\ {} \in SUBSET Calls
    BY <1>1, <1>3, <1>4, <2>1
  <2> QED BY <1>1, <1>2, <1>3, <2>1, <2>2
<1>10. ASSUME Snapshot(h) PROVE Unholding(h)
  <2> DEFINE p == hand[h].party
             s == IF Lone(party[p]) THEN Idle ELSE Holding(p, party[p])
  <2>1. hand[h].at = "read" /\ p \in Parties
    BY <1>1, <1>10, HandForms DEF Snapshot
  <2>2. s \in HandStates /\ s.at # "finish"
    BY <1>1, <2>1, HandsMade DEF Holding
  <2>3. /\ hand' = [hand EXCEPT ![h] = s]
        /\ UNCHANGED <<party, gen, relayVars, owed, closer, adrift>>
    BY <1>10 DEF Snapshot
  <2> HIDE DEF s, p
  <2> QED BY <1>1, <1>2, <1>3, <2>1, <2>2, <2>3
<1>11. ASSUME ReadBindings(h) PROVE Unholding(h)
  <2> DEFINE p == hand[h].party
             bs == BindingsOf(hand[h].members)
             s == Bound(p, bs)
  <2>1. hand[h].at = "hold" /\ p \in Parties /\ hand[h].members \in SUBSET Characters
    BY <1>1, <1>11, HandForms DEF ReadBindings
  <2>2. bs \in SUBSET Bindings
    BY <1>1, <2>1 DEF Bindings, BindingsOf
  <2>3. /\ hand' = [hand EXCEPT ![h] = s]
        /\ UNCHANGED <<party, gen, relayVars, owed, closer, adrift>>
    BY <1>11 DEF ReadBindings
  <2> HIDE DEF bs, p
  <2>4. s \in HandStates /\ s.at # "finish"
    BY <2>1, <2>2, HandsMade DEF Bound
  <2> HIDE DEF s
  <2> QED BY <1>1, <1>2, <1>3, <2>1, <2>3, <2>4
<1>12. ASSUME Refuse(h) \/ SyncFails(h) PROVE Unholding(h)
  <2>1. hand[h].at \in {"hold", "bound"} /\ hand[h].party \in Parties
    BY <1>1, <1>12, HandForms DEF Refuse, SyncFails
  <2>2. /\ hand' = [hand EXCEPT ![h] = Idle] /\ adrift' = adrift \cup {hand[h].party}
        /\ UNCHANGED <<party, gen, relayVars, owed, closer>>
    BY <1>12 DEF Refuse, SyncFails
  <2> QED BY <1>1, <1>2, <1>3, <2>1, <2>2
<1> QED BY <1>5, <1>6, <1>7, <1>8, <1>9, <1>10, <1>11, <1>12 DEF Unheld

\* They leave the sockets alone, and so does a reconnection.
LEMMA HandlersKeepSockets ==
    ASSUME SocketInv,
           (\E h \in Handlers : Unheld(h)) \/ \E c \in Characters : Reconnect(c)
    PROVE  SocketInv'
<1>1. /\ party \in [Parties -> SUBSET Characters] /\ gen \in [Characters -> 1 .. MaxGen]
      /\ adrift \subseteq Parties /\ hand \in [Handlers -> HandStates]
      /\ owed \in [Handlers -> SUBSET Calls] /\ MaxGen \in Nat
  BY RelayAssumption DEF SocketInv, RecordsOK, TypeOK, HandsOK, RelayAssumption
<1>2. ASSUME NEW h \in Handlers, Unheld(h) PROVE SocketInv'
  <2>1. Unholding(h)
    BY <1>2, UnheldSteps
  <2>2. \A g \in Handlers : \/ hand'[g] = hand[g]
                            \/ hand[g].at # "finish" /\ hand'[g].at # "finish"
    BY <2>1 DEF Unholding
  <2>3. gen' \in [Characters -> 1 .. MaxGen]
    BY <1>1, <2>1 DEF Unholding
  <2> QED BY <2>1, <2>2, <2>3, HandQuiet DEF Unholding
<1>3. ASSUME NEW c \in Characters, Reconnect(c) PROVE SocketInv'
  <2>1. /\ gen[c] < MaxGen /\ gen' = [gen EXCEPT ![c] = gen[c] + 1]
        /\ adrift' = adrift \cup {p \in Parties : c \in party[p]}
        /\ UNCHANGED <<party, relayVars, owed, hand, closer>>
    BY <1>1, <1>3 DEF Reconnect
  <2>2. gen' \in [Characters -> 1 .. MaxGen] /\ adrift' \subseteq Parties
    BY <1>1, <2>1
  <2> QED BY <1>1, <2>1, <2>2, HandQuiet
<1> QED BY <1>2, <1>3

\* A step of a read loop; a received datagram is the only one that changes a
\* socket's record, and only the endpoint it has learned.
LEMMA LoopQuiet ==
    ASSUME SocketInv, NEW i \in Ids, NEW s \in LoopStates,
           s.at \in {"found", "ready"} => s.leg \in Ids,
           loop' = [loop EXCEPT ![i] = s],
           made' \in Seq(Legs), Len(made') = Len(made),
           \A j \in Ids : /\ made'[j].key = made[j].key /\ made'[j].port = made[j].port
                          /\ made'[j].open = made[j].open,
           UNCHANGED <<party, gen, table, used, closed, owed, hand, closer, adrift>>
    PROVE  SocketInv'
<1>1. TypeOK /\ HandsOK /\ CloserOK /\ LoopsOK /\ ClosedOK /\ Len(made) \in Nat
  BY DEF SocketInv, RecordsOK, TypeOK
<1>2. LoopsOK' /\ DOMAIN loop' = Ids'
  BY <1>1, LoopMoves
<1>3. HandsOK'
  BY <1>1, HandsStay
<1>4. CloserOK'
  <2>1. Len(made') \in Nat /\ Len(made) <= Len(made')
    BY <1>1
  <2> QED BY <1>1, <2>1, CloserStays
<1>5. TypeOK'
  BY <1>1, <1>2 DEF TypeOK, Ids
<1>6. RecordsOK'
  BY <1>2, <1>3, <1>4, <1>5 DEF RecordsOK
<1>7. ClosedOK'
  BY <1>1 DEF ClosedOK
<1>8. Steady
  BY DEF Steady, Takes, CloserTakes
<1> QED BY <1>6, <1>7, <1>8, SteadyKeeps

\* The read loops keep the sockets in order.
LEMMA LoopsKeepSockets ==
    ASSUME SocketInv, NEW i \in Ids,
           LoopStep(i) \/ \E from \in Endpoints : Receive(i, from)
    PROVE  SocketInv'
<1>1. /\ made \in Seq(Legs) /\ Len(made) \in Nat /\ table \in [Keys -> 0 .. Len(made)]
      /\ loop \in Seq(LoopStates) /\ Len(loop) = Len(made) /\ loop[i] \in LoopStates
      /\ loop[i].at \in {"found", "ready"} => loop[i].leg \in Ids
      /\ i \in 1 .. Len(made) /\ made[i] \in Legs
  BY DEF SocketInv, RecordsOK, TypeOK, LoopsOK, Ids
<1>2. /\ Receiving \in LoopStates /\ Ended \in LoopStates /\ [at |-> "got"] \in LoopStates
      /\ Receiving.at = "receive" /\ Ended.at = "ended"
  BY DEF LoopStates, Receiving, Ended
<1>3. ASSUME NEW s \in LoopStates, s.at \in {"found", "ready"} => s.leg \in Ids,
             loop' = [loop EXCEPT ![i] = s],
             UNCHANGED <<party, gen, made, table, used, closed, owed, hand, closer, adrift>>
      PROVE  SocketInv'
  <2>1. /\ made' \in Seq(Legs) /\ Len(made') = Len(made)
        /\ \A j \in Ids : /\ made'[j].key = made[j].key /\ made'[j].port = made[j].port
                          /\ made'[j].open = made[j].open
    BY <1>1, <1>3
  <2> QED BY <1>3, <2>1, LoopQuiet
<1>4. CASE FindOpposite(i)
  <2> DEFINE j == table[Opposite(made[i].key)]
             s == IF j = 0 THEN Receiving ELSE [at |-> "found", leg |-> j]
  <2>1. made[i].key \in Keys
    BY <1>1 DEF Legs
  <2>2. Opposite(made[i].key) \in Keys
    <3> HIDE <1>1
    <3>1. PICK k \in Keys : k = made[i].key
      BY <2>1
    <3>2. Opposite(k) \in Keys
      BY DEF Keys, Opposite
    <3> QED BY <3>1, <3>2
  <2>3. j \in 0 .. Len(made)
    BY <1>1, <2>2
  <2>4. /\ loop' = [loop EXCEPT ![i] = s]
        /\ UNCHANGED <<party, gen, made, table, used, closed, owed, hand, closer, adrift>>
    BY <1>4 DEF FindOpposite
  <2> HIDE DEF j
  <2>5. s \in LoopStates /\ (s.at \in {"found", "ready"} => s.leg \in Ids)
    BY <1>1, <1>2, <2>3 DEF LoopStates, Ids
  <2> HIDE DEF s
  <2> QED BY <1>3, <2>4, <2>5
<1>5. CASE ReadDestination(i)
  <2> DEFINE j == loop[i].leg
             s == IF made[j].learned = NoEndpoint THEN Receiving
                  ELSE [at |-> "ready", leg |-> j, to |-> made[j].learned]
  <2>1. j \in Ids /\ j \in Nat
    BY <1>1, <1>5 DEF ReadDestination, Ids
  <2>2. /\ loop' = [loop EXCEPT ![i] = s]
        /\ UNCHANGED <<party, gen, made, table, used, closed, owed, hand, closer, adrift>>
    BY <1>5 DEF ReadDestination
  <2>3. made[j] \in Legs
    BY <1>1, <2>1 DEF Ids
  <2>4. made[j].learned \in Endpoints \cup {NoEndpoint}
    BY <2>3 DEF Legs
  <2> HIDE DEF j
  <2>5. s \in LoopStates /\ (s.at \in {"found", "ready"} => s.leg \in Ids)
    BY <1>2, <2>1, <2>4 DEF LoopStates
  <2> HIDE DEF s
  <2> QED BY <1>3, <2>2, <2>5
<1>6. CASE Forward(i) \/ ForwardFails(i)
  <2>1. /\ loop' = [loop EXCEPT ![i] = Receiving]
        /\ UNCHANGED <<party, gen, made, table, used, closed, owed, hand, closer, adrift>>
    BY <1>6 DEF Forward, ForwardFails
  <2> QED BY <1>2, <1>3, <2>1
<1>7. CASE EndLoop(i)
  <2>1. /\ loop' = [loop EXCEPT ![i] = Ended]
        /\ UNCHANGED <<party, gen, made, table, used, closed, owed, hand, closer, adrift>>
    BY <1>7 DEF EndLoop
  <2> QED BY <1>2, <1>3, <2>1
<1>8. ASSUME NEW from \in Endpoints, Receive(i, from) PROVE SocketInv'
  <2>1. /\ loop' = [loop EXCEPT ![i] = [at |-> "got"]]
        /\ made' = [made EXCEPT ![i].learned = from]
        /\ UNCHANGED <<party, gen, table, used, closed, owed, hand, closer, adrift>>
    BY <1>8 DEF Receive
  <2>2. [made[i] EXCEPT !.learned = from] \in Legs
    BY <1>1 DEF Legs
  <2>3. made' \in Seq(Legs) /\ Len(made') = Len(made)
    BY <1>1, <2>1, <2>2
  <2>4. \A j \in Ids : /\ made'[j].key = made[j].key /\ made'[j].port = made[j].port
                       /\ made'[j].open = made[j].open
    <3> SUFFICES ASSUME NEW j \in Ids
                 PROVE  /\ made'[j].key = made[j].key /\ made'[j].port = made[j].port
                        /\ made'[j].open = made[j].open
      OBVIOUS
    <3>1. made[j] \in Legs /\ j \in 1 .. Len(made)
      BY <1>1 DEF Ids
    <3>2. made'[j] = IF j = i THEN [made[i] EXCEPT !.learned = from] ELSE made[j]
      BY <1>1, <2>1, <3>1
    <3> QED BY <3>1, <3>2 DEF Legs
  <2>5. [at |-> "got"].at \notin {"found", "ready"}
    OBVIOUS
  <2> DEFINE s == [at |-> "got"]
  <2>6. s \in LoopStates /\ s.at \notin {"found", "ready"} /\ loop' = [loop EXCEPT ![i] = s]
    BY <1>2, <2>1, <2>5
  <2> HIDE DEF s
  <2> QED BY <2>1, <2>3, <2>4, <2>6, LoopQuiet
<1> QED BY <1>4, <1>5, <1>6, <1>7, <1>8 DEF LoopStep, Datagram

-----------------------------------------------------------------------------
(* Steps that close a socket or hand it over. *)

\* Socket i is closed and nobody answers for it any longer.
Shut(i) ==
    /\ table' = table /\ used' = used /\ Len(made') = Len(made)
    /\ \A j \in Ids : /\ made'[j].key = made[j].key /\ made'[j].port = made[j].port
                      /\ made'[j].open <=> made[j].open /\ j # i
    /\ \A j \in Ids : CloserTakes(j)' <=> CloserTakes(j) /\ j # i
    /\ \A h \in Handlers, j \in Ids : Takes(h, j)' <=> Takes(h, j) /\ j # i

\* The invariant stays true if the socket was not in the table.
LEMMA ShutKeeps ==
    ASSUME SocketInv, NEW i \in Ids, Shut(i), ~ Tabled(i), RecordsOK', ClosedOK'
    PROVE  SocketInv'
<1>1. Ids' = Ids /\ table' = table /\ used' = used
  BY DEF Shut, Ids
<1>2. \A k \in Keys : table[k] # 0 => table[k] \in Ids
  BY DEF SocketInv, RecordsOK, TypeOK, Ids
<1>3. \A j \in Ids : /\ made'[j].key = made[j].key /\ made'[j].port = made[j].port
                     /\ made'[j].open <=> made[j].open /\ j # i
  BY DEF Shut
<1>4. /\ \A j \in Ids : CloserTakes(j)' <=> CloserTakes(j) /\ j # i
      /\ \A h \in Handlers, j \in Ids : Takes(h, j)' <=> Takes(h, j) /\ j # i
      /\ \A j \in Ids : Tabled(j)' <=> Tabled(j)
  BY <1>1 DEF Shut, Tabled
<1>5. TableOK'
  BY <1>1, <1>2, <1>3 DEF SocketInv, TableOK
<1>6. Exclusive'
  BY <1>1, <1>4 DEF SocketInv, Exclusive
<1>7. OpenOwned'
  BY <1>1, <1>3, <1>4 DEF SocketInv, OpenOwned
<1>8. PortsDistinct'
  BY <1>1, <1>3 DEF SocketInv, PortsDistinct
<1>9. PortsUsed'
  BY <1>1, <1>2, <1>3 DEF SocketInv, PortsUsed
<1> QED BY <1>5, <1>6, <1>7, <1>8, <1>9 DEF SocketInv

\* The sockets of M leave the table and their ports are free to be used again.
Released(M) ==
    /\ made' = made
    /\ M \in SUBSET Ids
    /\ \A k \in Keys : table'[k] = IF table[k] \in M THEN 0 ELSE table[k]
    /\ \A n \in Ports : n \in used' <=> n \in used /\ ~ \E i \in M : made[i].port = n
    /\ \A i \in M : Tabled(i)

\* The rest of the table and of the ports is as before.
LEMMA ReleasedLeave ==
    ASSUME SocketInv, NEW M, Released(M)
    PROVE  /\ \A i \in Ids : Tabled(i)' <=> Tabled(i) /\ i \notin M
           /\ TableOK' /\ PortsUsed' /\ PortsDistinct' /\ Ids' = Ids
<1>1. made' = made /\ Ids' = Ids /\ M \in SUBSET Ids
  BY DEF Released, Ids
<1>2. \A k \in Keys : table[k] # 0 => table[k] \in Ids
  BY DEF SocketInv, RecordsOK, TypeOK, Ids
<1>3. \A k \in Keys : table'[k] = IF table[k] \in M THEN 0 ELSE table[k]
  BY DEF Released
<1>4. 0 \notin Ids
  BY DEF Ids
<1>5. \A i \in Ids : Tabled(i)' <=> Tabled(i) /\ i \notin M
  BY <1>3, <1>4 DEF Tabled
<1>6. TableOK'
  BY <1>1, <1>3 DEF SocketInv, TableOK
<1>7. PortsDistinct'
  BY <1>1 DEF SocketInv, PortsDistinct
<1>8. ASSUME NEW n \in Ports
      PROVE  n \in used' <=> \E k \in Keys : table'[k] # 0 /\ made[table'[k]].port = n
  <2>1. n \in used <=> \E k \in Keys : table[k] # 0 /\ made[table[k]].port = n
    BY DEF SocketInv, PortsUsed
  <2>2. n \in used' <=> n \in used /\ ~ \E i \in M : made[i].port = n
    BY DEF Released
  <2>3. ASSUME NEW i \in Ids, NEW j \in Ids, Tabled(i), Tabled(j), made[i].port = made[j].port
        PROVE  i = j
    <3>1. made[i].open /\ made[j].open
      BY <2>3 DEF SocketInv, OpenOwned
    <3> QED BY <2>3, <3>1 DEF SocketInv, PortsDistinct
  <2>4. ASSUME NEW k \in Keys, table'[k] # 0, made[table'[k]].port = n PROVE n \in used'
    <3>1. table'[k] = table[k] /\ table[k] # 0 /\ table[k] \notin M /\ table[k] \in Ids
      BY <1>2, <1>3, <2>4
    <3>2. n \in used
      BY <2>1, <2>4, <3>1
    <3>3. ASSUME NEW i \in M, made[i].port = n PROVE FALSE
      <4>1. Tabled(i) /\ Tabled(table[k]) /\ i \in Ids
        BY <1>1 DEF Released, Tabled
      <4> QED BY <2>3, <2>4, <3>1, <3>3, <4>1
    <3> QED BY <2>2, <3>2, <3>3
  <2>5. ASSUME n \in used' PROVE \E k \in Keys : table'[k] # 0 /\ made[table'[k]].port = n
    <3>1. PICK k \in Keys : table[k] # 0 /\ made[table[k]].port = n
      BY <2>1, <2>2, <2>5
    <3>2. table[k] \notin M
      BY <2>2, <2>5, <3>1
    <3> QED BY <1>3, <3>1, <3>2
  <2> QED BY <2>4, <2>5
<1>9. PortsUsed'
  BY <1>1, <1>8 DEF PortsUsed
<1> QED BY <1>1, <1>5, <1>6, <1>7, <1>9

\* Handler h takes them.
LEMMA HandoverToHandler ==
    ASSUME SocketInv, NEW M, Released(M), NEW h \in Handlers, RecordsOK', ClosedOK',
           \A i \in Ids : ~ Takes(h, i),
           \A i \in Ids : CloserTakes(i)' <=> CloserTakes(i),
           \A g \in Handlers, i \in Ids : Takes(g, i)' <=> Takes(g, i) \/ (g = h /\ i \in M)
    PROVE  SocketInv'
<1>1. /\ \A i \in Ids : Tabled(i)' <=> Tabled(i) /\ i \notin M
      /\ TableOK' /\ PortsUsed' /\ PortsDistinct' /\ Ids' = Ids
  BY ReleasedLeave
<1>2. made' = made /\ \A i \in M : Tabled(i) /\ i \in Ids
  BY DEF Released
<1>3. Exclusive
  BY DEF SocketInv
<1>4. Exclusive'
  BY <1>1, <1>2, <1>3 DEF Exclusive
<1>5. OpenOwned'
  <2>1. ASSUME NEW i \in Ids
        PROVE  made[i].open <=>
                 Tabled(i)' \/ CloserTakes(i)' \/ \E g \in Handlers : Takes(g, i)'
    <3>1. made[i].open <=> Tabled(i) \/ CloserTakes(i) \/ \E g \in Handlers : Takes(g, i)
      BY DEF SocketInv, OpenOwned
    <3>2. CASE i \in M
      BY <1>1, <1>2, <3>1, <3>2
    <3>3. CASE i \notin M
      <4>1. \A g \in Handlers : Takes(g, i)' <=> Takes(g, i)
        BY <3>3
      <4>2. (Tabled(i)' <=> Tabled(i)) /\ (CloserTakes(i)' <=> CloserTakes(i))
        BY <1>1, <3>3
      <4> QED BY <3>1, <4>1, <4>2, Zenon
    <3> QED BY <3>2, <3>3
  <2> QED BY <1>1, <1>2, <2>1 DEF OpenOwned
<1> QED BY <1>1, <1>4, <1>5 DEF SocketInv

\* Close takes them.
LEMMA HandoverToCloser ==
    ASSUME SocketInv, NEW M, Released(M), RecordsOK', ClosedOK',
           \A i \in Ids : ~ CloserTakes(i),
           \A i \in Ids : CloserTakes(i)' <=> i \in M,
           \A g \in Handlers, i \in Ids : Takes(g, i)' <=> Takes(g, i)
    PROVE  SocketInv'
<1>1. /\ \A i \in Ids : Tabled(i)' <=> Tabled(i) /\ i \notin M
      /\ TableOK' /\ PortsUsed' /\ PortsDistinct' /\ Ids' = Ids
  BY ReleasedLeave
<1>2. made' = made /\ \A i \in M : Tabled(i) /\ i \in Ids
  BY DEF Released
<1>3. Exclusive
  BY DEF SocketInv
<1>4. Exclusive'
  BY <1>1, <1>2, <1>3 DEF Exclusive
<1>5. OpenOwned'
  BY <1>1, <1>2 DEF SocketInv, OpenOwned
<1> QED BY <1>1, <1>4, <1>5 DEF SocketInv

\* A handler closes the next of its sockets.
LEMMA CloseSocketKeeps ==
    ASSUME SocketInv, NEW h \in Handlers, CloseSocket(h)
    PROVE  SocketInv'
<1>1. /\ TypeOK /\ HandsOK /\ CloserOK /\ LoopsOK /\ ClosedOK /\ Exclusive
      /\ made \in Seq(Legs) /\ Len(made) \in Nat
      /\ hand \in [Handlers -> HandStates] /\ hand[h] \in HandStates
  <2>1. /\ TypeOK /\ HandsOK /\ CloserOK /\ LoopsOK /\ ClosedOK /\ Exclusive
    BY DEF SocketInv, RecordsOK
  <2>2. made \in Seq(Legs)
    BY <2>1 DEF TypeOK
  <2>3. hand \in [Handlers -> HandStates]
    BY <2>1 DEF HandsOK
  <2>4. hand[h] \in HandStates
    BY <2>3
  <2>5. Len(made) \in Nat
    BY <2>2
  <2> QED BY <2>1, <2>2, <2>3, <2>4, <2>5
<1>2. PICK C, S, i : C = hand[h].toClose /\ S = hand[h].toStart /\ i = Min(C)
  OBVIOUS
<1>3. /\ hand[h].at = "finish" /\ C # {}
      /\ made' = [made EXCEPT ![i].open = FALSE]
      /\ hand' = [hand EXCEPT ![h] = Finishing(C \ {i}, S)]
      /\ UNCHANGED <<party, gen, table, used, closed, owed, closer, loop, adrift>>
  BY <1>1, <1>2 DEF CloseSocket
<1>4. C \in SUBSET Ids /\ S \in SUBSET Ids /\ C \in SUBSET Nat /\ S \in SUBSET Nat
  BY <1>1, <1>2, <1>3 DEF HandsOK, Ids
<1>5. i \in C /\ i \in Ids
  BY <1>2, <1>3, <1>4, MinIn
<1>6. \A j \in Ids : made[j] \in Legs /\ j \in 1 .. Len(made)
  BY <1>1 DEF Ids
<1>7. [made[i] EXCEPT !.open = FALSE] \in Legs
  BY <1>5, <1>6 DEF Legs
<1>8. made' \in Seq(Legs) /\ Len(made') = Len(made) /\ Ids' = Ids
  BY <1>1, <1>3, <1>5, <1>6, <1>7 DEF Ids
<1>9. \A j \in Ids : /\ made'[j].key = made[j].key /\ made'[j].port = made[j].port
                     /\ made'[j].open <=> made[j].open /\ j # i
  <2> SUFFICES ASSUME NEW j \in Ids
               PROVE  /\ made'[j].key = made[j].key /\ made'[j].port = made[j].port
                      /\ made'[j].open <=> made[j].open /\ j # i
    OBVIOUS
  <2>1. made'[j] = IF j = i THEN [made[i] EXCEPT !.open = FALSE] ELSE made[j]
    BY <1>1, <1>3, <1>5, <1>6
  <2> QED BY <1>5, <1>6, <2>1 DEF Legs
<1> DEFINE s == Finishing(C \ {i}, S)
<1>10. s \in HandStates
  BY <1>4, HandsMade
<1>11. /\ s.at = "finish" => s.toClose = C \ {i} /\ s.toStart = S
       /\ s.at = "finish" <=> C \ {i} # {} \/ S # {}
  BY FinishingIs
<1> HIDE DEF s
<1>12. HandsOK' /\ DOMAIN hand' = Handlers
  <2>1. s.at = "finish" => /\ s.toClose \subseteq 1 .. Len(made')
                           /\ s.toStart \subseteq 1 .. Len(made')
                           /\ s.toClose # {} \/ s.toStart # {}
    BY <1>4, <1>8, <1>11 DEF Ids
  <2>2. Len(made') \in Nat /\ Len(made) <= Len(made') /\ hand' = [hand EXCEPT ![h] = s]
    BY <1>1, <1>3, <1>8 DEF s
  <2> QED BY <1>1, <1>10, <2>1, <2>2, HandMoves
<1>13. LoopsOK' /\ CloserOK' /\ ClosedOK'
  <2>1. Len(made') \in Nat /\ Len(made) <= Len(made')
    BY <1>1, <1>8
  <2>2. LoopsOK'
    BY <1>1, <1>3, <1>8, LoopsStay
  <2>3. CloserOK'
    BY <1>1, <1>3, <2>1, CloserStays
  <2>4. ClosedOK'
    BY <1>1, <1>3 DEF ClosedOK
  <2> QED BY <2>2, <2>3, <2>4
<1>14. TypeOK'
  BY <1>1, <1>3, <1>8, <1>12 DEF TypeOK
<1>15. Takes(h, i)
  BY <1>2, <1>3, <1>5 DEF Takes
<1>16. ~ Tabled(i) /\ ~ CloserTakes(i) /\ \A g \in Handlers : Takes(g, i) => g = h
  BY <1>1, <1>5, <1>15 DEF Exclusive
<1>17. ASSUME NEW g \in Handlers, NEW j \in Ids
       PROVE  Takes(g, j)' <=> Takes(g, j) /\ j # i
  <2>1. CASE g = h
    <3>1. hand'[h] = s
      BY <1>1, <1>3 DEF s
    <3> QED BY <1>2, <1>3, <1>11, <2>1, <3>1 DEF Takes
  <2>2. CASE g # h
    <3>1. hand'[g] = hand[g]
      BY <1>1, <1>3, <2>2
    <3>2. Takes(g, j)' <=> Takes(g, j)
      BY <3>1 DEF Takes
    <3> QED BY <1>16, <2>2, <3>2
  <2> QED BY <2>1, <2>2
<1>18. \A j \in Ids : CloserTakes(j)' <=> CloserTakes(j) /\ j # i
  <2>1. \A j \in Ids : CloserTakes(j)' <=> CloserTakes(j)
    BY <1>3 DEF CloserTakes
  <2> QED BY <1>16, <2>1
<1>19. Shut(i)
  BY <1>3, <1>8, <1>9, <1>17, <1>18 DEF Shut
<1>20. RecordsOK'
  BY <1>12, <1>13, <1>14 DEF RecordsOK
<1> QED BY <1>5, <1>13, <1>16, <1>19, <1>20, ShutKeeps

\* So does Close.
LEMMA CloserClosesKeeps ==
    ASSUME SocketInv, CloserCloses
    PROVE  SocketInv'
<1>1. /\ TypeOK /\ HandsOK /\ CloserOK /\ LoopsOK /\ ClosedOK /\ Exclusive
      /\ made \in Seq(Legs) /\ Len(made) \in Nat /\ closer \in CloserStates
  BY DEF SocketInv, RecordsOK, TypeOK, CloserOK
<1>2. PICK C, i : C = closer.toClose /\ i = Min(C)
  OBVIOUS
<1>3. /\ closer.at = "closing" /\ C # {}
      /\ made' = [made EXCEPT ![i].open = FALSE]
      /\ closer' = [closer EXCEPT !.toClose = C \ {i}]
      /\ UNCHANGED <<party, gen, table, used, closed, owed, hand, loop, adrift>>
  BY <1>2 DEF CloserCloses
<1>4. C \in SUBSET Ids /\ C \in SUBSET Nat /\ closer = [at |-> "closing", toClose |-> C]
  BY <1>1, <1>2, <1>3, CloserForms DEF CloserOK, Ids
<1>5. i \in C /\ i \in Ids
  BY <1>2, <1>3, <1>4, MinIn
<1>6. \A j \in Ids : made[j] \in Legs /\ j \in 1 .. Len(made)
  BY <1>1 DEF Ids
<1>7. [made[i] EXCEPT !.open = FALSE] \in Legs
  BY <1>5, <1>6 DEF Legs
<1>8. made' \in Seq(Legs) /\ Len(made') = Len(made) /\ Ids' = Ids
  BY <1>1, <1>3, <1>5, <1>6, <1>7 DEF Ids
<1>9. \A j \in Ids : /\ made'[j].key = made[j].key /\ made'[j].port = made[j].port
                     /\ made'[j].open <=> made[j].open /\ j # i
  <2> SUFFICES ASSUME NEW j \in Ids
               PROVE  /\ made'[j].key = made[j].key /\ made'[j].port = made[j].port
                      /\ made'[j].open <=> made[j].open /\ j # i
    OBVIOUS
  <2>1. made'[j] = IF j = i THEN [made[i] EXCEPT !.open = FALSE] ELSE made[j]
    BY <1>1, <1>3, <1>5, <1>6
  <2> QED BY <1>5, <1>6, <2>1 DEF Legs
<1>10. closer' = [at |-> "closing", toClose |-> C \ {i}]
  BY <1>3, <1>4
<1>11. CloserOK'
  <2>1. closer' \in CloserStates
    BY <1>4, <1>10 DEF CloserStates
  <2> QED BY <1>4, <1>8, <1>10, <2>1 DEF CloserOK
<1>12. HandsOK' /\ LoopsOK'
  BY <1>1, <1>3, <1>8, HandsStay, LoopsStay
<1>13. ClosedOK'
  <2>1. closed
    BY <1>1, <1>3 DEF ClosedOK, Idle
  <2> QED BY <1>1, <1>3, <2>1 DEF ClosedOK
<1>14. TypeOK'
  BY <1>1, <1>3, <1>8 DEF TypeOK
<1>15. CloserTakes(i)
  BY <1>2, <1>3, <1>5 DEF CloserTakes
<1>16. ~ Tabled(i) /\ \A g \in Handlers : ~ Takes(g, i)
  BY <1>1, <1>5, <1>15 DEF Exclusive
<1>17. \A j \in Ids : CloserTakes(j)' <=> CloserTakes(j) /\ j # i
  BY <1>2, <1>3, <1>10 DEF CloserTakes
<1>18. ASSUME NEW g \in Handlers, NEW j \in Ids
       PROVE  Takes(g, j)' <=> Takes(g, j) /\ j # i
  <2>1. Takes(g, j)' <=> Takes(g, j)
    BY <1>3 DEF Takes
  <2> QED BY <1>16, <2>1
<1>19. Shut(i)
  BY <1>3, <1>8, <1>9, <1>17, <1>18 DEF Shut
<1>20. RecordsOK'
  BY <1>11, <1>12, <1>14 DEF RecordsOK
<1> QED BY <1>5, <1>13, <1>16, <1>19, <1>20, ShutKeeps

\* Starting a read loop and the end of Close leave the sockets alone.
LEMMA StartLoopKeeps ==
    ASSUME SocketInv, NEW h \in Handlers, StartLoop(h)
    PROVE  SocketInv'
<1>1. /\ TypeOK /\ HandsOK /\ CloserOK /\ LoopsOK /\ ClosedOK
      /\ made \in Seq(Legs) /\ Len(made) \in Nat
      /\ hand \in [Handlers -> HandStates] /\ hand[h] \in HandStates
  <2>1. TypeOK /\ HandsOK /\ CloserOK /\ LoopsOK /\ ClosedOK
    BY DEF SocketInv, RecordsOK
  <2>2. made \in Seq(Legs)
    BY <2>1 DEF TypeOK
  <2>3. hand \in [Handlers -> HandStates]
    BY <2>1 DEF HandsOK
  <2>4. hand[h] \in HandStates
    BY <2>3
  <2>5. Len(made) \in Nat
    BY <2>2
  <2> QED BY <2>1, <2>2, <2>3, <2>4, <2>5
<1>2. PICK S, i : S = hand[h].toStart /\ i = Min(S)
  OBVIOUS
<1>3. /\ hand[h].at = "finish" /\ hand[h].toClose = {}
      /\ loop' = [loop EXCEPT ![i] = Receiving]
      /\ hand' = [hand EXCEPT ![h] = Finishing({}, S \ {i})]
      /\ UNCHANGED <<party, gen, made, table, used, closed, owed, closer, adrift>>
  BY <1>1, <1>2 DEF StartLoop
<1>4. S \in SUBSET Ids /\ S \in SUBSET Nat /\ S # {}
  BY <1>1, <1>2, <1>3 DEF HandsOK, Ids
<1>5. i \in S /\ i \in Ids
  BY <1>2, <1>4, MinIn
<1> DEFINE s == Finishing({}, S \ {i})
<1>6. s \in HandStates
  BY <1>4, HandsMade
<1>7. /\ s.at = "finish" => s.toClose = {} /\ s.toStart = S \ {i}
      /\ s.at = "finish" <=> S \ {i} # {}
  BY FinishingIs
<1> HIDE DEF s
<1>8. Len(made') = Len(made) /\ Len(made') \in Nat /\ Len(made) <= Len(made') /\ Ids' = Ids
  BY <1>1, <1>3 DEF Ids
<1>9. HandsOK' /\ DOMAIN hand' = Handlers
  <2>1. s.at = "finish" => /\ s.toClose \subseteq 1 .. Len(made')
                           /\ s.toStart \subseteq 1 .. Len(made')
                           /\ s.toClose # {} \/ s.toStart # {}
    BY <1>4, <1>7, <1>8 DEF Ids
  <2>2. hand' = [hand EXCEPT ![h] = s]
    BY <1>3 DEF s
  <2> QED BY <1>1, <1>6, <1>8, <2>1, <2>2, HandMoves
<1>10. LoopsOK' /\ DOMAIN loop' = Ids'
  <2>1. Receiving \in LoopStates /\ Receiving.at \notin {"found", "ready"}
    BY DEF LoopStates, Receiving
  <2> QED BY <1>1, <1>3, <1>5, <1>8, <2>1, LoopMoves
<1>11. CloserOK'
  BY <1>1, <1>3, <1>8, CloserStays
<1>12. TypeOK'
  BY <1>1, <1>3, <1>8, <1>9, <1>10 DEF TypeOK
<1>13. ClosedOK'
  BY <1>1, <1>3 DEF ClosedOK
<1>14. ASSUME NEW g \in Handlers, NEW j \in Ids PROVE Takes(g, j)' <=> Takes(g, j)
  <2>1. CASE g = h
    <3>1. hand'[h] = s
      BY <1>1, <1>3 DEF s
    <3> QED BY <1>3, <1>7, <2>1, <3>1 DEF Takes
  <2>2. CASE g # h
    <3>1. hand'[g] = hand[g]
      BY <1>1, <1>3, <2>2
    <3> QED BY <3>1 DEF Takes
  <2> QED BY <2>1, <2>2
<1>15. \A j \in Ids : CloserTakes(j)' <=> CloserTakes(j)
  BY <1>3 DEF CloserTakes
<1>16. Steady
  BY <1>3, <1>8, <1>14, <1>15 DEF Steady
<1>17. RecordsOK'
  BY <1>9, <1>10, <1>11, <1>12 DEF RecordsOK
<1> QED BY <1>13, <1>16, <1>17, SteadyKeeps

\* Close returns.
LEMMA CloserWaitsKeeps ==
    ASSUME SocketInv, CloserWaits
    PROVE  SocketInv'
<1>1. /\ TypeOK /\ HandsOK /\ CloserOK /\ LoopsOK /\ ClosedOK
  BY DEF SocketInv, RecordsOK
<1>2. /\ closer.at = "closing" /\ closer.toClose = {} /\ closer' = [at |-> "done"]
      /\ UNCHANGED <<party, gen, made, table, used, closed, loop, owed, hand, adrift>>
  BY DEF CloserWaits, relayVars
<1>3. CloserOK'
  BY <1>2 DEF CloserOK, CloserStates
<1>4. HandsOK' /\ LoopsOK' /\ TypeOK'
  BY <1>1, <1>2, HandsStay, LoopsStay DEF TypeOK, Ids
<1>5. ClosedOK'
  <2>1. closed
    BY <1>1, <1>2 DEF ClosedOK, Idle
  <2> QED BY <1>1, <1>2, <2>1 DEF ClosedOK
<1>6. Steady
  BY <1>2 DEF Steady, Takes, CloserTakes
<1>7. RecordsOK'
  BY <1>3, <1>4 DEF RecordsOK
<1> QED BY <1>5, <1>6, <1>7, SteadyKeeps

\* CloseParty hands the sockets of a party to the handler.
LEMMA ClosePartyKeeps ==
    ASSUME SocketInv, NEW h \in Handlers, CloseParty(h)
    PROVE  SocketInv'
<1>1. /\ TypeOK /\ HandsOK /\ CloserOK /\ LoopsOK /\ ClosedOK /\ TableOK
      /\ Len(made) \in Nat /\ table \in [Keys -> 0 .. Len(made)] /\ used \subseteq Ports
      /\ hand \in [Handlers -> HandStates] /\ hand[h] \in HandStates
  <2>1. /\ TypeOK /\ HandsOK /\ CloserOK /\ LoopsOK /\ ClosedOK /\ TableOK
    BY DEF SocketInv, RecordsOK
  <2>2. made \in Seq(Legs) /\ table \in [Keys -> 0 .. Len(made)] /\ used \subseteq Ports
    BY <2>1 DEF TypeOK
  <2>3. hand \in [Handlers -> HandStates]
    BY <2>1 DEF HandsOK
  <2>4. hand[h] \in HandStates
    BY <2>3
  <2>5. Len(made) \in Nat
    BY <2>2
  <2> QED BY <2>1, <2>2, <2>3, <2>4, <2>5
<1>2. PICK p, M : p = hand[h].party /\ M = {table[k] : k \in {k \in Keys : k[1] = p}} \ {0}
  OBVIOUS
<1>3. /\ hand[h].at = "retire"
      /\ table' = [k \in Keys |-> IF k[1] = p THEN 0 ELSE table[k]]
      /\ used' = used \ {made[i].port : i \in M}
      /\ hand' = [hand EXCEPT ![h] = Finishing(M, {})]
      /\ UNCHANGED <<party, gen, made, closed, owed, closer, loop>>
      /\ adrift' \subseteq Parties
  <2>1. hand[h].at = "retire" /\ adrift \subseteq Parties
    BY <1>1 DEF CloseParty, TypeOK
  <2>2. p \in Parties
    BY <1>1, <1>2, <2>1, HandForms
  <2> QED BY <1>2, <2>1, <2>2 DEF CloseParty
<1>4. \A i : i \in M <=> i # 0 /\ \E k \in Keys : k[1] = p /\ table[k] = i
  BY <1>2
<1>5. M \in SUBSET Ids /\ M \in SUBSET Nat /\ {} \in SUBSET Nat
  BY <1>1, <1>4 DEF Ids
<1>6. \A k \in Keys : table[k] \in M <=> table[k] # 0 /\ k[1] = p
  BY <1>1, <1>4 DEF TableOK
<1>7. Released(M)
  <2>1. \A k \in Keys : table'[k] = IF table[k] \in M THEN 0 ELSE table[k]
    BY <1>3, <1>6
  <2>2. \A n \in Ports : n \in used' <=> n \in used /\ ~ \E i \in M : made[i].port = n
    BY <1>3
  <2>3. \A i \in M : Tabled(i)
    BY <1>4 DEF Tabled
  <2> QED BY <1>3, <1>5, <2>1, <2>2, <2>3 DEF Released
<1> DEFINE s == Finishing(M, {})
<1>8. s \in HandStates
  BY <1>5, HandsMade
<1>9. /\ s.at = "finish" => s.toClose = M /\ s.toStart = {}
      /\ s.at = "finish" <=> M # {}
  BY FinishingIs
<1> HIDE DEF s
<1>10. Len(made') = Len(made) /\ Len(made') \in Nat /\ Len(made) <= Len(made') /\ Ids' = Ids
  BY <1>1, <1>3 DEF Ids
<1>11. HandsOK' /\ DOMAIN hand' = Handlers
  <2>1. s.at = "finish" => /\ s.toClose \subseteq 1 .. Len(made')
                           /\ s.toStart \subseteq 1 .. Len(made')
                           /\ s.toClose # {} \/ s.toStart # {}
    BY <1>5, <1>9, <1>10 DEF Ids
  <2>2. hand' = [hand EXCEPT ![h] = s]
    BY <1>3 DEF s
  <2> QED BY <1>1, <1>8, <1>10, <2>1, <2>2, HandMoves
<1>12. LoopsOK' /\ CloserOK'
  BY <1>1, <1>3, <1>10, LoopsStay, CloserStays
<1>13. table' \in [Keys -> 0 .. Len(made)]
  BY <1>1, <1>3
<1>14. TypeOK'
  BY <1>1, <1>3, <1>10, <1>11, <1>13 DEF TypeOK
<1>15. RecordsOK'
  BY <1>11, <1>12, <1>14 DEF RecordsOK
<1>16. ClosedOK'
  BY <1>1, <1>3 DEF ClosedOK
<1>17. ASSUME NEW g \in Handlers, NEW i \in Ids
       PROVE  Takes(g, i)' <=> Takes(g, i) \/ (g = h /\ i \in M)
  <2>1. CASE g = h
    <3>1. hand'[h] = s
      BY <1>1, <1>3 DEF s
    <3> QED BY <1>3, <1>9, <2>1, <3>1 DEF Takes
  <2>2. CASE g # h
    <3>1. hand'[g] = hand[g]
      BY <1>1, <1>3, <2>2
    <3> QED BY <2>2, <3>1 DEF Takes
  <2> QED BY <2>1, <2>2
<1>18. /\ \A i \in Ids : ~ Takes(h, i)
       /\ \A i \in Ids : CloserTakes(i)' <=> CloserTakes(i)
  BY <1>3 DEF Takes, CloserTakes
<1> QED BY <1>7, <1>15, <1>16, <1>17, <1>18, HandoverToHandler

\* Close takes all sockets of the table.
LEMMA CloseRelayKeeps ==
    ASSUME SocketInv, CloseRelay
    PROVE  SocketInv'
<1>1. /\ TypeOK /\ HandsOK /\ CloserOK /\ LoopsOK /\ ClosedOK /\ PortsUsed
      /\ Len(made) \in Nat /\ table \in [Keys -> 0 .. Len(made)] /\ used \subseteq Ports
  BY DEF SocketInv, RecordsOK, TypeOK
<1>2. PICK M : M = {table[k] : k \in Keys} \ {0}
  OBVIOUS
<1>3. /\ ~ closed /\ closed' = TRUE
      /\ closer' = [at |-> "closing", toClose |-> M]
      /\ table' = [k \in Keys |-> 0] /\ used' = {}
      /\ UNCHANGED <<party, gen, made, owed, hand, loop, adrift>>
  BY <1>2 DEF CloseRelay
<1>4. \A i : i \in M <=> i # 0 /\ \E k \in Keys : table[k] = i
  BY <1>2
<1>5. M \in SUBSET Ids /\ M \in SUBSET Nat
  BY <1>1, <1>4 DEF Ids
<1>6. Released(M)
  <2>1. \A k \in Keys : table'[k] = IF table[k] \in M THEN 0 ELSE table[k]
    BY <1>3, <1>4
  <2>2. \A n \in Ports : n \in used' <=> n \in used /\ ~ \E i \in M : made[i].port = n
    <3> SUFFICES ASSUME NEW n \in used PROVE \E i \in M : made[i].port = n
      BY <1>3
    <3>1. PICK k \in Keys : table[k] # 0 /\ made[table[k]].port = n
      BY <1>1 DEF PortsUsed
    <3> QED BY <1>4, <3>1
  <2>3. \A i \in M : Tabled(i)
    BY <1>4 DEF Tabled
  <2> QED BY <1>3, <1>5, <2>1, <2>2, <2>3 DEF Released
<1>7. Len(made') = Len(made) /\ Ids' = Ids
  BY <1>3 DEF Ids
<1>8. HandsOK' /\ LoopsOK'
  BY <1>1, <1>3, <1>7, HandsStay, LoopsStay
<1>9. CloserOK'
  <2>1. closer' \in CloserStates
    BY <1>3, <1>5 DEF CloserStates
  <2> QED BY <1>3, <1>5, <1>7, <2>1 DEF CloserOK
<1>10. TypeOK'
  BY <1>1, <1>3, <1>7 DEF TypeOK
<1>11. RecordsOK'
  BY <1>8, <1>9, <1>10 DEF RecordsOK
<1>12. ClosedOK'
  BY <1>3 DEF ClosedOK
<1>13. \A i \in Ids : ~ CloserTakes(i)
  <2>1. closer = Idle
    BY <1>1, <1>3 DEF ClosedOK
  <2> QED BY <2>1 DEF CloserTakes, Idle
<1>14. \A i \in Ids : CloserTakes(i)' <=> i \in M
  BY <1>3 DEF CloserTakes
<1>15. \A g \in Handlers, i \in Ids : Takes(g, i)' <=> Takes(g, i)
  BY <1>3 DEF Takes
<1> QED BY <1>6, <1>11, <1>12, <1>13, <1>14, <1>15, HandoverToCloser

\* Sync replaces the sockets of a party and hands the old ones to the handler.
LEMMA SyncKeeps ==
    ASSUME SocketInv, NEW h \in Handlers, Sync(h)
    PROVE  SocketInv'
<1>1. /\ TypeOK /\ HandsOK /\ CloserOK /\ LoopsOK /\ ClosedOK /\ TableOK /\ Exclusive
      /\ OpenOwned /\ PortsDistinct /\ PortsUsed
      /\ Len(made) \in Nat /\ table \in [Keys -> 0 .. Len(made)] /\ used \subseteq Ports
      /\ hand \in [Handlers -> HandStates] /\ hand[h] \in HandStates /\ hand[h].at = "bound"
  <2>1. /\ TypeOK /\ HandsOK /\ CloserOK /\ LoopsOK /\ ClosedOK /\ TableOK /\ Exclusive
        /\ OpenOwned /\ PortsDistinct /\ PortsUsed
    BY DEF SocketInv, RecordsOK
  <2>2. made \in Seq(Legs) /\ table \in [Keys -> 0 .. Len(made)] /\ used \subseteq Ports
    BY <2>1 DEF TypeOK
  <2>3. hand \in [Handlers -> HandStates]
    BY <2>1 DEF HandsOK
  <2>4. hand[h] \in HandStates
    BY <2>3
  <2>6. hand[h].at = "bound"
    BY DEF Sync
  <2>5. Len(made) \in Nat
    BY <2>2
  <2> QED BY <2>1, <2>2, <2>3, <2>4, <2>5, <2>6
<1>2. PICK p \in Parties, bs \in SUBSET Bindings : p = hand[h].party /\ bs = hand[h].bindings
  BY <1>1, HandForms
<1>3. PICK F, N, R, New : /\ F = Fresh(p, bs) /\ N = Cardinality(F) /\ R = Replaced(p, bs)
                          /\ New = Len(made) + 1 .. Len(made) + N
  OBVIOUS
<1>4. /\ ~ closed /\ Len(made) + N <= MaxMade /\ N <= Cardinality(Bindable)
      /\ SyncLocked(p, bs)
      /\ hand' = [hand EXCEPT ![h] = Finishing(R, New)]
      /\ UNCHANGED <<party, gen, closed, owed, closer>> /\ adrift' \subseteq Parties
  <2>1. adrift \subseteq Parties
    BY <1>1 DEF TypeOK
  <2> QED BY <1>2, <1>3, <2>1 DEF Sync, Fresh, MaySync
<1>5. /\ N \in Nat /\ F \in SUBSET Keys /\ \A k \in F : k[1] = p
      /\ SyncKeepsOld(N) /\ SyncOpensNew(p, bs, F, N) /\ SyncEntries(p, bs, F, N)
  BY <1>1, <1>3, <1>4, SyncEffect
<1>6. \A i : i \in R <=> \E k \in Keys : /\ k[1] = p /\ table[k] # 0 /\ k \notin Kept(p, bs)
                                         /\ table[k] = i
  BY <1>3 DEF Replaced
<1>7. /\ \A i \in Ids' : i \in Ids \/ i \in New
      /\ \A i \in Ids : i \in Ids' /\ i \notin New
      /\ \A i \in New : i \in Ids' /\ i \notin Ids
      /\ Ids' = 1 .. Len(made')
  BY <1>1, <1>3, <1>5 DEF Ids, SyncKeepsOld
<1>8. \A i \in Ids : made'[i] = made[i] /\ loop'[i] = loop[i]
  BY <1>5 DEF SyncKeepsOld, Ids
<1>9. /\ \A i \in New : /\ made'[i].key \in F /\ made'[i].open
                        /\ table'[made'[i].key] = i
                        /\ made'[i].port \in Ports \ used
                        /\ \A j \in Ids : made[j].port = made'[i].port => ~ made[j].open
                        /\ loop'[i] = Unborn
      /\ \A i, j \in New : made'[i].port = made'[j].port => i = j
      /\ \A k \in F : table'[k] \in New /\ made'[table'[k]].key = k
  BY <1>3, <1>5 DEF SyncOpensNew
<1>10. \A k \in Keys \ F :
         table'[k] = IF k[1] = p /\ k \notin Kept(p, bs) THEN 0 ELSE table[k]
  BY <1>5 DEF SyncEntries
<1>11. \A k \in F : k \notin Kept(p, bs)
  BY <1>3 DEF Fresh
<1>12. \A k \in Keys : table[k] # 0 => table[k] \in Ids
  BY <1>1 DEF Ids
<1>13. R \in SUBSET Ids /\ R \in SUBSET Nat /\ New \in SUBSET Nat
  BY <1>1, <1>3, <1>5, <1>6, <1>12 DEF Ids
<1>14. \A i \in Ids : i # 0
  BY DEF Ids
<1>15. \A k \in Keys : table[k] # 0 => (table[k] \in R <=> k[1] = p /\ k \notin Kept(p, bs))
  <2> SUFFICES ASSUME NEW k \in Keys, table[k] # 0
               PROVE  table[k] \in R <=> k[1] = p /\ k \notin Kept(p, bs)
    OBVIOUS
  <2>1. \A j \in Keys : table[j] = table[k] => j = k
    BY <1>1 DEF TableOK
  <2> QED BY <1>6, <2>1
<1>16. \A i \in Ids : Tabled(i)' <=> Tabled(i) /\ i \notin R
  <2>1. ASSUME NEW i \in Ids, Tabled(i)' PROVE Tabled(i) /\ i \notin R
    <3>1. PICK k \in Keys : table'[k] = i
      BY <2>1 DEF Tabled
    <3>2. k \notin F
      BY <1>7, <1>9, <3>1
    <3>3. table[k] = i /\ ~ (k[1] = p /\ k \notin Kept(p, bs))
      BY <1>10, <1>14, <3>1, <3>2
    <3>4. Tabled(i)
      BY <3>3 DEF Tabled
    <3> QED BY <1>14, <1>15, <3>3, <3>4
  <2>2. ASSUME NEW i \in Ids, Tabled(i), i \notin R PROVE Tabled(i)'
    <3>1. PICK k \in Keys : table[k] = i
      BY <2>2 DEF Tabled
    <3>2. ~ (k[1] = p /\ k \notin Kept(p, bs))
      BY <1>14, <1>15, <2>2, <3>1
    <3>3. k \notin F
      BY <1>5, <1>11, <3>2
    <3>4. table'[k] = i
      BY <1>10, <3>1, <3>2, <3>3
    <3> QED BY <3>4 DEF Tabled
  <2> QED BY <2>1, <2>2
<1>17. \A i \in New : Tabled(i)'
  BY <1>5, <1>9 DEF Tabled
<1> DEFINE s == Finishing(R, New)
<1>18. s \in HandStates
  BY <1>13, HandsMade
<1>19. /\ s.at = "finish" => s.toClose = R /\ s.toStart = New
       /\ s.at = "finish" <=> R # {} \/ New # {}
  BY FinishingIs
<1> HIDE DEF s
<1>20. hand'[h] = s /\ \A g \in Handlers \ {h} : hand'[g] = hand[g]
  BY <1>1, <1>4 DEF s
<1>21. Len(made') \in Nat /\ Len(made) <= Len(made') /\ Len(made') <= MaxMade
       /\ Len(made') = Len(made) + N
  BY <1>1, <1>4, <1>5 DEF SyncKeepsOld
<1>22. HandsOK' /\ DOMAIN hand' = Handlers
  <2>1. s.at = "finish" => /\ s.toClose \subseteq 1 .. Len(made')
                           /\ s.toStart \subseteq 1 .. Len(made')
                           /\ s.toClose # {} \/ s.toStart # {}
    BY <1>7, <1>13, <1>19
  <2>2. hand' = [hand EXCEPT ![h] = s]
    BY <1>4 DEF s
  <2> QED BY <1>1, <1>18, <1>21, <2>1, <2>2, HandMoves
<1>23. CloserOK'
  BY <1>1, <1>4, <1>21, CloserStays
<1>24. LoopsOK'
  <2>1. loop' \in Seq(LoopStates) /\ Len(loop') = Len(made')
    BY <1>5 DEF SyncKeepsOld
  <2>2. ASSUME NEW i \in Ids', loop'[i].at \in {"found", "ready"} PROVE loop'[i].leg \in Ids'
    <3>1. CASE i \in Ids
      BY <1>1, <1>7, <1>8, <2>2, <3>1 DEF LoopsOK
    <3>2. CASE i \in New
      BY <1>9, <2>2, <3>2 DEF Unborn
    <3> QED BY <1>7, <3>1, <3>2
  <2> QED BY <2>1, <2>2 DEF LoopsOK
<1>25. TypeOK'
  <2>1. made' \in Seq(Legs) /\ DOMAIN loop' = Ids'
    BY <1>5, <1>7 DEF SyncKeepsOld
  <2>2. table' \in [Keys -> 0 .. Len(made')] /\ used' \subseteq Ports
    BY <1>5, <1>21 DEF SyncEntries
  <2> QED BY <1>1, <1>4, <1>21, <1>22, <2>1, <2>2 DEF TypeOK
<1>26. RecordsOK'
  BY <1>22, <1>23, <1>24, <1>25 DEF RecordsOK
<1>27. ClosedOK'
  BY <1>1, <1>4 DEF ClosedOK
<1>28. \A g \in Handlers, i \in Ids' : Takes(g, i)' <=> Takes(g, i) \/ (g = h /\ i \in R)
  <2> SUFFICES ASSUME NEW g \in Handlers, NEW i \in Ids'
               PROVE  Takes(g, i)' <=> Takes(g, i) \/ (g = h /\ i \in R)
    OBVIOUS
  <2>1. CASE g = h
    BY <1>1, <1>19, <1>20, <2>1 DEF Takes
  <2>2. CASE g # h
    BY <1>20, <2>2 DEF Takes
  <2> QED BY <2>1, <2>2
<1>29. /\ \A g \in Handlers, i \in New : ~ Takes(g, i)
       /\ \A i : CloserTakes(i)' <=> CloserTakes(i)
       /\ \A i \in New : ~ CloserTakes(i)
       /\ \A i \in Ids : ~ Takes(h, i)
  <2>1. \A g \in Handlers, i \in New : ~ Takes(g, i)
    BY <1>1, <1>7 DEF HandsOK, Takes
  <2>2. \A i : CloserTakes(i)' <=> CloserTakes(i)
    BY <1>4 DEF CloserTakes
  <2>3. \A i \in New : ~ CloserTakes(i)
    BY <1>1, <1>7 DEF CloserOK, CloserTakes
  <2>4. \A i \in Ids : ~ Takes(h, i)
    BY <1>1 DEF Takes
  <2> QED BY <2>1, <2>2, <2>3, <2>4
<1>30. \A i \in R : Tabled(i) /\ i \in Ids
  BY <1>6, <1>13 DEF Tabled
<1>31. TableOK'
  <2> SUFFICES ASSUME NEW k \in Keys, table'[k] # 0 PROVE made'[table'[k]].key = k
    BY DEF TableOK
  <2>1. CASE k \in F
    BY <1>9, <2>1
  <2>2. CASE k \notin F
    <3>1. table'[k] = table[k]
      BY <1>10, <2>2
    <3> QED BY <1>1, <1>8, <1>12, <3>1 DEF TableOK
  <2> QED BY <2>1, <2>2
<1>32. Exclusive'
  <2>1. ASSUME NEW g \in Handlers, NEW i \in Ids', Takes(g, i)'
        PROVE  /\ ~ Tabled(i)' /\ ~ CloserTakes(i)'
               /\ \A f \in Handlers : Takes(f, i)' => f = g
    <3>1. i \in Ids
      BY <1>7, <1>13, <1>28, <1>29, <2>1
    <3>2. CASE g = h /\ i \in R
      <4>1. Tabled(i)
        BY <1>30, <3>2
      <4>2. \A f \in Handlers : ~ Takes(f, i)
        BY <1>1, <3>1, <4>1 DEF Exclusive
      <4>3. ~ CloserTakes(i)
        BY <1>1, <3>1, <4>1 DEF Exclusive
      <4>4. \A f \in Handlers : Takes(f, i)' => f = h
        BY <1>28, <4>2
      <4> QED BY <1>16, <1>29, <3>1, <3>2, <4>3, <4>4
    <3>3. CASE Takes(g, i)
      <4>1. ~ Tabled(i) /\ ~ CloserTakes(i) /\ \A f \in Handlers : Takes(f, i) => f = g
        BY <1>1, <3>1, <3>3 DEF Exclusive
      <4>2. i \notin R
        BY <1>30, <4>1
      <4>3. \A f \in Handlers : Takes(f, i)' => f = g
        BY <1>28, <4>1, <4>2
      <4> QED BY <1>16, <1>29, <3>1, <4>1, <4>3
    <3> QED BY <1>28, <2>1, <3>2, <3>3
  <2>2. ASSUME NEW i \in Ids', CloserTakes(i)' PROVE ~ Tabled(i)'
    <3>1. i \in Ids /\ CloserTakes(i)
      BY <1>7, <1>29, <2>2
    <3>2. ~ Tabled(i)
      BY <1>1, <3>1 DEF Exclusive
    <3> QED BY <1>16, <3>1, <3>2
  <2> QED BY <2>1, <2>2 DEF Exclusive
<1>33. OpenOwned'
  <2>1. ASSUME NEW i \in Ids'
        PROVE  made'[i].open <=>
                 Tabled(i)' \/ CloserTakes(i)' \/ \E g \in Handlers : Takes(g, i)'
    <3>1. CASE i \in New
      BY <1>9, <1>17, <3>1
    <3>2. CASE i \in Ids
      <4>1. made'[i].open <=> Tabled(i) \/ CloserTakes(i) \/ \E g \in Handlers : Takes(g, i)
        BY <1>1, <1>8, <3>2 DEF OpenOwned
      <4>2. CASE i \in R
        <5>1. Tabled(i) /\ Takes(h, i)'
          BY <1>28, <1>30, <4>2
        <5> QED BY <4>1, <5>1
      <4>3. CASE i \notin R
        <5>1. \A g \in Handlers : Takes(g, i)' <=> Takes(g, i)
          BY <1>28, <4>3
        <5>2. (Tabled(i)' <=> Tabled(i)) /\ (CloserTakes(i)' <=> CloserTakes(i))
          BY <1>16, <1>29, <3>2, <4>3
        <5> QED BY <4>1, <5>1, <5>2, Zenon
      <4> QED BY <4>2, <4>3
    <3> QED BY <1>7, <3>1, <3>2
  <2> QED BY <2>1 DEF OpenOwned
<1>34. PortsDistinct'
  <2>1. ASSUME NEW i \in Ids', NEW j \in Ids', made'[i].open, made'[j].open,
               made'[i].port = made'[j].port
        PROVE  i = j
    <3>1. CASE i \in Ids /\ j \in Ids
      BY <1>1, <1>8, <2>1, <3>1 DEF PortsDistinct
    <3>2. CASE i \in New /\ j \in New
      BY <1>9, <2>1, <3>2
    <3>3. CASE i \in New /\ j \in Ids
      BY <1>8, <1>9, <2>1, <3>3
    <3>4. CASE i \in Ids /\ j \in New
      BY <1>8, <1>9, <2>1, <3>4
    <3> QED BY <1>7, <3>1, <3>2, <3>3, <3>4
  <2> QED BY <2>1 DEF PortsDistinct
<1>35. PortsUsed'
  <2>1. ASSUME NEW n \in Ports
        PROVE  n \in used' <=> \E k \in Keys : table'[k] # 0 /\ made'[table'[k]].port = n
    <3>1. n \in used' <=> \/ n \in used /\ ~ \E i \in R : made[i].port = n
                          \/ \E i \in New : made'[i].port = n
      BY <1>3, <1>5 DEF SyncEntries
    <3>2. n \in used <=> \E k \in Keys : table[k] # 0 /\ made[table[k]].port = n
      BY <1>1 DEF PortsUsed
    <3>3. ASSUME NEW i \in New, made'[i].port = n
          PROVE  \E k \in Keys : table'[k] # 0 /\ made'[table'[k]].port = n
      <4>1. made'[i].key \in Keys /\ table'[made'[i].key] = i /\ i # 0
        BY <1>1, <1>3, <1>5, <1>9
      <4> QED BY <3>3, <4>1
    <3>4. ASSUME n \in used, ~ \E i \in R : made[i].port = n
          PROVE  \E k \in Keys : table'[k] # 0 /\ made'[table'[k]].port = n
      <4>1. PICK k \in Keys : table[k] # 0 /\ made[table[k]].port = n
        BY <3>2, <3>4
      <4>2. table[k] \notin R
        BY <3>4, <4>1
      <4>3. ~ (k[1] = p /\ k \notin Kept(p, bs)) /\ k \notin F
        BY <1>5, <1>11, <1>15, <4>1, <4>2
      <4>4. table'[k] = table[k] /\ made'[table[k]] = made[table[k]]
        BY <1>8, <1>10, <1>12, <4>1, <4>3
      <4> QED BY <4>1, <4>4
    <3>5. ASSUME NEW k \in Keys, table'[k] # 0, made'[table'[k]].port = n PROVE n \in used'
      <4>1. CASE k \in F
        BY <1>9, <3>1, <3>5, <4>1
      <4>2. CASE k \notin F
        <5>1. table'[k] = table[k] /\ table[k] \in Ids /\ ~ (k[1] = p /\ k \notin Kept(p, bs))
          BY <1>10, <1>12, <3>5, <4>2
        <5>2. made[table[k]].port = n /\ n \in used
          BY <1>8, <3>2, <3>5, <5>1
        <5>3. table[k] \notin R
          BY <1>15, <3>5, <5>1
        <5>4. ASSUME NEW i \in R, made[i].port = n PROVE FALSE
          <6>1. Tabled(i) /\ i \in Ids /\ Tabled(table[k])
            BY <1>30 DEF Tabled
          <6>2. made[i].open /\ made[table[k]].open
            BY <1>1, <5>1, <6>1 DEF OpenOwned
          <6>3. i = table[k]
            BY <1>1, <5>1, <5>2, <5>4, <6>1, <6>2 DEF PortsDistinct
          <6> QED BY <5>3, <6>3
        <5> QED BY <3>1, <5>2, <5>4
      <4> QED BY <4>1, <4>2
    <3> QED BY <3>1, <3>3, <3>4, <3>5
  <2> QED BY <2>1 DEF PortsUsed
<1> QED BY <1>26, <1>27, <1>31, <1>32, <1>33, <1>34, <1>35 DEF SocketInv

-----------------------------------------------------------------------------
(* The sockets. *)

\* The relay starts without sockets.
LEMMA SocketInit == Init => SocketInv
<1> SUFFICES ASSUME Init PROVE SocketInv
  OBVIOUS
<1>1. /\ MaxGen \in Nat \ {0} /\ MaxMade \in Nat
  BY RelayAssumption DEF RelayAssumption
<1>2. made = << >> /\ loop = << >> /\ Len(made) = 0 /\ Ids = {} /\ Len(loop) = 0
  BY DEF Init, Ids
<1>3. TypeOK
  <2>1. party \in [Parties -> SUBSET Characters] /\ gen \in [Characters -> 1 .. MaxGen]
    BY <1>1 DEF Init
  <2>2. table \in [Keys -> 0 .. Len(made)] /\ made \in Seq(Legs)
    BY <1>2 DEF Init
  <2>3. DOMAIN loop = Ids
    BY <1>2
  <2>4. used \subseteq Ports /\ closed \in BOOLEAN /\ DOMAIN hand = Handlers
        /\ adrift \subseteq Parties /\ owed \in [Handlers -> SUBSET Calls]
    BY DEF Init
  <2>5. Len(made) <= MaxMade
    BY <1>1, <1>2
  <2> QED BY <2>1, <2>2, <2>3, <2>4, <2>5 DEF TypeOK
<1>4. \A h \in Handlers : hand[h] = Idle
  BY DEF Init
<1>5. HandsOK
  BY <1>4, HandsMade DEF Init, HandsOK, Idle
<1>6. CloserOK
  BY DEF Init, CloserOK, CloserStates, Idle
<1>7. LoopsOK
  BY <1>2 DEF LoopsOK
<1>8. RecordsOK
  BY <1>3, <1>5, <1>6, <1>7 DEF RecordsOK
<1>9. \A k \in Keys : table[k] = 0
  BY DEF Init
<1>10. TableOK /\ Exclusive /\ OpenOwned /\ PortsDistinct
  BY <1>2, <1>9 DEF TableOK, Exclusive, OpenOwned, PortsDistinct
<1>11. PortsUsed
  BY <1>9 DEF Init, PortsUsed
<1>12. ClosedOK
  BY <1>9 DEF Init, ClosedOK
<1> QED BY <1>8, <1>10, <1>11, <1>12 DEF SocketInv

\* Every step keeps them accounted for.
LEMMA SocketStep == SocketInv /\ [Next]_vars => SocketInv'
<1> SUFFICES ASSUME SocketInv, [Next]_vars PROVE SocketInv'
  OBVIOUS
<1>1. CASE (\E h \in Handlers : Unheld(h)) \/ \E c \in Characters : Reconnect(c)
  BY <1>1, HandlersKeepSockets
<1>2. ASSUME NEW h \in Handlers,
             Sync(h) \/ CloseParty(h) \/ CloseSocket(h) \/ StartLoop(h)
      PROVE  SocketInv'
  BY <1>2, SyncKeeps, ClosePartyKeeps, CloseSocketKeeps, StartLoopKeeps
<1>3. CASE CloseRelay \/ CloserCloses \/ CloserWaits
  BY <1>3, CloseRelayKeeps, CloserClosesKeeps, CloserWaitsKeeps
<1>4. ASSUME NEW i \in Ids, LoopStep(i) \/ \E from \in Endpoints : Receive(i, from)
      PROVE  SocketInv'
  BY <1>4, LoopsKeepSockets
<1>5. CASE UNCHANGED vars
  <2>1. UNCHANGED <<party, gen, made, table, used, closed, loop, owed, hand, closer, adrift>>
    BY <1>5 DEF vars, relayVars
  <2>2. RecordsOK'
    <3>1. TypeOK'
      BY <2>1 DEF SocketInv, RecordsOK, TypeOK, Ids
    <3>2. HandsOK' /\ LoopsOK' /\ CloserOK'
      BY <2>1 DEF SocketInv, RecordsOK, HandsOK, LoopsOK, CloserOK, Ids
    <3> QED BY <3>1, <3>2 DEF RecordsOK
  <2>3. ClosedOK'
    BY <2>1 DEF SocketInv, ClosedOK
  <2>4. Steady
    BY <2>1 DEF Steady, Takes, CloserTakes
  <2> QED BY <2>2, <2>3, <2>4, SteadyKeeps
<1> QED BY <1>1, <1>2, <1>3, <1>4, <1>5 DEF Next, HandlerStep, Unheld

\* The invariant of the relay's sockets holds in every state.
THEOREM SocketInvHolds == Spec => []SocketInv
BY SocketInit, SocketStep, PTL DEF Spec

\* The sockets that are taken out and not yet closed.
LEMMA DoomedIs ==
    \A i : i \in Doomed <=> CloserTakes(i) \/ \E h \in Handlers : Takes(h, i)
<1> DEFINE G == {g \in Handlers : hand[g].at = "finish"}
           A == UNION {hand[h].toClose : h \in G}
           B == IF closer.at = "closing" THEN closer.toClose ELSE {}
<1>1. Doomed = A \cup B
  BY DEF Doomed
<1>2. \A i : i \in A <=> \E h \in Handlers : Takes(h, i)
  BY Zenon DEF Takes
<1>3. \A i : i \in B <=> CloserTakes(i)
  BY DEF CloserTakes
<1> HIDE DEF A, B
<1> QED BY <1>1, <1>2, <1>3, Zenon

\* No two open sockets share a port, usedPorts names exactly the ports of the
\* table, and every open socket is in the table or about to be closed by the
\* handler or the Close that took it out.
THEOREM SocketsAreAccounted == Spec => []SocketsAccounted
<1>1. SocketInv => SocketsAccounted
  <2> SUFFICES ASSUME SocketInv PROVE SocketsAccounted
    OBVIOUS
  <2>1. /\ TypeOK /\ HandsOK /\ CloserOK /\ table \in [Keys -> 0 .. Len(made)]
        /\ used \subseteq Ports /\ made \in Seq(Legs)
    BY DEF SocketInv, RecordsOK, TypeOK
  <2>2. \A i \in Ids : i # 0 /\ made[i].port \in Ports
    <3>1. \A i \in Ids : i # 0 /\ made[i] \in Legs
      BY <2>1 DEF Ids
    <3> QED BY <3>1 DEF Legs
  <2>3. \A i : i \in InTable <=> i # 0 /\ Tabled(i)
    BY DEF InTable, Tabled
  <2>4. \A i \in InTable : i \in Ids
    BY <2>1, <2>3 DEF Tabled, Ids
  <2>5. used = {made[i].port : i \in InTable}
    <3>1. ASSUME NEW n \in used PROVE n \in {made[i].port : i \in InTable}
      <4>1. PICK k \in Keys : table[k] # 0 /\ made[table[k]].port = n
        BY <2>1, <3>1 DEF SocketInv, PortsUsed
      <4>2. table[k] \in InTable
        BY <2>3, <4>1 DEF Tabled
      <4> QED BY <4>1, <4>2
    <3>2. ASSUME NEW i \in InTable PROVE made[i].port \in used
      <4>1. PICK k \in Keys : table[k] = i /\ i # 0
        BY <2>3 DEF Tabled
      <4>2. made[i].port \in Ports
        BY <2>2, <2>4
      <4> QED BY <4>1, <4>2 DEF SocketInv, PortsUsed
    <3> QED BY <3>1, <3>2
  <2>6. \A i : i \in Doomed <=> CloserTakes(i) \/ \E h \in Handlers : Takes(h, i)
    BY DoomedIs
  <2>7. \A i \in Ids : made[i].open <=> i \in InTable \cup Doomed
    BY <2>2, <2>3, <2>6 DEF SocketInv, OpenOwned
  <2> QED BY <2>1, <2>5, <2>7 DEF SocketInv, PortsDistinct, SocketsAccounted
<1> QED BY <1>1, SocketInvHolds, PTL

-----------------------------------------------------------------------------
(* The table follows the parties. *)

\* What the bindings of a party say of a pair.
LEMMA BindingsAre ==
    ASSUME NEW p \in Parties, NEW bs, bs = BindingsOf(party[p])
    PROVE  /\ \A k \in Keys : k[2] \in party[p] =>
                WantedOf(p, bs, k) = [character |-> k[2], gen |-> gen[k[2]]]
           /\ \A k \in Keys : k[1] = p =>
                (k \in Wanted(p, bs) <=> k[2] \in party[p] /\ k[3] \in party[p])
<1>1. bs = {[character |-> c, gen |-> gen[c]] : c \in party[p]}
  BY DEF BindingsOf
<1>2. \A c : (\E b \in bs : b.character = c) <=> c \in party[p]
  <2>1. ASSUME NEW c \in party[p] PROVE \E b \in bs : b.character = c
    <3>1. [character |-> c, gen |-> gen[c]] \in bs
      BY <1>1
    <3> QED BY <3>1
  <2>2. ASSUME NEW c, NEW b \in bs, b.character = c PROVE c \in party[p]
    BY <1>1, <2>2
  <2> QED BY <2>1, <2>2
<1>3. ASSUME NEW k \in Keys, k[2] \in party[p]
      PROVE  WantedOf(p, bs, k) = [character |-> k[2], gen |-> gen[k[2]]]
  <2>1. \A b \in bs : b.character = k[2] => b = [character |-> k[2], gen |-> gen[k[2]]]
    BY <1>1
  <2>2. \E b \in bs : b.character = k[2]
    BY <1>2, <1>3
  <2> HIDE <1>1
  <2> QED BY <2>1, <2>2 DEF WantedOf
<1>4. \A k \in Keys : k[1] = p =>
        (k \in Wanted(p, bs) <=> k[2] \in party[p] /\ k[3] \in party[p])
  <2> HIDE <1>1
  <2> QED BY <1>2 DEF Wanted
<1> QED BY <1>3, <1>4

\* Matches is Followed.
LEMMA MatchesIs ==
    ASSUME NEW p \in Parties
    PROVE  Matches(p) <=> Followed(p)
<1>1. PICK bs : bs = BindingsOf(party[p])
  OBVIOUS
<1>2. /\ \A k \in Keys : k[2] \in party[p] =>
           WantedOf(p, bs, k) = [character |-> k[2], gen |-> gen[k[2]]]
      /\ \A k \in Keys : k[1] = p =>
           (k \in Wanted(p, bs) <=> k[2] \in party[p] /\ k[3] \in party[p])
  BY <1>1, BindingsAre
<1>3. Matches(p) <=>
        \A k \in Keys : k[1] = p =>
          IF k \in Wanted(p, bs)
          THEN table[k] # 0 /\ made[table[k]].binding = WantedOf(p, bs, k)
          ELSE table[k] = 0
  BY <1>1 DEF Matches
<1> QED BY <1>2, <1>3 DEF Followed

\* What is not touched stays followed.
LEMMA FollowedStays ==
    ASSUME NEW p \in Parties, Followed(p), party'[p] = party[p],
           \A c \in party[p] : gen'[c] = gen[c],
           \A k \in Keys : k[1] = p =>
             /\ table'[k] = table[k]
             /\ table[k] # 0 => made'[table[k]].binding = made[table[k]].binding
    PROVE  Followed(p)'
<1> SUFFICES ASSUME NEW k \in Keys, k[1] = p
             PROVE  IF k[2] \in party'[p] /\ k[3] \in party'[p]
                    THEN /\ table'[k] # 0
                         /\ made'[table'[k]].binding = [character |-> k[2], gen |-> gen'[k[2]]]
                    ELSE table'[k] = 0
  BY DEF Followed
<1>1. IF k[2] \in party[p] /\ k[3] \in party[p]
      THEN /\ table[k] # 0
           /\ made[table[k]].binding = [character |-> k[2], gen |-> gen[k[2]]]
      ELSE table[k] = 0
  BY DEF Followed
<1>2. CASE k[2] \in party[p] /\ k[3] \in party[p]
  <2>1. gen'[k[2]] = gen[k[2]] /\ table'[k] = table[k] /\ table[k] # 0
    BY <1>1, <1>2
  <2>2. made'[table[k]].binding = made[table[k]].binding
    BY <2>1
  <2> QED BY <1>1, <1>2, <2>1, <2>2
<1>3. CASE ~ (k[2] \in party[p] /\ k[3] \in party[p])
  BY <1>1, <1>3
<1> QED BY <1>2, <1>3

\* A step of handler h: every party is put right, or set adrift, or keeps
\* what it had of its sockets and of h.
LEMMA OneMoves ==
    ASSUME FollowInv, NEW h \in Handlers, party' = party, closed' = closed,
           \A g \in Handlers \ {h} : hand'[g] = hand[g] /\ owed'[g] = owed[g],
           \A p \in Parties \ adrift' :
             \/ Followed(p)'
             \/ /\ p \notin adrift
                /\ Followed(p) => Followed(p)'
                /\ HasClose(h, p) /\ Lone(party[p]) => HasClose(h, p)'
                /\ HasSync(h, p) /\ ~ Lone(party[p]) => HasSync(h, p)'
    PROVE  FollowInv'
<1> SUFFICES ASSUME ~ closed, NEW p \in Parties \ adrift' PROVE Attended(p)'
  BY DEF FollowInv
<1>1. CASE Followed(p)'
  BY <1>1 DEF Attended
<1>2. CASE /\ p \notin adrift
           /\ Followed(p) => Followed(p)'
           /\ HasClose(h, p) /\ Lone(party[p]) => HasClose(h, p)'
           /\ HasSync(h, p) /\ ~ Lone(party[p]) => HasSync(h, p)'
  <2>1. Attended(p)
    BY <1>2 DEF FollowInv
  <2>2. \A g \in Handlers \ {h} : /\ HasClose(g, p) => HasClose(g, p)'
                                  /\ HasSync(g, p) => HasSync(g, p)'
    BY DEF HasClose, HasSync
  <2>3. CASE Followed(p)
    BY <1>2, <2>3 DEF Attended
  <2>4. ASSUME Lone(party[p]), NEW g \in Handlers, HasClose(g, p) PROVE Attended(p)'
    <3>1. HasClose(g, p)' /\ Lone(party'[p])
      BY <1>2, <2>2, <2>4
    <3> QED BY <3>1 DEF Attended
  <2>5. ASSUME ~ Lone(party[p]), NEW g \in Handlers, HasSync(g, p) PROVE Attended(p)'
    <3>1. HasSync(g, p)' /\ ~ Lone(party'[p])
      BY <1>2, <2>2, <2>5
    <3> QED BY <3>1 DEF Attended
  <2> QED BY <2>1, <2>3, <2>4, <2>5 DEF Attended
<1> QED BY <1>1, <1>2

\* Whether a handler is on its way to a party.
Underway(s) == s.at \in {"read", "hold", "bound", "retire"}

\* Nothing changes but the hands that are on no way.
LEMMA FollowQuiet ==
    ASSUME FollowInv, UNCHANGED <<party, gen, table, closed, owed, adrift>>,
           \A g \in Handlers : \/ hand'[g] = hand[g]
                               \/ ~ Underway(hand[g]) /\ ~ Underway(hand'[g]),
           \A k \in Keys : table[k] # 0 =>
             made'[table[k]].binding = made[table[k]].binding
    PROVE  FollowInv'
<1> SUFFICES ASSUME ~ closed, NEW p \in Parties \ adrift PROVE Attended(p)'
  BY DEF FollowInv
<1>1. Followed(p) => Followed(p)'
  BY FollowedStays
<1>2. \A g \in Handlers : HasClose(g, p) => HasClose(g, p)'
  BY DEF HasClose, Underway
<1>3. \A g \in Handlers : HasSync(g, p) => HasSync(g, p)'
  BY DEF HasSync, Underway
<1>4. Attended(p)
  BY DEF FollowInv
<1> QED BY <1>1, <1>2, <1>3, <1>4 DEF Attended

\* Whoever changes a party has the call it needs before him.
LEMMA ChangeFollows ==
    ASSUME RelayInv, NEW h \in Handlers, NEW new \in [Parties -> SUBSET Characters],
           Change(h, new)
    PROVE  FollowInv'
<1>1. /\ owed \in [Handlers -> SUBSET Calls] /\ FollowInv
  BY DEF RelayInv, SocketInv, RecordsOK, TypeOK
<1> DEFINE o == {CallFor(p, new[p]) : p \in {q \in Parties : new[q] # party[q]}}
<1>2. /\ owed' = [owed EXCEPT ![h] = o] /\ hand' = hand /\ owed[h] = {} /\ hand[h].at = "idle"
      /\ party' = new /\ gen' = gen /\ table' = table /\ made' = made /\ closed' = closed
      /\ adrift' = adrift
  BY DEF Change, Free, Idle, relayVars
<1>3. owed'[h] = o /\ \A g \in Handlers \ {h} : owed'[g] = owed[g]
  BY <1>1, <1>2
<1> SUFFICES ASSUME ~ closed, NEW p \in Parties \ adrift PROVE Attended(p)'
  BY <1>2 DEF FollowInv
<1>4. CASE new[p] # party[p]
  <2>1. CallFor(p, new[p]) \in owed'[h]
    BY <1>3, <1>4
  <2>2. Lone(new[p]) => HasClose(h, p)'
    <3>1. ASSUME Lone(new[p]) PROVE CallFor(p, new[p]) = [op |-> "close", party |-> p]
      BY <3>1 DEF CallFor
    <3> QED BY <2>1, <3>1 DEF HasClose
  <2>3. ~ Lone(new[p]) => HasSync(h, p)'
    <3>1. ASSUME ~ Lone(new[p]) PROVE CallFor(p, new[p]) = [op |-> "sync", party |-> p]
      BY <3>1 DEF CallFor
    <3> QED BY <2>1, <3>1 DEF HasSync
  <2>4. CASE Lone(new[p])
    BY <1>2, <2>2, <2>4 DEF Attended
  <2>5. CASE ~ Lone(new[p])
    BY <1>2, <2>3, <2>5 DEF Attended
  <2> QED BY <2>4, <2>5
<1>5. CASE new[p] = party[p]
  <2>1. Followed(p) => Followed(p)'
    BY <1>2, <1>5, FollowedStays
  <2>2. \A g \in Handlers : HasClose(g, p) => HasClose(g, p)'
    BY <1>2, <1>3 DEF HasClose
  <2>3. \A g \in Handlers : HasSync(g, p) => HasSync(g, p)'
    BY <1>2, <1>3 DEF HasSync
  <2>4. Attended(p) /\ party'[p] = party[p]
    BY <1>1, <1>2, <1>5 DEF FollowInv
  <2> QED BY <2>1, <2>2, <2>3, <2>4 DEF Attended
<1> QED BY <1>4, <1>5

\* A party whose member is in a new session is adrift.
LEMMA ReconnectFollows ==
    ASSUME RelayInv, NEW c \in Characters, Reconnect(c)
    PROVE  FollowInv'
<1>1. gen \in [Characters -> 1 .. MaxGen] /\ party \in [Parties -> SUBSET Characters] /\ FollowInv
  BY DEF RelayInv, SocketInv, RecordsOK, TypeOK
<1>2. /\ gen' = [gen EXCEPT ![c] = gen[c] + 1]
      /\ adrift' = adrift \cup {p \in Parties : c \in party[p]}
      /\ party' = party /\ table' = table /\ made' = made /\ closed' = closed
      /\ owed' = owed /\ hand' = hand
  BY <1>1 DEF Reconnect, relayVars
<1> SUFFICES ASSUME ~ closed, NEW p \in Parties \ adrift' PROVE Attended(p)'
  BY <1>2 DEF FollowInv
<1>3. p \notin adrift /\ c \notin party[p]
  BY <1>2
<1>4. \A d \in party[p] : gen'[d] = gen[d]
  BY <1>1, <1>2, <1>3
<1>5. Followed(p) => Followed(p)'
  BY <1>2, <1>4, FollowedStays
<1>6. Attended(p)
  BY <1>1, <1>3 DEF FollowInv
<1> QED BY <1>2, <1>5, <1>6 DEF Attended, HasClose, HasSync

\* The steps before the relay is called keep the calls, or set their parties
\* adrift.
LEMMA UnheldFollows ==
    ASSUME RelayInv, NEW h \in Handlers, Unheld(h)
    PROVE  FollowInv'
<1>1. /\ SocketInv /\ FollowInv /\ hand \in [Handlers -> HandStates]
      /\ owed \in [Handlers -> SUBSET Calls] /\ hand[h] \in HandStates
  BY DEF RelayInv, SocketInv, RecordsOK, TypeOK, HandsOK
<1>2. Unholding(h)
  BY <1>1, UnheldSteps
<1>3. /\ \A g \in Handlers \ {h} : hand'[g] = hand[g] /\ owed'[g] = owed[g]
      /\ gen' = gen /\ made' = made /\ table' = table /\ closed' = closed
  BY <1>2 DEF Unholding, relayVars
<1>4. ASSUME party' = party PROVE \A p \in Parties : Followed(p) => Followed(p)'
  BY <1>3, <1>4, FollowedStays
<1>5. \A call \in owed[h] : call.op \in {"close", "sync"}
  BY <1>1 DEF Calls
<1>6. ASSUME NEW new \in [Parties -> SUBSET Characters], Change(h, new)
      PROVE  FollowInv'
  BY <1>6, ChangeFollows
<1>7. ASSUME NEW q \in Parties, Publish(h, q) PROVE FollowInv'
  <2>1. /\ hand[h].at = "idle" /\ owed[h] = {} /\ party' = party /\ adrift' = adrift
    BY <1>7 DEF Publish, Free, Idle
  <2>2. \A p \in Parties : ~ HasClose(h, p) /\ ~ HasSync(h, p)
    BY <2>1 DEF HasClose, HasSync
  <2> QED BY <1>1, <1>3, <1>4, <2>1, <2>2, OneMoves
<1>8. ASSUME NEW q \in Parties, Misdirect(h, q) PROVE FollowInv'
  <2>1. PICK call \in owed[h] : /\ adrift' = adrift \cup {call.party}
                                /\ owed' = [owed EXCEPT ![h] = owed[h] \ {call}]
    BY <1>1, <1>8 DEF Misdirect
  <2>2. hand[h].at = "idle" /\ party' = party /\ owed'[h] = owed[h] \ {call}
    BY <1>1, <1>8, <2>1 DEF Misdirect, Idle
  <2>3. ASSUME NEW p \in Parties \ adrift'
        PROVE  /\ p \notin adrift
               /\ HasClose(h, p) => HasClose(h, p)'
               /\ HasSync(h, p) => HasSync(h, p)'
    <3>1. p \notin adrift /\ call.party # p
      BY <2>1
    <3>2. \A c \in owed[h] : c.party = p => c \in owed'[h]
      BY <2>2, <3>1
    <3> QED BY <2>2, <3>1, <3>2 DEF HasClose, HasSync
  <2> QED BY <1>1, <1>3, <1>4, <2>2, <2>3, OneMoves
<1>9. ASSUME Deliver(h) PROVE FollowInv'
  <2>1. PICK call \in owed[h] :
          /\ hand' = [hand EXCEPT ![h] = IF call.op = "close" THEN Retiring(call.party)
                                         ELSE Reading(call.party)]
          /\ owed' = [owed EXCEPT ![h] = owed[h] \ {call}]
    BY <1>1, <1>9 DEF Deliver
  <2>2. /\ hand[h].at = "idle" /\ party' = party /\ adrift' = adrift
        /\ owed'[h] = owed[h] \ {call}
    BY <1>1, <1>9, <2>1 DEF Deliver, Idle
  <2>3. hand'[h] = IF call.op = "close" THEN Retiring(call.party) ELSE Reading(call.party)
    BY <1>1, <2>1
  <2>4. ASSUME NEW p \in Parties
        PROVE  /\ HasClose(h, p) => HasClose(h, p)'
               /\ HasSync(h, p) => HasSync(h, p)'
    <3>1. ASSUME NEW c \in owed[h], c.op = "close", c.party = p PROVE HasClose(h, p)'
      <4>1. CASE c = call
        <5>1. hand'[h] = Retiring(p)
          BY <2>3, <3>1, <4>1
        <5> QED BY <5>1 DEF HasClose, Retiring
      <4>2. CASE c # call
        BY <2>2, <3>1, <4>2 DEF HasClose
      <4> QED BY <4>1, <4>2
    <3>2. ASSUME NEW c \in owed[h], c.op = "sync", c.party = p PROVE HasSync(h, p)'
      <4>1. CASE c = call
        <5>1. hand'[h] = Reading(p)
          BY <2>3, <3>2, <4>1
        <5> QED BY <5>1 DEF HasSync, Reading
      <4>2. CASE c # call
        BY <2>2, <3>2, <4>2 DEF HasSync
      <4> QED BY <4>1, <4>2
    <3> QED BY <2>2, <3>1, <3>2 DEF HasClose, HasSync
  <2> QED BY <1>1, <1>3, <1>4, <2>2, <2>4, OneMoves
<1>10. ASSUME GiveUp(h) PROVE FollowInv'
  <2>1. /\ hand[h].at = "idle" /\ party' = party
        /\ adrift' = adrift \cup {call.party : call \in owed[h]}
    BY <1>10 DEF GiveUp, Idle
  <2>2. ASSUME NEW p \in Parties \ adrift'
        PROVE  p \notin adrift /\ ~ HasClose(h, p) /\ ~ HasSync(h, p)
    <3>1. p \notin adrift /\ \A c \in owed[h] : c.party # p
      BY <2>1
    <3> QED BY <2>1, <3>1 DEF HasClose, HasSync
  <2> QED BY <1>1, <1>3, <1>4, <2>1, <2>2, OneMoves
<1>11. ASSUME Snapshot(h) PROVE FollowInv'
  <2> DEFINE q == hand[h].party
             s == IF Lone(party[q]) THEN Idle ELSE Holding(q, party[q])
  <2>1. /\ hand[h].at = "read" /\ party' = party /\ adrift' = adrift /\ owed' = owed
        /\ hand' = [hand EXCEPT ![h] = s]
    BY <1>11 DEF Snapshot
  <2> HIDE DEF s
  <2>2. hand'[h] = s
    BY <1>1, <2>1
  <2>3. ASSUME NEW p \in Parties
        PROVE  /\ HasClose(h, p) => HasClose(h, p)'
               /\ HasSync(h, p) /\ ~ Lone(party[p]) => HasSync(h, p)'
    <3>1. HasClose(h, p) => HasClose(h, p)'
      BY <2>1 DEF HasClose
    <3>2. ASSUME ~ Lone(party[p]), q = p PROVE HasSync(h, p)'
      BY <2>2, <3>2 DEF HasSync, s, Holding
    <3>3. HasSync(h, p) /\ q # p => HasSync(h, p)'
      BY <2>1 DEF HasSync
    <3> QED BY <3>1, <3>2, <3>3
  <2> QED BY <1>1, <1>3, <1>4, <2>1, <2>3, OneMoves
<1>12. ASSUME ReadBindings(h) PROVE FollowInv'
  <2> DEFINE q == hand[h].party
             s == Bound(q, BindingsOf(hand[h].members))
  <2>1. /\ hand[h].at = "hold" /\ party' = party /\ adrift' = adrift /\ owed' = owed
        /\ hand' = [hand EXCEPT ![h] = s]
    BY <1>12 DEF ReadBindings
  <2>2. s.at = "bound" /\ s.party = q
    BY DEF Bound
  <2> HIDE DEF s
  <2>3. hand'[h] = s
    BY <1>1, <2>1
  <2>4. \A p \in Parties : /\ HasClose(h, p) => HasClose(h, p)'
                           /\ HasSync(h, p) => HasSync(h, p)'
    BY <2>1, <2>2, <2>3 DEF HasClose, HasSync
  <2> QED BY <1>1, <1>3, <1>4, <2>1, <2>4, OneMoves
<1>13. ASSUME Refuse(h) \/ SyncFails(h) PROVE FollowInv'
  <2>1. /\ hand[h].at \in {"hold", "bound"} /\ party' = party /\ owed' = owed
        /\ adrift' = adrift \cup {hand[h].party}
    BY <1>13 DEF Refuse, SyncFails
  <2>2. \A p \in Parties \ adrift' : /\ p \notin adrift
                                     /\ HasClose(h, p) => HasClose(h, p)'
                                     /\ HasSync(h, p) => HasSync(h, p)'
    BY <2>1 DEF HasClose, HasSync
  <2> QED BY <1>1, <1>3, <1>4, <2>1, <2>2, OneMoves
<1> QED BY <1>6, <1>7, <1>8, <1>9, <1>10, <1>11, <1>12, <1>13 DEF Unheld

\* CloseParty empties the table of its party.
LEMMA ClosePartyFollows ==
    ASSUME RelayInv, NEW h \in Handlers, CloseParty(h)
    PROVE  FollowInv'
<1>1. /\ hand \in [Handlers -> HandStates] /\ hand[h].at = "retire" /\ FollowInv
      /\ party \in [Parties -> SUBSET Characters]
  BY DEF RelayInv, SocketInv, RecordsOK, TypeOK, HandsOK, CloseParty
<1>2. PICK p \in Parties : p = hand[h].party
  BY <1>1, HandForms
<1>3. /\ table' = [k \in Keys |-> IF k[1] = p THEN 0 ELSE table[k]]
      /\ adrift' = IF Lone(party[p]) THEN adrift \ {p} ELSE adrift \cup {p}
      /\ owed' = owed /\ party' = party /\ gen' = gen /\ made' = made /\ closed' = closed
  BY <1>2 DEF CloseParty
<1>4. \A g \in Handlers \ {h} : hand'[g] = hand[g] /\ owed'[g] = owed[g]
  BY <1>1, <1>3 DEF CloseParty
<1>5. Lone(party[p]) => Followed(p)'
  <2> SUFFICES ASSUME Lone(party[p]), NEW k \in Keys, k[1] = p
               PROVE  ~ (k[2] \in party[p] /\ k[3] \in party[p]) /\ table'[k] = 0
    BY <1>3 DEF Followed
  <2>1. k[2] # k[3] /\ table'[k] = 0
    BY <1>3 DEF Keys
  <2> QED BY <2>1 DEF Lone
<1>6. ASSUME NEW q \in Parties, q # p
      PROVE  /\ Followed(q) => Followed(q)'
             /\ HasClose(h, q) => HasClose(h, q)'
             /\ HasSync(h, q) => HasSync(h, q)'
  <2>1. \A k \in Keys : k[1] = q => table'[k] = table[k]
    BY <1>3, <1>6
  <2>2. Followed(q) => Followed(q)'
    BY <1>3, <2>1, FollowedStays
  <2> QED BY <1>1, <1>2, <1>3, <1>6, <2>2 DEF HasClose, HasSync
<1>7. ASSUME NEW q \in Parties \ adrift'
      PROVE  \/ Followed(q)'
             \/ /\ q \notin adrift
                /\ Followed(q) => Followed(q)'
                /\ HasClose(h, q) /\ Lone(party[q]) => HasClose(h, q)'
                /\ HasSync(h, q) /\ ~ Lone(party[q]) => HasSync(h, q)'
  <2>1. CASE q = p
    BY <1>3, <1>5, <2>1
  <2>2. CASE q # p
    BY <1>3, <1>6, <2>2
  <2> QED BY <2>1, <2>2
<1> QED BY <1>1, <1>3, <1>4, <1>7, OneMoves

\* Sync with the present bindings gives every pair of members its sockets, and
\* nobody else.
LEMMA SyncFollows ==
    ASSUME RelayInv, NEW h \in Handlers, Sync(h)
    PROVE  FollowInv'
<1>1. /\ TypeOK /\ LoopsOK /\ Len(made) \in Nat /\ table \in [Keys -> 0 .. Len(made)]
      /\ hand \in [Handlers -> HandStates] /\ hand[h].at = "bound" /\ FollowInv
  BY DEF RelayInv, SocketInv, RecordsOK, TypeOK, HandsOK, Sync
<1>2. PICK p \in Parties, bs \in SUBSET Bindings : p = hand[h].party /\ bs = hand[h].bindings
  BY <1>1, HandForms
<1>3. PICK F, N : F = Fresh(p, bs) /\ N = Cardinality(F)
  OBVIOUS
<1>4. /\ N <= Cardinality(Bindable) /\ SyncLocked(p, bs)
      /\ adrift' = IF bs = BindingsOf(party[p]) THEN adrift \ {p} ELSE adrift \cup {p}
      /\ owed' = owed /\ party' = party /\ gen' = gen /\ closed' = closed
  BY <1>2, <1>3 DEF Sync, Fresh
<1>5. \A g \in Handlers \ {h} : hand'[g] = hand[g] /\ owed'[g] = owed[g]
  BY <1>1, <1>4 DEF Sync
<1>6. /\ N \in Nat /\ F \in SUBSET Keys /\ \A k \in F : k[1] = p
      /\ SyncKeepsOld(N) /\ SyncOpensNew(p, bs, F, N) /\ SyncEntries(p, bs, F, N)
  BY <1>1, <1>3, <1>4, SyncEffect
<1>8. \A k \in Keys : table[k] # 0 => made'[table[k]] = made[table[k]]
  BY <1>1, <1>6 DEF SyncKeepsOld
<1>9. \A k \in Keys \ F :
        table'[k] = IF k[1] = p /\ k \notin Kept(p, bs) THEN 0 ELSE table[k]
  BY <1>6 DEF SyncEntries
<1>10. ASSUME NEW q \in Parties, q # p
       PROVE  /\ Followed(q) => Followed(q)'
              /\ HasClose(h, q) => HasClose(h, q)'
              /\ HasSync(h, q) => HasSync(h, q)'
  <2>1. \A k \in Keys : k[1] = q => table'[k] = table[k]
    BY <1>6, <1>9, <1>10
  <2>2. \A k \in Keys : k[1] = q =>
          (table[k] # 0 => made'[table[k]].binding = made[table[k]].binding)
    BY <1>8
  <2>3. Followed(q) => Followed(q)'
    BY <1>4, <2>1, <2>2, FollowedStays
  <2> QED BY <1>1, <1>2, <1>4, <1>10, <2>3 DEF HasClose, HasSync
<1>11. ASSUME bs = BindingsOf(party[p]) PROVE Followed(p)'
  <2>3. \A k \in Keys : k[2] \in party[p] =>
          WantedOf(p, bs, k) = [character |-> k[2], gen |-> gen[k[2]]]
    BY <1>11, BindingsAre
  <2>4. \A k \in Keys : k[1] = p =>
          (k \in Wanted(p, bs) <=> k[2] \in party[p] /\ k[3] \in party[p])
    BY <1>11, BindingsAre
  <2> SUFFICES ASSUME NEW k \in Keys, k[1] = p
               PROVE  IF k[2] \in party[p] /\ k[3] \in party[p]
                      THEN /\ table'[k] # 0
                           /\ made'[table'[k]].binding = [character |-> k[2], gen |-> gen[k[2]]]
                      ELSE table'[k] = 0
    BY <1>4 DEF Followed
  <2>5. CASE k \in F
    <3>1. k[2] \in party[p] /\ k[3] \in party[p]
      BY <1>3, <2>4, <2>5 DEF Fresh
    <3>2. /\ table'[k] \in Len(made) + 1 .. Len(made) + N
          /\ made'[table'[k]].key = k
      BY <1>6, <2>5 DEF SyncOpensNew
    <3>3. made'[table'[k]].binding = WantedOf(p, bs, k)
      BY <1>6, <3>2 DEF SyncOpensNew
    <3>4. table'[k] # 0
      BY <1>1, <1>6, <3>2
    <3> QED BY <2>3, <3>1, <3>3, <3>4
  <2>6. CASE k \notin F /\ k \in Kept(p, bs)
    <3>1. table'[k] = table[k]
      BY <1>9, <2>6
    <3>2. k \in Wanted(p, bs) /\ table[k] # 0 /\ made[table[k]].binding = WantedOf(p, bs, k)
      BY <2>6 DEF Kept
    <3>3. k[2] \in party[p] /\ k[3] \in party[p]
      BY <2>4, <3>2
    <3> QED BY <1>8, <2>3, <3>1, <3>2, <3>3
  <2>7. CASE k \notin F /\ k \notin Kept(p, bs)
    <3>1. table'[k] = 0
      BY <1>9, <2>7
    <3>2. k \notin Wanted(p, bs)
      BY <1>3, <2>7 DEF Fresh
    <3> QED BY <2>4, <3>1, <3>2
  <2> QED BY <2>5, <2>6, <2>7
<1>12. ASSUME NEW q \in Parties \ adrift'
       PROVE  \/ Followed(q)'
              \/ /\ q \notin adrift
                 /\ Followed(q) => Followed(q)'
                 /\ HasClose(h, q) /\ Lone(party[q]) => HasClose(h, q)'
                 /\ HasSync(h, q) /\ ~ Lone(party[q]) => HasSync(h, q)'
  <2>1. CASE q = p
    BY <1>4, <1>11, <2>1
  <2>2. CASE q # p
    BY <1>4, <1>10, <2>2
  <2> QED BY <2>1, <2>2
<1> QED BY <1>1, <1>4, <1>5, <1>12, OneMoves

\* What a received datagram changes in the records.
LEMMA LearnedOnly ==
    ASSUME made \in Seq(Legs), NEW i \in Ids, NEW from, made' = [made EXCEPT ![i].learned = from]
    PROVE  /\ Len(made') = Len(made) /\ made'[i].learned = from
           /\ \A j \in Ids : made'[j].key = made[j].key /\ made'[j].binding = made[j].binding
           /\ \A j \in Ids \ {i} : made'[j] = made[j]
<1>1. \A j \in Ids : made[j] \in Legs
  BY DEF Ids
<1>2. Len(made') = Len(made)
  OBVIOUS
<1>3. made'[i] = [made[i] EXCEPT !.learned = from] /\ \A j \in Ids \ {i} : made'[j] = made[j]
  BY DEF Ids
<1> QED BY <1>1, <1>2, <1>3 DEF Legs

\* What closing a socket changes in the records.
LEMMA ShutOnly ==
    ASSUME made \in Seq(Legs), NEW i, made' = [made EXCEPT ![i].open = FALSE]
    PROVE  /\ Len(made') = Len(made)
           /\ \A j \in Ids : /\ made'[j].key = made[j].key /\ made'[j].binding = made[j].binding
                             /\ made'[j].learned = made[j].learned
<1>1. made = [n \in 1 .. Len(made) |-> made[n]] /\ Len(made) \in Nat
  OBVIOUS
<1>2. Len(made') = Len(made)
  BY <1>1
<1>3. ASSUME NEW j \in Ids
      PROVE  /\ made'[j].key = made[j].key /\ made'[j].binding = made[j].binding
             /\ made'[j].learned = made[j].learned
  <2>1. made[j] \in Legs /\ j \in 1 .. Len(made)
    BY DEF Ids
  <2>2. CASE j = i
    <3>1. made'[j] = [made[j] EXCEPT !.open = FALSE]
      BY <1>1, <2>1, <2>2
    <3> QED BY <2>1, <3>1 DEF Legs
  <2>3. CASE j # i
    BY <1>1, <2>1, <2>3
  <2> QED BY <2>2, <2>3
<1> QED BY <1>2, <1>3

\* A received datagram is the only step of a loop that changes a record.
LEMMA LoopsFollow ==
    ASSUME RelayInv, NEW i \in Ids,
           LoopStep(i) \/ \E from \in Endpoints : Receive(i, from)
    PROVE  FollowInv'
<1>1. /\ made \in Seq(Legs) /\ \A k \in Keys : table[k] # 0 => table[k] \in Ids
  BY DEF RelayInv, SocketInv, RecordsOK, TypeOK, Ids
<1>2. \/ made' = made
      \/ \E from \in Endpoints : made' = [made EXCEPT ![i].learned = from]
  BY DEF LoopStep, Datagram, FindOpposite, ReadDestination, Forward, ForwardFails, EndLoop,
         Receive
<1>3. UNCHANGED <<party, gen, table, closed, owed, hand, adrift>>
  BY DEF LoopStep, Datagram, FindOpposite, ReadDestination, Forward, ForwardFails, EndLoop,
         Receive
<1>4. \A j \in Ids : made'[j].binding = made[j].binding
  BY <1>1, <1>2, LearnedOnly
<1> QED BY <1>1, <1>3, <1>4, FollowQuiet DEF RelayInv

\* Closing sockets and starting loops does not touch the table.
LEMMA FinishFollows ==
    ASSUME RelayInv,
           (\E h \in Handlers : CloseSocket(h) \/ StartLoop(h)) \/ CloserCloses \/ CloserWaits
    PROVE  FollowInv'
<1>1. /\ made \in Seq(Legs) /\ hand \in [Handlers -> HandStates]
      /\ \A k \in Keys : table[k] # 0 => table[k] \in Ids
  BY DEF RelayInv, SocketInv, RecordsOK, TypeOK, Ids, HandsOK
<1>2. \A j \in Ids : made'[j].binding = made[j].binding
  <2>1. made' = made \/ \E i : made' = [made EXCEPT ![i].open = FALSE]
    BY DEF CloseSocket, StartLoop, CloserCloses, CloserWaits, relayVars
  <2> QED BY <1>1, <2>1, ShutOnly
<1>3. UNCHANGED <<party, gen, table, closed, owed, adrift>>
  BY DEF CloseSocket, StartLoop, CloserCloses, CloserWaits, relayVars
<1>4. ASSUME NEW h \in Handlers, NEW c, NEW s, hand' = [hand EXCEPT ![h] = Finishing(c, s)],
             hand[h].at = "finish"
      PROVE  \A g \in Handlers : \/ hand'[g] = hand[g]
                                 \/ ~ Underway(hand[g]) /\ ~ Underway(hand'[g])
  <2> DEFINE f == Finishing(c, s)
  <2>1. ~ Underway(f) /\ ~ Underway(hand[h])
    BY <1>4, FinishingIs DEF Underway
  <2>2. hand' = [hand EXCEPT ![h] = f]
    BY <1>4
  <2> HIDE DEF f
  <2> QED BY <1>1, <2>1, <2>2
<1>5. \A g \in Handlers : \/ hand'[g] = hand[g]
                          \/ ~ Underway(hand[g]) /\ ~ Underway(hand'[g])
  <2>1. ASSUME NEW h \in Handlers, CloseSocket(h)
        PROVE  hand[h].at = "finish" /\ \E c, s : hand' = [hand EXCEPT ![h] = Finishing(c, s)]
    BY <1>1, <2>1 DEF CloseSocket
  <2>2. ASSUME NEW h \in Handlers, StartLoop(h)
        PROVE  hand[h].at = "finish" /\ \E c, s : hand' = [hand EXCEPT ![h] = Finishing(c, s)]
    BY <1>1, <2>2 DEF StartLoop
  <2>3. CASE CloserCloses \/ CloserWaits
    BY <2>3 DEF CloserCloses, CloserWaits
  <2> QED BY <1>4, <2>1, <2>2, <2>3
<1> QED BY <1>1, <1>2, <1>3, <1>5, FollowQuiet DEF RelayInv

-----------------------------------------------------------------------------
(* The datagrams stay with their pair. *)

\* Sockets keep their pair and session; new ones have learned nothing; a loop
\* that moves on does so to the other socket of its pair.
LEMMA PairsStay ==
    ASSUME PairInv, LoopsOK, Len(made') \in Nat, Ids \subseteq Ids',
           \A i \in Ids :
             /\ made'[i].key = made[i].key /\ made'[i].binding = made[i].binding
             /\ \/ made'[i].learned = made[i].learned
                \/ made'[i].learned.host = HostOf[made[i].binding],
           \A i \in Ids' \ Ids :
             /\ made'[i].binding.character = made'[i].key[2]
             /\ made'[i].learned = NoEndpoint /\ loop'[i] = Unborn,
           \A i \in Ids :
             \/ loop'[i] = loop[i]
             \/ /\ loop'[i].at \in {"found", "ready"} =>
                     loop'[i].leg \in Ids /\ made[loop'[i].leg].key = Opposite(made[i].key)
                /\ loop'[i].at = "ready" =>
                     loop'[i].to.host = HostOf[made[loop'[i].leg].binding]
    PROVE  PairInv'
<1>1. BoundRight'
  <2> SUFFICES ASSUME NEW i \in Ids'
               PROVE  /\ made'[i].binding.character = made'[i].key[2]
                      /\ made'[i].learned # NoEndpoint =>
                           made'[i].learned.host = HostOf[made'[i].binding]
    BY DEF BoundRight
  <2>1. CASE i \in Ids
    BY <2>1 DEF PairInv, BoundRight
  <2>2. CASE i \notin Ids
    BY <2>2
  <2> QED BY <2>1, <2>2
<1>2. Carried'
  <2> SUFFICES ASSUME NEW i \in Ids'
               PROVE  /\ loop'[i].at \in {"found", "ready"} =>
                           made'[loop'[i].leg].key = Opposite(made'[i].key)
                      /\ loop'[i].at = "ready" =>
                           loop'[i].to.host = HostOf[made'[loop'[i].leg].binding]
    BY DEF Carried
  <2>1. CASE i \notin Ids
    BY <2>1 DEF Unborn
  <2>2. CASE i \in Ids
    <3>1. /\ loop'[i].at \in {"found", "ready"} =>
               loop'[i].leg \in Ids /\ made[loop'[i].leg].key = Opposite(made[i].key)
          /\ loop'[i].at = "ready" =>
               loop'[i].to.host = HostOf[made[loop'[i].leg].binding]
      <4>1. CASE loop'[i] = loop[i]
        <5>1. loop[i].at \in {"found", "ready"} => loop[i].leg \in Ids
          BY <2>2 DEF LoopsOK
        <5> QED BY <2>2, <4>1, <5>1 DEF PairInv, Carried
      <4>2. CASE loop'[i] # loop[i]
        BY <2>2, <4>2
      <4> QED BY <4>1, <4>2
    <3>2. made'[i].key = made[i].key
      BY <2>2
    <3> QED BY <3>1, <3>2
  <2> QED BY <2>1, <2>2
<1> QED BY <1>1, <1>2 DEF PairInv

\* Sync opens sockets for the sessions of their first members.
LEMMA SyncPairs ==
    ASSUME RelayInv, NEW h \in Handlers, Sync(h)
    PROVE  PairInv'
<1>1. /\ TypeOK /\ LoopsOK /\ Len(made) \in Nat
      /\ hand \in [Handlers -> HandStates] /\ hand[h].at = "bound" /\ PairInv
  BY DEF RelayInv, SocketInv, RecordsOK, TypeOK, HandsOK, Sync
<1>2. PICK p \in Parties, bs \in SUBSET Bindings : p = hand[h].party /\ bs = hand[h].bindings
  BY <1>1, HandForms
<1>3. PICK F, N : F = Fresh(p, bs) /\ N = Cardinality(F)
  OBVIOUS
<1>4. N <= Cardinality(Bindable) /\ SyncLocked(p, bs)
  BY <1>2, <1>3 DEF Sync, Fresh
<1>5. /\ N \in Nat /\ SyncKeepsOld(N) /\ SyncOpensNew(p, bs, F, N)
  BY <1>1, <1>3, <1>4, SyncEffect
<1>6. Ids' = 1 .. Len(made) + N /\ Len(made') \in Nat /\ Ids \subseteq Ids'
  BY <1>1, <1>5 DEF SyncKeepsOld, Ids
<1>7. \A i \in Ids : made'[i] = made[i] /\ loop'[i] = loop[i]
  BY <1>5 DEF SyncKeepsOld, Ids
<1>8. \A k \in F : WantedOf(p, bs, k).character = k[2]
  <2>1. ASSUME NEW k \in F PROVE \E b \in bs : b.character = k[2]
    BY <1>3 DEF Fresh, Wanted
  <2> QED BY <2>1 DEF WantedOf
<1>9. ASSUME NEW i \in Ids' \ Ids
      PROVE  /\ made'[i].binding.character = made'[i].key[2]
             /\ made'[i].learned = NoEndpoint /\ loop'[i] = Unborn
  <2>1. i \in Len(made) + 1 .. Len(made) + N
    BY <1>1, <1>5, <1>6, <1>9 DEF Ids
  <2>2. /\ made'[i].key \in F /\ loop'[i] = Unborn /\ made'[i].learned = NoEndpoint
        /\ made'[i].binding = WantedOf(p, bs, made'[i].key)
    BY <1>5, <2>1 DEF SyncOpensNew
  <2> QED BY <1>8, <2>2
<1> QED BY <1>1, <1>6, <1>7, <1>9, PairsStay

\* A read loop takes up what comes from its session, and hands it to the socket
\* of the opposite pair.
LEMMA LoopsPair ==
    ASSUME RelayInv, NEW i \in Ids,
           LoopStep(i) \/ \E from \in Endpoints : Receive(i, from)
    PROVE  PairInv'
<1>1. /\ made \in Seq(Legs) /\ Len(made) \in Nat /\ LoopsOK /\ PairInv /\ TableOK
      /\ loop \in Seq(LoopStates) /\ Len(loop) = Len(made)
      /\ table \in [Keys -> 0 .. Len(made)] /\ i \in Ids
  BY DEF RelayInv, SocketInv, RecordsOK, TypeOK, LoopsOK
<1>2. ASSUME NEW s, loop' = [loop EXCEPT ![i] = s]
      PROVE  loop'[i] = s /\ \A j \in Ids \ {i} : loop'[j] = loop[j]
  BY <1>1, <1>2 DEF Ids
<1>3. ASSUME NEW s, loop' = [loop EXCEPT ![i] = s], made' = made,
             s.at \in {"found", "ready"} =>
               s.leg \in Ids /\ made[s.leg].key = Opposite(made[i].key),
             s.at = "ready" => s.to.host = HostOf[made[s.leg].binding]
      PROVE  PairInv'
  <2>1. Ids' = Ids /\ Len(made') \in Nat
    BY <1>1, <1>3 DEF Ids
  <2>2. loop'[i] = s /\ \A j \in Ids \ {i} : loop'[j] = loop[j]
    BY <1>2, <1>3
  <2>3. ASSUME NEW j \in Ids
        PROVE  \/ loop'[j] = loop[j]
               \/ /\ loop'[j].at \in {"found", "ready"} =>
                       loop'[j].leg \in Ids /\ made[loop'[j].leg].key = Opposite(made[j].key)
                  /\ loop'[j].at = "ready" =>
                       loop'[j].to.host = HostOf[made[loop'[j].leg].binding]
    <3>1. CASE j = i
      BY <1>3, <2>2, <3>1
    <3>2. CASE j # i
      BY <2>2, <3>2
    <3> QED BY <3>1, <3>2
  <2> QED BY <1>1, <1>3, <2>1, <2>3, PairsStay
<1>4. Receiving.at = "receive" /\ Ended.at = "ended"
  BY DEF Receiving, Ended
<1>5. ASSUME NEW from \in Endpoints, Receive(i, from) PROVE PairInv'
  <2>1. /\ made' = [made EXCEPT ![i].learned = from] /\ from.host = HostOf[made[i].binding]
        /\ loop' = [loop EXCEPT ![i] = [at |-> "got"]]
    BY <1>5 DEF Receive, Admits
  <2>2. /\ Len(made') = Len(made) /\ made'[i].learned = from
        /\ \A j \in Ids : made'[j].key = made[j].key /\ made'[j].binding = made[j].binding
        /\ \A j \in Ids \ {i} : made'[j] = made[j]
    BY <1>1, <2>1, LearnedOnly
  <2>3. Ids' = Ids /\ Len(made') \in Nat
    BY <1>1, <2>2 DEF Ids
  <2>4. loop'[i].at = "got" /\ \A j \in Ids \ {i} : loop'[j] = loop[j]
    BY <1>2, <2>1
  <2>5. ASSUME NEW j \in Ids
        PROVE  /\ made'[j].key = made[j].key /\ made'[j].binding = made[j].binding
               /\ \/ made'[j].learned = made[j].learned
                  \/ made'[j].learned.host = HostOf[made[j].binding]
    BY <2>1, <2>2
  <2>6. ASSUME NEW j \in Ids
        PROVE  loop'[j] = loop[j] \/ loop'[j].at \notin {"found", "ready"}
    BY <2>4
  <2> QED BY <1>1, <2>3, <2>5, <2>6, PairsStay
<1>6. ASSUME FindOpposite(i) PROVE PairInv'
  <2> DEFINE o == Opposite(made[i].key)
             s == IF table[o] = 0 THEN Receiving ELSE [at |-> "found", leg |-> table[o]]
  <2>1. loop' = [loop EXCEPT ![i] = s] /\ made' = made
    BY <1>6 DEF FindOpposite
  <2>2. o \in Keys
    <3>1. made[i] \in Legs
      BY <1>1 DEF Ids
    <3> QED BY <3>1 DEF Legs, Keys, Opposite
  <2>3. table[o] # 0 => table[o] \in Ids /\ made[table[o]].key = o
    BY <1>1, <2>2 DEF TableOK, Ids
  <2>4. /\ s.at \in {"found", "ready"} => s.leg \in Ids /\ made[s.leg].key = o
        /\ s.at # "ready"
    BY <1>4, <2>3
  <2> HIDE DEF s
  <2> QED BY <1>3, <2>1, <2>4
<1>7. ASSUME ReadDestination(i) PROVE PairInv'
  <2> DEFINE j == loop[i].leg
             s == IF made[j].learned = NoEndpoint THEN Receiving
                  ELSE [at |-> "ready", leg |-> j, to |-> made[j].learned]
  <2>1. loop[i].at = "found" /\ loop' = [loop EXCEPT ![i] = s] /\ made' = made
    BY <1>7 DEF ReadDestination
  <2>2. j \in Ids /\ made[j].key = Opposite(made[i].key)
    BY <1>1, <2>1 DEF LoopsOK, PairInv, Carried
  <2>3. made[j].learned # NoEndpoint => made[j].learned.host = HostOf[made[j].binding]
    BY <1>1, <2>2 DEF PairInv, BoundRight
  <2>4. /\ s.at \in {"found", "ready"} => s.leg = j /\ s.to = made[j].learned
        /\ s.at = "ready" => made[j].learned # NoEndpoint
    BY <1>4
  <2> HIDE DEF s, j
  <2> QED BY <1>3, <2>1, <2>2, <2>3, <2>4
<1>8. ASSUME Forward(i) \/ ForwardFails(i) \/ EndLoop(i) PROVE PairInv'
  <2>1. PICK s \in {Receiving, Ended} : loop' = [loop EXCEPT ![i] = s] /\ made' = made
    BY <1>8 DEF Forward, ForwardFails, EndLoop
  <2>2. s.at \notin {"found", "ready"}
    BY <1>4
  <2> QED BY <1>3, <2>1, <2>2
<1> QED BY <1>5, <1>6, <1>7, <1>8 DEF LoopStep, Datagram

\* The other steps keep what every socket and every loop is for.
LEMMA OthersPair ==
    ASSUME RelayInv,
           \/ \E h \in Handlers : Unheld(h) \/ CloseParty(h) \/ CloseSocket(h) \/ StartLoop(h)
           \/ \E c \in Characters : Reconnect(c)
           \/ CloseRelay \/ CloserCloses \/ CloserWaits \/ UNCHANGED vars
    PROVE  PairInv'
<1>1. /\ made \in Seq(Legs) /\ Len(made) \in Nat /\ LoopsOK /\ PairInv /\ SocketInv
      /\ loop \in Seq(LoopStates) /\ Len(loop) = Len(made)
  BY DEF RelayInv, SocketInv, RecordsOK, TypeOK, LoopsOK
<1>2. made' = made \/ \E i : made' = [made EXCEPT ![i].open = FALSE]
  <2>1. ASSUME NEW h \in Handlers, Unheld(h) PROVE made' = made
    BY <1>1, <2>1, UnheldSteps DEF Unholding, relayVars
  <2> QED BY <2>1 DEF CloseParty, CloseSocket, StartLoop, Reconnect, CloseRelay,
                      CloserCloses, CloserWaits, vars, relayVars
<1>3. \/ loop' = loop
      \/ \E h \in Handlers : loop' = [loop EXCEPT ![Min(hand[h].toStart)] = Receiving]
  <2>1. ASSUME NEW h \in Handlers, Unheld(h) PROVE loop' = loop
    BY <1>1, <2>1, UnheldSteps DEF Unholding, relayVars
  <2> QED BY <2>1 DEF CloseParty, CloseSocket, StartLoop, Reconnect, CloseRelay,
                      CloserCloses, CloserWaits, vars, relayVars
<1>4. \A j \in Ids : loop'[j] = loop[j] \/ loop'[j] = Receiving
  BY <1>1, <1>3 DEF Ids
<1>5. /\ Len(made') = Len(made)
      /\ \A j \in Ids : /\ made'[j].key = made[j].key /\ made'[j].binding = made[j].binding
                        /\ made'[j].learned = made[j].learned
  BY <1>1, <1>2, ShutOnly
<1>6. Ids' = Ids /\ Len(made') \in Nat
  BY <1>1, <1>5 DEF Ids
<1>7. \A j \in Ids : loop'[j] = loop[j] \/ loop'[j].at \notin {"found", "ready"}
  BY <1>4 DEF Receiving
<1> QED BY <1>1, <1>5, <1>6, <1>7, PairsStay

-----------------------------------------------------------------------------
(* The relay. *)

\* The invariant of the whole relay.
THEOREM RelayInvHolds == Spec => []RelayInv
<1>1. Init => RelayInv
  <2> SUFFICES ASSUME Init PROVE FollowInv /\ PairInv
    BY SocketInit DEF RelayInv
  <2>1. /\ \A p \in Parties : party[p] = {}
        /\ \A k \in Keys : table[k] = 0
    BY DEF Init
  <2>2. FollowInv
    BY <2>1 DEF FollowInv, Attended, Followed
  <2>3. Ids = {}
    BY DEF Init, Ids
  <2>4. PairInv
    BY <2>3 DEF PairInv, BoundRight, Carried
  <2> QED BY <2>2, <2>4
<1>2. RelayInv /\ [Next]_vars => RelayInv'
  <2> SUFFICES ASSUME RelayInv, [Next]_vars PROVE FollowInv' /\ PairInv'
    BY SocketStep DEF RelayInv
  <2>1. ASSUME NEW h \in Handlers, Unheld(h) PROVE FollowInv' /\ PairInv'
    BY <2>1, UnheldFollows, OthersPair
  <2>2. ASSUME NEW c \in Characters, Reconnect(c) PROVE FollowInv' /\ PairInv'
    BY <2>2, ReconnectFollows, OthersPair
  <2>3. ASSUME NEW h \in Handlers, Sync(h) PROVE FollowInv' /\ PairInv'
    BY <2>3, SyncFollows, SyncPairs
  <2>4. ASSUME NEW h \in Handlers, CloseParty(h) PROVE FollowInv' /\ PairInv'
    BY <2>4, ClosePartyFollows, OthersPair
  <2>5. ASSUME NEW h \in Handlers, CloseSocket(h) \/ StartLoop(h) PROVE FollowInv' /\ PairInv'
    BY <2>5, FinishFollows, OthersPair
  <2>6. CASE CloserCloses \/ CloserWaits
    BY <2>6, FinishFollows, OthersPair
  <2>7. CASE CloseRelay
    <3>1. FollowInv'
      BY <2>7 DEF CloseRelay, FollowInv
    <3> QED BY <2>7, <3>1, OthersPair
  <2>8. ASSUME NEW i \in Ids, LoopStep(i) \/ \E from \in Endpoints : Receive(i, from)
        PROVE  FollowInv' /\ PairInv'
    BY <2>8, LoopsFollow, LoopsPair
  <2>9. CASE UNCHANGED vars
    <3>1. UNCHANGED <<party, gen, made, table, closed, owed, hand, adrift>>
      BY <2>9 DEF vars, relayVars
    <3>2. FollowInv'
      BY <3>1, FollowQuiet DEF RelayInv
    <3> QED BY <2>9, <3>2, OthersPair
  <2>10. [Next]_vars <=> Next \/ UNCHANGED vars
    OBVIOUS
  <2> QED BY <2>1, <2>2, <2>3, <2>4, <2>5, <2>6, <2>7, <2>8, <2>9, <2>10
          DEF Next, HandlerStep, Unheld
<1> QED BY <1>1, <1>2, PTL DEF Spec

\* When no handler has a call for a party before it, the sockets of the party
\* are exactly those of its members in their present sessions, unless the last
\* thing that happened to it is one that sets a party adrift.
THEOREM RelayKeepsUp == Spec => []RelayFollowsParty
<1>1. RelayInv => RelayFollowsParty
  <2> SUFFICES ASSUME RelayInv, ~ closed, NEW p \in Parties \ adrift,
                      \A h \in Handlers : ~ Concerns(h, p)
               PROVE  Matches(p)
    BY DEF RelayFollowsParty
  <2>1. \A h \in Handlers : ~ HasClose(h, p) /\ ~ HasSync(h, p)
    BY DEF HasClose, HasSync, Concerns
  <2>2. Followed(p)
    BY <2>1 DEF RelayInv, FollowInv, Attended
  <2> QED BY <2>2, MatchesIs
<1> QED BY <1>1, RelayInvHolds, PTL

\* Whatever is torn down and opened again while a read loop holds a datagram,
\* it leaves through the socket of the opposite pair and goes to the address of
\* the session that this socket was opened for.
THEOREM DatagramsStayWithPair == Spec => []DatagramsFindThePeer
<1>1. RelayInv => DatagramsFindThePeer
  <2> SUFFICES ASSUME RelayInv, NEW i \in Ids, loop[i].at = "ready"
               PROVE  /\ made[loop[i].leg].key = Opposite(made[i].key)
                      /\ made[loop[i].leg].binding.character = made[i].key[3]
                      /\ loop[i].to.host = HostOf[made[loop[i].leg].binding]
    BY DEF DatagramsFindThePeer
  <2>1. loop[i].leg \in Ids
    BY DEF RelayInv, SocketInv, RecordsOK, LoopsOK
  <2>2. /\ made[loop[i].leg].key = Opposite(made[i].key)
        /\ loop[i].to.host = HostOf[made[loop[i].leg].binding]
    BY DEF RelayInv, PairInv, Carried
  <2>3. made[loop[i].leg].binding.character = made[loop[i].leg].key[2]
    BY <2>1 DEF RelayInv, PairInv, BoundRight
  <2>4. Opposite(made[i].key)[2] = made[i].key[3]
    BY DEF Opposite
  <2> QED BY <2>2, <2>3, <2>4
<1> QED BY <1>1, RelayInvHolds, PTL
=============================================================================
