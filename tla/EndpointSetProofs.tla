-------------------------- MODULE EndpointSetProofs --------------------------
(***************************************************************************)
(* Proofs about EndpointSet, for every list of hosts and all finite        *)
(* configurations: what a merge keeps, that three merges on the way keep   *)
(* it too, and that a recorded set is accepted again.                      *)
(***************************************************************************)
EXTENDS EndpointSet, FiniteSetTheorems, SequenceTheorems,
        WellFoundedInduction, TLAPS

Address == Loopback \X (1..HighestPort)
AddressesOf(given) == {e.address : e \in given}

\* What a merge is given.
Given(given) == IsFiniteSet(given) /\ AddressesOf(given) \subseteq Address

Ascending(s) == \A i, j \in DOMAIN s : i < j => Precedes(s[i], s[j])

\* What discovery makes of the servers in wanted.
Canonical(m, wanted) ==
  /\ Addresses(m) \in Seq(Address) /\ Ascending(Addresses(m))
  /\ DOMAIN m = DOMAIN Addresses(m)
  /\ Grants(Range(m)) = Grants(wanted)
  /\ AddressesOf(Range(m)) = AddressesOf(wanted)
  /\ Given(Range(m))

Wanted(scope) == SelectedFrom(scope, servers[scope])

EpInv ==
  /\ servers \in Configurations
  /\ phase \in {"discover", "record", "restore", "settled", "failed"}
  /\ phase \in {"discover", "failed"} => endpoints = <<>>
  /\ phase = "failed" => DiscoverAll = {}
  /\ phase \in {"record", "restore", "settled"} => endpoints \in DiscoverAll
  /\ phase \in {"restore", "settled"} => label = Addresses(endpoints)
  /\ phase = "settled" => restored = label

-----------------------------------------------------------------------------
(* The order of the addresses.                                             *)

LEMMA LeastNumber ==
  ASSUME NEW S \in SUBSET Nat, S # {}
  PROVE  \E i \in S : \A j \in S : i <= j
<1> DEFINE Less == {pair \in Nat \X Nat : pair[1] < pair[2]}
<1>1. IsWellFoundedOn(Less, Nat)
  BY NatLessThanWellFounded DEF OpToRel
<1> HIDE DEF Less
<1>2. PICK i \in S : \A j \in S : ~(<<j, i>> \in Less)
  <2>1. S \subseteq Nat
    OBVIOUS
  <2>2. QED
    BY <1>1, <2>1, WFMin
<1>3. ASSUME NEW j \in S
      PROVE  i <= j
  <2>1. i \in Nat /\ j \in Nat
    OBVIOUS
  <2>2. <<j, i>> \in Less <=> j < i
    BY <2>1 DEF Less
  <2>3. QED
    BY <1>2, <2>1, <2>2
<1>4. QED
  BY <1>3

LEMMA RankNamesHost ==
  ASSUME NEW host \in Loopback
  PROVE  Rank(host) \in Nat /\ Hosts[Rank(host)] = host
<1>1. \E i \in DOMAIN Hosts : Hosts[i] = host
  BY HostsAssumption DEF Range
<1>2. Rank(host) \in DOMAIN Hosts /\ Hosts[Rank(host)] = host
  BY <1>1 DEF Rank
<1>3. DOMAIN Hosts \subseteq Nat
  BY HostsAssumption
<1>4. QED
  BY <1>2, <1>3

LEMMA AddressShape ==
  ASSUME NEW a \in Address
  PROVE  /\ a = <<a[1], a[2]>> /\ a[1] \in Loopback /\ a[2] \in 1..HighestPort
         /\ a[2] \in Nat /\ Rank(a[1]) \in Nat /\ Hosts[Rank(a[1])] = a[1]
<1>1. a = <<a[1], a[2]>>
  BY DEF Address
<1>2. a[1] \in Loopback /\ a[2] \in 1..HighestPort
  BY DEF Address
<1>3. a[2] \in Nat
  <2>1. HighestPort \in Nat
    BY DEF HighestPort
  <2>2. QED
    BY <1>2, <2>1
<1>4. QED
  BY <1>1, <1>2, <1>3, RankNamesHost

\* Hosts in the order of strings, then ports: a strict total order.
LEMMA PrecedesOrders ==
  ASSUME NEW a \in Address, NEW b \in Address
  PROVE  /\ ~(Precedes(a, b) /\ Precedes(b, a))
         /\ ~Precedes(a, a)
         /\ a = b \/ Precedes(a, b) \/ Precedes(b, a)
<1>1. /\ a = <<a[1], a[2]>> /\ a[2] \in Nat /\ Rank(a[1]) \in Nat
      /\ Hosts[Rank(a[1])] = a[1]
  BY AddressShape
<1>2. /\ b = <<b[1], b[2]>> /\ b[2] \in Nat /\ Rank(b[1]) \in Nat
      /\ Hosts[Rank(b[1])] = b[1]
  BY AddressShape
<1>3. Rank(a[1]) = Rank(b[1]) => a[1] = b[1]
  BY <1>1, <1>2
<1>4. a[1] = b[1] /\ a[2] = b[2] => a = b
  BY <1>1, <1>2
<1>5. QED
  BY <1>1, <1>2, <1>3, <1>4 DEF Precedes

\* Some address precedes all others.
LEMMA FirstAddress ==
  ASSUME NEW S \in SUBSET Address, S # {}
  PROVE  \E a \in S : \A b \in S : b = a \/ Precedes(a, b)
<1> DEFINE Ranks == {Rank(a[1]) : a \in S}
<1>1. \A a \in S : /\ a[2] \in Nat /\ Rank(a[1]) \in Nat
                   /\ Hosts[Rank(a[1])] = a[1] /\ a = <<a[1], a[2]>>
  BY AddressShape
<1>2. PICK r \in Ranks : \A q \in Ranks : r <= q
  <2>1. Ranks \in SUBSET Nat /\ Ranks # {}
    BY <1>1
  <2>2. QED
    BY <2>1, LeastNumber
<1> DEFINE Ports == {a[2] : a \in {b \in S : Rank(b[1]) = r}}
<1>3. PICK p \in Ports : \A q \in Ports : p <= q
  <2>1. Ports \in SUBSET Nat /\ Ports # {}
    BY <1>1
  <2>2. QED
    BY <2>1, LeastNumber
<1>4. PICK a \in S : Rank(a[1]) = r /\ a[2] = p
  OBVIOUS
<1>5. ASSUME NEW b \in S
      PROVE  b = a \/ Precedes(a, b)
  <2>1. r <= Rank(b[1]) /\ r \in Nat
    BY <1>1, <1>2
  <2>2. CASE r < Rank(b[1])
    BY <1>4, <2>2 DEF Precedes
  <2>3. CASE r = Rank(b[1])
    <3>1. a[1] = b[1]
      BY <1>1, <1>4, <2>3
    <3>2. p <= b[2] /\ p \in Nat /\ b[2] \in Nat
      BY <1>1, <1>3, <2>3
    <3>3. QED
      BY <1>1, <1>4, <3>1, <3>2 DEF Precedes
  <2>4. QED
    BY <1>1, <2>1, <2>2, <2>3
<1>6. QED
  BY <1>5

\* A finite set of addresses in its order.
InOrder(s, A) ==
  s \in [1..Cardinality(A) -> A] /\ Range(s) = A /\ Ascending(s)

LEMMA OrderExists ==
  ASSUME NEW A \in SUBSET Address, IsFiniteSet(A)
  PROVE  \E s : InOrder(s, A)
<1> DEFINE Bad == {n \in Nat : \E B \in SUBSET Address :
                     /\ IsFiniteSet(B) /\ Cardinality(B) = n
                     /\ ~\E s : InOrder(s, B)}
<1>1. SUFFICES ASSUME Bad # {} PROVE FALSE
  BY FS_CardinalityType
<1>2. PICK n \in Bad : \A k \in Bad : n <= k
  <2>1. Bad \in SUBSET Nat
    OBVIOUS
  <2>2. QED
    BY <1>1, <2>1, LeastNumber
<1>3. PICK B \in SUBSET Address :
        IsFiniteSet(B) /\ Cardinality(B) = n /\ ~\E s : InOrder(s, B)
  BY <1>2
<1>4. B # {}
  <2>1. InOrder(<<>>, {})
    BY FS_EmptySet DEF InOrder, Ascending, Range
  <2>2. QED
    BY <1>3, <2>1
<1>5. PICK a \in B : \A b \in B : b = a \/ Precedes(a, b)
  BY <1>4, FirstAddress
<1> DEFINE C == B \ {a}
<1>6. IsFiniteSet(C) /\ Cardinality(C) = n - 1 /\ n - 1 \in Nat
  <2>1. IsFiniteSet(C) /\ Cardinality(C) = n - 1
    BY <1>3, FS_RemoveElement
  <2>2. QED
    BY <2>1, FS_CardinalityType
<1>7. PICK s : InOrder(s, C)
  <2>1. n - 1 \notin Bad
    BY <1>2, <1>6
  <2>2. C \in SUBSET Address
    OBVIOUS
  <2>3. QED
    BY <1>6, <2>1, <2>2
<1>0. n \in Nat
  OBVIOUS
<1> HIDE DEF C, Bad
<1> DEFINE t == [i \in 1..n |-> IF i = 1 THEN a ELSE s[i - 1]]
<1>8. \A i \in 1..n : i # 1 => i - 1 \in DOMAIN s /\ t[i] = s[i - 1]
  BY <1>0, <1>6, <1>7 DEF InOrder
<1>9. \A i \in DOMAIN s : /\ s[i] \in C /\ i \in Nat
                          /\ i + 1 \in 1..n /\ t[i + 1] = s[i]
  BY <1>0, <1>6, <1>7 DEF InOrder
<1>10. 1 \in 1..n /\ t[1] = a
  BY <1>0, <1>6
<1>11. t \in [1..n -> B]
  BY <1>8, <1>9 DEF C
<1>12. Range(t) = B
  <2>1. ASSUME NEW b \in B
        PROVE  \E i \in 1..n : t[i] = b
    <3>1. CASE b = a
      BY <1>10, <3>1
    <3>2. CASE b # a
      <4>1. PICK i \in DOMAIN s : s[i] = b
        BY <1>7, <3>2 DEF InOrder, Range, C
      <4>2. QED
        BY <1>9, <4>1
    <3>3. QED
      BY <3>1, <3>2
  <2>2. QED
    BY <1>11, <2>1 DEF Range
<1>13. Ascending(t)
  <2>1. SUFFICES ASSUME NEW i \in 1..n, NEW j \in 1..n, i < j
                 PROVE  Precedes(t[i], t[j])
    BY <1>11 DEF Ascending
  <2>2. j # 1 /\ j - 1 \in DOMAIN s /\ t[j] = s[j - 1]
    BY <1>8, <2>1
  <2>3. CASE i = 1
    BY <1>5, <1>9, <1>10, <2>2, <2>3 DEF C
  <2>4. CASE i # 1
    <3>1. i - 1 \in DOMAIN s /\ t[i] = s[i - 1] /\ i - 1 < j - 1
      BY <1>8, <2>1, <2>4
    <3>2. QED
      BY <1>7, <2>2, <3>1 DEF InOrder, Ascending
  <2>5. QED
    BY <2>3, <2>4
<1>14. InOrder(t, B)
  BY <1>3, <1>11, <1>12, <1>13 DEF InOrder
<1>15. QED
  BY <1>3, <1>14

LEMMA SortedIsInOrder ==
  ASSUME NEW A \in SUBSET Address, IsFiniteSet(A)
  PROVE  InOrder(Sorted(A, Precedes), A)
<1>1. PICK s : InOrder(s, A)
  BY OrderExists
<1>2. \E r \in [1..Cardinality(A) -> A] :
        /\ Range(r) = A
        /\ \A i, j \in DOMAIN r : i < j => Precedes(r[i], r[j])
  BY <1>1 DEF InOrder, Ascending
<1>3. QED
  BY <1>2 DEF Sorted, InOrder, Ascending

-----------------------------------------------------------------------------
(* What a merge keeps.                                                     *)

LEMMA ImageIsFinite ==
  ASSUME NEW S, IsFiniteSet(S), NEW f, NEW T, f \in [S -> T],
         \A t \in T : \E x \in S : f[x] = t
  PROVE  IsFiniteSet(T)
<1>1. f \in Surjection(S, T)
  BY DEF Surjection
<1>2. QED
  BY <1>1, FS_Surjection

LEMMA AddressesAreFinite ==
  ASSUME NEW S, IsFiniteSet(S)
  PROVE  IsFiniteSet(AddressesOf(S))
<1> DEFINE f == [e \in S |-> e.address]
<1>1. f \in [S -> AddressesOf(S)]
  BY DEF AddressesOf
<1>2. \A a \in AddressesOf(S) : \E e \in S : f[e] = a
  BY DEF AddressesOf
<1> HIDE DEF f
<1>3. QED
  BY <1>1, <1>2, ImageIsFinite

Grant(e, name) == [address |-> e.address, names |-> {name}]

LEMMA InGrants ==
  ASSUME NEW S, NEW g
  PROVE  g \in Grants(S) <=>
           \E e \in S : \E name \in e.names : g = Grant(e, name)
BY DEF Grants, Grant

LEMMA GrantsJoin ==
  ASSUME NEW V, NEW W
  PROVE  Grants(V \cup W) = Grants(V) \cup Grants(W)
BY InGrants

LEMMA MergeIsCanonical ==
  ASSUME NEW S, Given(S)
  PROVE  Canonical(Merge(S), S)
<1> DEFINE A == AddressesOf(S)
           order == Sorted(A, Precedes)
           m == Merge(S)
<1>1. A \in SUBSET Address /\ IsFiniteSet(A)
  BY AddressesAreFinite DEF Given
<1>2. InOrder(order, A)
  BY <1>1, SortedIsInOrder
<1>3. m = [i \in DOMAIN order |->
             [address |-> order[i], names |-> AllNames(S, order[i])]]
  BY DEF Merge, Joined, AddressesOf
<1>4. Cardinality(A) \in Nat /\ DOMAIN order = 1..Cardinality(A)
  BY <1>1, <1>2, FS_CardinalityType DEF InOrder
<1> HIDE DEF order, m, A
<1>5. /\ DOMAIN m = DOMAIN order
      /\ \A i \in DOMAIN order : /\ m[i].address = order[i]
                                 /\ m[i].names = AllNames(S, order[i])
  BY <1>3
<1>6. Addresses(m) = order
  <2>1. order = [i \in DOMAIN order |-> order[i]]
    BY <1>2 DEF InOrder
  <2>2. QED
    BY <1>5, <2>1 DEF Addresses
<1>7. order \in Seq(Address) /\ Ascending(order)
  BY <1>1, <1>2, <1>4, SeqDef DEF InOrder
<1>8. Given(Range(m))
  <2>1. \A i \in DOMAIN m : m[i].address \in Address
    BY <1>1, <1>2, <1>5 DEF InOrder
  <2>2. IsFiniteSet(Range(m))
    <3>1. IsFiniteSet(DOMAIN m)
      BY <1>4, <1>5, FS_Interval
    <3>2. m \in [DOMAIN m -> Range(m)]
      BY <1>3 DEF Range
    <3>3. QED
      BY <3>1, <3>2, ImageIsFinite DEF Range
  <2>3. QED
    BY <2>1, <2>2 DEF Given, AddressesOf, Range
<1>9. Grants(Range(m)) = Grants(S)
  <2>1. ASSUME NEW g \in Grants(Range(m))
        PROVE  g \in Grants(S)
    <3>1. PICK i \in DOMAIN m : \E name \in m[i].names : g = Grant(m[i], name)
      BY InGrants DEF Range
    <3>2. PICK name \in m[i].names : g = Grant(m[i], name)
      BY <3>1
    <3>3. PICK e \in S : e.address = m[i].address /\ name \in e.names
      BY <1>5 DEF AllNames, At
    <3>4. g = Grant(e, name)
      BY <3>2, <3>3 DEF Grant
    <3>5. QED
      BY <3>3, <3>4, InGrants
  <2>2. ASSUME NEW g \in Grants(S)
        PROVE  g \in Grants(Range(m))
    <3>1. PICK e \in S : \E name \in e.names : g = Grant(e, name)
      BY InGrants
    <3>2. PICK name \in e.names : g = Grant(e, name)
      BY <3>1
    <3>3. PICK i \in DOMAIN order : order[i] = e.address
      BY <1>2 DEF InOrder, Range, A, AddressesOf
    <3>4. name \in m[i].names /\ m[i].address = e.address /\ m[i] \in Range(m)
      BY <1>5, <3>3 DEF AllNames, At, Range
    <3>5. g = Grant(m[i], name)
      BY <3>2, <3>4 DEF Grant
    <3>6. QED
      BY <3>4, <3>5, InGrants
  <2>3. QED
    BY <2>1, <2>2
<1>10. AddressesOf(Range(m)) = AddressesOf(S)
  <2>1. \A a : a \in AddressesOf(Range(m)) <=> a \in Range(order)
    BY <1>5 DEF AddressesOf, Range
  <2>2. QED
    BY <1>2, <2>1 DEF InOrder, A
<1>11. QED
  BY <1>5, <1>6, <1>7, <1>8, <1>9, <1>10 DEF Canonical, m

\* Two sets that were merged are merged with each other.
LEMMA MergeJoins ==
  ASSUME NEW V, NEW W, NEW v, NEW w, Canonical(v, V), Canonical(w, W)
  PROVE  Canonical(Merge(Range(v) \cup Range(w)), V \cup W)
<1> DEFINE S == Range(v) \cup Range(w)
<1>1. Given(S)
  BY FS_Union DEF Canonical, Given, AddressesOf
<1>2. Canonical(Merge(S), S)
  BY <1>1, MergeIsCanonical
<1>3. Grants(S) = Grants(V \cup W)
  <2>1. Grants(S) = Grants(Range(v)) \cup Grants(Range(w))
    BY GrantsJoin
  <2>2. Grants(V \cup W) = Grants(V) \cup Grants(W)
    BY GrantsJoin
  <2>3. QED
    BY <2>1, <2>2 DEF Canonical
<1>4. AddressesOf(S) = AddressesOf(V \cup W)
  <2>1. AddressesOf(S) = AddressesOf(Range(v)) \cup AddressesOf(Range(w))
    BY DEF AddressesOf
  <2>2. AddressesOf(V \cup W) = AddressesOf(V) \cup AddressesOf(W)
    BY DEF AddressesOf
  <2>3. QED
    BY <2>1, <2>2 DEF Canonical
<1>5. QED
  BY <1>2, <1>3, <1>4 DEF Canonical

\* A merge is refused exactly for two of its servers that clash.
Clashing(wanted) == \E e, f \in wanted : Clash(e, f)

LEMMA CollisionIsClash ==
  ASSUME NEW m, NEW W, Canonical(m, W)
  PROVE  Collides(Addresses(m)) <=> Clashing(W)
<1> DEFINE a == Addresses(m)
<1>1. /\ a \in Seq(Address) /\ Ascending(a) /\ DOMAIN m = DOMAIN a
      /\ AddressesOf(Range(m)) = AddressesOf(W)
  BY DEF Canonical
<1>2. \A i \in DOMAIN a : a[i] = m[i].address
  BY <1>1 DEF Addresses
<1> HIDE DEF a
<1>3. \A i \in DOMAIN a : i \in Nat /\ a[i] \in Address
  BY <1>1
<1>4. \A i \in DOMAIN a : \E e \in W : e.address = a[i]
  BY <1>1, <1>2 DEF AddressesOf, Range
<1>5. ASSUME NEW e \in W
      PROVE  \E i \in DOMAIN a : e.address = a[i]
  <2>1. e.address \in AddressesOf(Range(m))
    BY <1>1 DEF AddressesOf
  <2>2. PICK g \in Range(m) : g.address = e.address
    BY <2>1 DEF AddressesOf
  <2>3. PICK i \in DOMAIN m : m[i] = g
    BY DEF Range
  <2>4. QED
    BY <1>1, <1>2, <2>2, <2>3
<1>6. ASSUME NEW i \in DOMAIN a, NEW j \in DOMAIN a, i # j
      PROVE  a[i] # a[j]
  <2>1. Precedes(a[i], a[j]) \/ Precedes(a[j], a[i])
    BY <1>1, <1>3, <1>6 DEF Ascending
  <2>2. QED
    BY <1>3, <2>1, PrecedesOrders
<1>7. ASSUME NEW i \in DOMAIN a, NEW j \in DOMAIN a, i # j,
             Listen(a[i]) \cap Listen(a[j]) # {}
      PROVE  Clashing(W)
  <2>1. PICK e \in W : e.address = a[i]
    BY <1>4
  <2>2. PICK f \in W : f.address = a[j]
    BY <1>4
  <2>3. QED
    BY <1>6, <1>7, <2>1, <2>2 DEF Clashing, Clash
<1>8. ASSUME NEW e \in W, NEW f \in W, Clash(e, f)
      PROVE  Collides(a)
  <2>1. PICK i \in DOMAIN a : e.address = a[i]
    BY <1>5
  <2>2. PICK j \in DOMAIN a : f.address = a[j]
    BY <1>5
  <2>3. QED
    BY <1>8, <2>1, <2>2 DEF Clash, Collides
<1>9. QED
  BY <1>7, <1>8 DEF Clashing, Collides, a

LEMMA MergedAgain ==
  ASSUME NEW V, NEW W, NEW v, NEW w, Canonical(v, V), Canonical(w, W),
         NEW m \in MergedSets(Range(v) \cup Range(w))
  PROVE  Canonical(m, V \cup W) /\ ~Collides(Addresses(m))
BY MergeJoins DEF MergedSets

LEMMA MergeSucceeds ==
  ASSUME NEW V, NEW W, NEW v, NEW w, Canonical(v, V), Canonical(w, W),
         ~Clashing(V \cup W)
  PROVE  \E m \in MergedSets(Range(v) \cup Range(w)) : Canonical(m, V \cup W)
<1> DEFINE m == Merge(Range(v) \cup Range(w))
<1>1. Canonical(m, V \cup W)
  BY MergeJoins
<1>2. ~Collides(Addresses(m))
  BY <1>1, CollisionIsClash
<1>3. m \in MergedSets(Range(v) \cup Range(w))
  BY <1>2 DEF MergedSets
<1>4. QED
  BY <1>1, <1>3

\* What one file and scope contributes.
LEMMA WantedIsGiven ==
  ASSUME servers \in Configurations, NEW scope \in Scopes,
         ~Malformed(scope, servers[scope])
  PROVE  Given(Wanted(scope))
<1> DEFINE chosen == {t \in servers[scope] : Selected(scope, t)}
<1>1. IsFiniteSet(chosen)
  BY ConfigurationsAssumption, FS_Subset
<1>2. IsFiniteSet(Wanted(scope))
  <2> DEFINE f == [s \in chosen |-> Endpoint(scope, s)]
  <2>1. f \in [chosen -> Wanted(scope)]
    BY DEF Wanted, SelectedFrom
  <2>2. \A e \in Wanted(scope) : \E s \in chosen : f[s] = e
    BY DEF Wanted, SelectedFrom
  <2> HIDE DEF f, chosen
  <2>3. QED
    BY <1>1, <2>1, <2>2, ImageIsFinite
<1>3. \A s \in chosen : Endpoint(scope, s).address \in Address
  BY DEF Malformed, Selected, ValidPort, Endpoint, Address
<1>4. QED
  BY <1>2, <1>3 DEF Given, AddressesOf, Wanted, SelectedFrom

LEMMA ParsedIsCanonical ==
  ASSUME servers \in Configurations, NEW scope \in Scopes,
         NEW m \in Parsed(scope)
  PROVE  Canonical(m, Wanted(scope)) /\ ~Malformed(scope, servers[scope])
<1>1. ~Malformed(scope, servers[scope]) /\ m \in MergedSets(Wanted(scope))
  BY DEF Parsed, Wanted
<1>2. QED
  BY <1>1, WantedIsGiven, MergeIsCanonical DEF MergedSets

LEMMA ParseSucceeds ==
  ASSUME servers \in Configurations, NEW scope \in Scopes,
         ~Malformed(scope, servers[scope]), ~Clashing(Wanted(scope))
  PROVE  \E m \in Parsed(scope) : Canonical(m, Wanted(scope))
<1> DEFINE m == Merge(Wanted(scope))
<1>1. Canonical(m, Wanted(scope))
  BY WantedIsGiven, MergeIsCanonical
<1>2. ~Collides(Addresses(m))
  BY <1>1, CollisionIsClash
<1>3. m \in Parsed(scope)
  BY <1>2 DEF Parsed, MergedSets, Wanted
<1>4. QED
  BY <1>1, <1>3

AllWanted == UNION {Wanted(scope) : scope \in Scopes}

\* A set that was discovered stands for the servers of all scopes.
LEMMA Discovered ==
  ASSUME servers \in Configurations, NEW m \in DiscoverAll
  PROVE  /\ Canonical(m, AllWanted) /\ ~Collides(Addresses(m))
         /\ \A scope \in Scopes : ~Malformed(scope, servers[scope])
<1>1. PICK codex \in Parsed("codex"), claude \in ClaudeSets :
        m \in MergedSets(Range(codex) \cup Range(claude))
  BY DEF DiscoverAll
<1>2. PICK user \in Parsed("user"), local \in Parsed("local") :
        claude \in MergedSets(Range(user) \cup Range(local))
  BY DEF ClaudeSets
<1>3. /\ Canonical(codex, Wanted("codex")) /\ Canonical(user, Wanted("user"))
      /\ Canonical(local, Wanted("local"))
      /\ \A scope \in Scopes : ~Malformed(scope, servers[scope])
  BY ParsedIsCanonical DEF Scopes
<1>4. Canonical(claude, Wanted("user") \cup Wanted("local"))
  BY <1>2, <1>3, MergedAgain
<1>5. /\ Canonical(m, Wanted("codex") \cup (Wanted("user") \cup Wanted("local")))
      /\ ~Collides(Addresses(m))
  BY <1>1, <1>3, <1>4, MergedAgain
<1>6. AllWanted = Wanted("codex") \cup (Wanted("user") \cup Wanted("local"))
  BY DEF AllWanted, Scopes
<1>7. QED
  BY <1>3, <1>5, <1>6

\* Nothing is refused that neither has a bad port nor clashes.
LEMMA DiscoverySucceeds ==
  ASSUME servers \in Configurations, ~Clashing(AllWanted),
         \A scope \in Scopes : ~Malformed(scope, servers[scope])
  PROVE  DiscoverAll # {}
<1>1. ASSUME NEW V \in SUBSET AllWanted
      PROVE  ~Clashing(V)
  BY DEF Clashing
<1>2. \A scope \in Scopes : Wanted(scope) \in SUBSET AllWanted
  BY DEF AllWanted
<1>3. \A scope \in Scopes : \E m \in Parsed(scope) : Canonical(m, Wanted(scope))
  BY <1>1, <1>2, ParseSucceeds
<1>4. PICK codex \in Parsed("codex") : Canonical(codex, Wanted("codex"))
  BY <1>3 DEF Scopes
<1>5. PICK user \in Parsed("user") : Canonical(user, Wanted("user"))
  BY <1>3 DEF Scopes
<1>6. PICK local \in Parsed("local") : Canonical(local, Wanted("local"))
  BY <1>3 DEF Scopes
<1>7. PICK claude \in MergedSets(Range(user) \cup Range(local)) :
        Canonical(claude, Wanted("user") \cup Wanted("local"))
  <2>1. ~Clashing(Wanted("user") \cup Wanted("local"))
    BY <1>1, <1>2 DEF Scopes
  <2>2. QED
    BY <1>5, <1>6, <2>1, MergeSucceeds
<1>8. PICK m \in MergedSets(Range(codex) \cup Range(claude)) : TRUE
  <2>1. ~Clashing(Wanted("codex") \cup (Wanted("user") \cup Wanted("local")))
    BY <1>1, <1>2 DEF Scopes
  <2>2. QED
    BY <1>4, <1>7, <2>1, MergeSucceeds
<1> DEFINE Joint(v, w) == MergedSets(Range(v) \cup Range(w))
<1>9. claude \in Joint(user, local) /\ m \in Joint(codex, claude)
  OBVIOUS
<1>10. /\ ClaudeSets = UNION {Joint(v, w) : v \in Parsed("user"),
                                            w \in Parsed("local")}
       /\ DiscoverAll = UNION {Joint(v, w) : v \in Parsed("codex"),
                                             w \in ClaudeSets}
  BY DEF ClaudeSets, DiscoverAll
<1> HIDE DEF Joint
<1>11. claude \in ClaudeSets
  <2>1. Joint(user, local) \in {Joint(v, w) : v \in Parsed("user"),
                                              w \in Parsed("local")}
    BY <1>5, <1>6
  <2>2. QED
    BY <1>9, <1>10, <2>1
<1>12. m \in DiscoverAll
  <2>1. Joint(codex, claude) \in {Joint(v, w) : v \in Parsed("codex"),
                                                w \in ClaudeSets}
    BY <1>4, <1>11
  <2>2. QED
    BY <1>9, <1>10, <2>1
<1>13. QED
  BY <1>12

\* A restart accepts what discovery recorded.
LEMMA RecordIsAccepted ==
  ASSUME NEW m, NEW wanted, Canonical(m, wanted), ~Collides(Addresses(m))
  PROVE  ParseLabel(Addresses(m)) = {Addresses(m)}
<1> DEFINE a == Addresses(m)
<1>1. a \in Seq(Address) /\ Ascending(a)
  BY DEF Canonical
<1> HIDE DEF a
<1>2. /\ Len(a) \in Nat /\ DOMAIN a = 1..Len(a)
      /\ \A i \in DOMAIN a : a[i] \in Address
  BY <1>1
<1>3. \A i \in DOMAIN a : a[i][1] \in Loopback /\ ValidPort(a[i][2])
  BY <1>2, AddressShape DEF ValidPort
<1>4. ASSUME NEW i \in 1..Len(a) - 1
      PROVE  ~Precedes(a[i + 1], a[i])
  <2>1. i \in DOMAIN a /\ i + 1 \in DOMAIN a /\ i < i + 1
    BY <1>2
  <2>2. Precedes(a[i], a[i + 1])
    BY <1>1, <2>1 DEF Ascending
  <2>3. QED
    BY <1>2, <2>1, <2>2, PrecedesOrders
<1>5. QED
  BY <1>3, <1>4 DEF ParseLabel, a

-----------------------------------------------------------------------------
(* The invariant and what follows from it.                                 *)

LEMMA EndpointInvariance == EpSpec => []EpInv
<1>1. EpInit => EpInv
  BY DEF EpInit, EpInv
<1>2. EpInv /\ [EpNext]_epVars => EpInv'
  <2> SUFFICES ASSUME EpInv, [EpNext]_epVars PROVE EpInv'
    OBVIOUS
  <2>1. servers' = servers /\ DiscoverAll' = DiscoverAll
    <3>1. servers' = servers
      BY DEF EpNext, DiscoverEndpoints, RecordLabel, RestoreEndpoints, epVars
    <3>2. QED
      BY <3>1 DEF DiscoverAll, ClaudeSets, Parsed, Malformed
  <2>2. CASE DiscoverEndpoints
    BY <2>1, <2>2 DEF DiscoverEndpoints, EpInv
  <2>3. CASE RecordLabel
    BY <2>1, <2>3 DEF RecordLabel, EpInv
  <2>4. CASE RestoreEndpoints
    <3>1. endpoints \in DiscoverAll /\ label = Addresses(endpoints)
      BY <2>4 DEF RestoreEndpoints, EpInv
    <3>2. ParseLabel(label) = {label}
      BY <3>1, Discovered, RecordIsAccepted DEF EpInv
    <3>3. phase' = "settled" /\ restored' = label
      BY <2>4, <3>2 DEF RestoreEndpoints
    <3>4. QED
      BY <2>1, <2>4, <3>1, <3>3 DEF RestoreEndpoints, EpInv
  <2>5. CASE UNCHANGED epVars
    BY <2>1, <2>5 DEF epVars, EpInv
  <2>6. QED
    BY <2>2, <2>3, <2>4, <2>5 DEF EpNext
<1>3. QED
  BY <1>1, <1>2, PTL DEF EpSpec

\* What a restart of a kept container reads from its label (ParseLabel) is
\* what discovery recorded: it is never refused, and every endpoint keeps its
\* index and with it its socket.
THEOREM SocketsAreKept == EpSpec => []RestartKeepsSockets
<1>1. EpInv => RestartKeepsSockets
  BY DEF EpInv, RestartKeepsSockets
<1>2. QED
  BY <1>1, EndpointInvariance, PTL

\* DiscoverAll refuses a configuration exactly when a server it selects has no
\* valid port or two of them need one listener, whatever products and scopes
\* they are in and whichever merge meets them first.
THEOREM OnlyTheConfigurationIsRefused == EpSpec => []RefusalIsJustified
<1> DEFINE faulty == \E scope \in Scopes : Malformed(scope, servers[scope])
<1>1. EpInv /\ phase = "failed" => faulty \/ Clashing(AllWanted)
  BY DiscoverySucceeds DEF EpInv
<1>2. EpInv /\ phase \in {"record", "restore", "settled"} =>
        ~faulty /\ ~Clashing(AllWanted)
  BY Discovered, CollisionIsClash DEF EpInv
<1>3. EpInv => RefusalIsJustified
  BY <1>1, <1>2 DEF RefusalIsJustified, Clashing, AllWanted, Wanted
<1>4. QED
  BY <1>3, EndpointInvariance, PTL

\* DiscoverAll loses and invents no grant: the endpoints of a launch are those
\* of the servers its configuration selects, each address once, whatever two
\* products and two scopes name in common.
THEOREM NoServerIsLost == EpSpec => []EveryServerIsForwarded
<1>1. EpInv => EveryServerIsForwarded
  <2> SUFFICES ASSUME EpInv, phase \in {"record", "restore", "settled"}
               PROVE  /\ Grants(Range(endpoints)) = AllWanted
                      /\ IsInjective(Addresses(endpoints))
    BY DEF EveryServerIsForwarded, AllWanted, Wanted
  <2>1. Canonical(endpoints, AllWanted)
    BY Discovered DEF EpInv
  <2>2. Grants(AllWanted) = AllWanted
    <3>1. ASSUME NEW e \in AllWanted
          PROVE  \E name : e.names = {name} /\ e = Grant(e, name)
      <4>1. PICK scope, s : e = Endpoint(scope, s)
        BY DEF AllWanted, Wanted, SelectedFrom
      <4>2. QED
        BY <4>1 DEF Endpoint, Grant
    <3>2. ASSUME NEW e \in AllWanted
          PROVE  e \in Grants(AllWanted)
      BY <3>1, InGrants
    <3>3. ASSUME NEW g \in Grants(AllWanted)
          PROVE  g \in AllWanted
      <4>1. PICK e \in AllWanted : \E name \in e.names : g = Grant(e, name)
        BY InGrants
      <4>2. g = e
        BY <3>1, <4>1
      <4>3. QED
        BY <4>2
    <3>4. QED
      BY <3>2, <3>3
  <2>3. IsInjective(Addresses(endpoints))
    <3> DEFINE a == Addresses(endpoints)
    <3>1. a \in Seq(Address) /\ Ascending(a)
      BY <2>1 DEF Canonical
    <3> HIDE DEF a
    <3>2. \A i \in DOMAIN a : i \in Nat /\ a[i] \in Address
      BY <3>1
    <3>3. ASSUME NEW i \in DOMAIN a, NEW j \in DOMAIN a, i # j
          PROVE  a[i] # a[j]
      <4>1. Precedes(a[i], a[j]) \/ Precedes(a[j], a[i])
        BY <3>1, <3>2, <3>3 DEF Ascending
      <4>2. QED
        BY <3>2, <4>1, PrecedesOrders
    <3>4. QED
      BY <3>3 DEF IsInjective, a
  <2>4. QED
    BY <2>1, <2>2, <2>3 DEF Canonical
<1>2. QED
  BY <1>1, EndpointInvariance, PTL

=============================================================================
