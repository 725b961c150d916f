--------------------------- MODULE MountPlanProofs ---------------------------
(***************************************************************************)
(* Proofs about MountPlan.  PlanInv says that each step has found what it  *)
(* looks for in what was found before it; what a finished plan promises    *)
(* follows from that and from what the lookups compute: the order of       *)
(* orderMountParentsFirst, which every mount that contains another one     *)
(* precedes, and the loop of normalizeLogicalMounts, after each turn of    *)
(* which the mounts retained serve those seen so far (Retains).            *)
(***************************************************************************)
EXTENDS MountPlan, FiniteSetTheorems, WellFoundedInduction, TLAPS

-----------------------------------------------------------------------------
(* Paths.                                                                  *)

\* A path covers itself.
LEMMA CoversItself ==
  ASSUME NEW p \in Path
  PROVE  Covers(p, p)
BY DEF Covers, IsPrefix, Path

\* Containment of paths is transitive.
LEMMA CoversOn ==
  ASSUME NEW p \in Path, NEW q \in Path, NEW r \in Path,
         Covers(p, q), Covers(q, r)
  PROVE  Covers(p, r)
BY DEF Covers, IsPrefix, Path

\* A path that covers one that is no longer is that path.
LEMMA CoversBoth ==
  ASSUME NEW p \in Path, NEW q \in Path, Covers(p, q),
         Covers(q, p) \/ Len(q) <= Len(p)
  PROVE  p = q
BY DEF Covers, IsPrefix, Path

\* Two paths above a third one lie on one line.
LEMMA CoversOverlap ==
  ASSUME NEW p \in Path, NEW q \in Path, NEW r \in Path,
         Covers(p, r), Covers(q, r)
  PROVE  Overlap(p, q)
BY DEF Covers, Overlap, IsPrefix, Path

\* A path below another one is that one with the rest appended.
LEMMA CoversRest ==
  ASSUME NEW p \in Path, NEW q \in Path, Covers(p, q)
  PROVE  Below(p, q) \in Path /\ q = p \o Below(p, q)
BY DEF Covers, Below, IsPrefix, Path

\* What is appended to a path is what is below it.
LEMMA CoversJoined ==
  ASSUME NEW p \in Path, NEW rest \in Path
  PROVE  p \o rest \in Path /\ Covers(p, p \o rest) /\ Below(p, p \o rest) = rest
BY DEF Covers, Below, IsPrefix, Path

\* Paths may be joined in any order.
LEMMA JoinedInTurn ==
  ASSUME NEW p \in Path, NEW q \in Path, NEW r \in Path
  PROVE  (p \o q) \o r = p \o (q \o r)
BY DEF Path

\* The rest below an upper path passes through the lower one.
LEMMA BelowInTurn ==
  ASSUME NEW p \in Path, NEW q \in Path, NEW r \in Path,
         Covers(p, q), Covers(q, r)
  PROVE  Below(p, r) = Below(p, q) \o Below(q, r)
<1>1. /\ Below(p, q) \in Path /\ q = p \o Below(p, q)
      /\ Below(q, r) \in Path /\ r = q \o Below(q, r)
  BY CoversRest
<1>2. r = p \o (Below(p, q) \o Below(q, r))
  <2>1. r = (p \o Below(p, q)) \o Below(q, r)
    BY <1>1
  <2>2. QED
    BY <1>1, <2>1, JoinedInTurn
<1>3. Below(p, q) \o Below(q, r) \in Path
  BY <1>1, CoversJoined
<1>4. QED
  BY <1>2, <1>3, CoversJoined

-----------------------------------------------------------------------------
(* Mounts.                                                                 *)

BindMount == [source : Path, target : Path, readOnly : BOOLEAN]

\* A mount contains itself.
LEMMA ContainsItself ==
  ASSUME NEW m \in BindMount
  PROVE  MountContains(m, m)
<1>1. m.source \in Path /\ m.target \in Path
  BY DEF BindMount
<1>2. Below(m.source, m.source) = <<>> /\ Below(m.target, m.target) = <<>>
  BY <1>1 DEF Below, Path
<1>3. QED
  BY <1>1, <1>2, CoversItself DEF MountContains

\* Of two mounts that a third one contains, the upper contains the lower.
LEMMA ContainsBetween ==
  ASSUME NEW a \in BindMount, NEW m \in BindMount, NEW n \in BindMount,
         MountContains(a, m), MountContains(a, n), Covers(m.target, n.target)
  PROVE  MountContains(m, n)
<1> DEFINE rest == Below(m.target, n.target)
           above == Below(a.target, m.target)
<1>1. /\ a.source \in Path /\ a.target \in Path /\ m.source \in Path
      /\ m.target \in Path /\ n.source \in Path /\ n.target \in Path
  BY DEF BindMount
<1>2. /\ Covers(a.source, m.source) /\ Covers(a.target, m.target)
      /\ Covers(a.source, n.source) /\ Covers(a.target, n.target)
      /\ Below(a.source, m.source) = above
      /\ Below(a.source, n.source) = Below(a.target, n.target)
  BY DEF MountContains
<1>3. Below(a.target, n.target) = above \o rest
  <2>1. /\ a.target \in Path /\ m.target \in Path /\ n.target \in Path
        /\ Covers(a.target, m.target) /\ Covers(m.target, n.target)
    BY <1>1, <1>2
  <2>2. QED
    BY <2>1, BelowInTurn, Zenon
<1>4. rest \in Path /\ above \in Path
  BY <1>1, <1>2, CoversRest
<1>5. m.source = a.source \o above /\ n.source = a.source \o (above \o rest)
  <2>1. m.source = a.source \o Below(a.source, m.source)
    BY <1>1, <1>2, CoversRest
  <2>2. n.source = a.source \o Below(a.source, n.source)
    BY <1>1, <1>2, CoversRest
  <2>3. QED
    BY <1>2, <1>3, <2>1, <2>2
<1> HIDE DEF rest, above
<1>6. n.source = m.source \o rest
  <2>1. (a.source \o above) \o rest = a.source \o (above \o rest)
    <3>1. a.source \in Path /\ above \in Path /\ rest \in Path
      BY <1>1, <1>4
    <3>2. QED
      BY <3>1, JoinedInTurn
  <2>2. QED
    BY <1>5, <2>1
<1>7. Covers(m.source, n.source) /\ Below(m.source, n.source) = rest
  BY <1>1, <1>4, <1>6, CoversJoined
<1>8. QED
  BY <1>7 DEF MountContains, rest

\* A mount that contains another one shows the same there.
LEMMA ContainerShowsTheSame ==
  ASSUME NEW m \in BindMount, NEW n \in BindMount, MountContains(m, n),
         NEW place \in Path, Covers(n.target, place)
  PROVE  /\ Covers(m.target, place)
         /\ m.source \o Below(m.target, place) = n.source \o Below(n.target, place)
<1> DEFINE rest == Below(n.target, place)
           above == Below(m.target, n.target)
<1>1. /\ m.source \in Path /\ m.target \in Path /\ n.source \in Path
      /\ n.target \in Path
  BY DEF BindMount
<1>2. /\ Covers(m.source, n.source) /\ Covers(m.target, n.target)
      /\ Below(m.source, n.source) = above
  BY DEF MountContains
<1>3. Covers(m.target, place)
  BY <1>1, <1>2, CoversOn
<1>4. Below(m.target, place) = above \o rest
  <2>1. /\ m.target \in Path /\ n.target \in Path
        /\ Covers(m.target, n.target) /\ Covers(n.target, place)
    BY <1>1, <1>2
  <2>2. QED
    BY <2>1, BelowInTurn, Zenon
<1>5. rest \in Path /\ above \in Path /\ n.source = m.source \o above
  <2>1. n.source = m.source \o Below(m.source, n.source)
    BY <1>1, <1>2, CoversRest
  <2>2. rest \in Path /\ above \in Path
    BY <1>1, <1>2, CoversRest
  <2>3. QED
    BY <1>2, <2>1, <2>2
<1> HIDE DEF rest, above
<1>6. m.source \o (above \o rest) = n.source \o rest
  <2> DEFINE source == m.source
  <2>1. source \in Path /\ above \in Path /\ rest \in Path
    BY <1>1, <1>5
  <2> HIDE DEF source
  <2>2. (source \o above) \o rest = source \o (above \o rest)
    BY <2>1, JoinedInTurn
  <2>3. QED
    BY <1>5, <2>2 DEF source
<1>7. QED
  BY <1>3, <1>4, <1>6 DEF rest

\* A mount contains no other one whose source is as short as its own.
LEMMA ContainedIsLonger ==
  ASSUME NEW m \in BindMount, NEW n \in BindMount, MountContains(m, n),
         m.target # n.target
  PROVE  Len(m.source) < Len(n.source)
<1>1. /\ m.source \in Path /\ m.target \in Path /\ n.source \in Path
      /\ n.target \in Path
  BY DEF BindMount
<1>2. /\ Covers(m.source, n.source) /\ Covers(m.target, n.target)
      /\ Below(m.source, n.source) = Below(m.target, n.target)
  BY DEF MountContains
<1>3. ASSUME Len(n.source) <= Len(m.source)
      PROVE  FALSE
  <2>1. m.source = n.source
    BY <1>1, <1>2, <1>3, CoversBoth
  <2>2. Below(m.source, n.source) = <<>>
    BY <1>1, <2>1 DEF Below, Path
  <2>3. n.target = m.target \o <<>>
    <3>1. n.target = m.target \o Below(m.target, n.target)
      BY <1>1, <1>2, CoversRest
    <3>2. QED
      BY <1>2, <2>2, <3>1
  <2>4. QED
    BY <1>1, <2>3 DEF Path
<1>4. Len(m.source) \in Nat /\ Len(n.source) \in Nat
  BY <1>1 DEF Path
<1>5. QED
  BY <1>3, <1>4

-----------------------------------------------------------------------------
(* Numbers and recursive functions.                                        *)

\* A property of numbers, as the set of those that have it.
LEMMA Climb ==
  ASSUME NEW n \in Nat, NEW S, 0 \in S, \A m \in 1 .. n : m - 1 \in S => m \in S
  PROVE  0 .. n \subseteq S
<1> DEFINE Less == {pair \in Nat \X Nat : pair[1] < pair[2]}
           Rest == {m \in Nat : m <= n /\ m \notin S}
<1>1. IsWellFoundedOn(Less, Nat)
  BY NatLessThanWellFounded DEF OpToRel
<1> HIDE DEF Less
<1>2. ASSUME Rest # {}
      PROVE  FALSE
  <2>1. PICK i \in Rest : \A j \in Rest : ~(<<j, i>> \in Less)
    <3>1. Rest \subseteq Nat
      OBVIOUS
    <3> HIDE DEF Rest
    <3>2. QED
      BY <1>1, <1>2, <3>1, WFMin
  <2>2. i \in 1 .. n /\ i - 1 \in Nat /\ i - 1 < i
    OBVIOUS
  <2>3. <<i - 1, i>> \in Less
    BY <2>2 DEF Less
  <2>4. i - 1 \in S
    BY <2>1, <2>2, <2>3
  <2>5. QED
    BY <2>2, <2>4
<1>3. QED
  BY <1>2

\* A set of natural numbers that is not empty has a least member.
LEMMA LeastNumber ==
  ASSUME NEW S \in SUBSET Nat, S # {}
  PROVE  \E i \in S : \A j \in S : i <= j
<1> DEFINE Less == {pair \in Nat \X Nat : pair[1] < pair[2]}
<1>1. IsWellFoundedOn(Less, Nat)
  BY NatLessThanWellFounded DEF OpToRel
<1> HIDE DEF Less
<1>2. PICK i \in S : \A j \in S : ~(<<j, i>> \in Less)
  BY <1>1, WFMin
<1>3. ASSUME NEW j \in S
      PROVE  i <= j
  <2>1. i \in Nat /\ j \in Nat
    OBVIOUS
  <2>2. <<j, i>> \in Less <=> j < i
    BY <2>1 DEF Less
  <2>3. QED
    BY <1>2, <2>1, <2>2
<1>4. QED
  BY <1>3

\* Min is that member.
LEMMA MinIsLeast ==
  ASSUME NEW S \in SUBSET Nat, S # {}
  PROVE  Min(S) \in S /\ \A j \in S : Min(S) <= j
BY LeastNumber DEF Min

\* Max is the greatest member of a set of numbers with a bound.
LEMMA MaxIsGreatest ==
  ASSUME NEW S \in SUBSET Nat, S # {}, NEW n \in Nat, \A j \in S : j <= n
  PROVE  Max(S) \in S /\ \A j \in S : Max(S) >= j
<1> DEFINE Bounds == {m \in Nat : \A j \in S : j <= m}
<1>1. PICK m \in Bounds : \A k \in Bounds : m <= k
  BY LeastNumber
<1>2. m \in S
  <2>1. CASE m = 0
    <3>1. PICK j \in S : TRUE
      OBVIOUS
    <3>2. j <= m /\ j \in Nat
      BY <1>1
    <3>3. j = m
      BY <2>1, <3>2
    <3>4. QED
      BY <3>3
  <2>2. CASE m # 0
    <3>1. m - 1 \in Nat /\ ~(m <= m - 1)
      BY <1>1, <2>2
    <3>2. PICK j \in S : ~(j <= m - 1)
      BY <1>1, <3>1
    <3>3. j = m
      BY <1>1, <3>1, <3>2
    <3>4. QED
      BY <3>3
  <2>3. QED
    BY <2>1, <2>2
<1>3. \A j \in S : m >= j
  BY <1>1
<1> HIDE DEF Bounds
<1>4. QED
  BY <1>2, <1>3 DEF Max

\* A function on 0 .. n that begins with start, goes on by steps of its own for
\* each number, and takes its values in the sets T[0], ..., T[n].
Recursion(f, n, T, step, start) ==
  /\ f = [m \in 0 .. n |-> f[m]] /\ f[0] = start
  /\ \A m \in 0 .. n : f[m] \in T[m]
  /\ \A m \in 1 .. n : f[m] = step[m][f[m - 1]]

\* A recursion whose steps stay within given sets can be carried to any number.
LEMMA RecursionExists ==
  ASSUME NEW n \in Nat, NEW T, NEW step, NEW start \in T[0],
         \A m \in 1 .. n : \A x \in T[m - 1] : step[m][x] \in T[m]
  PROVE  \E f : Recursion(f, n, T, step, start)
<1> DEFINE Fits(f, k) == Recursion(f, k, T, step, start)
           S == {k \in 0 .. n : \E f : Fits(f, k)}
<1> USE DEF Recursion
<1>1. 0 \in S
  <2> DEFINE f == [m \in 0 .. 0 |-> start]
  <2>1. 0 .. 0 = {0} /\ 1 .. 0 = {}
    OBVIOUS
  <2>2. Fits(f, 0)
    BY <2>1
  <2> HIDE DEF f, Recursion
  <2>3. QED
    BY <2>2
<1>2. ASSUME NEW k \in 1 .. n, k - 1 \in S
      PROVE  k \in S
  <2>1. PICK f : Fits(f, k - 1)
    BY <1>2
  <2> DEFINE g == [m \in 0 .. k |-> IF m = k THEN step[k][f[k - 1]] ELSE f[m]]
  <2>2. f[k - 1] \in T[k - 1]
    BY <2>1
  <2>3. step[k][f[k - 1]] \in T[k]
    BY <2>2
  <2>4. g[0] = start
    BY <2>1
  <2>5. \A m \in 0 .. k : g[m] \in T[m]
    BY <2>1, <2>3
  <2>6. ASSUME NEW m \in 1 .. k
        PROVE  g[m] = step[m][g[m - 1]]
    <3>1. CASE m = k
      <4>1. g[m] = step[k][f[k - 1]] /\ g[m - 1] = f[k - 1]
        BY <3>1
      <4>2. QED
        BY <3>1, <4>1
    <3>2. CASE m # k
      <4>1. m \in 1 .. k - 1 /\ g[m] = f[m] /\ g[m - 1] = f[m - 1]
        BY <3>2
      <4>2. QED
        BY <2>1, <4>1
    <3>3. QED
      BY <3>1, <3>2
  <2>7. g = [m \in 0 .. k |-> g[m]]
    OBVIOUS
  <2> HIDE DEF g
  <2>8. Fits(g, k)
    BY <2>4, <2>5, <2>6, <2>7
  <2> HIDE DEF Fits, Recursion
  <2>9. QED
    BY <2>8
<1>3. n \in S
  <2> HIDE DEF S
  <2>1. 0 .. n \subseteq S
    BY <1>1, <1>2, Climb
  <2>2. QED
    BY <2>1
<1> HIDE DEF Recursion
<1>4. QED
  BY <1>3

-----------------------------------------------------------------------------
(* Selections from a list.                                                 *)

\* What is selected of the first n members of a list, each once if they are
\* distinct.
Picks(s, list, wanted, n) ==
  /\ s \in Seq(Range(list))
  /\ \A i \in DOMAIN s : \E j \in 1 .. n : s[i] = list[j] /\ s[i] \in wanted
  /\ \A j \in 1 .. n : list[j] \in wanted => \E i \in DOMAIN s : s[i] = list[j]
  /\ (\A i, j \in DOMAIN list : list[i] = list[j] => i = j) =>
       \A i, j \in DOMAIN s : s[i] = s[j] => i = j

Pick(s, x, wanted) == IF x \in wanted THEN Append(s, x) ELSE s

\* The n-th member is selected or not; what was selected before stays.
LEMMA PickPicks ==
  ASSUME NEW X, NEW list \in Seq(X), NEW wanted, NEW n \in 1 .. Len(list),
         NEW s, Picks(s, list, wanted, n - 1)
  PROVE  Picks(Pick(s, list[n], wanted), list, wanted, n)
<1> DEFINE longer == Append(s, list[n])
<1>1. /\ n \in DOMAIN list /\ list[n] \in Range(list) /\ n - 1 \in Nat
      /\ DOMAIN list = 1 .. Len(list) /\ Len(list) \in Nat
  BY DEF Range
<1>2. 1 .. n = 1 .. n - 1 \cup {n}
  BY <1>1
<1>3. CASE list[n] \in wanted
  <2>1. /\ longer \in Seq(Range(list)) /\ DOMAIN longer = 1 .. Len(s) + 1
        /\ DOMAIN s = 1 .. Len(s) /\ Len(s) \in Nat
        /\ \A i \in 1 .. Len(s) : longer[i] = s[i]
        /\ longer[Len(s) + 1] = list[n]
    BY <1>1 DEF Picks
  <2> HIDE DEF longer
  <2>2. ASSUME NEW i \in DOMAIN longer
        PROVE  \E j \in 1 .. n : longer[i] = list[j] /\ longer[i] \in wanted
    <3>1. CASE i \in 1 .. Len(s)
      <4>1. PICK j \in 1 .. n - 1 : s[i] = list[j] /\ s[i] \in wanted
        BY <2>1, <3>1 DEF Picks
      <4>2. QED
        BY <1>2, <2>1, <3>1, <4>1
    <3>2. CASE i = Len(s) + 1
      BY <1>3, <2>1, <3>2
    <3>3. QED
      BY <2>1, <3>1, <3>2
  <2>3. ASSUME NEW j \in 1 .. n, list[j] \in wanted
        PROVE  \E i \in DOMAIN longer : longer[i] = list[j]
    <3>1. CASE j = n
      BY <2>1, <3>1
    <3>2. CASE j \in 1 .. n - 1
      <4>1. PICK i \in DOMAIN s : s[i] = list[j]
        BY <2>3, <3>2 DEF Picks
      <4>2. i \in DOMAIN longer /\ longer[i] = s[i]
        BY <2>1
      <4>3. QED
        BY <4>1, <4>2
    <3>3. QED
      BY <1>2, <3>1, <3>2
  <2>4. ASSUME \A i, j \in DOMAIN list : list[i] = list[j] => i = j,
               NEW i \in DOMAIN longer, NEW j \in DOMAIN longer,
               longer[i] = longer[j]
        PROVE  i = j
    <3>1. ASSUME NEW k \in 1 .. Len(s)
          PROVE  s[k] # list[n]
      <4>1. PICK l \in 1 .. n - 1 : s[k] = list[l]
        BY <2>1 DEF Picks
      <4>2. l \in DOMAIN list /\ l # n
        BY <1>1
      <4>3. QED
        BY <1>1, <2>4, <4>1, <4>2
    <3>2. \A k, l \in 1 .. Len(s) : s[k] = s[l] => k = l
      BY <2>1, <2>4 DEF Picks
    <3>3. CASE i \in 1 .. Len(s) /\ j \in 1 .. Len(s)
      BY <2>1, <2>4, <3>2, <3>3
    <3>4. CASE i = Len(s) + 1 \/ j = Len(s) + 1
      BY <2>1, <2>4, <3>1, <3>4
    <3>5. QED
      BY <2>1, <3>3, <3>4
  <2>5. Picks(longer, list, wanted, n)
    BY <2>1, <2>2, <2>3, <2>4 DEF Picks
  <2>6. QED
    BY <1>3, <2>5 DEF Pick, longer
<1>4. CASE list[n] \notin wanted
  <2>1. Picks(s, list, wanted, n)
    BY <1>2, <1>4 DEF Picks
  <2>2. QED
    BY <1>4, <2>1 DEF Pick
<1>5. QED
  BY <1>3, <1>4

\* Among selects what is wanted of the whole list.
LEMMA AmongPicks ==
  ASSUME NEW X, NEW list \in Seq(X), NEW wanted
  PROVE  Picks(Among(list, wanted), list, wanted, Len(list))
<1> DEFINE n == Len(list)
           T == [m \in 0 .. n |->
                   {s \in Seq(Range(list)) : Picks(s, list, wanted, m)}]
           step == [m \in 1 .. n |-> [s \in T[m - 1] |-> Pick(s, list[m], wanted)]]
           Body(f, m) ==
             IF m = 0 THEN <<>>
             ELSE IF list[m] \in wanted THEN Append(f[m - 1], list[m])
             ELSE f[m - 1]
           Fixed(f) == f = [m \in 0 .. n |-> Body(f, m)]
           first == CHOOSE f : Fixed(f)
<1>1. n \in Nat
  OBVIOUS
<1>2. <<>> \in T[0]
  <2>1. 0 \in 0 .. n /\ 1 .. 0 = {} /\ DOMAIN <<>> = {}
    BY <1>1
  <2>2. Picks(<<>>, list, wanted, 0)
    BY <2>1 DEF Picks
  <2>3. QED
    BY <2>1, <2>2
<1>3. \A m \in 1 .. n : \A s \in T[m - 1] :
        step[m][s] = Pick(s, list[m], wanted) /\ step[m][s] \in T[m]
  <2>1. SUFFICES ASSUME NEW m \in 1 .. n, NEW s \in T[m - 1]
                 PROVE  Pick(s, list[m], wanted) \in T[m]
    OBVIOUS
  <2>2. m \in 0 .. n /\ m - 1 \in 0 .. n
    BY <1>1
  <2>3. Picks(s, list, wanted, m - 1)
    BY <2>2
  <2>4. Picks(Pick(s, list[m], wanted), list, wanted, m)
    BY <2>3, PickPicks
  <2>5. QED
    BY <2>2, <2>4 DEF Picks
<1>4. \E f : Fixed(f)
  <2> HIDE DEF T, step, n
  <2>0. \A m \in 1 .. n : \A x \in T[m - 1] : step[m][x] \in T[m]
    BY <1>3
  <2>1. PICK f : Recursion(f, n, T, step, <<>>)
    BY <1>1, <1>2, <2>0, RecursionExists
  <2>2. ASSUME NEW m \in 0 .. n
        PROVE  f[m] = Body(f, m)
    <3>1. CASE m = 0
      BY <2>1, <3>1 DEF Recursion
    <3>2. CASE m # 0
      <4>1. m \in 1 .. n /\ m - 1 \in 0 .. n
        BY <1>1, <3>2
      <4>2. f[m] = Pick(f[m - 1], list[m], wanted)
        BY <1>3, <2>1, <4>1 DEF Recursion
      <4>3. QED
        BY <3>2, <4>2 DEF Pick
    <3>3. QED
      BY <3>1, <3>2
  <2> HIDE DEF Body
  <2>3. f = [m \in 0 .. n |-> Body(f, m)]
    BY <2>1, <2>2 DEF Recursion
  <2>4. QED
    BY <2>3
<1>5. Among(list, wanted) = first[n]
  BY DEF Among
<1>6. Fixed(first)
  <2> HIDE DEF Fixed
  <2>1. QED
    BY <1>4
<1> DEFINE S == {m \in 0 .. n : first[m] \in T[m]}
<1>7. 0 \in S
  <2>1. first[0] = Body(first, 0)
    <3> HIDE DEF first, Body
    <3>1. QED
      BY <1>1, <1>6
  <2> HIDE DEF first, T
  <2>2. QED
    BY <1>1, <1>2, <2>1
<1>8. ASSUME NEW m \in 1 .. n, m - 1 \in S
      PROVE  m \in S
  <2>1. m \in 0 .. n /\ m # 0
    BY <1>1
  <2>2. first[m] = Body(first, m)
    <3> HIDE DEF first, Body
    <3>1. QED
      BY <1>6, <2>1
  <2>3. first[m] = Pick(first[m - 1], list[m], wanted)
    BY <2>1, <2>2 DEF Pick
  <2>4. first[m - 1] \in T[m - 1]
    BY <1>8
  <2>5. QED
    <3> HIDE DEF T, step, first
    <3>1. QED
      BY <1>3, <2>1, <2>3, <2>4
<1>9. n \in S
  <2> HIDE DEF S
  <2>1. 0 .. n \subseteq S
    BY <1>1, <1>7, <1>8, Climb
  <2>2. QED
    BY <1>1, <2>1
<1>10. QED
  <2> HIDE DEF first
  <2>1. QED
    BY <1>1, <1>5, <1>9

-----------------------------------------------------------------------------
(* The order of the entries.                                               *)

Entry == [mount : BindMount, roles : SUBSET STRING]

\* Entries of which no two have the same target.
Separate(entries) ==
  /\ entries \in Seq(Entry)
  /\ \A i, j \in DOMAIN entries :
       entries[i].mount.target = entries[j].mount.target => i = j

\* No two of the first n in a list are the same.
Distinctly(s, n) == \A i, j \in 1 .. n : s[i] = s[j] => i = j

\* The numbers of n entries, each of them behind those of its parents.
InOrder(s, entries, n) ==
  /\ s \in Seq(DOMAIN entries) /\ Len(s) = n
  /\ Distinctly(s, n)
  /\ \A i \in 1 .. n : \A p \in ParentsOf(entries, s[i]) :
       \E j \in 1 .. i - 1 : s[j] = p

\* There are n numbers from 1 to n.
LEMMA NumbersUpTo ==
  ASSUME NEW n \in Nat
  PROVE  IsFiniteSet(1 .. n) /\ Cardinality(1 .. n) = n
<1>1. 1 \in Int /\ n \in Int
  OBVIOUS
<1>2. /\ IsFiniteSet(1 .. n)
      /\ Cardinality(1 .. n) = IF 1 > n THEN 0 ELSE n - 1 + 1
  BY <1>1, FS_Interval
<1>3. QED
  BY <1>2

\* A list shorter than n does not name all the numbers up to n.
LEMMA SomeIsMissing ==
  ASSUME NEW n \in Nat, NEW s \in Seq(1 .. n), Len(s) < n
  PROVE  \E c \in 1 .. n : c \notin Range(s)
<1> DEFINE g == [c \in 1 .. n |-> CHOOSE i \in 1 .. Len(s) : s[i] = c]
<1>1. SUFFICES ASSUME \A c \in 1 .. n : c \in Range(s)
               PROVE  FALSE
  OBVIOUS
<1>2. Len(s) \in Nat /\ DOMAIN s = 1 .. Len(s)
  OBVIOUS
<1>3. \A c \in 1 .. n : g[c] \in 1 .. Len(s) /\ s[g[c]] = c
  <2>1. \A c \in 1 .. n : \E i \in 1 .. Len(s) : s[i] = c
    BY <1>1, <1>2 DEF Range
  <2>2. QED
    BY <2>1
<1>4. g \in [1 .. n -> 1 .. Len(s)]
  BY <1>3
<1>5. /\ IsFiniteSet(1 .. n) /\ IsFiniteSet(1 .. Len(s))
      /\ Cardinality(1 .. Len(s)) < Cardinality(1 .. n)
  <2>1. IsFiniteSet(1 .. n) /\ Cardinality(1 .. n) = n
    BY NumbersUpTo
  <2>2. IsFiniteSet(1 .. Len(s)) /\ Cardinality(1 .. Len(s)) = Len(s)
    BY <1>2, NumbersUpTo
  <2>3. QED
    BY <2>1, <2>2
<1> HIDE DEF g
<1>6. PICK x \in 1 .. n, y \in 1 .. n : x # y /\ g[x] = g[y]
  BY <1>4, <1>5, FS_PigeonHole
<1>7. QED
  BY <1>3, <1>6

\* A list of n of the numbers up to n, without repetition, names all of them.
LEMMA NoneIsMissing ==
  ASSUME NEW n \in Nat, NEW s \in Seq(1 .. n), Len(s) = n, Distinctly(s, n),
         NEW c \in 1 .. n
  PROVE  \E i \in 1 .. n : s[i] = c
<1> USE DEF Distinctly
<1>1. SUFFICES ASSUME \A i \in 1 .. n : s[i] # c
               PROVE  FALSE
  OBVIOUS
<1>2. s \in [1 .. n -> (1 .. n) \ {c}]
  BY <1>1
<1>3. IsFiniteSet(1 .. n) /\ Cardinality(1 .. n) = n
  BY NumbersUpTo
<1>4. IsFiniteSet((1 .. n) \ {c}) /\ Cardinality((1 .. n) \ {c}) = n - 1
  BY <1>3, FS_RemoveElement
<1>5. \E x, y \in 1 .. n : x # y /\ s[x] = s[y]
  <2> DEFINE all == 1 .. n
             others == (1 .. n) \ {c}
  <2>1. /\ IsFiniteSet(all) /\ IsFiniteSet(others) /\ s \in [all -> others]
        /\ Cardinality(others) < Cardinality(all)
    BY <1>2, <1>3, <1>4
  <2> HIDE DEF all, others
  <2>2. \E x, y \in all : x # y /\ s[x] = s[y]
    BY <2>1, FS_PigeonHole
  <2>3. QED
    BY <2>2 DEF all
<1>6. QED
  BY <1>5

\* An entry of a list has a bind mount, whose source has a length.
LEMMA EntryIsMount ==
  ASSUME NEW entries, Separate(entries), NEW i \in DOMAIN entries
  PROVE  /\ entries[i] \in Entry /\ entries[i].mount \in BindMount
         /\ Len(entries[i].mount.source) \in Nat
<1>1. entries[i] \in Entry
  BY DEF Separate
<1>2. entries[i].mount \in BindMount
  BY <1>1 DEF Entry
<1>3. entries[i].mount.source \in Path
  BY <1>2 DEF BindMount
<1>4. QED
  BY <1>1, <1>2, <1>3 DEF Path

\* While an entry is unplaced, one of those with the shortest source is ready.
LEMMA SomeIsReady ==
  ASSUME NEW entries, Separate(entries), NEW n \in Nat, NEW placed,
         InOrder(placed, entries, n), n < Len(entries)
  PROVE  \E c \in DOMAIN entries \ Range(placed) :
           ParentsOf(entries, c) \subseteq Range(placed)
<1> DEFINE rest == DOMAIN entries \ Range(placed)
           size(c) == Len(entries[c].mount.source)
           sizes == {size(c) : c \in rest}
<1>1. DOMAIN entries = 1 .. Len(entries) /\ Len(entries) \in Nat
  BY DEF Separate
<1>2. rest # {}
  BY <1>1, SomeIsMissing DEF InOrder, Distinctly
<1>3. sizes \in SUBSET Nat /\ sizes # {}
  BY <1>2, EntryIsMount
<1>4. PICK k \in sizes : \A l \in sizes : k <= l
  <2> HIDE DEF sizes
  <2>1. QED
    BY <1>3, LeastNumber
<1>5. PICK c \in rest : k = size(c)
  OBVIOUS
<1>6. ASSUME NEW p \in ParentsOf(entries, c), p \notin Range(placed)
      PROVE  FALSE
  <2>1. /\ p \in DOMAIN entries /\ p # c
        /\ MountContains(entries[p].mount, entries[c].mount)
    BY DEF ParentsOf
  <2>2. entries[p].mount.target # entries[c].mount.target
    BY <2>1 DEF Separate
  <2>3. size(p) < size(c)
    BY <2>1, <2>2, EntryIsMount, ContainedIsLonger
  <2>4. size(p) \in sizes /\ size(p) \in Nat /\ size(c) \in Nat
    BY <1>6, <2>1, EntryIsMount
  <2>5. size(c) <= size(p)
    BY <1>4, <1>5, <2>4
  <2> HIDE DEF size
  <2>6. QED
    BY <2>3, <2>4, <2>5
<1>7. QED
  BY <1>6

\* The scan of orderMountParentsFirst always finds an entry to place, and its
\* parents are placed.
LEMMA NextIsReady ==
  ASSUME NEW entries, Separate(entries), NEW n \in Nat, NEW placed,
         InOrder(placed, entries, n), n < Len(entries)
  PROVE  /\ NextPlaced(entries, placed) \in DOMAIN entries \ Range(placed)
         /\ ParentsOf(entries, NextPlaced(entries, placed)) \subseteq Range(placed)
<1> DEFINE ready == {c \in DOMAIN entries \ Range(placed) :
                       ParentsOf(entries, c) \subseteq Range(placed)}
           later == {c \in ready : placed # <<>> /\ c > Last(placed)}
<1>1. DOMAIN entries \subseteq Nat
  BY DEF Separate
<1>2. ready \in SUBSET Nat /\ ready # {} /\ later \in SUBSET Nat
  BY <1>1, SomeIsReady
<1>3. later # {} => Min(later) \in later
  <2> HIDE DEF later
  <2>1. QED
    BY <1>2, MinIsLeast
<1>4. Min(ready) \in ready
  <2> HIDE DEF ready
  <2>1. QED
    BY <1>2, MinIsLeast
<1>5. NextPlaced(entries, placed) = IF later # {} THEN Min(later) ELSE Min(ready)
  BY DEF NextPlaced
<1>6. NextPlaced(entries, placed) \in ready
  <2>1. later \subseteq ready
    OBVIOUS
  <2> HIDE DEF later, ready
  <2>2. QED
    BY <1>3, <1>4, <1>5, <2>1
<1>7. QED
  BY <1>6

\* The entry it finds goes behind its parents.
LEMMA NextIsInOrder ==
  ASSUME NEW entries, Separate(entries), NEW n \in 1 .. Len(entries), NEW placed,
         InOrder(placed, entries, n - 1)
  PROVE  InOrder(Append(placed, NextPlaced(entries, placed)), entries, n)
<1> DEFINE c == NextPlaced(entries, placed)
           longer == Append(placed, c)
<1>1. n - 1 \in Nat /\ n - 1 < Len(entries) /\ n \in Nat
  BY DEF Separate
<1>2. /\ c \in DOMAIN entries /\ c \notin Range(placed)
      /\ ParentsOf(entries, c) \subseteq Range(placed)
  BY <1>1, NextIsReady
<1> HIDE DEF c
<1>3. /\ placed \in Seq(DOMAIN entries) /\ Len(placed) = n - 1
      /\ DOMAIN placed = 1 .. n - 1
  BY DEF InOrder, Distinctly
<1>4. /\ longer \in Seq(DOMAIN entries) /\ Len(longer) = n /\ longer[n] = c
      /\ \A i \in 1 .. n - 1 : longer[i] = placed[i]
  BY <1>1, <1>2, <1>3
<1> HIDE DEF longer
<1>5. 1 .. n = 1 .. n - 1 \cup {n}
  BY <1>1
<1>6. \A i \in 1 .. n - 1 : placed[i] # c
  BY <1>2, <1>3 DEF Range
<1>7. ASSUME NEW i \in 1 .. n, NEW j \in 1 .. n, longer[i] = longer[j]
      PROVE  i = j
  <2>1. CASE i \in 1 .. n - 1 /\ j \in 1 .. n - 1
    BY <1>4, <1>7, <2>1 DEF InOrder, Distinctly
  <2>2. CASE i = n \/ j = n
    BY <1>4, <1>5, <1>6, <1>7, <2>2
  <2>3. QED
    BY <1>5, <2>1, <2>2
<1>8. ASSUME NEW i \in 1 .. n, NEW p \in ParentsOf(entries, longer[i])
      PROVE  \E j \in 1 .. i - 1 : longer[j] = p
  <2>1. CASE i \in 1 .. n - 1
    <3>1. PICK j \in 1 .. i - 1 : placed[j] = p
      BY <1>4, <2>1 DEF InOrder, Distinctly
    <3>2. j \in 1 .. n - 1
      BY <1>1, <2>1
    <3>3. QED
      BY <1>4, <3>1, <3>2
  <2>2. CASE i = n
    <3>1. p \in Range(placed)
      BY <1>2, <1>4, <2>2
    <3>2. PICK j \in 1 .. n - 1 : placed[j] = p
      BY <1>3, <3>1 DEF Range
    <3>3. QED
      BY <1>4, <2>2, <3>2
  <2>3. QED
    BY <1>5, <2>1, <2>2
<1>9. InOrder(longer, entries, n)
  BY <1>4, <1>7, <1>8 DEF InOrder, Distinctly
<1>10. QED
  BY <1>9 DEF longer, c

\* orderMountParentsFirst ends with every entry placed, behind its parents.
LEMMA PlacedIsInOrder ==
  ASSUME NEW entries, Separate(entries)
  PROVE  InOrder(Placed(entries), entries, Len(entries))
<1> DEFINE n == Len(entries)
           Step(s) == Append(s, NextPlaced(entries, s))
           T == [m \in 0 .. n |->
                   {s \in Seq(DOMAIN entries) : InOrder(s, entries, m)}]
           step == [m \in 1 .. n |-> [s \in T[m - 1] |-> Step(s)]]
           Body(f, m) == IF m = 0 THEN <<>> ELSE Step(f[m - 1])
           Fixed(f) == f = [m \in 0 .. n |-> Body(f, m)]
           first == CHOOSE f : Fixed(f)
<1>1. n \in Nat
  BY DEF Separate
<1>2. <<>> \in T[0]
  <2>1. 0 \in 0 .. n /\ 1 .. 0 = {} /\ Len(<<>>) = 0
    BY <1>1
  <2>2. InOrder(<<>>, entries, 0)
    BY <2>1 DEF InOrder, Distinctly
  <2>3. QED
    BY <2>1, <2>2
<1>3. \A m \in 1 .. n : \A s \in T[m - 1] :
        step[m][s] = Step(s) /\ step[m][s] \in T[m]
  <2>1. SUFFICES ASSUME NEW m \in 1 .. n, NEW s \in T[m - 1]
                 PROVE  Step(s) \in T[m]
    OBVIOUS
  <2>2. m \in 0 .. n /\ m - 1 \in 0 .. n
    BY <1>1
  <2>3. InOrder(s, entries, m - 1)
    BY <2>2
  <2>4. InOrder(Step(s), entries, m)
    BY <2>3, NextIsInOrder
  <2>5. QED
    BY <2>2, <2>4 DEF InOrder, Distinctly
<1> HIDE DEF Step
<1>4. \E f : Fixed(f)
  <2> HIDE DEF T, step, n
  <2>1. \A m \in 1 .. n : \A x \in T[m - 1] : step[m][x] \in T[m]
    BY <1>3
  <2>2. PICK f : Recursion(f, n, T, step, <<>>)
    BY <1>1, <1>2, <2>1, RecursionExists
  <2>3. ASSUME NEW m \in 0 .. n
        PROVE  f[m] = Body(f, m)
    <3>1. CASE m = 0
      BY <2>2, <3>1 DEF Recursion
    <3>2. CASE m # 0
      <4>1. m \in 1 .. n /\ m - 1 \in 0 .. n
        BY <1>1, <3>2
      <4>2. f[m] = Step(f[m - 1])
        BY <1>3, <2>2, <4>1 DEF Recursion
      <4>3. QED
        BY <3>2, <4>2
    <3>3. QED
      BY <3>1, <3>2
  <2> HIDE DEF Body
  <2>4. f = [m \in 0 .. n |-> Body(f, m)]
    BY <2>2, <2>3 DEF Recursion
  <2>5. QED
    BY <2>4
<1>5. Placed(entries) = first[n]
  BY DEF Placed, Step
<1>6. Fixed(first)
  <2> HIDE DEF Fixed
  <2>1. QED
    BY <1>4
<1> DEFINE S == {m \in 0 .. n : first[m] \in T[m]}
<1>7. 0 \in S
  <2>1. first[0] = Body(first, 0)
    <3> HIDE DEF first, Body
    <3>1. QED
      BY <1>1, <1>6
  <2> HIDE DEF first, T
  <2>2. QED
    BY <1>1, <1>2, <2>1
<1>8. ASSUME NEW m \in 1 .. n, m - 1 \in S
      PROVE  m \in S
  <2>1. m \in 0 .. n /\ m # 0
    BY <1>1
  <2>2. first[m] = Body(first, m)
    <3> HIDE DEF first, Body
    <3>1. QED
      BY <1>6, <2>1
  <2>3. first[m] = Step(first[m - 1])
    BY <2>1, <2>2
  <2>4. first[m - 1] \in T[m - 1]
    BY <1>8
  <2>5. QED
    <3> HIDE DEF T, step, first
    <3>1. QED
      BY <1>3, <2>1, <2>3, <2>4
<1>9. n \in S
  <2> HIDE DEF S
  <2>1. 0 .. n \subseteq S
    BY <1>1, <1>7, <1>8, Climb
  <2>2. QED
    BY <1>1, <2>1
<1>10. QED
  <2> HIDE DEF first
  <2>1. QED
    BY <1>1, <1>5, <1>9

\* Separate entries of which none is in front of a parent.
Ordered(entries) ==
  /\ Separate(entries)
  /\ \A i, j \in DOMAIN entries :
       i # j /\ MountContains(entries[i].mount, entries[j].mount) => i < j

\* In the list orderMountParentsFirst returns no entry is in front of one that
\* contains it, and none is lost.
LEMMA ParentsComeFirst ==
  ASSUME NEW entries, Separate(entries)
  PROVE  /\ Ordered(ParentsFirst(entries))
         /\ Range(ParentsFirst(entries)) = Range(entries)
<1> DEFINE order == Placed(entries)
           n == Len(entries)
           sorted == [i \in 1 .. n |-> entries[order[i]]]
<1>1. n \in Nat /\ entries \in Seq(Entry) /\ DOMAIN entries = 1 .. n
  BY DEF Separate
<1>2. ParentsFirst(entries) = sorted
  BY <1>1 DEF ParentsFirst
<1>3. /\ order \in Seq(1 .. n) /\ Len(order) = n /\ Distinctly(order, n)
      /\ \A i \in 1 .. n : \A p \in ParentsOf(entries, order[i]) :
           \E j \in 1 .. i - 1 : order[j] = p
  BY <1>1, PlacedIsInOrder DEF InOrder
<1> HIDE DEF n, order
<1>4. \A i \in 1 .. n : order[i] \in 1 .. n
  BY <1>1, <1>3
<1>5. /\ sorted \in Seq(Entry) /\ DOMAIN sorted = 1 .. n
      /\ \A i \in 1 .. n : sorted[i] = entries[order[i]]
  BY <1>1, <1>4
<1> HIDE DEF sorted
<1>6. ASSUME NEW i \in 1 .. n, NEW j \in 1 .. n,
             sorted[i].mount.target = sorted[j].mount.target
      PROVE  i = j
  <2>1. order[i] \in DOMAIN entries /\ order[j] \in DOMAIN entries
    BY <1>1, <1>4
  <2>2. entries[order[i]].mount.target = entries[order[j]].mount.target
    BY <1>5, <1>6
  <2>3. order[i] = order[j]
    BY <2>1, <2>2 DEF Separate
  <2>4. QED
    BY <1>3, <2>3 DEF Distinctly
<1>7. ASSUME NEW i \in 1 .. n, NEW j \in 1 .. n, i # j,
             MountContains(sorted[i].mount, sorted[j].mount)
      PROVE  i < j
  <2>1. order[i] \in ParentsOf(entries, order[j])
    BY <1>1, <1>3, <1>4, <1>5, <1>7 DEF ParentsOf, Distinctly
  <2>2. PICK k \in 1 .. j - 1 : order[k] = order[i]
    BY <1>3, <2>1
  <2>3. k \in 1 .. n
    BY <1>1
  <2>4. k = i
    BY <1>3, <2>2, <2>3 DEF Distinctly
  <2>5. QED
    BY <2>2, <2>4
<1>8. Ordered(sorted)
  BY <1>5, <1>6, <1>7 DEF Ordered, Separate
<1>9. ASSUME NEW c \in 1 .. n
      PROVE  \E i \in 1 .. n : sorted[i] = entries[c]
  <2>1. PICK i \in 1 .. n : order[i] = c
    BY <1>1, <1>3, NoneIsMissing
  <2>2. QED
    BY <1>5, <2>1
<1>10. Range(sorted) = Range(entries)
  <2>1. \A i \in 1 .. n : sorted[i] \in Range(entries)
    BY <1>1, <1>4, <1>5 DEF Range
  <2>2. \A c \in 1 .. n : entries[c] \in Range(sorted)
    BY <1>5, <1>9 DEF Range
  <2>3. QED
    BY <1>1, <1>5, <2>1, <2>2 DEF Range
<1>11. QED
  BY <1>2, <1>8, <1>10

-----------------------------------------------------------------------------
(* What is merged.                                                         *)

\* The entry of a mount: the mount and the roles it is asked for.
MergedEntry(mount) ==
  [mount |-> mount,
   roles |-> {m.role : m \in {l \in Range(logical) : Bind(l) = mount}} \ {""}]

Binds == {Bind(l) : l \in Range(logical)}

\* A logical mount has the fields of a bind mount, and a role.
LEMMA BindIsMount ==
  ASSUME NEW l \in LogicalMount
  PROVE  Bind(l) \in BindMount /\ l.role \in STRING
BY DEF LogicalMount, BindMount, Bind

\* The first loop of normalizeLogicalMounts makes one entry of each mount that
\* is wanted, with the roles of all logical mounts that want it.
LEMMA MergedHasAll ==
  ASSUME logical \in Seq(LogicalMount), ~TargetsConflict
  PROVE  Separate(Merged) /\ Range(Merged) = {MergedEntry(m) : m \in Binds}
<1> DEFINE numbers == [i \in DOMAIN logical |-> i]
           repeats(i) == \E j \in 1 .. i - 1 : Bind(logical[j]) = Bind(logical[i])
           firsts == {i \in DOMAIN logical : ~repeats(i)}
           order == Among(numbers, firsts)
           bind(i) == Bind(logical[i])
<1>1. DOMAIN logical = 1 .. Len(logical) /\ Len(logical) \in Nat
  OBVIOUS
<1>2. /\ numbers \in Seq(Nat) /\ Len(numbers) = Len(logical)
      /\ Range(numbers) = DOMAIN logical
      /\ \A i \in DOMAIN logical : numbers[i] = i
      /\ DOMAIN numbers = DOMAIN logical
  BY <1>1 DEF Range
<1> HIDE DEF numbers, firsts
<1>3. Picks(order, numbers, firsts, Len(logical))
  BY <1>2, AmongPicks
<1>4. /\ order \in Seq(DOMAIN logical)
      /\ \A k \in DOMAIN order : order[k] \in firsts
      /\ \A i \in firsts : \E k \in DOMAIN order : order[k] = i
      /\ \A k, l \in DOMAIN order : order[k] = order[l] => k = l
  <2>1. \A i, j \in DOMAIN numbers : numbers[i] = numbers[j] => i = j
    BY <1>2
  <2>2. firsts \subseteq 1 .. Len(logical)
    BY <1>1 DEF firsts
  <2>3. order \in Seq(DOMAIN logical)
    BY <1>2, <1>3 DEF Picks
  <2>4. \A k \in DOMAIN order : order[k] \in firsts
    BY <1>3 DEF Picks
  <2>5. \A i \in firsts : \E k \in DOMAIN order : order[k] = i
    <3>1. SUFFICES ASSUME NEW i \in firsts
                   PROVE  \E k \in DOMAIN order : order[k] = i
      OBVIOUS
    <3>2. i \in 1 .. Len(logical) /\ numbers[i] = i
      BY <1>1, <1>2, <2>2
    <3>3. QED
      BY <1>3, <3>2 DEF Picks
  <2>6. \A k, l \in DOMAIN order : order[k] = order[l] => k = l
    BY <1>3, <2>1 DEF Picks
  <2>7. QED
    BY <2>3, <2>4, <2>5, <2>6
<1>5. Merged = [k \in DOMAIN order |-> MergedEntry(bind(order[k]))]
  BY DEF Merged, MergedEntry, numbers, firsts
<1> HIDE DEF order
<1>6. ASSUME NEW i \in DOMAIN logical
      PROVE  bind(i) \in BindMount /\ MergedEntry(bind(i)) \in Entry
  <2>1. bind(i) \in BindMount
    BY BindIsMount
  <2>2. \A l \in Range(logical) : l.role \in STRING
    BY BindIsMount DEF Range
  <2> HIDE DEF bind
  <2>3. QED
    BY <2>1, <2>2 DEF MergedEntry, Entry
<1>7. ASSUME NEW i \in DOMAIN logical
      PROVE  \E j \in firsts : bind(j) = bind(i)
  <2> DEFINE alike == {j \in DOMAIN logical : bind(j) = bind(i)}
  <2>1. alike \in SUBSET Nat /\ alike # {}
    BY <1>1
  <2>2. PICK j \in alike : \A k \in alike : j <= k
    <3> HIDE DEF alike
    <3>1. QED
      BY <2>1, LeastNumber
  <2>3. ASSUME NEW k \in 1 .. j - 1, bind(k) = bind(j)
        PROVE  FALSE
    <3>1. k \in alike /\ ~(j <= k)
      BY <1>1, <2>2, <2>3
    <3>2. QED
      BY <2>2, <3>1
  <2>4. j \in firsts
    BY <2>2, <2>3 DEF firsts
  <2>5. QED
    BY <2>2, <2>4
<1>8. ASSUME NEW i \in firsts, NEW j \in firsts,
             logical[i].target = logical[j].target
      PROVE  i = j
  <2>1. i \in 1 .. Len(logical) /\ j \in 1 .. Len(logical)
    BY <1>1 DEF firsts
  <2>2. bind(i) = bind(j)
    BY <1>1, <1>8, <2>1 DEF TargetsConflict
  <2>3. ~(i \in 1 .. j - 1) /\ ~(j \in 1 .. i - 1)
    BY <2>2 DEF firsts
  <2>4. QED
    BY <2>1, <2>3
<1> DEFINE merged == [k \in DOMAIN order |-> MergedEntry(bind(order[k]))]
<1>9. /\ DOMAIN merged = DOMAIN order /\ DOMAIN order = 1 .. Len(order)
      /\ Len(order) \in Nat
      /\ \A k \in DOMAIN order : /\ merged[k] = MergedEntry(bind(order[k]))
                                 /\ order[k] \in DOMAIN logical
  BY <1>4 DEF firsts
<1>10. merged \in Seq(Entry)
  BY <1>6, <1>9
<1> HIDE DEF merged
<1>11. ASSUME NEW k \in DOMAIN order, NEW l \in DOMAIN order,
              merged[k].mount.target = merged[l].mount.target
       PROVE  k = l
  <2>1. merged[k].mount = bind(order[k]) /\ merged[l].mount = bind(order[l])
    <3>1. \A m : MergedEntry(m).mount = m
      BY DEF MergedEntry
    <3> HIDE DEF bind
    <3>2. QED
      BY <1>9, <3>1
  <2>2. logical[order[k]].target = logical[order[l]].target
    <3>1. bind(order[k]).target = bind(order[l]).target
      <4> HIDE DEF bind
      <4>1. QED
        BY <1>11, <2>1
    <3>2. \A i : bind(i).target = logical[i].target
      BY DEF Bind
    <3> HIDE DEF bind
    <3>3. QED
      BY <3>1, <3>2
  <2>3. order[k] \in firsts /\ order[l] \in firsts
    BY <1>4
  <2>4. order[k] = order[l]
    BY <1>8, <2>2, <2>3
  <2>5. QED
    BY <1>4, <2>4
<1>12. Separate(merged)
  BY <1>9, <1>10, <1>11 DEF Separate
<1>13. Range(merged) = {MergedEntry(m) : m \in Binds}
  <2>1. ASSUME NEW k \in DOMAIN merged
        PROVE  merged[k] \in {MergedEntry(m) : m \in Binds}
    BY <1>9 DEF Binds, Range
  <2>2. ASSUME NEW m \in Binds
        PROVE  \E k \in DOMAIN merged : merged[k] = MergedEntry(m)
    <3>1. PICK i \in DOMAIN logical : m = bind(i)
      BY DEF Binds, Range
    <3>2. PICK j \in firsts : bind(j) = bind(i)
      BY <1>7
    <3>3. PICK k \in DOMAIN order : order[k] = j
      BY <1>4
    <3>4. QED
      BY <1>9, <3>1, <3>2, <3>3
  <2>3. QED
    BY <2>1, <2>2 DEF Range
<1>14. QED
  BY <1>5, <1>12, <1>13 DEF merged

-----------------------------------------------------------------------------
(* What is retained.                                                       *)

\* The a-th retained mount shows what the entry asks for, has its access and
\* its roles, and no later one is mounted over the entry's target.
Serves(kept, a, entry) ==
  /\ MountContains(kept[a].mount, entry.mount)
  /\ kept[a].mount.readOnly = entry.mount.readOnly
  /\ entry.roles \subseteq kept[a].roles
  /\ \A t \in DOMAIN kept :
       t > a => ~Covers(kept[t].mount.target, entry.mount.target)

\* A role is kept twice only when two of the entries have it.
RolesOfEntries(kept, entries, n) ==
  /\ \A i \in DOMAIN kept : \A r \in kept[i].roles :
       \E k \in 1 .. n : r \in entries[k].roles
  /\ \A i, j \in DOMAIN kept : \A r \in kept[i].roles \cap kept[j].roles :
       i = j \/ \E k, l \in 1 .. n : /\ k # l
                                     /\ r \in entries[k].roles
                                     /\ r \in entries[l].roles

\* What is retained of the first n entries.
Retains(kept, entries, n) ==
  /\ kept \in Seq(Entry)
  /\ \A i \in DOMAIN kept : \E k \in 1 .. n : kept[i].mount = entries[k].mount
  /\ \A k \in 1 .. n : \E a \in DOMAIN kept : Serves(kept, a, entries[k])
  /\ RolesOfEntries(kept, entries, n)

\* A retained mount is an entry.
LEMMA KeptIsEntry ==
  ASSUME NEW kept \in Seq(Entry), NEW i \in DOMAIN kept
  PROVE  /\ kept[i] \in Entry /\ kept[i].mount \in BindMount
         /\ kept[i].mount.target \in Path
<1>1. kept[i] \in Entry
  OBVIOUS
<1>2. kept[i].mount \in BindMount
  BY <1>1 DEF Entry
<1>3. QED
  BY <1>1, <1>2 DEF BindMount

\* The nearest of the mounts around an entry is the last of them.
LEMMA NearestIsAround ==
  ASSUME NEW kept \in Seq(Entry), NEW entry, Around(kept, entry) # {}
  PROVE  /\ Max(Around(kept, entry)) \in Around(kept, entry)
         /\ \A i \in Around(kept, entry) : i <= Max(Around(kept, entry))
<1>1. /\ Around(kept, entry) \in SUBSET Nat /\ Len(kept) \in Nat
      /\ \A i \in Around(kept, entry) : i <= Len(kept)
  BY DEF Around
<1>2. /\ Max(Around(kept, entry)) \in Around(kept, entry)
      /\ \A i \in Around(kept, entry) : Max(Around(kept, entry)) >= i
  BY <1>1, MaxIsGreatest
<1>3. QED
  BY <1>1, <1>2

\* An absorbed entry is served by its nearest ancestor.
LEMMA AbsorbingRetains ==
  ASSUME NEW entries, Ordered(entries), NEW n \in 1 .. Len(entries), NEW kept,
         Retains(kept, entries, n - 1), ~Clashes(kept, entries[n]),
         NEW a \in Around(kept, entries[n]),
         \A i \in Around(kept, entries[n]) : i <= a,
         kept[a].mount.readOnly = entries[n].mount.readOnly
  PROVE  Retains([kept EXCEPT ![a].roles = @ \cup entries[n].roles], entries, n)
<1> DEFINE e == entries[n]
           next == [kept EXCEPT ![a].roles = @ \cup e.roles]
<1>1. /\ entries \in Seq(Entry) /\ DOMAIN entries = 1 .. Len(entries)
      /\ Len(entries) \in Nat /\ n \in Nat /\ n - 1 \in Nat
      /\ 1 .. n = 1 .. n - 1 \cup {n}
  BY DEF Ordered, Separate
<1>2. /\ kept \in Seq(Entry) /\ DOMAIN kept = 1 .. Len(kept) /\ Len(kept) \in Nat
      /\ a \in DOMAIN kept /\ MountContains(kept[a].mount, e.mount)
  BY DEF Retains, Around
<1>3. e \in Entry /\ kept[a] \in Entry
  BY <1>1, <1>2
<1>4. [kept[a] EXCEPT !.roles = @ \cup e.roles] \in Entry
  BY <1>3 DEF Entry
<1>5. /\ next \in Seq(Entry) /\ DOMAIN next = DOMAIN kept
      /\ \A i \in DOMAIN kept : i # a => next[i] = kept[i]
      /\ next[a] = [kept[a] EXCEPT !.roles = @ \cup e.roles]
  <2>1. next = [i \in DOMAIN kept |->
                  IF i = a THEN [kept[a] EXCEPT !.roles = @ \cup e.roles]
                  ELSE kept[i]]
    BY <1>2
  <2> HIDE DEF next, e
  <2>2. QED
    BY <1>2, <1>4, <2>1
<1>6. next[a].mount = kept[a].mount /\ next[a].roles = kept[a].roles \cup e.roles
  BY <1>3, <1>5 DEF Entry
<1> HIDE DEF next
<1>7. \A i \in DOMAIN kept : /\ next[i].mount = kept[i].mount
                             /\ kept[i].roles \subseteq next[i].roles
                             /\ next[i].roles \subseteq kept[i].roles \cup e.roles
                             /\ i # a => next[i].roles = kept[i].roles
  BY <1>5, <1>6
<1>8. ASSUME NEW i \in DOMAIN next
      PROVE  \E k \in 1 .. n : next[i].mount = entries[k].mount
  <2>1. PICK k \in 1 .. n - 1 : kept[i].mount = entries[k].mount
    BY <1>5 DEF Retains
  <2>2. QED
    BY <1>1, <1>5, <1>7, <2>1
<1>9. ASSUME NEW k \in 1 .. n
      PROVE  \E b \in DOMAIN next : Serves(next, b, entries[k])
  <2>1. CASE k = n
    <3>1. ASSUME NEW t \in DOMAIN kept, t > a
          PROVE  ~Covers(next[t].mount.target, e.mount.target)
      <4>1. t \notin Around(kept, e)
        BY <1>2, <3>1
      <4>2. ~Overlap(kept[t].mount.target, e.mount.target)
        BY <3>1, <4>1 DEF Clashes
      <4>3. QED
        BY <1>7, <3>1, <4>2 DEF Overlap
    <3>2. /\ MountContains(next[a].mount, e.mount)
          /\ next[a].mount.readOnly = e.mount.readOnly
          /\ e.roles \subseteq next[a].roles
      BY <1>2, <1>6
    <3>3. Serves(next, a, e)
      BY <1>5, <3>1, <3>2 DEF Serves
    <3>4. QED
      BY <1>2, <1>5, <2>1, <3>3
  <2>2. CASE k \in 1 .. n - 1
    <3>1. PICK b \in DOMAIN kept : Serves(kept, b, entries[k])
      BY <2>2 DEF Retains
    <3>2. Serves(next, b, entries[k])
      BY <1>5, <1>7, <3>1 DEF Serves
    <3>3. QED
      BY <1>5, <3>2
  <2>3. QED
    BY <1>1, <2>1, <2>2
<1>10. ASSUME NEW i \in DOMAIN next, NEW r \in next[i].roles
       PROVE  \E k \in 1 .. n : r \in entries[k].roles
  <2>1. CASE r \in e.roles
    BY <1>1, <2>1
  <2>2. CASE r \in kept[i].roles
    <3>1. PICK k \in 1 .. n - 1 : r \in entries[k].roles
      BY <1>5, <2>2 DEF Retains, RolesOfEntries
    <3>2. QED
      BY <1>1, <3>1
  <2>3. QED
    BY <1>5, <1>7, <2>1, <2>2
<1>11. ASSUME NEW i \in DOMAIN next, NEW j \in DOMAIN next,
              NEW r \in next[i].roles \cap next[j].roles, i # j
       PROVE  \E k, l \in 1 .. n : /\ k # l /\ r \in entries[k].roles
                                   /\ r \in entries[l].roles
  <2>1. CASE r \in kept[i].roles /\ r \in kept[j].roles
    <3>1. PICK k \in 1 .. n - 1, l \in 1 .. n - 1 :
            k # l /\ r \in entries[k].roles /\ r \in entries[l].roles
      BY <1>5, <1>11, <2>1 DEF Retains, RolesOfEntries
    <3>2. QED
      BY <1>1, <3>1
  <2>2. ASSUME NEW x \in DOMAIN kept, r \in kept[x].roles, r \in e.roles
        PROVE  \E k, l \in 1 .. n : /\ k # l /\ r \in entries[k].roles
                                    /\ r \in entries[l].roles
    <3>1. PICK k \in 1 .. n - 1 : r \in entries[k].roles
      BY <2>2 DEF Retains, RolesOfEntries
    <3>2. k \in 1 .. n /\ n \in 1 .. n /\ k # n
      BY <1>1
    <3>3. QED
      BY <2>2, <3>1, <3>2
  <2>3. /\ r \in kept[i].roles \/ r \in e.roles
        /\ r \in kept[j].roles \/ r \in e.roles
    BY <1>5, <1>7
  <2>4. r \in kept[i].roles \/ r \in kept[j].roles
    BY <1>5, <1>7, <1>11
  <2>5. QED
    BY <1>5, <2>1, <2>2, <2>3, <2>4
<1>12. RolesOfEntries(next, entries, n)
  BY <1>10, <1>11 DEF RolesOfEntries
<1>13. Retains(next, entries, n)
  BY <1>5, <1>8, <1>9, <1>12 DEF Retains
<1>14. QED
  BY <1>13 DEF next

\* An entry that is appended is not mounted over any before it: an entry it
\* contains would be behind it.
LEMMA AppendingRetains ==
  ASSUME NEW entries, Ordered(entries), NEW n \in 1 .. Len(entries), NEW kept,
         Retains(kept, entries, n - 1), ~Clashes(kept, entries[n])
  PROVE  Retains(Append(kept, entries[n]), entries, n)
<1> DEFINE e == entries[n]
           next == Append(kept, e)
           last == Len(kept) + 1
<1>1. /\ entries \in Seq(Entry) /\ DOMAIN entries = 1 .. Len(entries)
      /\ Len(entries) \in Nat /\ n \in Nat /\ n - 1 \in Nat
      /\ 1 .. n = 1 .. n - 1 \cup {n} /\ n \in DOMAIN entries
  BY DEF Ordered, Separate
<1>2. kept \in Seq(Entry) /\ DOMAIN kept = 1 .. Len(kept) /\ Len(kept) \in Nat
  BY DEF Retains
<1>3. e \in Entry
  BY <1>1
<1>4. /\ next \in Seq(Entry) /\ DOMAIN next = 1 .. last
      /\ \A i \in DOMAIN kept : next[i] = kept[i] /\ i \in DOMAIN next
      /\ next[last] = e /\ last \in DOMAIN next
      /\ \A i \in DOMAIN next : i = last \/ i \in DOMAIN kept
  BY <1>2, <1>3
<1> HIDE DEF next
<1>5. ASSUME NEW i \in DOMAIN next
      PROVE  \E k \in 1 .. n : next[i].mount = entries[k].mount
  <2>1. CASE i = last
    BY <1>1, <1>4, <2>1
  <2>2. CASE i \in DOMAIN kept
    <3>1. PICK k \in 1 .. n - 1 : kept[i].mount = entries[k].mount
      BY <2>2 DEF Retains
    <3>2. QED
      BY <1>1, <1>4, <2>2, <3>1
  <2>3. QED
    BY <1>4, <2>1, <2>2
<1>6. ASSUME NEW k \in 1 .. n - 1, NEW b \in DOMAIN kept,
             Serves(kept, b, entries[k]),
             Covers(e.mount.target, entries[k].mount.target)
      PROVE  FALSE
  <2>1. k \in DOMAIN entries /\ n \in DOMAIN entries /\ k # n /\ ~(n < k)
    BY <1>1
  <2>2. /\ kept[b].mount \in BindMount /\ kept[b].mount.target \in Path
        /\ e.mount \in BindMount /\ e.mount.target \in Path
        /\ entries[k].mount \in BindMount /\ entries[k].mount.target \in Path
    BY <1>1, <1>2, <2>1, KeptIsEntry
  <2>3. MountContains(kept[b].mount, entries[k].mount)
    BY <1>6 DEF Serves
  <2>4. Covers(kept[b].mount.target, entries[k].mount.target)
    BY <2>3 DEF MountContains
  <2>5. Overlap(kept[b].mount.target, e.mount.target)
    BY <1>6, <2>2, <2>4, CoversOverlap
  <2>6. MountContains(kept[b].mount, e.mount)
    BY <1>6, <2>5 DEF Clashes, Around
  <2>7. MountContains(e.mount, entries[k].mount)
    BY <1>6, <2>2, <2>3, <2>6, ContainsBetween
  <2>8. QED
    BY <2>1, <2>7 DEF Ordered
<1>7. ASSUME NEW k \in 1 .. n
      PROVE  \E b \in DOMAIN next : Serves(next, b, entries[k])
  <2>1. CASE k = n
    <3>1. MountContains(e.mount, e.mount)
      BY <1>3, ContainsItself DEF Entry
    <3>2. \A t \in DOMAIN next : ~(t > last)
      BY <1>2, <1>4
    <3>3. Serves(next, last, e)
      BY <1>4, <3>1, <3>2 DEF Serves
    <3>4. QED
      BY <1>4, <2>1, <3>3
  <2>2. CASE k \in 1 .. n - 1
    <3>1. PICK b \in DOMAIN kept : Serves(kept, b, entries[k])
      BY <2>2 DEF Retains
    <3>2. ~Covers(e.mount.target, entries[k].mount.target)
      BY <1>6, <2>2, <3>1
    <3>3. \A t \in DOMAIN next :
            t > b => ~Covers(next[t].mount.target, entries[k].mount.target)
      BY <1>4, <3>1, <3>2 DEF Serves
    <3>4. Serves(next, b, entries[k])
      BY <1>4, <3>1, <3>3 DEF Serves
    <3>5. QED
      BY <1>4, <3>4
  <2>3. QED
    BY <1>1, <2>1, <2>2
<1>8. ASSUME NEW i \in DOMAIN next, NEW r \in next[i].roles
      PROVE  \E k \in 1 .. n : r \in entries[k].roles
  <2>1. CASE i = last
    BY <1>1, <1>4, <2>1
  <2>2. CASE i \in DOMAIN kept
    <3>1. PICK k \in 1 .. n - 1 : r \in entries[k].roles
      BY <1>4, <2>2 DEF Retains, RolesOfEntries
    <3>2. QED
      BY <1>1, <3>1
  <2>3. QED
    BY <1>4, <2>1, <2>2
<1>9. ASSUME NEW i \in DOMAIN kept, NEW r \in kept[i].roles, r \in e.roles
      PROVE  \E k, l \in 1 .. n : /\ k # l /\ r \in entries[k].roles
                                  /\ r \in entries[l].roles
  <2>1. PICK k \in 1 .. n - 1 : r \in entries[k].roles
    BY DEF Retains, RolesOfEntries
  <2>2. k \in 1 .. n /\ n \in 1 .. n /\ k # n
    BY <1>1
  <2>3. QED
    BY <1>9, <2>1, <2>2
<1>10. ASSUME NEW i \in DOMAIN next, NEW j \in DOMAIN next,
              NEW r \in next[i].roles \cap next[j].roles, i # j
       PROVE  \E k, l \in 1 .. n : /\ k # l /\ r \in entries[k].roles
                                   /\ r \in entries[l].roles
  <2>1. CASE i \in DOMAIN kept /\ j \in DOMAIN kept
    <3>1. PICK k \in 1 .. n - 1, l \in 1 .. n - 1 :
            k # l /\ r \in entries[k].roles /\ r \in entries[l].roles
      <4>1. r \in kept[i].roles \cap kept[j].roles
        BY <1>4, <2>1
      <4>2. QED
        BY <1>10, <2>1, <4>1 DEF Retains, RolesOfEntries
    <3>2. QED
      BY <1>1, <3>1
  <2>2. CASE i = last /\ j \in DOMAIN kept
    BY <1>4, <1>9, <2>2
  <2>3. CASE i \in DOMAIN kept /\ j = last
    BY <1>4, <1>9, <2>3
  <2>4. QED
    BY <1>4, <1>10, <2>1, <2>2, <2>3
<1>11. RolesOfEntries(next, entries, n)
  BY <1>8, <1>10 DEF RolesOfEntries
<1>12. Retains(next, entries, n)
  BY <1>4, <1>5, <1>7, <1>11 DEF Retains
<1>13. QED
  BY <1>12 DEF next

\* One pass of the second loop of normalizeLogicalMounts.
LEMMA RetainRetains ==
  ASSUME NEW entries, Ordered(entries), NEW n \in 1 .. Len(entries), NEW kept,
         Retains(kept, entries, n - 1), ~Clashes(kept, entries[n])
  PROVE  Retains(Retain(kept, entries[n]), entries, n)
<1> DEFINE e == entries[n]
           a == Max(Around(kept, e))
<1>1. kept \in Seq(Entry)
  BY DEF Retains
<1>2. CASE Around(kept, e) # {} /\ kept[a].mount.readOnly = e.mount.readOnly
  <2>1. a \in Around(kept, e) /\ \A i \in Around(kept, e) : i <= a
    BY <1>1, <1>2, NearestIsAround
  <2>2. Retain(kept, e) = [kept EXCEPT ![a].roles = @ \cup e.roles]
    BY <1>2 DEF Retain
  <2> HIDE DEF a
  <2>3. Retains([kept EXCEPT ![a].roles = @ \cup e.roles], entries, n)
    BY <1>2, <2>1, AbsorbingRetains
  <2>4. QED
    BY <2>2, <2>3
<1>3. CASE ~(Around(kept, e) # {} /\ kept[a].mount.readOnly = e.mount.readOnly)
  <2>1. Retain(kept, e) = Append(kept, e)
    BY <1>3 DEF Retain
  <2>2. QED
    BY <2>1, AppendingRetains
<1>4. QED
  BY <1>2, <1>3

\* All passes of the second loop of normalizeLogicalMounts.
LEMMA EachIsRetained ==
  ASSUME NEW entries, Ordered(entries), NEW kept \in RetainEach(entries)
  PROVE  Retains(kept, entries, Len(entries))
<1> DEFINE n == Len(entries)
           Good(m) == {k \in Seq(Entry) : Retains(k, entries, m)}
           Step(m, s) == {Retain(k, entries[m]) :
                            k \in {l \in s : ~Clashes(l, entries[m])}}
           T == [m \in 0 .. n |-> SUBSET Good(m)]
           step == [m \in 1 .. n |-> [s \in T[m - 1] |-> Step(m, s)]]
           Body(f, m) == IF m = 0 THEN {<<>>} ELSE Step(m, f[m - 1])
           Fixed(f) == f = [m \in 0 .. n |-> Body(f, m)]
           first == CHOOSE f : Fixed(f)
<1>1. n \in Nat
  BY DEF Ordered, Separate
<1>2. {<<>>} \in T[0]
  <2>1. 0 \in 0 .. n /\ 1 .. 0 = {} /\ DOMAIN <<>> = {}
    BY <1>1
  <2>2. Retains(<<>>, entries, 0)
    BY <2>1 DEF Retains, RolesOfEntries
  <2>3. QED
    BY <2>1, <2>2
<1>3. \A m \in 1 .. n : \A s \in T[m - 1] :
        step[m][s] = Step(m, s) /\ step[m][s] \in T[m]
  <2>1. SUFFICES ASSUME NEW m \in 1 .. n, NEW s \in T[m - 1]
                 PROVE  Step(m, s) \in T[m]
    OBVIOUS
  <2>2. m \in 0 .. n /\ m - 1 \in 0 .. n
    BY <1>1
  <2>3. \A k \in s : Retains(k, entries, m - 1)
    BY <2>2
  <2>4. \A k \in s : ~Clashes(k, entries[m]) =>
                   Retains(Retain(k, entries[m]), entries, m)
    BY <2>3, RetainRetains
  <2>5. Step(m, s) \subseteq Good(m)
    <3>1. SUFFICES ASSUME NEW k \in s, ~Clashes(k, entries[m])
                   PROVE  Retain(k, entries[m]) \in Good(m)
      OBVIOUS
    <3>2. Retains(Retain(k, entries[m]), entries, m)
      BY <2>4, <3>1
    <3>3. QED
      BY <3>2 DEF Retains
  <2>6. QED
    BY <2>2, <2>5
<1> HIDE DEF Step
<1>4. \E f : Fixed(f)
  <2> HIDE DEF T, step, n
  <2>1. \A m \in 1 .. n : \A x \in T[m - 1] : step[m][x] \in T[m]
    BY <1>3
  <2>2. PICK f : Recursion(f, n, T, step, {<<>>})
    BY <1>1, <1>2, <2>1, RecursionExists
  <2>3. ASSUME NEW m \in 0 .. n
        PROVE  f[m] = Body(f, m)
    <3>1. CASE m = 0
      BY <2>2, <3>1 DEF Recursion
    <3>2. CASE m # 0
      <4>1. m \in 1 .. n /\ m - 1 \in 0 .. n
        BY <1>1, <3>2
      <4>2. f[m] = Step(m, f[m - 1])
        BY <1>3, <2>2, <4>1 DEF Recursion
      <4>3. QED
        BY <3>2, <4>2
    <3>3. QED
      BY <3>1, <3>2
  <2> HIDE DEF Body
  <2>4. f = [m \in 0 .. n |-> Body(f, m)]
    BY <2>2, <2>3 DEF Recursion
  <2>5. QED
    BY <2>4
<1>5. RetainEach(entries) = first[n]
  BY DEF RetainEach, Step
<1>6. Fixed(first)
  <2> HIDE DEF Fixed
  <2>1. QED
    BY <1>4
<1> DEFINE S == {m \in 0 .. n : first[m] \in T[m]}
<1>7. 0 \in S
  <2>1. first[0] = Body(first, 0)
    <3> HIDE DEF first, Body
    <3>1. QED
      BY <1>1, <1>6
  <2>2. first[0] = {<<>>}
    <3> HIDE DEF first
    <3>1. QED
      BY <2>1
  <2> HIDE DEF first, T
  <2>3. 0 \in 0 .. n
    BY <1>1
  <2>4. first[0] \in T[0]
    BY <1>2, <2>2, Zenon
  <2>5. QED
    BY <2>3, <2>4, Zenon
<1>8. ASSUME NEW m \in 1 .. n, m - 1 \in S
      PROVE  m \in S
  <2>1. m \in 0 .. n /\ m # 0
    BY <1>1
  <2>2. first[m] = Body(first, m)
    <3> HIDE DEF first, Body
    <3>1. QED
      BY <1>6, <2>1
  <2>3. first[m] = Step(m, first[m - 1])
    BY <2>1, <2>2
  <2>4. first[m - 1] \in T[m - 1]
    BY <1>8
  <2>5. QED
    <3> HIDE DEF T, step, first
    <3>1. QED
      BY <1>3, <2>1, <2>3, <2>4
<1>9. n \in S
  <2> HIDE DEF S
  <2>1. 0 .. n \subseteq S
    BY <1>1, <1>7, <1>8, Climb
  <2>2. QED
    BY <1>1, <2>1
<1>10. QED
  <2> HIDE DEF first
  <2>1. QED
    BY <1>1, <1>5, <1>9

-----------------------------------------------------------------------------
(* The plan.                                                               *)

AfterCaches == {"masks", "storage", "done"}
AfterRetained == AfterCaches \cup {"caches"}
AfterLogical == AfterRetained \cup {"retained"}
AfterRegistry == AfterLogical \cup {"logical"}
AfterConfig == AfterRegistry \cup {"registry"}
AfterDefaults == AfterConfig \cup {"config"}
AfterHost == AfterDefaults \cup {"defaults"}
AfterProject == AfterHost \cup {"host"}

\* Each step has found what it looks for in what was found before it.
PlanInv ==
  /\ world \in Worlds /\ DOMAIN plan = DOMAIN Following
  /\ stage \in AfterProject \cup {"project", "refused"}
  /\ stage \in AfterProject => project \in Discover(disk, world.git, world.start)
  /\ stage \in AfterHost => host \in HostEnvironment(disk, world.env)
  /\ stage \in AfterDefaults => defaults \in DefaultProjectConfig(project, host)
  /\ stage \in AfterConfig => config \in Edits(world, defaults)
  /\ stage \in AfterRegistry =>
       RolesAreSound /\ registry = RegistryOf(project.CommonGitDir)
  /\ stage \in AfterLogical => MountsAreSound /\ logical = LogicalMounts
  /\ stage \in AfterRetained => retained \in Normalized
  /\ stage \in AfterCaches => CachesAreSafe /\ caches = ResolvedCaches

\* Nothing has been found yet.
LEMMA PlanInit == Init => PlanInv
BY DEF Init, PlanInv, AfterProject, AfterHost, AfterDefaults, AfterConfig,
   AfterRegistry, AfterLogical, AfterRetained, AfterCaches

\* What was found before stays found.
LEMMA RolesStay ==
  ASSUME world' = world, project' = project, defaults' = defaults,
         config' = config
  PROVE  RolesAreSound' = RolesAreSound
<1>1. RolesMatchDefaults' = RolesMatchDefaults
  BY DEF RolesMatchDefaults
<1>2. RolesMatchProject' = RolesMatchProject
  BY DEF RolesMatchProject
<1>3. SupportedTopology' = SupportedTopology
  BY DEF SupportedTopology, disk
<1>4. QED
  BY <1>1, <1>2, <1>3 DEF RolesAreSound

\* The checks of mounts and what they yield do not change under them.
LEMMA MountsStay ==
  ASSUME world' = world, project' = project, config' = config,
         registry' = registry
  PROVE  MountsAreSound' = MountsAreSound /\ LogicalMounts' = LogicalMounts
<1>1. Configured' = Configured
  BY DEF Configured
<1>2. \A m : SourceExists(m)' = SourceExists(m)
  BY DEF SourceExists, disk
<1>3. \A m : LeavesRegistryAlone(m)' = LeavesRegistryAlone(m)
  BY DEF LeavesRegistryAlone, disk
<1>4. MountsAreSound' = MountsAreSound
  BY <1>1, <1>2, <1>3 DEF MountsAreSound
<1>5. LogicalMounts' = LogicalMounts
  BY <1>1 DEF LogicalMounts
<1>6. QED
  BY <1>4, <1>5

\* Nor does what the logical mounts are normalised to.
LEMMA NormalizedStays ==
  ASSUME logical' = logical
  PROVE  Normalized' = Normalized
<1>1. Merged' = Merged
  BY DEF Merged
<1>2. TargetsConflict' = TargetsConflict
  BY DEF TargetsConflict
<1>3. QED
  BY <1>1, <1>2 DEF Normalized

\* Nor do the caches.
LEMMA CachesStay ==
  ASSUME world' = world, host' = host, config' = config, registry' = registry,
         logical' = logical
  PROVE  CachesAreSafe' = CachesAreSafe /\ ResolvedCaches' = ResolvedCaches
<1>1. \A c : Physical(c)' = Physical(c)
  BY DEF Physical, disk
<1>2. \A c : CacheIsSafe(c)' = CacheIsSafe(c)
  BY <1>1 DEF CacheIsSafe, disk
<1>3. CachesAreSafe' = CachesAreSafe
  BY <1>1, <1>2 DEF CachesAreSafe
<1>4. ResolvedCaches' = ResolvedCaches
  BY <1>1 DEF ResolvedCaches
<1>5. QED
  BY <1>3, <1>4

\* A step finds a result, or refuses.
LEMMA TakeFinds ==
  ASSUME PlanInv, NEW step \in DOMAIN Following, NEW results, Take(step, results)
  PROVE  /\ stage = step /\ world' = world /\ DOMAIN plan' = DOMAIN Following
         /\ \A s \in DOMAIN Following : s # step => plan'[s] = plan[s]
         /\ \/ stage' = "refused"
            \/ stage' = Following[step] /\ plan'[step] \in results
<1>1. CASE results = {}
  BY <1>1 DEF PlanInv, Take
<1>2. CASE results # {}
  <2>1. PICK result \in results :
          stage' = Following[step] /\ plan' = [plan EXCEPT ![step] = result]
    BY <1>2 DEF Take
  <2>2. DOMAIN plan = DOMAIN Following
    BY DEF PlanInv
  <2>3. plan'[step] = result
    BY <2>1, <2>2
  <2>4. QED
    BY <2>1, <2>2, <2>3 DEF Take
<1>3. QED
  BY <1>1, <1>2


\* Every step of ResolveWithHostHome keeps what earlier steps have found.
LEMMA PlanStep ==
  ASSUME PlanInv, [Next]_vars
  PROVE  PlanInv'
<1> USE DEF AfterProject, AfterHost, AfterDefaults, AfterConfig, AfterRegistry,
            AfterLogical, AfterRetained, AfterCaches
<1> DEFINE Kept(s) == plan'[s] = plan[s]
<1>1. ASSUME NEW step \in DOMAIN Following, NEW results, Take(step, results)
      PROVE  /\ stage = step /\ world' = world /\ DOMAIN plan' = DOMAIN Following
             /\ \A s \in DOMAIN Following : s # step => Kept(s)
             /\ \/ stage' = "refused"
                \/ stage' = Following[step] /\ plan'[step] \in results
  BY <1>1, TakeFinds
<1>2. DOMAIN Following =
        {"project", "host", "defaults", "config", "registry", "logical",
         "retained", "caches", "masks", "storage"}
  BY DEF Following
<1> HIDE DEF Kept
<1>3. CASE DiscoverProject
  <2>1. /\ stage = "project" /\ world' = world
        /\ DOMAIN plan' = DOMAIN Following
        /\ stage' \in {"refused", "host"}
        /\ stage' = "host" =>
             plan'["project"] \in Discover(disk, world.git, world.start)
    BY <1>1, <1>2, <1>3 DEF DiscoverProject, Following
  <2>2. QED
    BY <2>1 DEF PlanInv, project, disk
<1>4. CASE ReadHost
  <2>1. /\ stage = "host" /\ world' = world /\ Kept("project")
        /\ DOMAIN plan' = DOMAIN Following
        /\ stage' \in {"refused", "defaults"}
        /\ stage' = "defaults" => plan'["host"] \in HostEnvironment(disk, world.env)
    BY <1>1, <1>2, <1>4 DEF ReadHost, Following
  <2>2. QED
    BY <2>1 DEF PlanInv, project, host, disk, Kept
<1>5. CASE Generate
  <2>1. /\ stage = "defaults" /\ world' = world /\ Kept("project") /\ Kept("host")
        /\ DOMAIN plan' = DOMAIN Following
        /\ stage' \in {"refused", "config"}
        /\ stage' = "config" =>
             plan'["defaults"] \in DefaultProjectConfig(project, host)
    BY <1>1, <1>2, <1>5 DEF Generate, Following
  <2>2. QED
    BY <2>1 DEF PlanInv, project, host, defaults, disk, Kept
<1>6. CASE Configure
  <2>1. /\ stage = "config" /\ world' = world /\ Kept("project") /\ Kept("host")
        /\ Kept("defaults") /\ DOMAIN plan' = DOMAIN Following
        /\ stage' \in {"refused", "registry"}
        /\ stage' = "registry" => plan'["config"] \in Edits(world, defaults)
    BY <1>1, <1>2, <1>6 DEF Configure, Following
  <2>2. QED
    BY <2>1 DEF PlanInv, project, host, defaults, config, disk, Kept
<1>7. CASE CheckRoles
  <2>1. /\ stage = "registry" /\ world' = world /\ Kept("project") /\ Kept("host")
        /\ Kept("defaults") /\ Kept("config") /\ DOMAIN plan' = DOMAIN Following
        /\ stage' \in {"refused", "logical"}
        /\ stage' = "logical" =>
             RolesAreSound /\ plan'["registry"] = RegistryOf(project.CommonGitDir)
    BY <1>1, <1>2, <1>7 DEF CheckRoles, Following, WhenHolds
  <2>2. RolesAreSound' = RolesAreSound
    BY <2>1, RolesStay DEF Kept, project, defaults, config
  <2>3. QED
    BY <2>1, <2>2 DEF PlanInv, project, host, defaults, config, registry, disk, Kept
<1>8. CASE CollectMounts
  <2>1. /\ stage = "logical" /\ world' = world /\ Kept("project") /\ Kept("host")
        /\ Kept("defaults") /\ Kept("config") /\ Kept("registry")
        /\ DOMAIN plan' = DOMAIN Following
        /\ stage' \in {"refused", "retained"}
        /\ stage' = "retained" =>
             MountsAreSound /\ plan'["logical"] = LogicalMounts
    BY <1>1, <1>2, <1>8 DEF CollectMounts, Following, WhenHolds
  <2>2. RolesAreSound' = RolesAreSound
    BY <2>1, RolesStay DEF Kept, project, defaults, config
  <2>3. MountsAreSound' = MountsAreSound /\ LogicalMounts' = LogicalMounts
    BY <2>1, MountsStay DEF Kept, project, config, registry
  <2>4. QED
    BY <2>1, <2>2, <2>3
    DEF PlanInv, project, host, defaults, config, registry, logical, disk, Kept
<1>9. CASE NormalizeLogicalMounts
  <2>1. /\ stage = "retained" /\ world' = world /\ Kept("project") /\ Kept("host")
        /\ Kept("defaults") /\ Kept("config") /\ Kept("registry") /\ Kept("logical")
        /\ DOMAIN plan' = DOMAIN Following
        /\ stage' \in {"refused", "caches"}
        /\ stage' = "caches" => plan'["retained"] \in Normalized
    BY <1>1, <1>2, <1>9 DEF NormalizeLogicalMounts, Following
  <2>2. RolesAreSound' = RolesAreSound
    BY <2>1, RolesStay DEF Kept, project, defaults, config
  <2>3. MountsAreSound' = MountsAreSound /\ LogicalMounts' = LogicalMounts
    BY <2>1, MountsStay DEF Kept, project, config, registry
  <2>4. Normalized' = Normalized
    BY <2>1, NormalizedStays DEF Kept, logical
  <2>5. QED
    BY <2>1, <2>2, <2>3, <2>4
    DEF PlanInv, project, host, defaults, config, registry, logical, retained,
        disk, Kept
<1>10. ASSUME world' = world, DOMAIN plan' = DOMAIN Following,
              \A s \in DOMAIN Following \ {"caches", "masks", "storage"} : Kept(s),
              stage \in {"caches", "masks", "storage"},
              stage' \in AfterCaches \cup {"refused"},
              stage' \in AfterCaches => CachesAreSafe /\ caches' = ResolvedCaches
       PROVE  PlanInv'
  <2>1. /\ Kept("project") /\ Kept("host") /\ Kept("defaults") /\ Kept("config")
        /\ Kept("registry") /\ Kept("logical") /\ Kept("retained")
    BY <1>2, <1>10
  <2>2. RolesAreSound' = RolesAreSound
    BY <1>10, <2>1, RolesStay DEF Kept, project, defaults, config
  <2>3. MountsAreSound' = MountsAreSound /\ LogicalMounts' = LogicalMounts
    BY <1>10, <2>1, MountsStay DEF Kept, project, config, registry
  <2>4. Normalized' = Normalized
    BY <2>1, NormalizedStays DEF Kept, logical
  <2>5. CachesAreSafe' = CachesAreSafe /\ ResolvedCaches' = ResolvedCaches
    BY <1>10, <2>1, CachesStay DEF Kept, host, config, registry, logical
  <2>6. QED
    BY <1>10, <2>1, <2>2, <2>3, <2>4, <2>5
    DEF PlanInv, project, host, defaults, config, registry, logical, retained,
        disk, Kept
<1>11. CASE ResolveDependencyCaches
  <2>1. /\ stage = "caches" /\ world' = world /\ DOMAIN plan' = DOMAIN Following
        /\ \A s \in DOMAIN Following : s # "caches" => Kept(s)
        /\ stage' \in {"refused", "masks"}
        /\ stage' = "masks" => CachesAreSafe /\ plan'["caches"] = ResolvedCaches
    BY <1>1, <1>2, <1>11 DEF ResolveDependencyCaches, Following, WhenHolds
  <2>2. QED
    BY <1>10, <2>1 DEF caches
<1>12. CASE ResolveTmpfsMounts
  <2>1. /\ stage = "masks" /\ world' = world /\ DOMAIN plan' = DOMAIN Following
        /\ \A s \in DOMAIN Following : s # "masks" => Kept(s)
        /\ stage' \in {"refused", "storage"}
    BY <1>1, <1>2, <1>12 DEF ResolveTmpfsMounts, Following
  <2>2. CachesAreSafe /\ caches' = ResolvedCaches
    BY <1>2, <2>1 DEF PlanInv, caches, Kept
  <2>3. QED
    BY <1>10, <2>1, <2>2
<1>13. CASE ResolveDockerStorage
  <2>1. /\ stage = "storage" /\ world' = world /\ DOMAIN plan' = DOMAIN Following
        /\ \A s \in DOMAIN Following : s # "storage" => Kept(s)
        /\ stage' \in {"refused", "done"}
    BY <1>1, <1>2, <1>13 DEF ResolveDockerStorage, Following
  <2>2. CachesAreSafe /\ caches' = ResolvedCaches
    BY <1>2, <2>1 DEF PlanInv, caches, Kept
  <2>3. QED
    BY <1>10, <2>1, <2>2
<1>14. CASE UNCHANGED vars
  <2>1. world' = world /\ stage' = stage /\ plan' = plan
    BY <1>14 DEF vars
  <2>2. RolesAreSound' = RolesAreSound
    BY <2>1, RolesStay DEF project, defaults, config
  <2>3. MountsAreSound' = MountsAreSound /\ LogicalMounts' = LogicalMounts
    BY <2>1, MountsStay DEF project, config, registry
  <2>4. Normalized' = Normalized
    BY <2>1, NormalizedStays DEF logical
  <2>5. CachesAreSafe' = CachesAreSafe /\ ResolvedCaches' = ResolvedCaches
    BY <2>1, CachesStay DEF host, config, registry, logical
  <2>6. QED
    BY <2>1, <2>2, <2>3, <2>4, <2>5
    DEF PlanInv, project, host, defaults, config, registry, logical, retained,
        caches, disk
<1>15. QED
  BY <1>3, <1>4, <1>5, <1>6, <1>7, <1>8, <1>9, <1>11, <1>12, <1>13, <1>14
  DEF Next

\* What each step of ResolveWithHostHome has found stays what its lookup returns
\* for the findings before it.
THEOREM PlanInvariance == Spec => []PlanInv
<1>1. PlanInv /\ [Next]_vars => PlanInv'
  BY PlanStep
<1>2. QED
  BY PlanInit, <1>1, PTL DEF Spec

-----------------------------------------------------------------------------
(* A normalized list.                                                      *)

\* normalizeLogicalMounts returns mounts that are wanted, one of them serves
\* each mount that is wanted, and a role is kept twice only if two ask for it.
LEMMA NormalizedServes ==
  ASSUME logical \in Seq(LogicalMount), NEW kept \in Normalized
  PROVE  /\ ~TargetsConflict /\ kept \in Seq(Entry)
         /\ \A i \in DOMAIN kept : kept[i].mount \in Binds
         /\ \A m \in Binds : \E a \in DOMAIN kept : Serves(kept, a, MergedEntry(m))
         /\ \A i, j \in DOMAIN kept : \A r \in kept[i].roles \cap kept[j].roles :
              i = j \/ \E m, n \in Binds : /\ m # n
                                           /\ r \in MergedEntry(m).roles
                                           /\ r \in MergedEntry(n).roles
<1> DEFINE entries == ParentsFirst(Merged)
<1>1. ~TargetsConflict /\ kept \in RetainEach(entries)
  BY DEF Normalized
<1>2. Separate(Merged) /\ Range(Merged) = {MergedEntry(m) : m \in Binds}
  BY <1>1, MergedHasAll
<1>3. Ordered(entries) /\ Range(entries) = {MergedEntry(m) : m \in Binds}
  BY <1>2, ParentsComeFirst
<1> HIDE DEF entries
<1>4. Retains(kept, entries, Len(entries))
  BY <1>1, <1>3, EachIsRetained
<1>5. DOMAIN entries = 1 .. Len(entries) /\ Len(entries) \in Nat
  BY <1>3 DEF Ordered, Separate
<1>6. \A k \in 1 .. Len(entries) : \E m \in Binds : entries[k] = MergedEntry(m)
  BY <1>3, <1>5 DEF Range
<1>7. \A m \in Binds : \E k \in 1 .. Len(entries) : entries[k] = MergedEntry(m)
  BY <1>3, <1>5 DEF Range
<1>8. \A m \in Binds : MergedEntry(m).mount = m
  BY DEF MergedEntry
<1>9. ASSUME NEW i \in DOMAIN kept
      PROVE  kept[i].mount \in Binds
  <2>1. PICK k \in 1 .. Len(entries) : kept[i].mount = entries[k].mount
    BY <1>4 DEF Retains
  <2>2. QED
    BY <1>6, <1>8, <2>1
<1>10. ASSUME NEW m \in Binds
       PROVE  \E a \in DOMAIN kept : Serves(kept, a, MergedEntry(m))
  <2>1. PICK k \in 1 .. Len(entries) : entries[k] = MergedEntry(m)
    BY <1>7
  <2>2. QED
    BY <1>4, <2>1 DEF Retains
<1>11. ASSUME NEW i \in DOMAIN kept, NEW j \in DOMAIN kept,
              NEW r \in kept[i].roles \cap kept[j].roles, i # j
       PROVE  \E m, n \in Binds : /\ m # n /\ r \in MergedEntry(m).roles
                                  /\ r \in MergedEntry(n).roles
  <2>1. PICK k \in 1 .. Len(entries), l \in 1 .. Len(entries) :
          k # l /\ r \in entries[k].roles /\ r \in entries[l].roles
    BY <1>4, <1>11 DEF Retains, RolesOfEntries
  <2>2. PICK m \in Binds : entries[k] = MergedEntry(m)
    BY <1>6
  <2>3. PICK n \in Binds : entries[l] = MergedEntry(n)
    BY <1>6
  <2>4. entries[k].mount.target # entries[l].mount.target
    BY <1>3, <1>5, <2>1 DEF Ordered, Separate
  <2>5. m # n
    BY <1>8, <2>2, <2>3, <2>4
  <2>6. QED
    BY <2>1, <2>2, <2>3, <2>5
<1>12. kept \in Seq(Entry)
  BY <1>4 DEF Retains
<1>13. QED
  BY <1>1, <1>9, <1>10, <1>11, <1>12

-----------------------------------------------------------------------------
(* The host's disk.                                                        *)

\* Of the links on the way to a path one is the last.
LEMMA LastOnTheWay ==
  ASSUME NEW d, SoundDisk(d), NEW p \in Path, LinksOnTheWay(d, p) # {}
  PROVE  LET links == LinksOnTheWay(d, p)
             last == CHOOSE l \in links : \A k \in links : Len(k) <= Len(l)
         IN  last \in links /\ \A k \in links : Len(k) <= Len(last)
<1> DEFINE links == LinksOnTheWay(d, p)
           longest(l) == \A k \in links : Len(k) <= Len(l)
           lengths == {Len(l) : l \in links}
<1>1. \A l \in links : Len(l) \in Nat /\ Len(l) <= Len(p)
  BY DEF LinksOnTheWay, Covers, IsPrefix, Path, SoundDisk
<1>2. Len(p) \in Nat
  BY DEF Path
<1> HIDE DEF links
<1>3. /\ lengths \in SUBSET Nat /\ lengths # {}
      /\ \A i \in lengths : i <= Len(p)
  BY <1>1 DEF links
<1>4. Max(lengths) \in lengths /\ \A i \in lengths : Max(lengths) >= i
  <2> HIDE DEF lengths
  <2>1. QED
    BY <1>2, <1>3, MaxIsGreatest
<1>5. PICK l \in links : Len(l) = Max(lengths)
  BY <1>4
<1>6. longest(l)
  BY <1>1, <1>4, <1>5
<1>7. \E k \in links : longest(k)
  BY <1>6
<1> HIDE DEF longest
<1>8. LET last == CHOOSE k \in links : longest(k) IN last \in links /\ longest(last)
  BY <1>7
<1>9. QED
  BY <1>8 DEF links, longest

\* A path that symbolic links have been resolved in has no more of them.
LEMMA ResolvedIsCanonical ==
  ASSUME NEW d, SoundDisk(d), NEW p \in Path
  PROVE  /\ EvalSymlinks(d, p) \in Path
         /\ EvalSymlinks(d, EvalSymlinks(d, p)) = EvalSymlinks(d, p)
<1> DEFINE links == LinksOnTheWay(d, p)
           longest(l) == \A k \in links : Len(k) <= Len(l)
           last == CHOOSE l \in links : longest(l)
           whole == d.links[last] \o Below(last, p)
<1>1. \A l \in DOMAIN d.links : l \in Path /\ d.links[l] \in Path
  BY DEF SoundDisk
<1>2. CASE links = {}
  BY <1>2 DEF EvalSymlinks
<1>3. CASE links # {}
  <2>1. last \in links /\ longest(last)
    BY <1>3, LastOnTheWay
  <2>2. EvalSymlinks(d, p) = whole
    BY <1>3 DEF EvalSymlinks
  <2>3. /\ last \in DOMAIN d.links /\ Covers(last, p)
        /\ last \in Path /\ d.links[last] \in Path
    BY <1>1, <2>1 DEF LinksOnTheWay
  <2> HIDE DEF last
  <2>4. Below(last, p) \in Path /\ p = last \o Below(last, p)
    BY <2>3, CoversRest
  <2>5. whole \in Path /\ Covers(d.links[last], whole)
        /\ Below(d.links[last], whole) = Below(last, p)
    BY <2>3, <2>4, CoversJoined
  <2> HIDE DEF whole
  <2>6. ASSUME NEW k \in LinksOnTheWay(d, whole)
        PROVE  FALSE
    <3> DEFINE between == Below(d.links[last], k)
    <3>1. k \in DOMAIN d.links /\ k \in Path /\ Covers(k, whole)
      BY <1>1, <2>6 DEF LinksOnTheWay
    <3>2. ~Covers(k, d.links[last])
      BY <2>3, <3>1 DEF SoundDisk
    <3>3. Covers(d.links[last], k)
      BY <2>3, <2>5, <3>1, <3>2, CoversOverlap DEF Overlap
    <3>4. last \o between \in DOMAIN d.links
      BY <2>3, <3>1, <3>3 DEF SoundDisk
    <3>5. between \in Path /\ k = d.links[last] \o between
      BY <2>3, <3>1, <3>3, CoversRest
    <3>6. between # <<>>
      <4>1. d.links[last] \o <<>> = d.links[last]
        BY <2>3 DEF Path
      <4>2. Covers(d.links[last], d.links[last])
        BY <2>3, CoversItself
      <4>3. QED
        BY <3>2, <3>5, <4>1, <4>2
    <3>7. Covers(last \o between, p)
      <4>1. Below(last, p) = between \o Below(k, whole)
        BY <2>3, <2>5, <3>1, <3>3, BelowInTurn
      <4>2. Below(k, whole) \in Path
        BY <2>5, <3>1, CoversRest
      <4> HIDE DEF between
      <4>3. p = (last \o between) \o Below(k, whole)
        <5>1. p = last \o (between \o Below(k, whole))
          BY <2>4, <4>1
        <5> DEFINE below == Below(k, whole)
        <5>2. last \in Path /\ between \in Path /\ below \in Path
          BY <2>3, <3>5, <4>2
        <5> HIDE DEF below
        <5>3. last \o (between \o below) = (last \o between) \o below
          BY <5>2 DEF Path
        <5>4. QED
          BY <5>1, <5>3 DEF below
      <4>4. last \o between \in Path
        BY <2>3, <3>5, CoversJoined
      <4>5. QED
        BY <4>2, <4>3, <4>4, CoversJoined
    <3> HIDE DEF between
    <3>8. last \o between \in links
      BY <3>4, <3>7 DEF LinksOnTheWay
    <3>9. Len(last \o between) <= Len(last)
      BY <2>1, <3>8
    <3>10. Len(last \o between) > Len(last)
      BY <2>3, <3>5, <3>6 DEF Path
    <3>11. Len(last \o between) \in Nat /\ Len(last) \in Nat
      BY <2>3, <3>5 DEF Path
    <3>12. QED
      BY <3>9, <3>10, <3>11
  <2>7. EvalSymlinks(d, whole) = whole
    <3>1. LinksOnTheWay(d, whole) = {}
      BY <2>6
    <3>2. QED
      BY <3>1 DEF EvalSymlinks
  <2>8. QED
    BY <2>2, <2>5, <2>7
<1>4. QED
  BY <1>2, <1>3

\* The disk that a plan is made on is one of those that the model is for.
LEMMA WorldIsSound ==
  ASSUME PlanInv
  PROVE  SoundDisk(disk)
BY WorldsAssumption DEF PlanInv, disk

\* A path with no symbolic link left to resolve.
CanonicalPath(path) == path \in Path /\ EvalSymlinks(disk, path) = path

\* gitproject.Discover returns canonical paths, and the repository of a linked
\* worktree lies in its primary checkout.
LEMMA ProjectIsCanonical ==
  ASSUME PlanInv, stage = "done"
  PROVE  /\ CanonicalPath(project.WorktreeRoot) /\ CanonicalPath(project.GitDir)
         /\ CanonicalPath(project.CommonGitDir)
         /\ CanonicalPath(project.PrimaryRoot)
         /\ IF project.Linked
            THEN /\ project.CommonGitDir # <<>>
                 /\ project.PrimaryRoot = Front(project.CommonGitDir)
            ELSE /\ project.CommonGitDir = Append(project.WorktreeRoot, ".git")
                 /\ project.PrimaryRoot = project.WorktreeRoot
<1> DEFINE git == world.git
           requested == EvalSymlinks(disk, world.start)
           top == GitPath(disk, git, requested, "top")
           dir == GitPath(disk, git, requested, "dir")
           common == GitPath(disk, git, requested, "common")
           linked == dir # common
<1>1. project \in Discover(disk, git, world.start)
  BY DEF PlanInv, AfterProject, AfterHost, AfterDefaults, AfterConfig,
         AfterRegistry, AfterLogical, AfterRetained, AfterCaches
<1>2. /\ requested \in DOMAIN git
      /\ IF linked THEN ValidPrimary(disk, git, common)
         ELSE common = Append(top, ".git")
      /\ project =
           [RequestedDir |-> requested, WorktreeRoot |-> top, GitDir |-> dir,
            CommonGitDir |-> common,
            PrimaryRoot |-> IF linked THEN Front(common) ELSE top,
            Linked |-> linked, Branch |-> git[requested].branch]
  BY <1>1 DEF Discover, WhenHolds
<1>3. \A d \in DOMAIN git : {git[d].top, git[d].dir, git[d].common} \subseteq Path
  BY WorldsAssumption DEF PlanInv
<1>4. ASSUME NEW d \in DOMAIN git
      PROVE  /\ CanonicalPath(GitPath(disk, git, d, "top"))
             /\ CanonicalPath(GitPath(disk, git, d, "dir"))
             /\ CanonicalPath(GitPath(disk, git, d, "common"))
  <2>1. git[d].top \in Path /\ git[d].dir \in Path /\ git[d].common \in Path
    BY <1>3
  <2>2. SoundDisk(disk)
    BY WorldIsSound
  <2>3. /\ GitPath(disk, git, d, "top") = EvalSymlinks(disk, git[d].top)
        /\ GitPath(disk, git, d, "dir") = EvalSymlinks(disk, git[d].dir)
        /\ GitPath(disk, git, d, "common") = EvalSymlinks(disk, git[d].common)
    BY DEF GitPath
  <2>4. QED
    BY <2>1, <2>2, <2>3, ResolvedIsCanonical DEF CanonicalPath
<1>5. CanonicalPath(top) /\ CanonicalPath(dir) /\ CanonicalPath(common)
  BY <1>2, <1>4
<1>6. linked => /\ common # <<>> /\ Front(common) \in DOMAIN git
                /\ GitPath(disk, git, Front(common), "top") = Front(common)
  BY <1>2 DEF ValidPrimary, Root
<1>7. linked => CanonicalPath(Front(common))
  BY <1>4, <1>6
<1> HIDE DEF git, requested, top, dir, common
<1>8. /\ project.WorktreeRoot = top /\ project.GitDir = dir
      /\ project.CommonGitDir = common /\ project.Linked = linked
      /\ project.PrimaryRoot = IF linked THEN Front(common) ELSE top
  BY <1>2
<1>9. QED
  BY <1>2, <1>5, <1>6, <1>7, <1>8

-----------------------------------------------------------------------------
(* The mounts and caches of a finished plan.                               *)

\* What PlanInv says of a plan that is done, in the parts that follow.
LEMMA ConfigIsTyped ==
  ASSUME PlanInv, stage = "done"
  PROVE  /\ config.mounts \in Seq(LogicalMount)
         /\ config.caches \in Seq([kind : STRING, source : Path])
         /\ RolesAreSound /\ registry = RegistryOf(project.CommonGitDir)
         /\ MountsAreSound /\ logical = LogicalMounts
         /\ retained \in Normalized
         /\ CachesAreSafe /\ caches = ResolvedCaches
<1> USE DEF AfterProject, AfterHost, AfterDefaults, AfterConfig, AfterRegistry,
            AfterLogical, AfterRetained, AfterCaches
<1>1. /\ world \in Worlds /\ project \in Discover(disk, world.git, world.start)
      /\ host \in HostEnvironment(disk, world.env)
      /\ defaults \in DefaultProjectConfig(project, host)
      /\ config \in Edits(world, defaults)
  BY DEF PlanInv
<1>2. /\ config.mounts \in Seq(LogicalMount)
      /\ config.caches \in Seq([kind : STRING, source : Path])
  BY <1>1, EditsAssumption DEF disk
<1>3. QED
  BY <1>2 DEF PlanInv

\* Every mount of the configuration is planned, the host-MCP one apart.
LEMMA ConfiguredMounts ==
  ASSUME PlanInv, stage = "done"
  PROVE  /\ Configured \in Seq(LogicalMount)
         /\ Range(Configured) =
              {m \in Range(config.mounts) : m.role # "host_mcp_channel"}
<1> DEFINE wanted == {m \in Range(config.mounts) : m.role # "host_mcp_channel"}
<1>1. config.mounts \in Seq(LogicalMount)
  BY ConfigIsTyped
<1>2. Picks(Configured, config.mounts, wanted, Len(config.mounts))
  BY <1>1, AmongPicks DEF Configured
<1>3. /\ DOMAIN config.mounts = 1 .. Len(config.mounts)
      /\ Range(config.mounts) \subseteq LogicalMount
  BY <1>1 DEF Range
<1>4. Configured \in Seq(Range(config.mounts))
  BY <1>2 DEF Picks
<1>5. Configured \in Seq(LogicalMount)
  BY <1>3, <1>4
<1>6. \A m \in Range(Configured) : m \in wanted
  BY <1>2 DEF Picks, Range
<1>7. ASSUME NEW m \in wanted
      PROVE  m \in Range(Configured)
  <2>1. PICK j \in 1 .. Len(config.mounts) : m = config.mounts[j]
    BY <1>3 DEF Range
  <2>2. PICK i \in DOMAIN Configured : Configured[i] = config.mounts[j]
    BY <1>2, <2>1 DEF Picks
  <2>3. QED
    BY <2>1, <2>2 DEF Range
<1>8. QED
  BY <1>5, <1>6, <1>7

\* Two sequences joined have the elements of both.
LEMMA JoinedRange ==
  ASSUME NEW S, NEW s \in Seq(S), NEW t \in Seq(S)
  PROVE  s \o t \in Seq(S) /\ Range(s \o t) = Range(s) \cup Range(t)
<1>1. /\ s \o t \in Seq(S) /\ DOMAIN (s \o t) = 1 .. Len(s) + Len(t)
      /\ DOMAIN s = 1 .. Len(s) /\ DOMAIN t = 1 .. Len(t)
      /\ Len(s) \in Nat /\ Len(t) \in Nat
      /\ \A i \in 1 .. Len(s) : (s \o t)[i] = s[i]
      /\ \A i \in 1 .. Len(t) : (s \o t)[Len(s) + i] = t[i]
  OBVIOUS
<1>2. ASSUME NEW x \in Range(s \o t)
      PROVE  x \in Range(s) \cup Range(t)
  <2>1. PICK i \in 1 .. Len(s) + Len(t) : x = (s \o t)[i]
    BY <1>1 DEF Range
  <2>2. CASE i \in 1 .. Len(s)
    BY <1>1, <2>1, <2>2 DEF Range
  <2>3. CASE i \notin 1 .. Len(s)
    <3>1. i - Len(s) \in 1 .. Len(t) /\ Len(s) + (i - Len(s)) = i
      BY <1>1, <2>1, <2>3
    <3>2. x = t[i - Len(s)]
      BY <1>1, <2>1, <3>1
    <3>3. QED
      BY <1>1, <3>1, <3>2 DEF Range
  <2>4. QED
    BY <2>2, <2>3
<1>3. ASSUME NEW i \in 1 .. Len(s)
      PROVE  s[i] \in Range(s \o t)
  <2>1. i \in 1 .. Len(s) + Len(t) /\ (s \o t)[i] = s[i]
    BY <1>1
  <2>2. QED
    BY <1>1, <2>1 DEF Range
<1>4. ASSUME NEW i \in 1 .. Len(t)
      PROVE  t[i] \in Range(s \o t)
  <2>1. Len(s) + i \in 1 .. Len(s) + Len(t) /\ (s \o t)[Len(s) + i] = t[i]
    BY <1>1
  <2>2. QED
    BY <1>1, <2>1 DEF Range
<1>5. Range(s) \cup Range(t) \subseteq Range(s \o t)
  BY <1>1, <1>3, <1>4 DEF Range
<1>6. QED
  BY <1>1, <1>2, <1>5

\* A sequence of one element has no other.
LEMMA SingleRange ==
  ASSUME NEW S, NEW x \in S
  PROVE  <<x>> \in Seq(S) /\ Range(<<x>>) = {x}
BY DEF Range

\* The two mounts that the launcher adds by itself.
OfRegistry ==
  [role |-> "", source |-> registry, target |-> registry, readOnly |-> TRUE]
OfGitDir ==
  [role |-> "", source |-> project.GitDir, target |-> project.GitDir,
   readOnly |-> FALSE]

\* A path is never the missing one.
LEMMA PathIsPresent ==
  ASSUME NEW p \in Path
  PROVE  p # NoPath
<1>1. CASE p = <<>>
  BY <1>1 DEF NoPath
<1>2. CASE p # <<>>
  <2>1. p[1] \in Name
    BY <1>2 DEF Path
  <2>2. NoPath[1] = ""
    BY DEF NoPath
  <2>3. QED
    BY <2>1, <2>2 DEF Name
<1>3. QED
  BY <1>1, <1>2

\* The registry is a path, and a linked worktree's own directory is right in it.
LEMMA RegistryIsPath ==
  ASSUME PlanInv, stage = "done"
  PROVE  /\ registry \in Path
         /\ registry = Append(project.CommonGitDir, "worktrees")
         /\ project.Linked =>
              /\ Front(project.GitDir) = registry /\ project.GitDir \in Path
              /\ EvalSymlinks(disk, project.GitDir) = project.GitDir
<1>1. registry = Append(project.CommonGitDir, "worktrees")
  BY ConfigIsTyped DEF RegistryOf
<1>2. project.CommonGitDir \in Path /\ project.GitDir \in Path
  BY ProjectIsCanonical DEF CanonicalPath
<1>3. "worktrees" \in Name
  BY LiteralsAssumption DEF Name
<1>4. registry \in Path
  BY <1>1, <1>2, <1>3 DEF Path
<1>5. SupportedTopology
  BY ConfigIsTyped DEF RolesAreSound
<1>6. QED
  BY <1>1, <1>2, <1>4, <1>5 DEF SupportedTopology, RegistryOf

\* The mounts planned are those configured, the registry's, and that of a linked
\* worktree's own directory.
LEMMA LogicalIsTyped ==
  ASSUME PlanInv, stage = "done"
  PROVE  /\ logical \in Seq(LogicalMount)
         /\ Range(logical) = Range(Configured) \cup {OfRegistry}
                             \cup (IF project.Linked THEN {OfGitDir} ELSE {})
<1> DEFINE second == MountOf("", registry, registry, TRUE)
           third == IF project.Linked
                    THEN MountOf("", project.GitDir, project.GitDir, FALSE)
                    ELSE <<>>
<1>1. registry \in Path /\ project.GitDir \in Path
  BY RegistryIsPath, ProjectIsCanonical DEF CanonicalPath
<1>2. registry # NoPath /\ project.GitDir # NoPath
  BY <1>1, PathIsPresent
<1>3. /\ second = <<OfRegistry>>
      /\ third = IF project.Linked THEN <<OfGitDir>> ELSE <<>>
  BY <1>2 DEF MountOf, OfRegistry, OfGitDir
<1>4. OfRegistry \in LogicalMount /\ OfGitDir \in LogicalMount
  BY <1>1, LiteralsAssumption DEF OfRegistry, OfGitDir, LogicalMount
<1>5. second \in Seq(LogicalMount) /\ Range(second) = {OfRegistry}
  BY <1>3, <1>4, SingleRange
<1>6. /\ third \in Seq(LogicalMount)
      /\ Range(third) = IF project.Linked THEN {OfGitDir} ELSE {}
  <2>1. CASE project.Linked
    BY <1>3, <1>4, <2>1, SingleRange
  <2>2. CASE ~project.Linked
    <3> HIDE DEF third
    <3>1. third = <<>>
      BY <1>3, <2>2
    <3>2. <<>> \in Seq(LogicalMount) /\ Range(<<>>) = {}
      BY DEF Range
    <3>3. QED
      BY <2>2, <3>1, <3>2
  <2>3. QED
    BY <2>1, <2>2
<1>7. Configured \in Seq(LogicalMount)
  BY ConfiguredMounts
<1>8. logical = (Configured \o second) \o third
  BY ConfigIsTyped DEF LogicalMounts
<1> HIDE DEF second, third
<1>9. /\ Configured \o second \in Seq(LogicalMount)
      /\ Range(Configured \o second) = Range(Configured) \cup {OfRegistry}
  BY <1>5, <1>7, JoinedRange
<1> DEFINE front == Configured \o second
<1> HIDE DEF front
<1>10. /\ front \o third \in Seq(LogicalMount)
       /\ Range(front \o third) = Range(front) \cup Range(third)
  <2>1. front \in Seq(LogicalMount) /\ third \in Seq(LogicalMount)
    BY <1>6, <1>9 DEF front
  <2>2. QED
    BY <2>1, JoinedRange
<1>11. QED
  BY <1>6, <1>8, <1>9, <1>10 DEF front

\* A configured mount keeps out of the registry or is one of the three that
\* show a path of the project at its own place.
LEMMA ConfiguredIsApart ==
  ASSUME PlanInv, stage = "done", NEW l \in Range(Configured)
  PROVE  /\ l \in LogicalMount /\ l.role # ""
         /\ \/ /\ ~Overlap(EvalSymlinks(disk, l.source), registry)
               /\ ~Overlap(l.target, registry)
            \/ /\ l.source = l.target
               /\ l.target \in {project.WorktreeRoot, project.PrimaryRoot,
                                project.CommonGitDir}
<1>1. l \in Range(config.mounts) /\ l \in LogicalMount
  BY ConfiguredMounts DEF Range
<1>2. PICK i \in DOMAIN config.mounts : l = config.mounts[i]
  BY <1>1 DEF Range
<1>3. l.role # ""
  <2>1. ValidConfig(config)
    BY ConfigIsTyped DEF RolesAreSound
  <2>2. ValidMount(l)
    BY <1>2, <2>1 DEF ValidConfig
  <2>3. QED
    BY <2>2 DEF ValidMount, ManagedRoles
<1>4. LeavesRegistryAlone(l)
  BY ConfigIsTyped DEF MountsAreSound, Range
<1>5. ASSUME l.role \in RequiredRoles
      PROVE  /\ l.source = l.target
             /\ l.target \in {project.WorktreeRoot, project.PrimaryRoot,
                              project.CommonGitDir}
  <2>1. l \in MountsOf(config, l.role)
    BY <1>2 DEF MountsOf
  <2>2. /\ project.WorktreeRoot # NoPath /\ project.PrimaryRoot # NoPath
        /\ project.CommonGitDir # NoPath
    BY ProjectIsCanonical, PathIsPresent DEF CanonicalPath
  <2>3. RolesMatchProject
    BY ConfigIsTyped DEF RolesAreSound
  <2>4. ASSUME NEW role, NEW path, NEW access, path # NoPath,
               l \in {MountOf(role, path, path, access)[1]}
        PROVE  l.source = path /\ l.target = path
    BY <2>4 DEF MountOf
  <2>5. CASE l.role = "worktree"
    <3>1. l \in {MountOf("worktree", project.WorktreeRoot, project.WorktreeRoot,
                         FALSE)[1]}
      BY <2>1, <2>3, <2>5 DEF RolesMatchProject
    <3>2. QED
      BY <2>2, <2>4, <3>1
  <2>6. CASE l.role = "primary_checkout"
    <3>1. l \in {MountOf("primary_checkout", project.PrimaryRoot,
                         project.PrimaryRoot, project.Linked)[1]}
      BY <2>1, <2>3, <2>6 DEF RolesMatchProject
    <3>2. QED
      BY <2>2, <2>4, <3>1
  <2>7. CASE l.role = "common_git_dir"
    <3>1. l \in {MountOf("common_git_dir", project.CommonGitDir,
                         project.CommonGitDir, FALSE)[1]}
      BY <2>1, <2>3, <2>7 DEF RolesMatchProject
    <3>2. QED
      BY <2>2, <2>4, <3>1
  <2>8. QED
    BY <1>5, <2>5, <2>6, <2>7 DEF RequiredRoles
<1>6. QED
  BY <1>1, <1>3, <1>4, <1>5 DEF LeavesRegistryAlone

\* What each mount that is wanted has to do with the registry.
InRegistry(m) ==
  \/ /\ ~Overlap(EvalSymlinks(disk, m.source), registry)
     /\ ~Overlap(m.target, registry)
  \/ /\ m.source = m.target
     /\ m.target \in {project.WorktreeRoot, project.PrimaryRoot,
                      project.CommonGitDir}
  \/ m.readOnly /\ m.source = registry /\ m.target = registry
  \/ /\ project.Linked
     /\ m.source = project.GitDir /\ m.target = project.GitDir

\* The mounts planned are typed, each stands in one of the known ways to the
\* registry, no two of them share a target, and the registry's is among them.
LEMMA BindsAreSound ==
  ASSUME PlanInv, stage = "done"
  PROVE  /\ Binds \subseteq BindMount
         /\ \A m \in Binds : InRegistry(m)
         /\ \A m, n \in Binds : m.target = n.target => m = n
         /\ Bind(OfRegistry) \in Binds
<1>1. /\ logical \in Seq(LogicalMount)
      /\ Range(logical) = Range(Configured) \cup {OfRegistry}
                          \cup (IF project.Linked THEN {OfGitDir} ELSE {})
  BY LogicalIsTyped
<1>2. ASSUME NEW l \in Range(logical)
      PROVE  Bind(l) \in BindMount
  <2>1. l \in LogicalMount
    BY <1>1 DEF Range
  <2>2. QED
    BY <2>1, BindIsMount
<1>3. ASSUME NEW l \in Range(logical)
      PROVE  InRegistry(Bind(l))
  <2>1. CASE l \in Range(Configured)
    BY <2>1, ConfiguredIsApart DEF InRegistry, Bind
  <2>2. CASE l = OfRegistry
    BY <2>2 DEF InRegistry, Bind, OfRegistry
  <2>3. CASE project.Linked /\ l = OfGitDir
    BY <2>3 DEF InRegistry, Bind, OfGitDir
  <2>4. QED
    BY <1>1, <2>1, <2>2, <2>3
<1>4. ~TargetsConflict
  BY <1>1, ConfigIsTyped, NormalizedServes
<1>5. ASSUME NEW k \in Range(logical), NEW l \in Range(logical),
             Bind(k).target = Bind(l).target
      PROVE  Bind(k) = Bind(l)
  <2>1. PICK i \in DOMAIN logical : k = logical[i]
    BY DEF Range
  <2>2. PICK j \in DOMAIN logical : l = logical[j]
    BY DEF Range
  <2>3. logical[i].target = logical[j].target
    BY <1>5, <2>1, <2>2 DEF Bind
  <2>4. QED
    BY <1>4, <2>1, <2>2, <2>3 DEF TargetsConflict
<1>6. OfRegistry \in Range(logical)
  BY <1>1
<1>7. QED
  BY <1>2, <1>3, <1>5, <1>6 DEF Binds

\* Nothing overlaps the linked worktree's directory and not the registry.
LEMMA GitDirIsWithin ==
  ASSUME PlanInv, stage = "done", project.Linked, NEW p \in Path,
         Overlap(p, project.GitDir)
  PROVE  Overlap(p, registry)
<1>1. /\ registry \in Path /\ project.GitDir \in Path
      /\ Front(project.GitDir) = registry
  BY RegistryIsPath, ProjectIsCanonical DEF CanonicalPath
<1>2. Covers(registry, project.GitDir)
  BY <1>1 DEF Covers, IsPrefix, Path, Front
<1>3. CASE Covers(p, project.GitDir)
  BY <1>1, <1>2, <1>3, CoversOverlap
<1>4. CASE Covers(project.GitDir, p)
  BY <1>1, <1>2, <1>4, CoversOn DEF Overlap
<1>5. QED
  BY <1>3, <1>4 DEF Overlap

-----------------------------------------------------------------------------
(* The caches of a finished plan.                                          *)

Cache == [kind : STRING, source : Path]

CacheMount(c) ==
  [source |-> Physical(c), target |-> c.source, readOnly |-> FALSE]

CacheBinds == {CacheMount(c) : c \in Range(config.caches)}

\* A configured cache overlaps neither the registry, nor another cache, nor the
\* target of a mount.
LEMMA CachesAreApart ==
  ASSUME PlanInv, stage = "done"
  PROVE  /\ Range(config.caches) \subseteq Cache
         /\ \A c \in Range(config.caches) :
              /\ ~Overlap(c.source, registry) /\ ~Overlap(Physical(c), registry)
              /\ \A m \in Binds : ~Overlap(c.source, m.target)
         /\ \A c, d \in Range(config.caches) : c # d => ~Overlap(c.source, d.source)
<1>1. config.caches \in Seq(Cache) /\ CachesAreSafe
  BY ConfigIsTyped DEF Cache
<1>2. Range(config.caches) \subseteq Cache
  BY <1>1 DEF Range
<1>3. ASSUME NEW c \in Range(config.caches)
      PROVE  CacheIsSafe(c)
  BY <1>1 DEF CachesAreSafe, Range
<1>4. ASSUME NEW c \in Range(config.caches), NEW l \in Range(logical)
      PROVE  ~Overlap(c.source, Bind(l).target)
  <2>1. c.source \in Path /\ ~Overlap(c.source, registry)
    BY <1>2, <1>3 DEF Cache, CacheIsSafe
  <2>2. CASE l \in Range(Configured)
    <3>1. l.role # ""
      BY <2>2, ConfiguredIsApart
    <3>2. PICK i \in DOMAIN logical : l = logical[i]
      BY DEF Range
    <3>3. ~Overlap(c.source, l.target)
      BY <1>3, <3>1, <3>2 DEF CacheIsSafe
    <3>4. QED
      BY <3>3 DEF Bind
  <2>3. CASE l = OfRegistry
    BY <2>1, <2>3 DEF Bind, OfRegistry
  <2>4. CASE project.Linked /\ l = OfGitDir
    BY <2>1, <2>4, GitDirIsWithin DEF Bind, OfGitDir
  <2>5. QED
    BY <2>2, <2>3, <2>4, LogicalIsTyped
<1>5. ASSUME NEW c \in Range(config.caches), NEW d \in Range(config.caches), c # d
      PROVE  ~Overlap(c.source, d.source)
  <2>1. PICK i \in DOMAIN config.caches : c = config.caches[i]
    BY DEF Range
  <2>2. PICK j \in DOMAIN config.caches : d = config.caches[j]
    BY DEF Range
  <2>3. QED
    BY <1>1, <1>5, <2>1, <2>2 DEF CachesAreSafe
<1>6. QED
  BY <1>2, <1>3, <1>4, <1>5 DEF Binds, CacheIsSafe

\* Docker is given a mount for each configured cache and no other.
LEMMA CachesAreResolved ==
  ASSUME PlanInv, stage = "done"
  PROVE  /\ Len(caches) \in Nat /\ DOMAIN caches = 1 .. Len(caches)
         /\ {[source |-> caches[i].source, target |-> caches[i].target,
              readOnly |-> FALSE] : i \in DOMAIN caches} = CacheBinds
<1> DEFINE list == Range(config.caches)
           ofKind(kind) == CHOOSE c \in list : c.kind = kind
           kinds == Among(CacheKindOrder, {c.kind : c \in list})
           resolved(c) == [kind |-> c.kind, source |-> Physical(c),
                           target |-> c.source]
           whole == [i \in DOMAIN kinds |-> resolved(ofKind(kinds[i]))]
<1>1. caches = whole /\ ValidConfig(config)
  BY ConfigIsTyped DEF ResolvedCaches, RolesAreSound
<1>2. \A i \in DOMAIN config.caches :
        config.caches[i].kind \in Range(CacheKindOrder)
  BY <1>1 DEF ValidConfig
<1>3. \A c, d \in list : c.kind = d.kind => c = d
  BY <1>1 DEF ValidConfig, Distinct, Range
<1>4. \A c \in list : c.kind \in Range(CacheKindOrder)
  BY <1>2 DEF Range
<1>5. Picks(kinds, CacheKindOrder, {c.kind : c \in list}, Len(CacheKindOrder))
  <2>1. CacheKindOrder \in Seq({"go_build", "go_modules", "uv"})
    BY DEF CacheKindOrder
  <2>2. QED
    BY <2>1, AmongPicks
<1>6. Len(CacheKindOrder) = 3 /\ DOMAIN CacheKindOrder = 1 .. 3
  BY DEF CacheKindOrder
<1>7. \A i \in DOMAIN kinds : \E c \in list : c.kind = kinds[i]
  <2> HIDE DEF kinds, list
  <2>1. \A i \in DOMAIN kinds : kinds[i] \in {c.kind : c \in list}
    BY <1>5 DEF Picks
  <2>2. QED
    BY <2>1
<1>8. ASSUME NEW c \in list
      PROVE  \E i \in DOMAIN kinds : kinds[i] = c.kind
  <2>1. PICK j \in 1 .. 3 : CacheKindOrder[j] = c.kind
    BY <1>4, <1>6 DEF Range
  <2>2. CacheKindOrder[j] \in {d.kind : d \in list}
    BY <2>1
  <2>3. \A k \in 1 .. 3 :
          CacheKindOrder[k] \in {d.kind : d \in list} =>
            \E i \in DOMAIN kinds : kinds[i] = CacheKindOrder[k]
    BY <1>5, <1>6 DEF Picks
  <2>4. QED
    BY <2>1, <2>2, <2>3
<1>9. \A c \in list : ofKind(c.kind) = c
  BY <1>3
<1> HIDE DEF list, kinds, ofKind
<1>10. Len(kinds) \in Nat /\ DOMAIN kinds = 1 .. Len(kinds)
  <2>1. kinds \in Seq(Range(CacheKindOrder))
    BY <1>5 DEF Picks
  <2>2. QED
    BY <2>1
<1>11. DOMAIN caches = 1 .. Len(kinds) /\ Len(caches) = Len(kinds)
  BY <1>1, <1>10
<1>12. ASSUME NEW i \in DOMAIN caches
       PROVE  \E c \in list :
                [source |-> caches[i].source, target |-> caches[i].target,
                 readOnly |-> FALSE] = CacheMount(c)
  <2>1. i \in DOMAIN kinds
    BY <1>10, <1>11
  <2>2. PICK c \in list : c.kind = kinds[i]
    BY <1>7, <2>1
  <2>3. caches[i] = resolved(c)
    BY <1>1, <1>9, <2>1, <2>2
  <2>4. caches[i].source = Physical(c) /\ caches[i].target = c.source
    BY <2>3
  <2>5. QED
    BY <2>4 DEF CacheMount
<1>13. ASSUME NEW c \in list
       PROVE  \E i \in DOMAIN caches :
                [source |-> caches[i].source, target |-> caches[i].target,
                 readOnly |-> FALSE] = CacheMount(c)
  <2>1. PICK i \in DOMAIN kinds : kinds[i] = c.kind
    BY <1>8
  <2>2. caches[i] = resolved(c)
    BY <1>1, <1>9, <2>1
  <2>3. i \in DOMAIN caches
    BY <1>10, <1>11, <2>1
  <2>4. caches[i].source = Physical(c) /\ caches[i].target = c.source
    BY <2>2
  <2>5. QED
    BY <2>3, <2>4 DEF CacheMount
<1>14. QED
  BY <1>10, <1>11, <1>12, <1>13 DEF CacheBinds, list

-----------------------------------------------------------------------------
(* What is seen.                                                           *)

\* What is asked for is the mounts planned and the caches.
LEMMA AskedAre == Asked = Binds \cup CacheBinds
BY DEF Asked, Binds, CacheBinds, CacheMount

\* What Docker is given is the retained mounts and, after them, the caches.
LEMMA GivenAre ==
  ASSUME PlanInv, stage = "done"
  PROVE  /\ retained \in Seq(Entry) /\ Len(retained) \in Nat /\ Len(caches) \in Nat
         /\ DOMAIN Given = 1 .. Len(retained) + Len(caches)
         /\ \A i \in 1 .. Len(retained) :
              Given[i] = retained[i].mount /\ Given[i] \in Binds
         /\ \A i \in DOMAIN Given : i > Len(retained) => Given[i] \in CacheBinds
         /\ \A m \in CacheBinds : \E i \in DOMAIN Given : Given[i] = m
<1> DEFINE first == [i \in DOMAIN retained |-> retained[i].mount]
           bind(i) == [source |-> caches[i].source, target |-> caches[i].target,
                       readOnly |-> FALSE]
           second == [i \in DOMAIN caches |-> bind(i)]
           n == Len(retained)
           k == Len(caches)
<1>1. /\ retained \in Seq(Entry)
      /\ \A i \in DOMAIN retained : retained[i].mount \in Binds
  BY LogicalIsTyped, ConfigIsTyped, NormalizedServes
<1>2. n \in Nat /\ DOMAIN retained = 1 .. n
  BY <1>1
<1>3. k \in Nat /\ DOMAIN caches = 1 .. k /\ {bind(i) : i \in 1 .. k} = CacheBinds
  BY CachesAreResolved
<1>4. Given = first \o second
  BY DEF Given
<1> HIDE DEF n, k, bind
<1>5. /\ Len(first) = n /\ Len(second) = k
      /\ \A i \in 1 .. n : first[i] = retained[i].mount
      /\ \A i \in 1 .. k : second[i] = bind(i)
      /\ first \in Seq(Binds \cup CacheBinds)
      /\ second \in Seq(Binds \cup CacheBinds)
  BY <1>1, <1>2, <1>3
<1> HIDE DEF first, second
<1>6. /\ \A i \in 1 .. n + k :
           Given[i] = IF i <= n THEN first[i] ELSE second[i - n]
      /\ DOMAIN Given = 1 .. n + k
  BY <1>4, <1>5
<1>7. DOMAIN Given = 1 .. n + k
  BY <1>6
<1>8. ASSUME NEW i \in 1 .. n
      PROVE  Given[i] = retained[i].mount /\ Given[i] \in Binds
  <2>1. i \in 1 .. n + k /\ i <= n
    BY <1>2, <1>3
  <2>2. Given[i] = first[i]
    BY <1>6, <2>1
  <2>3. QED
    BY <1>1, <1>2, <1>5, <2>2
<1>9. ASSUME NEW i \in DOMAIN Given, i > n
      PROVE  Given[i] \in CacheBinds
  <2>1. i - n \in 1 .. k /\ ~(i <= n) /\ i \in 1 .. n + k
    BY <1>2, <1>3, <1>7, <1>9
  <2>2. Given[i] = second[i - n]
    BY <1>6, <2>1
  <2>3. Given[i] = bind(i - n)
    BY <1>5, <2>1, <2>2
  <2>4. QED
    BY <1>3, <2>1, <2>3
<1>10. ASSUME NEW m \in CacheBinds
       PROVE  \E i \in DOMAIN Given : Given[i] = m
  <2>1. PICK i \in 1 .. k : bind(i) = m
    BY <1>3
  <2>2. n + i \in 1 .. n + k /\ ~(n + i <= n) /\ (n + i) - n = i
    BY <1>2, <1>3
  <2>3. Given[n + i] = second[i]
    BY <1>6, <2>2
  <2>4. QED
    BY <1>5, <1>7, <2>1, <2>2, <2>3
<1>11. QED
  BY <1>1, <1>2, <1>3, <1>7, <1>8, <1>9, <1>10 DEF n, k

\* Of the mounts over a place the last one is seen.
LEMMA LastIsSeen ==
  ASSUME DOMAIN Given \subseteq Nat, NEW place, NEW j \in DOMAIN Given,
         Covers(Given[j].target, place),
         \A k \in DOMAIN Given : Covers(Given[k].target, place) => k <= j
  PROVE  Seen(place) = {Given[j]}
<1> DEFINE last(i) == /\ Covers(Given[i].target, place)
                      /\ \A k \in DOMAIN Given :
                           Covers(Given[k].target, place) => k <= i
<1>1. \A i \in DOMAIN Given : last(i) => i = j
  <2>1. SUFFICES ASSUME NEW i \in DOMAIN Given, last(i)
                 PROVE  i = j
    OBVIOUS
  <2>2. i <= j /\ j <= i /\ i \in Nat /\ j \in Nat
    BY <2>1
  <2>3. QED
    BY <2>2
<1>2. last(j)
  OBVIOUS
<1> HIDE DEF last
<1>3. {i \in DOMAIN Given : last(i)} = {j}
  BY <1>1, <1>2
<1>4. Seen(place) = {Given[i] : i \in {i \in DOMAIN Given : last(i)}}
  BY DEF Seen, last
<1>5. QED
  BY <1>3, <1>4

\* Wherever a cache is mounted it is seen, and nothing else was asked for.
LEMMA CacheIsSeen ==
  ASSUME PlanInv, stage = "done", NEW place \in Path,
         NEW c \in Range(config.caches), Covers(c.source, place)
  PROVE  Seen(place) = {CacheMount(c)} /\ Nearest(place) = {CacheMount(c)}
<1>1. /\ c.source \in Path
      /\ \A m \in Binds : ~Overlap(c.source, m.target)
      /\ \A d \in Range(config.caches) :
           d.source \in Path /\ (c # d => ~Overlap(c.source, d.source))
  BY CachesAreApart DEF Cache
<1>2. Binds \subseteq BindMount
  BY BindsAreSound
<1>3. ASSUME NEW m \in Binds \cup CacheBinds, Covers(m.target, place)
      PROVE  m = CacheMount(c)
  <2>1. CASE m \in Binds
    <3>1. m.target \in Path
      BY <1>2, <2>1 DEF BindMount
    <3>2. QED
      BY <1>1, <1>3, <2>1, <3>1, CoversOverlap
  <2>2. CASE m \in CacheBinds
    <3>1. PICK d \in Range(config.caches) : m = CacheMount(d)
      BY <2>2 DEF CacheBinds
    <3>2. d.source \in Path /\ Covers(d.source, place)
      BY <1>1, <1>3, <3>1 DEF CacheMount
    <3>3. c = d
      BY <1>1, <3>2, CoversOverlap
    <3>4. QED
      BY <3>1, <3>3
  <2>3. QED
    BY <2>1, <2>2
<1>4. CacheMount(c) \in CacheBinds /\ CacheMount(c).target = c.source
  BY DEF CacheBinds, CacheMount
<1>5. Nearest(place) = {CacheMount(c)}
  <2>1. Covers(c.source, c.source)
    BY <1>1, CoversItself
  <2>2. \A n \in Asked : Covers(n.target, place) => n = CacheMount(c)
    BY <1>3, AskedAre
  <2>3. CacheMount(c) \in Asked
    BY <1>4, AskedAre
  <2>4. QED
    BY <1>4, <2>1, <2>2, <2>3 DEF Nearest
<1>6. \A i \in DOMAIN Given : Given[i] \in Binds \cup CacheBinds
  <2>1. SUFFICES ASSUME NEW i \in DOMAIN Given
                 PROVE  Given[i] \in Binds \cup CacheBinds
    OBVIOUS
  <2>2. i \in 1 .. Len(retained) \/ i > Len(retained)
    BY GivenAre
  <2>3. QED
    BY <2>2, GivenAre
<1>7. DOMAIN Given \subseteq Nat /\ Len(retained) + Len(caches) \in Nat
      /\ \A i \in DOMAIN Given : i <= Len(retained) + Len(caches)
  BY GivenAre
<1> DEFINE over == {i \in DOMAIN Given : Covers(Given[i].target, place)}
<1>8. over # {}
  <2>1. PICK i \in DOMAIN Given : Given[i] = CacheMount(c)
    BY <1>4, GivenAre
  <2>2. QED
    BY <1>4, <2>1
<1>9. /\ Max(over) \in over
      /\ \A i \in over : Max(over) >= i
  <2>1. over \in SUBSET Nat /\ \A i \in over : i <= Len(retained) + Len(caches)
    BY <1>7
  <2> HIDE DEF over
  <2>2. QED
    BY <1>7, <1>8, <2>1, MaxIsGreatest
<1> DEFINE j == Max(over)
<1> HIDE DEF j
<1>10. /\ j \in DOMAIN Given /\ Covers(Given[j].target, place)
       /\ \A k \in DOMAIN Given : Covers(Given[k].target, place) => k <= j
  BY <1>7, <1>9 DEF j
<1>11. Seen(place) = {Given[j]}
  BY <1>7, <1>10, LastIsSeen
<1>12. Given[j] = CacheMount(c)
  BY <1>3, <1>6, <1>10
<1>13. QED
  BY <1>5, <1>11, <1>12

\* Of the mounts wanted around a place one is the nearest.
LEMMA SomeIsNearest ==
  ASSUME PlanInv, stage = "done", NEW place \in Path,
         \E m \in Binds : Covers(m.target, place)
  PROVE  \E n \in Binds :
           /\ Covers(n.target, place)
           /\ \A m \in Binds : Covers(m.target, place) => Covers(m.target, n.target)
<1> DEFINE around == {m \in Binds : Covers(m.target, place)}
           lengths == {Len(m.target) : m \in around}
<1>1. \A m \in around : m.target \in Path /\ Covers(m.target, place)
  BY BindsAreSound DEF BindMount
<1>2. \A m \in around : Len(m.target) \in Nat /\ Len(m.target) <= Len(place)
  BY <1>1 DEF Covers, IsPrefix, Path
<1>3. around # {} /\ Len(place) \in Nat
  BY DEF Path
<1>4. lengths \in SUBSET Nat /\ lengths # {} /\ \A i \in lengths : i <= Len(place)
  BY <1>2, <1>3
<1> DEFINE most == Max(lengths)
<1>5. most \in lengths /\ \A i \in lengths : most >= i
  <2> HIDE DEF lengths
  <2>1. QED
    BY <1>3, <1>4, MaxIsGreatest
<1> HIDE DEF most
<1>6. PICK n \in around : Len(n.target) = most
  BY <1>5
<1>7. ASSUME NEW m \in around
      PROVE  Covers(m.target, n.target)
  <2>1. /\ m.target \in Path /\ n.target \in Path
        /\ Covers(m.target, place) /\ Covers(n.target, place)
    BY <1>1
  <2>2. Overlap(m.target, n.target)
    BY <2>1, CoversOverlap
  <2>3. Len(m.target) <= Len(n.target)
    BY <1>2, <1>5, <1>6
  <2>4. CASE Covers(n.target, m.target)
    <3>1. n.target = m.target
      BY <2>1, <2>3, <2>4, CoversBoth
    <3>2. QED
      BY <2>1, <3>1, CoversItself
  <2>5. QED
    BY <2>2, <2>4 DEF Overlap
<1>8. QED
  BY <1>6, <1>7

\* The mount that serves the nearest one is the last over the place.
LEMMA MountIsSeen ==
  ASSUME PlanInv, stage = "done", NEW place \in Path,
         \A c \in Range(config.caches) : ~Covers(c.source, place),
         NEW n \in Binds, Covers(n.target, place),
         \A m \in Binds : Covers(m.target, place) => Covers(m.target, n.target)
  PROVE  /\ Nearest(place) = {n}
         /\ \E m \in BindMount :
              /\ Seen(place) = {m}
              /\ MountContains(m, n) /\ m.readOnly = n.readOnly
<1>1. /\ Binds \subseteq BindMount /\ \A m \in Binds : m.target \in Path
      /\ \A m, o \in Binds : m.target = o.target => m = o
  BY BindsAreSound DEF BindMount
<1>2. \A m \in CacheBinds : ~Covers(m.target, place)
  BY DEF CacheBinds, CacheMount
<1>3. Nearest(place) = {n}
  <2>1. \A m \in Asked : Covers(m.target, place) =>
                           m \in Binds /\ Covers(m.target, n.target)
    BY <1>2, AskedAre
  <2>2. n \in Nearest(place)
    BY <2>1, AskedAre DEF Nearest
  <2>3. ASSUME NEW m \in Nearest(place)
        PROVE  m = n
    <3>1. m \in Binds /\ Covers(m.target, n.target) /\ Covers(n.target, m.target)
      BY <2>1, AskedAre DEF Nearest
    <3>2. m.target = n.target
      BY <1>1, <3>1, CoversBoth
    <3>3. QED
      BY <1>1, <3>1, <3>2
  <2>4. QED
    BY <2>2, <2>3
<1>4. PICK a \in DOMAIN retained : Serves(retained, a, MergedEntry(n))
  BY LogicalIsTyped, ConfigIsTyped, NormalizedServes
<1>5. MergedEntry(n).mount = n
  BY DEF MergedEntry
<1> DEFINE m == retained[a].mount
<1>6. /\ MountContains(m, n) /\ m.readOnly = n.readOnly
      /\ \A t \in DOMAIN retained :
           t > a => ~Covers(retained[t].mount.target, n.target)
  BY <1>4, <1>5 DEF Serves
<1>7. m \in BindMount /\ n \in BindMount
  BY <1>1, GivenAre, KeptIsEntry
<1>8. Covers(m.target, place)
  <2> HIDE DEF m
  <2>1. QED
    BY <1>6, <1>7, ContainerShowsTheSame
<1>9. /\ DOMAIN Given \subseteq Nat /\ Len(retained) \in Nat
      /\ a \in DOMAIN Given /\ DOMAIN retained = 1 .. Len(retained)
      /\ a \in 1 .. Len(retained) /\ Given[a] = m
  BY GivenAre
<1>10. ASSUME NEW t \in DOMAIN Given, Covers(Given[t].target, place)
       PROVE  t <= a
  <2>1. t \in Nat
    BY <1>9
  <2>2. CASE t > Len(retained)
    <3>1. Given[t] \in CacheBinds
      BY <2>2, GivenAre
    <3>2. QED
      BY <1>2, <1>10, <3>1
  <2>3. CASE t \in 1 .. Len(retained)
    <3>1. Given[t] = retained[t].mount /\ Given[t] \in Binds
      BY <2>3, GivenAre
    <3>2. Covers(retained[t].mount.target, n.target)
      BY <1>10, <3>1
    <3>3. ~(t > a)
      BY <1>6, <1>9, <2>3, <3>2
    <3>4. QED
      BY <1>9, <2>1, <3>3
  <2>4. t \in 1 .. Len(retained) \/ t > Len(retained)
    BY GivenAre
  <2>5. QED
    BY <2>2, <2>3, <2>4
<1>11. Seen(place) = {m}
  <2> HIDE DEF m
  <2>1. Covers(Given[a].target, place)
    BY <1>8, <1>9
  <2>2. Seen(place) = {Given[a]}
    BY <1>9, <1>10, <2>1, LastIsSeen
  <2>3. QED
    BY <1>9, <2>2
<1>12. QED
  BY <1>3, <1>6, <1>7, <1>8, <1>11

\* The places that a run looks at are paths.
LEMMA PlacesArePaths ==
  ASSUME PlanInv, stage = "done"
  PROVE  Places \subseteq Path
<1>1. disk.dirs \subseteq Path /\ disk.files \subseteq Path
  BY WorldIsSound DEF SoundDisk
<1>2. ASSUME NEW m \in Asked
      PROVE  m.source \in Path /\ m.target \in Path
  <2>1. CASE m \in Binds
    BY <2>1, BindsAreSound DEF BindMount
  <2>2. CASE m \in CacheBinds
    <3>1. PICK c \in Range(config.caches) : m = CacheMount(c)
      BY <2>2 DEF CacheBinds
    <3>2. c.source \in Path
      BY CachesAreApart DEF Cache
    <3>3. Physical(c) \in Path
      BY <3>2, WorldIsSound, ResolvedIsCanonical DEF Physical
    <3>4. QED
      BY <3>1, <3>2, <3>3 DEF CacheMount
  <2>3. QED
    BY <2>1, <2>2, AskedAre
<1>3. ASSUME NEW m \in Asked, NEW d \in disk.dirs,
             Covers(EvalSymlinks(disk, m.source), d)
      PROVE  m.target \o Below(EvalSymlinks(disk, m.source), d) \in Path
  <2>1. EvalSymlinks(disk, m.source) \in Path /\ d \in Path
    BY <1>1, <1>2, WorldIsSound, ResolvedIsCanonical
  <2>2. Below(EvalSymlinks(disk, m.source), d) \in Path
    BY <1>3, <2>1, CoversRest
  <2>3. QED
    BY <1>2, <2>2, CoversJoined
<1> DEFINE inner(m) ==
             {m.target \o Below(EvalSymlinks(disk, m.source), d) :
                d \in {d \in disk.dirs : Covers(EvalSymlinks(disk, m.source), d)}}
<1>4. \A m \in Asked : inner(m) \subseteq Path
  BY <1>3
<1>5. Places = disk.dirs \cup disk.files \cup {m.target : m \in Asked}
               \cup UNION {inner(m) : m \in Asked}
  BY DEF Places
<1> HIDE DEF inner
<1>6. QED
  BY <1>1, <1>2, <1>4, <1>5

\* Nothing is mounted over a place that nothing was asked for.
LEMMA NothingIsSeen ==
  ASSUME PlanInv, stage = "done", NEW place \in Path,
         \A m \in Binds \cup CacheBinds : ~Covers(m.target, place)
  PROVE  Seen(place) = {} /\ Nearest(place) = {}
<1>1. \A i \in DOMAIN Given : Given[i] \in Binds \cup CacheBinds
  <2>1. SUFFICES ASSUME NEW i \in DOMAIN Given
                 PROVE  Given[i] \in Binds \cup CacheBinds
    OBVIOUS
  <2>2. i \in 1 .. Len(retained) \/ i > Len(retained)
    BY GivenAre
  <2>3. QED
    BY <2>2, GivenAre
<1>2. \A i \in DOMAIN Given : ~Covers(Given[i].target, place)
  BY <1>1
<1>3. \A m \in Asked : ~Covers(m.target, place)
  BY AskedAre
<1>4. QED
  BY <1>2, <1>3 DEF Seen, Nearest

\* What is seen at a place was asked for, and lies over it.
LEMMA SeenIsGiven ==
  ASSUME PlanInv, stage = "done", NEW place, NEW m \in Seen(place)
  PROVE  m \in Binds \cup CacheBinds /\ Covers(m.target, place)
<1>1. PICK i \in DOMAIN Given : m = Given[i] /\ Covers(Given[i].target, place)
  BY DEF Seen
<1>2. i \in 1 .. Len(retained) \/ i > Len(retained)
  BY GivenAre
<1>3. QED
  BY <1>1, <1>2, GivenAre

\* Where no link lies between two sources, the one leads to the same place in
\* the tree the other leads to.
LEMMA ResolvedInTurn ==
  ASSUME NEW d, SoundDisk(d), NEW p \in Path, NEW q \in Path, Covers(p, q),
         LinksOnTheWay(d, p) = LinksOnTheWay(d, q)
  PROVE  EvalSymlinks(d, q) = EvalSymlinks(d, p) \o Below(p, q)
<1> DEFINE links == LinksOnTheWay(d, p)
           last == CHOOSE l \in links : \A k \in links : Len(k) <= Len(l)
           rest == Below(p, q)
<1>1. rest \in Path /\ q = p \o rest
  BY CoversRest
<1>2. CASE links = {}
  BY <1>1, <1>2 DEF EvalSymlinks
<1>3. CASE links # {}
  <2>1. /\ EvalSymlinks(d, p) = d.links[last] \o Below(last, p)
        /\ EvalSymlinks(d, q) = d.links[last] \o Below(last, q)
    BY <1>3 DEF EvalSymlinks
  <2>2. last \in links
    BY <1>3, LastOnTheWay
  <2>3. last \in Path /\ d.links[last] \in Path /\ Covers(last, p)
    BY <2>2 DEF LinksOnTheWay, SoundDisk
  <2> HIDE DEF last
  <2>4. Below(last, p) \in Path /\ Below(last, q) = Below(last, p) \o rest
    <3>1. Below(last, p) \in Path
      BY <2>3, CoversRest
    <3>2. Below(last, q) = Below(last, p) \o Below(p, q)
      BY <2>3, BelowInTurn
    <3>3. QED
      BY <3>1, <3>2
  <2>5. (d.links[last] \o Below(last, p)) \o rest
          = d.links[last] \o (Below(last, p) \o rest)
    <3> DEFINE leads == d.links[last]
               below == Below(last, p)
    <3>1. leads \in Path /\ below \in Path /\ rest \in Path
      BY <1>1, <2>3, <2>4
    <3> HIDE DEF leads, below, links, rest
    <3>2. (leads \o below) \o rest = leads \o (below \o rest)
      BY <3>1 DEF Path
    <3>3. QED
      BY <3>2 DEF leads, below
  <2>6. EvalSymlinks(d, p) \o rest = (d.links[last] \o Below(last, p)) \o rest
    BY <2>1
  <2>7. EvalSymlinks(d, q) = d.links[last] \o (Below(last, p) \o rest)
    BY <2>1, <2>4
  <2>8. QED
    BY <2>5, <2>6, <2>7
<1>4. QED
  BY <1>2, <1>3

\* The directory a mount leads to, as a mount.
Resolved(m) == [m EXCEPT !.source = EvalSymlinks(disk, m.source)]

\* A mount that contains another one, with no link between, leads to the same
\* directory at every place of it.
LEMMA ContainerLeadsToTheSame ==
  ASSUME PlanInv, NEW m \in BindMount, NEW n \in BindMount,
         MountContains(m, n), ~LinkBetween(m, n),
         NEW place \in Path, Covers(n.target, place)
  PROVE  EvalSymlinks(disk, m.source) \o Below(m.target, place)
           = EvalSymlinks(disk, n.source) \o Below(n.target, place)
<1> DEFINE base == EvalSymlinks(disk, m.source)
           inner == EvalSymlinks(disk, n.source)
<1>1. m.source \in Path /\ n.source \in Path
  BY DEF BindMount
<1>2. base \in Path /\ inner \in Path
  BY <1>1, WorldIsSound, ResolvedIsCanonical
<1>3. inner = base \o Below(m.source, n.source)
  BY <1>1, WorldIsSound, ResolvedInTurn DEF MountContains, LinkBetween
<1> HIDE DEF base, inner
<1>4. Below(m.source, n.source) \in Path
  BY <1>1, CoversRest DEF MountContains
<1>5. Covers(base, inner) /\ Below(base, inner) = Below(m.source, n.source)
  BY <1>2, <1>3, <1>4, CoversJoined
<1>6. /\ Resolved(m) = [source |-> base, target |-> m.target, readOnly |-> m.readOnly]
      /\ Resolved(n) = [source |-> inner, target |-> n.target, readOnly |-> n.readOnly]
  BY DEF Resolved, BindMount, base, inner
<1>7. Resolved(m) \in BindMount /\ Resolved(n) \in BindMount
  BY <1>2, <1>6 DEF BindMount
<1>8. MountContains(Resolved(m), Resolved(n))
  BY <1>5, <1>6 DEF MountContains
<1>9. Resolved(m).source \o Below(Resolved(m).target, place)
        = Resolved(n).source \o Below(Resolved(n).target, place)
  <2>1. Covers(Resolved(n).target, place)
    BY <1>6
  <2>2. QED
    BY <1>7, <1>8, <2>1, ContainerShowsTheSame
<1>10. QED
  BY <1>6, <1>9 DEF base, inner

\* At every path of the container, not only at those of Places.
LEMMA PlaceIsAsAsked ==
  ASSUME PlanInv, stage = "done", NEW place \in Path
  PROVE  AsAsked(place)
<1>1. CASE \E c \in Range(config.caches) : Covers(c.source, place)
  BY <1>1, CacheIsSeen DEF AsAsked
<1>2. CASE /\ \A c \in Range(config.caches) : ~Covers(c.source, place)
           /\ \E m \in Binds : Covers(m.target, place)
  <2>1. PICK n \in Binds :
          /\ Covers(n.target, place)
          /\ \A m \in Binds : Covers(m.target, place) => Covers(m.target, n.target)
    BY <1>2, SomeIsNearest
  <2>2. PICK m \in BindMount :
          /\ Nearest(place) = {n} /\ Seen(place) = {m}
          /\ MountContains(m, n) /\ m.readOnly = n.readOnly
    BY <1>2, <2>1, MountIsSeen
  <2>3. CASE LinkBetween(m, n)
    BY <2>2, <2>3 DEF AsAsked
  <2>4. CASE ~LinkBetween(m, n)
    <3>1. n \in BindMount
      BY BindsAreSound
    <3>2. EvalSymlinks(disk, m.source) \o Below(m.target, place)
            = EvalSymlinks(disk, n.source) \o Below(n.target, place)
      BY <2>1, <2>2, <2>4, <3>1, ContainerLeadsToTheSame
    <3>3. QED
      BY <2>2, <3>2 DEF AsAsked, View
  <2>5. QED
    BY <2>3, <2>4
<1>3. CASE /\ \A c \in Range(config.caches) : ~Covers(c.source, place)
           /\ \A m \in Binds : ~Covers(m.target, place)
  <2>1. \A m \in CacheBinds : ~Covers(m.target, place)
    BY <1>3 DEF CacheBinds, CacheMount
  <2>2. Seen(place) = {} /\ Nearest(place) = {}
    BY <1>3, <2>1, NothingIsSeen
  <2>3. QED
    BY <2>2 DEF AsAsked
<1>4. QED
  BY <1>1, <1>2, <1>3

\* Merging mounts, ordering them and absorbing one into another, as
\* normalizeLogicalMounts does, change for no place of the container whether it
\* can be written, nor which directory of the host is seen there, unless a link
\* lies between the sources of an absorbed mount and of the one that absorbed it:
\* the proof of MountPlan's AccessIsAsAsked.
THEOREM AccessIsNeverChanged == Spec => []AccessIsAsAsked
<1>1. PlanInv => AccessIsAsAsked
  BY PlacesArePaths, PlaceIsAsAsked DEF AccessIsAsAsked
<1>2. QED
  BY PlanInvariance, <1>1, PTL

\* The same at every path of the container, not only at the places that a run
\* looks at.
THEOREM AccessHoldsEverywhere ==
  Spec => [](stage = "done" => \A place \in Path : AsAsked(place))
<1>1. PlanInv => (stage = "done" => \A place \in Path : AsAsked(place))
  BY PlaceIsAsAsked
<1>2. QED
  BY PlanInvariance, <1>1, PTL

\* Where no source is reached through a link, every path of the container, and
\* not only the places that a run looks at, shows the directory of the host that
\* the nearest mount asked for leads to, with the access it asked for.
THEOREM TreesHoldWithoutLinks ==
  Spec => [](stage = "done" /\ (\A m \in Asked : LinksOnTheWay(disk, m.source) = {}) =>
               \A place \in Path :
                 View(Seen(place), place) = View(Nearest(place), place))
<1> DEFINE NoLinks == \A m \in Asked : LinksOnTheWay(disk, m.source) = {}
           AllShown == \A place \in Path :
                         View(Seen(place), place) = View(Nearest(place), place)
<1>1. PlanInv => (stage = "done" /\ NoLinks => AllShown)
  <2> SUFFICES ASSUME PlanInv, stage = "done", NoLinks, NEW place \in Path
               PROVE  View(Seen(place), place) = View(Nearest(place), place)
    OBVIOUS
  <2>1. Seen(place) \subseteq Asked /\ Nearest(place) \subseteq Asked
    BY SeenIsGiven, AskedAre DEF Nearest
  <2>2. \A m \in Seen(place), n \in Nearest(place) : ~LinkBetween(m, n)
    BY <2>1 DEF LinkBetween
  <2>3. QED
    BY <2>2, PlaceIsAsAsked DEF AsAsked
<1>2. QED
  BY PlanInvariance, <1>1, PTL

-----------------------------------------------------------------------------
(* What the registry is seen through.                                      *)

\* Of the paths that Git's layout pins, only the root of a linked worktree can
\* lie in the registry.
LEMMA PinnedPathsAreAbove ==
  ASSUME PlanInv, stage = "done", NEW path, Covers(registry, path),
         path \in {project.WorktreeRoot, project.PrimaryRoot, project.CommonGitDir}
  PROVE  project.Linked /\ path = project.WorktreeRoot
<1> DEFINE common == project.CommonGitDir
           root == project.WorktreeRoot
<1>1. /\ common \in Path /\ root \in Path /\ registry \in Path
      /\ registry = Append(common, "worktrees")
  BY ProjectIsCanonical, RegistryIsPath DEF CanonicalPath
<1>2. Len(registry) = Len(common) + 1 /\ Len(common) \in Nat
  BY <1>1 DEF Path
<1>3. \A p \in Path : Covers(registry, p) => Len(p) >= Len(common) + 1
  BY <1>1, <1>2 DEF Covers, IsPrefix, Path
<1>4. path # common
  BY <1>1, <1>2, <1>3
<1>5. CASE ~project.Linked
  <2>1. project.PrimaryRoot = root /\ common = Append(root, ".git")
    BY <1>5, ProjectIsCanonical
  <2>2. Len(common) = Len(root) + 1 /\ Len(root) \in Nat
    BY <1>1, <2>1 DEF Path
  <2>3. path # root
    BY <1>1, <1>2, <1>3, <2>2
  <2>4. QED
    BY <1>4, <2>1, <2>3
<1>6. CASE project.Linked
  <2>1. common # <<>> /\ project.PrimaryRoot = Front(common)
    BY <1>6, ProjectIsCanonical
  <2>2. project.PrimaryRoot \in Path
    BY ProjectIsCanonical DEF CanonicalPath
  <2>3. Len(Front(common)) = Len(common) - 1
    BY <1>1, <2>1 DEF Front, Path
  <2>4. path # project.PrimaryRoot
    BY <1>2, <1>3, <2>1, <2>2, <2>3
  <2>5. QED
    BY <1>4, <1>6, <2>4
<1>7. QED
  BY <1>5, <1>6

\* A writable mount that is the nearest one to a place in the registry is one
\* of the linked worktree's own.
LEMMA NearestIsOwn ==
  ASSUME PlanInv, stage = "done", NEW place \in Path, Covers(registry, place),
         NEW n \in Nearest(place), n.readOnly = FALSE
  PROVE  \E own \in OwnInRegistry : Covers(own, place)
<1>1. n \in Binds \cup CacheBinds /\ Covers(n.target, place)
  BY AskedAre DEF Nearest
<1>2. Covers(registry, n.target)
  <2>1. Bind(OfRegistry) \in Asked /\ Bind(OfRegistry).target = registry
    BY BindsAreSound, AskedAre DEF Bind, OfRegistry
  <2>2. QED
    BY <2>1 DEF Nearest
<1>3. n \in Binds
  <2>1. ASSUME NEW c \in Range(config.caches), n = CacheMount(c)
        PROVE  FALSE
    BY <1>2, <2>1, CachesAreApart DEF CacheMount, Overlap
  <2>2. QED
    BY <1>1, <2>1 DEF CacheBinds
<1>4. InRegistry(n) /\ ~(~Overlap(n.target, registry))
  BY <1>2, <1>3, BindsAreSound DEF Overlap
<1>5. CASE n.target \in {project.WorktreeRoot, project.PrimaryRoot,
                         project.CommonGitDir}
  <2>1. project.Linked /\ n.target = project.WorktreeRoot
    BY <1>2, <1>5, PinnedPathsAreAbove
  <2>2. n.target \in OwnInRegistry
    BY <1>2, <2>1 DEF OwnInRegistry
  <2>3. QED
    BY <1>1, <2>2
<1>6. CASE project.Linked /\ n.target = project.GitDir
  <2>1. n.target \in OwnInRegistry
    BY <1>6 DEF OwnInRegistry
  <2>2. QED
    BY <1>1, <2>1
<1>7. QED
  BY <1>4, <1>5, <1>6 DEF InRegistry

\* A writable mount that reaches into the registry reaches the linked worktree's
\* own part of it.
LEMMA ReachedIsOwn ==
  ASSUME PlanInv, stage = "done", NEW place \in Path, NEW m \in Seen(place),
         Covers(registry,
                EvalSymlinks(disk, m.source) \o Below(m.target, place)),
         ~m.readOnly
  PROVE  \E own \in OwnInRegistry :
           Covers(own, EvalSymlinks(disk, m.source) \o Below(m.target, place))
<1> DEFINE base == EvalSymlinks(disk, m.source)
           rest == Below(m.target, place)
           reached == base \o rest
<1>1. m \in Binds \cup CacheBinds /\ Covers(m.target, place)
  BY SeenIsGiven
<1>2. m.source \in Path /\ m.target \in Path
  <2>1. CASE m \in Binds
    BY <2>1, BindsAreSound DEF BindMount
  <2>2. CASE m \in CacheBinds
    <3>1. PICK c \in Range(config.caches) : m = CacheMount(c)
      BY <2>2 DEF CacheBinds
    <3>2. c.source \in Path
      BY CachesAreApart DEF Cache
    <3>3. Physical(c) \in Path
      BY <3>2, WorldIsSound, ResolvedIsCanonical DEF Physical
    <3>4. QED
      BY <3>1, <3>2, <3>3 DEF CacheMount
  <2>3. QED
    BY <1>1, <2>1, <2>2
<1>3. base \in Path /\ rest \in Path /\ place = m.target \o rest
  BY <1>1, <1>2, WorldIsSound, ResolvedIsCanonical, CoversRest
<1> HIDE DEF base, rest
<1>4. reached \in Path /\ Covers(base, reached) /\ registry \in Path
  BY <1>3, CoversJoined, RegistryIsPath
<1>5. Covers(registry, reached)
  BY DEF base, rest
<1> HIDE DEF reached
<1>6. Overlap(base, registry)
  BY <1>3, <1>4, <1>5, CoversOverlap
<1>7. ASSUME m \in CacheBinds
      PROVE  FALSE
  <2>1. PICK c \in Range(config.caches) : m = CacheMount(c)
    BY <1>7 DEF CacheBinds
  <2>2. m.source = EvalSymlinks(disk, c.source) /\ c.source \in Path
    BY <2>1, CachesAreApart DEF CacheMount, Physical, Cache
  <2>3. base = Physical(c)
    BY <2>2, WorldIsSound, ResolvedIsCanonical DEF base, Physical
  <2>4. QED
    BY <1>6, <2>3, CachesAreApart
<1>8. m \in Binds /\ InRegistry(m)
  BY <1>1, <1>7, BindsAreSound
<1>9. CASE /\ m.source = m.target
           /\ m.target \in {project.WorktreeRoot, project.PrimaryRoot,
                            project.CommonGitDir}
  <2>1. base = m.target
    BY <1>9, ProjectIsCanonical DEF base, CanonicalPath
  <2>2. reached = place
    BY <1>3, <2>1 DEF reached
  <2>3. PICK n \in Nearest(place) : n.readOnly = m.readOnly
    <3>1. {o.readOnly : o \in Seen(place)} = {n.readOnly : n \in Nearest(place)}
      BY PlaceIsAsAsked DEF AsAsked
    <3>2. m.readOnly \in {n.readOnly : n \in Nearest(place)}
      BY <3>1
    <3>3. QED
      BY <3>2
  <2>4. m.readOnly = FALSE
    BY <1>8, BindsAreSound DEF BindMount
  <2>5. QED
    BY <1>5, <2>2, <2>3, <2>4, NearestIsOwn DEF reached, base, rest
<1>10. CASE /\ project.Linked
            /\ m.source = project.GitDir /\ m.target = project.GitDir
  <2>1. base = project.GitDir
    BY <1>10, RegistryIsPath DEF base
  <2>2. project.GitDir \in OwnInRegistry
    BY <1>10 DEF OwnInRegistry
  <2>3. QED
    BY <1>4, <2>1, <2>2 DEF reached, base, rest
<1>11. CASE m.readOnly
  BY <1>11
<1>12. CASE ~Overlap(EvalSymlinks(disk, m.source), registry)
  BY <1>6, <1>12 DEF base
<1>13. QED
  BY <1>8, <1>9, <1>10, <1>11, <1>12 DEF InRegistry

\* validateConfiguredMountProtection and the launcher's own two mounts keep Git's
\* registry of worktrees read-only through every mount that reaches it, a linked
\* worktree's own part of it excepted: the proof of RegistryIsProtected.
THEOREM RegistryStaysProtected == Spec => []RegistryIsProtected
<1>1. PlanInv => RegistryIsProtected
  BY PlacesArePaths, ReachedIsOwn DEF RegistryIsProtected
<1>2. QED
  BY PlanInvariance, <1>1, PTL

-----------------------------------------------------------------------------
(* The roles of a finished plan.                                           *)

\* A filesystem role is asked for by one mount only.
LEMMA RoleIsOfOneMount ==
  ASSUME PlanInv, stage = "done", NEW role \in FilesystemRoles,
         NEW wanted \in MountsOf(config, role)
  PROVE  /\ Bind(wanted) \in Binds /\ role \in MergedEntry(Bind(wanted)).roles
         /\ \A m \in Binds : role \in MergedEntry(m).roles => m = Bind(wanted)
<1>1. PICK i \in DOMAIN config.mounts :
        wanted = config.mounts[i] /\ wanted.role = role
  BY DEF MountsOf
<1>2. role # "" /\ role # "host_mcp_channel" /\ role \in ManagedRoles
  BY DEF FilesystemRoles, ManagedRoles
<1>3. wanted \in Range(Configured)
  BY <1>1, <1>2, ConfiguredMounts DEF Range
<1>4. wanted \in Range(logical)
  BY <1>3, LogicalIsTyped
<1>5. Bind(wanted) \in Binds /\ role \in MergedEntry(Bind(wanted)).roles
  BY <1>1, <1>2, <1>4 DEF Binds, MergedEntry
<1>6. ASSUME NEW l \in Range(logical), l.role = role
      PROVE  l = wanted
  <2>1. l # OfRegistry /\ l # OfGitDir
    <3>1. OfRegistry.role = "" /\ OfGitDir.role = ""
      BY DEF OfRegistry, OfGitDir
    <3>2. QED
      BY <1>2, <1>6, <3>1
  <2>2. l \in Range(Configured)
    BY <2>1, LogicalIsTyped
  <2>3. PICK j \in DOMAIN config.mounts : l = config.mounts[j]
    BY <2>2, ConfiguredMounts DEF Range
  <2>4. RepeatsNoRole(config)
    BY ConfigIsTyped DEF RolesAreSound
  <2>5. i = j
    BY <1>1, <1>2, <1>6, <2>3, <2>4 DEF RepeatsNoRole
  <2>6. QED
    BY <1>1, <2>3, <2>5
<1>7. ASSUME NEW m \in Binds, role \in MergedEntry(m).roles
      PROVE  m = Bind(wanted)
  <2>1. PICK l \in Range(logical) : Bind(l) = m /\ l.role = role
    BY <1>7 DEF MergedEntry
  <2>2. QED
    BY <1>6, <2>1
<1>8. QED
  BY <1>5, <1>7

\* The mount that a role is served by contains the one configured for the role,
\* with its access, and there is no second one.
LEMMA RoleIsServed ==
  ASSUME PlanInv, stage = "done", NEW role \in FilesystemRoles,
         NEW wanted \in MountsOf(config, role)
  PROVE  \E m \in MountForRole(role) :
           /\ MountForRole(role) = {m}
           /\ MountContains(m, Bind(wanted)) /\ m.readOnly = wanted.readOnly
<1> DEFINE b == Bind(wanted)
<1>1. /\ b \in Binds /\ role \in MergedEntry(b).roles
      /\ \A m \in Binds : role \in MergedEntry(m).roles => m = b
  BY RoleIsOfOneMount
<1>2. MergedEntry(b).mount = b /\ b.readOnly = wanted.readOnly
  BY DEF MergedEntry, Bind
<1> HIDE DEF b
<1>3. PICK a \in DOMAIN retained : Serves(retained, a, MergedEntry(b))
  BY <1>1, LogicalIsTyped, ConfigIsTyped, NormalizedServes
<1> DEFINE m == retained[a].mount
<1>4. /\ MountContains(m, b) /\ m.readOnly = b.readOnly
      /\ role \in retained[a].roles
  BY <1>1, <1>2, <1>3 DEF Serves
<1>5. ASSUME NEW i \in DOMAIN retained, role \in retained[i].roles
      PROVE  i = a
  <2>1. i = a \/ \E n, o \in Binds : /\ n # o /\ role \in MergedEntry(n).roles
                                     /\ role \in MergedEntry(o).roles
    <3>1. role \in retained[i].roles \cap retained[a].roles
      BY <1>4, <1>5
    <3>2. QED
      BY <3>1, LogicalIsTyped, ConfigIsTyped, NormalizedServes
  <2>2. QED
    BY <1>1, <2>1
<1>6. MountForRole(role) = {m}
  <2>1. {e \in Range(retained) : role \in e.roles} = {retained[a]}
    BY <1>4, <1>5 DEF Range
  <2>2. QED
    BY <2>1 DEF MountForRole
<1>7. QED
  BY <1>2, <1>4, <1>6 DEF b

\* Plan.MountForRole finds, for every filesystem role that is configured, exactly
\* one retained mount, and it shows what the configured one would have shown: the
\* proof of RolesAreServed.
THEOREM EveryRoleIsServed == Spec => []RolesAreServed
<1>1. PlanInv => RolesAreServed
  BY RoleIsServed DEF RolesAreServed
<1>2. QED
  BY PlanInvariance, <1>1, PTL
=============================================================================
