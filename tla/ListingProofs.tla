--------------------------- MODULE ListingProofs ---------------------------
(* Proofs about Listing for any number of resource groups and disks and any  *)
(* page size.                                                                *)
EXTENDS Listing, FiniteSetTheorems, WellFoundedInduction, TLAPS

USE ListingAssumption

-----------------------------------------------------------------------------
(* The place of a disk in the list of all.                                   *)

\* The disks of the first g of the resource groups gs.
OffsetOf(gs) ==
    LET f[g \in 0 .. Len(gs)] == IF g = 0 THEN 0 ELSE f[g - 1] + Len(gs[g]) IN f
Offset == OffsetOf(groups)
Place(p) == Offset[p[1] - 1] + p[2]

(* The inductive invariant.                                                  *)

\* What was returned comes before the place where the next page starts.
BehindStart == mode # "nodeGroup" /\ state = "paging" => \A p \in got : Place(p) <= start

\* Snapshots are listed, and volumes without a kube client, in one group.
OneGroupUnlessCluster == mode # "cluster" => Len(groups) = 1

\* In one group: everything before the start was returned.
CoveredUpTo(i) == \A j \in 1 .. i : groups[1][j] = "listed" => <<1, j>> \in got
OneGroupCovered ==
    Len(groups) = 1 =>
        /\ start <= Len(groups[1])
        /\ state = "paging" => CoveredUpTo(start)
        /\ state = "done" => CoveredUpTo(Len(groups[1]))

\* In one group: a token is that of a disk; for snapshots it may be the end.
OneGroupTokens ==
    Len(groups) = 1 =>
        /\ state = "paging" /\ mode # "snapshots" /\ token # NoToken => start < Len(groups[1])
        /\ state = "error" => OfKind("broken") # {} \/ (mode = "snapshots" /\ start = Len(groups[1]))

\* With any number of groups: as long as a page starts in the first group, everything
\* before its start was returned, and all if it is the last.
InFirstGroup == start = 0 \/ (Len(groups) > 0 /\ start < Len(groups[1]))
FirstGroupCovered ==
    mode = "cluster" /\ InFirstGroup =>
        /\ state = "paging" => \A p \in OfKind("listed") : Place(p) <= start => p \in got
        /\ state = "done" => OfKind("listed") \subseteq got

\* Without a limit there is one page.
OnePageUnlessLimit == mode = "cluster" /\ maxEntries = 0 => token = NoToken

IInv ==
    /\ TypeOK /\ BehindStart /\ OneGroupUnlessCluster /\ OneGroupCovered /\ OneGroupTokens
    /\ FirstGroupCovered /\ OnePageUnlessLimit

\* Disks are missed only if a page starts beyond the first resource group, where the
\* token counts the groups that were skipped a second time (controllerserver.go:737).
FirstGroupListed == state = "done" /\ InFirstGroup => OfKind("listed") \subseteq got

\* Nothing is paged beyond the last disk: with TokenAdvances, paging ends after at most
\* one call more than there are disks, or two if there are none.
StopsAtEnd == [][mode # "nodeGroup" /\ token # NoToken /\ start >= Total => state' # "paging"]_vars

\* A client that asks for all volumes at once gets all, of every resource group.
UnlimitedListed == maxEntries = 0 => AllListed

-----------------------------------------------------------------------------
(* Naturals, and what the recursive functions compute.                       *)

\* A set of natural numbers has a least one.
LEMMA LeastNatural ==
    ASSUME NEW S \in SUBSET Nat, S # {}
    PROVE  \E i \in S : \A j \in S : i <= j
<1> DEFINE less == OpToRel(<, Nat)
<1>1. \A i, j \in Nat : <<i, j>> \in less <=> i < j
  BY DEF OpToRel
<1>2. IsWellFoundedOn(less, Nat)
  BY NatLessThanWellFounded
<1> HIDE DEF less
<1>3. PICK i \in S : \A j \in S : ~(<<j, i>> \in less)
  BY <1>2, WFMin
<1>4. \A j \in S : ~(j < i)
  BY <1>1, <1>3, Zenon
<1>5. \A j \in S : i <= j
  BY <1>4
<1> QED BY <1>5

\* A set that has 0, and with each number below n its successor, has all up to n.
LEMMA UpTo ==
    ASSUME NEW n \in Nat, NEW S, 0 \in S, \A m \in 0 .. n : m + 1 \in 0 .. n /\ m \in S => m + 1 \in S
    PROVE  0 .. n \subseteq S
<1> DEFINE T == {m \in 0 .. n : m \notin S}
<1> SUFFICES ASSUME T # {} PROVE FALSE
  OBVIOUS
<1>1. PICK m \in T : \A j \in T : m <= j
  <2>1. T \in SUBSET Nat
    OBVIOUS
  <2> HIDE DEF T
  <2> QED BY <2>1, LeastNatural
<1>2. m \in 1 .. n /\ m - 1 \in 0 .. n /\ m - 1 \in S
  BY <1>1
<1> QED BY <1>1, <1>2

\* The number of disks before a group is a sum.
LEMMA OffsetUnfolds ==
    ASSUME NEW gs \in Seq(Seq(Kinds))
    PROVE  OffsetOf(gs) = [g \in 0 .. Len(gs) |->
                            IF g = 0 THEN 0 ELSE OffsetOf(gs)[g - 1] + Len(gs[g])]
<1> DEFINE Is(f, n) == f = [g \in 0 .. n |-> IF g = 0 THEN 0 ELSE f[g - 1] + Len(gs[g])]
           S == {n \in 0 .. Len(gs) : \E f : Is(f, n)}
<1>1. Len(gs) \in Nat
  OBVIOUS
<1>2. 0 \in S
  <2>1. Is([g \in 0 .. 0 |-> 0], 0)
    OBVIOUS
  <2>2. \E f : Is(f, 0)
    <3> HIDE DEF Is
    <3> QED BY <2>1
  <2> QED BY <1>1, <2>2
<1>3. ASSUME NEW m \in 0 .. Len(gs), m + 1 \in 0 .. Len(gs), m \in S
      PROVE  m + 1 \in S
  <2>1. PICK f : Is(f, m)
    BY <1>3
  <2> DEFINE h == [g \in 0 .. (m + 1) |-> IF g = m + 1 THEN f[m] + Len(gs[m + 1]) ELSE f[g]]
  <2>2. \A g \in 0 .. m : f[g] = IF g = 0 THEN 0 ELSE f[g - 1] + Len(gs[g])
    BY <2>1
  <2>3. ASSUME NEW g \in 0 .. (m + 1)
        PROVE  h[g] = IF g = 0 THEN 0 ELSE h[g - 1] + Len(gs[g])
    <3>1. CASE g = m + 1
      BY <3>1
    <3>2. CASE g # m + 1
      <4>1. g \in 0 .. m /\ (g # 0 => g - 1 \in 0 .. m)
        BY <3>2
      <4>2. h[g] = f[g] /\ (g # 0 => h[g - 1] = f[g - 1])
        BY <4>1
      <4> QED BY <2>2, <4>1, <4>2
    <3> QED BY <3>1, <3>2
  <2>4. Is(h, m + 1)
    BY <2>3
  <2> QED BY <1>3, <2>4
<1>4. Len(gs) \in S
  <2> HIDE DEF S
  <2>1. \A m \in 0 .. Len(gs) : m + 1 \in 0 .. Len(gs) /\ m \in S => m + 1 \in S
    BY <1>3
  <2>2. 0 .. Len(gs) \subseteq S
    BY <1>1, <1>2, <2>1, UpTo
  <2> QED BY <1>1, <2>2
<1>5. \E f : Is(f, Len(gs))
  BY <1>4
<1>6. OffsetOf(gs) = CHOOSE f : Is(f, Len(gs))
  BY DEF OffsetOf
<1>7. Is(OffsetOf(gs), Len(gs))
  <2> HIDE DEF Is
  <2> QED BY <1>5, <1>6
<1> QED BY <1>7

\* What the loop over the resource groups has is, group after group, what VisitGroup
\* makes of it.
LEMMA VisitedUnfolds ==
    ASSUME TypeOK
    PROVE  /\ Visited[0] = [entries |-> {}, visited |-> 0, complete |-> TRUE,
                            found |-> FALSE, failed |-> FALSE]
           /\ \A g \in 1 .. Len(groups) : Visited[g] = VisitGroup(Visited[g - 1], g)
<1> DEFINE base == [entries |-> {}, visited |-> 0, complete |-> TRUE,
                    found |-> FALSE, failed |-> FALSE]
           Is(f, n) == f = [g \in 0 .. n |-> IF g = 0 THEN base ELSE VisitGroup(f[g - 1], g)]
           S == {n \in 0 .. Len(groups) : \E f : Is(f, n)}
<1>1. Len(groups) \in Nat
  BY DEF TypeOK
<1>6. Visited = CHOOSE f : Is(f, Len(groups))
  BY DEF Visited
<1> HIDE DEF base
<1>2. 0 \in S
  <2>1. Is([g \in 0 .. 0 |-> base], 0)
    OBVIOUS
  <2>2. \E f : Is(f, 0)
    <3> HIDE DEF Is
    <3> QED BY <2>1
  <2> QED BY <1>1, <2>2
<1>3. ASSUME NEW m \in 0 .. Len(groups), m + 1 \in 0 .. Len(groups), m \in S
      PROVE  m + 1 \in S
  <2>1. PICK f : Is(f, m)
    BY <1>3
  <2> DEFINE h == [g \in 0 .. (m + 1) |-> IF g = m + 1 THEN VisitGroup(f[m], m + 1) ELSE f[g]]
  <2>2. \A g \in 0 .. m : f[g] = IF g = 0 THEN base ELSE VisitGroup(f[g - 1], g)
    BY <2>1
  <2>3. ASSUME NEW g \in 0 .. (m + 1)
        PROVE  h[g] = IF g = 0 THEN base ELSE VisitGroup(h[g - 1], g)
    <3>1. CASE g = m + 1
      <4>1. g # 0 /\ h[g] = VisitGroup(f[m], g) /\ g - 1 = m /\ h[m] = f[m]
        BY <3>1
      <4> QED BY <4>1
    <3>2. CASE g # m + 1
      <4>1. g \in 0 .. m /\ (g # 0 => g - 1 \in 0 .. m)
        BY <3>2
      <4>2. h[g] = f[g] /\ (g # 0 => h[g - 1] = f[g - 1])
        BY <4>1
      <4> QED BY <2>2, <4>1, <4>2
    <3> QED BY <3>1, <3>2
  <2>4. Is(h, m + 1)
    BY <2>3
  <2>5. \E e : Is(e, m + 1)
    <3> HIDE DEF Is, h
    <3> QED BY <2>4
  <2> QED BY <1>3, <2>5
<1>4. Len(groups) \in S
  <2> HIDE DEF S
  <2>1. \A m \in 0 .. Len(groups) : m + 1 \in 0 .. Len(groups) /\ m \in S => m + 1 \in S
    BY <1>3
  <2>2. 0 .. Len(groups) \subseteq S
    BY <1>1, <1>2, <2>1, UpTo
  <2> QED BY <1>1, <2>2
<1>5. \E f : Is(f, Len(groups))
  BY <1>4
<1>7. Is(Visited, Len(groups))
  <2> HIDE DEF Is
  <2> QED BY <1>5, <1>6
<1>8. Visited[0] = base /\ \A g \in 1 .. Len(groups) : Visited[g] = VisitGroup(Visited[g - 1], g)
  <2> DEFINE body(g) == IF g = 0 THEN base ELSE VisitGroup(Visited[g - 1], g)
  <2>1. Visited = [g \in 0 .. Len(groups) |-> body(g)]
    BY <1>7
  <2>2. 0 \in 0 .. Len(groups) /\ \A g \in 1 .. Len(groups) : g \in 0 .. Len(groups) /\ g # 0
    BY <1>1
  <2> HIDE DEF body
  <2>3. Visited[0] = body(0) /\ \A g \in 1 .. Len(groups) : Visited[g] = body(g)
    BY <2>1, <2>2
  <2> QED BY <2>2, <2>3 DEF body
<1> QED BY <1>8 DEF base

\* The places of the groups.
LEMMA Offsets ==
    ASSUME TypeOK
    PROVE  /\ Len(groups) \in Nat /\ \A g \in 1 .. Len(groups) : Len(groups[g]) \in Nat
           /\ Offset[0] = 0 /\ \A g \in 0 .. Len(groups) : Offset[g] \in Nat
           /\ \A g \in 1 .. Len(groups) : Offset[g] = Offset[g - 1] + Len(groups[g])
<1> DEFINE f == OffsetOf(groups)
           S == {g \in 0 .. Len(groups) : f[g] \in Nat}
<1>1. groups \in Seq(Seq(Kinds))
  BY DEF TypeOK
<1>2. Len(groups) \in Nat /\ \A g \in 1 .. Len(groups) : Len(groups[g]) \in Nat
  BY <1>1
<1>3. f = [g \in 0 .. Len(groups) |-> IF g = 0 THEN 0 ELSE f[g - 1] + Len(groups[g])]
  BY <1>1, OffsetUnfolds
<1> HIDE DEF f
<1>4. f[0] = 0 /\ \A g \in 1 .. Len(groups) : f[g] = f[g - 1] + Len(groups[g])
  BY <1>2, <1>3
<1>5. 0 .. Len(groups) \subseteq S
  <2>1. 0 \in S
    BY <1>2, <1>4
  <2>2. \A m \in 0 .. Len(groups) : m + 1 \in 0 .. Len(groups) /\ m \in S => m + 1 \in S
    <3> SUFFICES ASSUME NEW m \in 0 .. Len(groups), m + 1 \in 0 .. Len(groups), m \in S
                 PROVE  m + 1 \in S
      OBVIOUS
    <3>1. m + 1 \in 1 .. Len(groups) /\ (m + 1) - 1 = m
      BY <1>2
    <3>2. f[m + 1] = f[m] + Len(groups[m + 1]) /\ Len(groups[m + 1]) \in Nat
      BY <1>2, <1>4, <3>1
    <3> QED BY <3>2
  <2> HIDE DEF S
  <2> QED BY <1>2, <2>1, <2>2, UpTo
<1> QED BY <1>2, <1>4, <1>5 DEF f, Offset

-----------------------------------------------------------------------------
(* The loop over the disks of a group.                                       *)

\* Pairs are what they are made of.
LEMMA PositionPairs ==
    ASSUME TypeOK
    PROVE  /\ \A p \in Positions : p = <<p[1], p[2]>> /\ p[1] \in 1 .. Len(groups) /\ p[2] \in 1 .. Len(groups[p[1]])
           /\ \A g \in 1 .. Len(groups) : \A i \in 1 .. Len(groups[g]) : <<g, i>> \in Positions
<1>1. groups \in Seq(Seq(Kinds))
  BY DEF TypeOK
<1>2. DOMAIN groups = 1 .. Len(groups) /\ \A g \in 1 .. Len(groups) : DOMAIN groups[g] = 1 .. Len(groups[g])
  BY <1>1
<1> QED BY <1>2 DEF Positions

\* The place of a position is a number; in one group it is that of the disk.
LEMMA Places ==
    ASSUME TypeOK, NEW p \in Positions
    PROVE  Place(p) \in Nat /\ (Len(groups) = 1 => Place(p) = p[2])
<1>1. p[1] \in 1 .. Len(groups) /\ p[2] \in 1 .. Len(groups[p[1]])
  BY PositionPairs
<1>2. p[1] - 1 \in 0 .. Len(groups) /\ p[2] \in Nat
  BY <1>1, Offsets
<1>3. Offset[p[1] - 1] \in Nat
  BY <1>2, Offsets
<1>4. Len(groups) = 1 => p[1] - 1 = 0
  BY <1>1
<1>5. Len(groups) = 1 => Offset[p[1] - 1] = 0
  BY <1>4, Offsets
<1> QED BY <1>2, <1>3, <1>5 DEF Place

\* What a part of a group adds: positions of that part, finitely many.
LEMMA BetweenFacts ==
    ASSUME TypeOK, NEW g \in 1 .. Len(groups), NEW from \in Nat, NEW to \in Nat, to <= Len(groups[g])
    PROVE  /\ IsFiniteSet(Between(g, from, to)) /\ Cardinality(Between(g, from, to)) \in Nat
           /\ Between(g, from, to) \subseteq Positions
           /\ \A p \in Between(g, from, to) : p[1] = g /\ p[2] \in from + 1 .. to /\ p = <<g, p[2]>>
           /\ \A i \in from + 1 .. to : groups[g][i] = "listed" => <<g, i>> \in Between(g, from, to)
<1> DEFINE B == Between(g, from, to)
           f == [p \in B |-> p[2]]
<1>1. Len(groups[g]) \in Nat
  BY Offsets
<1>2. /\ \A p \in B : p[1] = g /\ p[2] \in from + 1 .. to /\ p = <<g, p[2]>>
      /\ \A i \in from + 1 .. to : groups[g][i] = "listed" => <<g, i>> \in B
  BY DEF Between
<1> HIDE DEF B
<1>3. B \subseteq Positions
  <2> SUFFICES ASSUME NEW p \in B PROVE p \in Positions
    OBVIOUS
  <2>1. p = <<g, p[2]>> /\ p[2] \in 1 .. Len(groups[g])
    BY <1>1, <1>2
  <2> QED BY <2>1, PositionPairs
<1>4. f \in Injection(B, from + 1 .. to)
  <2>1. f \in [B -> from + 1 .. to]
    BY <1>2
  <2>2. ASSUME NEW p \in B, NEW q \in B, f[p] = f[q] PROVE p = q
    <3>1. p[2] = q[2]
      BY <2>2
    <3> QED BY <1>2, <3>1
  <2> HIDE DEF f
  <2> QED BY <2>1, <2>2 DEF Injection, IsInjective
<1>5. IsFiniteSet(from + 1 .. to)
  BY FS_Interval
<1>6. IsFiniteSet(B)
  <2> HIDE DEF f
  <2> QED BY <1>4, <1>5, FS_Injection
<1>7. Cardinality(B) \in Nat
  BY <1>6, FS_CardinalityType
<1> QED BY <1>2, <1>3, <1>6, <1>7 DEF B

\* The loop over the disks of a group stops, at the end or when it has enough.
LEMMA StopFacts ==
    ASSUME TypeOK, NEW g \in 1 .. Len(groups), NEW from \in Nat, from <= Len(groups[g]),
           NEW have \in Nat, NEW max \in Int
    PROVE  LET i == Stop(g, from, have, max) IN
           /\ i \in from .. Len(groups[g])
           /\ i < Len(groups[g]) => max > 0 /\ have + Cardinality(Between(g, from, i)) >= max
<1> DEFINE n == Len(groups[g])
           Enough(i) == i = n \/ (max > 0 /\ have + Cardinality(Between(g, from, i)) >= max)
           NotYet(j) == max > 0 => have + Cardinality(Between(g, from, j)) < max
           S == {i \in from .. n : Enough(i)}
<1>1. n \in Nat
  BY Offsets
<1>2. \A i \in from .. n : Cardinality(Between(g, from, i)) \in Nat
  <2> SUFFICES ASSUME NEW i \in from .. n PROVE Cardinality(Between(g, from, i)) \in Nat
    OBVIOUS
  <2>1. i \in Nat /\ i <= Len(groups[g])
    BY <1>1
  <2> QED BY <2>1, BetweenFacts
<1>3. \A i \in from .. n : Enough(i) \/ NotYet(i)
  BY <1>1, <1>2
<1>4. n \in S /\ S \in SUBSET Nat
  BY <1>1
<1> DEFINE Is(i) == Enough(i) /\ \A j \in from .. i - 1 : NotYet(j)
<1>5. \E i \in from .. n : Is(i)
  <2>1. PICK i \in S : \A j \in S : i <= j
    <3> HIDE DEF S
    <3> QED BY <1>4, LeastNatural
  <2>2. ASSUME NEW j \in from .. i - 1 PROVE NotYet(j)
    <3>1. j \in from .. n /\ ~(i <= j)
      BY <1>1, <2>1
    <3>2. ~Enough(j)
      BY <2>1, <3>1
    <3> HIDE DEF Enough, NotYet
    <3> QED BY <1>3, <3>1, <3>2
  <2>3. i \in from .. n /\ Enough(i)
    BY <2>1
  <2>4. Is(i)
    BY <2>2, <2>3
  <2> HIDE DEF Is
  <2> QED BY <2>3, <2>4
<1>6. Stop(g, from, have, max) = CHOOSE i \in from .. n : Is(i)
  BY DEF Stop
<1>7. Stop(g, from, have, max) \in from .. n /\ Is(Stop(g, from, have, max))
  <2> HIDE DEF Is
  <2> QED BY <1>5, <1>6
<1>8. Enough(Stop(g, from, have, max))
  BY <1>7
<1> QED BY <1>1, <1>7, <1>8

\* One group: past its end, an entry that cannot be made, or the disks from the start
\* to some disk; if that is not the last one there are entries.
Listed(list, g, entries, from, max) ==
    LET n == Len(groups[g]) IN
    \/ list.status = "range" /\ list.visited = n /\ from > 0 /\ from >= n
    \/ list.status = "failed" /\ OfKind("broken") # {}
    \/ /\ list.status = "ok" /\ from <= n
       /\ \E i \in from .. n :
             /\ list.visited = i - from /\ list.complete = (i = n)
             /\ list.entries = entries \cup Between(g, from, i)
             /\ i < n => max > 0 /\ list.entries # {}

\* That is what listVolumesByResourceGroup returns.
LEMMA GroupListed ==
    ASSUME TypeOK, NEW g \in 1 .. Len(groups), NEW from \in Nat, NEW max \in Int,
           NEW entries \in SUBSET Positions, IsFiniteSet(entries)
    PROVE  Listed(listVolumesByResourceGroup(g, entries, from, max), g, entries, from, max)
<1> DEFINE n == Len(groups[g])
           i == Stop(g, from, Cardinality(entries), max)
           new == Between(g, from, i)
           list == listVolumesByResourceGroup(g, entries, from, max)
           past == from > 0 /\ from >= n
           broken == new \cap OfKind("broken") # {}
<1>1. n \in Nat /\ Cardinality(entries) \in Nat
  BY Offsets, FS_CardinalityType
<1>2. list = CASE past -> [status |-> "range", visited |-> n, complete |-> FALSE, entries |-> {}]
               [] ~past /\ broken -> [status |-> "failed", visited |-> 0, complete |-> FALSE, entries |-> {}]
               [] OTHER -> [status |-> "ok", visited |-> i - from, complete |-> i = n,
                            entries |-> entries \cup new]
  <2>1. (IF from < 0 THEN 0 ELSE from) = from
    OBVIOUS
  <2> QED BY <2>1 DEF listVolumesByResourceGroup
<1>3. ASSUME ~past
      PROVE  /\ from <= n /\ i \in from .. n
             /\ i < n => max > 0 /\ entries \cup new # {}
  <2>1. from <= n
    BY <1>1, <1>3
  <2> HIDE DEF n, i
  <2>2. i \in from .. n /\ (i < n => max > 0 /\ Cardinality(entries) + Cardinality(new) >= max)
    BY <1>1, <2>1, StopFacts DEF n, i
  <2>3. Cardinality({}) = 0
    BY FS_EmptySet
  <2>4. entries \cup new = {} => Cardinality(entries) = 0 /\ Cardinality(new) = 0
    <3>1. entries \cup new = {} => entries = {} /\ new = {}
      OBVIOUS
    <3> HIDE DEF new
    <3> QED BY <2>3, <3>1
  <2> HIDE DEF new
  <2> QED BY <1>1, <2>1, <2>2, <2>4
<1> HIDE DEF list, i, new, n
<1>4. CASE past
  <2>1. list = [status |-> "range", visited |-> n, complete |-> FALSE, entries |-> {}]
    <3> HIDE DEF past, broken
    <3> QED BY <1>2, <1>4
  <2>2. list.status = "range" /\ list.visited = n
    BY <2>1
  <2> QED BY <1>4, <2>2 DEF list, n, Listed
<1>5. CASE ~past /\ broken
  <2>1. list.status = "failed"
    <3> HIDE DEF past, broken
    <3> QED BY <1>2, <1>5
  <2> QED BY <1>5, <2>1 DEF list, Listed
<1>6. CASE ~past /\ ~broken
  <2>1. list = [status |-> "ok", visited |-> i - from, complete |-> i = n, entries |-> entries \cup new]
    BY <1>2, <1>6
  <2> HIDE DEF past, broken
  <2>2. /\ list.status = "ok" /\ list.visited = i - from /\ list.complete = (i = n)
        /\ list.entries = entries \cup new
    BY <2>1
  <2>3. from <= n /\ i \in from .. n /\ (i < n => max > 0 /\ list.entries # {})
    BY <1>3, <1>6, <2>2
  <2> QED BY <2>2, <2>3 DEF list, n, new, Listed
<1> QED BY <1>4, <1>5, <1>6

-----------------------------------------------------------------------------
(* The loop over the resource groups.                                        *)

Runs == [entries : SUBSET Positions, visited : Nat, complete : BOOLEAN,
         found : BOOLEAN, failed : BOOLEAN]

\* What the loop has when it has got to the end of group g: as long as the start is
\* not found, what was visited is what it skipped; the entries come after the start
\* and before the next one; it only stops early with entries.
RunInv(g, run) ==
    /\ run \in Runs /\ IsFiniteSet(run.entries)
    /\ run.failed => OfKind("broken") # {}
    /\ ~run.failed =>
        /\ ~run.found =>
            run.entries = {} /\ run.complete /\ run.visited = Offset[g] /\ run.visited <= start
        /\ run.found =>
            start <= Offset[g] /\ (run.complete => Offset[g] <= start + run.visited)
        /\ \A p \in run.entries : start < Place(p) /\ Place(p) <= start + run.visited
        /\ ~run.complete => maxEntries > 0 /\ run.entries # {}

\* One turn of the loop makes v of run: there are entries enough, the group fails, it
\* is skipped, or it is listed up to disk i.
TurnTo(v, run, g, from) ==
    LET n == Len(groups[g]) IN
    \/ maxEntries > 0 /\ run.entries # {} /\ v = [run EXCEPT !.complete = FALSE]
    \/ OfKind("broken") # {} /\ v = [run EXCEPT !.failed = TRUE]
    \/ from > 0 /\ from >= n /\ v = [run EXCEPT !.visited = @ + n]
    \/ /\ from <= n
       /\ \E i \in from .. n :
             /\ v = [run EXCEPT !.visited = @ + (i - from), !.found = TRUE,
                                !.entries = @ \cup Between(g, from, i), !.complete = (i = n)]
             /\ i < n => maxEntries > 0 /\ run.entries \cup Between(g, from, i) # {}

\* One turn of the loop that is neither over nor failed is of that form.
LEMMA Turn ==
    ASSUME TypeOK, NEW g \in 1 .. Len(groups), NEW run \in Runs, IsFiniteSet(run.entries),
           ~run.failed, run.complete, NEW from \in Nat,
           from = IF run.found THEN 0 ELSE start - run.visited
    PROVE  TurnTo(VisitGroup(run, g), run, g, from)
<1> DEFINE max == maxEntries - Cardinality(run.entries)
           list == listVolumesByResourceGroup(g, run.entries, from, max)
           v == VisitGroup(run, g)
           n == Len(groups[g])
           full == maxEntries > 0 /\ max <= 0
<1>1. Cardinality(run.entries) \in Nat /\ maxEntries \in Nat /\ max \in Int
  BY FS_CardinalityType DEF TypeOK
<1>2. v = IF full THEN [run EXCEPT !.complete = FALSE]
          ELSE CASE list.status = "failed" -> [run EXCEPT !.failed = TRUE]
                 [] list.status = "range" -> [run EXCEPT !.visited = @ + list.visited]
                 [] OTHER -> [run EXCEPT !.visited = @ + list.visited, !.found = TRUE,
                                         !.entries = list.entries, !.complete = list.complete]
  BY DEF VisitGroup
<1>3. full => maxEntries > 0 /\ run.entries # {}
  BY <1>1, FS_EmptySet
<1>4. Listed(list, g, run.entries, from, max)
  <2> DEFINE entries == run.entries
  <2> HIDE DEF max, entries
  <2>1. IsFiniteSet(entries) /\ entries \in SUBSET Positions
    BY DEF entries, Runs
  <2>2. Listed(listVolumesByResourceGroup(g, entries, from, max), g, entries, from, max)
    BY <1>1, <2>1, GroupListed
  <2> QED BY <2>2 DEF entries
<1>5. max > 0 => maxEntries > 0
  BY <1>1
<1> HIDE DEF max, list, v, n, full
<1> QED BY <1>2, <1>3, <1>4, <1>5 DEF v, n, Listed, TurnTo

\* The start of a page is a number.
LEMMA StartIsNat == ASSUME TypeOK PROVE start \in Nat
BY DEF TypeOK, start, NoToken

\* Every turn keeps that.
LEMMA TurnKeeps ==
    ASSUME TypeOK, NEW g \in 1 .. Len(groups), NEW run, RunInv(g - 1, run)
    PROVE  RunInv(g, VisitGroup(run, g))
<1> DEFINE v == VisitGroup(run, g)
           n == Len(groups[g])
           from == IF run.found THEN 0 ELSE start - run.visited
           before == Offset[g - 1]
<1>1. /\ n \in Nat /\ before \in Nat /\ Offset[g] \in Nat /\ Offset[g] = before + n
      /\ start \in Nat
  <2>1. g - 1 \in 0 .. Len(groups) /\ g \in 0 .. Len(groups)
    BY Offsets
  <2> QED BY <2>1, Offsets, StartIsNat
<1>2. run \in Runs /\ IsFiniteSet(run.entries) /\ run.visited \in Nat /\ run.entries \subseteq Positions
  BY DEF RunInv, Runs
<1>3. CASE run.failed \/ ~run.complete
  <2>1. v = run
    BY <1>3 DEF VisitGroup
  <2> HIDE DEF v
  <2>2. ~run.failed => run.found /\ start <= Offset[g]
    BY <1>1, <1>3 DEF RunInv
  <2> QED BY <1>3, <2>1, <2>2 DEF RunInv, v
<1>4. CASE ~run.failed /\ run.complete
  <2>1. /\ ~run.found => run.entries = {} /\ run.visited = before /\ run.visited <= start
        /\ run.found => start <= before /\ before <= start + run.visited
        /\ \A p \in run.entries : start < Place(p) /\ Place(p) <= start + run.visited
    BY <1>4 DEF RunInv
  <2>2. from \in Nat
    BY <1>1, <1>2, <2>1
  <2>3. TurnTo(v, run, g, from)
    <3> HIDE DEF from
    <3>1. from = IF run.found THEN 0 ELSE start - run.visited
      BY DEF from
    <3> QED BY <1>2, <1>4, <2>2, <3>1, Turn
  <2>4. from = IF run.found THEN 0 ELSE start - run.visited
    OBVIOUS
  <2> HIDE DEF v, n, from, before
  <2>5. CASE maxEntries > 0 /\ run.entries # {} /\ v = [run EXCEPT !.complete = FALSE]
    <3>1. /\ v \in Runs /\ v.entries = run.entries /\ v.visited = run.visited
          /\ v.found = run.found /\ v.failed = run.failed /\ v.complete = FALSE
      BY <1>2, <2>5 DEF Runs
    <3>2. run.found /\ start <= Offset[g]
      BY <1>1, <2>1, <2>5
    <3> QED BY <1>2, <1>4, <2>1, <2>5, <3>1, <3>2 DEF RunInv, v
  <2>6. CASE OfKind("broken") # {} /\ v = [run EXCEPT !.failed = TRUE]
    <3>1. v \in Runs /\ v.entries = run.entries /\ v.failed
      BY <1>2, <2>6 DEF Runs
    <3> QED BY <1>2, <2>6, <3>1 DEF RunInv, v
  <2>7. CASE from > 0 /\ from >= n /\ v = [run EXCEPT !.visited = @ + n]
    <3>1. /\ v \in Runs /\ v.entries = run.entries /\ v.visited = run.visited + n
          /\ v.found = run.found /\ v.failed = run.failed /\ v.complete = run.complete
      <4> DEFINE w == run.visited + n
      <4>1. w \in Nat /\ v = [run EXCEPT !.visited = w] /\ run \in Runs
        BY <1>1, <1>2, <2>7
      <4>2. v.visited = run.visited + n
        BY <4>1 DEF Runs
      <4> HIDE DEF w
      <4> QED BY <4>1, <4>2 DEF Runs
    <3>2. ~run.found
      BY <2>4, <2>7
    <3>3. v.entries = {} /\ v.visited = Offset[g] /\ v.visited <= start
      BY <1>1, <1>2, <2>1, <2>4, <2>7, <3>1, <3>2
    <3> QED BY <1>2, <1>4, <3>1, <3>2, <3>3 DEF RunInv, v
  <2>8. ASSUME from <= n, NEW i \in from .. n,
               v = [run EXCEPT !.visited = @ + (i - from), !.found = TRUE,
                               !.entries = @ \cup Between(g, from, i), !.complete = (i = n)],
               i < n => maxEntries > 0 /\ run.entries \cup Between(g, from, i) # {}
        PROVE  RunInv(g, v)
    <3> DEFINE new == Between(g, from, i)
    <3>1. i \in Nat /\ i <= n /\ i - from \in Nat
      BY <1>1, <2>2, <2>8
    <3>2. /\ IsFiniteSet(new) /\ new \subseteq Positions
          /\ \A p \in new : p[1] = g /\ p[2] \in from + 1 .. i
      BY <2>2, <3>1, BetweenFacts DEF n
    <3> HIDE DEF new
    <3>3. /\ v.visited = run.visited + (i - from) /\ v.found = TRUE /\ v.failed = FALSE
          /\ v.entries = run.entries \cup new /\ v.complete = (i = n)
          /\ v \in Runs
      <4>1. v = [run EXCEPT !.visited = run.visited + (i - from), !.found = TRUE,
                            !.entries = run.entries \cup new, !.complete = (i = n)]
        BY <2>8 DEF new
      <4>2. run.visited + (i - from) \in Nat /\ run.entries \cup new \in SUBSET Positions
        BY <1>2, <3>1, <3>2
      <4> QED BY <1>2, <1>4, <4>1, <4>2 DEF Runs
    <3>4. IsFiniteSet(v.entries)
      <4> DEFINE old == run.entries
      <4>1. IsFiniteSet(old)
        BY <1>2
      <4> HIDE DEF old
      <4>2. IsFiniteSet(old \cup new)
        BY <3>2, <4>1, FS_Union
      <4> QED BY <3>3, <4>2 DEF old
    <3>a. /\ start <= before + from /\ before + from <= start + run.visited
          /\ start <= before + n
      <4>1. CASE run.found
        BY <1>1, <1>2, <2>1, <2>4, <4>1
      <4>2. CASE ~run.found
        BY <1>1, <1>2, <2>1, <2>4, <2>8, <4>2
      <4> QED BY <4>1, <4>2
    <3>5. start <= Offset[g] /\ (i = n => Offset[g] <= start + v.visited)
      BY <1>1, <1>2, <2>2, <3>1, <3>3, <3>a
    <3>6. ASSUME NEW p \in v.entries
          PROVE  start < Place(p) /\ Place(p) <= start + v.visited
      <4>1. CASE p \in run.entries
        <5>1. start < Place(p) /\ Place(p) <= start + run.visited
          BY <2>1, <4>1
        <5>2. p \in Positions
          BY <1>2, <4>1
        <5>3. Place(p) \in Int
          BY <5>2, Places
        <5> QED BY <1>1, <1>2, <3>1, <3>3, <5>1, <5>3
      <4>2. CASE p \in new
        <5>1. Place(p) = before + p[2] /\ p[2] \in from + 1 .. i
          BY <3>2, <4>2 DEF Place, before
        <5> DEFINE j == p[2]
                   w == run.visited
        <5>2. j \in Nat /\ from < j /\ j <= i /\ Place(p) = before + j
          BY <2>2, <3>1, <5>1
        <5>3. w \in Nat /\ v.visited = w + (i - from) /\ before + from <= start + w
          BY <1>2, <3>3, <3>a
        <5> HIDE DEF j, w
        <5>4. start < before + j /\ before + j <= start + (w + (i - from))
          BY <1>1, <2>2, <3>1, <3>a, <5>2, <5>3
        <5> QED BY <5>2, <5>3, <5>4
      <4> QED BY <3>3, <3>6, <4>1, <4>2
    <3>7. ~v.complete => maxEntries > 0 /\ v.entries # {}
      <4>1. i # n => i < n
        BY <1>1, <3>1
      <4> QED BY <2>8, <3>3, <4>1, Zenon DEF new
    <3> QED BY <3>3, <3>4, <3>5, <3>6, <3>7 DEF RunInv
  <2> QED BY <2>3, <2>5, <2>6, <2>7, <2>8 DEF v, n, TurnTo
<1> QED BY <1>2, <1>3, <1>4 DEF Runs

\* In the order of the groups their places grow.
LEMMA PlacesGrow ==
    ASSUME TypeOK, NEW p \in Positions, NEW g \in 0 .. Len(groups)
    PROVE  /\ p[1] <= g => Place(p) <= Offset[g]
           /\ p[1] > g => Place(p) > Offset[g]
<1> DEFINE k == p[1]
           N == Len(groups)
           Grows(a, b) == a <= b => Offset[a] <= Offset[b]
           S(a) == {b \in 0 .. N : Grows(a, b)}
<1>1. N \in Nat /\ k \in 1 .. N /\ k - 1 \in 0 .. N /\ k \in 0 .. N /\ p[2] \in 1 .. Len(groups[k])
  BY PositionPairs, Offsets
<1>2. \A a \in 0 .. N : Offset[a] \in Nat
  BY Offsets
<1>3. ASSUME NEW a \in 0 .. N PROVE \A b \in 0 .. N : Grows(a, b)
  <2>1. 0 \in S(a)
    <3>1. a <= 0 => a = 0
      BY <1>1
    <3>2. Offset[0] <= Offset[0] /\ 0 \in 0 .. N
      BY <1>1, <1>2
    <3> QED BY <3>1, <3>2
  <2>2. \A b \in 0 .. N : b + 1 \in 0 .. N /\ b \in S(a) => b + 1 \in S(a)
    <3> SUFFICES ASSUME NEW b \in 0 .. N, b + 1 \in 0 .. N, Grows(a, b)
                 PROVE  Grows(a, b + 1)
      OBVIOUS
    <3>1. b + 1 \in 1 .. N /\ (b + 1) - 1 = b
      BY <1>1
    <3>2. Offset[b + 1] = Offset[b] + Len(groups[b + 1]) /\ Len(groups[b + 1]) \in Nat
      <4>1. Offset[b + 1] = Offset[(b + 1) - 1] + Len(groups[b + 1])
        BY <3>1, Offsets
      <4> QED BY <3>1, <4>1, Offsets
    <3>3. CASE a <= b
      <4>1. Offset[a] <= Offset[b] /\ Offset[a] \in Nat /\ Offset[b] \in Nat
        BY <1>2, <3>3
      <4> QED BY <3>2, <4>1
    <3>4. CASE ~(a <= b)
      <4>1. a <= b + 1 => a = b + 1
        BY <1>1, <3>4
      <4>2. Offset[b + 1] <= Offset[b + 1]
        BY <1>2
      <4> QED BY <4>1, <4>2
    <3> QED BY <3>3, <3>4
  <2>3. 0 .. N \subseteq S(a)
    <3> DEFINE T == S(a)
    <3>1. 0 \in T /\ \A b \in 0 .. N : b + 1 \in 0 .. N /\ b \in T => b + 1 \in T
      BY <2>1, <2>2
    <3> HIDE DEF T, N
    <3>2. 0 .. N \subseteq T
      BY <1>1, <3>1, UpTo
    <3> QED BY <3>2 DEF T
  <2> QED BY <2>3
<1>4. Offset[k] = Offset[k - 1] + Len(groups[k]) /\ Len(groups[k]) \in Nat
  BY <1>1, Offsets
<1>5. Offset[k - 1] < Place(p) /\ Place(p) <= Offset[k] /\ Place(p) \in Nat
  <2> DEFINE j == p[2]
             a == Offset[k - 1]
             b == Offset[k]
             m == Len(groups[k])
  <2>1. a \in Nat /\ b \in Nat /\ b = a + m /\ m \in Nat /\ j \in 1 .. m /\ Place(p) = a + j
    BY <1>1, <1>2, <1>4 DEF Place
  <2> HIDE DEF a, b, j, m
  <2>2. a < a + j /\ a + j <= b /\ a + j \in Nat
    BY <2>1
  <2> QED BY <2>1, <2>2 DEF a, b
<1>6. Grows(k, g) /\ Grows(g, k - 1)
  <2> HIDE DEF Grows, k, N
  <2> QED BY <1>1, <1>3 DEF N
<1>7. k <= g => Place(p) <= Offset[g]
  BY <1>1, <1>2, <1>5, <1>6
<1>8. k > g => Place(p) > Offset[g]
  <2>1. k > g => g <= k - 1
    BY <1>1
  <2> QED BY <1>1, <1>2, <1>5, <1>6, <2>1
<1> QED BY <1>7, <1>8

\* From a start in the first group the loop skips nothing: at the end of group g it has
\* what is to be listed up to the disk it has got to.
RunCovers(g, run) ==
    InFirstGroup /\ ~run.failed =>
        IF g = 0 THEN ~run.found
        ELSE /\ run.found
             /\ start + run.visited <= Offset[g]
             /\ run.complete => start + run.visited = Offset[g]
             /\ \A p \in OfKind("listed") :
                    p[1] <= g /\ start < Place(p) /\ Place(p) <= start + run.visited => p \in run.entries

\* Every turn keeps that.
LEMMA TurnCovers ==
    ASSUME TypeOK, NEW g \in 1 .. Len(groups), NEW run, RunInv(g - 1, run), RunCovers(g - 1, run)
    PROVE  RunCovers(g, VisitGroup(run, g))
<1> DEFINE v == VisitGroup(run, g)
           n == Len(groups[g])
           from == IF run.found THEN 0 ELSE start - run.visited
           before == Offset[g - 1]
<1> SUFFICES ASSUME InFirstGroup, ~v.failed
             PROVE  /\ v.found
                    /\ start + v.visited <= Offset[g]
                    /\ v.complete => start + v.visited = Offset[g]
                    /\ \A p \in OfKind("listed") :
                          p[1] <= g /\ start < Place(p) /\ Place(p) <= start + v.visited => p \in v.entries
  BY DEF RunCovers
<1>1. /\ n \in Nat /\ before \in Nat /\ Offset[g] \in Nat /\ Offset[g] = before + n
      /\ start \in Nat /\ g - 1 \in 0 .. Len(groups) /\ Len(groups) \in Nat
  <2>1. g - 1 \in 0 .. Len(groups) /\ g \in 0 .. Len(groups)
    BY Offsets
  <2> QED BY <2>1, Offsets, StartIsNat
<1>2. run \in Runs /\ IsFiniteSet(run.entries) /\ run.visited \in Nat
  BY DEF RunInv, Runs
<1>3. ASSUME NEW p \in OfKind("listed"), p[1] <= g
      PROVE  /\ Place(p) \in Nat /\ p[1] \in Nat /\ p[2] \in 1 .. Len(groups[p[1]]) /\ p = <<p[1], p[2]>>
             /\ p[1] <= g - 1 => Place(p) <= before
             /\ ~(p[1] <= g - 1) => p[1] = g /\ Place(p) = before + p[2] /\ Place(p) > before
  <2>1. p \in Positions
    BY DEF OfKind
  <2>2. p[1] \in 1 .. Len(groups) /\ p[2] \in 1 .. Len(groups[p[1]]) /\ p = <<p[1], p[2]>>
    BY <2>1, PositionPairs
  <2>3. ~(p[1] <= g - 1) => p[1] = g /\ p[1] > g - 1
    BY <1>1, <1>3, <2>2
  <2>4. p[1] <= g - 1 => Place(p) <= before
    BY <1>1, <2>1, PlacesGrow
  <2>5. Place(p) \in Nat
    BY <2>1, Places
  <2>6. p[1] > g - 1 => Place(p) > before
    BY <1>1, <2>1, PlacesGrow
  <2>7. p[1] = g => Place(p) = before + p[2]
    BY DEF Place
  <2>8. p[1] \in Nat
    BY <1>1, <2>2
  <2> QED BY <2>2, <2>3, <2>4, <2>5, <2>6, <2>7, <2>8
<1>4. ~run.failed /\ g # 1 =>
        /\ run.found
        /\ start + run.visited <= before
        /\ run.complete => start + run.visited = before
        /\ \A p \in OfKind("listed") :
              p[1] <= g - 1 /\ start < Place(p) /\ Place(p) <= start + run.visited => p \in run.entries
  <2>1. g # 1 => g - 1 # 0
    OBVIOUS
  <2> QED BY <2>1 DEF RunCovers
<1>5. ~run.failed /\ g = 1 =>
        /\ ~run.found /\ run.complete /\ run.entries = {}
        /\ run.visited = 0 /\ before = 0
  <2>1. g = 1 => g - 1 = 0 /\ before = 0
    BY Offsets
  <2> QED BY <2>1 DEF RunCovers, RunInv
<1>a. from = IF run.found THEN 0 ELSE start - run.visited
  OBVIOUS
<1>b. v = VisitGroup(run, g) /\ n = Len(groups[g])
  OBVIOUS
<1> HIDE DEF v, n, from, before
\* The run stays as it is but for complete, and there is nothing of group g in it.
<1>6. ASSUME ~run.failed, g # 1, v.entries = run.entries, v.visited = run.visited, v.found = run.found,
             v.complete = FALSE
      PROVE  /\ v.found
             /\ start + v.visited <= Offset[g]
             /\ \A p \in OfKind("listed") :
                   p[1] <= g /\ start < Place(p) /\ Place(p) <= start + v.visited => p \in v.entries
  <2>1. start + run.visited <= before /\ before <= Offset[g]
    BY <1>1, <1>4, <1>6
  <2>2. ASSUME NEW p \in OfKind("listed"), p[1] <= g, start < Place(p), Place(p) <= start + run.visited
        PROVE  p \in run.entries
    <3>1. Place(p) <= before
      <4> DEFINE w == run.visited
                 x == Place(p)
      <4>1. w \in Nat /\ x \in Nat /\ x <= start + w /\ start + w <= before
        BY <1>2, <1>3, <2>1, <2>2
      <4> HIDE DEF w, x
      <4>2. x <= before
        BY <1>1, <4>1
      <4> QED BY <4>2 DEF x
    <3>2. p[1] <= g - 1
      BY <1>1, <1>3, <2>2, <3>1
    <3> QED BY <1>4, <1>6, <2>2, <3>2
  <2> QED BY <1>1, <1>2, <1>4, <1>6, <2>1, <2>2
<1>7. CASE run.failed \/ ~run.complete
  <2>1. v = run
    BY <1>7, <1>b DEF VisitGroup
  <2>2. ~run.failed /\ ~run.complete /\ g # 1
    BY <1>5, <1>7, <2>1
  <2>3. run.complete = FALSE
    BY <1>2, <2>2 DEF Runs
  <2> QED BY <1>6, <2>1, <2>2, <2>3
<1>8. CASE ~run.failed /\ run.complete
  <2>1. from = IF g = 1 THEN start ELSE 0
    BY <1>1, <1>4, <1>5, <1>8, <1>a
  <2>2. from \in Nat
    BY <1>1, <2>1
  <2>3. TurnTo(v, run, g, from)
    BY <1>2, <1>8, <1>a, <1>b, <2>2, Turn
  <2>4. CASE run.entries # {} /\ v = [run EXCEPT !.complete = FALSE]
    <3>1. /\ v.entries = run.entries /\ v.visited = run.visited /\ v.found = run.found /\ v.complete = FALSE
      BY <1>2, <2>4 DEF Runs
    <3>2. g # 1
      BY <1>5, <1>8, <2>4
    <3> QED BY <1>6, <1>8, <3>1, <3>2
  <2>5. v # [run EXCEPT !.failed = TRUE]
    <3>1. [run EXCEPT !.failed = TRUE].failed = TRUE
      BY <1>2 DEF Runs
    <3> QED BY <3>1
  <2>6. ~(from > 0 /\ from >= n)
    BY <1>1, <1>b, <2>1 DEF InFirstGroup
  <2>7. ASSUME NEW i \in from .. n,
               v = [run EXCEPT !.visited = @ + (i - from), !.found = TRUE,
                               !.entries = @ \cup Between(g, from, i), !.complete = (i = n)]
        PROVE  /\ v.found
               /\ start + v.visited <= Offset[g]
               /\ v.complete => start + v.visited = Offset[g]
               /\ \A p \in OfKind("listed") :
                     p[1] <= g /\ start < Place(p) /\ Place(p) <= start + v.visited => p \in v.entries
    <3>1. i \in Nat /\ i <= n /\ from <= i
      BY <1>1, <2>2, <2>7
    <3>2. /\ v.visited = run.visited + (i - from) /\ v.found = TRUE
          /\ v.entries = run.entries \cup Between(g, from, i) /\ v.complete = (i = n)
      BY <1>2, <2>7 DEF Runs
    <3>3. start + v.visited = before + i
      <4> DEFINE w == run.visited
                 x == v.visited
      <4>1. x = w + (i - from) /\ w \in Nat
        BY <1>2, <3>2
      <4>2. start + w = before + from
        <5>1. CASE g = 1
          BY <1>1, <1>5, <1>8, <2>1, <5>1
        <5>2. CASE g # 1
          BY <1>1, <1>4, <1>8, <2>1, <5>2
        <5> QED BY <5>1, <5>2
      <4> HIDE DEF w, x
      <4>3. start + x = before + i
        BY <1>1, <2>2, <3>1, <4>1, <4>2
      <4> QED BY <4>3 DEF x
    <3>4. start + v.visited <= Offset[g] /\ (i = n => start + v.visited = Offset[g])
      BY <1>1, <3>1, <3>3
    <3>5. ASSUME NEW p \in OfKind("listed"), p[1] <= g, start < Place(p), Place(p) <= before + i
          PROVE  p \in v.entries
      <4>1. CASE p[1] <= g - 1
        <5>1. g # 1
          <6>1. p \in Positions
            BY DEF OfKind
          <6>2. p[1] \in 1 .. Len(groups)
            BY <6>1, PositionPairs
          <6> QED BY <1>1, <4>1, <6>2
        <5>2. Place(p) <= start + run.visited
          BY <1>3, <1>4, <1>8, <3>5, <4>1, <5>1
        <5>3. p \in run.entries
          BY <1>4, <1>8, <3>5, <4>1, <5>1, <5>2
        <5> QED BY <3>2, <5>3
      <4>2. CASE ~(p[1] <= g - 1)
        <5>1. p[1] = g /\ p = <<p[1], p[2]>> /\ p[2] \in 1 .. n /\ Place(p) = before + p[2]
          BY <1>3, <1>b, <3>5, <4>2
        <5>2. p[2] \in Nat /\ p[2] <= i /\ from < p[2]
          <6> DEFINE j == p[2]
          <6>1. j \in 1 .. n /\ before + j <= before + i /\ start < before + j
            BY <3>5, <5>1
          <6> HIDE DEF j
          <6>2. j \in Nat /\ j >= 1 /\ j <= i
            BY <1>1, <3>1, <6>1
          <6>3. g = 1 => from = start /\ before = 0
            BY <1>5, <1>8, <2>1
          <6>4. g # 1 => from = 0
            BY <2>1
          <6>5. from < j
            BY <1>1, <6>1, <6>2, <6>3, <6>4
          <6> QED BY <6>2, <6>5 DEF j
        <5>3. groups[g][p[2]] = "listed" /\ p[2] \in from + 1 .. i
          BY <2>2, <3>1, <5>1, <5>2 DEF OfKind
        <5>4. <<g, p[2]>> \in Between(g, from, i)
          BY <1>b, <2>2, <3>1, <5>3, BetweenFacts
        <5> QED BY <3>2, <5>1, <5>4
      <4> QED BY <4>1, <4>2
    <3>6. v.complete => start + v.visited = Offset[g]
      BY <3>2, <3>4, Zenon
    <3> QED BY <3>2, <3>3, <3>4, <3>5, <3>6
  <2> QED BY <1>b, <2>3, <2>4, <2>5, <2>6, <2>7 DEF TurnTo
<1> QED BY <1>2, <1>7, <1>8 DEF Runs

\* So the loop has both at the end.
LEMMA LoopHas ==
    ASSUME TypeOK
    PROVE  /\ RunInv(Len(groups), Visited[Len(groups)])
           /\ RunCovers(Len(groups), Visited[Len(groups)])
<1> DEFINE N == Len(groups)
           S == {g \in 0 .. N : RunInv(g, Visited[g]) /\ RunCovers(g, Visited[g])}
<1>1. N \in Nat /\ start \in Nat
  BY Offsets, StartIsNat
<1>2. RunInv(0, Visited[0]) /\ RunCovers(0, Visited[0])
  <2> DEFINE run == Visited[0]
  <2>1. run = [entries |-> {}, visited |-> 0, complete |-> TRUE, found |-> FALSE, failed |-> FALSE]
    BY VisitedUnfolds
  <2> HIDE DEF run
  <2>2. run \in Runs /\ run.entries = {} /\ run.visited = 0 /\ run.complete /\ ~run.found /\ ~run.failed
    BY <2>1 DEF Runs
  <2>3. IsFiniteSet(run.entries)
    BY <2>2, FS_EmptySet
  <2>4. run.visited = Offset[0] /\ run.visited <= start
    BY <1>1, <2>2, Offsets
  <2>5. RunInv(0, run) /\ RunCovers(0, run)
    BY <2>2, <2>3, <2>4 DEF RunInv, RunCovers
  <2> QED BY <2>5 DEF run
<1>3. 0 .. N \subseteq S
  <2>1. 0 \in S
    BY <1>1, <1>2
  <2>2. \A m \in 0 .. N : m + 1 \in 0 .. N /\ m \in S => m + 1 \in S
    <3> SUFFICES ASSUME NEW m \in 0 .. N, m + 1 \in 0 .. N, m \in S
                 PROVE  m + 1 \in S
      OBVIOUS
    <3>1. m + 1 \in 1 .. N /\ (m + 1) - 1 = m
      BY <1>1
    <3>2. RunInv(m, Visited[m]) /\ RunCovers(m, Visited[m])
      OBVIOUS
    <3>3. Visited[m + 1] = VisitGroup(Visited[m], m + 1)
      <4>1. Visited[m + 1] = VisitGroup(Visited[(m + 1) - 1], m + 1)
        BY <3>1, VisitedUnfolds
      <4> QED BY <3>1, <4>1
    <3> DEFINE run == Visited[m]
               g == m + 1
    <3>4. RunInv(g - 1, run) /\ RunCovers(g - 1, run) /\ g \in 1 .. Len(groups)
      BY <3>1, <3>2
    <3> HIDE DEF run, g
    <3>5. RunInv(g, VisitGroup(run, g)) /\ RunCovers(g, VisitGroup(run, g))
      BY <3>4, TurnKeeps, TurnCovers
    <3> QED BY <3>3, <3>5 DEF run, g
  <2> HIDE DEF S, N
  <2> QED BY <1>1, <2>1, <2>2, UpTo
<1> QED BY <1>1, <1>3

\* With one group the loop takes one turn, from the start of the page.
OnePage(entries, visited, complete) ==
    \E i \in start .. Len(groups[1]) :
        /\ visited = i - start /\ complete = (i = Len(groups[1]))
        /\ entries = Between(1, start, i)

\* Unless it fails, that is what it has.
LEMMA OneTurn ==
    ASSUME TypeOK, Len(groups) = 1, NEW run, run = Visited[1]
    PROVE  \/ run.failed
           \/ ~run.found /\ start > 0 /\ start >= Len(groups[1])
           \/ run.found /\ OnePage(run.entries, run.visited, run.complete)
<1> DEFINE base == [entries |-> {}, visited |-> 0, complete |-> TRUE, found |-> FALSE, failed |-> FALSE]
<1>1. run = VisitGroup(base, 1)
  <2>1. 1 \in 1 .. Len(groups) /\ 1 - 1 = 0
    OBVIOUS
  <2>2. Visited[1] = VisitGroup(Visited[1 - 1], 1) /\ Visited[0] = base
    BY <2>1, VisitedUnfolds
  <2> QED BY <2>1, <2>2
<1>2. /\ base \in Runs /\ base.entries = {} /\ base.visited = 0
      /\ base.complete /\ ~base.found /\ ~base.failed
  BY DEF Runs
<1>3. IsFiniteSet(base.entries)
  BY <1>2, FS_EmptySet
<1>4. start \in Nat /\ start = IF base.found THEN 0 ELSE start - base.visited
  BY <1>2, StartIsNat
<1>5. TurnTo(run, base, 1, start)
  <2> HIDE DEF base
  <2>1. TurnTo(VisitGroup(base, 1), base, 1, start)
    BY <1>2, <1>3, <1>4, Turn
  <2> QED BY <1>1, <2>1
<1>6. CASE run = [base EXCEPT !.failed = TRUE]
  BY <1>6
<1>7. CASE start > 0 /\ start >= Len(groups[1]) /\ run = [base EXCEPT !.visited = @ + Len(groups[1])]
  BY <1>7
<1>8. ASSUME NEW i \in start .. Len(groups[1]),
             run = [base EXCEPT !.visited = @ + (i - start), !.found = TRUE,
                                !.entries = @ \cup Between(1, start, i), !.complete = (i = Len(groups[1]))]
      PROVE  run.found /\ OnePage(run.entries, run.visited, run.complete)
  <2>1. /\ run.found /\ run.visited = 0 + (i - start) /\ run.complete = (i = Len(groups[1]))
        /\ run.entries = {} \cup Between(1, start, i)
    BY <1>8
  <2>2. Len(groups[1]) \in Nat
    BY Offsets
  <2>3. run.visited = i - start /\ run.entries = Between(1, start, i)
    BY <1>4, <2>1, <2>2
  <2> QED BY <2>1, <2>3 DEF OnePage
<1> HIDE DEF base
<1> QED BY <1>2, <1>5, <1>6, <1>7, <1>8 DEF TurnTo

-----------------------------------------------------------------------------
(* The calls.                                                                *)

\* With one group its disks are all there are.
LEMMA TotalOfOne ==
    ASSUME TypeOK, Len(groups) = 1
    PROVE  Total = Len(groups[1])
<1> DEFINE n == Len(groups[1])
           f == [i \in 1 .. n |-> <<1, i>>]
<1>1. n \in Nat
  BY Offsets
<1>2. /\ \A p \in Positions : p = <<1, p[2]>> /\ p[2] \in 1 .. n
      /\ \A i \in 1 .. n : <<1, i>> \in Positions
  <2>1. \A p \in Positions : p = <<p[1], p[2]>> /\ p[1] \in 1 .. 1 /\ p[2] \in 1 .. Len(groups[p[1]])
    BY PositionPairs
  <2>2. \A p \in Positions : p[1] = 1
    BY <2>1
  <2>3. \A p \in Positions : p = <<1, p[2]>> /\ p[2] \in 1 .. n
    BY <2>1, <2>2
  <2>4. 1 \in 1 .. Len(groups)
    OBVIOUS
  <2> QED BY <2>3, <2>4, PositionPairs
<1>3. f \in Bijection(1 .. n, Positions)
  <2>1. f \in [1 .. n -> Positions]
    BY <1>2
  <2>2. \A i, j \in 1 .. n : f[i] = f[j] => i = j
    OBVIOUS
  <2>3. \A p \in Positions : \E i \in 1 .. n : f[i] = p
    <3> SUFFICES ASSUME NEW p \in Positions PROVE \E i \in 1 .. n : f[i] = p
      OBVIOUS
    <3>1. p[2] \in 1 .. n /\ f[p[2]] = <<1, p[2]>> /\ p = <<1, p[2]>>
      BY <1>2
    <3> QED BY <3>1
  <2> HIDE DEF f, n
  <2> QED BY <2>1, <2>2, <2>3 DEF Bijection, Injection, Surjection, IsInjective
<1>4. ExistsBijection(1 .. n, Positions)
  <2> HIDE DEF f
  <2> QED BY <1>3 DEF ExistsBijection
<1>5. Cardinality(Positions) = n
  BY <1>1, <1>4, FS_CountingElements
<1> QED BY <1>5 DEF Total

\* All groups together have the disks that come before the end of the last one.
LEMMA TotalIsOffset == ASSUME TypeOK PROVE Total = Offset[Len(groups)]
<1> DEFINE N == Len(groups)
           P(g) == {p \in Positions : p[1] <= g}
           D(g) == {<<g, i>> : i \in 1 .. Len(groups[g])}
           Counts(g) == IsFiniteSet(P(g)) /\ Cardinality(P(g)) = Offset[g]
           S == {g \in 0 .. N : Counts(g)}
<1>1. /\ N \in Nat /\ \A g \in 1 .. N : Len(groups[g]) \in Nat
      /\ Offset[0] = 0 /\ \A g \in 0 .. N : Offset[g] \in Nat
      /\ \A g \in 1 .. N : Offset[g] = Offset[g - 1] + Len(groups[g])
  BY Offsets
<1>2. \A p \in Positions : p = <<p[1], p[2]>> /\ p[1] \in 1 .. N /\ p[2] \in 1 .. Len(groups[p[1]])
  BY PositionPairs
<1>3. \A g \in 1 .. N : \A i \in 1 .. Len(groups[g]) : <<g, i>> \in Positions
  BY PositionPairs
<1>4. 0 \in S
  <2>1. P(0) = {}
    BY <1>2
  <2>2. IsFiniteSet({}) /\ Cardinality({}) = 0
    BY FS_EmptySet
  <2>3. Counts(0)
    BY <1>1, <2>1, <2>2
  <2>4. 0 \in 0 .. N
    BY <1>1
  <2> HIDE DEF Counts
  <2> QED BY <2>3, <2>4
<1>5. ASSUME NEW g \in 1 .. N PROVE IsFiniteSet(D(g)) /\ Cardinality(D(g)) = Len(groups[g])
  <2> DEFINE n == Len(groups[g])
             f == [i \in 1 .. n |-> <<g, i>>]
             T == D(g)
  <2>1. n \in Nat
    BY <1>1
  <2>2. f \in [1 .. n -> T] /\ (\A i, j \in 1 .. n : f[i] = f[j] => i = j)
    OBVIOUS
  <2>3. \A p \in T : \E i \in 1 .. n : f[i] = p
    OBVIOUS
  <2> HIDE DEF f, n, T
  <2>4. f \in Bijection(1 .. n, T)
    BY <2>2, <2>3 DEF Bijection, Injection, Surjection, IsInjective
  <2>5. ExistsBijection(1 .. n, T)
    BY <2>4 DEF ExistsBijection
  <2>6. IsFiniteSet(T) /\ Cardinality(T) = n
    BY <2>1, <2>5, FS_CountingElements, FS_NatBijection
  <2> QED BY <2>6 DEF T, n
<1>6. ASSUME NEW m \in 0 .. N, m + 1 \in 0 .. N, m \in S PROVE m + 1 \in S
  <2> DEFINE g == m + 1
             A == P(m)
             B == D(g)
  <2>1. g \in 1 .. N /\ g - 1 = m
    BY <1>1, <1>6
  <2>2. P(g) = A \cup B
    <3>1. ASSUME NEW p \in P(g) PROVE p \in A \cup B
      <4>1. p \in Positions /\ p = <<p[1], p[2]>> /\ p[1] \in 1 .. N /\ p[1] <= g
            /\ p[2] \in 1 .. Len(groups[p[1]])
        BY <1>2
      <4>2. CASE p[1] = g
        BY <4>1, <4>2
      <4>3. CASE p[1] # g
        BY <1>1, <4>1, <4>3
      <4> QED BY <4>2, <4>3
    <3>2. ASSUME NEW p \in A PROVE p \in P(g)
      BY <1>1, <1>2
    <3>3. ASSUME NEW p \in B PROVE p \in P(g)
      <4>1. PICK i \in 1 .. Len(groups[g]) : p = <<g, i>>
        OBVIOUS
      <4>2. p \in Positions /\ p[1] = g
        BY <1>3, <2>1, <4>1
      <4> QED BY <2>1, <4>2
    <3> QED BY <3>1, <3>2, <3>3
  <2>3. A \cap B = {}
    BY <1>1
  <2>4. IsFiniteSet(A) /\ Cardinality(A) = Offset[m]
    BY <1>6
  <2>5. IsFiniteSet(B) /\ Cardinality(B) = Len(groups[g])
    BY <1>5, <2>1
  <2>6. Offset[g] = Offset[m] + Len(groups[g]) /\ Offset[m] \in Nat /\ Len(groups[g]) \in Nat
    BY <1>1, <2>1
  <2> HIDE DEF A, B, P, g
  <2>7. IsFiniteSet(A \cup B) /\ Cardinality(A \cup B) = Offset[g]
    <3>1. /\ IsFiniteSet(A \cup B)
          /\ Cardinality(A \cup B) = Cardinality(A) + Cardinality(B) - Cardinality(A \cap B)
      BY <2>4, <2>5, FS_Union
    <3>2. Cardinality(A \cap B) = 0
      BY <2>3, FS_EmptySet
    <3> QED BY <2>4, <2>5, <2>6, <3>1, <3>2
  <2>8. g \in 0 .. N
    BY <1>6 DEF g
  <2> QED BY <2>2, <2>7, <2>8 DEF g
<1>7. N \in S
  <2> HIDE DEF S, N
  <2>1. 0 .. N \subseteq S
    BY <1>1, <1>4, <1>6, UpTo
  <2> QED BY <1>1, <2>1
<1>8. P(N) = Positions
  BY <1>1, <1>2
<1> QED BY <1>7, <1>8 DEF Total

\* There are finitely many positions.
LEMMA PositionsFinite == ASSUME TypeOK PROVE IsFiniteSet(Positions)
<1> DEFINE Disks(g) == {<<g, i>> : i \in DOMAIN groups[g]}
           All == {Disks(g) : g \in DOMAIN groups}
<1>1. groups \in Seq(Seq(Kinds))
  BY DEF TypeOK
<1>2. /\ DOMAIN groups = 1 .. Len(groups) /\ Len(groups) \in Nat
      /\ \A g \in 1 .. Len(groups) : DOMAIN groups[g] = 1 .. Len(groups[g]) /\ Len(groups[g]) \in Nat
  BY <1>1
<1>3. ASSUME NEW g \in DOMAIN groups PROVE IsFiniteSet(Disks(g))
  <2> DEFINE f == [i \in DOMAIN groups[g] |-> <<g, i>>]
  <2>1. f \in Surjection(DOMAIN groups[g], Disks(g))
    BY DEF Surjection
  <2>2. IsFiniteSet(DOMAIN groups[g])
    BY <1>2, FS_Interval
  <2> HIDE DEF f, Disks
  <2> QED BY <2>1, <2>2, FS_Surjection
<1>4. IsFiniteSet(All)
  <2> DEFINE f == [g \in DOMAIN groups |-> Disks(g)]
  <2> HIDE DEF Disks
  <2>1. f \in Surjection(DOMAIN groups, All)
    BY DEF Surjection
  <2>2. IsFiniteSet(DOMAIN groups)
    BY <1>2, FS_Interval
  <2> HIDE DEF f, All
  <2> QED BY <2>1, <2>2, FS_Surjection
<1>5. \A T \in All : IsFiniteSet(T)
  <2> HIDE DEF Disks
  <2> QED BY <1>3
<1>6. IsFiniteSet(UNION All)
  <2> HIDE DEF All
  <2> QED BY <1>4, <1>5, FS_UNION
<1> QED BY <1>6 DEF Positions

\* What a call may answer.  Its entries lie between the start of the page and the
\* next token, which is further on; there is one only if the page starts before the end
\* of the last group, or is the first.
InOrder(entries, next) ==
    mode # "nodeGroup" =>
        /\ \A p \in entries : start < Place(p) /\ (next # NoToken => Place(p) <= next)
        /\ Total > 0 /\ next # NoToken => start < next
        /\ token # NoToken /\ next # NoToken => start < Offset[Len(groups)]

\* In one group it has what there is between the start and some disk; the next token
\* is not further on, and there is none only at the end.
InOneGroup(entries, next) ==
    Len(groups) = 1 =>
        \E i \in start .. Len(groups[1]) :
            /\ entries = Between(1, start, i)
            /\ next = NoToken => i = Len(groups[1])
            /\ next # NoToken => next <= i /\ (mode # "snapshots" => i < Len(groups[1]))

\* From a start in the first group it has what there is up to the next token, or up to
\* the end; without a limit it is up to the end.
InManyGroups(entries, next) ==
    mode = "cluster" =>
        /\ InFirstGroup => \A p \in OfKind("listed") :
                start < Place(p) /\ (next # NoToken => Place(p) <= next) => p \in entries
        /\ next # NoToken => maxEntries > 0

Page(entries, next) ==
    /\ entries \subseteq Positions /\ next \in Nat \cup {NoToken}
    /\ InOrder(entries, next) /\ InOneGroup(entries, next) /\ InManyGroups(entries, next)

\* Why a call may fail in one group.
Cause == Len(groups) = 1 => OfKind("broken") # {} \/ (mode = "snapshots" /\ start = Len(groups[1]))

Called ==
    /\ state = "paging"
    /\ \/ Fails /\ Cause
       \/ \E entries, next : Page(entries, next) /\ Answer(entries, next)

\* A page of listVolumesInCluster.
LEMMA ClusterPage ==
    ASSUME IInv, listVolumesInCluster
    PROVE  Called
<1> DEFINE run == Visited[Len(groups)]
           next == NextToken(run)
           n == Len(groups[1])
<1>1. TypeOK /\ start \in Nat /\ state = "paging" /\ mode = "cluster"
  BY StartIsNat DEF IInv, listVolumesInCluster
<1>2. RunInv(Len(groups), run) /\ RunCovers(Len(groups), run)
  BY <1>1, LoopHas
<1>3. IF run.failed \/ (start > 0 /\ ~run.found) THEN Fails ELSE Answer(run.entries, next)
  BY DEF listVolumesInCluster
<1>4. Len(groups) = 1 => \/ run.failed
                         \/ ~run.found /\ start > 0 /\ start >= n
                         \/ run.found /\ OnePage(run.entries, run.visited, run.complete)
  BY <1>1, OneTurn
<1> HIDE DEF run
<1>5. run.failed => OfKind("broken") # {}
  BY <1>2 DEF RunInv
<1>6. CASE run.failed \/ (start > 0 /\ ~run.found)
  <2>1. Len(groups) = 1 /\ ~run.failed => start >= n /\ start > 0
    BY <1>4, <1>6
  <2>2. Len(groups) = 1 /\ start > 0 => start < n
    <3>1. start > 0 => token # NoToken
      BY DEF start
    <3> QED BY <1>1, <3>1 DEF IInv, OneGroupTokens
  <2>3. Len(groups) = 1 => n \in Nat
    BY <1>1, Offsets
  <2>4. Len(groups) = 1 => run.failed
    BY <1>1, <2>1, <2>2, <2>3
  <2> QED BY <1>1, <1>3, <1>5, <1>6, <2>4 DEF Called, Cause
<1>7. CASE ~(run.failed \/ (start > 0 /\ ~run.found))
  <2>1. Answer(run.entries, next)
    BY <1>3, <1>7
  <2>2. /\ run.entries \subseteq Positions /\ run.visited \in Nat
        /\ \A p \in run.entries : start < Place(p) /\ Place(p) <= start + run.visited
        /\ ~run.complete => run.entries # {}
    BY <1>2, <1>7 DEF RunInv, Runs
  <2>3. /\ run.complete => next = NoToken
        /\ ~run.complete => next = start + run.visited
    BY DEF NextToken
  <2>4. next \in Nat \cup {NoToken}
    BY <1>1, <2>2, <2>3
  <2> HIDE DEF next
  <2>5. next # NoToken => ~run.complete /\ next = start + run.visited
    BY <2>3
  <2>6. next # NoToken => start < next /\ start < Offset[Len(groups)]
    <3> SUFFICES ASSUME next # NoToken PROVE start < next /\ start < Offset[Len(groups)]
      OBVIOUS
    <3>1. PICK p \in run.entries : TRUE
      BY <2>2, <2>5
    <3>2. start < Place(p) /\ Place(p) <= next
      BY <2>2, <2>5, <3>1
    <3>3. Place(p) \in Nat /\ p \in Positions
      BY <1>1, <2>2, Places
    <3>4. Len(groups) \in 0 .. Len(groups) /\ p[1] <= Len(groups) /\ Offset[Len(groups)] \in Nat
      <4>1. Len(groups) \in Nat
        BY <1>1, Offsets
      <4>2. Len(groups) \in 0 .. Len(groups)
        BY <4>1
      <4>3. p[1] \in 1 .. Len(groups)
        BY <1>1, <3>3, PositionPairs
      <4> QED BY <1>1, <4>1, <4>2, <4>3, Offsets
    <3>5. Place(p) <= Offset[Len(groups)]
      BY <1>1, <3>3, <3>4, PlacesGrow
    <3> QED BY <1>1, <2>4, <3>2, <3>3, <3>4, <3>5 DEF NoToken
  <2>7. InOrder(run.entries, next)
    BY <2>2, <2>5, <2>6 DEF InOrder
  <2>8. InOneGroup(run.entries, next)
    <3> SUFFICES ASSUME Len(groups) = 1
                 PROVE  \E i \in start .. n :
                            /\ run.entries = Between(1, start, i)
                            /\ next = NoToken => i = n
                            /\ next # NoToken => next <= i /\ (mode # "snapshots" => i < n)
      BY DEF InOneGroup
    <3>1. n \in Nat
      BY <1>1, Offsets
    <3>2. OnePage(run.entries, run.visited, run.complete)
      BY <1>4, <1>7
    <3>3. PICK i \in start .. n : /\ run.visited = i - start /\ run.complete = (i = n)
                                  /\ run.entries = Between(1, start, i)
      BY <3>2 DEF OnePage
    <3>4. next = NoToken => run.complete
      BY <1>1, <2>2, <2>3 DEF NoToken
    <3>5. next = NoToken => i = n
      BY <3>3, <3>4
    <3>6. next # NoToken => next <= i /\ i < n
      <4>1. next # NoToken => i # n
        BY <2>5, <3>3
      <4> QED BY <1>1, <2>5, <3>1, <3>3, <4>1
    <3> QED BY <3>3, <3>5, <3>6
  <2>9. InManyGroups(run.entries, next)
    <3>1. next # NoToken => maxEntries > 0
      BY <1>2, <1>7, <2>5 DEF RunInv
    <3>2. ASSUME InFirstGroup, NEW p \in OfKind("listed"), start < Place(p),
                 next # NoToken => Place(p) <= next
          PROVE  p \in run.entries
      <4>1. p \in Positions
        BY DEF OfKind
      <4>2. /\ Len(groups) \in Nat /\ Len(groups) # 0 /\ p[1] <= Len(groups)
            /\ Len(groups) \in 0 .. Len(groups)
        <5>1. Len(groups) \in Nat
          BY <1>1, Offsets
        <5> QED BY <1>1, <4>1, <5>1, PositionPairs
      <4>3. Place(p) <= Offset[Len(groups)]
        BY <1>1, <4>1, <4>2, PlacesGrow
      <4>4. /\ run.complete => start + run.visited = Offset[Len(groups)]
            /\ Place(p) <= start + run.visited => p \in run.entries
        BY <1>2, <1>7, <3>2, <4>2 DEF RunCovers
      <4>5. CASE run.complete
        BY <4>3, <4>4, <4>5
      <4>6. CASE ~run.complete
        <5>1. next # NoToken /\ next = start + run.visited
          BY <1>1, <2>2, <2>3, <4>6 DEF NoToken
        <5> QED BY <3>2, <4>4, <5>1
      <4> QED BY <4>5, <4>6
    <3> QED BY <3>1, <3>2 DEF InManyGroups
  <2> QED BY <1>1, <2>1, <2>2, <2>4, <2>7, <2>8, <2>9 DEF Called, Page
<1> QED BY <1>6, <1>7

\* A page of listVolumesInNodeResourceGroup.
LEMMA NodeGroupPage ==
    ASSUME IInv, listVolumesInNodeResourceGroup
    PROVE  Called
<1> DEFINE list == listVolumesByResourceGroup(1, {}, start, maxEntries)
           next == NodeGroupToken(list)
           n == Len(groups[1])
<1>1. TypeOK /\ start \in Nat /\ state = "paging" /\ mode = "nodeGroup" /\ Len(groups) = 1
  BY StartIsNat DEF IInv, listVolumesInNodeResourceGroup, OneGroupUnlessCluster
<1>2. 1 \in 1 .. Len(groups) /\ n \in Nat /\ maxEntries \in Int
  BY <1>1, Offsets DEF TypeOK
<1>3. IF list.status # "ok" THEN Fails ELSE Answer(list.entries, next)
  BY DEF listVolumesInNodeResourceGroup
<1>4. Listed(list, 1, {}, start, maxEntries)
  <2> DEFINE none == {}
             g == 1
  <2>1. IsFiniteSet(none) /\ none \in SUBSET Positions /\ g \in 1 .. Len(groups)
    BY <1>2, FS_EmptySet
  <2> HIDE DEF none, g
  <2>2. Listed(listVolumesByResourceGroup(g, none, start, maxEntries), g, none, start, maxEntries)
    BY <1>1, <1>2, <2>1, GroupListed
  <2> QED BY <2>2 DEF none, g
<1> HIDE DEF list
<1>5. CASE list.status # "ok"
  <2>1. start > 0 => start < n
    <3>1. start > 0 => token # NoToken
      BY DEF start
    <3> QED BY <1>1, <3>1 DEF IInv, OneGroupTokens
  <2>2. OfKind("broken") # {}
    BY <1>1, <1>2, <1>4, <1>5, <2>1 DEF Listed
  <2> QED BY <1>1, <1>3, <1>5, <2>2 DEF Called, Cause
<1>6. CASE list.status = "ok"
  <2>1. PICK i \in start .. n : /\ list.visited = i - start /\ list.complete = (i = n)
                                /\ list.entries = {} \cup Between(1, start, i)
    BY <1>4, <1>6 DEF Listed
  <2>2. list.entries = Between(1, start, i) /\ i \in Nat /\ i <= n /\ start <= i
    BY <1>1, <1>2, <2>1
  <2>3. list.entries \subseteq Positions
    BY <1>1, <1>2, <2>2, BetweenFacts
  <2>4. /\ i = n => next = NoToken
        /\ i # n => next = i - start
    BY <2>1 DEF NodeGroupToken
  <2>5. /\ next \in Nat \cup {NoToken}
        /\ next = NoToken => i = n
        /\ next # NoToken => next <= i /\ i < n
    BY <1>1, <1>2, <2>2, <2>4 DEF NoToken
  <2>6. Answer(list.entries, next)
    BY <1>3, <1>6
  <2> HIDE DEF next
  <2>7. InOneGroup(list.entries, next)
    BY <2>2, <2>5 DEF InOneGroup
  <2>8. InOrder(list.entries, next)
    BY <1>1 DEF InOrder
  <2> QED BY <1>1, <2>3, <2>5, <2>6, <2>7, <2>8 DEF Called, Page, InManyGroups
<1> QED BY <1>5, <1>6

\* A page of GetEntriesAndNextToken.
LEMMA SnapshotPage ==
    ASSUME IInv, GetEntriesAndNextToken
    PROVE  Called
<1> DEFINE n == Len(groups[1])
           i == Stop(1, start, 0, maxEntries)
           new == Between(1, start, i)
           next == SnapshotToken(i, n)
           fails == TokenRefused(n) \/ new \cap OfKind("broken") # {}
<1>1. TypeOK /\ start \in Nat /\ state = "paging" /\ mode = "snapshots" /\ Len(groups) = 1
  BY StartIsNat DEF IInv, GetEntriesAndNextToken, OneGroupUnlessCluster
<1>2. 1 \in 1 .. Len(groups) /\ n \in Nat /\ maxEntries \in Int /\ start <= n
  BY <1>1, Offsets DEF TypeOK, IInv, OneGroupCovered
<1>3. IF fails THEN Fails ELSE Answer(new, next)
  BY DEF GetEntriesAndNextToken
<1>4. /\ i \in start .. n
      /\ i < n => maxEntries > 0 /\ 0 + Cardinality(new) >= maxEntries
  BY <1>1, <1>2, StopFacts
<1> HIDE DEF i
<1>5. i \in Nat /\ start <= i /\ i <= n
  BY <1>1, <1>2, <1>4
<1>6. /\ new \subseteq Positions
      /\ \A p \in new : p[1] = 1 /\ p[2] \in start + 1 .. i
  <2> DEFINE g == 1
  <2>1. g \in 1 .. Len(groups) /\ i <= Len(groups[g])
    BY <1>2, <1>5
  <2> HIDE DEF g
  <2> DEFINE B == Between(g, start, i)
  <2> HIDE DEF n
  <2>2. B \subseteq Positions
    BY <1>1, <1>5, <2>1, BetweenFacts
  <2>3. \A p \in B : p[1] = g /\ p[2] \in start + 1 .. i
    BY <1>1, <1>5, <2>1, BetweenFacts
  <2> QED BY <2>2, <2>3 DEF g
<1>7. start = i => new = {}
  BY <1>1, <1>5, <1>6
<1> HIDE DEF new
<1>8. next = i
  BY <1>2, <1>5 DEF SnapshotToken
<1> HIDE DEF next
<1>9. CASE fails
  <2>1. TokenRefused(n) => start = n
    BY <1>1, <1>2 DEF TokenRefused
  <2>2. Cause
    BY <1>1, <1>9, <2>1 DEF Cause
  <2> QED BY <1>1, <1>3, <1>9, <2>2 DEF Called
<1>10. CASE ~fails
  <2>1. Answer(new, next)
    BY <1>3, <1>10
  <2>2. next # NoToken /\ next \in Nat
    BY <1>5, <1>8 DEF NoToken
  <2>3. InOneGroup(new, next)
    <3>1. i \in start .. n /\ new = Between(1, start, i) /\ next <= i
      BY <1>4, <1>5, <1>8 DEF new
    <3> QED BY <1>1, <2>2, <3>1 DEF InOneGroup
  <2>4. ASSUME NEW p \in new PROVE start < Place(p) /\ Place(p) <= next
    <3>1. Place(p) = p[2]
      BY <1>1, <1>6, Places
    <3> QED BY <1>1, <1>5, <1>6, <1>8, <3>1
  <2>5. Total > 0 => start < next
    <3>1. Total = n
      BY <1>1, TotalOfOne
    <3>2. CASE i < n
      <4>1. new # {}
        BY <1>2, <1>4, <3>2, FS_EmptySet
      <4> QED BY <1>1, <1>5, <1>7, <1>8, <4>1
    <3>3. CASE ~(i < n)
      <4>1. i = n
        BY <1>2, <1>5, <3>3
      <4>2. token # NoToken => start < n
        BY <1>1, <1>2, <1>10 DEF TokenRefused
      <4>3. token = NoToken => start = 0
        BY DEF start
      <4> QED BY <1>2, <1>8, <3>1, <4>1, <4>2, <4>3
    <3> QED BY <3>2, <3>3
  <2>6. InOrder(new, next)
    <3>1. Offset[Len(groups)] = n
      <4>1. Offset[0] = 0 /\ Offset[1] = Offset[1 - 1] + n
        BY <1>1, <1>2, Offsets
      <4> QED BY <1>1, <1>2, <4>1
    <3>2. token # NoToken => start < n
      BY <1>1, <1>2, <1>10 DEF TokenRefused
    <3> QED BY <2>4, <2>5, <3>1, <3>2 DEF InOrder
  <2> QED BY <1>1, <1>6, <2>1, <2>2, <2>3, <2>6 DEF Called, Page, InManyGroups
<1> QED BY <1>9, <1>10

\* So is every call.
LEMMA EveryCall == ASSUME IInv, Next PROVE Called
BY ClusterPage, NodeGroupPage, SnapshotPage DEF Next

-----------------------------------------------------------------------------
(* The theorems.                                                             *)

\* Paging starts with the first call and nothing returned.
LEMMA InitIInv == ASSUME Init PROVE IInv
<1>1. MaxGroups \in Nat /\ MaxDisks \in Nat /\ MaxAlone \in Nat
  OBVIOUS
<1>2. \A m \in Nat : BoundedSeq(Kinds, m) \subseteq Seq(Kinds)
  BY DEF BoundedSeq, SeqOf
<1>3. \A S, T : S \subseteq T => BoundedSeq(S, MaxGroups) \subseteq Seq(T)
  BY <1>1 DEF BoundedSeq, SeqOf
<1>4. OneGroup \subseteq Seq(Seq(Kinds)) /\ \A gs \in OneGroup : Len(gs) = 1
  <2>1. BoundedSeq(Kinds, MaxAlone) \subseteq Seq(Kinds)
    BY <1>1, <1>2
  <2>2. \A S : \A s \in S : <<s>> \in Seq(S) /\ Len(<<s>>) = 1
    OBVIOUS
  <2> QED BY <2>1, <2>2 DEF OneGroup
<1>5. GroupLists \subseteq Seq(Seq(Kinds))
  <2>1. BoundedSeq(Kinds, MaxDisks) \subseteq Seq(Kinds)
    BY <1>1, <1>2
  <2>2. BoundedSeq(BoundedSeq(Kinds, MaxDisks), MaxGroups) \subseteq Seq(Seq(Kinds))
    BY <1>3, <2>1
  <2> QED BY <1>4, <2>2 DEF GroupLists
<1>6. groups \in Seq(Seq(Kinds)) /\ (mode # "cluster" => Len(groups) = 1)
  BY <1>4, <1>5 DEF Init
<1>7. TypeOK
  BY <1>6 DEF Init, TypeOK
<1>8. start = 0 /\ got = {} /\ state = "paging" /\ token = NoToken
  BY DEF Init, start
<1>9. Len(groups) = 1 => Len(groups[1]) \in Nat
  BY <1>7, Offsets
<1>10. \A p \in OfKind("listed") : ~(Place(p) <= start)
  <2> SUFFICES ASSUME NEW p \in OfKind("listed") PROVE ~(Place(p) <= 0)
    BY <1>8
  <2>1. p \in Positions
    BY DEF OfKind
  <2>2. p[1] > 0 /\ 0 \in 0 .. Len(groups)
    BY <1>7, <2>1, PositionPairs, Offsets
  <2>3. Place(p) > Offset[0] /\ Place(p) \in Nat
    BY <1>7, <2>1, <2>2, PlacesGrow, Places
  <2> QED BY <1>7, <2>3, Offsets
<1>11. FirstGroupCovered /\ OnePageUnlessLimit
  BY <1>8, <1>10 DEF FirstGroupCovered, OnePageUnlessLimit
<1> QED BY <1>6, <1>7, <1>8, <1>9, <1>11 DEF IInv, BehindStart, OneGroupUnlessCluster, OneGroupCovered,
                                            OneGroupTokens, CoveredUpTo

\* What there is to list stays the same.
LEMMA SameGroups ==
    ASSUME groups' = groups
    PROVE  /\ Offset' = Offset /\ Positions' = Positions /\ Total' = Total
           /\ \A kind : OfKind(kind)' = OfKind(kind)
           /\ \A p : Place(p)' = Place(p)
<1>1. Offset' = Offset
  BY DEF Offset
<1>2. Positions' = Positions
  BY DEF Positions
<1>3. \A kind : OfKind(kind)' = OfKind(kind)
  BY <1>2 DEF OfKind
<1>4. Total' = Total
  BY <1>2 DEF Total
<1>5. \A p : Place(p)' = Place(p)
  BY <1>1 DEF Place
<1> QED BY <1>1, <1>2, <1>3, <1>4, <1>5

\* A call keeps the invariant.
LEMMA CallKeeps == ASSUME IInv, Called PROVE IInv'
<1>1. /\ TypeOK /\ start \in Nat /\ state = "paging"
      /\ OneGroupUnlessCluster /\ OneGroupCovered /\ OneGroupTokens /\ BehindStart
      /\ FirstGroupCovered /\ OnePageUnlessLimit
  BY StartIsNat DEF IInv, Called
<1>2. CASE Fails /\ Cause
  <2>1. /\ groups' = groups /\ mode' = mode /\ token' = token /\ got' = got /\ page' = {}
        /\ maxEntries' = maxEntries /\ state' = "error" /\ start' = start
    BY <1>2 DEF Fails, start
  <2>2. Positions' = Positions /\ OfKind("broken")' = OfKind("broken")
    BY <2>1, SameGroups
  <2>3. TypeOK'
    BY <1>1, <2>1, <2>2 DEF TypeOK
  <2>4. OneGroupTokens'
    BY <1>2, <2>1, <2>2 DEF OneGroupTokens, Cause
  <2>5. BehindStart' /\ OneGroupUnlessCluster' /\ OneGroupCovered'
    BY <1>1, <2>1 DEF BehindStart, OneGroupUnlessCluster, OneGroupCovered
  <2>6. FirstGroupCovered' /\ OnePageUnlessLimit'
    BY <1>1, <2>1 DEF FirstGroupCovered, OnePageUnlessLimit
  <2> QED BY <2>3, <2>4, <2>5, <2>6 DEF IInv
<1>3. ASSUME NEW entries, NEW next, Page(entries, next), Answer(entries, next)
      PROVE  IInv'
  <2>1. /\ groups' = groups /\ mode' = mode /\ got' = got \cup entries /\ page' = entries
        /\ maxEntries' = maxEntries
        /\ next = NoToken => state' = "done" /\ token' = token /\ start' = start
        /\ next # NoToken => state' = "paging" /\ token' = next /\ start' = next
    BY <1>3 DEF Answer, start
  <2>2. /\ Positions' = Positions /\ OfKind("broken")' = OfKind("broken")
        /\ OfKind("listed")' = OfKind("listed") /\ \A p : Place(p)' = Place(p)
    BY <2>1, SameGroups
  <2>3. /\ entries \subseteq Positions /\ next \in Nat \cup {NoToken}
        /\ InOrder(entries, next) /\ InOneGroup(entries, next) /\ InManyGroups(entries, next)
    BY <1>3 DEF Page
  <2>4. TypeOK'
    BY <1>1, <2>1, <2>2, <2>3 DEF TypeOK
  <2>a. ASSUME mode # "nodeGroup", next # NoToken, NEW p \in Positions
        PROVE  start < next /\ next \in Nat
    <3>1. Total > 0
      <4>1. IsFiniteSet(Positions)
        BY <1>1, PositionsFinite
      <4> QED BY <4>1, FS_EmptySet, FS_CardinalityType DEF Total
    <3> QED BY <2>3, <2>a, <3>1 DEF InOrder
  <2>5. BehindStart'
    <3> SUFFICES ASSUME mode # "nodeGroup", next # NoToken, NEW p \in got \cup entries
                 PROVE  Place(p) <= next
      BY <2>1, <2>2 DEF BehindStart
    <3>1. CASE p \in entries
      BY <2>3, <3>1 DEF InOrder
    <3>2. CASE p \in got
      <4>1. Place(p) <= start /\ p \in Positions
        BY <1>1, <3>2 DEF BehindStart, TypeOK
      <4>2. Place(p) \in Nat
        BY <1>1, <4>1, Places
      <4>3. start < next /\ next \in Nat
        BY <2>a, <4>1
      <4> QED BY <1>1, <4>1, <4>2, <4>3
    <3> QED BY <3>1, <3>2
  <2>6. OneGroupUnlessCluster'
    BY <1>1, <2>1 DEF OneGroupUnlessCluster
  <2>7. ASSUME Len(groups) = 1
        PROVE  /\ start' <= Len(groups[1])
               /\ next # NoToken => \A j \in 1 .. next : groups[1][j] = "listed" => <<1, j>> \in got'
               /\ next = NoToken => \A j \in 1 .. Len(groups[1]) : groups[1][j] = "listed" => <<1, j>> \in got'
               /\ next # NoToken /\ mode # "snapshots" => next < Len(groups[1])
    <3> DEFINE n == Len(groups[1])
    <3>1. n \in Nat /\ 1 \in 1 .. Len(groups)
      BY <1>1, <2>7, Offsets
    <3>2. PICK i \in start .. n : /\ entries = Between(1, start, i)
                                  /\ next = NoToken => i = n
                                  /\ next # NoToken => next <= i /\ (mode # "snapshots" => i < n)
      BY <2>3, <2>7 DEF InOneGroup
    <3>3. i \in Nat /\ i <= n /\ start <= n
      BY <1>1, <3>1, <3>2
    <3>4. \A j \in 1 .. i : groups[1][j] = "listed" => <<1, j>> \in got'
      <4> SUFFICES ASSUME NEW j \in 1 .. i, groups[1][j] = "listed"
                   PROVE  <<1, j>> \in got \cup entries
        BY <2>1
      <4>1. CASE j <= start
        <5>1. j \in 1 .. start
          BY <1>1, <3>3, <4>1
        <5> QED BY <1>1, <2>7, <5>1 DEF OneGroupCovered, CoveredUpTo
      <4>2. CASE ~(j <= start)
        <5>1. j \in start + 1 .. i
          BY <1>1, <3>3, <4>2
        <5>2. <<1, j>> \in Between(1, start, i)
          BY <1>1, <3>1, <3>3, <5>1, BetweenFacts
        <5> QED BY <3>2, <5>2
      <4> QED BY <4>1, <4>2
    <3>5. next # NoToken => \A j \in 1 .. next : j \in 1 .. i
      BY <2>3, <3>2, <3>3
    <3>6. start' <= n
      BY <2>1, <2>3, <3>1, <3>2, <3>3
    <3>7. next # NoToken /\ mode # "snapshots" => next < n
      BY <2>3, <3>1, <3>2, <3>3
    <3> QED BY <3>2, <3>4, <3>5, <3>6, <3>7
  <2>8. OneGroupCovered' /\ OneGroupTokens'
    BY <2>1, <2>7 DEF OneGroupCovered, OneGroupTokens, CoveredUpTo
  <2>9. OnePageUnlessLimit'
    BY <1>1, <2>1, <2>3 DEF OnePageUnlessLimit, InManyGroups
  <2>10. FirstGroupCovered'
    <3>1. ASSUME mode = "cluster", InFirstGroup, NEW p \in OfKind("listed"),
                 next # NoToken => Place(p) <= next
          PROVE  p \in got \cup entries
      <4>1. Place(p) <= start => p \in got
        BY <1>1, <3>1 DEF FirstGroupCovered
      <4>2. start < Place(p) => p \in entries
        BY <2>3, <3>1 DEF InManyGroups
      <4>3. p \in Positions
        BY DEF OfKind
      <4>4. Place(p) \in Nat
        BY <1>1, <4>3, Places
      <4> QED BY <1>1, <4>1, <4>2, <4>4
    <3>2. CASE next = NoToken
      <4>1. InFirstGroup' = InFirstGroup /\ state' = "done"
        BY <2>1, <3>2 DEF InFirstGroup
      <4> QED BY <2>1, <2>2, <3>1, <3>2, <4>1 DEF FirstGroupCovered
    <3>3. CASE next # NoToken
      <4>1. state' = "paging" /\ start' = next
        BY <2>1, <3>3
      <4>2. ASSUME mode = "cluster", InFirstGroup', NEW p \in OfKind("listed"), Place(p) <= next
            PROVE  p \in got \cup entries
        <5>1. p \in Positions
          BY DEF OfKind
        <5>2. start < next /\ next \in Nat
          BY <2>a, <3>3, <4>2, <5>1
        <5>3. Len(groups) > 0 /\ next < Len(groups[1])
          BY <1>1, <2>1, <4>1, <4>2, <5>2 DEF InFirstGroup
        <5>4. Len(groups[1]) \in Nat
          BY <1>1, <5>3, Offsets
        <5>5. InFirstGroup
          BY <1>1, <5>2, <5>3, <5>4 DEF InFirstGroup
        <5> QED BY <3>1, <4>2, <5>5
      <4> QED BY <2>1, <2>2, <4>1, <4>2 DEF FirstGroupCovered
    <3> QED BY <3>2, <3>3
  <2> QED BY <2>4, <2>5, <2>6, <2>8, <2>9, <2>10 DEF IInv
<1> QED BY <1>2, <1>3 DEF Called

\* The invariant is inductive.
THEOREM ListingInvariant == Spec => []IInv
<1>1. Init => IInv
  BY InitIInv
<1>2. IInv /\ [Next]_vars => IInv'
  <2>1. IInv /\ Next => IInv'
    BY EveryCall, CallKeeps
  <2>2. ASSUME IInv, UNCHANGED vars PROVE IInv'
    <3>1. /\ groups' = groups /\ mode' = mode /\ token' = token /\ got' = got /\ page' = page
          /\ maxEntries' = maxEntries /\ state' = state /\ start' = start
      BY <2>2 DEF vars, start
    <3>2. /\ Positions' = Positions /\ OfKind("broken")' = OfKind("broken")
          /\ OfKind("listed")' = OfKind("listed") /\ \A p : Place(p)' = Place(p)
      BY <3>1, SameGroups
    <3>3. TypeOK' /\ BehindStart' /\ OneGroupUnlessCluster'
      BY <2>2, <3>1, <3>2 DEF IInv, TypeOK, BehindStart, OneGroupUnlessCluster
    <3>4. OneGroupCovered' /\ OneGroupTokens'
      BY <2>2, <3>1, <3>2 DEF IInv, OneGroupCovered, OneGroupTokens, CoveredUpTo
    <3>5. FirstGroupCovered' /\ OnePageUnlessLimit'
      BY <2>2, <3>1, <3>2 DEF IInv, FirstGroupCovered, OnePageUnlessLimit, InFirstGroup
    <3> QED BY <3>3, <3>4, <3>5 DEF IInv
  <2> QED BY <2>1, <2>2
<1> QED BY <1>1, <1>2, PTL DEF Spec

\* The types: what was returned are positions of disks that exist, and a token is a
\* number.
THEOREM ListingTypes == Spec => []TypeOK
<1>1. IInv => TypeOK
  BY DEF IInv
<1> QED BY <1>1, ListingInvariant, PTL

\* In one group the invariant says that everything is listed.
LEMMA InvListsOneGroup == ASSUME IInv PROVE OneGroupListed
<1> SUFFICES ASSUME Len(groups) = 1, AtEnd, NEW p \in OfKind("listed")
             PROVE  p \in got
  BY DEF OneGroupListed, AllListed
<1>1. TypeOK /\ OneGroupCovered
  BY DEF IInv
<1>2. Total = Len(groups[1]) /\ Len(groups[1]) \in Nat /\ start \in Nat
  BY <1>1, TotalOfOne, Offsets, StartIsNat
<1>3. CoveredUpTo(Len(groups[1]))
  <2>1. state = "paging" /\ start >= Total => start = Len(groups[1])
    BY <1>1, <1>2 DEF OneGroupCovered
  <2> QED BY <1>1, <2>1 DEF AtEnd, OneGroupCovered
<1>4. p \in Positions /\ groups[p[1]][p[2]] = "listed"
  BY DEF OfKind
<1>5. p = <<p[1], p[2]>> /\ p[1] \in 1 .. 1 /\ p[2] \in 1 .. Len(groups[p[1]])
  BY <1>1, <1>4, PositionPairs
<1>6. p[1] = 1
  BY <1>5
<1> QED BY <1>3, <1>4, <1>5, <1>6 DEF CoveredUpTo

\* In one resource group a client that pages to the end gets every volume, whatever the
\* page size, and without a kube client too although its tokens go back.
THEOREM OneGroupIsListed == Spec => []OneGroupListed
<1>1. IInv => OneGroupListed
  BY InvListsOneGroup
<1> QED BY <1>1, ListingInvariant, PTL

\* In one resource group the driver takes the tokens it gave, but for the last one of
\* ListSnapshots.
THEOREM TokensAreTaken == Spec => []TokensTaken
<1>1. IInv => TokensTaken
  BY TotalOfOne DEF IInv, OneGroupTokens, TokensTaken
<1> QED BY <1>1, ListingInvariant, PTL

\* No volume comes on two pages: with any number of resource groups the token may skip
\* disks but never goes back.
THEOREM NothingTwice == Spec => NoneTwice
<1>1. IInv /\ [Next]_vars => [mode # "nodeGroup" => page' \cap got = {}]_vars
  <2> SUFFICES ASSUME IInv, Next, mode # "nodeGroup", NEW p \in page', p \in got
               PROVE  FALSE
    OBVIOUS
  <2>1. Called
    BY EveryCall
  <2>2. page' # {}
    OBVIOUS
  <2>3. PICK entries, next : Page(entries, next) /\ Answer(entries, next)
    BY <2>1, <2>2 DEF Called, Fails
  <2>4. p \in entries
    BY <2>3 DEF Answer
  <2>5. start < Place(p)
    BY <2>3, <2>4 DEF Page, InOrder
  <2>6. Place(p) <= start
    BY <2>1 DEF IInv, BehindStart, Called
  <2>7. Place(p) \in Nat /\ start \in Nat
    BY Places, StartIsNat DEF IInv, TypeOK
  <2> QED BY <2>5, <2>6, <2>7
<1> QED BY <1>1, ListingInvariant, PTL DEF Spec, NoneTwice

\* Every page moves the token on, with any number of resource groups: the loop only
\* stops early when it has entries, and they lie after the start.
THEOREM TokensAdvance == Spec => TokenAdvances
<1>1. IInv /\ [Next]_vars =>
        [mode # "nodeGroup" /\ Total > 0 /\ state' = "paging" => token' > start]_vars
  <2> SUFFICES ASSUME IInv, Next, mode # "nodeGroup", Total > 0, state' = "paging"
               PROVE  token' > start
    OBVIOUS
  <2>1. Called
    BY EveryCall
  <2>2. PICK entries, next : Page(entries, next) /\ Answer(entries, next)
    BY <2>1 DEF Called, Fails
  <2>3. next # NoToken /\ token' = next
    BY <2>2 DEF Answer
  <2>4. start < next /\ next \in Nat
    BY <2>2, <2>3 DEF Page, InOrder
  <2>5. start \in Nat
    BY StartIsNat DEF IInv
  <2> QED BY <2>3, <2>4, <2>5
<1> QED BY <1>1, ListingInvariant, PTL DEF Spec, TokenAdvances

\* With any number of resource groups and any page size everything is listed if the last
\* page starts in the first group: the disks that list_groups_skip shows to be missed are
\* missed because a page starts beyond it.
THEOREM FirstGroupIsListed == Spec => []FirstGroupListed
<1>1. IInv => FirstGroupListed
  <2> SUFFICES ASSUME IInv, state = "done", InFirstGroup PROVE OfKind("listed") \subseteq got
    BY DEF FirstGroupListed
  <2>1. CASE mode = "cluster"
    BY <2>1 DEF IInv, FirstGroupCovered
  <2>2. CASE mode # "cluster"
    <3>1. OneGroupListed /\ Len(groups) = 1
      BY <2>2, InvListsOneGroup DEF IInv, OneGroupUnlessCluster
    <3> QED BY <3>1 DEF OneGroupListed, AllListed, AtEnd
  <2> QED BY <2>1, <2>2
<1> QED BY <1>1, ListingInvariant, PTL

\* A client that sets no limit gets every volume of every resource group, or an error.
THEOREM UnlimitedIsListed == Spec => []UnlimitedListed
<1>1. IInv => UnlimitedListed
  <2> SUFFICES ASSUME IInv, maxEntries = 0, AtEnd PROVE OfKind("listed") \subseteq got
    BY DEF UnlimitedListed, AllListed
  <2>1. CASE mode = "cluster"
    <3>1. token = NoToken
      BY <2>1 DEF IInv, OnePageUnlessLimit
    <3>2. state = "done" /\ start = 0
      BY <3>1 DEF AtEnd, start
    <3> QED BY <2>1, <3>2 DEF IInv, FirstGroupCovered, InFirstGroup
  <2>2. CASE mode # "cluster"
    <3>1. OneGroupListed /\ Len(groups) = 1
      BY <2>2, InvListsOneGroup DEF IInv, OneGroupUnlessCluster
    <3> QED BY <3>1 DEF OneGroupListed, AllListed
  <2> QED BY <2>1, <2>2
<1> QED BY <1>1, ListingInvariant, PTL

\* Paging ends: a call that starts beyond the last disk of all groups fails or is the
\* last, and every call before moves the token on.
THEOREM PagingStops == Spec => StopsAtEnd
<1>1. IInv /\ [Next]_vars =>
        [mode # "nodeGroup" /\ token # NoToken /\ start >= Total => state' # "paging"]_vars
  <2> SUFFICES ASSUME IInv, Next, mode # "nodeGroup", token # NoToken, state' = "paging"
               PROVE  ~(start >= Total)
    OBVIOUS
  <2>1. Called
    BY EveryCall
  <2>2. PICK entries, next : Page(entries, next) /\ Answer(entries, next)
    BY <2>1 DEF Called, Fails
  <2>3. next # NoToken
    BY <2>2 DEF Answer
  <2>4. start < Offset[Len(groups)]
    BY <2>2, <2>3 DEF Page, InOrder
  <2>5. start \in Nat /\ Total = Offset[Len(groups)] /\ Total \in Nat
    <3>1. TypeOK
      BY DEF IInv
    <3>2. Len(groups) \in Nat
      BY <3>1, Offsets
    <3>3. Len(groups) \in 0 .. Len(groups)
      BY <3>2
    <3> QED BY <3>1, <3>3, StartIsNat, TotalIsOffset, Offsets
  <2> QED BY <2>4, <2>5
<1> QED BY <1>1, ListingInvariant, PTL DEF Spec, StopsAtEnd
=============================================================================
