---------------------------- MODULE TotalsProofs ----------------------------
(****************************************************************************)
(* Lemmas about numbers that several proofs need: sums (Totals), powers of  *)
(* two, quotients, and functions defined by recursion over the naturals,    *)
(* by the least element of a set of naturals in place of induction; and     *)
(* about parts of sequences.                                                *)
(****************************************************************************)
EXTENDS Totals, SequenceTheorems, FiniteSetTheorems, WellFoundedInduction, TLAPS

----------------------------------------------------------------------------
\* Sums.

\* A column has as many elements as the number it stands for.
LEMMA ColumnSize ==
    ASSUME NEW x, NEW n \in Nat
    PROVE  IsFiniteSet(Column(x, n)) /\ Cardinality(Column(x, n)) = n
  <1>1. IsFiniteSet({x}) /\ Cardinality({x}) = 1
    BY FS_Singleton
  <1>2. IsFiniteSet(1 .. n) /\ Cardinality(1 .. n) = n
    BY FS_Interval
  <1>3. /\ IsFiniteSet({x} \X (1 .. n))
        /\ Cardinality({x} \X (1 .. n)) = Cardinality({x}) * Cardinality(1 .. n)
    BY <1>1, <1>2, FS_Product, Zenon
  <1>4. Cardinality({x} \X (1 .. n)) = 1 * n
    BY <1>1, <1>2, <1>3
  <1> QED
    BY <1>3, <1>4 DEF Column

LEMMA InUnits ==
    ASSUME NEW f, NEW u
    PROVE  u \in Units(f) <=> \E x \in DOMAIN f : u \in Column(x, f[x])
  BY DEF Units

LEMMA InColumn ==
    ASSUME NEW x, NEW n \in Nat, NEW u
    PROVE  u \in Column(x, n) <=> \E i \in 1 .. n : u = <<x, i>>
  BY DEF Column

\* Columns of different arguments share nothing.
LEMMA ColumnsApart ==
    ASSUME NEW x, NEW y, x # y, NEW m \in Nat, NEW n \in Nat, NEW u \in Column(x, m)
    PROVE  u \notin Column(y, n)
  BY DEF Column

\* A sum over a finite domain is a number.
LEMMA SumNat ==
    ASSUME NEW S, IsFiniteSet(S), NEW f \in [S -> Nat]
    PROVE  IsFiniteSet(Units(f)) /\ SumOf(f) \in Nat
  <1> DEFINE Columns == {Column(x, f[x]) : x \in DOMAIN f}
             g == [x \in S |-> Column(x, f[x])]
  <1>1. g \in Surjection(S, Columns)
    BY DEF Surjection
  <1>2. IsFiniteSet(Columns)
    BY <1>1, FS_Surjection
  <1>3. \A T \in Columns : IsFiniteSet(T)
    BY ColumnSize
  <1>4. IsFiniteSet(UNION Columns)
    <2> HIDE DEF Columns
    <2> QED
      BY <1>2, <1>3, FS_UNION
  <1> QED
    BY <1>4, FS_CardinalityType DEF SumOf, Units

\* One argument's share can be taken out of a sum.
LEMMA SumSplit ==
    ASSUME NEW S, IsFiniteSet(S), NEW f \in [S -> Nat], NEW x \in S
    PROVE  LET rest == Units(f) \ Column(x, f[x])
           IN  /\ IsFiniteSet(rest) /\ Cardinality(rest) \in Nat
               /\ SumOf(f) = Cardinality(rest) + f[x]
  <1> DEFINE U == Units(f)
             C == Column(x, f[x])
  <1>1. IsFiniteSet(U) /\ Cardinality(U) = SumOf(f) /\ SumOf(f) \in Nat
    BY SumNat DEF SumOf
  <1>2. IsFiniteSet(C) /\ Cardinality(C) = f[x]
    BY ColumnSize
  <1>3. U \cap C = C
    BY DEF Units
  <1>4. f[x] \in Nat
    OBVIOUS
  <1> HIDE DEF U, C
  <1>5. IsFiniteSet(U \ C) /\ Cardinality(U \ C) = Cardinality(U) - Cardinality(U \cap C)
    BY <1>1, FS_Difference
  <1>6. Cardinality(U \ C) \in Nat
    BY <1>5, FS_CardinalityType
  <1>7. Cardinality(U \cap C) = f[x]
    BY <1>2, <1>3, Zenon
  <1>8. SumOf(f) = Cardinality(U \ C) + f[x]
    BY <1>1, <1>4, <1>5, <1>6, <1>7
  <1> QED
    BY <1>5, <1>6, <1>8 DEF U, C

\* Two functions that agree but for one value differ in the sum by as much.
LEMMA SumChange ==
    ASSUME NEW S, IsFiniteSet(S), NEW f \in [S -> Nat], NEW g \in [S -> Nat], NEW x \in S,
           \A y \in S : y # x => g[y] = f[y]
    PROVE  SumOf(g) + f[x] = SumOf(f) + g[x]
  <1> DEFINE Rest(h) == Units(h) \ Column(x, h[x])
  <1>2. Rest(f) = Rest(g)
    <2>1. ASSUME NEW h \in [S -> Nat], NEW u
          PROVE  u \in Rest(h) <=> \E y \in S \ {x} : u \in Column(y, h[y])
      <3>1. \A y \in S \ {x} : u \in Column(y, h[y]) => u \notin Column(x, h[x])
        BY ColumnsApart
      <3> QED
        BY <3>1, InUnits
    <2> HIDE DEF Rest
    <2>2. \A u : u \in Rest(f) <=> u \in Rest(g)
      BY <2>1
    <2>3. Rest(f) \subseteq Rest(g) /\ Rest(g) \subseteq Rest(f)
      BY <2>2
    <2> QED
      BY <2>3
  <1>3. /\ Cardinality(Rest(f)) \in Nat
        /\ SumOf(f) = Cardinality(Rest(f)) + f[x]
    BY SumSplit
  <1>4. SumOf(g) = Cardinality(Rest(g)) + g[x]
    BY SumSplit
  <1>5. f[x] \in Nat /\ g[x] \in Nat
    OBVIOUS
  <1> HIDE DEF Rest
  <1>6. Cardinality(Rest(g)) = Cardinality(Rest(f))
    BY <1>2, Zenon
  <1> QED
    BY <1>3, <1>4, <1>5, <1>6

\* A sum of zeros.
LEMMA SumZero ==
    ASSUME NEW S, NEW f \in [S -> Nat], \A x \in S : f[x] = 0
    PROVE  SumOf(f) = 0
  <1>1. \A x \in S : Column(x, f[x]) = {}
    BY DEF Column
  <1>2. Units(f) = {}
    BY <1>1 DEF Units
  <1> QED
    BY <1>2, FS_EmptySet DEF SumOf

\* A sum that one argument makes up.
LEMMA SumSingle ==
    ASSUME NEW S, IsFiniteSet(S), NEW f \in [S -> Nat], NEW x \in S,
           \A y \in S : y # x => f[y] = 0
    PROVE  SumOf(f) = f[x]
  <1> DEFINE z == [y \in S |-> 0]
  <1>1. z \in [S -> Nat] /\ \A y \in S : z[y] = 0
    OBVIOUS
  <1>2. SumOf(z) = 0
    BY <1>1, SumZero
  <1>3. \A y \in S : y # x => f[y] = z[y]
    BY <1>1
  <1>4. SumOf(f) + z[x] = SumOf(z) + f[x]
    <2> HIDE DEF z
    <2> QED
      BY <1>1, <1>3, SumChange
  <1>5. SumOf(f) \in Nat /\ f[x] \in Nat
    BY SumNat
  <1>6. z[x] = 0
    BY <1>1
  <1> HIDE DEF z
  <1> QED
    BY <1>2, <1>4, <1>5, <1>6

\* A sum over a range and over one number more.
LEMMA SumExtend ==
    ASSUME NEW n \in Nat, NEW f \in [1 .. n -> Nat], NEW g \in [1 .. n + 1 -> Nat],
           \A y \in 1 .. n : g[y] = f[y]
    PROVE  SumOf(g) = SumOf(f) + g[n + 1]
  <1> DEFINE x == n + 1
             S == 1 .. x
  <1>0. IsFiniteSet(S)
    BY FS_Interval
  <1>1. /\ x \in S /\ g \in [S -> Nat] /\ g[x] \in Nat /\ S = (1 .. n) \cup {x}
        /\ \A y \in 1 .. n : f[y] \in Nat /\ y # x
        /\ DOMAIN f = 1 .. n /\ DOMAIN g = S
    OBVIOUS
  <1>2. Units(g) \ Column(x, g[x]) = Units(f)
    <2> HIDE DEF x, S
    <2>1. ASSUME NEW u PROVE u \in Units(g) <=> u \in Units(f) \/ u \in Column(x, g[x])
      BY <1>1, InUnits
    <2>2. ASSUME NEW u \in Units(f) PROVE u \notin Column(x, g[x])
      <3>1. PICK y \in 1 .. n : u \in Column(y, f[y])
        BY <1>1, InUnits
      <3> QED
        BY <1>1, <3>1, ColumnsApart
    <2> QED
      BY <2>1, <2>2
  <1> HIDE DEF x, S
  <1>3. SumOf(g) = Cardinality(Units(f)) + g[x]
    BY <1>0, <1>1, <1>2, SumSplit
  <1> QED
    BY <1>3 DEF SumOf, x

\* The sum of a queue after a send and after a receive.
LEMMA SumAppend ==
    ASSUME NEW q \in Seq(Nat), NEW n \in Nat
    PROVE  SumOf(Append(q, n)) = SumOf(q) + n
  <1> DEFINE g == Append(q, n)
  <1>1. Len(q) \in Nat /\ q \in [1 .. Len(q) -> Nat]
    OBVIOUS
  <1>2. /\ g \in Seq(Nat) /\ Len(g) = Len(q) + 1 /\ g[Len(q) + 1] = n
        /\ \A y \in 1 .. Len(q) : g[y] = q[y]
    OBVIOUS
  <1> HIDE DEF g
  <1>3. g \in [1 .. Len(q) + 1 -> Nat]
    BY <1>2
  <1>4. SumOf(g) = SumOf(q) + g[Len(q) + 1]
    BY <1>1, <1>2, <1>3, SumExtend
  <1> QED
    BY <1>2, <1>4 DEF g

LEMMA SumTail ==
    ASSUME NEW q \in Seq(Nat), q # <<>>
    PROVE  SumOf(q) = Head(q) + SumOf(Tail(q))
  <1> DEFINE S == 1 .. Len(q)
             rest == Units(q) \ Column(1, q[1])
             t == Tail(q)
             h == [u \in Units(t) |-> <<u[1] + 1, u[2]>>]
  <1>1. IsFiniteSet(S) /\ 1 \in S /\ q \in [S -> Nat] /\ q[1] = Head(q)
    BY FS_Interval
  <1>2. /\ t \in Seq(Nat) /\ Len(t) = Len(q) - 1 /\ DOMAIN t = 1 .. Len(q) - 1
        /\ \A y \in 1 .. Len(q) - 1 : t[y] = q[y + 1]
    OBVIOUS
  <1>3. \A u : u \in Units(t) <=> \E y \in 1 .. Len(q) - 1 : \E i \in 1 .. q[y + 1] : u = <<y, i>>
    <2> TAKE u
    <2>1. \A y \in 1 .. Len(q) - 1 : t[y] \in Nat /\ t[y] = q[y + 1]
      BY <1>2
    <2>2. u \in Units(t) <=> \E y \in 1 .. Len(q) - 1 : u \in Column(y, t[y])
      BY <1>2, InUnits
    <2> HIDE DEF t
    <2>3. \A y \in 1 .. Len(q) - 1 :
             u \in Column(y, t[y]) <=> \E i \in 1 .. q[y + 1] : u = <<y, i>>
      BY <2>1, InColumn
    <2> QED
      BY <2>2, <2>3
  <1>4. \A u : u \in rest <=> \E y \in 2 .. Len(q) : \E i \in 1 .. q[y] : u = <<y, i>>
    <2> TAKE u
    <2>1. \A y \in S : q[y] \in Nat
      BY <1>1
    <2>2. u \in Units(q) <=> \E y \in S : \E i \in 1 .. q[y] : u = <<y, i>>
      BY <1>1, <2>1, InUnits, InColumn
    <2>3. u \in Column(1, q[1]) <=> \E i \in 1 .. q[1] : u = <<1, i>>
      BY <1>1, <2>1, InColumn
    <2> QED
      BY <2>2, <2>3
  <1> HIDE DEF rest, t
  <1>5. h \in Bijection(Units(t), rest)
    <2>1. \A u \in Units(t) : h[u] \in rest
      <3> TAKE u \in Units(t)
      <3>1. PICK y \in 1 .. Len(q) - 1 : \E i \in 1 .. q[y + 1] : u = <<y, i>>
        BY <1>3
      <3>i. PICK i \in 1 .. q[y + 1] : u = <<y, i>>
        BY <3>1
      <3>2. h[u] = <<y + 1, i>> /\ y + 1 \in 2 .. Len(q)
        BY <3>i
      <3> QED
        BY <1>4, <3>2
    <2>2. \A u, v \in Units(t) : h[u] = h[v] => u = v
      <3> SUFFICES ASSUME NEW u \in Units(t), NEW v \in Units(t), h[u] = h[v] PROVE u = v
        OBVIOUS
      <3>1. PICK y \in 1 .. Len(q) - 1 : \E i \in 1 .. q[y + 1] : u = <<y, i>>
        BY <1>3
      <3>i. PICK i \in 1 .. q[y + 1] : u = <<y, i>>
        BY <3>1
      <3>2. PICK z \in 1 .. Len(q) - 1 : \E j \in 1 .. q[z + 1] : v = <<z, j>>
        BY <1>3
      <3>j. PICK j \in 1 .. q[z + 1] : v = <<z, j>>
        BY <3>2
      <3>3. <<y + 1, i>> = <<z + 1, j>>
        BY <3>i, <3>j
      <3> QED
        BY <3>i, <3>j, <3>3
    <2>3. \A w \in rest : \E u \in Units(t) : h[u] = w
      <3> TAKE w \in rest
      <3>1. PICK y \in 2 .. Len(q) : \E i \in 1 .. q[y] : w = <<y, i>>
        BY <1>4
      <3>i. PICK i \in 1 .. q[y] : w = <<y, i>>
        BY <3>1
      <3>2. y - 1 \in 1 .. Len(q) - 1 /\ i \in 1 .. q[(y - 1) + 1] /\ (y - 1) + 1 = y
        OBVIOUS
      <3>3. <<y - 1, i>> \in Units(t)
        BY <1>3, <3>2
      <3> QED
        BY <3>i, <3>2, <3>3
    <2>4. h \in [Units(t) -> rest]
      BY <2>1
    <2> HIDE DEF h
    <2> QED
      BY <2>2, <2>3, <2>4 DEF Bijection, Injection, Surjection, IsInjective
  <1>6. /\ Cardinality(rest) \in Nat
        /\ SumOf(q) = Cardinality(rest) + q[1]
    BY <1>1, SumSplit DEF rest
  <1>7. IsFiniteSet(Units(t))
    <2>1. t \in [1 .. Len(q) - 1 -> Nat] /\ Len(q) - 1 \in Int
      BY <1>2
    <2>2. IsFiniteSet(1 .. Len(q) - 1)
      BY <2>1, FS_Interval
    <2> QED
      BY <2>1, <2>2, SumNat
  <1>8. Cardinality(rest) = SumOf(t)
    BY <1>5, <1>7, FS_Bijection DEF SumOf, ExistsBijection
  <1> QED
    BY <1>1, <1>6, <1>8 DEF t

----------------------------------------------------------------------------
\* A non-empty set of naturals has a least element.
LEMMA LeastNatural ==
    ASSUME NEW T \in SUBSET Nat, T # {}
    PROVE  \E x \in T : \A y \in T : x <= y
<1> DEFINE Below == {0 .. x : x \in T}
<1>1. Below \subseteq FiniteSubsetsOf(Nat) /\ Below # {}
  <2>1. ASSUME NEW x \in T PROVE 0 .. x \in SUBSET Nat /\ IsFiniteSet(0 .. x)
    <3>1. x \in Int /\ 0 \in Int
      OBVIOUS
    <3> QED BY <3>1, FS_Interval
  <2> QED BY <2>1 DEF FiniteSubsetsOf
<1>2. \E B \in Below : \A C \in Below : ~ (<<C, B>> \in StrictSubsetOrdering(Nat))
  <2> HIDE DEF Below
  <2> QED BY <1>1, FS_StrictSubsetOrderingWellFounded, WFMin
<1>3. PICK x \in T : \A C \in Below : ~ (<<C, 0 .. x>> \in StrictSubsetOrdering(Nat))
  BY <1>2
<1>4. ASSUME NEW y \in T, y < x PROVE FALSE
  <2>1. 0 .. y \subseteq 0 .. x /\ 0 .. y # 0 .. x
    BY <1>4
  <2>2. 0 .. y \in Below
    BY <1>4
  <2>3. <<0 .. y, 0 .. x>> \in StrictSubsetOrdering(Nat)
    <3> DEFINE A == 0 .. y
    <3> DEFINE B == 0 .. x
    <3>1. A \in SUBSET Nat /\ B \in SUBSET Nat /\ A \subseteq B /\ A # B
      BY <2>1
    <3> HIDE DEF A, B
    <3>2. <<A, B>> \in StrictSubsetOrdering(Nat)
      BY <3>1 DEF StrictSubsetOrdering
    <3> QED BY <3>2 DEF A, B
  <2> HIDE DEF Below
  <2> QED BY <1>3, <2>2, <2>3
<1> QED BY <1>4

----------------------------------------------------------------------------
\* Sums over parts of a domain.

\* f where the argument is in T, and 0 elsewhere.
Within(S, T, f) == [x \in S |-> IF x \in T THEN f[x] ELSE 0]

LEMMA WithinType ==
    ASSUME NEW S, NEW T, NEW f \in [S -> Nat]
    PROVE  Within(S, T, f) \in [S -> Nat]
  BY DEF Within

\* A sum over a part of a domain, over all of it.
LEMMA SumPart ==
    ASSUME NEW S, NEW T \in SUBSET S, NEW f \in [S -> Nat]
    PROVE  SumOf([x \in T |-> f[x]]) = SumOf(Within(S, T, f))
  <1> DEFINE g == [x \in T |-> f[x]]
             h == Within(S, T, f)
  <1>1. /\ DOMAIN g = T /\ \A x \in T : g[x] = f[x]
        /\ DOMAIN h = S /\ \A x \in S : h[x] = IF x \in T THEN f[x] ELSE 0
    BY DEF Within
  <1>2. \A x : Column(x, 0) = {}
    BY DEF Column
  <1> HIDE DEF g, h
  <1>3. \A u : u \in Units(g) <=> u \in Units(h)
    BY <1>1, <1>2, InUnits
  <1>4. Units(g) = Units(h)
    BY <1>3 DEF Units
  <1> QED
    BY <1>4 DEF SumOf, g, h

\* Sums of what two disjoint parts of a domain hold add up.
LEMMA SumApart ==
    ASSUME NEW S, IsFiniteSet(S), NEW f \in [S -> Nat], NEW T, NEW R,
           \A x \in S : x \in T => x \notin R
    PROVE  SumOf(Within(S, T \cup R, f)) = SumOf(Within(S, T, f)) + SumOf(Within(S, R, f))
  <1> DEFINE a == Within(S, T, f)
             b == Within(S, R, f)
             d == Within(S, T \cup R, f)
  <1>1. a \in [S -> Nat] /\ b \in [S -> Nat] /\ d \in [S -> Nat]
    BY WithinType
  <1>2. /\ \A x \in S : a[x] = IF x \in T THEN f[x] ELSE 0
        /\ \A x \in S : b[x] = IF x \in R THEN f[x] ELSE 0
        /\ \A x \in S : d[x] = IF x \in T \cup R THEN f[x] ELSE 0
    BY DEF Within
  <1>3. \A x : Column(x, 0) = {}
    BY DEF Column
  <1> HIDE DEF a, b, d
  <1>4. \A x \in S : Column(x, d[x]) = Column(x, a[x]) \cup Column(x, b[x])
    BY <1>2, <1>3
  <1>5. \A u : u \in Units(d) <=> u \in Units(a) \/ u \in Units(b)
    BY <1>1, <1>4, InUnits
  <1>6. Units(d) = Units(a) \cup Units(b)
    BY <1>5
  <1>7. Units(a) \cap Units(b) = {}
    <2> SUFFICES ASSUME NEW u \in Units(a), u \in Units(b) PROVE FALSE
      OBVIOUS
    <2>1. PICK x \in S, y \in S : u \in Column(x, a[x]) /\ u \in Column(y, b[y])
      BY <1>1, InUnits
    <2>2. x = y
      BY <1>1, <2>1, ColumnsApart
    <2> QED
      BY <1>2, <1>3, <2>1, <2>2
  <1>8. /\ IsFiniteSet(Units(a)) /\ IsFiniteSet(Units(b))
        /\ SumOf(a) \in Nat /\ SumOf(b) \in Nat
    BY <1>1, SumNat
  <1>9. /\ Cardinality(Units(a) \cup Units(b)) =
             Cardinality(Units(a)) + Cardinality(Units(b)) - Cardinality(Units(a) \cap Units(b))
        /\ Cardinality(Units(a) \cap Units(b)) = 0
    BY <1>7, <1>8, FS_Union, FS_EmptySet
  <1>10. Cardinality(Units(d)) = Cardinality(Units(a)) + Cardinality(Units(b))
    BY <1>6, <1>8, <1>9 DEF SumOf
  <1> QED
    BY <1>10 DEF SumOf, a, b, d

\* The sum of what one argument holds.
LEMMA SumOne ==
    ASSUME NEW S, IsFiniteSet(S), NEW f \in [S -> Nat], NEW x \in S
    PROVE  SumOf(Within(S, {x}, f)) = f[x]
  <1> DEFINE g == Within(S, {x}, f)
  <1>1. g \in [S -> Nat]
    BY WithinType
  <1>2. g[x] = f[x] /\ \A y \in S : y # x => g[y] = 0
    BY DEF Within
  <1> HIDE DEF g
  <1>3. SumOf(g) = g[x]
    BY <1>1, <1>2, SumSingle
  <1> QED
    BY <1>2, <1>3 DEF g

\* Smaller values have a smaller sum.
LEMMA SumBelow ==
    ASSUME NEW S, IsFiniteSet(S), NEW f \in [S -> Nat], NEW g \in [S -> Nat],
           \A x \in S : f[x] <= g[x]
    PROVE  SumOf(f) <= SumOf(g)
  <1>1. \A x \in S : Column(x, f[x]) \subseteq Column(x, g[x])
    BY DEF Column
  <1>2. Units(f) \subseteq Units(g)
    BY <1>1, InUnits
  <1>3. IsFiniteSet(Units(g))
    BY SumNat
  <1> QED
    BY <1>2, <1>3, FS_Subset DEF SumOf

\* A sum that is not 0 has a value that is not 0.
LEMMA SumPositive ==
    ASSUME NEW S, NEW f \in [S -> Nat], SumOf(f) # 0
    PROVE  \E x \in S : f[x] > 0
  <1> SUFFICES ASSUME \A x \in S : ~(f[x] > 0) PROVE FALSE
    OBVIOUS
  <1>1. \A x \in S : f[x] = 0
    OBVIOUS
  <1> QED
    BY <1>1, SumZero

----------------------------------------------------------------------------
\* Powers of two, by the subsets they count.

LEMMA PowerCounts ==
    ASSUME NEW n \in Nat
    PROVE  /\ IsFiniteSet(SUBSET (1 .. n)) /\ Cardinality(SUBSET (1 .. n)) = 2 ^ n
           /\ 2 ^ n \in Nat \ {0}
  <1>1. IsFiniteSet(1 .. n) /\ Cardinality(1 .. n) = n
    BY FS_Interval
  <1>2. IsFiniteSet(SUBSET (1 .. n)) /\ Cardinality(SUBSET (1 .. n)) = 2 ^ n
    BY <1>1, FS_SUBSET
  <1>3. SUBSET (1 .. n) # {}
    OBVIOUS
  <1> QED
    BY <1>2, <1>3, FS_CardinalityType, FS_EmptySet

LEMMA PowerZero == 2 ^ 0 = 1
  <1>1. SUBSET (1 .. 0) = {{}}
    OBVIOUS
  <1>2. Cardinality({{}}) = 1
    BY FS_Singleton
  <1> QED
    BY <1>1, <1>2, PowerCounts

\* A subset of 1 .. n + 1 is one of 1 .. n, with n + 1 or without it.
LEMMA PowerNext ==
    ASSUME NEW n \in Nat
    PROVE  2 ^ (n + 1) = 2 * 2 ^ n
  <1> DEFINE x == n + 1
             A == SUBSET (1 .. n)
             B == {T \cup {x} : T \in A}
             add == [T \in A |-> T \cup {x}]
  <1>0. x \in Nat /\ x \notin 1 .. n /\ 1 .. x = (1 .. n) \cup {x}
    OBVIOUS
  <1> HIDE DEF x
  <1>1. /\ IsFiniteSet(A) /\ Cardinality(A) = 2 ^ n
        /\ Cardinality(SUBSET (1 .. x)) = 2 ^ x
        /\ 2 ^ n \in Nat
    BY <1>0, PowerCounts
  <1>2. \A T \in A : x \notin T
    BY <1>0
  <1>3. add \in Bijection(A, B)
    <2>1. add \in Surjection(A, B)
      BY DEF Surjection
    <2>2. ASSUME NEW T \in A, NEW R \in A, add[T] = add[R] PROVE T = R
      <3>1. T \cup {x} = R \cup {x}
        BY <2>2
      <3> QED
        BY <1>2, <3>1
    <2>3. add \in Injection(A, B)
      <3>1. add \in [A -> B]
        OBVIOUS
      <3> HIDE DEF add
      <3> QED
        BY <2>2, <3>1 DEF Injection, IsInjective
    <2> QED
      BY <2>1, <2>3 DEF Bijection
  <1>4. IsFiniteSet(B) /\ Cardinality(B) = Cardinality(A)
    <2> HIDE DEF A, B, add
    <2> QED
      BY <1>1, <1>3, FS_Bijection DEF ExistsBijection
  <1>5. A \cap B = {}
    BY <1>2
  <1>6. SUBSET (1 .. x) = A \cup B
    <2>1. 1 .. x = (1 .. n) \cup {x}
      BY <1>0
    <2>2. ASSUME NEW T \in SUBSET (1 .. x), x \in T PROVE T \in B
      <3>1. T \ {x} \in A /\ T = (T \ {x}) \cup {x}
        BY <2>1, <2>2
      <3> QED
        BY <3>1
    <2>3. ASSUME NEW T \in SUBSET (1 .. x), x \notin T PROVE T \in A
      BY <2>1, <2>3
    <2>4. A \cup B \subseteq SUBSET (1 .. x)
      BY <2>1
    <2> QED
      BY <2>2, <2>3, <2>4
  <1> HIDE DEF A, B
  <1>7. Cardinality(A \cup B) = Cardinality(A) + Cardinality(B) - Cardinality(A \cap B)
    BY <1>1, <1>4, FS_Union
  <1>8. Cardinality(A \cap B) = 0
    BY <1>5, FS_EmptySet
  <1>9. Cardinality(A \cup B) = 2 * 2 ^ n
    BY <1>1, <1>4, <1>7, <1>8
  <1>10. 2 ^ x = 2 * 2 ^ n
    BY <1>1, <1>6, <1>9
  <1> QED
    BY <1>10 DEF x

\* Powers grow.
LEMMA PowersGrow ==
    ASSUME NEW a \in Nat, NEW b \in Nat, a <= b
    PROVE  2 ^ a <= 2 ^ b
  <1> DEFINE T == {k \in Nat : a <= k /\ ~(2 ^ a <= 2 ^ k)}
  <1> SUFFICES ASSUME T # {} PROVE FALSE
    OBVIOUS
  <1>1. PICK k \in T : \A j \in T : k <= j
    BY LeastNatural
  <1>2. k # a
    BY <1>1, PowerCounts
  <1>3. k - 1 \in Nat /\ a <= k - 1
    BY <1>1, <1>2
  <1>4. 2 ^ a <= 2 ^ (k - 1)
    BY <1>1, <1>3
  <1>5. /\ 2 ^ ((k - 1) + 1) = 2 * 2 ^ (k - 1)
        /\ 2 ^ (k - 1) \in Nat /\ 2 ^ a \in Nat
    BY <1>3, PowerNext, PowerCounts
  <1>6. (k - 1) + 1 = k
    BY <1>1
  <1> QED
    BY <1>1, <1>4, <1>5, <1>6

\* Exponents add.
LEMMA PowersMultiply ==
    ASSUME NEW a \in Nat, NEW b \in Nat
    PROVE  2 ^ (a + b) = 2 ^ a * 2 ^ b
  <1> DEFINE T == {k \in Nat : 2 ^ (a + k) # 2 ^ a * 2 ^ k}
  <1> SUFFICES ASSUME T # {} PROVE FALSE
    OBVIOUS
  <1>1. PICK k \in T : \A j \in T : k <= j
    BY LeastNatural
  <1>2. 2 ^ a \in Nat
    BY PowerCounts
  <1>3. k # 0
    <2>1. a + 0 = a /\ 2 ^ a * 1 = 2 ^ a
      BY <1>2
    <2> QED
      BY <1>1, <2>1, PowerZero
  <1> DEFINE j == k - 1
  <1>4. j \in Nat /\ j + 1 = k /\ (a + j) + 1 = a + k /\ a + j \in Nat
    BY <1>1, <1>3
  <1>5. 2 ^ (a + j) = 2 ^ a * 2 ^ j
    BY <1>1, <1>4
  <1> HIDE DEF j
  <1>6. 2 ^ k = 2 * 2 ^ j /\ 2 ^ (a + k) = 2 * 2 ^ (a + j) /\ 2 ^ j \in Nat
    BY <1>4, PowerNext, PowerCounts, Zenon
  <1>7. 2 ^ a * (2 * 2 ^ j) = 2 * (2 ^ a * 2 ^ j)
    <2> DEFINE p == 2 ^ a
               q == 2 ^ j
    <2>1. p \in Nat /\ q \in Nat
      BY <1>2, <1>6
    <2> HIDE DEF p, q
    <2>2. p * (2 * q) = 2 * (p * q)
      BY <2>1
    <2> QED
      BY <2>2 DEF p, q
  <1> QED
    BY <1>1, <1>5, <1>6, <1>7

----------------------------------------------------------------------------
\* Division by a positive number.
LEMMA Quotient ==
    ASSUME NEW a \in Nat, NEW m \in Nat \ {0}
    PROVE  /\ a \div m \in Nat /\ a % m \in 0 .. m - 1
           /\ (a \div m) * m <= a /\ a < ((a \div m) + 1) * m
  <1> DEFINE q == a \div m
             r == a % m
  <1>1. q \in Int /\ r \in 0 .. m - 1 /\ a = m * q + r
    OBVIOUS
  <1> HIDE DEF q, r
  <1>2. q >= 0
    <2>1. CASE q <= -1
      <3>1. m * q <= -m
        BY <1>1, <2>1
      <3> QED
        BY <1>1, <3>1
    <2> QED
      BY <1>1, <2>1
  <1>3. q * m = m * q /\ (q + 1) * m = m * q + m
    BY <1>1
  <1>4. q \in Nat /\ q * m <= a /\ a < (q + 1) * m
    BY <1>1, <1>2, <1>3
  <1> QED
    BY <1>1, <1>4 DEF q, r

\* Multiples of m are at least m apart.
LEMMA Multiples ==
    ASSUME NEW q \in Nat, NEW p \in Nat, NEW m \in Nat \ {0}, q < p
    PROVE  (q + 1) * m <= p * m
  <1> DEFINE d == p - (q + 1)
  <1>1. d \in Nat /\ p = (q + 1) + d
    OBVIOUS
  <1> HIDE DEF d
  <1>2. p * m = (q + 1) * m + d * m /\ d * m \in Nat /\ (q + 1) * m \in Nat
    BY <1>1
  <1> QED
    BY <1>2

LEMMA QuotientIs ==
    ASSUME NEW a \in Nat, NEW m \in Nat \ {0}, NEW q \in Nat, q * m <= a, a < (q + 1) * m
    PROVE  a \div m = q
  <1> DEFINE p == a \div m
  <1>1. p \in Nat /\ p * m <= a /\ a < (p + 1) * m
    BY Quotient
  <1> HIDE DEF p
  <1>2. p * m \in Nat /\ q * m \in Nat /\ (p + 1) * m \in Nat /\ (q + 1) * m \in Nat
    BY <1>1
  <1>3. ~(p < q)
    BY <1>1, <1>2, Multiples
  <1>4. ~(q < p)
    BY <1>1, <1>2, Multiples
  <1>5. p = q
    BY <1>1, <1>3, <1>4
  <1> QED
    BY <1>5 DEF p

LEMMA RemainderIs ==
    ASSUME NEW k \in Nat, NEW m \in Nat \ {0}, NEW r \in 0 .. m - 1
    PROVE  (k * m + r) \div m = k /\ (k * m + r) % m = r
  <1> DEFINE a == k * m + r
  <1>1. a \in Nat /\ k * m <= a /\ a < (k + 1) * m
    <2>1. k * m \in Nat /\ (k + 1) * m = k * m + m
      OBVIOUS
    <2> QED
      BY <2>1
  <1>2. a = k * m + r
    OBVIOUS
  <1> HIDE DEF a
  <1>3. a \div m = k
    BY <1>1, QuotientIs
  <1>4. a = m * (a \div m) + (a % m) /\ a % m \in Int
    BY <1>1
  <1>5. a % m = r
    <2>1. m * k = k * m /\ k * m \in Int
      OBVIOUS
    <2> QED
      BY <1>2, <1>3, <1>4, <2>1
  <1> QED
    BY <1>3, <1>5 DEF a

----------------------------------------------------------------------------
\* Recursion on the naturals: g starts at base and goes on as step says, up to m.
Recurs(T, base, step, m, g) ==
    g \in [0 .. m -> T] /\ g[0] = base /\ \A n \in 0 .. m - 1 : g[n + 1] = step[n][g[n]]

LEMMA RecursionUpTo ==
    ASSUME NEW T, NEW base \in T, NEW step \in [Nat -> [T -> T]], NEW m \in Nat
    PROVE  \E g : Recurs(T, base, step, m, g)
  <1> DEFINE Missing == {k \in Nat : ~\E g : Recurs(T, base, step, k, g)}
  <1> SUFFICES ASSUME Missing # {} PROVE FALSE
    OBVIOUS
  <1>1. PICK k \in Missing : \A j \in Missing : k <= j
    <2> HIDE DEF Missing
    <2>1. Missing \in SUBSET Nat
      BY DEF Missing
    <2> QED
      BY <2>1, LeastNatural
  <1>2. k \in Nat /\ ~\E g : Recurs(T, base, step, k, g)
    OBVIOUS
  <1>3. CASE k = 0
    <2> DEFINE g == [n \in 0 .. 0 |-> base]
    <2>1. Recurs(T, base, step, 0, g)
      BY DEF Recurs
    <2> QED
      BY <1>2, <1>3, <2>1
  <1>4. CASE k # 0
    <2>1. k - 1 \in Nat /\ ~(k <= k - 1)
      BY <1>2, <1>4
    <2>2. \E g : Recurs(T, base, step, k - 1, g)
      BY <1>1, <2>1
    <2>3. PICK g : Recurs(T, base, step, k - 1, g)
      BY <2>2
    <2>4. /\ g \in [0 .. k - 1 -> T] /\ g[0] = base
          /\ \A n \in 0 .. (k - 1) - 1 : g[n + 1] = step[n][g[n]]
      BY <2>3 DEF Recurs
    <2> DEFINE last == step[k - 1][g[k - 1]]
               h == [n \in 0 .. k |-> IF n = k THEN last ELSE g[n]]
    <2>5. last \in T
      BY <2>1, <2>4
    <2>6. /\ h \in [0 .. k -> T] /\ h[0] = base /\ h[k] = last
          /\ \A n \in 0 .. k - 1 : h[n] = g[n]
      BY <1>2, <1>4, <2>4, <2>5
    <2>7. ASSUME NEW n \in 0 .. k - 1 PROVE h[n + 1] = step[n][h[n]]
      <3>1. CASE n = k - 1
        <4>1. n + 1 = k /\ h[n] = g[k - 1]
          BY <1>2, <2>6, <3>1
        <4> QED
          BY <2>6, <3>1, <4>1
      <3>2. CASE n # k - 1
        <4>1. n \in 0 .. (k - 1) - 1 /\ n + 1 \in 0 .. k - 1
          BY <1>2, <3>2
        <4> HIDE DEF h
        <4> QED
          BY <2>4, <2>6, <4>1
      <3> QED
        BY <3>1, <3>2
    <2> HIDE DEF h, last
    <2>8. Recurs(T, base, step, k, h)
      BY <2>6, <2>7 DEF Recurs
    <2> QED
      BY <1>2, <2>8
  <1> QED
    BY <1>3, <1>4

LEMMA RecursionAgrees ==
    ASSUME NEW T, NEW base, NEW step, NEW m \in Nat, NEW k \in Nat, NEW g, NEW h,
           Recurs(T, base, step, m, g), Recurs(T, base, step, k, h),
           NEW n \in Nat, n <= m, n <= k
    PROVE  g[n] = h[n]
  <1> DEFINE Apart == {i \in Nat : i <= m /\ i <= k /\ g[i] # h[i]}
  <1> SUFFICES ASSUME Apart # {} PROVE FALSE
    OBVIOUS
  <1>1. PICK i \in Apart : \A j \in Apart : i <= j
    <2> HIDE DEF Apart
    <2>1. Apart \in SUBSET Nat
      BY DEF Apart
    <2> QED
      BY <2>1, LeastNatural
  <1>2. i \in Nat /\ i <= m /\ i <= k /\ g[i] # h[i]
    OBVIOUS
  <1>3. i # 0
    BY <1>2 DEF Recurs
  <1>4. i - 1 \in Nat /\ i - 1 <= m /\ i - 1 <= k /\ ~(i <= i - 1)
        /\ i - 1 \in 0 .. m - 1 /\ i - 1 \in 0 .. k - 1 /\ (i - 1) + 1 = i
    BY <1>2, <1>3
  <1>5. g[i - 1] = h[i - 1]
    BY <1>1, <1>4
  <1>6. g[i] = step[i - 1][g[i - 1]]
    BY <1>4 DEF Recurs
  <1>7. h[i] = step[i - 1][h[i - 1]]
    BY <1>4 DEF Recurs
  <1> QED
    BY <1>2, <1>5, <1>6, <1>7

\* And for ever.
Iterates(T, base, step, g) ==
    g \in [Nat -> T] /\ g[0] = base /\ \A n \in Nat : g[n + 1] = step[n][g[n]]

LEMMA Recursion ==
    ASSUME NEW T, NEW base \in T, NEW step \in [Nat -> [T -> T]]
    PROVE  \E g : Iterates(T, base, step, g)
  <1> DEFINE Up(m) == CHOOSE g : Recurs(T, base, step, m, g)
             G == [m \in Nat |-> Up(m)[m]]
  <1>1. ASSUME NEW m \in Nat PROVE Recurs(T, base, step, m, Up(m))
    BY RecursionUpTo
  <1> HIDE DEF Up
  <1>2. ASSUME NEW m \in Nat PROVE Up(m)[m] \in T
    <2>1. Recurs(T, base, step, m, Up(m)) /\ m \in 0 .. m
      BY <1>1
    <2> QED
      BY <2>1 DEF Recurs
  <1>3. G \in [Nat -> T]
    BY <1>2
  <1>4. G[0] = base
    <2>1. Recurs(T, base, step, 0, Up(0)) /\ G[0] = Up(0)[0]
      BY <1>1
    <2> QED
      BY <2>1 DEF Recurs
  <1>5. ASSUME NEW n \in Nat PROVE G[n + 1] = step[n][G[n]]
    <2>1. n + 1 \in Nat /\ n \in 0 .. (n + 1) - 1 /\ n <= n + 1 /\ n <= n
      OBVIOUS
    <2>2. Recurs(T, base, step, n + 1, Up(n + 1)) /\ Recurs(T, base, step, n, Up(n))
      BY <1>1, <2>1
    <2>3. Up(n + 1)[n] = Up(n)[n]
      BY <2>1, <2>2, RecursionAgrees
    <2>4. Up(n + 1)[n + 1] = step[n][Up(n + 1)[n]]
      BY <2>1, <2>2 DEF Recurs
    <2>5. G[n + 1] = Up(n + 1)[n + 1] /\ G[n] = Up(n)[n]
      BY <2>1
    <2> QED
      BY <2>3, <2>4, <2>5
  <1> HIDE DEF G
  <1> QED
    BY <1>3, <1>4, <1>5 DEF Iterates

----------------------------------------------------------------------------
\* Parts of sequences.

LEMMA SliceIs ==
    ASSUME NEW S, NEW s \in Seq(S), NEW p \in Seq(S), NEW a \in Nat, a + Len(p) <= Len(s),
           \A j \in 1 .. Len(p) : s[a + j] = p[j]
    PROVE  SubSeq(s, a + 1, a + Len(p)) = p
  <1> DEFINE n == Len(p)
             x == SubSeq(s, a + 1, a + n)
  <1>1. n \in Nat /\ Len(s) \in Nat
    OBVIOUS
  <1>2. \A i \in a + 1 .. a + n : s[i] \in S
    OBVIOUS
  <1>3. x \in Seq(S) /\ Len(x) = n /\ \A j \in 1 .. n : x[j] = s[a + j]
    BY <1>1, <1>2, SubSeqProperties
  <1> HIDE DEF x
  <1>4. x = p
    BY <1>3, SeqEqual
  <1> QED
    BY <1>4 DEF x

LEMMA Joined ==
    ASSUME NEW S, NEW s \in Seq(S), NEW t \in Seq(S), NEW u, u = s \o t
    PROVE  /\ Len(s) \in Nat /\ Len(t) \in Nat /\ Len(u) = Len(s) + Len(t)
           /\ \A o \in 1 .. Len(s) : u[o] = s[o]
           /\ \A o \in 1 .. Len(t) : u[Len(s) + o] = t[o]
  <1>1. Len(s) \in Nat /\ Len(t) \in Nat
    OBVIOUS
  <1>2. /\ Len(s \o t) = Len(s) + Len(t)
        /\ \A o \in 1 .. Len(s) + Len(t) :
              (s \o t)[o] = IF o <= Len(s) THEN s[o] ELSE t[o - Len(s)]
    BY ConcatProperties
  <1>3. ASSUME NEW o \in 1 .. Len(s) PROVE u[o] = s[o]
    <2>1. o \in 1 .. Len(s) + Len(t) /\ o <= Len(s)
      BY <1>1
    <2> QED
      BY <1>2, <2>1
  <1>4. ASSUME NEW o \in 1 .. Len(t) PROVE u[Len(s) + o] = t[o]
    <2>1. Len(s) + o \in 1 .. Len(s) + Len(t) /\ ~(Len(s) + o <= Len(s)) /\ (Len(s) + o) - Len(s) = o
      BY <1>1
    <2> QED
      BY <1>2, <2>1
  <1> QED
    BY <1>1, <1>2, <1>3, <1>4
=============================================================================
