--------------------------- MODULE RetrievalProofs ---------------------------
(***************************************************************************)
(* What holds of Retrieval for any chunks, users and requests, whatever    *)
(* the two indexes answer and whatever the limits and weights.             *)
(***************************************************************************)
EXTENDS Retrieval, ListProofs, FiniteSetTheorems

-----------------------------------------------------------------------------
(* Scores *)

\* A score is a fraction.
Fraction == Nat \X (Nat \ {0})

\* Products keep the order of their factors, and show it.
LEMMA ProductOrder ==
    ASSUME NEW a \in Nat, NEW b \in Nat, NEW k \in Nat
    PROVE  /\ a * k \in Nat
           /\ a <= b => a * k <= b * k
           /\ a < b /\ k # 0 => a * k < b * k
           /\ a * k < b * k => a < b
OBVIOUS

\* Fractions are in a linear order, but for the equal ones.
LEMMA AboveOrders ==
    ASSUME NEW x \in Fraction, NEW y \in Fraction, NEW z \in Fraction
    PROVE  /\ Above(x, y) => ~Above(y, x)
           /\ ~Above(y, x) /\ ~Above(z, y) => ~Above(z, x)
           /\ Above(x, y) /\ ~Above(z, y) => Above(x, z)
           /\ ~Above(y, x) /\ Above(y, z) => Above(x, z)
<1> DEFINE a == x[1]
           b == x[2]
           c == y[1]
           d == y[2]
           e == z[1]
           f == z[2]
<1>1. /\ a \in Nat /\ b \in Nat \ {0} /\ c \in Nat /\ d \in Nat \ {0} /\ e \in Nat /\ f \in Nat \ {0}
  BY DEF Fraction
<1>2. /\ Above(x, y) <=> a * d > c * b
      /\ Above(y, x) <=> c * b > a * d
      /\ Above(y, z) <=> c * f > e * d
      /\ Above(z, y) <=> e * d > c * f
      /\ Above(x, z) <=> a * f > e * b
      /\ Above(z, x) <=> e * b > a * f
  BY DEF Above
<1> HIDE DEF a, b, c, d, e, f
<1>3. a * d \in Nat /\ c * b \in Nat /\ c * f \in Nat /\ e * d \in Nat /\ a * f \in Nat /\ e * b \in Nat
  BY <1>1
<1>4. /\ (a * d) * f = (a * f) * d /\ (c * b) * f = (c * f) * b /\ (e * d) * b = (e * b) * d
  BY <1>1
<1>5. ASSUME a * d >= c * b, c * f >= e * d PROVE a * f >= e * b
  <2>1. (a * d) * f >= (c * b) * f /\ (c * f) * b >= (e * d) * b
    BY <1>1, <1>3, <1>5, ProductOrder
  <2>2. (a * f) * d >= (e * b) * d
    BY <1>3, <1>4, <2>1, <1>1, ProductOrder
  <2> QED
    BY <1>1, <1>3, <2>2, ProductOrder
<1>6. ASSUME a * d > c * b, c * f >= e * d PROVE a * f > e * b
  <2>1. (a * d) * f > (c * b) * f /\ (c * f) * b >= (e * d) * b
    BY <1>1, <1>3, <1>6, ProductOrder
  <2>2. (a * f) * d > (e * b) * d
    BY <1>3, <1>4, <2>1, <1>1, ProductOrder
  <2> QED
    BY <1>1, <1>3, <2>2, ProductOrder
<1>7. ASSUME a * d >= c * b, c * f > e * d PROVE a * f > e * b
  <2>1. (a * d) * f >= (c * b) * f /\ (c * f) * b > (e * d) * b
    BY <1>1, <1>3, <1>7, ProductOrder
  <2>2. (a * f) * d > (e * b) * d
    BY <1>3, <1>4, <2>1, <1>1, ProductOrder
  <2> QED
    BY <1>1, <1>3, <2>2, ProductOrder
<1> QED
  BY <1>2, <1>3, <1>5, <1>6, <1>7

\* The sum of fractions is one, and is not below a sum of smaller ones; it is
\* above it if one of them is above.
LEMMA PlusOrders ==
    ASSUME NEW x \in Fraction, NEW y \in Fraction, NEW u \in Fraction, NEW v \in Fraction
    PROVE  /\ Plus(x, u) \in Fraction
           /\ ~Above(y, x) /\ ~Above(v, u) => ~Above(Plus(y, v), Plus(x, u))
           /\ Above(x, y) /\ ~Above(v, u) => Above(Plus(x, u), Plus(y, v))
           /\ ~Above(y, x) /\ Above(u, v) => Above(Plus(x, u), Plus(y, v))
<1> DEFINE a == x[1]
           b == x[2]
           c == u[1]
           d == u[2]
           e == y[1]
           f == y[2]
           g == v[1]
           h == v[2]
<1>1. /\ a \in Nat /\ b \in Nat \ {0} /\ c \in Nat /\ d \in Nat \ {0}
      /\ e \in Nat /\ f \in Nat \ {0} /\ g \in Nat /\ h \in Nat \ {0}
  BY DEF Fraction
<1>2. /\ Plus(x, u) = <<a * d + c * b, b * d>> /\ Plus(y, v) = <<e * h + g * f, f * h>>
      /\ Above(x, y) <=> a * f > e * b
      /\ Above(y, x) <=> e * b > a * f
      /\ Above(u, v) <=> c * h > g * d
      /\ Above(v, u) <=> g * d > c * h
      /\ Above(Plus(x, u), Plus(y, v)) <=> (a * d + c * b) * (f * h) > (e * h + g * f) * (b * d)
      /\ Above(Plus(y, v), Plus(x, u)) <=> (e * h + g * f) * (b * d) > (a * d + c * b) * (f * h)
  BY DEF Plus, Above
<1> HIDE DEF a, b, c, d, e, f, g, h
<1>3. /\ a * f \in Nat /\ e * b \in Nat /\ c * h \in Nat /\ g * d \in Nat
      /\ d * h \in Nat \ {0} /\ b * f \in Nat \ {0} /\ b * d \in Nat \ {0}
      /\ a * d + c * b \in Nat /\ (a * d + c * b) * (f * h) \in Nat /\ (e * h + g * f) * (b * d) \in Nat
  BY <1>1
<1>4. /\ (a * d + c * b) * (f * h) = (a * f) * (d * h) + (c * h) * (b * f)
      /\ (e * h + g * f) * (b * d) = (e * b) * (d * h) + (g * d) * (b * f)
  BY <1>1
<1>5. /\ (a * f) * (d * h) \in Nat /\ (c * h) * (b * f) \in Nat
      /\ (e * b) * (d * h) \in Nat /\ (g * d) * (b * f) \in Nat
  BY <1>3, ProductOrder
<1>6. /\ a * f >= e * b => (a * f) * (d * h) >= (e * b) * (d * h)
      /\ a * f > e * b => (a * f) * (d * h) > (e * b) * (d * h)
      /\ c * h >= g * d => (c * h) * (b * f) >= (g * d) * (b * f)
      /\ c * h > g * d => (c * h) * (b * f) > (g * d) * (b * f)
  BY <1>3, ProductOrder
<1>7. Plus(x, u) \in Fraction
  BY <1>2, <1>3 DEF Fraction
<1> QED
  BY <1>2, <1>3, <1>4, <1>5, <1>6, <1>7

-----------------------------------------------------------------------------
(* The sort *)

\* Rows with a score, one for each id.
Grouped(rows) ==
    /\ IsFiniteSet(rows)
    /\ \A x \in rows : x.id \in Nat /\ x.score \in Fraction
    /\ \A x, y \in rows : x.id = y.id => x = y

\* Of any two, one goes before the other.
LEMMA BeforeOrders ==
    ASSUME NEW rows, Grouped(rows), NEW x \in rows, NEW y \in rows, NEW z \in rows
    PROVE  /\ ~Before(x, x)
           /\ Before(x, y) /\ Before(y, z) => Before(x, z)
           /\ x # y => Before(x, y) \/ Before(y, x)
<1>1. /\ x.id \in Nat /\ y.id \in Nat /\ z.id \in Nat /\ (x # y => x.id # y.id)
      /\ x.score \in Fraction /\ y.score \in Fraction /\ z.score \in Fraction
  BY DEF Grouped
<1>2. ~Before(x, x)
  BY <1>1, AboveOrders DEF Before
<1>3. ASSUME Before(x, y), Before(y, z) PROVE Before(x, z)
  <2>1. ~Above(y.score, x.score) /\ ~Above(z.score, y.score)
    BY <1>1, <1>3, AboveOrders DEF Before
  <2>2. CASE Above(x.score, y.score) \/ Above(y.score, z.score)
    BY <1>1, <2>1, <2>2, AboveOrders DEF Before
  <2>3. CASE x.id < y.id /\ y.id < z.id
    BY <1>1, <2>1, <2>3, AboveOrders DEF Before
  <2> QED
    BY <1>3, <2>2, <2>3 DEF Before
<1>4. x # y => Before(x, y) \/ Before(y, x)
  BY <1>1 DEF Before
<1> QED
  BY <1>2, <1>3, <1>4

\* The rows that go before x.
Ahead(x, rows) == {y \in rows : Before(y, x)}
Rank(x, rows) == Cardinality(Ahead(x, rows)) + 1

\* The rank of a row is less than that of the rows behind it, and the only place
\* it may stand at.
LEMMA RankOrders ==
    ASSUME NEW rows, Grouped(rows), NEW x \in rows
    PROVE  /\ Cardinality(rows) \in Nat /\ Rank(x, rows) \in 1..Cardinality(rows)
           /\ \A y \in rows : Before(x, y) <=> Rank(x, rows) < Rank(y, rows)
           /\ \A k \in Nat : StandsAt(x, k, rows) <=> k = Rank(x, rows)
<1> DEFINE n == Cardinality(rows)
<1>1. IsFiniteSet(rows) /\ n \in Nat
  BY FS_CardinalityType DEF Grouped
<1>2. ASSUME NEW y \in rows
      PROVE  /\ IsFiniteSet(Ahead(y, rows)) /\ y \notin Ahead(y, rows)
             /\ Ahead(y, rows) \cup {y} \subseteq rows
             /\ Cardinality(Ahead(y, rows)) \in Nat
             /\ IsFiniteSet(Ahead(y, rows) \cup {y})
             /\ Cardinality(Ahead(y, rows) \cup {y}) = Rank(y, rows)
             /\ Rank(y, rows) \in Nat /\ Rank(y, rows) \in 1..n
  <2>1. Ahead(y, rows) \subseteq rows /\ y \notin Ahead(y, rows)
    BY BeforeOrders DEF Ahead
  <2>2. IsFiniteSet(Ahead(y, rows)) /\ Cardinality(Ahead(y, rows)) \in Nat
    BY <1>1, <2>1, FS_Subset, FS_CardinalityType
  <2>3. /\ IsFiniteSet(Ahead(y, rows) \cup {y})
        /\ Cardinality(Ahead(y, rows) \cup {y}) = Rank(y, rows)
    BY <2>1, <2>2, FS_AddElement DEF Rank
  <2>4. Ahead(y, rows) \cup {y} \subseteq rows
    BY <2>1
  <2>5. Cardinality(Ahead(y, rows) \cup {y}) <= n
    BY <1>1, <2>4, FS_Subset
  <2> QED
    BY <1>1, <2>1, <2>2, <2>3, <2>4, <2>5 DEF Rank
<1>3. ASSUME NEW y \in rows, NEW z \in rows, Before(y, z)
      PROVE  Rank(y, rows) < Rank(z, rows)
  <2>1. Ahead(y, rows) \cup {y} \subseteq Ahead(z, rows)
    BY <1>3, BeforeOrders DEF Ahead
  <2>2. Cardinality(Ahead(y, rows) \cup {y}) <= Cardinality(Ahead(z, rows))
    BY <1>2, <2>1, FS_Subset
  <2>3. Rank(z, rows) = Cardinality(Ahead(z, rows)) + 1
    BY DEF Rank
  <2>4. Rank(y, rows) <= Cardinality(Ahead(z, rows)) /\ Cardinality(Ahead(z, rows)) \in Nat
    BY <1>2, <2>2
  <2>5. Rank(y, rows) \in Nat
    BY <1>2
  <2> QED
    BY <2>3, <2>4, <2>5
<1>4. ASSUME NEW y \in rows, Rank(x, rows) < Rank(y, rows) PROVE Before(x, y)
  <2>1. x # y /\ ~(Rank(y, rows) < Rank(x, rows))
    <3>1. Rank(x, rows) \in Nat /\ Rank(y, rows) \in Nat
      BY <1>2
    <3> QED
      BY <1>4, <3>1
  <2> QED
    BY <1>3, <2>1, BeforeOrders
<1>5. {y \in rows : ~Before(x, y)} = Ahead(x, rows) \cup {x}
  <2>1. \A y \in rows : ~Before(x, y) <=> Before(y, x) \/ y = x
    BY BeforeOrders
  <2> QED
    BY <2>1 DEF Ahead
<1>6. ASSUME NEW k \in Nat PROVE StandsAt(x, k, rows) <=> k = Rank(x, rows)
  <2>1. StandsAt(x, k, rows) <=> Cardinality(Ahead(x, rows)) < k /\ k <= Rank(x, rows)
    BY <1>2, <1>5 DEF StandsAt, Ahead
  <2>2. Rank(x, rows) = Cardinality(Ahead(x, rows)) + 1 /\ Cardinality(Ahead(x, rows)) \in Nat
    BY <1>2 DEF Rank
  <2> QED
    BY <2>1, <2>2
<1> QED
  BY <1>1, <1>2, <1>3, <1>4, <1>6

\* What $sort makes of grouped rows: all of them, each before those it goes before.
LEMMA SortedOrders ==
    ASSUME NEW rows, Grouped(rows), NEW s, s = Sorted(rows), NEW n, n = Cardinality(rows)
    PROVE  /\ n \in Nat /\ s \in Seq(rows) /\ Len(s) = n
           /\ \A i, j \in 1..n : i < j => Before(s[i], s[j])
           /\ \A x \in rows : s[Rank(x, rows)] = x
<1> DEFINE f == [x \in rows |-> Rank(x, rows)]
<1>1. IsFiniteSet(rows) /\ n \in Nat
  BY FS_CardinalityType DEF Grouped
<1>2. f \in Injection(rows, 1..n)
  <2>1. f \in [rows -> 1..n]
    BY RankOrders
  <2>2. ASSUME NEW x \in rows, NEW y \in rows, f[x] = f[y] PROVE x = y
    <3>1. Rank(x, rows) = Rank(y, rows) /\ Rank(x, rows) \in Nat
      BY <1>1, <2>2, RankOrders
    <3>2. ~Before(x, y) /\ ~Before(y, x)
      BY <3>1, RankOrders
    <3> QED
      BY <3>2, BeforeOrders
  <2> HIDE DEF f
  <2> QED
    BY <2>1, <2>2 DEF Injection, IsInjective
<1>3. f \in Surjection(rows, 1..n)
  <2>1. IsFiniteSet(1..n) /\ Cardinality(1..n) = n
    BY <1>1, FS_Interval
  <2> HIDE DEF f
  <2> QED
    BY <1>1, <1>2, <2>1, FS_Injection
<1>4. \A k \in 1..n : \E x \in rows : Rank(x, rows) = k
  BY <1>3 DEF Surjection
<1>5. ASSUME NEW k \in 1..n
      PROVE  s[k] \in rows /\ Rank(s[k], rows) = k
  <2>1. s[k] = CHOOSE x \in rows : StandsAt(x, k, rows)
    BY DEF Sorted
  <2>2. \E x \in rows : StandsAt(x, k, rows)
    BY <1>1, <1>4, RankOrders
  <2>3. s[k] \in rows /\ StandsAt(s[k], k, rows)
    BY <2>1, <2>2
  <2> QED
    BY <1>1, <2>3, RankOrders
<1>6. s \in Seq(rows) /\ Len(s) = n
  <2>1. DOMAIN s = 1..n /\ s = [k \in 1..n |-> s[k]]
    BY DEF Sorted
  <2>2. s \in [1..n -> rows]
    BY <1>5, <2>1
  <2> QED
    BY <1>1, <2>2
<1>7. \A i, j \in 1..n : i < j => Before(s[i], s[j])
  BY <1>5, RankOrders
<1>8. ASSUME NEW x \in rows PROVE s[Rank(x, rows)] = x
  <2>1. Rank(x, rows) \in 1..n
    BY RankOrders
  <2>2. Rank(s[Rank(x, rows)], rows) = Rank(x, rows) /\ s[Rank(x, rows)] \in rows
    BY <1>5, <2>1
  <2> QED
    BY <1>2, <2>2 DEF Injection, IsInjective
<1> QED
  BY <1>1, <1>6, <1>7, <1>8

-----------------------------------------------------------------------------
(* The legs *)

\* A ranking lists each chunk once.
Ranking == {r \in Seq(Chunks) : \A i, j \in 1..Len(r) : r[i] = r[j] => i = j}

\* The chunks of a ranking are those it has a rank for.
LEMMA RankOf ==
    ASSUME NEW r \in Ranking
    PROVE  /\ r \in Seq(Chunks) /\ Len(r) \in Nat /\ ToSet(r) = {r[i] : i \in 1..Len(r)}
           /\ \A c \in ToSet(r) : c \in Chunks /\ RankIn(r, c) \in 1..Len(r) /\ r[RankIn(r, c)] = c
           /\ \A i \in 1..Len(r) : r[i] \in ToSet(r) /\ RankIn(r, r[i]) = i
<1>1. r \in Seq(Chunks) /\ Len(r) \in Nat /\ DOMAIN r = 1..Len(r)
      /\ \A i \in 1..Len(r) : r[i] \in Chunks
  BY DEF Ranking
<1>2. ToSet(r) = {r[i] : i \in 1..Len(r)}
  BY <1>1 DEF ToSet
<1>3. ASSUME NEW c \in ToSet(r)
      PROVE  RankIn(r, c) \in 1..Len(r) /\ r[RankIn(r, c)] = c
  <2>1. \E i \in DOMAIN r : r[i] = c
    BY <1>1, <1>2
  <2> QED
    BY <1>1, <2>1 DEF RankIn
<1>4. ASSUME NEW i \in 1..Len(r) PROVE r[i] \in ToSet(r) /\ RankIn(r, r[i]) = i
  <2>1. r[i] \in ToSet(r)
    BY <1>2
  <2>2. RankIn(r, r[i]) \in 1..Len(r) /\ r[RankIn(r, r[i])] = r[i]
    BY <1>3, <2>1
  <2> QED
    BY <2>1, <2>2 DEF Ranking
<1> QED
  BY <1>1, <1>2, <1>3, <1>4

\* The first n of a list are the list, up to there.
LEMMA FirstFacts ==
    ASSUME NEW S, NEW s \in Seq(S), NEW n \in Nat
    PROVE  /\ First(n, s) \in Seq(S) /\ Len(First(n, s)) = Least(n, Len(s))
           /\ Least(n, Len(s)) \in Nat /\ Least(n, Len(s)) <= n /\ Least(n, Len(s)) <= Len(s)
           /\ \A i \in 1..Least(n, Len(s)) : i \in 1..Len(s) /\ First(n, s)[i] = s[i]
<1> DEFINE m == Least(n, Len(s))
<1>1. m \in Nat /\ m <= Len(s) /\ m <= n /\ Len(s) \in Nat /\ \A i \in 1..Len(s) : s[i] \in S
  BY DEF Least
<1>2. First(n, s) = SubSeq(s, 1, m)
  BY DEF First
<1> HIDE DEF m
<1>3. \A i \in 1..m : i \in 1..Len(s) /\ s[i] \in S
  BY <1>1
<1>4. /\ SubSeq(s, 1, m) \in Seq(S) /\ Len(SubSeq(s, 1, m)) = m
      /\ \A i \in 1..m : SubSeq(s, 1, m)[i] = s[i]
  BY <1>1, <1>3, SubSeqProperties
<1>5. /\ First(n, s) \in Seq(S) /\ Len(First(n, s)) = m /\ m \in Nat /\ m <= n /\ m <= Len(s)
      /\ \A i \in 1..m : i \in 1..Len(s) /\ First(n, s)[i] = s[i]
  BY <1>1, <1>2, <1>3, <1>4
<1> QED
  BY <1>5 DEF m

\* A selection of a ranking is one, in the same order.
LEMMA OnlyRanks ==
    ASSUME NEW r \in Ranking, NEW A, NEW kept, kept = Only(r, A)
    PROVE  /\ kept \in Ranking /\ ToSet(kept) = ToSet(r) \cap A
           /\ \A x, y \in ToSet(kept) :
                 RankIn(r, x) < RankIn(r, y) => RankIn(kept, x) < RankIn(kept, y)
<1>1. Kept(kept, r, Len(r), A, Chunks)
  BY RankOf, OnlyKeeps
<1>2. kept \in Seq(Chunks) /\ Len(kept) \in Nat /\ Len(r) \in Nat
  BY <1>1, RankOf DEF Kept
<1>3. ASSUME NEW i \in 1..Len(kept), NEW j \in 1..Len(kept), i < j
      PROVE  /\ kept[i] # kept[j]
             /\ RankIn(r, kept[i]) < RankIn(r, kept[j])
  <2>1. PICK m \in 1..Len(r), n \in 1..Len(r) : m < n /\ kept[i] = r[m] /\ kept[j] = r[n]
    BY <1>1, <1>3 DEF Kept
  <2>2. RankIn(r, r[m]) = m /\ RankIn(r, r[n]) = n
    BY RankOf
  <2> QED
    BY <1>2, <2>1, <2>2
<1>4. kept \in Ranking
  <2>1. \A i, j \in 1..Len(kept) : kept[i] = kept[j] => i = j
    BY <1>2, <1>3
  <2> QED
    BY <1>2, <2>1 DEF Ranking
<1>5. ToSet(kept) = ToSet(r) \cap A
  <2>1. ToSet(kept) = {kept[i] : i \in 1..Len(kept)} /\ ToSet(r) = {r[i] : i \in 1..Len(r)}
    BY <1>4, RankOf
  <2>2. \A c \in ToSet(kept) : c \in ToSet(r) /\ c \in A
    BY <1>1, <2>1 DEF Kept
  <2>3. \A c \in ToSet(r) : c \in A => c \in ToSet(kept)
    BY <1>1, <2>1, SMTT(30) DEF Kept
  <2> QED
    BY <2>2, <2>3
<1>6. ASSUME NEW x \in ToSet(kept), NEW y \in ToSet(kept), RankIn(r, x) < RankIn(r, y)
      PROVE  RankIn(kept, x) < RankIn(kept, y)
  <2> DEFINE i == RankIn(kept, x)
             j == RankIn(kept, y)
  <2>1. /\ i \in 1..Len(kept) /\ kept[i] = x
        /\ j \in 1..Len(kept) /\ kept[j] = y
    BY <1>4, RankOf
  <2>2. RankIn(r, x) \in Nat /\ RankIn(r, y) \in Nat
    BY <1>2, <1>5, RankOf
  <2> HIDE DEF i, j
  <2>3. ~(j < i) /\ j # i
    BY <1>3, <1>6, <2>1, <2>2
  <2> QED
    BY <1>2, <2>1, <2>3 DEF i, j
<1> QED
  BY <1>4, <1>5, <1>6

\* A leg keeps the order of its ranking, holds no chunk out of scope, and all in
\* scope if it is not full; whatever stands before one it holds, it holds.
LEMMA LegFacts ==
    ASSUME NEW r \in Ranking, NEW user, NEW document, NEW n \in Nat,
           NEW leg, leg = Leg(r, user, document, n)
    PROVE  /\ leg \in Ranking /\ Len(leg) <= n
           /\ ToSet(leg) \subseteq ToSet(r) \cap Scope(user, document)
           /\ Len(leg) < n => ToSet(leg) = ToSet(r) \cap Scope(user, document)
           /\ \A y \in ToSet(leg), x \in ToSet(r) \cap Scope(user, document) :
                 RankIn(r, x) < RankIn(r, y)
                    => x \in ToSet(leg) /\ RankIn(leg, x) < RankIn(leg, y)
<1> DEFINE kept == Only(r, Scope(user, document))
<1>1. /\ kept \in Ranking /\ ToSet(kept) = ToSet(r) \cap Scope(user, document)
      /\ \A x, y \in ToSet(kept) :
            RankIn(r, x) < RankIn(r, y) => RankIn(kept, x) < RankIn(kept, y)
  BY OnlyRanks
<1>2. leg = First(n, kept)
  BY DEF Leg
<1> HIDE DEF kept
<1>3. kept \in Seq(Chunks) /\ Len(kept) \in Nat
  BY <1>1, RankOf
<1>4. /\ leg \in Seq(Chunks) /\ Len(leg) \in Nat /\ Len(leg) <= n /\ Len(leg) <= Len(kept)
      /\ Len(leg) < n => Len(leg) = Len(kept)
      /\ \A i \in 1..Len(leg) : i \in 1..Len(kept) /\ leg[i] = kept[i]
  BY <1>2, <1>3, FirstFacts DEF Least
<1>5. leg \in Ranking
  BY <1>1, <1>4 DEF Ranking
<1>6. ASSUME NEW c \in ToSet(leg)
      PROVE  c \in ToSet(kept) /\ RankIn(leg, c) = RankIn(kept, c)
  <2>1. RankIn(leg, c) \in 1..Len(leg) /\ leg[RankIn(leg, c)] = c
    BY <1>5, RankOf
  <2> QED
    BY <1>1, <1>4, <2>1, RankOf
<1>7. ASSUME NEW c \in ToSet(kept), RankIn(kept, c) <= Len(leg)
      PROVE  c \in ToSet(leg)
  <2>1. RankIn(kept, c) \in 1..Len(kept) /\ kept[RankIn(kept, c)] = c
    BY <1>1, RankOf
  <2>2. RankIn(kept, c) \in 1..Len(leg)
    BY <1>3, <1>4, <1>7, <2>1
  <2>3. leg[RankIn(kept, c)] \in ToSet(leg)
    BY <1>5, <2>2, RankOf
  <2> QED
    BY <1>4, <2>1, <2>2, <2>3
<1>8. ASSUME Len(leg) < n PROVE ToSet(leg) = ToSet(kept)
  <2>1. \A c \in ToSet(kept) : RankIn(kept, c) <= Len(leg)
    BY <1>1, <1>3, <1>4, <1>8, RankOf
  <2> QED
    BY <1>6, <1>7, <2>1
<1>9. ASSUME NEW y \in ToSet(leg), NEW x \in ToSet(kept), RankIn(r, x) < RankIn(r, y)
      PROVE  x \in ToSet(leg) /\ RankIn(leg, x) < RankIn(leg, y)
  <2>1. /\ RankIn(kept, x) < RankIn(kept, y) /\ RankIn(leg, y) = RankIn(kept, y)
    BY <1>1, <1>6, <1>9
  <2>2. RankIn(leg, y) \in 1..Len(leg) /\ RankIn(kept, x) \in 1..Len(kept)
    BY <1>1, <1>5, RankOf
  <2>3. x \in ToSet(leg)
    BY <1>3, <1>4, <1>7, <2>1, <2>2
  <2> QED
    BY <1>6, <2>1, <2>3
<1> QED
  BY <1>1, <1>4, <1>5, <1>6, <1>8, <1>9

-----------------------------------------------------------------------------
(* The fusion *)

\* A leg's term is a fraction, the greater the better the rank, and least where
\* the leg has not found the chunk.
LEMMA TermOrders ==
    ASSUME NEW leg \in Ranking, NEW weight \in Nat
    PROVE  /\ \A c : Term(leg, weight, c) \in Fraction
           /\ \A x, y : y \notin ToSet(leg) => ~Above(Term(leg, weight, y), Term(leg, weight, x))
           /\ \A x, y \in ToSet(leg) : RankIn(leg, x) < RankIn(leg, y) =>
                 /\ ~Above(Term(leg, weight, y), Term(leg, weight, x))
                 /\ weight > 0 => Above(Term(leg, weight, x), Term(leg, weight, y))
<1>1. RrfK \in Nat
  BY Parameters
<1>2. \A c \in ToSet(leg) : RankIn(leg, c) \in Nat \ {0}
  <2>1. \A i \in 1..Len(leg) : i \in Nat \ {0}
    BY RankOf
  <2> QED
    BY <2>1, RankOf
<1>3. ASSUME NEW c PROVE Term(leg, weight, c) \in Fraction
  <2>1. CASE c \in ToSet(leg)
    BY <1>1, <1>2, <2>1 DEF Term, Fraction
  <2>2. CASE c \notin ToSet(leg)
    BY <2>2 DEF Term, Fraction
  <2> QED
    BY <2>1, <2>2
<1>4. ASSUME NEW x, NEW y, y \notin ToSet(leg)
      PROVE  ~Above(Term(leg, weight, y), Term(leg, weight, x))
  <2>1. Term(leg, weight, y) = <<0, 1>>
    BY <1>4 DEF Term
  <2>2. PICK a \in Nat, b \in Nat \ {0} : Term(leg, weight, x) = <<a, b>>
    BY <1>3 DEF Fraction
  <2> QED
    BY <2>1, <2>2 DEF Above
<1>5. ASSUME NEW x \in ToSet(leg), NEW y \in ToSet(leg), RankIn(leg, x) < RankIn(leg, y)
      PROVE  /\ ~Above(Term(leg, weight, y), Term(leg, weight, x))
             /\ weight > 0 => Above(Term(leg, weight, x), Term(leg, weight, y))
  <2> DEFINE a == RrfK + RankIn(leg, x)
             b == RrfK + RankIn(leg, y)
  <2>1. a \in Nat /\ b \in Nat /\ a < b
    BY <1>1, <1>2, <1>5
  <2>2. Term(leg, weight, x) = <<weight, a>> /\ Term(leg, weight, y) = <<weight, b>>
    BY DEF Term
  <2> HIDE DEF a, b
  <2>3. a * weight <= b * weight /\ (weight > 0 => a * weight < b * weight)
        /\ a * weight \in Nat /\ b * weight \in Nat
        /\ a * weight = weight * a /\ b * weight = weight * b
    BY <2>1, ProductOrder
  <2> QED
    BY <2>2, <2>3 DEF Above
<1> QED
  BY <1>3, <1>4, <1>5

\* So is a row's score.
LEMMA FusedType ==
    ASSUME NEW vectorLeg \in Ranking, NEW textLeg \in Ranking, NEW c
    PROVE  FusedScore(vectorLeg, textLeg, c) \in Fraction
<1>1. VectorWeight \in Nat /\ TextWeight \in Nat
  BY Parameters
<1>2. Term(vectorLeg, VectorWeight, c) \in Fraction /\ Term(textLeg, TextWeight, c) \in Fraction
  BY <1>1, TermOrders
<1> QED
  BY <1>2, PlusOrders DEF FusedScore

\* As many chunks are in a ranking as it is long.
LEMMA RankingCounts ==
    ASSUME NEW r \in Ranking
    PROVE  IsFiniteSet(ToSet(r)) /\ Cardinality(ToSet(r)) = Len(r)
<1> DEFINE f == [i \in 1..Len(r) |-> r[i]]
<1>1. /\ Len(r) \in Nat /\ ToSet(r) = {r[i] : i \in 1..Len(r)}
      /\ \A i, j \in 1..Len(r) : r[i] = r[j] => i = j
  BY RankOf DEF Ranking
<1>2. f \in Bijection(1..Len(r), ToSet(r))
  BY <1>1 DEF Bijection, Injection, Surjection, IsInjective
<1>3. IsFiniteSet(1..Len(r)) /\ Cardinality(1..Len(r)) = Len(r)
  <2>1. Len(r) \in Nat /\ 1 \in Int
    BY RankOf
  <2> QED
    BY <2>1, FS_Interval, SMTT(30)
<1> HIDE DEF f
<1> QED
  BY <1>2, <1>3, FS_Bijection DEF ExistsBijection

\* The chunks either leg found.
Found(vectorLeg, textLeg) == ToSet(vectorLeg) \cup ToSet(textLeg)

\* They make one row each.
LEMMA MergedGrouped ==
    ASSUME NEW vectorLeg \in Ranking, NEW textLeg \in Ranking,
           NEW rows, rows = Merged(vectorLeg, textLeg)
    PROVE  /\ Grouped(rows) /\ IsFiniteSet(Found(vectorLeg, textLeg))
           /\ Cardinality(rows) = Cardinality(Found(vectorLeg, textLeg))
           /\ \A x \in rows : x.id \in Found(vectorLeg, textLeg)
                              /\ x = FusedRow(vectorLeg, textLeg, x.id)
           /\ \A c \in Found(vectorLeg, textLeg) :
                 /\ FusedRow(vectorLeg, textLeg, c) \in rows
                 /\ FusedRow(vectorLeg, textLeg, c).id = c
                 /\ FusedRow(vectorLeg, textLeg, c).score = FusedScore(vectorLeg, textLeg, c)
<1> DEFINE found == Found(vectorLeg, textLeg)
           row(c) == FusedRow(vectorLeg, textLeg, c)
           f == [c \in found |-> row(c)]
<1>1. rows = {row(c) : c \in found}
  BY DEF Merged, Found
<1>2. \A c : row(c).id = c /\ row(c).score = FusedScore(vectorLeg, textLeg, c)
  BY DEF FusedRow, Row
<1>3. IsFiniteSet(found) /\ found \subseteq Nat
  <2>1. ToSet(vectorLeg) \subseteq Nat /\ ToSet(textLeg) \subseteq Nat
    BY RankOf, Parameters
  <2> QED
    BY <2>1, RankingCounts, FS_Union DEF Found
<1> HIDE DEF row, found
<1>4. \A x \in rows : x.id \in found /\ x = row(x.id)
  BY <1>1, <1>2
<1>5. f \in Bijection(found, rows)
  <2>1. f \in [found -> rows]
    BY <1>1
  <2>2. \A c, d \in found : f[c] = f[d] => c = d
    BY <1>2
  <2>3. \A x \in rows : \E c \in found : f[c] = x
    BY <1>1
  <2> HIDE DEF f
  <2> QED
    BY <2>1, <2>2, <2>3 DEF Bijection, Injection, Surjection, IsInjective
<1>6. IsFiniteSet(rows) /\ Cardinality(rows) = Cardinality(found)
  BY <1>3, <1>5, FS_Bijection DEF ExistsBijection
<1>7. Grouped(rows)
  <2>1. ASSUME NEW x \in rows PROVE x.id \in Nat /\ x.score \in Fraction
    <3>1. x.id \in found /\ x.score = FusedScore(vectorLeg, textLeg, x.id)
      BY <1>2, <1>4
    <3>2. FusedScore(vectorLeg, textLeg, x.id) \in Fraction
      BY FusedType
    <3> QED
      BY <1>3, <3>1, <3>2
  <2>2. \A x, y \in rows : x.id = y.id => x = y
    BY <1>4
  <2> QED
    BY <1>6, <2>1, <2>2 DEF Grouped
<1> QED
  BY <1>1, <1>2, <1>3, <1>4, <1>6, <1>7 DEF row, found

\* So many rows, in order, and no other goes before one of them.
ShowsBest(shown, rows, length) ==
    /\ DOMAIN shown = 1..length /\ Len(shown) = length /\ length \in Nat
    /\ \A i \in 1..length : shown[i] \in rows
    /\ \A i, j \in 1..length : i < j => Before(shown[i], shown[j])
    /\ \A x \in rows, k \in 1..length : Before(x, shown[k]) =>
          \E j \in 1..length : j < k /\ shown[j] = x

\* That is what is shown of the fusion.
LEMMA HybridShows ==
    ASSUME NEW vectorLeg \in Ranking, NEW textLeg \in Ranking, NEW n \in Nat,
           NEW rows, rows = Merged(vectorLeg, textLeg), NEW shown, shown = First(n, Sorted(rows))
    PROVE  ShowsBest(shown, rows, Least(n, Cardinality(Found(vectorLeg, textLeg))))
<1> DEFINE s == Sorted(rows)
           m == Cardinality(rows)
<1>1. Grouped(rows) /\ m = Cardinality(Found(vectorLeg, textLeg))
  BY MergedGrouped
<1>2. /\ m \in Nat /\ s \in Seq(rows) /\ Len(s) = m
      /\ \A i, j \in 1..m : i < j => Before(s[i], s[j])
      /\ \A x \in rows : s[Rank(x, rows)] = x
  BY <1>1, SortedOrders
<1>3. \A x \in rows : Rank(x, rows) \in 1..m
  BY <1>1, RankOrders
<1> HIDE DEF s, m
<1>4. /\ shown \in Seq(rows) /\ Len(shown) = Least(n, m) /\ Least(n, m) \in Nat
      /\ Least(n, m) <= m
      /\ \A i \in 1..Least(n, m) : i \in 1..m /\ shown[i] = s[i]
  <2>1. shown = First(n, s) /\ s \in Seq(rows) /\ Len(s) = m
    BY <1>2 DEF s
  <2> QED
    BY <2>1, FirstFacts
<1>5. ASSUME NEW x \in rows, NEW k \in 1..Len(shown), Before(x, shown[k])
      PROVE  \E j \in 1..Len(shown) : j < k /\ shown[j] = x
  <2> DEFINE j == Rank(x, rows)
  <2>1. j \in 1..m /\ s[j] = x /\ k \in 1..m /\ shown[k] = s[k] /\ s[k] \in rows
    BY <1>2, <1>3, <1>4
  <2>2. ~Before(s[k], x) /\ s[k] # x
    <3>1. ~Before(x, x)
      BY <1>1, BeforeOrders
    <3>2. Before(s[k], x) => Before(x, x)
      BY <1>1, <1>5, <2>1, BeforeOrders
    <3> QED
      BY <1>5, <2>1, <3>1, <3>2
  <2> HIDE DEF j
  <2>3. j < k
    BY <1>2, <2>1, <2>2
  <2>4. j \in 1..Len(shown) /\ shown[j] = x
    BY <1>2, <1>4, <2>1, <2>3
  <2> QED
    BY <2>3, <2>4
<1>6. DOMAIN shown = 1..Len(shown)
  BY <1>4
<1>7. /\ \A i \in 1..Len(shown) : shown[i] \in rows
      /\ \A i, j \in 1..Len(shown) : i < j => Before(shown[i], shown[j])
  BY <1>2, <1>4
<1>8. ShowsBest(shown, rows, Len(shown))
  BY <1>4, <1>5, <1>6, <1>7 DEF ShowsBest
<1> QED
  BY <1>1, <1>4, <1>8

-----------------------------------------------------------------------------
(* The indexes' answers *)

\* Neither index answers with a chunk twice.
RankingsInv == nearest \in Ranking /\ matching \in Ranking

\* A chunk more that is not there yet makes a ranking.
LEMMA RankingGrows ==
    ASSUME NEW r \in Ranking, NEW c \in Chunks, c \notin ToSet(r)
    PROVE  Append(r, c) \in Ranking
<1> DEFINE n == Len(r)
           longer == Append(r, c)
<1>1. r \in Seq(Chunks) /\ n \in Nat /\ \A i \in 1..n : r[i] # c
  BY RankOf
<1>2. /\ longer \in Seq(Chunks) /\ Len(longer) = n + 1 /\ longer[n + 1] = c
      /\ \A i \in 1..n : longer[i] = r[i]
  BY <1>1, AppendProperties
<1> HIDE DEF longer
<1>3. ASSUME NEW i \in 1..(n + 1), NEW j \in 1..(n + 1), longer[i] = longer[j] PROVE i = j
  <2>1. (i \in 1..n \/ i = n + 1) /\ (j \in 1..n \/ j = n + 1)
    BY <1>1
  <2> QED
    BY <1>1, <1>2, <1>3, <2>1 DEF Ranking
<1>4. longer \in Ranking
  BY <1>2, <1>3 DEF Ranking
<1> QED
  BY <1>4 DEF longer

\* So it stays.
LEMMA RankingsStay == Spec => []RankingsInv
<1>1. Init => RankingsInv
  BY DEF Init, RankingsInv, Ranking
<1>2. RankingsInv /\ [Next]_rankings => RankingsInv'
  <2> SUFFICES ASSUME RankingsInv, [Next]_rankings PROVE RankingsInv'
    OBVIOUS
  <2>1. ASSUME NEW c \in Chunks, FoundByVector(c) PROVE RankingsInv'
    BY <2>1, RankingGrows DEF RankingsInv, FoundByVector
  <2>2. ASSUME NEW c \in Chunks, FoundByText(c) PROVE RankingsInv'
    BY <2>2, RankingGrows DEF RankingsInv, FoundByText
  <2>3. CASE UNCHANGED rankings
    BY <2>3 DEF RankingsInv, rankings
  <2> QED
    BY <2>1, <2>2, <2>3 DEF Next
<1> QED
  BY <1>1, <1>2, PTL DEF Spec

\* What a request asks for is clamped to something Atlas takes; where the ceiling
\* on what a leg fetches is no less than what may be shown, a leg fetches enough.
FetchCoversLimit == DefaultLimit <= MaxFetchK /\ MaxLimit <= MaxFetchK

\* Of a request that passes or not.
LEMMA Resolved ==
    ASSUME NEW r \in Requests
    PROVE  /\ ResolveLimit(r.limit) \in Nat \ {0} /\ FetchK(ResolveLimit(r.limit)) \in Nat \ {0}
           /\ FetchCoversLimit => ResolveLimit(r.limit) <= FetchK(ResolveLimit(r.limit))
           /\ ResolveMode(r.mode) \in Modes
<1> DEFINE limit == ResolveLimit(r.limit)
<1>1. /\ DefaultLimit \in Nat \ {0} /\ MaxFetchK \in Nat \ {0} /\ MaxLimit \in Nat
      /\ FetchMultiplier \in Nat /\ DefaultMode \in Modes
  BY Parameters
<1>2. r.limit = NoLimit \/ r.limit \in Int
  BY Parameters DEF Requests
<1>3. limit \in Nat \ {0} /\ (FetchCoversLimit => limit <= MaxFetchK)
  <2>1. CASE r.limit = NoLimit
    BY <1>1, <2>1 DEF ResolveLimit, FetchCoversLimit
  <2>2. CASE r.limit # NoLimit /\ r.limit \in Int
    BY <1>1, <2>2 DEF ResolveLimit, Most, Least, FetchCoversLimit
  <2> QED
    BY <1>2, <2>1, <2>2
<1> HIDE DEF limit
<1>4. limit * FetchMultiplier \in Nat
  BY <1>1, <1>3, ProductOrder
<1>5. FetchK(limit) \in Nat \ {0} /\ (FetchCoversLimit => limit <= FetchK(limit))
  BY <1>1, <1>3, <1>4 DEF FetchK, Most, Least
<1>6. ResolveMode(r.mode) \in Modes
  BY <1>1 DEF ResolveMode, Requests
<1> QED
  BY <1>3, <1>5, <1>6 DEF limit

-----------------------------------------------------------------------------
(* The order of the fusion *)

\* The legs of a request, and what it is shown, if it asks for both.
VectorLeg(r, v) == Leg(v, r.user, r.document, FetchK(ResolveLimit(r.limit)))
Answer(r, v, t) ==
    First(ResolveLimit(r.limit), Sorted(Merged(VectorLeg(r, v), VectorLeg(r, t))))

\* Its answer is that of both pipelines.
LEMMA HybridAnswer ==
    ASSUME NEW r \in HybridRequests, NEW v \in Ranking, NEW t \in Ranking
    PROVE  /\ Search(v, t, r) = Answer(r, v, t) /\ r \in Requests
           /\ VectorLeg(r, v) \in Ranking /\ VectorLeg(r, t) \in Ranking
<1>1. ResolveMode(r.mode) = "hybrid" /\ r \in Requests
  BY DEF HybridRequests
<1>2. Search(v, t, r) = Hybrid(v, t, r.user, r.document, ResolveLimit(r.limit))
  BY <1>1 DEF Search
<1>3. FetchK(ResolveLimit(r.limit)) \in Nat
  BY <1>1, Resolved
<1> QED
  BY <1>1, <1>2, <1>3, LegFacts DEF Hybrid, Answer, VectorLeg

\* The chunks shown are a ranking.
LEMMA IdsRanking ==
    ASSUME NEW r \in HybridRequests, NEW v \in Ranking, NEW t \in Ranking,
           NEW shown, shown = Search(v, t, r), NEW ids, ids = Ids(shown)
    PROVE  /\ ids \in Ranking /\ Len(ids) = Len(shown) /\ Len(shown) \in Nat
           /\ \A i \in 1..Len(shown) : ids[i] = shown[i].id
<1> DEFINE vectorLeg == VectorLeg(r, v)
           textLeg == VectorLeg(r, t)
           rows == Merged(vectorLeg, textLeg)
           n == Len(shown)
<1>1. vectorLeg \in Ranking /\ textLeg \in Ranking /\ ResolveLimit(r.limit) \in Nat
      /\ shown = First(ResolveLimit(r.limit), Sorted(rows))
  BY HybridAnswer, Resolved DEF Answer
<1> HIDE DEF vectorLeg, textLeg
<1>2. /\ DOMAIN shown = 1..n /\ n \in Nat
      /\ \A i \in 1..n : shown[i] \in rows
      /\ \A i, j \in 1..n : i < j => Before(shown[i], shown[j])
  <2> DEFINE length == Least(ResolveLimit(r.limit), Cardinality(Found(vectorLeg, textLeg)))
  <2>1. ShowsBest(shown, rows, length)
    BY <1>1, HybridShows
  <2> HIDE DEF rows, length
  <2> QED
    BY <2>1 DEF ShowsBest
<1>3. Grouped(rows) /\ \A x \in rows : x.id \in Found(vectorLeg, textLeg)
  BY <1>1, MergedGrouped
<1>4. Found(vectorLeg, textLeg) \subseteq Chunks
  BY <1>1, RankOf DEF Found
<1> HIDE DEF rows
<1>5. ids = [i \in 1..n |-> shown[i].id]
  BY <1>2 DEF Ids
<1>6. ids \in Seq(Chunks) /\ Len(ids) = n
  <2>1. \A i \in 1..n : shown[i].id \in Chunks
    BY <1>2, <1>3, <1>4
  <2>2. ids \in [1..n -> Chunks]
    BY <1>5, <2>1
  <2> QED
    BY <1>2, <2>2
<1>7. ASSUME NEW i \in 1..n, NEW j \in 1..n, ids[i] = ids[j] PROVE i = j
  <2>1. shown[i] \in rows /\ shown[j] \in rows /\ shown[i].id = shown[j].id
    BY <1>2, <1>5, <1>7
  <2>2. shown[i] = shown[j]
    BY <1>3, <2>1 DEF Grouped
  <2>3. ~Before(shown[i], shown[j]) /\ ~Before(shown[j], shown[i])
    BY <1>3, <2>1, <2>2, BeforeOrders
  <2>4. ~(i < j) /\ ~(j < i)
    BY <1>2, <2>3
  <2> QED
    BY <1>2, <2>4
<1>8. ids \in Ranking
  BY <1>6, <1>7 DEF Ranking
<1> QED
  BY <1>2, <1>5, <1>6, <1>8

\* Whatever is shown, a leg found in scope.
LEMMA IdsFound ==
    ASSUME NEW r \in HybridRequests, NEW v \in Ranking, NEW t \in Ranking,
           NEW ids, ids = Ids(Search(v, t, r))
    PROVE  ToSet(ids) \subseteq (ToSet(v) \cup ToSet(t)) \cap Scope(r.user, r.document)
<1> DEFINE shown == Search(v, t, r)
           limit == ResolveLimit(r.limit)
           vectorLeg == Leg(v, r.user, r.document, FetchK(limit))
           textLeg == Leg(t, r.user, r.document, FetchK(limit))
           rows == Merged(vectorLeg, textLeg)
           length == Least(limit, Cardinality(Found(vectorLeg, textLeg)))
<1>1. /\ limit \in Nat /\ FetchK(limit) \in Nat
      /\ shown = First(limit, Sorted(rows))
  BY HybridAnswer, Resolved DEF Answer, VectorLeg
<1>2. ids \in Ranking /\ Len(ids) = Len(shown) /\ \A i \in 1..Len(shown) : ids[i] = shown[i].id
  BY IdsRanking
<1> HIDE DEF shown, limit
<1>3. /\ vectorLeg \in Ranking /\ textLeg \in Ranking
      /\ ToSet(vectorLeg) \subseteq ToSet(v) \cap Scope(r.user, r.document)
      /\ ToSet(textLeg) \subseteq ToSet(t) \cap Scope(r.user, r.document)
  BY <1>1, LegFacts
<1> HIDE DEF vectorLeg, textLeg
<1>4. ShowsBest(shown, rows, length)
  BY <1>1, <1>3, HybridShows
<1>5. \A x \in rows : x.id \in Found(vectorLeg, textLeg)
  BY <1>3, MergedGrouped
<1> HIDE DEF rows, length
<1>6. ASSUME NEW c \in ToSet(ids) PROVE c \in Found(vectorLeg, textLeg)
  <2>1. PICK i \in 1..Len(ids) : c = ids[i]
    BY <1>2, RankOf
  <2>2. shown[i] \in rows
    BY <1>2, <1>4, <2>1 DEF ShowsBest
  <2> QED
    BY <1>2, <1>5, <2>1, <2>2
<1> QED
  BY <1>3, <1>6 DEF Found

\* Where a leg fetches enough, as many chunks are shown as are asked for, of those
\* there are.
LEMMA HowManyShown ==
    ASSUME FetchCoversLimit, NEW r \in HybridRequests, NEW v \in Ranking, NEW t \in Ranking
    PROVE  Len(Search(v, t, r))
             = Least(Cardinality((ToSet(v) \cup ToSet(t)) \cap Scope(r.user, r.document)),
                     ResolveLimit(r.limit))
<1> DEFINE shown == Search(v, t, r)
           limit == ResolveLimit(r.limit)
           fetched == FetchK(limit)
           found == (ToSet(v) \cup ToSet(t)) \cap Scope(r.user, r.document)
           vectorLeg == Leg(v, r.user, r.document, fetched)
           textLeg == Leg(t, r.user, r.document, fetched)
           either == Found(vectorLeg, textLeg)
<1>1. /\ limit \in Nat \ {0} /\ fetched \in Nat /\ limit <= fetched
      /\ shown = First(limit, Sorted(Merged(vectorLeg, textLeg)))
  BY HybridAnswer, Resolved DEF Answer, VectorLeg
<1> HIDE DEF shown, limit, fetched
<1>2. /\ vectorLeg \in Ranking /\ Len(vectorLeg) <= fetched
      /\ ToSet(vectorLeg) \subseteq ToSet(v) \cap Scope(r.user, r.document)
      /\ Len(vectorLeg) < fetched
            => ToSet(vectorLeg) = ToSet(v) \cap Scope(r.user, r.document)
  BY <1>1, LegFacts
<1>3. /\ textLeg \in Ranking /\ Len(textLeg) <= fetched
      /\ ToSet(textLeg) \subseteq ToSet(t) \cap Scope(r.user, r.document)
      /\ Len(textLeg) < fetched
            => ToSet(textLeg) = ToSet(t) \cap Scope(r.user, r.document)
  BY <1>1, LegFacts
<1> HIDE DEF vectorLeg, textLeg
<1>4. Len(shown) = Least(limit, Cardinality(either)) /\ IsFiniteSet(either)
  <2>1. ShowsBest(shown, Merged(vectorLeg, textLeg), Least(limit, Cardinality(either)))
    BY <1>1, <1>2, <1>3, HybridShows
  <2> HIDE DEF either
  <2>2. Len(shown) = Least(limit, Cardinality(either))
    BY <2>1 DEF ShowsBest
  <2>3. IsFiniteSet(either)
    BY <1>2, <1>3, MergedGrouped DEF either
  <2> QED
    BY <2>2, <2>3
<1>5. either \subseteq found /\ IsFiniteSet(found)
  <2>1. IsFiniteSet(ToSet(v) \cup ToSet(t))
    BY RankingCounts, FS_Union
  <2> QED
    BY <1>2, <1>3, <2>1, FS_Intersection DEF Found
<1>6. /\ Cardinality(either) \in Nat /\ Cardinality(found) \in Nat
      /\ Cardinality(either) <= Cardinality(found)
  BY <1>4, <1>5, FS_CardinalityType, FS_Subset
<1>7. CASE Len(vectorLeg) < fetched /\ Len(textLeg) < fetched
  <2>1. either = found
    BY <1>2, <1>3, <1>7 DEF Found
  <2> QED
    BY <1>1, <1>4, <1>6, <2>1 DEF Least, shown, limit
<1>8. CASE Len(vectorLeg) >= fetched \/ Len(textLeg) >= fetched
  <2>1. /\ Cardinality(ToSet(vectorLeg)) = Len(vectorLeg)
        /\ Cardinality(ToSet(textLeg)) = Len(textLeg)
        /\ Len(vectorLeg) \in Nat /\ Len(textLeg) \in Nat
    BY <1>2, <1>3, RankingCounts, RankOf
  <2>2. /\ Cardinality(ToSet(vectorLeg)) <= Cardinality(either)
        /\ Cardinality(ToSet(textLeg)) <= Cardinality(either)
    <3>1. ToSet(vectorLeg) \subseteq either /\ ToSet(textLeg) \subseteq either
      BY DEF Found
    <3> HIDE DEF either
    <3> QED
      BY <1>4, <3>1, FS_Subset
  <2>3. limit <= Cardinality(either)
    BY <1>1, <1>6, <1>8, <2>1, <2>2
  <2> QED
    BY <1>1, <1>4, <1>6, <2>3 DEF Least, shown, limit
<1>9. Len(vectorLeg) \in Nat /\ Len(textLeg) \in Nat
  BY <1>2, <1>3, RankOf
<1> QED
  BY <1>1, <1>7, <1>8, <1>9

\* A request for both is shown each chunk once, in the order of score and id, no
\* fewer than it asked for if there are as many, and none is left out that beats
\* one (retrieval_service.py:301-303).
LEMMA BestOfBoth ==
    ASSUME RankingsInv, FetchCoversLimit
    PROVE  BestFirst
<1> SUFFICES
      ASSUME NEW r \in HybridRequests
      PROVE  LET shown == Search(nearest, matching, r)
                 limit == ResolveLimit(r.limit)
                 found == (ToSet(nearest) \cup ToSet(matching)) \cap Scope(r.user, r.document)
                 vectorLeg == Leg(nearest, r.user, r.document, FetchK(limit))
                 textLeg == Leg(matching, r.user, r.document, FetchK(limit))
             IN /\ \A i, j \in DOMAIN shown : i < j =>
                      /\ shown[i].id # shown[j].id
                      /\ ~Above(shown[j].score, shown[i].score)
                      /\ Above(shown[i].score, shown[j].score) \/ shown[i].id < shown[j].id
                /\ Len(shown) = Least(Cardinality(found), limit)
                /\ \A c \in (ToSet(vectorLeg) \cup ToSet(textLeg)) \ ToSet(Ids(shown)) :
                      \A y \in ToSet(shown) :
                         ~Above(FusedScore(vectorLeg, textLeg, c), y.score)
  BY DEF BestFirst
<1> DEFINE shown == Search(nearest, matching, r)
           limit == ResolveLimit(r.limit)
           fetched == FetchK(limit)
           found == (ToSet(nearest) \cup ToSet(matching)) \cap Scope(r.user, r.document)
           vectorLeg == Leg(nearest, r.user, r.document, fetched)
           textLeg == Leg(matching, r.user, r.document, fetched)
           rows == Merged(vectorLeg, textLeg)
           either == Found(vectorLeg, textLeg)
           n == Len(shown)
<1>1. /\ nearest \in Ranking /\ matching \in Ranking /\ r \in Requests
      /\ limit \in Nat \ {0} /\ fetched \in Nat /\ limit <= fetched
      /\ shown = First(limit, Sorted(rows))
  BY HybridAnswer, Resolved DEF RankingsInv, Answer, VectorLeg
<1> HIDE DEF shown, limit, fetched
<1>2. /\ vectorLeg \in Ranking /\ Len(vectorLeg) <= fetched
      /\ ToSet(vectorLeg) \subseteq ToSet(nearest) \cap Scope(r.user, r.document)
      /\ Len(vectorLeg) < fetched
            => ToSet(vectorLeg) = ToSet(nearest) \cap Scope(r.user, r.document)
  BY <1>1, LegFacts
<1>3. /\ textLeg \in Ranking /\ Len(textLeg) <= fetched
      /\ ToSet(textLeg) \subseteq ToSet(matching) \cap Scope(r.user, r.document)
      /\ Len(textLeg) < fetched
            => ToSet(textLeg) = ToSet(matching) \cap Scope(r.user, r.document)
  BY <1>1, LegFacts
<1> HIDE DEF vectorLeg, textLeg
<1>4. /\ DOMAIN shown = 1..n /\ n = Least(limit, Cardinality(either)) /\ n \in Nat
      /\ \A i \in 1..n : shown[i] \in rows
      /\ \A i, j \in 1..n : i < j => Before(shown[i], shown[j])
      /\ \A x \in rows, k \in 1..n : Before(x, shown[k]) =>
            \E j \in 1..n : j < k /\ shown[j] = x
  <2>1. limit \in Nat /\ vectorLeg \in Ranking /\ textLeg \in Ranking
    BY <1>1, <1>2, <1>3
  <2> DEFINE length == Least(limit, Cardinality(either))
  <2>2. ShowsBest(shown, rows, length)
    BY <1>1, <2>1, HybridShows
  <2> HIDE DEF rows, either, length
  <2>3. n = length
    BY <2>2 DEF ShowsBest
  <2> HIDE DEF n
  <2> QED
    BY <2>2, <2>3 DEF ShowsBest, length
<1>5. /\ Grouped(rows) /\ IsFiniteSet(either)
      /\ \A c \in either : /\ FusedRow(vectorLeg, textLeg, c) \in rows
                           /\ FusedRow(vectorLeg, textLeg, c).id = c
                           /\ FusedRow(vectorLeg, textLeg, c).score
                                = FusedScore(vectorLeg, textLeg, c)
  BY <1>2, <1>3, MergedGrouped
<1> HIDE DEF rows, n
<1>6. ASSUME NEW i \in 1..n, NEW j \in 1..n, i < j
      PROVE  /\ shown[i].id # shown[j].id
             /\ ~Above(shown[j].score, shown[i].score)
             /\ Above(shown[i].score, shown[j].score) \/ shown[i].id < shown[j].id
  <2>1. shown[i] \in rows /\ shown[j] \in rows /\ Before(shown[i], shown[j])
    BY <1>4, <1>6
  <2>2. shown[i] # shown[j] /\ shown[i].score \in Fraction /\ shown[j].score \in Fraction
    BY <1>5, <2>1, BeforeOrders DEF Grouped
  <2> QED
    BY <1>5, <2>1, <2>2, AboveOrders DEF Grouped, Before
<1>7. n = Least(Cardinality(found), limit)
  BY <1>1, HowManyShown DEF shown, limit, n, RankingsInv
<1>8. ASSUME NEW c \in either, c \notin ToSet(Ids(shown)), NEW y \in ToSet(shown)
      PROVE  ~Above(FusedScore(vectorLeg, textLeg, c), y.score)
  <2> DEFINE x == FusedRow(vectorLeg, textLeg, c)
  <2>1. x \in rows /\ x.id = c /\ x.score = FusedScore(vectorLeg, textLeg, c)
    BY <1>5
  <2> HIDE DEF x
  <2>2. PICK k \in 1..n : y = shown[k]
    BY <1>4 DEF ToSet
  <2>3. ~\E j \in 1..n : shown[j] = x
    BY <1>4, <1>8, <2>1 DEF Ids, ToSet
  <2>4. ~Before(x, y)
    BY <1>4, <2>1, <2>2, <2>3
  <2> QED
    BY <2>1, <2>4 DEF Before
<1>9. either = ToSet(vectorLeg) \cup ToSet(textLeg)
  BY DEF Found
<1> QED
  BY <1>4, <1>6, <1>7, <1>8, <1>9 DEF shown, limit, fetched, vectorLeg, textLeg, n

\* Where a leg fetches enough, the fusion is shown best first, once each, and as
\* much of it as was asked for.
THEOREM FusionOrdered == ASSUME FetchCoversLimit PROVE Spec => []BestFirst
<1>1. RankingsInv => BestFirst
  BY BestOfBoth
<1> QED
  BY <1>1, RankingsStay, PTL

\* A leg counts for something.
BothCount == VectorWeight > 0 /\ TextWeight > 0

\* A chunk that stands before another wherever a leg found that, scores above it.
LEMMA BetterScores ==
    ASSUME BothCount, NEW v \in Ranking, NEW t \in Ranking, NEW x, NEW y \in Found(v, t),
           y \in ToSet(v) => x \in ToSet(v) /\ RankIn(v, x) < RankIn(v, y),
           y \in ToSet(t) => x \in ToSet(t) /\ RankIn(t, x) < RankIn(t, y)
    PROVE  x \in Found(v, t) /\ Above(FusedScore(v, t, x), FusedScore(v, t, y))
<1> DEFINE vx == Term(v, VectorWeight, x)
           vy == Term(v, VectorWeight, y)
           tx == Term(t, TextWeight, x)
           ty == Term(t, TextWeight, y)
<1>1. /\ VectorWeight \in Nat /\ TextWeight \in Nat /\ VectorWeight > 0 /\ TextWeight > 0
  BY Parameters DEF BothCount
<1>2. vx \in Fraction /\ vy \in Fraction /\ tx \in Fraction /\ ty \in Fraction
  BY <1>1, TermOrders
<1>3. ~Above(vy, vx) /\ (y \in ToSet(v) => Above(vx, vy))
  BY <1>1, TermOrders
<1>4. ~Above(ty, tx) /\ (y \in ToSet(t) => Above(tx, ty))
  BY <1>1, TermOrders
<1>5. y \in ToSet(v) \/ y \in ToSet(t)
  BY DEF Found
<1>6. /\ FusedScore(v, t, x) = Plus(vx, tx)
      /\ FusedScore(v, t, y) = Plus(vy, ty)
  BY DEF FusedScore
<1> HIDE DEF vx, vy, tx, ty
<1>7. Above(Plus(vx, tx), Plus(vy, ty))
  BY <1>2, <1>3, <1>4, <1>5, PlusOrders
<1> QED
  BY <1>5, <1>6, <1>7 DEF Found

\* What neither leg places behind a chunk that is shown, is shown before it.
LEMMA AgreementShows ==
    ASSUME BothCount, NEW r \in HybridRequests, NEW v \in Ranking, NEW t \in Ranking,
           NEW ids, ids = Ids(Search(v, t, r)), NEW y \in ToSet(ids),
           NEW x \in ToSet(v) \cup ToSet(t), x \in Scope(r.user, r.document),
           NotBehind(v, x, y), NotBehind(t, x, y)
    PROVE  x \in ToSet(ids) /\ RankIn(ids, x) <= RankIn(ids, y)
<1> DEFINE shown == Search(v, t, r)
           n == ResolveLimit(r.limit)
           vectorLeg == VectorLeg(r, v)
           textLeg == VectorLeg(r, t)
           rows == Merged(vectorLeg, textLeg)
           length == Least(n, Cardinality(Found(vectorLeg, textLeg)))
<1>1. /\ n \in Nat /\ FetchK(n) \in Nat
      /\ vectorLeg \in Ranking /\ textLeg \in Ranking
      /\ shown = First(n, Sorted(rows))
  BY HybridAnswer, Resolved DEF Answer
<1>2. ids \in Ranking /\ Len(ids) = Len(shown) /\ \A i \in 1..Len(shown) : ids[i] = shown[i].id
  BY <1>1, IdsRanking
<1>3. CASE x = y
  <2>1. RankIn(ids, y) \in 1..Len(ids) /\ Len(ids) \in Nat
    BY <1>2, RankOf
  <2> QED
    BY <1>3, <2>1
<1>4. CASE x # y
  <2>1. /\ vectorLeg = Leg(v, r.user, r.document, FetchK(n))
        /\ textLeg = Leg(t, r.user, r.document, FetchK(n))
    BY DEF VectorLeg
  <2> HIDE DEF shown, n, vectorLeg, textLeg
  <2>2. ASSUME NEW ranking \in Ranking, NotBehind(ranking, x, y), y \in ToSet(ranking)
        PROVE  x \in ToSet(ranking) /\ RankIn(ranking, x) < RankIn(ranking, y)
    <3>1. x \in ToSet(ranking) /\ RankIn(ranking, x) <= RankIn(ranking, y)
      BY <2>2 DEF NotBehind
    <3>2. /\ RankIn(ranking, x) \in 1..Len(ranking) /\ ranking[RankIn(ranking, x)] = x
          /\ RankIn(ranking, y) \in 1..Len(ranking) /\ ranking[RankIn(ranking, y)] = y
          /\ Len(ranking) \in Nat
      BY <2>2, <3>1, RankOf
    <3> QED
      BY <1>4, <3>1, <3>2
  <2>3. /\ ToSet(vectorLeg) \subseteq ToSet(v)
        /\ y \in ToSet(vectorLeg) => /\ x \in ToSet(vectorLeg)
                                     /\ RankIn(vectorLeg, x) < RankIn(vectorLeg, y)
    <3>1. /\ ToSet(vectorLeg) \subseteq ToSet(v)
          /\ y \in ToSet(vectorLeg) =>
                \A z \in ToSet(v) \cap Scope(r.user, r.document) :
                   RankIn(v, z) < RankIn(v, y)
                      => z \in ToSet(vectorLeg) /\ RankIn(vectorLeg, z) < RankIn(vectorLeg, y)
      BY <1>1, <2>1, LegFacts
    <3> QED
      BY <1>1, <2>2, <3>1
  <2>4. /\ ToSet(textLeg) \subseteq ToSet(t)
        /\ y \in ToSet(textLeg) => /\ x \in ToSet(textLeg)
                                   /\ RankIn(textLeg, x) < RankIn(textLeg, y)
    <3>1. /\ ToSet(textLeg) \subseteq ToSet(t)
          /\ y \in ToSet(textLeg) =>
                \A z \in ToSet(t) \cap Scope(r.user, r.document) :
                   RankIn(t, z) < RankIn(t, y)
                      => z \in ToSet(textLeg) /\ RankIn(textLeg, z) < RankIn(textLeg, y)
      BY <1>1, <2>1, LegFacts
    <3> QED
      BY <1>1, <2>2, <3>1
  <2>5. ShowsBest(shown, rows, length)
    BY <1>1, HybridShows
  <2>6. PICK k \in 1..length : y = shown[k].id
    <3>1. RankIn(ids, y) \in 1..Len(ids) /\ ids[RankIn(ids, y)] = y
      BY <1>2, RankOf
    <3> QED
      BY <1>2, <2>5, <3>1 DEF ShowsBest
  <2>7. /\ Grouped(rows)
        /\ \A z \in rows : z.id \in Found(vectorLeg, textLeg)
                           /\ z = FusedRow(vectorLeg, textLeg, z.id)
        /\ \A c \in Found(vectorLeg, textLeg) :
              /\ FusedRow(vectorLeg, textLeg, c) \in rows
              /\ FusedRow(vectorLeg, textLeg, c).id = c
              /\ FusedRow(vectorLeg, textLeg, c).score = FusedScore(vectorLeg, textLeg, c)
    BY <1>1, MergedGrouped
  <2> HIDE DEF rows, length
  <2>8. shown[k] \in rows /\ y \in Found(vectorLeg, textLeg)
        /\ shown[k].score = FusedScore(vectorLeg, textLeg, y)
    <3>1. shown[k] \in rows
      BY <2>5 DEF ShowsBest
    <3> QED
      BY <2>6, <2>7, <3>1
  <2>9. /\ x \in Found(vectorLeg, textLeg)
        /\ Above(FusedScore(vectorLeg, textLeg, x), FusedScore(vectorLeg, textLeg, y))
    BY <1>1, <2>3, <2>4, <2>8, BetterScores
  <2> DEFINE row == FusedRow(vectorLeg, textLeg, x)
  <2>10. row \in rows /\ row.id = x /\ Before(row, shown[k])
    BY <2>7, <2>8, <2>9 DEF Before
  <2> HIDE DEF row
  <2>11. PICK j \in 1..length : j < k /\ shown[j] = row
    BY <2>5, <2>10 DEF ShowsBest
  <2>12. length \in Nat /\ Len(shown) = length /\ ids[j] = x /\ ids[k] = y
    BY <1>2, <2>5, <2>6, <2>10, <2>11 DEF ShowsBest
  <2>13. x \in ToSet(ids) /\ RankIn(ids, x) = j /\ RankIn(ids, y) = k
    BY <1>2, <2>12, RankOf
  <2> QED
    BY <2>11, <2>12, <2>13
<1> QED
  BY <1>3, <1>4

\* Where both legs count, agreement compounds (retrieval_service.py:15-16):
\* a chunk neither leg places behind another is not behind it in the fusion either.
THEOREM AgreementPays == ASSUME BothCount PROVE Spec => []AgreementCompounds
<1>1. RankingsInv => AgreementCompounds
  BY AgreementShows DEF RankingsInv, AgreementCompounds
<1> QED
  BY <1>1, RankingsStay, PTL


-----------------------------------------------------------------------------
(* One leg alone *)

\* a lists of b's chunks those before one of its own, in the same order.
LeadsWith(a, b) ==
    /\ ToSet(a) \subseteq ToSet(b)
    /\ \A y \in ToSet(a), x \in ToSet(b) :
          RankIn(b, x) < RankIn(b, y) => x \in ToSet(a) /\ RankIn(a, x) <= RankIn(a, y)

\* Then it is the beginning of b: the first chunk that is not b's at its place
\* would have b's there behind it.
LEMMA Leading ==
    ASSUME NEW a \in Ranking, NEW b \in Ranking, LeadsWith(a, b)
    PROVE  Len(a) <= Len(b) /\ \A i \in 1..Len(a) : a[i] = b[i]
<1> DEFINE n == Len(a)
           S == {k \in 0..n : \A i \in 1..k : i \in 1..Len(b) /\ a[i] = b[i]}
<1>1. /\ n \in Nat /\ Len(b) \in Nat /\ ToSet(a) \subseteq ToSet(b)
      /\ \A i \in 1..n : a[i] \in ToSet(a) /\ RankIn(a, a[i]) = i
      /\ \A i \in 1..Len(b) : b[i] \in ToSet(b) /\ RankIn(b, b[i]) = i
  BY RankOf DEF LeadsWith
<1>2. ASSUME NEW k \in 0..(n - 1), k \in S PROVE k + 1 \in S
  <2> DEFINE y == a[k + 1]
             m == RankIn(b, y)
  <2>1. k + 1 \in 1..n /\ y \in ToSet(a) /\ y \in ToSet(b) /\ RankIn(a, y) = k + 1
    BY <1>1
  <2>2. m \in 1..Len(b) /\ b[m] = y
    BY <2>1, RankOf
  <2>3. ~(m < k + 1)
    <3>1. ASSUME m < k + 1 PROVE FALSE
      <4>1. m \in 1..k /\ m \in 1..n
        BY <1>1, <2>2, <3>1
      <4>2. a[m] = y
        BY <1>2, <2>2, <4>1
      <4> QED
        BY <1>1, <2>1, <3>1, <4>1, <4>2
    <3> QED
      BY <3>1
  <2>4. ~(k + 1 < m)
    <3>1. ASSUME k + 1 < m PROVE FALSE
      <4> DEFINE x == b[k + 1]
      <4>1. k + 1 \in 1..Len(b) /\ x \in ToSet(b) /\ RankIn(b, x) = k + 1
        BY <1>1, <2>1, <2>2, <3>1
      <4>2. x \in ToSet(a) /\ RankIn(a, x) <= k + 1
        BY <2>1, <3>1, <4>1 DEF LeadsWith
      <4> DEFINE j == RankIn(a, x)
      <4>3. j \in 1..n /\ a[j] = x
        BY <4>2, RankOf
      <4>4. j # k + 1
        BY <2>2, <3>1, <4>1, <4>3
      <4>5. j \in 1..k /\ b[j] = x /\ j \in 1..Len(b)
        BY <1>2, <4>2, <4>3, <4>4
      <4> HIDE DEF x, j
      <4> QED
        BY <1>1, <4>1, <4>5
    <3> QED
      BY <3>1
  <2>5. m = k + 1
    BY <2>2, <2>3, <2>4
  <2> HIDE DEF m
  <2>6. \A i \in 1..(k + 1) : i \in 1..Len(b) /\ a[i] = b[i]
    <3>1. \A i \in 1..(k + 1) : i \in 1..k \/ i = k + 1
      OBVIOUS
    <3> QED
      BY <1>2, <2>2, <2>5, <3>1
  <2> QED
    BY <2>1, <2>6
<1>3. Inductive(S, 0, n)
  <2>1. 0 \in S
    BY <1>1
  <2> HIDE DEF S
  <2> QED
    BY <1>1, <1>2, <2>1 DEF Inductive
<1>4. \A k \in 0..n : k \in S
  <2> HIDE DEF S
  <2> QED
    BY <1>3, FromTo
<1>5. n \in 0..n
  BY <1>1
<1>6. n \in S
  BY <1>4, <1>5
<1>7. \A i \in 1..n : i \in 1..Len(b) /\ a[i] = b[i]
  BY <1>6
<1> QED
  BY <1>1, <1>7

\* What stands before another in a selection, does so in the whole.
LEMMA OnlyBefore ==
    ASSUME NEW r \in Ranking, NEW A, NEW kept, kept = Only(r, A),
           NEW x \in ToSet(kept), NEW y \in ToSet(kept), RankIn(kept, x) < RankIn(kept, y)
    PROVE  x \in ToSet(r) /\ y \in ToSet(r) /\ RankIn(r, x) < RankIn(r, y)
<1>1. /\ kept \in Ranking /\ x \in ToSet(r) /\ y \in ToSet(r)
      /\ RankIn(r, y) < RankIn(r, x) => RankIn(kept, y) < RankIn(kept, x)
  BY OnlyRanks
<1>2. /\ RankIn(r, x) \in Nat /\ r[RankIn(r, x)] = x
      /\ RankIn(r, y) \in Nat /\ r[RankIn(r, y)] = y
      /\ RankIn(kept, x) \in Nat /\ RankIn(kept, y) \in Nat
  BY <1>1, RankOf
<1> QED
  BY <1>1, <1>2

\* v and t find nothing, the one or the other, but what is in r.
Alone(ranking, v, t) ==
    \/ v = ranking /\ t = <<>>
    \/ v = <<>> /\ t = ranking

\* Then a request for both is shown the chunks of that leg, up to its limit.
LEMMA AloneShows ==
    ASSUME FetchCoversLimit, BothCount, NEW r \in HybridRequests, NEW ranking \in Ranking,
           NEW v, NEW t, Alone(ranking, v, t),
           NEW leg, leg = Leg(ranking, r.user, r.document, ResolveLimit(r.limit))
    PROVE  Ids(Search(v, t, r)) = leg
<1> DEFINE ids == Ids(Search(v, t, r))
           scope == Scope(r.user, r.document)
           kept == Only(ranking, scope)
           limit == ResolveLimit(r.limit)
<1>1. <<>> \in Ranking /\ ToSet(<<>>) = {}
  BY DEF Ranking, ToSet
<1>2. v \in Ranking /\ t \in Ranking /\ ToSet(v) \cup ToSet(t) = ToSet(ranking)
  BY <1>1 DEF Alone
<1>3. kept \in Ranking /\ ToSet(kept) = ToSet(ranking) \cap scope
  BY OnlyRanks
<1>4. r \in Requests /\ limit \in Nat
  BY HybridAnswer, <1>2, Resolved
<1>5. /\ ids \in Ranking /\ Len(ids) = Least(Cardinality(ToSet(kept)), limit)
  BY <1>2, <1>3, IdsRanking, HowManyShown
<1>6. Cardinality(ToSet(kept)) = Len(kept) /\ Len(kept) \in Nat
  BY <1>3, RankingCounts, RankOf
<1>7. ToSet(ids) \subseteq ToSet(kept)
  BY <1>2, <1>3, IdsFound
<1>8. LeadsWith(ids, kept)
  <2> SUFFICES ASSUME NEW y \in ToSet(ids), NEW x \in ToSet(kept), RankIn(kept, x) < RankIn(kept, y)
               PROVE  x \in ToSet(ids) /\ RankIn(ids, x) <= RankIn(ids, y)
    BY <1>7 DEF LeadsWith
  <2>1. /\ x \in ToSet(ranking) /\ x \in scope
        /\ RankIn(ranking, x) < RankIn(ranking, y)
    BY <1>3, <1>7, OnlyBefore
  <2>2. RankIn(ranking, x) \in Nat /\ RankIn(ranking, y) \in Nat
    BY <1>3, <1>7, RankOf
  <2>3. NotBehind(ranking, x, y)
    BY <2>1, <2>2 DEF NotBehind
  <2>4. NotBehind(v, x, y) /\ NotBehind(t, x, y)
    BY <1>1, <2>3 DEF NotBehind, Alone
  <2> HIDE DEF kept
  <2> QED
    BY <1>2, <2>1, <2>4, AgreementShows
<1>9. /\ Len(ids) <= Len(kept) /\ \A i \in 1..Len(ids) : ids[i] = kept[i]
  BY <1>3, <1>5, <1>8, Leading
<1>10. leg = First(limit, kept)
  BY DEF Leg
<1> HIDE DEF ids, kept, limit
<1>11. /\ kept \in Seq(Chunks) /\ leg \in Seq(Chunks) /\ Len(leg) = Least(limit, Len(kept))
       /\ \A i \in 1..Len(leg) : leg[i] = kept[i]
  <2>1. kept \in Seq(Chunks) /\ limit \in Nat
    BY <1>3, <1>4, RankOf
  <2>2. /\ First(limit, kept) \in Seq(Chunks)
        /\ Len(First(limit, kept)) = Least(limit, Len(kept))
        /\ \A i \in 1..Least(limit, Len(kept)) : First(limit, kept)[i] = kept[i]
    BY <2>1, FirstFacts
  <2> QED
    BY <1>10, <2>1, <2>2
<1>12. ids \in Seq(Chunks) /\ Len(ids) = Len(leg)
  BY <1>4, <1>5, <1>6, <1>11, RankOf DEF Least
<1>13. \A i \in 1..Len(ids) : ids[i] = leg[i]
  BY <1>9, <1>11, <1>12
<1>14. ids = leg
  BY <1>11, <1>12, <1>13
<1> QED
  BY <1>14 DEF ids

\* A single leg shows its chunks.
LEMMA SingleIds ==
    ASSUME NEW ranking \in Ranking, NEW name, NEW user, NEW document, NEW limit \in Nat
    PROVE  Ids(SingleLeg(name, ranking, user, document, limit))
             = Leg(ranking, user, document, limit)
<1> DEFINE leg == Leg(ranking, user, document, limit)
<1>1. leg \in Seq(Chunks)
  BY LegFacts, RankOf
<1>2. leg = [i \in DOMAIN leg |-> leg[i]]
  BY <1>1
<1> HIDE DEF leg
<1>3. SingleLeg(name, ranking, user, document, limit)
        = [i \in DOMAIN leg |-> Row(leg[i], Native(name, leg[i]), NoScore, NoScore)]
  BY DEF SingleLeg, leg
<1>4. Ids(SingleLeg(name, ranking, user, document, limit)) = [i \in DOMAIN leg |-> leg[i]]
  BY <1>3 DEF Ids, Row
<1> QED
  BY <1>2, <1>4 DEF leg

\* A request for one leg is shown that leg.
LEMMA SingleShows ==
    ASSUME NEW r \in Requests, NEW v \in Ranking, NEW t \in Ranking
    PROVE  /\ Ids(Search(v, t, [r EXCEPT !.mode = "vector"]))
                = Leg(v, r.user, r.document, ResolveLimit(r.limit))
           /\ Ids(Search(v, t, [r EXCEPT !.mode = "text"]))
                = Leg(t, r.user, r.document, ResolveLimit(r.limit))
<1> DEFINE limit == ResolveLimit(r.limit)
<1>1. limit \in Nat
  BY Resolved
<1> HIDE DEF limit
<1>2. /\ "vector" # NoMode /\ "text" # NoMode
  BY Parameters DEF Modes
<1>3. ASSUME NEW mode \in {"vector", "text"}, NEW q, q = [r EXCEPT !.mode = mode]
      PROVE  q.user = r.user /\ q.document = r.document /\ q.limit = r.limit
             /\ ResolveMode(q.mode) = mode
  BY <1>2, <1>3 DEF Requests, ResolveMode
<1>4. Search(v, t, [r EXCEPT !.mode = "vector"])
        = SingleLeg("vector", v, r.user, r.document, limit)
  BY <1>3 DEF Search, limit
<1>5. Search(v, t, [r EXCEPT !.mode = "text"])
        = SingleLeg("text", t, r.user, r.document, limit)
  BY <1>3 DEF Search, limit
<1> QED
  BY <1>1, <1>4, <1>5, SingleIds DEF limit

\* Where a leg counts and fetches enough, either alone can surface a chunk: hybrid
\* lists what the one leg lists where the other finds nothing
\* (retrieval_service.py:15-16).
THEOREM OneLegSurfaces ==
    ASSUME FetchCoversLimit, BothCount PROVE Spec => []EitherLegSuffices
<1>1. ASSUME RankingsInv, NEW r \in HybridRequests
      PROVE  /\ Ids(Search(nearest, <<>>, r))
                  = Ids(Search(nearest, <<>>, [r EXCEPT !.mode = "vector"]))
             /\ Ids(Search(<<>>, matching, r))
                  = Ids(Search(<<>>, matching, [r EXCEPT !.mode = "text"]))
  <2>1. /\ Ids(Search(nearest, <<>>, r))
             = Leg(nearest, r.user, r.document, ResolveLimit(r.limit))
        /\ Ids(Search(<<>>, matching, r))
             = Leg(matching, r.user, r.document, ResolveLimit(r.limit))
    BY <1>1, AloneShows DEF RankingsInv, Alone
  <2>2. <<>> \in Ranking /\ r \in Requests
    BY DEF Ranking, HybridRequests
  <2>3. /\ Ids(Search(nearest, <<>>, [r EXCEPT !.mode = "vector"]))
             = Leg(nearest, r.user, r.document, ResolveLimit(r.limit))
        /\ Ids(Search(<<>>, matching, [r EXCEPT !.mode = "text"]))
             = Leg(matching, r.user, r.document, ResolveLimit(r.limit))
    BY <1>1, <2>2, SingleShows DEF RankingsInv
  <2> QED
    BY <2>1, <2>3
<1>2. RankingsInv => EitherLegSuffices
  BY <1>1 DEF EitherLegSuffices
<1> QED
  BY <1>2, RankingsStay, PTL

-----------------------------------------------------------------------------
(* The scope before the limit *)

\* A leg of a ranking is that of its part in scope: what is out of scope takes
\* nobody's place.
LEMMA LegOfScope ==
    ASSUME NEW r \in Ranking, NEW user, NEW document, NEW n
    PROVE  Leg(Only(r, Scope(user, document)), user, document, n) = Leg(r, user, document, n)
<1> DEFINE scope == Scope(user, document)
<1>1. scope \cap scope = scope
  OBVIOUS
<1> HIDE DEF scope
<1>2. r \in Seq(Chunks)
  BY RankOf
<1>3. Only(Only(r, scope), scope) = Only(r, scope)
  BY <1>1, <1>2, OnlyOnly
<1> QED
  BY <1>3 DEF Leg, scope

\* Nothing out of scope is shown, in any mode.
LEMMA ShownInScope ==
    ASSUME NEW r \in Requests, NEW v \in Ranking, NEW t \in Ranking
    PROVE  ToSet(Ids(Search(v, t, r))) \subseteq Scope(r.user, r.document)
<1> DEFINE limit == ResolveLimit(r.limit)
           mode == ResolveMode(r.mode)
<1>1. limit \in Nat /\ mode \in Modes
  BY Resolved
<1> HIDE DEF limit, mode
<1>2. CASE mode = "hybrid"
  <2>1. r \in HybridRequests
    BY <1>2 DEF HybridRequests, mode
  <2> QED
    BY <2>1, IdsFound
<1>3. CASE mode = "vector"
  <2>1. Search(v, t, r) = SingleLeg("vector", v, r.user, r.document, limit)
    BY <1>3 DEF Search, mode, limit
  <2> QED
    BY <1>1, <2>1, SingleIds, LegFacts
<1>4. CASE mode = "text"
  <2>1. Search(v, t, r) = SingleLeg("text", t, r.user, r.document, limit)
    BY <1>4 DEF Search, mode, limit
  <2> QED
    BY <1>1, <2>1, SingleIds, LegFacts
<1> QED
  BY <1>1, <1>2, <1>3, <1>4 DEF Modes

\* Of two given rankings the chunks out of scope take no place in an answer, at
\* the legs' limits or at the last (retrieval_service.py:39-42), whatever limits and
\* weights.  How the indexes come by their rankings is left open, and with it what
\* other users' chunks do to them.
THEOREM ScopeComesFirst == Spec => []ScopeBeforeLimit
<1>1. ASSUME RankingsInv, NEW r \in Requests, NEW scope, scope = Scope(r.user, r.document)
      PROVE  /\ ToSet(Ids(Search(nearest, matching, r))) \subseteq scope
             /\ Search(nearest, matching, r)
                  = Search(Only(nearest, scope), Only(matching, scope), r)
  <2>1. /\ \A n : Leg(Only(nearest, scope), r.user, r.document, n)
                   = Leg(nearest, r.user, r.document, n)
        /\ \A n : Leg(Only(matching, scope), r.user, r.document, n)
                   = Leg(matching, r.user, r.document, n)
    BY <1>1, LegOfScope DEF RankingsInv
  <2>2. Search(nearest, matching, r) = Search(Only(nearest, scope), Only(matching, scope), r)
    BY <2>1 DEF Search, SingleLeg, Hybrid
  <2> QED
    BY <1>1, <2>2, ShownInScope DEF RankingsInv
<1>2. RankingsInv => ScopeBeforeLimit
  BY <1>1 DEF ScopeBeforeLimit
<1> QED
  BY <1>2, RankingsStay, PTL

-----------------------------------------------------------------------------
(* What the answer says *)

\* A row of the fusion carries the scores of the legs that found it.
LEMMA RowsTell ==
    ASSUME NEW v \in Ranking, NEW t \in Ranking, NEW row \in Merged(v, t)
    PROVE  /\ row.id \in ToSet(v) \/ row.id \in ToSet(t)
           /\ row.vector_score # NoScore <=> row.id \in ToSet(v)
           /\ row.text_score # NoScore <=> row.id \in ToSet(t)
<1>1. row.id \in Found(v, t) /\ row = FusedRow(v, t, row.id)
  BY MergedGrouped
<1>2. row.id \in Chunks
  BY <1>1, RankOf DEF Found
<1>3. Native("vector", row.id) # NoScore /\ Native("text", row.id) # NoScore
  BY <1>2, Parameters DEF Native
<1>4. /\ row.vector_score = CarriedScore("vector", Copies(v, t, row.id), row.id)
      /\ row.text_score = CarriedScore("text", Copies(v, t, row.id), row.id)
  BY <1>1 DEF FusedRow, Row
<1>5. /\ "vector" \in Copies(v, t, row.id) <=> row.id \in ToSet(v)
      /\ "text" \in Copies(v, t, row.id) <=> row.id \in ToSet(t)
  BY DEF Copies
<1>6. ASSUME NEW name, Native(name, row.id) # NoScore, NEW copies
      PROVE  CarriedScore(name, copies, row.id) # NoScore <=> name \in copies
  <2> DEFINE present == {Field(name, copy, row.id) : copy \in copies} \ {NoScore}
  <2>1. present # {} <=> name \in copies
    BY <1>6 DEF Field
  <2>2. CarriedScore(name, copies, row.id)
          = IF present = {} THEN NoScore ELSE CHOOSE score \in present : TRUE
    BY DEF CarriedScore
  <2>3. NoScore \notin present
    OBVIOUS
  <2> HIDE DEF present
  <2> QED
    BY <2>1, <2>2, <2>3
<1> QED
  BY <1>1, <1>3, <1>4, <1>5, <1>6 DEF Found

\* Every row of an answer tells which legs found it, by the mode and its scores
\* alone (schemas/search.py:62-78), and there is no answer from fewer legs than the
\* mode asks for.
THEOREM AnswersTell == Spec => []AnswerTellsItsLegs
<1>1. ASSUME RankingsInv, NEW r \in Requests, NEW up \in BOOLEAN,
             NEW answer, answer = Respond(nearest, matching, r, up)
      PROVE  LET in(leg, c) ==
                   c \in ToSet(Leg(leg, r.user, r.document, FetchK(ResolveLimit(r.limit))))
             IN /\ answer.status = 500 => ~up /\ r.mode # "text"
                /\ answer.status = 200 =>
                     \A row \in ToSet(answer.results) :
                        IF answer.mode = "hybrid"
                        THEN /\ up /\ (in(nearest, row.id) \/ in(matching, row.id))
                             /\ row.vector_score # NoScore <=> in(nearest, row.id)
                             /\ row.text_score # NoScore <=> in(matching, row.id)
                        ELSE /\ up \/ answer.mode = "text"
                             /\ row.score = Native(answer.mode, row.id)
                             /\ row.vector_score = NoScore /\ row.text_score = NoScore
  <2> DEFINE mode == ResolveMode(r.mode)
             limit == ResolveLimit(r.limit)
             in(leg, c) == c \in ToSet(Leg(leg, r.user, r.document, FetchK(limit)))
             Tells(row) ==
                IF mode = "hybrid"
                THEN /\ in(nearest, row.id) \/ in(matching, row.id)
                     /\ row.vector_score # NoScore <=> in(nearest, row.id)
                     /\ row.text_score # NoScore <=> in(matching, row.id)
                ELSE /\ row.score = Native(mode, row.id)
                     /\ row.vector_score = NoScore /\ row.text_score = NoScore
  <2>1. /\ mode \in Modes /\ limit \in Nat
        /\ (r.mode = "text" => mode = "text")
    BY Resolved, Parameters DEF ResolveMode, Modes
  <2>2. CASE ~Valid(r)
    BY <1>1, <2>2 DEF Respond
  <2>3. CASE Valid(r) /\ mode # "text" /\ ~up
    BY <1>1, <2>1, <2>3 DEF Respond
  <2>4. CASE Valid(r) /\ (mode = "text" \/ up)
    <3>1. /\ answer.status = 200 /\ answer.mode = mode
          /\ answer.results = Search(nearest, matching, r)
      BY <1>1, <2>4 DEF Respond
    <3>2. ASSUME mode = "hybrid", NEW row \in ToSet(answer.results) PROVE Tells(row)
      <4> DEFINE vectorLeg == VectorLeg(r, nearest)
                 textLeg == VectorLeg(r, matching)
                 rows == Merged(vectorLeg, textLeg)
      <4>1. r \in HybridRequests
        BY <3>2 DEF HybridRequests
      <4>2. /\ vectorLeg \in Ranking /\ textLeg \in Ranking
            /\ answer.results = First(limit, Sorted(rows))
        BY <1>1, <3>1, <4>1, HybridAnswer DEF RankingsInv, Answer
      <4>3. row \in rows
        <5> DEFINE length == Least(limit, Cardinality(Found(vectorLeg, textLeg)))
        <5> HIDE DEF vectorLeg, textLeg
        <5>1. ShowsBest(answer.results, rows, length)
          BY <2>1, <4>2, HybridShows
        <5> HIDE DEF rows, length
        <5> QED
          BY <3>2, <5>1 DEF ShowsBest, ToSet
      <4> HIDE DEF vectorLeg, textLeg
      <4>4. /\ row.id \in ToSet(vectorLeg) \/ row.id \in ToSet(textLeg)
            /\ row.vector_score # NoScore <=> row.id \in ToSet(vectorLeg)
            /\ row.text_score # NoScore <=> row.id \in ToSet(textLeg)
        BY <4>2, <4>3, RowsTell
      <4> QED
        BY <3>2, <4>4 DEF vectorLeg, textLeg, VectorLeg
    <3>3. ASSUME mode # "hybrid", NEW row \in ToSet(answer.results) PROVE Tells(row)
      <4>1. PICK ranking \in {nearest, matching} :
               answer.results = SingleLeg(mode, ranking, r.user, r.document, limit)
        BY <2>1, <3>1, <3>3 DEF Search, Modes
      <4>2. PICK i \in DOMAIN answer.results : row = answer.results[i]
        BY <3>3 DEF ToSet
      <4>3. \E c : row = Row(c, Native(mode, c), NoScore, NoScore)
        BY <4>1, <4>2 DEF SingleLeg
      <4> QED
        BY <3>3, <4>3 DEF Row
    <3> HIDE DEF mode, limit
    <3>4. \A row \in ToSet(answer.results) : Tells(row)
      BY <3>2, <3>3
    <3> HIDE DEF in
    <3>5. up \/ mode = "text"
      BY <2>4
    <3>6. \A row \in ToSet(answer.results) :
             IF answer.mode = "hybrid"
             THEN /\ up /\ (in(nearest, row.id) \/ in(matching, row.id))
                  /\ row.vector_score # NoScore <=> in(nearest, row.id)
                  /\ row.text_score # NoScore <=> in(matching, row.id)
             ELSE /\ up \/ answer.mode = "text"
                  /\ row.score = Native(answer.mode, row.id)
                  /\ row.vector_score = NoScore /\ row.text_score = NoScore
      BY <3>1, <3>4, <3>5
    <3> QED
      BY <3>1, <3>6 DEF in, limit
  <2> QED
    BY <2>2, <2>3, <2>4
<1>2. RankingsInv => AnswerTellsItsLegs
  BY <1>1 DEF AnswerTellsItsLegs
<1> QED
  BY <1>2, RankingsStay, PTL

=============================================================================
